----------------------------- MODULE MCLiveSync -----------------------------
(***************************************************************************)
(* Constants for model-checking LiveSync: two programs p1 and p2; a and a2 *)
(* are two texts of p1 (they differ in a comment), b is the text of p2 and *)
(* bad is no program at all.                                               *)
(***************************************************************************)
EXTENDS LiveSync

CONSTANTS p1, p2, a, a2, b, bad

MCCompile ==
  [t \in Texts |-> CASE t = b -> p2 [] t = bad -> None [] OTHER -> p1]
MCDecompile == [p \in Progs |-> IF p = p2 THEN b ELSE a]
=============================================================================
