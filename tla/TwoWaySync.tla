----------------------------- MODULE TwoWaySync -----------------------------
(***************************************************************************)
(* What two-way synchronisation promises (README.md 244-260): two sides,   *)
(* the state `base' both had when they were last synchronised, and five    *)
(* things the synchroniser may do.  A side that did not move since `base'  *)
(* may be overwritten; when both moved, only while the user attends: a     *)
(* synchroniser that runs by itself leaves both alone.                     *)
(*                                                                         *)
(* `edits' counts the user's changes, so that a change of the synchroniser *)
(* cannot pass for one of the user's.                                      *)
(***************************************************************************)
EXTENDS Naturals

CONSTANTS
  Lefts, Rights,       \* what the two sides can hold
  None,                \* a right side that does not exist; no base
  Create(_),           \* a new right side for a left one
  Overlay(_, _, _),    \* base, left, right: left's changes on top of right
  Render(_)            \* the left side that shows a right one

VARIABLES
  left, right, base,
  attended,            \* did the user ask for what the synchroniser does?
  edits

vars == <<left, right, base, attended, edits>>

Bases == [left : Lefts, right : Rights]

TypeOK ==
  /\ left \in Lefts
  /\ right \in Rights \cup {None}
  /\ base \in Bases \cup {None}
  /\ attended \in BOOLEAN
  /\ edits \in Nat

Init ==
  /\ left \in Lefts /\ right \in Rights \cup {None} /\ edits \in Nat
  /\ base \in {None, [left |-> left, right |-> right]}
  /\ base # None => right # None
  /\ attended \in BOOLEAN

LeftMoved == left # base.left
RightMoved == right # base.right

Edit ==
  /\ edits' = edits + 1
  /\ left' \in Lefts /\ right' \in Rights \cup {None}
  /\ left' = left \/ right' = right
  /\ UNCHANGED <<base, attended>>

Attend == attended' = ~attended /\ UNCHANGED <<left, right, base, edits>>

SyncedAs(l, r) ==
  /\ left' = l /\ right' = r /\ base' = [left |-> l, right |-> r]
  /\ UNCHANGED <<attended, edits>>

\* Nothing is there to overwrite.
New == right = None /\ SyncedAs(left, Create(left))

\* Both sides exist and were never compared: take them as they are.
Adopt == right # None /\ base = None /\ SyncedAs(left, right)

\* The moved side wins over the one that did not move.
Push == /\ base # None /\ right # None /\ LeftMoved /\ ~RightMoved
        /\ SyncedAs(left, Overlay(base, left, right))
Pull == /\ base # None /\ right # None /\ RightMoved /\ ~LeftMoved
        /\ SyncedAs(Render(right), right)

\* Both moved: the user chooses a side.
Resolve ==
  /\ attended
  /\ base # None /\ right # None /\ LeftMoved /\ RightMoved
  /\ \/ SyncedAs(left, Overlay(base, left, right))
     \/ SyncedAs(Render(right), right)

Forget == base # None /\ base' = None /\ right' = None /\ UNCHANGED <<left, attended, edits>>

Next == Edit \/ Attend \/ New \/ Adopt \/ Push \/ Pull \/ Resolve \/ Forget

Spec == Init /\ [][Next]_vars
=============================================================================
