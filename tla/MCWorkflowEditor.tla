-------------------------- MODULE MCWorkflowEditor --------------------------
(* Three programs: two are converted to a text of each, the third to a text    *)
(* that the compiler rejects.                                                  *)
EXTENDS WorkflowEditor

MCTexts == {"t1", "t2", "bad"}
MCProgs == {"p1", "p2", "p3"}
MCCompile == [t1 |-> "p1", t2 |-> "p2", bad |-> None]
MCConvert == [p1 |-> "t1", p2 |-> "t2", p3 |-> "bad"]
=============================================================================
