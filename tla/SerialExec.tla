----------------------------- MODULE SerialExec -----------------------------
(***************************************************************************)
(* What a serial executor promises: the jobs of one key run one at a time, *)
(* in the order they were submitted, and none that could run is kept       *)
(* waiting.  When a job ends is its own affair.                            *)
(***************************************************************************)
EXTENDS Naturals

CONSTANT Keys

VARIABLES
  jobs,     \* how many jobs were submitted; their numbers are the order
  pending,  \* per key, the jobs submitted and not finished
  active    \* per key, the jobs begun and not finished

vars == <<jobs, pending, active>>

Init ==
  /\ jobs = 0
  /\ pending = [k \in Keys |-> {}]
  /\ active = [k \in Keys |-> {}]

Submit(k) ==
  /\ jobs' = jobs + 1
  /\ pending' = [pending EXCEPT ![k] = @ \cup {jobs + 1}]
  /\ UNCHANGED active

\* The oldest job begins, and only when no other has.
Begin(k) ==
  /\ active[k] = {}
  /\ \E j \in pending[k] :
       /\ \A i \in pending[k] : j <= i
       /\ active' = [active EXCEPT ![k] = {j}]
  /\ UNCHANGED <<jobs, pending>>

End(k) ==
  /\ active[k] # {}
  /\ pending' = [pending EXCEPT ![k] = @ \ active[k]]
  /\ active' = [active EXCEPT ![k] = {}]
  /\ UNCHANGED jobs

Next == \E k \in Keys : Submit(k) \/ Begin(k) \/ End(k)

Safety == Init /\ [][Next]_vars

Spec == Safety /\ \A k \in Keys : WF_vars(Begin(k))
=============================================================================
