------------------------------ MODULE SyncQueue ------------------------------
(***************************************************************************)
(* The promise chain of syncPythonDocumentToHost (vscode-extension/src/    *)
(* extension.js 1737-1757): hostSyncRunsByLinkKey holds, per link key, the *)
(* promise of the last sync run asked for; a new run waits for it, an      *)
(* automatic one is merged into it (coalesce).  A run the user asked for   *)
(* may open one dialog, and then waits as long as the user lets it.        *)
(*                                                                         *)
(* A run is registered under the link key its document has when the call   *)
(* is made, and reads the key again when it starts work (line 1495).  The  *)
(* key of a restored Python document changes when the custom editor of its *)
(* workflow opens and the session is attached (1020-1036).                 *)
(***************************************************************************)
EXTENDS Naturals, Sequences

CONSTANTS
  Docs,        \* open Python documents
  Keys,        \* link keys
  OwnKey,      \* [Docs -> Keys]: the document's own URI
  WorkflowKey, \* [Docs -> Keys]: the URI of its workflow, once there is a session
  MaxRuns      \* bound on the runs asked for

ASSUME KeysAssumption ==
  /\ OwnKey \in [Docs -> Keys] /\ WorkflowKey \in [Docs -> Keys]
  /\ MaxRuns \in Nat

VARIABLES
  runs,     \* every run asked for, in order
  last,     \* hostSyncRunsByLinkKey: [Keys -> index of a run, or 0]
  attached  \* documents whose workflow session exists

vars == <<runs, last, attached>>

States == {"waiting", "started", "working", "asking", "answered", "settled"}

\* key is the key registered; acts the key the run reads, links and writes by.
Run == [doc : Docs, silent : BOOLEAN, key : Keys, prior : Nat, acts : Keys, state : States]

TypeOK ==
  /\ runs \in Seq(Run)
  /\ last \in [Keys -> Nat]
  /\ attached \in SUBSET Docs

LinkKey(d) == IF d \in attached THEN WorkflowKey[d] ELSE OwnKey[d]

\* Mutant: only a run with nothing before it in the whole list is waited for.
SettledIfOldest(r) == r = 1 => runs[r].state = "settled"

\* The promise of run r, if there is one, has settled.
Settled(r) == r # 0 => runs[r].state = "settled"

Init ==
  /\ runs = <<>>
  /\ last = [k \in Keys |-> 0]
  /\ attached \in SUBSET Docs

\* A run with this prior, as it is registered.
NewRun(d, silent, prior) ==
  [doc |-> d, silent |-> silent, key |-> LinkKey(d), prior |-> prior,
   acts |-> LinkKey(d), state |-> "waiting"]

\* Mutant: the run registers its own promise before it looks for a prior one.
RequestBehindItself(d, silent) ==
  LET key == LinkKey(d)
      run == NewRun(d, silent, Len(runs) + 1)
  IN /\ silent => last[key] = 0
     /\ Len(runs) < MaxRuns
     /\ runs' = Append(runs, run)
     /\ last' = [last EXCEPT ![key] = Len(runs) + 1]
     /\ UNCHANGED attached

\* A run is asked for: behind `existing' if there is one.  (An automatic
\* request that finds one is given its promise instead: nothing changes.)
Request(d, silent) ==
  LET key == LinkKey(d)
      run == NewRun(d, silent, last[key])
  IN /\ silent => last[key] = 0
     /\ Len(runs) < MaxRuns
     /\ runs' = Append(runs, run)
     /\ last' = [last EXCEPT ![key] = Len(runs) + 1]
     /\ UNCHANGED attached

\* Mutant: the run does not wait for the prior promise.
StartAtOnce(r) ==
  /\ runs[r].state = "waiting"
  /\ runs' = [runs EXCEPT ![r].state = "started"]
  /\ UNCHANGED <<last, attached>>

\* The prior promise has settled, fulfilled or rejected.
Start(r) ==
  /\ runs[r].state = "waiting" /\ Settled(runs[r].prior)
  /\ runs' = [runs EXCEPT ![r].state = "started"]
  /\ UNCHANGED <<last, attached>>

\* performPythonDocumentHostSync, past the bridge check.
ReadKey(r) ==
  /\ runs[r].state = "started"
  /\ runs' = [runs EXCEPT ![r].state = "working", ![r].acts = LinkKey(runs[r].doc)]
  /\ UNCHANGED <<last, attached>>

\* The run asks for a name, what to do about a missing record, or which version
\* wins: one dialog at most, and it has no time limit.
Ask(r) ==
  /\ runs[r].state = "working" /\ ~runs[r].silent
  /\ runs' = [runs EXCEPT ![r].state = "asking"]
  /\ UNCHANGED <<last, attached>>

Answer(r) ==
  /\ runs[r].state = "asking"
  /\ runs' = [runs EXCEPT ![r].state = "answered"]
  /\ UNCHANGED <<last, attached>>

\* Mutant: the finally clears the registration whoever holds it.
SettleAndForget(r) ==
  /\ runs[r].state \in {"started", "working", "answered"}
  /\ runs' = [runs EXCEPT ![r].state = "settled"]
  /\ last' = [last EXCEPT ![runs[r].key] = 0]
  /\ UNCHANGED attached

\* The run fulfils or rejects, and its finally clears the registration unless
\* a later run has taken its place.
Settle(r) ==
  /\ runs[r].state \in {"started", "working", "answered"}
  /\ runs' = [runs EXCEPT ![r].state = "settled"]
  /\ last' = [last EXCEPT ![runs[r].key] = IF @ = r THEN 0 ELSE @]
  /\ UNCHANGED attached

AttachSession(d) ==
  /\ d \notin attached /\ attached' = attached \cup {d}
  /\ UNCHANGED <<runs, last>>

\* What a run does without the user.
RunStep(r) == Start(r) \/ ReadKey(r) \/ Settle(r)

Next ==
  \/ \E d \in Docs, silent \in BOOLEAN : Request(d, silent)
  \/ \E d \in Docs : AttachSession(d)
  \/ \E r \in DOMAIN runs : RunStep(r) \/ Ask(r) \/ Answer(r)

Spec == Init /\ [][Next]_vars

\* Promises that can run do run, and the commands a run awaits have time limits.
\* A dialog has none: the user owes no answer.
FairSpec ==
  Spec /\ \A r \in 1..MaxRuns : WF_vars(r \in DOMAIN runs /\ RunStep(r))
-----------------------------------------------------------------------------
Executing(r) == runs[r].state \notin {"waiting", "settled"}

\* Of the runs registered under one key, at most one is being executed: this
\* is what lets a run use the link and the baseline it read at its start.
OneRunPerKey ==
  \A q, r \in DOMAIN runs :
    (q # r /\ runs[q].key = runs[r].key) => ~(Executing(q) /\ Executing(r))

\* README.md 256, "Host operations are serialized per document": two runs of one
\* document are never both past the reading of its link.  It fails where the key
\* changes: the run asked for before AttachSession and the one after it have different
\* keys, and may even read the same link.  No configuration checks it.
OneRunPerDocument ==
  \A q, r \in DOMAIN runs :
    (q # r /\ runs[q].doc = runs[r].doc)
      => ~({runs[q].state, runs[r].state} \subseteq {"working", "asking", "answered"})

\* No run overtakes an earlier one of its key.
InOrder ==
  \A q, r \in DOMAIN runs :
    (q < r /\ runs[q].key = runs[r].key /\ runs[r].state # "waiting")
       => runs[q].state = "settled"

\* While a run is unsettled its key stays registered, so that a later request
\* finds it: no run is forgotten by the map.
Registered ==
  \A r \in DOMAIN runs : runs[r].state # "settled" => last[runs[r].key] >= r

\* A dialog is open of the run, or of one before it under its key.
AwaitsUser(r) ==
  /\ r \in DOMAIN runs
  /\ \E q \in 1..r : runs[q].key = runs[r].key /\ runs[q].state = "asking"

\* Every run asked for is executed to its end, unless the user leaves a dialog of
\* its key open for ever: dialogs of other keys, failures and merged requests hold
\* up nobody.
EveryRunSettles ==
  \A r \in 1..MaxRuns :
    (r \in DOMAIN runs) ~> ((r \in DOMAIN runs /\ Settled(r)) \/ []AwaitsUser(r))

Unsettled(k) == {r \in DOMAIN runs : runs[r].key = k /\ runs[r].state # "settled"}
InExecution(k) == {r \in DOMAIN runs : runs[r].key = k /\ Executing(r)}

Serial == INSTANCE SerialExec WITH
            jobs <- Len(runs),
            pending <- [k \in Keys |-> Unsettled(k)],
            active <- [k \in Keys |-> InExecution(k)]

\* The map of promises is a serial executor per key: a run begins as soon as all
\* before it under its key have ended.
ExecutesSerially == Serial!Spec
=============================================================================
