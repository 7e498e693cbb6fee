--------------------------- MODULE SyncQueueProofs ---------------------------
(***************************************************************************)
(* SyncQueue keeps the runs of a link key apart, and so implements a       *)
(* serial executor, for any documents, any keys and any number of runs.    *)
(***************************************************************************)
EXTENDS SyncQueue, SequenceTheorems, TLAPS

\* `prior' is the youngest earlier run of the key that may be unsettled, and
\* the registration is the youngest run of its key.
Linked ==
  /\ \A r \in DOMAIN runs :
       /\ runs[r].prior < r
       /\ runs[r].prior # 0 => /\ runs[r].prior \in DOMAIN runs
                               /\ runs[runs[r].prior].key = runs[r].key
  /\ \A q, r \in DOMAIN runs :
       (q < r /\ runs[q].key = runs[r].key /\ runs[q].state # "settled")
         => q <= runs[r].prior
  /\ \A k \in Keys :
       last[k] # 0 => last[k] \in DOMAIN runs /\ runs[last[k]].key = k

IInv == TypeOK /\ Linked /\ InOrder /\ Registered

\* Every run of the list is a run.
LEMMA RunFacts ==
  ASSUME TypeOK, NEW r \in DOMAIN runs
  PROVE  /\ r \in Nat /\ 0 < r
         /\ runs[r] \in Run
         /\ runs[r].key \in Keys /\ runs[r].doc \in Docs
         /\ runs[r].prior \in Nat /\ runs[r].acts \in Keys
         /\ runs[r].silent \in BOOLEAN
         /\ LinkKey(runs[r].doc) \in Keys
<1>1. r \in Nat /\ 0 < r /\ runs[r] \in Run
  BY DEF TypeOK
<1> QED BY <1>1, KeysAssumption DEF TypeOK, Run, LinkKey

\* A step of an existing run: it stays where it is, under its key and behind
\* its prior.
LEMMA StepFacts ==
  ASSUME TypeOK, NEW r \in DOMAIN runs, NEW e \in Run,
         e.key = runs[r].key, e.prior = runs[r].prior,
         runs' = [runs EXCEPT ![r] = e]
  PROVE  /\ runs' \in Seq(Run) /\ DOMAIN runs' = DOMAIN runs
         /\ \A q \in DOMAIN runs :
              /\ runs'[q].key = runs[q].key /\ runs'[q].prior = runs[q].prior
              /\ q # r => runs'[q] = runs[q]
         /\ runs'[r] = e
<1>1. runs' \in Seq(Run) /\ DOMAIN runs' = DOMAIN runs
  BY ExceptSeq DEF TypeOK
<1>2. \A q \in DOMAIN runs : runs'[q] = IF q = r THEN e ELSE runs[q]
  OBVIOUS
<1> QED BY <1>1, <1>2

LEMMA InitIInv == Init => IInv
  BY KeysAssumption
     DEF Init, IInv, TypeOK, Linked, InOrder, Registered, Run

LEMMA RequestKeeps ==
  ASSUME IInv, NEW d \in Docs, NEW silent \in BOOLEAN, Request(d, silent)
  PROVE  IInv'
<1> DEFINE n == Len(runs) + 1
           key == LinkKey(d)
           new == NewRun(d, silent, last[key])
<1>1. /\ key \in Keys /\ new \in Run /\ n \in Nat \ {0}
      /\ new.key = key /\ new.prior = last[key] /\ new.state = "waiting"
  BY KeysAssumption DEF IInv, TypeOK, LinkKey, Run, States, NewRun
<1>2. /\ runs' = Append(runs, new) /\ runs' \in Seq(Run)
      /\ Len(runs') = n /\ DOMAIN runs' = DOMAIN runs \cup {n}
      /\ n \notin DOMAIN runs
      /\ runs'[n] = new
      /\ \A q \in DOMAIN runs : runs'[q] = runs[q]
      /\ \A q \in DOMAIN runs : q \in Nat /\ 0 < q /\ q < n
  <2>1. runs' = Append(runs, new)
    BY DEF Request
  <2> HIDE DEF new
  <2> QED BY <1>1, <2>1 DEF IInv, TypeOK
<1>3. last' = [last EXCEPT ![key] = n] /\ attached' = attached
  BY DEF Request
<1> HIDE DEF new
<1>4. TypeOK'
  BY <1>1, <1>2, <1>3 DEF IInv, TypeOK
<1>5. last[key] < n /\ (last[key] # 0 => last[key] \in DOMAIN runs /\ runs[last[key]].key = key)
  BY <1>1, <1>2 DEF IInv, TypeOK, Linked
<1>6. Linked'
  <2>1. \A r \in DOMAIN runs' :
          /\ runs'[r].prior < r
          /\ runs'[r].prior # 0 => /\ runs'[r].prior \in DOMAIN runs'
                                   /\ runs'[runs'[r].prior].key = runs'[r].key
    BY <1>1, <1>2, <1>5 DEF IInv, Linked
  <2>2. ASSUME NEW q \in DOMAIN runs', NEW r \in DOMAIN runs', q < r,
               runs'[q].key = runs'[r].key, runs'[q].state # "settled"
        PROVE  q <= runs'[r].prior
    <3>1. q \in DOMAIN runs
      BY <1>1, <1>2, <2>2
    <3>2. CASE r \in DOMAIN runs
      BY <1>2, <2>2, <3>1, <3>2 DEF IInv, Linked
    <3>3. CASE r = n
      BY <1>1, <1>2, <2>2, <3>1, <3>3 DEF IInv, Registered
    <3> QED BY <1>2, <3>2, <3>3
  <2>3. \A k \in Keys : last'[k] # 0 => last'[k] \in DOMAIN runs' /\ runs'[last'[k]].key = k
    BY <1>1, <1>2, <1>3 DEF IInv, Linked, TypeOK
  <2> QED BY <2>1, <2>2, <2>3 DEF Linked
<1>7. InOrder'
  BY <1>1, <1>2 DEF IInv, InOrder
<1>8. Registered'
  <2> SUFFICES ASSUME NEW r \in DOMAIN runs', runs'[r].state # "settled"
               PROVE  last'[runs'[r].key] >= r
    BY DEF Registered
  <2>1. CASE r = n
    BY <1>1, <1>2, <1>3, <2>1 DEF IInv, TypeOK
  <2>2. CASE r \in DOMAIN runs
    BY <1>1, <1>2, <1>3, <2>2 DEF IInv, TypeOK, Registered, Run
  <2> QED BY <1>2, <2>1, <2>2
<1> QED BY <1>4, <1>6, <1>7, <1>8 DEF IInv

LEMMA StartKeeps ==
  ASSUME IInv, NEW r \in DOMAIN runs, Start(r)
  PROVE  IInv'
<1>1. /\ runs' \in Seq(Run) /\ DOMAIN runs' = DOMAIN runs
      /\ \A q \in DOMAIN runs :
           /\ runs'[q].key = runs[q].key /\ runs'[q].prior = runs[q].prior
           /\ q # r => runs'[q] = runs[q]
      /\ runs'[r].state = "started" /\ runs[r].state = "waiting"
      /\ last' = last /\ attached' = attached
  <2> DEFINE e == [runs[r] EXCEPT !.state = "started"]
  <2>1. e \in Run /\ e.key = runs[r].key /\ e.prior = runs[r].prior /\ e.state = "started"
    BY RunFacts DEF IInv, Run, States
  <2>2. runs' = [runs EXCEPT ![r] = e] /\ runs[r].state = "waiting" /\ UNCHANGED <<last, attached>>
    BY DEF Start
  <2> HIDE DEF e
  <2> QED BY <2>1, <2>2, StepFacts DEF IInv
<1>2. \A q \in DOMAIN runs : q \in Nat /\ 0 < q
  BY DEF IInv, TypeOK
\* The run's prior has settled, so every earlier run of the key has.
<1>3. ASSUME NEW q \in DOMAIN runs, q < r, runs[q].key = runs[r].key
      PROVE  runs[q].state = "settled"
  <2> DEFINE p == runs[r].prior
  <2> SUFFICES ASSUME runs[q].state # "settled" PROVE FALSE
    OBVIOUS
  <2>1. q <= p /\ p < r /\ p \in Nat
    BY <1>3, RunFacts DEF IInv, Linked
  <2>2. p # 0 /\ p \in DOMAIN runs /\ runs[p].key = runs[r].key
    BY <1>2, <1>3, <2>1 DEF IInv, Linked
  <2>3. runs[p].state = "settled"
    BY <2>2 DEF Start, Settled
  <2>4. q < p
    BY <1>2, <2>1, <2>3
  <2> QED BY <1>3, <2>2, <2>3, <2>4 DEF IInv, InOrder
<1>4. TypeOK'
  BY <1>1 DEF IInv, TypeOK
<1>5. Linked'
  <2>1. \A q \in DOMAIN runs : runs'[q].state # "settled" => runs[q].state # "settled"
    BY <1>1
  <2> QED BY <1>1, <2>1 DEF IInv, Linked
<1>6. InOrder'
  BY <1>1, <1>3 DEF IInv, InOrder
<1>7. Registered'
  BY <1>1 DEF IInv, Registered
<1> QED BY <1>4, <1>5, <1>6, <1>7 DEF IInv

\* A run in execution goes on: what it holds besides may change.
LEMMA GoesOnKeeps ==
  ASSUME IInv, NEW r \in DOMAIN runs, Executing(r), NEW e \in Run,
         e.key = runs[r].key, e.prior = runs[r].prior,
         e.state \notin {"waiting", "settled"},
         runs' = [runs EXCEPT ![r] = e], UNCHANGED <<last, attached>>
  PROVE  IInv'
<1>1. /\ runs' \in Seq(Run) /\ DOMAIN runs' = DOMAIN runs
      /\ \A q \in DOMAIN runs :
           /\ runs'[q].key = runs[q].key /\ runs'[q].prior = runs[q].prior
           /\ q # r => runs'[q] = runs[q]
      /\ runs'[r].state \notin {"waiting", "settled"}
      /\ runs[r].state \notin {"waiting", "settled"}
      /\ last' = last /\ attached' = attached
  BY StepFacts DEF IInv, Executing
<1>2. TypeOK'
  BY <1>1 DEF IInv, TypeOK
<1>3. Linked'
  BY <1>1 DEF IInv, Linked
<1>4. InOrder' /\ Registered'
  BY <1>1 DEF IInv, InOrder, Registered
<1> QED BY <1>2, <1>3, <1>4 DEF IInv

\* Reading the key, opening a dialog and its answer are such steps.
LEMMA GoesOnFacts ==
  ASSUME IInv, NEW r \in DOMAIN runs, ReadKey(r) \/ Ask(r) \/ Answer(r)
  PROVE  /\ Executing(r) /\ UNCHANGED <<last, attached>>
         /\ \E e \in Run :
              /\ e.key = runs[r].key /\ e.prior = runs[r].prior
              /\ e.state \notin {"waiting", "settled"}
              /\ runs' = [runs EXCEPT ![r] = e]
<1>1. CASE ReadKey(r)
  <2> DEFINE e == [runs[r] EXCEPT !.state = "working", !.acts = LinkKey(runs[r].doc)]
  <2>1. e \in Run /\ e.key = runs[r].key /\ e.prior = runs[r].prior /\ e.state = "working"
    BY RunFacts DEF IInv, Run, States
  <2>2. /\ runs' = [runs EXCEPT ![r] = e] /\ runs[r].state = "started"
        /\ UNCHANGED <<last, attached>>
    BY <1>1 DEF ReadKey
  <2> HIDE DEF e
  <2> QED BY <2>1, <2>2 DEF Executing
<1>2. CASE Ask(r)
  <2> DEFINE e == [runs[r] EXCEPT !.state = "asking"]
  <2>1. e \in Run /\ e.key = runs[r].key /\ e.prior = runs[r].prior /\ e.state = "asking"
    BY RunFacts DEF IInv, Run, States
  <2>2. /\ runs' = [runs EXCEPT ![r] = e] /\ runs[r].state = "working"
        /\ UNCHANGED <<last, attached>>
    BY <1>2 DEF Ask
  <2> HIDE DEF e
  <2> QED BY <2>1, <2>2 DEF Executing
<1>3. CASE Answer(r)
  <2> DEFINE e == [runs[r] EXCEPT !.state = "answered"]
  <2>1. e \in Run /\ e.key = runs[r].key /\ e.prior = runs[r].prior /\ e.state = "answered"
    BY RunFacts DEF IInv, Run, States
  <2>2. /\ runs' = [runs EXCEPT ![r] = e] /\ runs[r].state = "asking"
        /\ UNCHANGED <<last, attached>>
    BY <1>3 DEF Answer
  <2> HIDE DEF e
  <2> QED BY <2>1, <2>2 DEF Executing
<1> QED BY <1>1, <1>2, <1>3

LEMMA SettleKeeps ==
  ASSUME IInv, NEW r \in DOMAIN runs, Settle(r)
  PROVE  IInv'
<1>1. /\ runs' \in Seq(Run) /\ DOMAIN runs' = DOMAIN runs
      /\ \A q \in DOMAIN runs :
           /\ runs'[q].key = runs[q].key /\ runs'[q].prior = runs[q].prior
           /\ q # r => runs'[q] = runs[q]
      /\ runs'[r].state = "settled" /\ runs[r].state # "waiting"
      /\ attached' = attached
  <2> DEFINE e == [runs[r] EXCEPT !.state = "settled"]
  <2>1. e \in Run /\ e.key = runs[r].key /\ e.prior = runs[r].prior /\ e.state = "settled"
    BY RunFacts DEF IInv, Run, States
  <2>2. runs' = [runs EXCEPT ![r] = e] /\ runs[r].state # "waiting" /\ UNCHANGED attached
    BY DEF Settle
  <2> HIDE DEF e
  <2> QED BY <2>1, <2>2, StepFacts DEF IInv
<1> DEFINE k == runs[r].key
<1>2. /\ k \in Keys /\ last' \in [Keys -> Nat]
      /\ \A j \in Keys : j # k => last'[j] = last[j]
      /\ last'[k] = IF last[k] = r THEN 0 ELSE last[k]
  BY RunFacts DEF Settle, IInv, TypeOK
<1>3. TypeOK'
  BY <1>1, <1>2 DEF IInv, TypeOK
<1>4. Linked'
  <2>1. \A q \in DOMAIN runs : runs'[q].state # "settled" => runs[q].state # "settled"
    BY <1>1
  <2>2. \A j \in Keys : last'[j] # 0 => last'[j] = last[j]
    BY <1>2
  <2>3. \A q \in DOMAIN runs' :
          /\ runs'[q].prior < q
          /\ runs'[q].prior # 0 => /\ runs'[q].prior \in DOMAIN runs'
                                   /\ runs'[runs'[q].prior].key = runs'[q].key
    BY <1>1 DEF IInv, Linked
  <2>4. \A p, q \in DOMAIN runs' :
          (p < q /\ runs'[p].key = runs'[q].key /\ runs'[p].state # "settled")
            => p <= runs'[q].prior
    BY <1>1, <2>1 DEF IInv, Linked
  <2>5. \A j \in Keys : last'[j] # 0 => last'[j] \in DOMAIN runs' /\ runs'[last'[j]].key = j
    BY <1>1, <2>2 DEF IInv, Linked
  <2> QED BY <2>3, <2>4, <2>5 DEF Linked
<1>5. InOrder'
  BY <1>1 DEF IInv, InOrder
\* When the registration is cleared it was r's, and what came before r under
\* its key had settled before r began.
<1>6. Registered'
  <2> SUFFICES ASSUME NEW q \in DOMAIN runs', runs'[q].state # "settled"
               PROVE  last'[runs'[q].key] >= q
    BY DEF Registered
  <2>1. q # r /\ q \in DOMAIN runs /\ runs'[q] = runs[q] /\ last[runs[q].key] >= q
    BY <1>1 DEF IInv, Registered
  <2>2. CASE runs[q].key = k /\ last[k] = r
    BY <1>1, <2>1, <2>2, RunFacts DEF IInv, InOrder
  <2>3. CASE ~(runs[q].key = k /\ last[k] = r)
    BY <1>1, <1>2, <2>1, <2>3, RunFacts DEF IInv
  <2> QED BY <2>2, <2>3
<1> QED BY <1>3, <1>4, <1>5, <1>6 DEF IInv

LEMMA StutterKeeps ==
  ASSUME IInv, UNCHANGED runs, UNCHANGED last, attached' \in SUBSET Docs
  PROVE  IInv'
  BY DEF IInv, TypeOK, Linked, InOrder, Registered

LEMMA NextIInv == IInv /\ [Next]_vars => IInv'
<1> SUFFICES ASSUME IInv, [Next]_vars PROVE IInv'
  OBVIOUS
<1>1. ASSUME NEW d \in Docs, NEW silent \in BOOLEAN, Request(d, silent) PROVE IInv'
  BY <1>1, RequestKeeps
<1>2. ASSUME NEW d \in Docs, AttachSession(d) PROVE IInv'
  BY <1>2, StutterKeeps DEF AttachSession, IInv, TypeOK
<1>3. ASSUME NEW r \in DOMAIN runs, RunStep(r) PROVE IInv'
  <2>1. CASE ReadKey(r)
    BY <2>1, GoesOnFacts, GoesOnKeeps
  <2> QED BY <1>3, <2>1, StartKeeps, SettleKeeps DEF RunStep
<1>4. ASSUME NEW r \in DOMAIN runs, Ask(r) \/ Answer(r) PROVE IInv'
  BY <1>4, GoesOnFacts, GoesOnKeeps
<1>5. CASE UNCHANGED vars
  BY <1>5, StutterKeeps DEF vars, IInv, TypeOK
<1> QED BY <1>1, <1>2, <1>3, <1>4, <1>5 DEF Next

\* Every reachable state satisfies the inductive invariant.
THEOREM Invariance == Spec => []IInv
  BY InitIInv, NextIInv, PTL DEF Spec

\* The runs of a link key never overtake one another (extension.js 1743).
THEOREM RunsInOrder == Spec => []InOrder
<1>1. IInv => InOrder
  BY DEF IInv
<1> QED BY <1>1, Invariance, PTL

\* An unsettled run is found by every later request for its key
\* (extension.js 1739-1754).
THEOREM RunsRegistered == Spec => []Registered
<1>1. IInv => Registered
  BY DEF IInv
<1> QED BY <1>1, Invariance, PTL

\* At most one run of a link key is being executed, whatever the number of
\* documents, requests and failures (README.md 256).
THEOREM RunsSerialized == Spec => []OneRunPerKey
<1>1. IInv => OneRunPerKey
  BY DEF IInv, TypeOK, InOrder, OneRunPerKey, Executing
<1> QED BY <1>1, Invariance, PTL
-----------------------------------------------------------------------------
(* The chain implements SerialExec *)

LEMMA InitSerial == Init => Serial!Init
<1> SUFFICES ASSUME Init PROVE Serial!Init
  OBVIOUS
<1>1. runs = <<>> /\ Len(runs) = 0 /\ DOMAIN runs = {}
  BY DEF Init
<1>2. \A k \in Keys : Unsettled(k) = {} /\ InExecution(k) = {}
  BY <1>1 DEF Unsettled, InExecution
<1> QED BY <1>1, <1>2 DEF Serial!Init

\* A request submits a job.
LEMMA RequestSubmits ==
  ASSUME IInv, NEW d \in Docs, NEW silent \in BOOLEAN, Request(d, silent)
  PROVE  Serial!Submit(LinkKey(d)) /\ LinkKey(d) \in Keys
<1> DEFINE n == Len(runs) + 1
           key == LinkKey(d)
           new == NewRun(d, silent, last[key])
<1>1. key \in Keys /\ n \in Nat \ {0}
  BY KeysAssumption DEF IInv, TypeOK, LinkKey
<1>2. /\ Len(runs') = n /\ DOMAIN runs' = DOMAIN runs \cup {n} /\ n \notin DOMAIN runs
      /\ runs'[n] = new
      /\ \A q \in DOMAIN runs : runs'[q] = runs[q]
  <2>1. runs' = Append(runs, new)
    BY DEF Request
  <2> HIDE DEF new
  <2> QED BY <2>1 DEF IInv, TypeOK
<1>3. new.key = key /\ new.state = "waiting"
  BY DEF NewRun
<1> HIDE DEF new
<1>4. ASSUME NEW k \in Keys
      PROVE  /\ Unsettled(k)' = IF k = key THEN Unsettled(k) \cup {n} ELSE Unsettled(k)
             /\ InExecution(k)' = InExecution(k)
  <2>1. Unsettled(k)' = IF k = key THEN Unsettled(k) \cup {n} ELSE Unsettled(k)
    BY <1>2, <1>3 DEF Unsettled
  <2>2. InExecution(k)' = InExecution(k)
    BY <1>2, <1>3 DEF InExecution, Executing
  <2> QED BY <2>1, <2>2
<1>5. [k \in Keys |-> Unsettled(k)]' =
        [[k \in Keys |-> Unsettled(k)] EXCEPT ![key] = @ \cup {n}]
  BY <1>1, <1>4
<1>6. [k \in Keys |-> InExecution(k)]' = [k \in Keys |-> InExecution(k)]
  BY <1>4
<1> QED BY <1>1, <1>2, <1>5, <1>6 DEF Serial!Submit

\* What a step of run r does to the two sets, by its states before and after.
LEMMA StepMaps ==
  ASSUME IInv, NEW r \in DOMAIN runs, NEW e \in Run, e.key = runs[r].key,
         runs' = [runs EXCEPT ![r] = e]
  PROVE  /\ Len(runs') = Len(runs) /\ runs[r].key \in Keys /\ r \in Nat
         /\ \A k \in Keys : k # runs[r].key =>
              Unsettled(k)' = Unsettled(k) /\ InExecution(k)' = InExecution(k)
         /\ Unsettled(runs[r].key)' =
              IF e.state = "settled" THEN Unsettled(runs[r].key) \ {r}
                                     ELSE Unsettled(runs[r].key) \cup {r}
         /\ InExecution(runs[r].key)' =
              IF e.state \in {"waiting", "settled"} THEN InExecution(runs[r].key) \ {r}
                                                    ELSE InExecution(runs[r].key) \cup {r}
<1>1. /\ DOMAIN runs' = DOMAIN runs /\ Len(runs') = Len(runs) /\ runs[r].key \in Keys /\ r \in Nat
      /\ runs'[r] = e /\ \A q \in DOMAIN runs : q # r => runs'[q] = runs[q]
  BY RunFacts DEF IInv, TypeOK
<1>2. \A k \in Keys : k # runs[r].key =>
        Unsettled(k)' = Unsettled(k) /\ InExecution(k)' = InExecution(k)
  BY <1>1 DEF Unsettled, InExecution, Executing
<1>3. Unsettled(runs[r].key)' =
        IF e.state = "settled" THEN Unsettled(runs[r].key) \ {r}
                               ELSE Unsettled(runs[r].key) \cup {r}
  BY <1>1 DEF Unsettled
<1>4. InExecution(runs[r].key)' =
        IF e.state \in {"waiting", "settled"} THEN InExecution(runs[r].key) \ {r}
                                              ELSE InExecution(runs[r].key) \cup {r}
  BY <1>1 DEF InExecution, Executing
<1> QED BY <1>1, <1>2, <1>3, <1>4

\* Of the runs of a key, none is in execution while one that waits may start.
LEMMA StartBegins ==
  ASSUME IInv, IInv', NEW r \in DOMAIN runs, Start(r)
  PROVE  Serial!Begin(runs[r].key)
<1> DEFINE k == runs[r].key
           e == [runs[r] EXCEPT !.state = "started"]
<1>1. e \in Run /\ e.key = k /\ e.prior = runs[r].prior /\ e.state = "started"
  BY RunFacts DEF IInv, Run, States
<1>2. runs' = [runs EXCEPT ![r] = e] /\ runs[r].state = "waiting"
  BY DEF Start
<1> HIDE DEF e
<1>3. /\ k \in Keys /\ Len(runs') = Len(runs)
      /\ DOMAIN runs' = DOMAIN runs /\ runs'[r] = e
      /\ \A q \in DOMAIN runs : q # r => runs'[q] = runs[q]
      /\ \A q \in DOMAIN runs : q \in Nat
  BY <1>1, <1>2, RunFacts, StepFacts, StepMaps DEF IInv
<1>4. r \in Unsettled(k) /\ \A q \in Unsettled(k) : r <= q
  BY <1>1, <1>2, <1>3 DEF IInv, InOrder, Unsettled
<1>5. InExecution(k) = {}
  <2> SUFFICES ASSUME NEW q \in InExecution(k) PROVE FALSE
    OBVIOUS
  <2>1. q \in Unsettled(k) /\ runs[q].state # "waiting"
    BY DEF InExecution, Executing, Unsettled
  <2>2. r < q /\ runs[q].key = runs[r].key /\ q \in DOMAIN runs
    BY <1>2, <1>3, <1>4, <2>1 DEF Unsettled
  <2> QED BY <1>2, <2>1, <2>2 DEF IInv, InOrder
<1>6. \A j \in Keys : /\ Unsettled(j)' = Unsettled(j)
                      /\ InExecution(j)' = IF j = k THEN {r} ELSE InExecution(j)
  <2>1. /\ \A j \in Keys : j # k => Unsettled(j)' = Unsettled(j) /\ InExecution(j)' = InExecution(j)
        /\ Unsettled(k)' = Unsettled(k) \cup {r} /\ InExecution(k)' = InExecution(k) \cup {r}
    BY <1>1, <1>2, StepMaps
  <2>0. k' = k
    BY <1>1, <1>3
  <2> HIDE DEF k
  <2>2. Unsettled(k)' = Unsettled(k) /\ InExecution(k)' = {r}
    BY <1>4, <1>5, <2>1
  <2> QED BY <2>0, <2>1, <2>2
<1> HIDE DEF k
<1>7. [j \in Keys |-> Unsettled(j)]' = [j \in Keys |-> Unsettled(j)]
  BY <1>6
<1>8. [j \in Keys |-> InExecution(j)]' = [[j \in Keys |-> InExecution(j)] EXCEPT ![k] = {r}]
  BY <1>3, <1>6
<1>9. Serial!Begin(k)
  BY <1>3, <1>4, <1>5, <1>7, <1>8 DEF Serial!Begin
<1> QED BY <1>9 DEF k

LEMMA GoesOnStutters ==
  ASSUME IInv, NEW r \in DOMAIN runs, ReadKey(r) \/ Ask(r) \/ Answer(r)
  PROVE  UNCHANGED Serial!vars
<1>1. PICK e \in Run : /\ e.key = runs[r].key /\ e.state \notin {"waiting", "settled"}
                       /\ runs' = [runs EXCEPT ![r] = e]
  BY GoesOnFacts
<1>2. /\ DOMAIN runs' = DOMAIN runs /\ Len(runs') = Len(runs)
      /\ runs'[r] = e /\ Executing(r)
      /\ \A q \in DOMAIN runs : q # r => runs'[q] = runs[q]
  BY <1>1, GoesOnFacts, StepMaps, StepFacts DEF IInv, TypeOK
<1>3. \A q \in DOMAIN runs :
        /\ runs'[q].key = runs[q].key
        /\ (runs'[q].state # "settled") = (runs[q].state # "settled")
        /\ Executing(q)' = Executing(q)
  BY <1>1, <1>2 DEF Executing
<1>4. \A k \in Keys : Unsettled(k)' = Unsettled(k) /\ InExecution(k)' = InExecution(k)
  BY <1>2, <1>3 DEF Unsettled, InExecution
<1> QED BY <1>2, <1>4 DEF Serial!vars

\* The run that settles is the only one in execution.
LEMMA SettleEnds ==
  ASSUME IInv, NEW r \in DOMAIN runs, Settle(r)
  PROVE  Serial!End(runs[r].key)
<1> DEFINE k == runs[r].key
           e == [runs[r] EXCEPT !.state = "settled"]
<1>1. e \in Run /\ e.key = k /\ e.state = "settled"
  BY RunFacts DEF IInv, Run, States
<1>2. runs' = [runs EXCEPT ![r] = e] /\ runs[r].state \notin {"waiting", "settled"}
  BY DEF Settle
<1> HIDE DEF e
<1>3. k \in Keys /\ Len(runs') = Len(runs)
  BY <1>1, <1>2, StepMaps
<1>4. InExecution(k) = {r}
  <2>1. r \in InExecution(k)
    BY <1>2 DEF InExecution, Executing
  <2>2. ASSUME NEW q \in InExecution(k), q # r PROVE FALSE
    <3>1. q \in DOMAIN runs /\ runs[q].key = k /\ runs[q].state \notin {"waiting", "settled"}
      BY DEF InExecution, Executing
    <3>2. q \in Nat /\ r \in Nat
      BY <3>1, RunFacts DEF IInv
    <3> QED BY <1>2, <2>2, <3>1, <3>2 DEF IInv, InOrder
  <2> QED BY <2>1, <2>2
<1>5. \A j \in Keys : /\ Unsettled(j)' = IF j = k THEN Unsettled(j) \ {r} ELSE Unsettled(j)
                      /\ InExecution(j)' = IF j = k THEN {} ELSE InExecution(j)
  BY <1>1, <1>2, <1>4, StepMaps
<1> HIDE DEF k
<1>6. [j \in Keys |-> Unsettled(j)]' =
        [[j \in Keys |-> Unsettled(j)] EXCEPT ![k] = Unsettled(k) \ {r}]
  BY <1>3, <1>5
<1>7. [j \in Keys |-> InExecution(j)]' = [[j \in Keys |-> InExecution(j)] EXCEPT ![k] = {}]
  BY <1>3, <1>5
<1>8. Serial!End(k)
  BY <1>3, <1>4, <1>6, <1>7 DEF Serial!End
<1> QED BY <1>8 DEF k

LEMMA NextSerial == IInv /\ IInv' /\ [Next]_vars => [Serial!Next]_(Serial!vars)
<1> SUFFICES ASSUME IInv, IInv', [Next]_vars PROVE [Serial!Next]_(Serial!vars)
  OBVIOUS
<1>1. ASSUME NEW d \in Docs, NEW silent \in BOOLEAN, Request(d, silent) PROVE Serial!Next
  BY <1>1, RequestSubmits DEF Serial!Next
<1>2. ASSUME UNCHANGED runs PROVE UNCHANGED Serial!vars
  BY <1>2 DEF Serial!vars, Unsettled, InExecution, Executing
<1>3. ASSUME NEW d \in Docs, AttachSession(d) PROVE UNCHANGED Serial!vars
  BY <1>2, <1>3 DEF AttachSession
<1>4. ASSUME NEW r \in DOMAIN runs, Start(r) \/ Settle(r) PROVE Serial!Next
  <2>1. runs[r].key \in Keys
    BY RunFacts DEF IInv
  <2> QED BY <1>4, <2>1, StartBegins, SettleEnds DEF Serial!Next
<1>5. ASSUME NEW r \in DOMAIN runs, ReadKey(r) \/ Ask(r) \/ Answer(r)
      PROVE  UNCHANGED Serial!vars
  BY <1>5, GoesOnStutters
<1>6. CASE UNCHANGED vars
  BY <1>2, <1>6 DEF vars
<1> QED BY <1>1, <1>3, <1>4, <1>5, <1>6 DEF Next, RunStep

\* The promise chain is a serial executor per key (extension.js 1737-1757): every step is
\* a submission, the begin of the oldest run of a key whose last one has ended, an end,
\* or none of these.
THEOREM ImplementsSerialExec == Spec => Serial!Safety
BY InitSerial, NextSerial, Invariance, PTL DEF Spec, Serial!Safety
=============================================================================
