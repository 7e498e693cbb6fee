------------------------ MODULE BridgeSessionProofs -------------------------
(***************************************************************************)
(* A session marker that validates is true, and Disconnect shuts down no   *)
(* simulator but its own, for any simulators, any number of commands that  *)
(* overlap, and any failures.                                              *)
(*                                                                         *)
(* The marker pairs the simulator a launcher picked with whatever process  *)
(* answered it.  They belong together because the launcher has shut down   *)
(* every other simulator: while it waits, its own is the only one that is  *)
(* booted (Placed).  That stays so because a command boots nothing but the *)
(* best simulator, and not before the others are shut down.  Where the     *)
(* launcher does otherwise, or shuts a simulator down under another, it is *)
(* astray, and nothing is claimed.  A pid is never used again, so what     *)
(* fitted once does not come to fit another simulator (Fits).              *)
(*                                                                         *)
(* The second part: a Connect that nothing disturbs connects, and a        *)
(* Disconnect that no other command overlaps removes nobody's socket.      *)
(***************************************************************************)
EXTENDS BridgeSession, FiniteSetTheorems, TLAPS

M == Best(Devices)

\* The process, if it is alive, runs in that simulator.
Fits(udid, pid) == \A d \in Devices : (app[d] = pid /\ pid # None) => d = udid

\* Pids grow, a process has one simulator, and that is booted.
Processes ==
  /\ path <= launches /\ marker.pid <= launches
  /\ \A d \in Devices : app[d] <= launches /\ (app[d] # None => d \in booted)
  /\ \A d, e \in Devices : app[d] = app[e] /\ app[d] # None => d = e

\* A launcher that has picked its simulator; that has shut down the others.
Picked == {"recheck", "thin", "others", "boot", "clear", "launch", "wait", "toolkit", "mark"}
Thinned == {"boot", "clear", "launch", "wait", "toolkit", "mark"}

\* What an operation has noted by the time it is at its pc.
Shaped(r) ==
  /\ r.pc \in Picked => r.device \in Devices
  /\ r.pc \in {"toolkit", "mark"} => r.status \in Pids
  /\ r.pc \in {"status", "stopped?", "device", "shut", "poll", "forget", "unlink"} =>
       r.session \in Session /\ r.device = r.session.udid
  /\ r.pc \in {"device", "shut"} => r.status = r.session.pid
  /\ r.status <= launches /\ r.session.pid <= launches

\* The simulators, as far as a launcher at its pc relies on them.
Placed(r) ==
  ~astray =>
    /\ r.pc \in {"thin", "others", "boot"} /\ r.cold => r.device = M
    /\ r.device \in booted \cup {M} =>
         /\ r.pc = "others" => booted \subseteq {r.device} \cup r.others
         /\ r.pc \in Thinned => booted \subseteq {r.device}
    /\ r.pc \in {"wait", "toolkit", "mark"} => r.device \in booted
    /\ r.pc \in {"toolkit", "mark"} => Fits(r.device, r.status)
    /\ Fits(r.session.udid, r.session.pid)

\* One simulator at a time, and none booted or shut down by hand during a command.
Single == SingleSimulator /\ ~ByHandDuring

Sound(r) == Shaped(r) /\ (Single => Placed(r))

\* How often an operation may still launch Shortcuts: once, or twice.
Ahead == {"check", "compare", "pick", "recheck", "thin", "others", "boot", "clear", "launch"}
MayLaunch(r) == \/ r.pc \in Ahead
                \/ ~r.forced /\ r.pc \in {"wait", "toolkit", "mark", "reread", "confirm"}
MayTwice(r) == ~r.forced /\ r.pc \in Ahead
Launchers == {o \in Operations : MayLaunch(op[o])}
Twice == {o \in Operations : MayTwice(op[o])}
Budget == launches + Cardinality(Launchers) + Cardinality(Twice) <= MaxLaunches

IInv == /\ TypeOK /\ Processes /\ Budget
        /\ \A o \in Operations : Sound(op[o])
        /\ Single /\ ~astray => Fits(marker.udid, marker.pid)
-----------------------------------------------------------------------------
USE DevicesAssumption, OperationsAssumption, BoundsAssumption, NoneAssumption

LEMMA Values ==
  ASSUME TypeOK
  PROVE  /\ None = 0 /\ Pids \subseteq Nat \ {0} /\ Devices \subseteq Nat \ {0}
         /\ launches \in Nat /\ path \in Nat /\ \A d \in Devices : app[d] \in Nat
         /\ marker.pid \in Nat /\ marker \in Session \cup {NoSession}
         /\ booted \subseteq Devices
         /\ \A o \in Operations : op[o] \in Op
BY DEF TypeOK, None, Pids, Session, NoSession

LEMMA Numbers == Devices \subseteq Nat /\ Pids \subseteq Nat
<1>1. Devices \subseteq Nat
  OBVIOUS
<1>2. Pids \subseteq Nat
  BY DEF Pids
<1> QED BY <1>1, <1>2

LEMMA BestIsOne ==
  ASSUME NEW S \in SUBSET Devices, S # {}
  PROVE  Best(S) \in S
BY DEF Best

LEMMA OpValues ==
  ASSUME NEW r \in Op
  PROVE  /\ r.status \in Nat /\ r.session.pid \in Nat /\ r.session.udid \in Nat
         /\ r.session \in Session \cup {NoSession}
         /\ r.device \in Devices \cup {None} /\ r.forced \in BOOLEAN /\ r.cold \in BOOLEAN
<1>1. ASSUME NEW x \in Session PROVE x.pid \in Nat /\ x.udid \in Nat
  <2>1. x.udid \in Devices /\ x.pid \in Pids
    BY DEF Session
  <2> HIDE DEF Pids, Session
  <2> QED BY <2>1, Numbers
<1>2. NoSession.pid \in Nat /\ NoSession.udid \in Nat
  BY DEF NoSession, None
<1>3. /\ r.session \in Session \cup {NoSession} /\ r.device \in Devices \cup {None}
      /\ r.status \in Pids \cup {None} /\ r.forced \in BOOLEAN /\ r.cold \in BOOLEAN
  BY DEF Op
<1> QED BY <1>1, <1>2, <1>3 DEF Pids, None

LEMMA PcNames ==
  /\ "idle" \in Pcs /\ "check" \in Pcs /\ "compare" \in Pcs /\ "pick" \in Pcs
  /\ "recheck" \in Pcs /\ "thin" \in Pcs /\ "others" \in Pcs /\ "boot" \in Pcs
  /\ "clear" \in Pcs /\ "launch" \in Pcs /\ "wait" \in Pcs /\ "toolkit" \in Pcs
  /\ "mark" \in Pcs /\ "reread" \in Pcs /\ "confirm" \in Pcs /\ "read" \in Pcs
  /\ "status" \in Pcs /\ "stopped?" \in Pcs /\ "device" \in Pcs /\ "shut" \in Pcs
  /\ "poll" \in Pcs /\ "forget" \in Pcs /\ "unlink" \in Pcs
BY DEF Pcs

LEMMA NoOpFacts ==
  /\ NoOp \in Op /\ NoOp.pc = "idle" /\ NoOp.status = 0 /\ NoOp.session = NoSession
  /\ NoSession.pid = 0 /\ NoSession.udid = 0
  /\ \A r \in Op : r.pc \in {"idle", "pick", "reread", "read"} /\ r.status = 0
                    /\ r.session = NoSession /\ TypeOK => Sound(r)
<1>1. /\ NoOp \in Op /\ NoOp.pc = "idle" /\ NoOp.status = 0 /\ NoOp.session = NoSession
      /\ NoSession.pid = 0 /\ NoSession.udid = 0
  BY DEF NoOp, Op, Pcs, NoSession, None
<1>2. ASSUME NEW r \in Op, r.pc \in {"idle", "pick", "reread", "read"}, r.status = 0,
             r.session = NoSession, TypeOK
      PROVE  Sound(r)
  <2>1. Shaped(r)
    BY <1>1, <1>2, Values DEF Shaped, Picked
  <2>2. Placed(r)
    BY <1>1, <1>2 DEF Placed, Fits, None, Thinned
  <2> QED BY <2>1, <2>2 DEF Sound
<1> QED BY <1>1, <1>2

LEMMA BudgetFacts ==
  /\ IsFiniteSet(Launchers) /\ Cardinality(Launchers) \in Nat
  /\ IsFiniteSet(Twice) /\ Cardinality(Twice) \in Nat
<1>1. Launchers \in SUBSET Operations /\ Twice \in SUBSET Operations
  BY DEF Launchers, Twice
<1> QED BY <1>1, FS_Subset, FS_CardinalityType

\* Who may launch less does not use up the bound.
LEMMA BudgetStays ==
  ASSUME TypeOK, Budget, UNCHANGED launches, Launchers' \subseteq Launchers, Twice' \subseteq Twice
  PROVE  Budget'
<1>1. Cardinality(Launchers') <= Cardinality(Launchers) /\ Cardinality(Launchers') \in Nat
  BY BudgetFacts, FS_Subset, FS_CardinalityType
<1>2. Cardinality(Twice') <= Cardinality(Twice) /\ Cardinality(Twice') \in Nat
  BY BudgetFacts, FS_Subset, FS_CardinalityType
<1> QED BY <1>1, <1>2, BudgetFacts, Values DEF Budget

LEMMA InitIInv == Init => IInv
<1> SUFFICES ASSUME Init PROVE IInv
  OBVIOUS
<1>1. TypeOK
  <2>1. NoSession \in Session \cup {NoSession} /\ None \in Pids \cup {None} /\ 0 \in 0..MaxLaunches
        /\ 0 \in 0..MaxActs
    OBVIOUS
  <2>2. op \in [Operations -> Op]
    BY NoOpFacts DEF Init
  <2> QED BY <2>1, <2>2 DEF Init, TypeOK
<1>2. Processes
  BY NoOpFacts DEF Init, Processes, None
<1>3. \A o \in Operations : Sound(op[o])
  BY <1>1, NoOpFacts DEF Init
<1>4. Launchers = {} /\ Twice = {}
  BY NoOpFacts DEF Init, Launchers, Twice, MayLaunch, MayTwice, Ahead
<1>5. Budget
  BY <1>4, FS_EmptySet DEF Init, Budget
<1>6. Fits(marker.udid, marker.pid)
  BY NoOpFacts DEF Init, Fits, None
<1> QED BY <1>1, <1>2, <1>3, <1>5, <1>6 DEF IInv
-----------------------------------------------------------------------------
(* What a step leaves as it was *)

\* An operation at its pc, while the world moves: pids grow, simulators go, and a
\* simulator comes only if it is the best and alone, or if no operation is in progress.
LEMMA OtherStays ==
  ASSUME IInv, NEW q \in Operations,
         op'[q] = op[q] \/ (\E b \in BOOLEAN : op'[q] = [op[q] EXCEPT !.alone = b]),
         launches' \in Nat, launches <= launches',
         Single /\ ~astray' =>
           booted' \subseteq booted \/ booted' \subseteq {M} \/ op[q].pc = "idle",
         Single /\ ~astray' => /\ ~astray
                               /\ op[q].pc \in {"wait", "toolkit", "mark"} /\ op[q].device \in booted =>
                                    op[q].device \in booted',
         \A d \in Devices : app'[d] \in {app[d], None, launches + 1}
  PROVE  Sound(op[q])'
<1>1. op[q] \in Op /\ Sound(op[q])
  BY DEF IInv, TypeOK
<1>2. /\ op'[q].pc = op[q].pc /\ op'[q].device = op[q].device /\ op'[q].status = op[q].status
      /\ op'[q].session = op[q].session /\ op'[q].cold = op[q].cold
      /\ op'[q].others = op[q].others
  BY <1>1 DEF Op
<1>3. op[q].status \in Nat /\ op[q].session.pid \in Nat /\ launches \in Nat
  BY <1>1, OpValues, Values DEF IInv
<1>4. Shaped(op[q])'
  BY <1>1, <1>2, <1>3 DEF Sound, Shaped
<1>5. \A udid \in Nat, pid \in Nat : pid <= launches /\ Fits(udid, pid) => Fits(udid, pid)'
  BY <1>3, Values DEF IInv, Fits, None
<1>6. ASSUME Single PROVE Placed(op[q])'
  <2>1. Placed(op[q])
    BY <1>1, <1>6 DEF Sound
  <2>2. ~astray' /\ op[q].pc \in {"thin", "others", "boot"} /\ op[q].cold => op[q].device = M
    BY <1>6, <2>1 DEF Placed
  <2>3. ASSUME ~astray', op[q].device \in booted' \cup {M}
        PROVE  /\ op[q].pc = "others" => booted' \subseteq {op[q].device} \cup op[q].others
               /\ op[q].pc \in Thinned => booted' \subseteq {op[q].device}
    <3>1. CASE booted' \subseteq booted
      BY <1>6, <2>1, <2>3, <3>1 DEF Placed
    <3>2. CASE booted' \subseteq {M}
      <4>1. op[q].device = M
        BY <2>3, <3>2
      <4> QED BY <3>2, <4>1
    <3> QED BY <1>6, <2>3, <3>1, <3>2 DEF Thinned
  <2>4. ~astray' /\ op[q].pc \in {"wait", "toolkit", "mark"} => op[q].device \in booted'
    BY <1>6, <2>1 DEF Placed
  <2>5. ASSUME ~astray' PROVE Fits(op[q].session.udid, op[q].session.pid)'
    <3>1. op[q].session.udid \in Nat /\ op[q].session.pid <= launches
      BY <1>1, OpValues DEF Sound, Shaped, Session, NoSession, None
    <3>2. Fits(op[q].session.udid, op[q].session.pid)
      BY <1>6, <2>1, <2>5 DEF Placed
    <3> QED BY <1>2, <1>3, <1>5, <3>1, <3>2 DEF Fits
  <2>6. ASSUME ~astray', op[q].pc \in {"toolkit", "mark"} PROVE Fits(op[q].device, op[q].status)'
    <3>1. op[q].device \in Nat /\ op[q].status <= launches
      BY <1>1, <2>6 DEF Sound, Shaped, Picked
    <3>2. Fits(op[q].device, op[q].status)
      BY <1>6, <2>1, <2>6 DEF Placed
    <3> QED BY <1>2, <1>3, <1>5, <3>1, <3>2 DEF Fits
  <2> QED BY <1>2, <2>2, <2>3, <2>4, <2>5, <2>6 DEF Placed, M
<1> QED BY <1>4, <1>6 DEF Sound

\* The marker is true, and the world moves.
LEMMA MarkerStays ==
  ASSUME IInv, marker' \in {marker, NoSession}, launches' \in Nat, launches <= launches',
         Single /\ ~astray' => ~astray,
         \A d \in Devices : app'[d] \in {app[d], None, launches + 1}
  PROVE  (Single /\ ~astray => Fits(marker.udid, marker.pid))'
<1> SUFFICES ASSUME Single, ~astray' PROVE Fits(marker.udid, marker.pid)'
  OBVIOUS
<1>1. Fits(marker.udid, marker.pid) /\ marker.pid <= launches
  BY DEF IInv, Processes
<1>2. CASE marker' = marker
  BY <1>1, <1>2, Values DEF IInv, Fits
<1>3. CASE marker' = NoSession
  BY <1>3, NoOpFacts DEF Fits, None
<1> QED BY <1>2, <1>3

\* One operation goes on, and nothing else moves, but perhaps astray.
LEMMA OpMoves ==
  ASSUME IInv, NEW o \in Operations, NEW r \in Op, op' = [op EXCEPT ![o] = r],
         UNCHANGED <<sims, marker, launches>>, acts' \in 0..MaxActs,
         astray' \in BOOLEAN, ~astray' => ~astray,
         Shaped(r), ~astray' => Sound(r),
         MayLaunch(r) => MayLaunch(op[o]), MayTwice(r) => MayTwice(op[o])
  PROVE  IInv'
<1>0. UNCHANGED <<booted, app, bound, path>>
  BY DEF sims
<1>1. /\ op' \in [Operations -> Op] /\ op'[o] = r
      /\ \A q \in Operations \ {o} : op'[q] = op[q]
  BY DEF IInv, TypeOK
<1>2. TypeOK' /\ Processes'
  BY <1>0, <1>1 DEF IInv, TypeOK, Processes
<1>3. Budget'
  <2>1. Launchers' \subseteq Launchers
    BY <1>1 DEF Launchers
  <2>2. Twice' \subseteq Twice
    BY <1>1 DEF Twice
  <2> QED BY <2>1, <2>2, BudgetStays DEF IInv
<1>4. Sound(op[o])'
  BY <1>0, <1>1 DEF Sound, Shaped, Placed, Fits, M
<1>5. ASSUME NEW q \in Operations, q # o PROVE Sound(op[q])'
  BY <1>0, <1>1, <1>5 DEF IInv, Sound, Shaped, Placed, Fits, M
<1>6. (Single /\ ~astray => Fits(marker.udid, marker.pid))'
  BY <1>0 DEF IInv, Fits, Single
<1> QED BY <1>2, <1>3, <1>4, <1>5, <1>6 DEF IInv

LEMMA OpStep ==
  ASSUME IInv, NEW o \in Operations, NEW r \in Op, op' = [op EXCEPT ![o] = r],
         UNCHANGED <<sims, marker, launches, astray>>, acts' \in 0..MaxActs,
         Sound(r), MayLaunch(r) => MayLaunch(op[o]), MayTwice(r) => MayTwice(op[o])
  PROVE  IInv'
<1>1. Shaped(r) /\ astray' \in BOOLEAN
  BY DEF Sound, IInv, TypeOK
<1> QED BY <1>1, OpMoves

\* An operation ends, or fails.
LEMMA EndStep ==
  ASSUME IInv, NEW o \in Operations, NEW r \in Op, op' = [op EXCEPT ![o] = r],
         UNCHANGED <<sims, marker, launches, astray>>, acts' \in 0..MaxActs,
         r.pc = "idle", r.status = 0, r.session = NoSession
  PROVE  IInv'
<1>1. Sound(r)
  BY NoOpFacts DEF IInv
<1>2. ~MayLaunch(r) /\ ~MayTwice(r)
  BY DEF MayLaunch, MayTwice, Ahead
<1> QED BY <1>1, <1>2, OpStep
-----------------------------------------------------------------------------
(* Steps of one operation that change nothing else *)

\* Facts of op[o] that the steps below rest on.
LEMMA Here ==
  ASSUME IInv, NEW o \in Operations
  PROVE  /\ op[o] \in Op /\ Sound(op[o]) /\ acts \in 0..MaxActs /\ op \in [Operations -> Op]
         /\ NoOp.pc = "idle" /\ NoOp.status = 0
         /\ path <= launches /\ path \in Pids \cup {None}
BY NoOpFacts DEF IInv, TypeOK, Processes

LEMMA EndsKeeps ==
  ASSUME IInv, NEW o \in Operations, NEW result \in {"none", "connected", "disconnected", "error"},
         Ends(o, result) \/ Becomes(o, Failed),
         UNCHANGED <<sims, marker, launches, astray>>, acts' \in 0..MaxActs
  PROVE  IInv'
<1>1. CASE Ends(o, result)
  <2> DEFINE r == [NoOp EXCEPT !.result = result, !.alone = op[o].alone]
  <2>1. r \in Op /\ r.pc = "idle" /\ r.status = 0 /\ r.session = NoSession
    BY Here, NoOpFacts DEF Op
  <2> HIDE DEF r
  <2> QED BY <1>1, <2>1, EndStep DEF Ends, Becomes, r
<1>2. CASE Becomes(o, Failed)
  <2>1. Failed \in Op /\ Failed.pc = "idle" /\ Failed.status = 0 /\ Failed.session = NoSession
    BY NoOpFacts DEF Op, Failed
  <2> QED BY <1>2, <2>1, EndStep DEF Becomes
<1> QED BY <1>1, <1>2

LEMMA CheckKeeps ==
  ASSUME IInv, NEW o \in Operations, Check(o)
  PROVE  IInv'
<1>1. At(o, "check") /\ UNCHANGED <<sims, marker, launches, astray>> /\ acts' \in 0..MaxActs
  BY Here DEF Check
<1>2. CASE Responding
  <2> DEFINE r == [op[o] EXCEPT !.pc = "compare", !.status = path]
  <2>1. /\ r \in Op /\ r.pc = "compare" /\ r.status = path /\ r.session = op[o].session
        /\ r.forced = op[o].forced
    BY Here, PcNames DEF Op
  <2>2. Sound(r)
    BY <1>1, <2>1, Here DEF At, Sound, Shaped, Placed, Picked, Thinned
  <2>3. MayLaunch(op[o]) /\ (MayTwice(r) => MayTwice(op[o]))
    BY <1>1, <2>1 DEF At, MayLaunch, MayTwice, Ahead
  <2> HIDE DEF r
  <2> QED BY <1>1, <1>2, <2>1, <2>2, <2>3, OpStep DEF Check, Becomes, r
<1>3. CASE ~Responding
  <2> DEFINE r == [op[o] EXCEPT !.pc = "pick"]
  <2>1. /\ r \in Op /\ r.pc = "pick" /\ r.status = op[o].status /\ r.session = op[o].session
        /\ r.forced = op[o].forced
    BY Here, PcNames DEF Op
  <2>2. Sound(r)
    BY <1>1, <2>1, Here DEF At, Sound, Shaped, Placed, Picked, Thinned
  <2>3. MayLaunch(op[o]) /\ (MayTwice(r) => MayTwice(op[o]))
    BY <1>1, <2>1 DEF At, MayLaunch, MayTwice, Ahead
  <2> HIDE DEF r
  <2> QED BY <1>1, <1>3, <2>1, <2>2, <2>3, OpStep DEF Check, Goes, Becomes, r
<1> QED BY <1>2, <1>3

\* Compare and Confirm that turn to a forced launch.
LEMMA ForcedKeeps ==
  ASSUME IInv, NEW o \in Operations, MayLaunch(op[o]),
         Anew(o, "pick", TRUE),
         UNCHANGED <<sims, marker, launches, acts, astray>>
  PROVE  IInv'
<1> DEFINE r == [NoOp EXCEPT !.pc = "pick", !.forced = TRUE, !.alone = op[o].alone]
<1>1. r \in Op /\ r.pc = "pick" /\ r.status = 0 /\ r.session = NoSession /\ r.forced
  BY Here, NoOpFacts, PcNames DEF Op
<1>2. Sound(r)
  BY <1>1, NoOpFacts DEF IInv
<1>3. ~MayTwice(r)
  BY <1>1 DEF MayTwice
<1> HIDE DEF r
<1> QED BY <1>1, <1>2, <1>3, Here, OpStep DEF Anew, Becomes, r

LEMMA CompareKeeps ==
  ASSUME IInv, NEW o \in Operations, Compare(o)
  PROVE  IInv'
<1>1. At(o, "compare") /\ UNCHANGED <<sims, marker, launches, acts, astray>>
  BY DEF Compare
<1>2. CASE Validates(marker, op[o].status)
  BY <1>1, <1>2, Here, EndsKeeps DEF Compare
<1>3. CASE ~Validates(marker, op[o].status)
  BY <1>1, <1>3, ForcedKeeps DEF Compare, At, MayLaunch, Ahead
<1> QED BY <1>2, <1>3

\* A simulator is picked, and cold only if it is the best.
LEMMA PicksKeeps ==
  ASSUME IInv, NEW o \in Operations, NEW pc \in {"recheck", "thin"}, NEW d \in Devices,
         NEW cold \in BOOLEAN, Picks(o, pc, d, cold), op[o].pc \in {"pick", "recheck"},
         UNCHANGED <<sims, marker, launches>>, acts' \in 0..MaxActs,
         astray' \in BOOLEAN, ~astray' => ~astray /\ (cold => d = M)
  PROVE  IInv'
<1> DEFINE r == [op[o] EXCEPT !.pc = pc, !.device = d, !.cold = cold]
<1>1. /\ r \in Op /\ r.pc = pc /\ r.cold = cold /\ r.device = d
      /\ r.status = op[o].status /\ r.session = op[o].session /\ r.forced = op[o].forced
  <2> HIDE DEF Pids, Session
  <2> HIDE DevicesAssumption
  <2>1. op[o] \in Op /\ pc \in Pcs /\ d \in Devices \cup {None}
    BY Here DEF Pcs
  <2> HIDE DEF Pcs
  <2> QED BY <2>1 DEF Op
<1>2. Shaped(r)
  BY <1>1, Here DEF Sound, Shaped
<1>3. ~astray' /\ Single => Placed(r)
  BY <1>1, Here DEF Sound, Placed, Thinned
<1>4. MayLaunch(op[o]) /\ (MayTwice(r) => MayTwice(op[o]))
  BY <1>1 DEF MayLaunch, MayTwice, Ahead
<1> HIDE DEF r
<1>5. op' = [op EXCEPT ![o] = r]
  BY DEF Picks, Becomes, r
<1> QED BY <1>1, <1>2, <1>3, <1>4, <1>5, OpMoves DEF Sound

LEMMA PickKeeps ==
  ASSUME IInv, NEW o \in Operations, Pick(o) \/ Recheck(o)
  PROVE  IInv'
<1>1. /\ UNCHANGED <<sims, marker, launches>> /\ acts' \in 0..MaxActs /\ M \in Devices
      /\ astray \in BOOLEAN
  BY Here, BestIsOne DEF Pick, Recheck, M, IInv, TypeOK
<1>2. CASE Pick(o) /\ booted # {}
  <2>1. Best(booted) \in Devices
    BY <1>2, BestIsOne, Values DEF IInv
  <2> QED BY <1>1, <1>2, <2>1, PicksKeeps DEF Pick, At
<1>3. CASE Pick(o) /\ booted = {}
  BY <1>1, <1>3, PicksKeeps DEF Pick, At, M
<1>4. CASE Recheck(o)
  <2>1. op[o].pc = "recheck" /\ op[o].device \in Devices
    BY <1>4, Here DEF Recheck, At, Sound, Shaped, Picked
  <2> DEFINE cold == op[o].device \notin booted
  <2>2. /\ cold \in BOOLEAN /\ Picks(o, "thin", op[o].device, cold)
        /\ astray' = (astray \/ (cold /\ op[o].device # M))
    BY <1>4 DEF Recheck, M
  <2> HIDE DEF cold
  <2>3. astray' \in BOOLEAN /\ (~astray' => ~astray /\ (cold => op[o].device = M))
    BY <1>1, <2>2
  <2> QED BY <1>1, <2>1, <2>2, <2>3, PicksKeeps
<1> QED BY <1>2, <1>3, <1>4

\* The process that answers runs in the only simulator that is booted.
LEMMA Answers ==
  ASSUME IInv, NEW o \in Operations, Single, ~astray, op[o].pc \in {"wait", "toolkit", "mark"}
  PROVE  Fits(op[o].device, path)
<1>1. op[o].device \in booted /\ booted \subseteq {op[o].device}
  BY DEF IInv, Sound, Placed, Thinned
<1>2. \A d \in Devices : app[d] # None => d \in booted
  BY DEF IInv, Processes
<1> QED BY <1>1, <1>2 DEF Fits

LEMMA AdoptKeeps ==
  ASSUME IInv, NEW o \in Operations, NEW pc \in {"toolkit", "mark"},
         op[o].pc \in {"wait", "toolkit"}, Responding,
         Becomes(o, [op[o] EXCEPT !.pc = pc, !.status = path]),
         UNCHANGED <<sims, marker, launches, acts, astray>>
  PROVE  IInv'
<1> DEFINE r == [op[o] EXCEPT !.pc = pc, !.status = path]
<1>1. /\ r \in Op /\ r.pc = pc /\ r.status = path /\ r.device = op[o].device
      /\ r.session = op[o].session /\ r.forced = op[o].forced /\ path \in Pids
  <2> HIDE DevicesAssumption
  <2> QED BY Here, PcNames DEF Op, Responding, Alive
<1>2. Shaped(r)
  BY <1>1, Here DEF Sound, Shaped, Picked
<1>3. ASSUME Single, ~astray PROVE Placed(r)
  <2>1. Placed(op[o]) /\ Fits(op[o].device, path)
    BY <1>3, Here, Answers DEF Sound
  <2> QED BY <1>1, <2>1 DEF Placed, Thinned
<1>4. ASSUME astray PROVE Placed(r)
  BY <1>4 DEF Placed
<1>5. (MayLaunch(r) => MayLaunch(op[o])) /\ ~MayTwice(r)
  BY <1>1 DEF MayLaunch, MayTwice, Ahead
<1> HIDE DEF r
<1>6. op' = [op EXCEPT ![o] = r]
  BY DEF Becomes, r
<1> QED BY <1>1, <1>2, <1>3, <1>4, <1>5, <1>6, Here, OpStep DEF Sound

LEMMA WaitKeeps ==
  ASSUME IInv, NEW o \in Operations, Wait(o) \/ ActivateToolkit(o)
  PROVE  IInv'
<1>0. UNCHANGED <<sims, marker, launches, acts, astray>> /\ op[o].pc \in {"wait", "toolkit"}
  BY DEF Wait, ActivateToolkit, At
<1>1. CASE Responding /\ \E pc \in {"toolkit", "mark"} : Becomes(o, [op[o] EXCEPT !.pc = pc, !.status = path])
  BY <1>0, <1>1, AdoptKeeps
<1>2. CASE Ends(o, "error")
  BY <1>0, <1>2, Here, EndsKeeps
<1>3. CASE op[o].pc = "toolkit" /\ Goes(o, "mark")
  <2> DEFINE r == [op[o] EXCEPT !.pc = "mark"]
  <2>1. /\ r \in Op /\ r.pc = "mark" /\ r.status = op[o].status /\ r.device = op[o].device
        /\ r.session = op[o].session /\ r.forced = op[o].forced
    BY Here, PcNames DEF Op
  <2>2. Sound(r)
    BY <1>3, <2>1, Here DEF Sound, Shaped, Placed, Picked, Thinned
  <2>3. (MayLaunch(r) => MayLaunch(op[o])) /\ ~MayTwice(r)
    BY <1>3, <2>1 DEF MayLaunch, MayTwice, Ahead
  <2> HIDE DEF r
  <2> QED BY <1>0, <1>3, <2>1, <2>2, <2>3, Here, OpStep DEF Goes, Becomes, r
<1> QED BY <1>0, <1>1, <1>2, <1>3 DEF Wait, ActivateToolkit, At

\* The marker is read: what it says becomes the operation's.
LEMMA ReadKeeps ==
  ASSUME IInv, NEW o \in Operations, Reread(o) \/ ReadSession(o)
  PROVE  IInv'
<1>0. UNCHANGED <<sims, marker, launches, acts, astray>>
  BY DEF Reread, ReadSession
<1>1. /\ marker \in Session \cup {NoSession} /\ marker.pid \in Nat /\ marker.pid <= launches
      /\ Single /\ ~astray => Fits(marker.udid, marker.pid)
  BY Values DEF IInv, Processes
<1>2. CASE Reread(o)
  <2> DEFINE r == [op[o] EXCEPT !.pc = "confirm", !.session = marker]
  <2>1. /\ r \in Op /\ r.pc = "confirm" /\ r.status = op[o].status /\ r.session = marker
        /\ r.forced = op[o].forced
    BY <1>1, Here, PcNames DEF Op
  <2>2. Sound(r)
    BY <1>1, <2>1, Here DEF Sound, Shaped, Placed, Picked, Thinned
  <2>3. (MayLaunch(r) => MayLaunch(op[o])) /\ ~MayTwice(r)
    BY <1>2, <2>1 DEF Reread, At, MayLaunch, MayTwice, Ahead
  <2> HIDE DEF r
  <2> QED BY <1>0, <1>2, <2>1, <2>2, <2>3, Here, OpStep DEF Reread, Becomes, r
<1>3. CASE ReadSession(o) /\ marker = NoSession
  BY <1>0, <1>3, Here, EndsKeeps DEF ReadSession
<1>4. CASE ReadSession(o) /\ marker # NoSession
  <2> DEFINE r == [op[o] EXCEPT !.pc = "status", !.session = marker, !.device = marker.udid]
  <2>0. marker \in Session /\ marker.udid \in Devices
    BY <1>1, <1>4 DEF Session
  <2>1. /\ r \in Op /\ r.pc = "status" /\ r.status = op[o].status /\ r.session = marker
        /\ r.device = marker.udid
    <3> HIDE DevicesAssumption
    <3> QED BY <2>0, Here, PcNames DEF Op
  <2>2. Sound(r)
    BY <1>1, <2>0, <2>1, Here DEF Sound, Shaped, Placed, Picked, Thinned
  <2>3. ~MayLaunch(r) /\ ~MayTwice(r)
    BY <2>1 DEF MayLaunch, MayTwice, Ahead
  <2> HIDE DEF r
  <2> QED BY <1>0, <1>4, <2>1, <2>2, <2>3, Here, OpStep DEF ReadSession, Becomes, r
<1> QED BY <1>2, <1>3, <1>4

LEMMA ConfirmKeeps ==
  ASSUME IInv, NEW o \in Operations, Confirm(o)
  PROVE  IInv'
<1>0. UNCHANGED <<sims, marker, launches, acts, astray>> /\ op[o].pc = "confirm"
  BY DEF Confirm, At
<1>1. CASE \E result \in {"connected", "error"} : Ends(o, result)
  BY <1>0, <1>1, Here, EndsKeeps
<1>2. CASE ~op[o].forced /\ Anew(o, "pick", TRUE)
  BY <1>0, <1>2, ForcedKeeps DEF MayLaunch
<1> QED BY <1>1, <1>2 DEF Confirm

\* Disconnect takes a step, with the session it has read.
LEMMA DisconnectStep ==
  ASSUME IInv, NEW o \in Operations, UNCHANGED <<sims, marker, launches, astray>>,
         acts' \in 0..MaxActs,
         NEW pc \in {"stopped?", "device", "shut", "forget"},
         op[o].pc \in {"status", "stopped?", "device", "poll"},
         \/ Goes(o, pc) /\ pc # "device" /\ (pc = "shut" => op[o].pc = "device")
         \/ /\ Becomes(o, [op[o] EXCEPT !.pc = pc, !.status = path])
            /\ Validates(op[o].session, path)
  PROVE  IInv'
<1>1. op[o] \in Op /\ Shaped(op[o]) /\ (Single => Placed(op[o]))
  BY Here DEF Sound
<1>2. ~MayLaunch([op[o] EXCEPT !.pc = pc]) /\ ~MayTwice([op[o] EXCEPT !.pc = pc])
  BY <1>1 DEF MayLaunch, MayTwice, Ahead, Op
<1>3. CASE Goes(o, pc) /\ pc # "device" /\ (pc = "shut" => op[o].pc = "device")
  <2> DEFINE r == [op[o] EXCEPT !.pc = pc]
  <2>1. /\ r \in Op /\ r.pc = pc /\ r.status = op[o].status /\ r.session = op[o].session
        /\ r.device = op[o].device
    BY <1>1, PcNames DEF Op
  <2>2. Sound(r)
    BY <1>1, <1>3, <2>1 DEF Sound, Shaped, Placed, Picked, Thinned
  <2> HIDE DEF r
  <2> QED BY <1>2, <1>3, <2>1, <2>2, OpStep DEF Goes, Becomes, r
<1>4. CASE Becomes(o, [op[o] EXCEPT !.pc = pc, !.status = path]) /\ Validates(op[o].session, path)
  <2> DEFINE r == [op[o] EXCEPT !.pc = pc, !.status = path]
  <2>1. /\ r \in Op /\ r.pc = pc /\ r.status = path /\ r.session = op[o].session
        /\ r.device = op[o].device /\ path = op[o].session.pid
    BY <1>1, <1>4, Here, PcNames DEF Op, Validates
  <2>2. Sound(r)
    BY <1>1, <2>1, Here DEF Sound, Shaped, Placed, Picked, Thinned
  <2>3. ~MayLaunch(r) /\ ~MayTwice(r)
    BY <2>1 DEF MayLaunch, MayTwice, Ahead
  <2> HIDE DEF r
  <2> QED BY <1>4, <2>1, <2>2, <2>3, OpStep DEF Becomes, r
<1> QED BY <1>3, <1>4

LEMMA DisconnectKeeps ==
  ASSUME IInv, NEW o \in Operations,
         Status(o) \/ Stopped(o) \/ DeviceState(o) \/ PollDevice(o)
  PROVE  IInv'
<1>0. UNCHANGED <<sims, marker, launches, acts, astray>> /\ acts' \in 0..MaxActs
  BY Here DEF Status, Stopped, DeviceState, PollDevice
<1>1. CASE Ends(o, "error")
  BY <1>0, <1>1, EndsKeeps
<1>2. CASE Status(o) /\ Goes(o, "stopped?")
  BY <1>0, <1>2, DisconnectStep DEF Status, At
<1>3. CASE Status(o) /\ Validates(op[o].session, path)
           /\ Becomes(o, [op[o] EXCEPT !.pc = "device", !.status = path])
  BY <1>0, <1>3, DisconnectStep DEF Status, At
<1>4. CASE (Stopped(o) \/ PollDevice(o)) /\ Goes(o, "forget")
  BY <1>0, <1>4, DisconnectStep DEF Stopped, PollDevice, At
<1>5. CASE DeviceState(o) /\ Goes(o, "shut")
  BY <1>0, <1>5, DisconnectStep DEF DeviceState, At
<1> QED BY <1>1, <1>2, <1>3, <1>4, <1>5 DEF Status, Stopped, DeviceState, PollDevice

LEMMA ActType == TypeOK /\ Act => acts' \in 0..MaxActs
  BY DEF TypeOK, Act

LEMMA FailureKeeps ==
  ASSUME IInv, NEW o \in Operations, LaunchFails(o) \/ StatusTimesOut(o)
  PROVE  IInv'
<1>0. UNCHANGED <<sims, marker, launches, astray>> /\ acts' \in 0..MaxActs
  BY ActType DEF LaunchFails, StatusTimesOut, IInv
<1>1. CASE Becomes(o, Failed)
  BY <1>0, <1>1, EndsKeeps
<1>2. CASE At(o, "check") /\ Becomes(o, [op[o] EXCEPT !.pc = "pick"])
  <2> DEFINE r == [op[o] EXCEPT !.pc = "pick"]
  <2>1. /\ r \in Op /\ r.pc = "pick" /\ r.status = op[o].status /\ r.session = op[o].session
        /\ r.forced = op[o].forced
    BY Here, PcNames DEF Op
  <2>2. Sound(r)
    BY <2>1, Here DEF Sound, Shaped, Placed, Picked, Thinned
  <2>3. MayLaunch(op[o]) /\ (MayTwice(r) => MayTwice(op[o]))
    BY <1>2, <2>1 DEF At, MayLaunch, MayTwice, Ahead
  <2> HIDE DEF r
  <2> QED BY <1>0, <1>2, <2>1, <2>2, <2>3, OpStep DEF Becomes, r
<1>3. CASE At(o, "status") /\ Goes(o, "stopped?")
  BY <1>0, <1>3, DisconnectStep DEF At
<1>4. CASE StatusTimesOut(o)
  <2>1. CASE op[o].pc = "check"
    BY <1>2, <1>4, <2>1 DEF StatusTimesOut, At, Becomes
  <2>2. CASE op[o].pc = "status"
    BY <1>3, <1>4, <2>2 DEF StatusTimesOut, At, Goes, Becomes
  <2>3. CASE op[o].pc \in {"toolkit", "confirm"}
    BY <1>1, <1>4, <2>3 DEF StatusTimesOut, At, Becomes
  <2> QED BY <1>4, <2>1, <2>2, <2>3 DEF StatusTimesOut
<1> QED BY <1>1, <1>4 DEF LaunchFails
-----------------------------------------------------------------------------
(* Steps that move simulators, processes, the socket or the marker *)

\* A process that fits goes on to: no pid is used again.
LEMMA FitsStay ==
  ASSUME IInv, \A d \in Devices : app'[d] \in {app[d], None, launches + 1}
  PROVE  \A udid, pid \in Nat : pid <= launches /\ Fits(udid, pid) =>
           \A d \in Devices : (app'[d] = pid /\ pid # None) => d = udid
BY Values DEF IInv, Fits

\* The operation's own record after such a step.
LEMMA OwnStays ==
  ASSUME IInv, NEW o \in Operations, NEW r \in Op, op'[o] = r,
         r.session = op[o].session, r.status = op[o].status, r.device = op[o].device,
         r.pc \notin {"toolkit", "mark", "device", "shut"},
         r.pc \in Picked => op[o].device \in Devices,
         r.pc \in {"status", "stopped?", "poll", "forget", "unlink"} =>
           op[o].pc \in {"shut", "poll", "forget", "unlink"},
         launches' \in Nat, launches <= launches',
         \A d \in Devices : app'[d] \in {app[d], None, launches + 1},
         Single /\ ~astray' =>
           /\ ~astray
           /\ r.pc \in {"thin", "others", "boot"} /\ r.cold => r.device = M
           /\ r.device \in booted' \cup {M} =>
                /\ r.pc = "others" => booted' \subseteq {r.device} \cup r.others
                /\ r.pc \in Thinned => booted' \subseteq {r.device}
           /\ r.pc = "wait" => r.device \in booted'
  PROVE  Sound(op[o])'
<1>1. /\ op[o] \in Op /\ Shaped(op[o]) /\ (Single => Placed(op[o])) /\ launches \in Nat
      /\ op[o].status \in Nat /\ op[o].session.pid \in Nat
  BY Here, OpValues, Values DEF Sound, IInv
<1>2. Shaped(op[o])'
  BY <1>1 DEF Shaped
<1>3. ASSUME Single PROVE Placed(op[o])'
  <2>1. ASSUME ~astray' PROVE Fits(r.session.udid, r.session.pid)'
    <3>1. op[o].session.udid \in Nat /\ op[o].session.pid \in Nat /\ op[o].session.pid <= launches
      BY <1>1, OpValues DEF Shaped
    <3>2. Fits(op[o].session.udid, op[o].session.pid)
      BY <1>1, <1>3, <2>1 DEF Placed
    <3>3. \A d \in Devices : (app'[d] = op[o].session.pid /\ op[o].session.pid # None)
                                => d = op[o].session.udid
      BY <3>1, <3>2, FitsStay
    <3> QED BY <3>3 DEF Fits
  <2> QED BY <1>3, <2>1 DEF Placed, M
<1> QED BY <1>2, <1>3 DEF Sound

\* A simulator is shut down by the operation o.
LEMMA TakesFacts ==
  ASSUME IInv, NEW o \in Operations, NEW x \in Devices, Takes(o, x),
         \A q \in Operations \ {o} : op'[q] = op[q],
         UNCHANGED <<bound, path, marker, launches>>
  PROVE  /\ booted' = booted \ {x} /\ astray' \in BOOLEAN /\ (~astray' => ~astray)
         /\ app' \in [Devices -> Pids \cup {None}]
         /\ \A d \in Devices : app'[d] \in {app[d], None, launches + 1}
         /\ Processes'
         /\ \A q \in Operations \ {o} : Sound(op[q])'
         /\ (Single /\ ~astray => Fits(marker.udid, marker.pid))'
<1>1. /\ booted' = booted \ {x} /\ app' = [d \in Devices |-> IF d = x THEN None ELSE app[d]]
      /\ astray' = (astray \/ \E q \in Operations \ {o} :
                       op[q].pc \in {"wait", "toolkit", "mark"} /\ op[q].device = x)
  BY DEF Takes, Off
<1>2. /\ app' \in [Devices -> Pids \cup {None}] /\ launches' \in Nat /\ launches <= launches'
      /\ \A d \in Devices : app'[d] = (IF d = x THEN None ELSE app[d])
  BY <1>1, Values DEF IInv, TypeOK
<1>3. Processes'
  BY <1>1, <1>2, Values DEF IInv, Processes
<1>4. astray' \in BOOLEAN
  BY <1>1 DEF IInv, TypeOK
<1>5. ASSUME NEW q \in Operations \ {o} PROVE Sound(op[q])'
  <2>1. ~astray' => /\ ~astray
                    /\ op[q].pc \in {"wait", "toolkit", "mark"} /\ op[q].device \in booted =>
                         op[q].device \in booted'
    BY <1>1
  <2> QED BY <1>1, <1>2, <2>1, OtherStays
<1>6. (Single /\ ~astray => Fits(marker.udid, marker.pid))'
  BY <1>1, <1>2, MarkerStays
<1> QED BY <1>1, <1>2, <1>3, <1>4, <1>5, <1>6

\* The other simulators are listed.
LEMMA ListOthersKeeps ==
  ASSUME IInv, NEW o \in Operations, ListOthers(o)
  PROVE  IInv'
<1> DEFINE S == IF SingleSimulator THEN booted \ {op[o].device} ELSE {}
<1> DEFINE r == [op[o] EXCEPT !.pc = IF S = {} THEN "boot" ELSE "others", !.others = S,
                              !.alone = op[o].alone]
<1>1. /\ op[o] \in Op /\ op[o].pc = "thin" /\ op[o].device \in Devices
      /\ UNCHANGED <<sims, marker, launches, acts, astray>> /\ acts' \in 0..MaxActs
      /\ Sound(op[o]) /\ op' = [op EXCEPT ![o] = r]
  BY Here DEF ListOthers, At, Sound, Shaped, Picked, Thins, Becomes
<1>2. S \in SUBSET Devices /\ (SingleSimulator => booted \subseteq {op[o].device} \cup S)
  BY Values DEF IInv
<1>3. S = {} /\ SingleSimulator => booted \subseteq {op[o].device}
  OBVIOUS
<1> HIDE DEF S
<1>4. /\ r \in Op /\ r.status = op[o].status /\ r.session = op[o].session
      /\ r.device = op[o].device /\ r.forced = op[o].forced /\ r.cold = op[o].cold
      /\ r.others = S /\ r.pc = (IF S = {} THEN "boot" ELSE "others")
  BY <1>1, <1>2, PcNames DEF Op
<1> HIDE DEF r
<1>5. MayLaunch(op[o]) /\ (MayTwice(r) => MayTwice(op[o]))
  BY <1>1, <1>4 DEF MayLaunch, MayTwice, Ahead
<1>6. Shaped(r)
  BY <1>1, <1>4 DEF Sound, Shaped, Picked
<1>7. Single => Placed(r)
  BY <1>1, <1>2, <1>3, <1>4 DEF Sound, Placed, Thinned, Single
<1> QED BY <1>1, <1>4, <1>5, <1>6, <1>7, OpStep DEF Sound

\* One of them is shut down.
LEMMA ShutDownOtherKeeps ==
  ASSUME IInv, NEW o \in Operations, ShutDownOther(o)
  PROVE  IInv'
<1>1. /\ op[o] \in Op /\ op[o].pc = "others" /\ op[o].device \in Devices
      /\ op[o].others \subseteq Devices /\ Sound(op[o])
      /\ UNCHANGED <<bound, path, marker, launches, acts>> /\ acts' \in 0..MaxActs
  BY Here DEF ShutDownOther, At, Sound, Shaped, Picked, Op
<1>2. PICK x \in op[o].others : Takes(o, x) /\ Thins(o, op[o].others \ {x}, op[o].alone)
  BY DEF ShutDownOther
<1> DEFINE S == op[o].others \ {x}
<1> DEFINE r == [op[o] EXCEPT !.pc = IF S = {} THEN "boot" ELSE "others", !.others = S,
                              !.alone = op[o].alone]
<1>3. op' = [op EXCEPT ![o] = r] /\ S \subseteq Devices /\ x \in Devices
  BY <1>1, <1>2 DEF Thins, Becomes
<1>4. op[o].others \subseteq S \cup {x}
  OBVIOUS
<1> HIDE DEF S
<1>5. /\ r \in Op /\ r.status = op[o].status /\ r.session = op[o].session
      /\ r.device = op[o].device /\ r.forced = op[o].forced /\ r.cold = op[o].cold
      /\ r.others = S /\ r.pc = (IF S = {} THEN "boot" ELSE "others")
  BY <1>1, <1>3, PcNames DEF Op
<1> HIDE DEF r
<1>6. MayLaunch(op[o]) /\ (MayTwice(r) => MayTwice(op[o]))
  BY <1>1, <1>5 DEF MayLaunch, MayTwice, Ahead
<1>7. /\ op' \in [Operations -> Op] /\ op'[o] = r
      /\ \A q \in Operations \ {o} : op'[q] = op[q]
  BY <1>3, <1>5 DEF IInv, TypeOK
<1>8. /\ booted' = booted \ {x} /\ astray' \in BOOLEAN /\ (~astray' => ~astray)
      /\ app' \in [Devices -> Pids \cup {None}]
      /\ \A d \in Devices : app'[d] \in {app[d], None, launches + 1}
      /\ Processes'
      /\ \A q \in Operations \ {o} : Sound(op[q])'
      /\ (Single /\ ~astray => Fits(marker.udid, marker.pid))'
  BY <1>1, <1>2, <1>3, <1>7, TakesFacts
<1>9. Sound(op[o])'
  <2>1. ASSUME Single, ~astray'
        PROVE  /\ ~astray
               /\ r.cold => r.device = M
               /\ r.device \in booted' \cup {M} => booted' \subseteq {r.device} \cup r.others
    BY <1>1, <1>4, <1>5, <1>8, <2>1 DEF Sound, Placed
  <2>2. r.pc \in {"boot", "others"} /\ (r.pc = "boot" => r.others = {})
    BY <1>5
  <2>3. launches' \in Nat /\ launches <= launches'
    BY <1>1, Values DEF IInv
  <2>4. Single /\ ~astray' =>
           /\ ~astray
           /\ r.pc \in {"thin", "others", "boot"} /\ r.cold => r.device = M
           /\ r.device \in booted' \cup {M} =>
                /\ r.pc = "others" => booted' \subseteq {r.device} \cup r.others
                /\ r.pc \in Thinned => booted' \subseteq {r.device}
           /\ r.pc = "wait" => r.device \in booted'
    BY <2>1, <2>2 DEF Thinned
  <2> QED BY <1>1, <1>5, <1>7, <1>8, <2>2, <2>3, <2>4, OwnStays
<1>10. TypeOK'
  BY <1>1, <1>7, <1>8 DEF IInv, TypeOK
<1>11. Budget'
  <2>1. Launchers' \subseteq Launchers /\ Twice' \subseteq Twice
    BY <1>6, <1>7 DEF Launchers, Twice
  <2> QED BY <1>1, <2>1, BudgetStays DEF IInv
<1> QED BY <1>8, <1>7, <1>9, <1>10, <1>11 DEF IInv

\* A simctl fails and the launcher goes on: it is astray, unless it takes the best one.
LEMMA SimctlIgnoredKeeps ==
  ASSUME IInv, NEW o \in Operations, SimctlIgnored(o)
  PROVE  IInv'
<1>1. /\ UNCHANGED <<sims, marker, launches>> /\ acts' \in 0..MaxActs /\ M \in Devices
      /\ astray \in BOOLEAN
  BY ActType, BestIsOne DEF SimctlIgnored, M, IInv, TypeOK
<1>2. CASE At(o, "pick") /\ Picks(o, "thin", Best(Devices), TRUE) /\ UNCHANGED astray
  BY <1>1, <1>2, PicksKeeps DEF At, M
<1>3. CASE /\ At(o, "recheck") /\ Picks(o, "thin", op[o].device, TRUE)
           /\ astray' = (astray \/ op[o].device # Best(Devices))
  <2>1. op[o].pc = "recheck" /\ op[o].device \in Devices
    BY <1>3, Here DEF At, Sound, Shaped, Picked
  <2>2. astray' \in BOOLEAN /\ (~astray' => ~astray /\ op[o].device = M)
    BY <1>1, <1>3 DEF M
  <2> QED BY <1>1, <1>3, <2>1, <2>2, PicksKeeps
<1>4. CASE /\ op[o].pc \in {"thin", "others"} /\ astray' = TRUE
           /\ \E S \in SUBSET Devices : Thins(o, S, FALSE)
  <2>1. PICK S \in SUBSET Devices : Thins(o, S, FALSE)
    BY <1>4
  <2> DEFINE r == [op[o] EXCEPT !.pc = IF S = {} THEN "boot" ELSE "others", !.others = S,
                                !.alone = FALSE]
  <2>2. op[o] \in Op /\ Shaped(op[o])
    BY Here DEF Sound
  <2>3. op' = [op EXCEPT ![o] = r]
    BY <2>1 DEF Thins, Becomes
  <2>4. /\ r \in Op /\ r.status = op[o].status /\ r.session = op[o].session
        /\ r.device = op[o].device /\ r.forced = op[o].forced /\ r.pc \in {"boot", "others"}
    <3> DEFINE pc == IF S = {} THEN "boot" ELSE "others"
    <3>1. pc \in Pcs /\ pc \in {"boot", "others"}
      BY DEF Pcs
    <3>2. S \in SUBSET Devices
      OBVIOUS
    <3>3. r = [op[o] EXCEPT !.pc = pc, !.others = S, !.alone = FALSE]
      OBVIOUS
    <3> HIDE DEF pc, r
    <3> HIDE DevicesAssumption
    <3> QED BY <2>2, <3>1, <3>2, <3>3 DEF Op
  <2> HIDE DEF r
  <2>5. MayLaunch(op[o]) /\ (MayTwice(r) => MayTwice(op[o]))
    BY <1>4, <2>4 DEF MayLaunch, MayTwice, Ahead
  <2>6. Shaped(r)
    BY <1>4, <2>2, <2>4 DEF Shaped, Picked
  <2> QED BY <1>1, <1>4, <2>3, <2>4, <2>5, <2>6, OpMoves
<1>5. CASE At(o, "thin") /\ Thins(o, {}, FALSE) /\ astray' = TRUE
  BY <1>4, <1>5 DEF At
<1>6. CASE /\ At(o, "others") /\ astray' = TRUE
           /\ \E d \in op[o].others : Thins(o, op[o].others \ {d}, FALSE)
  <2>1. op[o].others \subseteq Devices
    BY Here DEF Op
  <2> QED BY <1>4, <1>6, <2>1 DEF At
<1> QED BY <1>2, <1>3, <1>5, <1>6 DEF SimctlIgnored

LEMMA ShutDownKeeps ==
  ASSUME IInv, NEW o \in Operations, NEW r \in Op, op' = [op EXCEPT ![o] = r],
         op[o].pc = "shut", Takes(o, op[o].device),
         UNCHANGED <<bound, path, marker, launches>>, acts' \in 0..MaxActs,
         \/ r = Failed
         \/ r = [op[o] EXCEPT !.pc = "poll"]
  PROVE  IInv'
<1>1. op[o] \in Op /\ op[o].device \in Devices /\ acts' \in 0..MaxActs
  BY Here DEF Sound, Shaped, Session
<1>2. /\ op' \in [Operations -> Op] /\ op'[o] = r
      /\ \A q \in Operations \ {o} : op'[q] = op[q]
  BY DEF IInv, TypeOK
<1>3. /\ booted' = booted \ {op[o].device} /\ astray' \in BOOLEAN /\ (~astray' => ~astray)
      /\ app' \in [Devices -> Pids \cup {None}]
      /\ \A d \in Devices : app'[d] \in {app[d], None, launches + 1}
      /\ Processes'
      /\ \A q \in Operations \ {o} : Sound(op[q])'
      /\ (Single /\ ~astray => Fits(marker.udid, marker.pid))'
  BY <1>1, <1>2, TakesFacts
<1>4. r.pc \in {"idle", "poll"}
  BY <1>1, NoOpFacts DEF Failed, Op, NoOp
<1>5. Sound(op[o])'
  <2>1. CASE r = Failed
    <3>1. r.pc = "idle" /\ r.status = 0 /\ r.session = NoSession
      BY <2>1, NoOpFacts DEF Failed, NoOp
    <3>2. Shaped(op[o])'
      BY <1>2, <3>1, NoOpFacts, Values DEF Shaped, IInv, Picked
    <3>3. Placed(op[o])'
      BY <1>2, <3>1, NoOpFacts DEF Placed, Fits, None, Thinned
    <3> QED BY <3>2, <3>3 DEF Sound
  <2>2. CASE r = [op[o] EXCEPT !.pc = "poll"]
    <3>1. /\ r.pc = "poll" /\ r.status = op[o].status /\ r.session = op[o].session
          /\ r.device = op[o].device /\ r.cold = op[o].cold
      BY <1>1, <2>2 DEF Op
    <3> QED BY <1>2, <1>3, <3>1, Values, OwnStays DEF IInv, Picked, Thinned
  <2> QED BY <2>1, <2>2
<1>6. TypeOK'
  BY <1>2, <1>3 DEF IInv, TypeOK
<1>7. Budget'
  <2>1. ~MayLaunch(r) /\ ~MayTwice(r)
    BY <1>4 DEF MayLaunch, MayTwice, Ahead
  <2>2. Launchers' \subseteq Launchers /\ Twice' \subseteq Twice
    BY <1>2, <2>1 DEF Launchers, Twice
  <2> QED BY <2>2, BudgetStays DEF IInv
<1> QED BY <1>3, <1>2, <1>5, <1>6, <1>7 DEF IInv

LEMMA SimctlKeeps ==
  ASSUME IInv, NEW o \in Operations, ShutDown(o) \/ SimctlFails(o)
  PROVE  IInv'
<1>1. CASE ShutDown(o)
  <2>1. [op[o] EXCEPT !.pc = "poll"] \in Op
    BY Here, PcNames DEF Op
  <2> QED BY <1>1, <2>1, Here, ShutDownKeeps DEF ShutDown, Goes, Becomes, At
<1>2. CASE SimctlFails(o)
  <2>0. acts' \in 0..MaxActs /\ Becomes(o, Failed) /\ UNCHANGED <<bound, path, marker, launches>>
    BY <1>2, ActType DEF SimctlFails, IInv
  <2>1. CASE UNCHANGED <<booted, app, astray>>
    BY <2>0, <2>1, EndsKeeps DEF sims
  <2>2. CASE At(o, "shut") /\ Takes(o, op[o].device)
    <3>1. Failed \in Op
      BY NoOpFacts DEF Failed, Op
    <3> QED BY <2>0, <2>2, <3>1, ShutDownKeeps DEF Becomes, At
  <2> QED BY <1>2, <2>1, <2>2 DEF SimctlFails
<1> QED BY <1>1, <1>2

LEMMA BootKeeps ==
  ASSUME IInv, NEW o \in Operations, Boot(o)
  PROVE  IInv'
<1> DEFINE r == [op[o] EXCEPT !.pc = "clear"]
<1>1. /\ op[o] \in Op /\ op[o].pc = "boot" /\ op[o].device \in Devices
      /\ UNCHANGED <<app, bound, path, marker, launches, acts, astray>> /\ acts' \in 0..MaxActs
      /\ booted' = IF op[o].cold THEN booted \cup {op[o].device} ELSE booted
  BY Here DEF Boot, At, Sound, Shaped, Picked
<1>2. /\ r \in Op /\ r.pc = "clear" /\ r.status = op[o].status /\ r.session = op[o].session
      /\ r.device = op[o].device /\ r.forced = op[o].forced /\ r.cold = op[o].cold
      /\ op' = [op EXCEPT ![o] = r]
  BY <1>1, PcNames DEF Op, Boot, Goes, Becomes
<1>3. MayLaunch(op[o]) /\ (MayTwice(r) => MayTwice(op[o]))
  BY <1>1, <1>2 DEF MayLaunch, MayTwice, Ahead
<1> HIDE DEF r
<1>4. /\ op' \in [Operations -> Op] /\ op'[o] = r
      /\ \A q \in Operations \ {o} : op'[q] = op[q]
  BY <1>2 DEF IInv, TypeOK
<1>5. Single /\ ~astray => booted' = booted \/ (op[o].device = M /\ booted' \subseteq {M})
  BY <1>1, Here DEF Sound, Placed, Thinned
<1>6. booted \subseteq booted' /\ booted' \subseteq Devices
  BY <1>1, Values DEF IInv
<1>7. TypeOK' /\ Processes'
  BY <1>1, <1>4, <1>6 DEF IInv, TypeOK, Processes
<1>8. ASSUME NEW q \in Operations \ {o} PROVE Sound(op[q])'
  BY <1>1, <1>4, <1>5, <1>6, Values, OtherStays DEF IInv
<1>9. Sound(op[o])'
  <2>1. ASSUME Single, ~astray, op[o].device \in booted' \cup {M}
        PROVE  booted' \subseteq {op[o].device}
    BY <1>1, <1>5, <2>1, Here DEF Sound, Placed, Thinned
  <2>2. Single /\ ~astray' => ~astray /\ (r.device \in booted' \cup {M} => booted' \subseteq {r.device})
    BY <1>1, <1>2, <2>1
  <2> QED BY <1>1, <1>2, <1>4, <2>2, Values, OwnStays DEF IInv
<1>10. (Single /\ ~astray => Fits(marker.udid, marker.pid))'
  BY <1>1, Values, MarkerStays DEF IInv
<1>11. Budget'
  <2>1. Launchers' \subseteq Launchers /\ Twice' \subseteq Twice
    BY <1>3, <1>4 DEF Launchers, Twice
  <2> QED BY <1>1, <2>1, BudgetStays DEF IInv
<1> QED BY <1>7, <1>8, <1>9, <1>10, <1>11 DEF IInv

\* The socket's file or the marker goes.
LEMMA RemovalKeeps ==
  ASSUME IInv, NEW o \in Operations, NEW r \in Op, op' = [op EXCEPT ![o] = r],
         UNCHANGED <<booted, app, bound, launches, acts, astray>>,
         path' \in {path, None}, marker' \in {marker, NoSession},
         \/ op[o].pc = "clear" /\ r = [op[o] EXCEPT !.pc = "launch"]
         \/ op[o].pc = "forget" /\ r = [op[o] EXCEPT !.pc = "unlink"]
         \/ /\ op[o].pc = "unlink" /\ r.pc = "idle" /\ r.session = NoSession
            /\ r.status = 0
  PROVE  IInv'
<1>1. /\ op[o] \in Op /\ Shaped(op[o]) /\ (Single => Placed(op[o]))
      /\ UNCHANGED <<app, launches, astray>> /\ acts' \in 0..MaxActs
  BY Here DEF Sound
<1>2. /\ r.pc \in {"launch", "unlink", "idle"} /\ r.session \in {op[o].session, NoSession}
      /\ r.pc # "idle" => r.session = op[o].session
      /\ r.status \in {op[o].status, 0}
      /\ r.pc = "launch" => op[o].pc = "clear" /\ r.forced = op[o].forced /\ r.device = op[o].device
      /\ r.pc = "unlink" => op[o].pc = "forget" /\ r.device = op[o].device
  BY <1>1 DEF Op
<1>3. /\ op' \in [Operations -> Op] /\ op'[o] = r
      /\ \A q \in Operations \ {o} : op'[q] = op[q]
  BY DEF IInv, TypeOK
<1>4. TypeOK' /\ Processes'
  BY <1>1, <1>3, NoOpFacts, Values DEF IInv, TypeOK, Processes, None
<1>5. Sound(r)
  <2>1. Shaped(r)
    BY <1>1, <1>2, NoOpFacts, Values DEF IInv, Shaped, Picked
  <2>2. ASSUME Single PROVE Placed(r)
    BY <1>1, <1>2, <2>2, NoOpFacts DEF Placed, Fits, None, Thinned
  <2> QED BY <2>1, <2>2 DEF Sound
<1>6. Sound(op[o])'
  BY <1>1, <1>3, <1>5 DEF Sound, Shaped, Placed, Fits, M
<1>7. ASSUME NEW q \in Operations \ {o} PROVE Sound(op[q])'
  BY <1>1, <1>3, Values, OtherStays DEF IInv
<1>8. (Single /\ ~astray => Fits(marker.udid, marker.pid))'
  BY <1>1, Values, MarkerStays DEF IInv
<1>9. Budget'
  <2>1. (MayLaunch(r) => MayLaunch(op[o])) /\ (MayTwice(r) => MayTwice(op[o]))
    BY <1>2 DEF MayLaunch, MayTwice, Ahead
  <2>2. Launchers' \subseteq Launchers /\ Twice' \subseteq Twice
    BY <1>3, <2>1 DEF Launchers, Twice
  <2> QED BY <1>1, <2>2, BudgetStays DEF IInv
<1> QED BY <1>4, <1>6, <1>7, <1>8, <1>9 DEF IInv

LEMMA CleanupKeeps ==
  ASSUME IInv, NEW o \in Operations, Clear(o) \/ RemoveMarker(o) \/ RemoveSocket(o)
  PROVE  IInv'
<1>1. CASE Clear(o)
  <2>1. [op[o] EXCEPT !.pc = "launch"] \in Op
    BY Here, PcNames DEF Op
  <2> QED BY <1>1, <2>1, RemovalKeeps DEF Clear, Goes, Becomes, At
<1>2. CASE RemoveMarker(o)
  <2>1. [op[o] EXCEPT !.pc = "unlink"] \in Op
    BY Here, PcNames DEF Op
  <2> QED BY <1>2, <2>1, RemovalKeeps DEF RemoveMarker, Goes, Becomes, At, sims
<1>3. CASE RemoveSocket(o)
  <2> DEFINE r == [NoOp EXCEPT !.result = "disconnected", !.alone = op[o].alone]
  <2>1. r \in Op /\ r.pc = "idle" /\ r.status = 0 /\ r.session = NoSession
    BY Here, NoOpFacts DEF Op
  <2>2. op' = [op EXCEPT ![o] = r]
    BY <1>3 DEF RemoveSocket, Ends, Becomes
  <2> HIDE DEF r
  <2> QED BY <1>3, <2>1, <2>2, RemovalKeeps DEF RemoveSocket, At
<1> QED BY <1>1, <1>2, <1>3

LEMMA WriteMarkerKeeps ==
  ASSUME IInv, NEW o \in Operations, WriteMarker(o)
  PROVE  IInv'
<1> DEFINE r == [NoOp EXCEPT !.pc = "reread", !.forced = op[o].forced, !.alone = op[o].alone]
<1>1. /\ op[o] \in Op /\ op[o].pc = "mark" /\ op[o].device \in Devices /\ op[o].status \in Pids
      /\ Shaped(op[o]) /\ (Single => Placed(op[o])) /\ acts' \in 0..MaxActs
      /\ marker' = [udid |-> op[o].device, pid |-> op[o].status]
      /\ UNCHANGED <<booted, app, bound, path, launches, acts, astray>>
  BY Here DEF WriteMarker, At, Sound, Shaped, sims, Picked
<1>2. /\ r \in Op /\ r.pc = "reread" /\ r.status = 0 /\ r.session = NoSession
      /\ r.forced = op[o].forced /\ op' = [op EXCEPT ![o] = r]
  BY <1>1, NoOpFacts, PcNames DEF Op, WriteMarker, Anew, Becomes
<1>3. (MayLaunch(r) => MayLaunch(op[o])) /\ (MayTwice(r) => MayTwice(op[o]))
  BY <1>1, <1>2 DEF MayLaunch, MayTwice, Ahead
<1> HIDE DEF r
<1>4. /\ op' \in [Operations -> Op] /\ op'[o] = r
      /\ \A q \in Operations \ {o} : op'[q] = op[q]
  BY <1>2 DEF IInv, TypeOK
<1>5. marker' \in Session /\ marker'.pid = op[o].status /\ marker'.udid = op[o].device
  BY <1>1 DEF Session
<1>6. TypeOK'
  BY <1>1, <1>4, <1>5 DEF IInv, TypeOK
<1>7. Processes'
  BY <1>1, <1>5 DEF IInv, Processes, Shaped
<1>8. Sound(r)
  BY <1>2, NoOpFacts DEF IInv
<1>9. Sound(op[o])'
  BY <1>1, <1>4, <1>8 DEF Sound, Shaped, Placed, Fits, M
<1>10. ASSUME NEW q \in Operations \ {o} PROVE Sound(op[q])'
  BY <1>1, <1>4, Values, OtherStays DEF IInv
<1>11. (Single /\ ~astray => Fits(marker.udid, marker.pid))'
  BY <1>1, <1>5 DEF Placed, Fits
<1>12. Budget'
  <2>1. Launchers' \subseteq Launchers /\ Twice' \subseteq Twice
    BY <1>3, <1>4 DEF Launchers, Twice
  <2> QED BY <1>1, <2>1, BudgetStays DEF IInv
<1> QED BY <1>6, <1>7, <1>9, <1>10, <1>11, <1>12 DEF IInv

LEMMA LaunchKeeps ==
  ASSUME IInv, NEW o \in Operations, Launch(o)
  PROVE  IInv'
<1>1. /\ op[o] \in Op /\ op[o].pc = "launch" /\ op[o].device \in Devices
      /\ Sound(op[o]) /\ acts' \in 0..MaxActs /\ launches \in Nat
      /\ UNCHANGED <<booted, bound, path, marker, acts, astray>>
  BY Here, Values DEF Launch, At, Sound, Shaped, IInv, Picked
<1>2. CASE op[o].device \notin booted
  BY <1>1, <1>2, EndsKeeps DEF Launch, sims
<1>3. CASE op[o].device \in booted
  <2> DEFINE r == [op[o] EXCEPT !.pc = "wait", !.own = launches']
  <2>1. /\ launches' = launches + 1 /\ app' = [app EXCEPT ![op[o].device] = launches']
        /\ op' = [op EXCEPT ![o] = r]
    BY <1>3 DEF Launch, Becomes
  <2>2. o \in Launchers /\ (~op[o].forced => o \in Twice)
    BY <1>1 DEF Launchers, Twice, MayLaunch, MayTwice, Ahead
  <2>3. /\ IsFiniteSet(Launchers \ {o}) /\ Cardinality(Launchers \ {o}) = Cardinality(Launchers) - 1
        /\ Cardinality(Launchers \ {o}) \in Nat
    BY <2>2, BudgetFacts, FS_RemoveElement, FS_CardinalityType
  <2>4. launches' \in 0..MaxLaunches /\ launches' \in Pids /\ launches' \in Nat
    BY <1>1, <2>1, <2>3, BudgetFacts DEF IInv, Budget, Pids
  <2>5. /\ r \in Op /\ r.pc = "wait" /\ r.status = op[o].status /\ r.session = op[o].session
        /\ r.device = op[o].device /\ r.forced = op[o].forced /\ r.cold = op[o].cold
    BY <1>1, <2>4, PcNames DEF Op
  <2> HIDE DEF r
  <2>6. /\ op' \in [Operations -> Op] /\ op'[o] = r
        /\ \A q \in Operations \ {o} : op'[q] = op[q]
    BY <2>1, <2>5 DEF IInv, TypeOK
  <2>7. /\ app' \in [Devices -> Pids \cup {None}]
        /\ \A d \in Devices : app'[d] = IF d = op[o].device THEN launches + 1 ELSE app[d]
    BY <1>1, <2>1, <2>4 DEF IInv, TypeOK
  <2>8. TypeOK'
    BY <1>1, <2>4, <2>6, <2>7 DEF IInv, TypeOK
  <2>9. Processes'
    BY <1>1, <1>3, <2>1, <2>7, Values DEF IInv, Processes, None
  <2>10. Budget'
    <3>1. /\ Cardinality(Launchers) \in Nat /\ Cardinality(Twice) \in Nat
          /\ launches + Cardinality(Launchers) + Cardinality(Twice) <= MaxLaunches
      BY BudgetFacts DEF IInv, Budget
    <3>2. CASE op[o].forced
      <4>1. ~MayLaunch(r) /\ ~MayTwice(r)
        BY <2>5, <3>2 DEF MayLaunch, MayTwice, Ahead
      <4>2. Launchers' \subseteq Launchers \ {o} /\ Twice' \subseteq Twice
        BY <2>6, <4>1 DEF Launchers, Twice
      <4>3. Cardinality(Launchers') <= Cardinality(Launchers) - 1 /\ Cardinality(Launchers') \in Nat
        BY <2>3, <4>2, FS_Subset, FS_CardinalityType
      <4>4. Cardinality(Twice') <= Cardinality(Twice) /\ Cardinality(Twice') \in Nat
        BY <4>2, BudgetFacts, FS_Subset, FS_CardinalityType
      <4> QED BY <1>1, <2>1, <3>1, <4>3, <4>4 DEF Budget
    <3>3. CASE ~op[o].forced
      <4>1. ~MayTwice(r)
        BY <2>5 DEF MayTwice, Ahead
      <4>2. Launchers' \subseteq Launchers /\ Twice' \subseteq Twice \ {o}
        BY <2>2, <2>6, <4>1 DEF Launchers, Twice
      <4>3. /\ IsFiniteSet(Twice \ {o}) /\ Cardinality(Twice \ {o}) = Cardinality(Twice) - 1
        BY <2>2, <3>3, BudgetFacts, FS_RemoveElement
      <4>4. Cardinality(Launchers') <= Cardinality(Launchers) /\ Cardinality(Launchers') \in Nat
        BY <4>2, BudgetFacts, FS_Subset, FS_CardinalityType
      <4>5. Cardinality(Twice') <= Cardinality(Twice) - 1 /\ Cardinality(Twice') \in Nat
        BY <4>2, <4>3, FS_Subset, FS_CardinalityType
      <4> QED BY <1>1, <2>1, <3>1, <4>4, <4>5 DEF Budget
    <3> QED BY <3>2, <3>3
  <2>11. \A d \in Devices : app'[d] \in {app[d], None, launches + 1}
    BY <2>7
  <2>12. launches <= launches'
    BY <1>1, <2>1
  <2>13. ASSUME NEW q \in Operations \ {o} PROVE Sound(op[q])'
    BY <1>1, <2>4, <2>6, <2>11, <2>12, OtherStays
  <2>14. Sound(op[o])'
    <3>1. ASSUME Single, ~astray PROVE booted' \subseteq {op[o].device}
      BY <1>1, <1>3, <3>1 DEF Sound, Placed, Thinned
    <3>2. Single /\ ~astray' => ~astray /\ booted' \subseteq {r.device} /\ r.device \in booted'
      BY <1>1, <1>3, <2>5, <3>1
    <3> QED BY <1>1, <2>4, <2>5, <2>6, <2>11, <2>12, <3>2, OwnStays
  <2>15. (Single /\ ~astray => Fits(marker.udid, marker.pid))'
    BY <1>1, <2>4, <2>11, <2>12, MarkerStays
  <2> QED BY <2>8, <2>9, <2>10, <2>13, <2>14, <2>15 DEF IInv
<1> QED BY <1>2, <1>3

\* A server binds its socket: the path leads to a process that lives.
LEMMA BindKeeps ==
  ASSUME IInv, NEW p \in Pids, Bind(p)
  PROVE  IInv'
<1>1. /\ UNCHANGED <<booted, app, marker, launches, acts, op, astray>>
      /\ path' = p /\ bound' = bound \cup {p} /\ \E d \in Devices : app[d] = p
  BY DEF Bind, Alive
<1>2. TypeOK' /\ Processes'
  BY <1>1 DEF IInv, TypeOK, Processes
<1>3. Budget'
  <2>1. Launchers' \subseteq Launchers /\ Twice' \subseteq Twice
    BY <1>1 DEF Launchers, Twice
  <2> QED BY <1>1, <2>1, BudgetStays DEF IInv
<1>4. ASSUME NEW q \in Operations PROVE Sound(op[q])'
  BY <1>1, Values, OtherStays DEF IInv
<1>5. (Single /\ ~astray => Fits(marker.udid, marker.pid))'
  BY <1>1, Values, MarkerStays DEF IInv
<1> QED BY <1>2, <1>3, <1>4, <1>5 DEF IInv
-----------------------------------------------------------------------------
(* Commands that begin, and what others do *)

LEMMA DisturbedFacts ==
  ASSUME IInv, NEW o \in Operations
  PROVE  /\ Disturbed \in [Operations -> Op]
         /\ Disturbed[o] = [op[o] EXCEPT !.alone = FALSE] /\ Disturbed[o] \in Op
         /\ Disturbed[o].pc = op[o].pc /\ Disturbed[o].forced = op[o].forced
<1>1. ASSUME NEW q \in Operations
      PROVE  /\ [op[q] EXCEPT !.alone = FALSE] \in Op
             /\ [op[q] EXCEPT !.alone = FALSE].pc = op[q].pc
             /\ [op[q] EXCEPT !.alone = FALSE].forced = op[q].forced
  <2> HIDE DevicesAssumption
  <2>1. op[q] \in Op
    BY Here
  <2> QED BY <2>1 DEF Op
<1> QED BY <1>1 DEF Disturbed

LEMMA BeginKeeps ==
  ASSUME IInv, NEW o \in Operations, NEW pc \in {"check", "pick", "read"}, NEW forced \in BOOLEAN,
         Begin(o, pc, forced), pc = "read" \/ Room
  PROVE  IInv'
<1> DEFINE r == [NoOp EXCEPT !.pc = pc, !.forced = forced, !.alone = Busy = {}]
<1>1. /\ op[o].pc = "idle" /\ UNCHANGED <<booted, app, bound, path, marker, launches, acts, astray>>
      /\ op' = [Disturbed EXCEPT ![o] = r]
  BY DEF Begin, At, sims
<1>2. /\ r \in Op /\ r.pc = pc /\ r.status = 0 /\ r.session = NoSession /\ r.forced = forced
      /\ r.device = None
  BY NoOpFacts, PcNames DEF Op, NoOp, None
<1> HIDE DEF r
<1>3. /\ op' \in [Operations -> Op] /\ op'[o] = r
      /\ \A q \in Operations \ {o} : op'[q] = [op[q] EXCEPT !.alone = FALSE]
      /\ \A q \in Operations \ {o} : op'[q].pc = op[q].pc /\ op'[q].forced = op[q].forced
  BY <1>1, <1>2, DisturbedFacts
<1>4. TypeOK' /\ Processes'
  BY <1>1, <1>3 DEF IInv, TypeOK, Processes
<1>5. ASSUME NEW q \in Operations \ {o} PROVE Sound(op[q])'
  <2>1. \E b \in BOOLEAN : op'[q] = [op[q] EXCEPT !.alone = b]
    BY <1>3
  <2>2. launches' \in Nat /\ launches <= launches'
    BY <1>1, Values DEF IInv
  <2> QED BY <1>1, <2>1, <2>2, OtherStays
<1>6. Sound(op[o])'
  <2>1. Shaped(op[o])'
    BY <1>1, <1>2, <1>3, NoOpFacts, Values DEF IInv, Shaped, Picked
  <2>2. Placed(op[o])'
    BY <1>2, <1>3, NoOpFacts DEF Placed, Fits, None, Thinned
  <2> QED BY <2>1, <2>2 DEF Sound
<1>7. (Single /\ ~astray => Fits(marker.udid, marker.pid))'
  BY <1>1, Values, MarkerStays DEF IInv
<1>8. \A q \in Operations \ {o} : /\ MayLaunch(op'[q]) <=> MayLaunch(op[q])
                                  /\ MayTwice(op'[q]) <=> MayTwice(op[q])
  BY <1>3 DEF MayLaunch, MayTwice
<1>9. Budget'
  <2>1. CASE pc = "read"
    <3>1. ~MayLaunch(r) /\ ~MayTwice(r)
      BY <1>2, <2>1 DEF MayLaunch, MayTwice, Ahead
    <3>2. Launchers' \subseteq Launchers /\ Twice' \subseteq Twice
      BY <1>3, <1>8, <3>1 DEF Launchers, Twice
    <3> QED BY <1>1, <3>2, BudgetStays DEF IInv
  <2>2. CASE Room
    <3>1. /\ IsFiniteSet(Busy) /\ Cardinality(Busy) \in Nat /\ o \notin Busy
      <4>1. Busy \in SUBSET Operations /\ o \notin Busy
        BY <1>1 DEF Busy, At
      <4> QED BY <4>1, FS_Subset, FS_CardinalityType
    <3>2. /\ IsFiniteSet(Busy \cup {o}) /\ Cardinality(Busy \cup {o}) = Cardinality(Busy) + 1
      BY <3>1, FS_AddElement
    <3>3. Launchers' \subseteq Busy \cup {o} /\ Twice' \subseteq Busy \cup {o}
      BY <1>8 DEF Launchers, Twice, Busy, At, MayLaunch, MayTwice, Ahead
    <3>4. Cardinality(Launchers') <= Cardinality(Busy) + 1 /\ Cardinality(Launchers') \in Nat
      BY <3>2, <3>3, FS_Subset, FS_CardinalityType
    <3>5. Cardinality(Twice') <= Cardinality(Busy) + 1 /\ Cardinality(Twice') \in Nat
      BY <3>2, <3>3, FS_Subset, FS_CardinalityType
    <3>6. launches + 2 * (Cardinality(Busy) + 1) <= MaxLaunches /\ launches' = launches /\ launches \in Nat
      BY <1>1, <2>2, Values DEF Room, IInv
    <3> QED BY <3>1, <3>4, <3>5, <3>6 DEF Budget
  <2> QED BY <2>1, <2>2
<1> QED BY <1>4, <1>5, <1>6, <1>7, <1>9 DEF IInv

LEMMA OthersKeep ==
  ASSUME IInv, NEW d \in Devices, BootByHand(d) \/ ShutDownByHand(d) \/ Crash(d)
  PROVE  IInv'
<1>1. /\ UNCHANGED <<bound, path, marker, launches, astray>> /\ op' = Disturbed
      /\ acts' \in 0..MaxActs
  BY ActType DEF BootByHand, ShutDownByHand, Crash, IInv
<1>2. /\ op' \in [Operations -> Op]
      /\ \A q \in Operations : op'[q] = [op[q] EXCEPT !.alone = FALSE]
      /\ \A q \in Operations : op'[q].pc = op[q].pc /\ op'[q].forced = op[q].forced
  BY <1>1, DisturbedFacts DEF Disturbed
<1>3. /\ booted' \subseteq Devices
      /\ app' \in [Devices -> Pids \cup {None}]
      /\ \A e \in Devices : app'[e] \in {app[e], None}
      /\ \A e \in Devices : e \in booted /\ e \notin booted' => app'[e] = None
  <2>1. app \in [Devices -> Pids \cup {None}] /\ booted \subseteq Devices
    BY DEF IInv, TypeOK
  <2>2. CASE BootByHand(d)
    BY <2>1, <2>2 DEF BootByHand
  <2>3. CASE ShutDownByHand(d)
    BY <2>1, <2>3 DEF ShutDownByHand, Off
  <2>4. CASE Crash(d)
    BY <2>1, <2>4 DEF Crash
  <2> QED BY <2>2, <2>3, <2>4
<1>4. ASSUME Single
      PROVE  booted' = booted \/ \A q \in Operations : op[q].pc = "idle"
  BY <1>4 DEF BootByHand, ShutDownByHand, Crash, ByHand, Single, Busy, At
<1>5. TypeOK'
  BY <1>1, <1>2, <1>3 DEF IInv, TypeOK
<1>6. Processes'
  BY <1>1, <1>3, Values DEF IInv, Processes, None
<1>7. ASSUME NEW q \in Operations PROVE Sound(op[q])'
  <2>1. Single => booted' = booted \/ op[q].pc = "idle"
    BY <1>4
  <2>2. \A e \in Devices : app'[e] \in {app[e], None, launches + 1}
    BY <1>3
  <2>3. \E b \in BOOLEAN : op'[q] = [op[q] EXCEPT !.alone = b]
    BY <1>2
  <2>4. launches' \in Nat /\ launches <= launches'
    BY <1>1, Values DEF IInv
  <2> QED BY <1>1, <2>1, <2>2, <2>3, <2>4, OtherStays
<1>8. (Single /\ ~astray => Fits(marker.udid, marker.pid))'
  BY <1>1, <1>3, Values, MarkerStays DEF IInv
<1>9. Budget'
  <2>1. Launchers' \subseteq Launchers /\ Twice' \subseteq Twice
    BY <1>2 DEF Launchers, Twice, MayLaunch, MayTwice
  <2> QED BY <1>1, <2>1, BudgetStays DEF IInv
<1> QED BY <1>5, <1>6, <1>7, <1>8, <1>9 DEF IInv
-----------------------------------------------------------------------------
(* Every step keeps the invariant *)

LEMMA StepKeeps ==
  ASSUME IInv, NEW o \in Operations, Step(o)
  PROVE  IInv'
<1>1. CASE Check(o)
  BY <1>1, CheckKeeps
<1>2. CASE Compare(o)
  BY <1>2, CompareKeeps
<1>3. CASE Pick(o) \/ Recheck(o)
  BY <1>3, PickKeeps
<1>4. CASE ListOthers(o) \/ ShutDownOther(o)
  BY <1>4, ListOthersKeeps, ShutDownOtherKeeps
<1>5. CASE Boot(o)
  BY <1>5, BootKeeps
<1>6. CASE Launch(o)
  BY <1>6, LaunchKeeps
<1>7. CASE Wait(o) \/ ActivateToolkit(o)
  BY <1>7, WaitKeeps
<1>8. CASE Clear(o) \/ RemoveMarker(o) \/ RemoveSocket(o)
  BY <1>8, CleanupKeeps
<1>9. CASE WriteMarker(o)
  BY <1>9, WriteMarkerKeeps
<1>10. CASE Reread(o) \/ ReadSession(o)
  BY <1>10, ReadKeeps
<1>11. CASE Confirm(o)
  BY <1>11, ConfirmKeeps
<1>12. CASE Status(o) \/ Stopped(o) \/ DeviceState(o) \/ PollDevice(o)
  BY <1>12, DisconnectKeeps
<1>13. CASE ShutDown(o)
  BY <1>13, SimctlKeeps
<1> QED BY <1>1, <1>2, <1>3, <1>4, <1>5, <1>6, <1>7, <1>8, <1>9, <1>10, <1>11, <1>12, <1>13
        DEF Step

LEMMA CommandKeeps ==
  ASSUME IInv, NEW o \in Operations, Command(o)
  PROVE  IInv'
<1>1. CASE Connect(o)
  BY <1>1, BeginKeeps DEF Connect
<1>2. CASE Disconnect(o)
  BY <1>2, BeginKeeps DEF Disconnect
<1>3. CASE LoadToolkit(o)
  BY <1>3, BeginKeeps DEF LoadToolkit
<1> QED BY <1>1, <1>2, <1>3 DEF Command

LEMMA NextIInv == IInv /\ [Next]_vars => IInv'
<1> SUFFICES ASSUME IInv, [Next]_vars PROVE IInv'
  OBVIOUS
<1>1. ASSUME NEW o \in Operations, Command(o) PROVE IInv'
  BY <1>1, CommandKeeps
<1>2. ASSUME NEW o \in Operations, Step(o) PROVE IInv'
  BY <1>2, StepKeeps
<1>3. ASSUME NEW o \in Operations, LaunchFails(o) \/ StatusTimesOut(o) PROVE IInv'
  BY <1>3, FailureKeeps
<1>4. ASSUME NEW o \in Operations, SimctlFails(o) \/ SimctlIgnored(o) PROVE IInv'
  BY <1>4, SimctlKeeps, SimctlIgnoredKeeps
<1>5. ASSUME NEW p \in Pids, Bind(p) PROVE IInv'
  BY <1>5, BindKeeps
<1>6. ASSUME NEW d \in Devices, BootByHand(d) \/ ShutDownByHand(d) \/ Crash(d) PROVE IInv'
  BY <1>6, OthersKeep
<1>7. CASE UNCHANGED vars
  BY <1>7 DEF vars, sims, IInv, TypeOK, Processes, Budget, Launchers, Twice, MayLaunch, MayTwice,
              Sound, Shaped, Placed, Fits, M
<1> QED BY <1>1, <1>2, <1>3, <1>4, <1>5, <1>6, <1>7 DEF Next

\* The invariant that the rest follows from.
THEOREM Invariance == Spec => []IInv
BY InitIInv, NextIInv, PTL DEF Spec

\* The states of simulators, processes, marker and commands are the ones the commands of
\* extension.js and the launcher can leave, in particular no bound is overrun.
THEOREM TypeCorrect == Spec => []TypeOK
<1>1. IInv => TypeOK
  BY DEF IInv
<1> QED BY <1>1, Invariance, PTL

\* The marker of the launcher is true (launcher 233-259): if it validates against the
\* process that answers, that process runs in the simulator it names.
THEOREM SessionsAreTrue ==
  ASSUME SingleSimulator, ~ByHandDuring
  PROVE  Spec => []SessionTrue
<1>1. IInv => SessionTrue
  <2> SUFFICES ASSUME IInv, ~astray, Responding, Validates(marker, path), marker # NoSession
               PROVE  app[marker.udid] = path
    BY DEF SessionTrue
  <2>1. Fits(marker.udid, marker.pid) /\ marker.pid = path /\ path # None
    BY DEF IInv, Single, Validates
  <2>2. PICK d \in Devices : app[d] = path
    BY DEF Responding, Alive
  <2> QED BY <2>1, <2>2 DEF Fits
<1> QED BY <1>1, Invariance, PTL

\* Disconnect shuts down the simulator of the bridge that answered it (bridge.js 631-648),
\* if that is still alive.
THEOREM DisconnectSparesOthers ==
  ASSUME SingleSimulator, ~ByHandDuring
  PROVE  Spec => OnlyOwnSimulator
<1>1. IInv => [\A o \in Operations :
                (~astray /\ At(o, "shut") /\ ~At(o, "shut")' /\ op[o].device \in booted \ booted'
                   /\ Alive(op[o].status))
                  => app[op[o].device] = op[o].status]_vars
  <2> SUFFICES ASSUME IInv, NEW o \in Operations, ~astray, At(o, "shut"), Alive(op[o].status)
               PROVE  app[op[o].device] = op[o].status
    OBVIOUS
  <2>1. Sound(op[o]) /\ Single /\ op[o].pc = "shut"
    BY Here DEF Single, At
  <2>2. op[o].device = op[o].session.udid /\ op[o].status = op[o].session.pid
    BY <2>1 DEF Sound, Shaped
  <2>3. Fits(op[o].session.udid, op[o].session.pid)
    BY <2>1 DEF Sound, Placed
  <2>4. op[o].status # None /\ \E d \in Devices : app[d] = op[o].status
    BY DEF Alive
  <2> QED BY <2>2, <2>3, <2>4 DEF Fits
<1> QED BY <1>1, Invariance, PTL DEF OnlyOwnSimulator
-----------------------------------------------------------------------------
(***************************************************************************)
(* Recovery and cleanup: what a command relies on that no other command    *)
(* overlaps (Has, Leaves).  A Connect holds the one process that runs; a   *)
(* Disconnect is told by the marker where all that run are (Marked).       *)
(***************************************************************************)
HIDE DevicesAssumption
HIDE OperationsAssumption
HIDE BoundsAssumption
HIDE NoneAssumption

\* No injected Shortcuts runs outside that simulator; none runs at all.
OnlyIn(device) == \A d \in Devices : app[d] # None => d = device
NoneRuns == \A d \in Devices : app[d] = None

Launching == {"boot", "clear", "launch"}
Leaving == {"status", "stopped?", "device", "shut", "poll"}

\* The process lives, and no other does; the socket path leads to it.
Lone(p) == Alive(p) /\ \A d \in Devices : app[d] \in {None, p}
Holds(p) == p = path /\ Lone(p)

\* Who is about to launch launches where the marker says that a bridge runs.
Aims(r) ==
  Single /\ ~astray /\ r.pc = "launch" /\ marker # NoSession /\ r.device \in booted \cup {M}
    => r.device = marker.udid

\* The marker names the simulator of every process there is.
Marked == Single /\ ~astray /\ marker # NoSession => OnlyIn(marker.udid)

Alone(o) ==
  op[o].alone /\ op[o].pc # "idle" => \A q \in Operations \ {o} : op[q].pc = "idle"

\* A Connect that is alone has its simulator, its process, and the socket.
Has(r) ==
  r.alone =>
    /\ r.pc \in {"thin", "others", "boot"} => r.cold \/ r.device \in booted
    /\ r.pc = "others" =>
         /\ r.device \notin r.others
         /\ \A d \in Devices : app[d] # None => d \in {r.device} \cup r.others
    /\ r.pc \in {"clear", "launch"} => r.device \in booted
    /\ r.pc \in Launching => OnlyIn(r.device)
    /\ r.pc = "wait" => Lone(r.own) /\ (r.own \in bound => path = r.own)
    /\ r.pc \in {"toolkit", "mark"} => Holds(r.status)
    /\ r.pc = "reread" => Holds(marker.pid)
    /\ r.pc = "confirm" => Holds(r.session.pid)

\* A Disconnect that is alone leaves no process behind.
Leaves(r) ==
  Single /\ ~astray /\ r.alone =>
    /\ r.pc \in Leaving => OnlyIn(r.device)
    /\ r.pc \in {"forget", "unlink"} => NoneRuns

\* A process that has bound its socket was launched.
Launched == \A p \in bound : p <= launches

RInv ==
  /\ Launched /\ Marked
  /\ \A o \in Operations :
       /\ Aims(op[o]) /\ Alone(o)
       /\ SingleSimulator => Has(op[o])
       /\ Leaves(op[o])

\* Who is idle or not alone relies on nothing.
LEMMA Free ==
  ASSUME NEW r, r.pc = "idle" \/ ~r.alone
  PROVE  Has(r) /\ Leaves(r)
BY DEF Has, Leaves, Launching, Leaving

LEMMA InitRInv == Init => RInv
<1> SUFFICES ASSUME Init PROVE RInv
  OBVIOUS
<1>1. \A o \in Operations : op[o].pc = "idle"
  BY NoOpFacts DEF Init
<1>2. \A o \in Operations : Has(op[o]) /\ Leaves(op[o])
  BY <1>1, Free
<1> QED BY <1>1, <1>2 DEF Init, RInv, Launched, Marked, Aims, Alone

\* Simulators go, or the best comes alone, and no marker is written: a launcher at its pc.
LEMMA AimStays ==
  ASSUME IInv, RInv, NEW q \in Operations,
         op'[q].pc = op[q].pc, op'[q].device = op[q].device,
         Single /\ ~astray' =>
           booted' \subseteq booted \/ booted' \subseteq {M} \/ op[q].pc = "idle",
         Single /\ ~astray' => ~astray, marker' \in {marker, NoSession}
  PROVE  Aims(op[q])'
<1>1. Aims(op[q])
  BY DEF RInv
<1> QED BY <1>1 DEF Aims, Single, M

\* Processes end, and no marker is written.
LEMMA MarkedStays ==
  ASSUME RInv, Single /\ ~astray' => ~astray, marker' \in {marker, NoSession},
         \A d \in Devices : app'[d] \in {app[d], None}
  PROVE  Marked'
BY DEF RInv, Marked, OnlyIn, Single

\* One operation goes on: the others rely on nothing while it is busy.
LEMMA OwnMoves ==
  ASSUME IInv, RInv, NEW o \in Operations, op[o].pc # "idle",
         \A q \in Operations \ {o} : op'[q] = op[q],
         op'[o].alone => op[o].alone,
         Launched', Marked', \A q \in Operations : Aims(op[q])',
         SingleSimulator => Has(op[o])', Leaves(op[o])'
  PROVE  RInv'
<1>1. ASSUME NEW q \in Operations \ {o}
      PROVE  (op[q].pc = "idle" \/ ~op[q].alone) /\ Alone(q)' /\ Has(op[q])' /\ Leaves(op[q])'
  <2>1. op[q].pc = "idle" \/ ~op[q].alone
    BY DEF RInv, Alone
  <2>2. op'[q].pc = "idle" \/ ~op'[q].alone
    BY <2>1
  <2>3. Alone(q)'
    BY <2>2 DEF Alone
  <2>4. Has(op[q])' /\ Leaves(op[q])'
    BY <2>2 DEF Has, Leaves, Launching, Leaving
  <2> QED BY <2>1, <2>3, <2>4
<1>2. Alone(o)'
  BY DEF RInv, Alone
<1> QED BY <1>1, <1>2 DEF RInv

\* It goes on, and nothing else moves.
LEMMA OwnSteps ==
  ASSUME IInv, RInv, NEW o \in Operations, NEW r \in Op, op' = [op EXCEPT ![o] = r],
         op[o].pc # "idle", UNCHANGED <<sims, marker, launches>>, ~astray' => ~astray,
         r.alone => op[o].alone, r.pc # "launch",
         SingleSimulator => Has(r), Leaves(r)
  PROVE  RInv'
<1>0. UNCHANGED <<booted, app, bound, path>>
  BY DEF sims
<1>1. op'[o] = r /\ \A q \in Operations \ {o} : op'[q] = op[q]
  BY DEF IInv, TypeOK
<1>2. Launched' /\ Marked'
  BY <1>0 DEF RInv, Launched, Marked, OnlyIn, Single
<1>3. \A q \in Operations \ {o} : Aims(op[q])'
  BY <1>0, <1>1, AimStays
<1>4. Aims(op[o])'
  BY <1>1 DEF Aims
<1>5. SingleSimulator => Has(op[o])'
  BY <1>0, <1>1 DEF Has, OnlyIn, Holds, Lone, Alive
<1>6. Leaves(op[o])'
  BY <1>0, <1>1 DEF Leaves, OnlyIn, NoneRuns, Single
<1> QED BY <1>1, <1>2, <1>3, <1>4, <1>5, <1>6, OwnMoves

LEMMA EndsMoves ==
  ASSUME IInv, RInv, NEW o \in Operations, op[o].pc # "idle",
         NEW result \in {"none", "connected", "disconnected", "error"},
         Ends(o, result) \/ Becomes(o, Failed),
         UNCHANGED <<sims, marker, launches, astray>>
  PROVE  RInv'
<1>1. ASSUME NEW r \in Op, op' = [op EXCEPT ![o] = r], r.pc = "idle", r.alone => op[o].alone
      PROVE  RInv'
  BY <1>1, Free, OwnSteps
<1>2. CASE Ends(o, result)
  <2> DEFINE r == [NoOp EXCEPT !.result = result, !.alone = op[o].alone]
  <2>1. r \in Op /\ r.pc = "idle" /\ r.alone = op[o].alone
    BY Here, NoOpFacts DEF Op
  <2> HIDE DEF r
  <2> QED BY <1>1, <1>2, <2>1 DEF Ends, Becomes, r
<1>3. CASE Becomes(o, Failed)
  <2>1. Failed \in Op /\ Failed.pc = "idle" /\ ~Failed.alone
    BY NoOpFacts DEF Op, Failed
  <2> QED BY <1>1, <1>3, <2>1 DEF Becomes
<1> QED BY <1>2, <1>3

\* On to where nothing is relied on yet.
LEMMA ToPick ==
  ASSUME IInv, RInv, NEW o \in Operations, op[o].pc # "idle", NEW r \in Op,
         op' = [op EXCEPT ![o] = r], r.pc \in {"pick", "compare"}, r.alone = op[o].alone,
         UNCHANGED <<sims, marker, launches, astray>>
  PROVE  RInv'
<1>1. Has(r) /\ Leaves(r)
  BY DEF Has, Leaves, Launching, Leaving
<1> QED BY <1>1, OwnSteps

\* A forced launch.
LEMMA AnewMoves ==
  ASSUME IInv, RInv, NEW o \in Operations, op[o].pc # "idle", Anew(o, "pick", TRUE),
         UNCHANGED <<sims, marker, launches, astray>>
  PROVE  RInv'
<1> DEFINE r == [NoOp EXCEPT !.pc = "pick", !.forced = TRUE, !.alone = op[o].alone]
<1>1. r \in Op /\ r.pc = "pick" /\ r.alone = op[o].alone
  BY Here, NoOpFacts, PcNames DEF Op
<1> HIDE DEF r
<1> QED BY <1>1, ToPick DEF Anew, Becomes, r

LEMMA CheckMoves ==
  ASSUME IInv, RInv, NEW o \in Operations, Check(o) \/ Compare(o)
  PROVE  RInv'
<1>1. UNCHANGED <<sims, marker, launches, astray>> /\ op[o].pc # "idle"
  BY DEF Check, Compare, At
<1>2. ASSUME Becomes(o, [op[o] EXCEPT !.pc = "compare", !.status = path]) PROVE RInv'
  <2> DEFINE r == [op[o] EXCEPT !.pc = "compare", !.status = path]
  <2>1. r \in Op /\ r.pc = "compare" /\ r.alone = op[o].alone
    BY Here, PcNames DEF Op
  <2> HIDE DEF r
  <2> QED BY <1>1, <1>2, <2>1, ToPick DEF Becomes, r
<1>3. ASSUME Goes(o, "pick") PROVE RInv'
  <2> DEFINE r == [op[o] EXCEPT !.pc = "pick"]
  <2>1. r \in Op /\ r.pc = "pick" /\ r.alone = op[o].alone
    BY Here, PcNames DEF Op
  <2> HIDE DEF r
  <2> QED BY <1>1, <1>3, <2>1, ToPick DEF Goes, Becomes, r
<1>4. CASE Check(o)
  BY <1>2, <1>3, <1>4 DEF Check
<1>5. CASE Compare(o)
  BY <1>1, <1>5, AnewMoves, EndsMoves DEF Compare
<1> QED BY <1>4, <1>5

\* What is picked is booted, or will be.
LEMMA PicksMoves ==
  ASSUME IInv, RInv, NEW o \in Operations, NEW pc \in {"recheck", "thin"}, NEW d \in Devices,
         NEW cold \in BOOLEAN, Picks(o, pc, d, cold), op[o].pc # "idle",
         pc = "thin" => cold \/ d \in booted,
         UNCHANGED <<sims, marker, launches>>, ~astray' => ~astray
  PROVE  RInv'
<1> DEFINE r == [op[o] EXCEPT !.pc = pc, !.device = d, !.cold = cold]
<1>1. r \in Op /\ r.pc = pc /\ r.cold = cold /\ r.device = d /\ r.alone = op[o].alone
  <2> HIDE DEF Pids, Session
  <2>1. op[o] \in Op /\ pc \in Pcs /\ d \in Devices \cup {None}
    BY Here DEF Pcs
  <2> HIDE DEF Pcs
  <2> QED BY <2>1 DEF Op
<1>2. op' = [op EXCEPT ![o] = r]
  BY DEF Picks, Becomes
<1> HIDE DEF r
<1>3. Has(r) /\ Leaves(r)
  BY <1>1 DEF Has, Leaves, Launching, Leaving
<1> QED BY <1>1, <1>2, <1>3, OwnSteps

LEMMA BestOfAll == M \in Devices
<1>1. Devices \in SUBSET Devices /\ Devices # {}
  BY DevicesAssumption
<1> QED BY <1>1, BestIsOne DEF M

LEMMA PickMoves ==
  ASSUME IInv, RInv, NEW o \in Operations, Pick(o) \/ Recheck(o)
  PROVE  RInv'
<1>1. UNCHANGED <<sims, marker, launches>> /\ (~astray' => ~astray) /\ op[o].pc # "idle"
  <2>1. astray \in BOOLEAN
    BY DEF IInv, TypeOK
  <2>2. CASE Pick(o)
    BY <2>2 DEF Pick, At
  <2>3. CASE Recheck(o)
    BY <2>1, <2>3 DEF Recheck, At
  <2> QED BY <2>2, <2>3
<1>2. CASE Pick(o) /\ booted # {}
  <2>1. Best(booted) \in Devices
    BY <1>2, BestIsOne, Values DEF IInv
  <2> QED BY <1>1, <1>2, <2>1, PicksMoves DEF Pick
<1>3. CASE Pick(o) /\ booted = {}
  BY <1>1, <1>3, BestOfAll, PicksMoves DEF Pick, M
<1>4. CASE Recheck(o)
  <2>1. op[o].device \in Devices
    BY <1>4, Here DEF Recheck, At, Sound, Shaped, Picked
  <2> DEFINE cold == op[o].device \notin booted
  <2>2. cold \in BOOLEAN /\ Picks(o, "thin", op[o].device, cold) /\ (cold \/ op[o].device \in booted)
    BY <1>4 DEF Recheck
  <2> HIDE DEF cold
  <2> QED BY <1>1, <2>1, <2>2, PicksMoves
<1> QED BY <1>2, <1>3, <1>4

\* The other simulators are listed: whatever runs, runs there or in the launcher's own.
LEMMA ListOthersMoves ==
  ASSUME IInv, RInv, NEW o \in Operations, ListOthers(o)
  PROVE  RInv'
<1> DEFINE S == IF SingleSimulator THEN booted \ {op[o].device} ELSE {}
<1> DEFINE r == [op[o] EXCEPT !.pc = IF S = {} THEN "boot" ELSE "others", !.others = S,
                              !.alone = op[o].alone]
<1>1. /\ op[o] \in Op /\ op[o].pc = "thin" /\ op' = [op EXCEPT ![o] = r]
      /\ UNCHANGED <<sims, marker, launches, astray>>
  BY Here DEF ListOthers, At, Thins, Becomes
<1>2. S \in SUBSET Devices /\ (SingleSimulator => S = booted \ {op[o].device})
  BY Values DEF IInv
<1> HIDE DEF S
<1>3. /\ r \in Op /\ r.pc = (IF S = {} THEN "boot" ELSE "others") /\ r.others = S
      /\ r.device = op[o].device /\ r.cold = op[o].cold /\ r.alone = op[o].alone
  BY <1>1, <1>2, PcNames DEF Op
<1> HIDE DEF r
<1>4. ASSUME SingleSimulator PROVE Has(r)
  <2>1. \A d \in Devices : app[d] # None => d \in {op[o].device} \cup S
    BY <1>2, <1>4 DEF IInv, Processes
  <2>2. op[o].alone => op[o].cold \/ op[o].device \in booted
    BY <1>1, <1>4 DEF RInv, Has
  <2>3. op[o].device \notin S
    BY <1>2, <1>4
  <2>4. S = {} => \A d \in Devices : app[d] # None => d = op[o].device
    BY <2>1
  <2> QED BY <1>3, <2>1, <2>2, <2>3, <2>4 DEF Has, Launching, OnlyIn
<1>5. Leaves(r)
  BY <1>3 DEF Leaves, Leaving
<1> QED BY <1>1, <1>3, <1>4, <1>5, OwnSteps

\* A simctl fails and the launcher goes on: it is not alone then, unless it boots what
\* it takes.
LEMMA SimctlIgnoredMoves ==
  ASSUME IInv, RInv, NEW o \in Operations, SimctlIgnored(o)
  PROVE  RInv'
<1>1. UNCHANGED <<sims, marker, launches>> /\ op[o].pc # "idle" /\ (~astray' => ~astray)
  <2>1. astray \in BOOLEAN
    BY DEF IInv, TypeOK
  <2>2. UNCHANGED <<sims, marker, launches>> /\ op[o].pc # "idle"
    BY DEF SimctlIgnored, At
  <2>3. \/ UNCHANGED astray
        \/ astray' = TRUE
        \/ astray' = (astray \/ op[o].device # Best(Devices))
    BY DEF SimctlIgnored
  <2> QED BY <2>1, <2>2, <2>3
<1>2. ASSUME NEW S \in SUBSET Devices, Thins(o, S, FALSE) PROVE RInv'
  <2> DEFINE pc == IF S = {} THEN "boot" ELSE "others"
             r == [op[o] EXCEPT !.pc = pc, !.others = S, !.alone = FALSE]
  <2>1. op' = [op EXCEPT ![o] = r]
    BY <1>2 DEF Thins, Becomes
  <2>2. op[o] \in Op /\ pc \in Pcs /\ pc \in {"boot", "others"}
    BY Here DEF Pcs
  <2> HIDE DEF pc
  <2>3. r \in Op /\ r.pc = pc /\ ~r.alone
    BY <1>2, <2>2 DEF Op
  <2> HIDE DEF r
  <2> QED BY <1>1, <2>1, <2>2, <2>3, Free, OwnSteps
<1>3. CASE At(o, "pick") /\ Picks(o, "thin", Best(Devices), TRUE)
  BY <1>1, <1>3, BestOfAll, PicksMoves DEF M
<1>4. CASE At(o, "recheck") /\ Picks(o, "thin", op[o].device, TRUE)
  <2>1. op[o].device \in Devices
    BY <1>4, Here DEF At, Sound, Shaped, Picked
  <2> QED BY <1>1, <1>4, <2>1, PicksMoves
<1>5. CASE At(o, "thin") /\ Thins(o, {}, FALSE)
  BY <1>2, <1>5
<1>6. CASE \E d \in op[o].others : Thins(o, op[o].others \ {d}, FALSE)
  <2>1. op[o].others \subseteq Devices
    BY Here DEF Op
  <2> QED BY <1>2, <1>6, <2>1
<1> QED BY <1>3, <1>4, <1>5, <1>6 DEF SimctlIgnored

\* Who answers a Connect that is alone is its own process.
LEMMA OwnAnswers ==
  ASSUME RInv, NEW o \in Operations, SingleSimulator, op[o].alone,
         op[o].pc \in {"wait", "toolkit"}, Responding
  PROVE  Holds(path)
<1>1. PICK d \in Devices : app[d] = path /\ path # None
  BY DEF Responding, Alive
<1>2. CASE op[o].pc = "wait"
  <2>1. Lone(op[o].own)
    BY <1>2 DEF RInv, Has
  <2> QED BY <1>1, <2>1 DEF Lone, Holds
<1>3. CASE op[o].pc = "toolkit"
  BY <1>3 DEF RInv, Has, Holds
<1> QED BY <1>2, <1>3

LEMMA WaitMoves ==
  ASSUME IInv, RInv, NEW o \in Operations, Wait(o) \/ ActivateToolkit(o)
  PROVE  RInv'
<1>1. /\ UNCHANGED <<sims, marker, launches, astray>> /\ op[o].pc \in {"wait", "toolkit"}
  BY DEF Wait, ActivateToolkit, At
<1>2. ASSUME NEW pc \in {"toolkit", "mark"}, Responding,
             Becomes(o, [op[o] EXCEPT !.pc = pc, !.status = path])
      PROVE  RInv'
  <2> DEFINE r == [op[o] EXCEPT !.pc = pc, !.status = path]
  <2>1. r \in Op /\ r.pc = pc /\ r.status = path /\ r.alone = op[o].alone
    BY <1>2, Here, PcNames DEF Op
  <2> HIDE DEF r
  <2>2. ASSUME SingleSimulator, r.alone PROVE Has(r)
    <3>1. Holds(path)
      BY <1>1, <1>2, <2>1, <2>2, OwnAnswers
    <3> QED BY <2>1, <3>1 DEF Has, Launching
  <2>3. SingleSimulator => Has(r)
    BY <2>2, Free
  <2>4. Leaves(r)
    BY <2>1 DEF Leaves, Leaving
  <2> QED BY <1>1, <1>2, <2>1, <2>3, <2>4, OwnSteps DEF Becomes, r
<1>3. ASSUME op[o].pc = "toolkit", Goes(o, "mark")
      PROVE  RInv'
  <2> DEFINE r == [op[o] EXCEPT !.pc = "mark"]
  <2>1. r \in Op /\ r.pc = "mark" /\ r.status = op[o].status /\ r.alone = op[o].alone
    BY Here, PcNames DEF Op
  <2> HIDE DEF r
  <2>2. SingleSimulator => Has(r)
    BY <1>3, <2>1 DEF RInv, Has, Launching
  <2>3. Leaves(r)
    BY <2>1 DEF Leaves, Leaving
  <2> QED BY <1>1, <1>3, <2>1, <2>2, <2>3, OwnSteps DEF Goes, Becomes, r
<1>4. ASSUME Ends(o, "error") PROVE RInv'
  BY <1>1, <1>4, EndsMoves
<1>5. CASE Wait(o)
  BY <1>2, <1>4, <1>5 DEF Wait
<1>6. CASE ActivateToolkit(o)
  BY <1>1, <1>2, <1>3, <1>4, <1>6 DEF ActivateToolkit, At
<1> QED BY <1>5, <1>6

LEMMA RereadMoves ==
  ASSUME IInv, RInv, NEW o \in Operations, Reread(o)
  PROVE  RInv'
<1> DEFINE r == [op[o] EXCEPT !.pc = "confirm", !.session = marker]
<1>1. r \in Op /\ r.pc = "confirm" /\ r.session = marker /\ r.alone = op[o].alone
  BY Here, PcNames DEF Op, IInv, TypeOK
<1>2. op[o].pc = "reread"
  BY DEF Reread, At
<1> HIDE DEF r
<1>3. SingleSimulator => Has(r)
  BY <1>1, <1>2 DEF RInv, Has, Launching
<1>4. Leaves(r)
  BY <1>1 DEF Leaves, Leaving
<1> QED BY <1>1, <1>2, <1>3, <1>4, OwnSteps DEF Reread, Becomes, At, r

LEMMA ConfirmMoves ==
  ASSUME IInv, RInv, NEW o \in Operations, Confirm(o)
  PROVE  RInv'
<1>1. UNCHANGED <<sims, marker, launches, astray>> /\ op[o].pc # "idle"
  BY DEF Confirm, At
<1> QED BY <1>1, AnewMoves, EndsMoves DEF Confirm
-----------------------------------------------------------------------------
(* A Disconnect *)

\* While it is alone, the processes there are run in its simulator.
LEMMA LeavingMoves ==
  ASSUME IInv, RInv, NEW o \in Operations, op[o].pc \in Leaving, NEW r \in Op,
         op' = [op EXCEPT ![o] = r], r.alone = op[o].alone, r.device = op[o].device,
         r.pc \in Leaving \/ (r.pc = "forget" /\ op[o].device \notin booted),
         UNCHANGED <<sims, marker, launches, astray>>
  PROVE  RInv'
<1>1. Has(r)
  BY DEF Has, Leaving, Launching
<1>2. Leaves(r)
  <2>1. Leaves(op[o]) /\ \A d \in Devices : app[d] # None => d \in booted
    BY DEF RInv, IInv, Processes
  <2> QED BY <2>1 DEF Leaves, Leaving, OnlyIn, NoneRuns
<1> QED BY <1>1, <1>2, OwnSteps DEF Leaving

LEMMA GoesOnLeaving ==
  ASSUME IInv, RInv, NEW o \in Operations, op[o].pc \in Leaving, NEW pc \in Leaving \cup {"forget"},
         Goes(o, pc), pc = "forget" => op[o].device \notin booted,
         UNCHANGED <<sims, marker, launches, astray>>
  PROVE  RInv'
<1> DEFINE r == [op[o] EXCEPT !.pc = pc]
<1>1. r \in Op /\ r.pc = pc /\ r.device = op[o].device /\ r.alone = op[o].alone
  BY Here, PcNames DEF Op, Leaving
<1> HIDE DEF r
<1> QED BY <1>1, LeavingMoves DEF Goes, Becomes, r

LEMMA ReadMoves ==
  ASSUME IInv, RInv, NEW o \in Operations, ReadSession(o)
  PROVE  RInv'
<1>1. UNCHANGED <<sims, marker, launches, astray>> /\ op[o].pc = "read"
  BY DEF ReadSession, At
<1>2. CASE marker = NoSession
  BY <1>1, <1>2, EndsMoves DEF ReadSession
<1>3. CASE marker # NoSession
  <2> DEFINE r == [op[o] EXCEPT !.pc = "status", !.session = marker, !.device = marker.udid]
  <2>1. marker \in Session /\ marker.udid \in Devices
    BY <1>3, Values DEF IInv, Session
  <2>2. r \in Op /\ r.pc = "status" /\ r.device = marker.udid /\ r.alone = op[o].alone
    BY <2>1, Here, PcNames DEF Op
  <2>3. op' = [op EXCEPT ![o] = r]
    BY <1>3 DEF ReadSession, Becomes
  <2> HIDE DEF r
  <2>4. Has(r)
    BY <2>2 DEF Has, Launching
  <2>5. Leaves(r)
    BY <1>3, <2>2 DEF RInv, Marked, Leaves, Leaving
  <2> QED BY <1>1, <2>2, <2>3, <2>4, <2>5, OwnSteps
<1> QED BY <1>2, <1>3

LEMMA StatusMoves ==
  ASSUME IInv, RInv, NEW o \in Operations, Status(o)
  PROVE  RInv'
<1>1. UNCHANGED <<sims, marker, launches, astray>> /\ op[o].pc = "status"
  BY DEF Status, At
<1>2. ASSUME Becomes(o, [op[o] EXCEPT !.pc = "device", !.status = path]) PROVE RInv'
  <2> DEFINE r == [op[o] EXCEPT !.pc = "device", !.status = path]
  <2>1. r \in Op /\ r.pc = "device" /\ r.device = op[o].device /\ r.alone = op[o].alone
    BY Here, PcNames DEF Op
  <2> HIDE DEF r
  <2> QED BY <1>1, <1>2, <2>1, LeavingMoves DEF Becomes, Leaving, r
<1>3. ASSUME Goes(o, "stopped?") PROVE RInv'
  BY <1>1, <1>3, GoesOnLeaving DEF Leaving
<1> QED BY <1>1, <1>2, <1>3, EndsMoves DEF Status

LEMMA SimctlMoves ==
  ASSUME IInv, RInv, NEW o \in Operations, Stopped(o) \/ DeviceState(o) \/ PollDevice(o)
  PROVE  RInv'
<1>1. /\ UNCHANGED <<sims, marker, launches, astray>>
      /\ op[o].pc \in {"stopped?", "device", "poll"}
  BY DEF Stopped, DeviceState, PollDevice, At
<1>2. Ends(o, "error") \/ \E pc \in {"shut", "forget"} :
        Goes(o, pc) /\ (pc = "forget" => op[o].device \notin booted)
  BY DEF Stopped, DeviceState, PollDevice
<1>3. ASSUME NEW pc \in {"shut", "forget"}, Goes(o, pc), pc = "forget" => op[o].device \notin booted
      PROVE  RInv'
  BY <1>1, <1>3, GoesOnLeaving DEF Leaving
<1> QED BY <1>1, <1>2, <1>3, EndsMoves

LEMMA FailureMoves ==
  ASSUME IInv, RInv, NEW o \in Operations, LaunchFails(o) \/ StatusTimesOut(o)
  PROVE  RInv'
<1>1. UNCHANGED <<sims, marker, launches, astray>> /\ op[o].pc # "idle"
  BY DEF LaunchFails, StatusTimesOut
<1>2. ASSUME At(o, "check"), Becomes(o, [op[o] EXCEPT !.pc = "pick"]) PROVE RInv'
  <2> DEFINE r == [op[o] EXCEPT !.pc = "pick"]
  <2>1. r \in Op /\ r.pc = "pick" /\ r.alone = op[o].alone
    BY Here, PcNames DEF Op
  <2> HIDE DEF r
  <2> QED BY <1>1, <1>2, <2>1, ToPick DEF Becomes, r
<1>3. ASSUME At(o, "status"), Becomes(o, [op[o] EXCEPT !.pc = "stopped?"]) PROVE RInv'
  BY <1>1, <1>3, GoesOnLeaving DEF At, Leaving, Goes
<1>4. CASE Becomes(o, Failed)
  BY <1>1, <1>4, EndsMoves
<1>5. \/ Becomes(o, Failed)
      \/ At(o, "check") /\ Becomes(o, [op[o] EXCEPT !.pc = "pick"])
      \/ At(o, "status") /\ Becomes(o, [op[o] EXCEPT !.pc = "stopped?"])
  BY DEF LaunchFails, StatusTimesOut, At
<1> QED BY <1>2, <1>3, <1>4, <1>5
-----------------------------------------------------------------------------
(* Steps of one operation that move simulators, processes, socket or marker *)

LEMMA WorldMoves ==
  ASSUME IInv, RInv, NEW o \in Operations, NEW r \in Op, op' = [op EXCEPT ![o] = r],
         op[o].pc # "idle", r.alone => op[o].alone,
         Single /\ ~astray' => booted' \subseteq booted \/ booted' \subseteq {M},
         Single /\ ~astray' => ~astray, marker' \in {marker, NoSession},
         UNCHANGED <<bound, launches>>, \A d \in Devices : app'[d] \in {app[d], None},
         Aims(op[o])', SingleSimulator => Has(op[o])', Leaves(op[o])'
  PROVE  RInv'
<1>1. op'[o] = r /\ \A q \in Operations \ {o} : op'[q] = op[q]
  BY DEF IInv, TypeOK
<1>2. Launched'
  BY DEF RInv, Launched
<1>3. Marked'
  BY MarkedStays
<1>4. \A q \in Operations \ {o} : Aims(op[q])'
  BY <1>1, AimStays
<1> QED BY <1>1, <1>2, <1>3, <1>4, OwnMoves

LEMMA Taken ==
  ASSUME IInv, NEW o \in Operations, NEW x \in Devices, Takes(o, x)
  PROVE  /\ booted' = booted \ {x} /\ (~astray' => ~astray)
         /\ \A d \in Devices : app'[d] = IF d = x THEN None ELSE app[d]
BY DEF Takes, Off

LEMMA ShutDownOtherMoves ==
  ASSUME IInv, RInv, NEW o \in Operations, ShutDownOther(o)
  PROVE  RInv'
<1>1. /\ op[o] \in Op /\ op[o].pc = "others" /\ op[o].others \subseteq Devices
      /\ UNCHANGED <<bound, path, marker, launches>>
  BY Here DEF ShutDownOther, At, Op
<1>2. PICK x \in op[o].others : Takes(o, x) /\ Thins(o, op[o].others \ {x}, op[o].alone)
  BY DEF ShutDownOther
<1> DEFINE S == op[o].others \ {x}
<1> DEFINE r == [op[o] EXCEPT !.pc = IF S = {} THEN "boot" ELSE "others", !.others = S,
                              !.alone = op[o].alone]
<1>3. op' = [op EXCEPT ![o] = r] /\ S \subseteq Devices /\ x \in Devices
  BY <1>1, <1>2 DEF Thins, Becomes
<1>4. op[o].others = S \cup {x}
  OBVIOUS
<1> HIDE DEF S
<1>5. /\ r \in Op /\ r.pc = (IF S = {} THEN "boot" ELSE "others") /\ r.others = S
      /\ r.device = op[o].device /\ r.cold = op[o].cold /\ r.alone = op[o].alone
  BY <1>1, <1>3, PcNames DEF Op
<1> HIDE DEF r
<1>6. op'[o] = r
  BY <1>3, <1>5 DEF IInv, TypeOK
<1>7. /\ booted' = booted \ {x} /\ (~astray' => ~astray)
      /\ \A d \in Devices : app'[d] = IF d = x THEN None ELSE app[d]
  BY <1>2, <1>3, Taken
<1>8. Aims(op[o])' /\ Leaves(op[o])'
  BY <1>5, <1>6 DEF Aims, Leaves, Leaving
<1>9. ASSUME SingleSimulator PROVE Has(op[o])'
  <2>1. op[o].alone =>
          /\ op[o].cold \/ op[o].device \in booted
          /\ op[o].device \notin S \cup {x}
          /\ \A d \in Devices : app[d] # None => d \in {op[o].device} \cup (S \cup {x})
    BY <1>1, <1>4, <1>9 DEF RInv, Has
  <2>2. r.alone =>
          /\ r.cold \/ r.device \in booted'
          /\ r.device \notin S
          /\ \A d \in Devices : app'[d] # None => d \in {r.device} \cup S
    BY <1>5, <1>7, <2>1
  <2>3. r.alone /\ S = {} => \A d \in Devices : app'[d] # None => d = r.device
    BY <2>2
  <2> QED BY <1>5, <1>6, <2>2, <2>3 DEF Has, Launching, OnlyIn
<1>10. booted' \subseteq booted /\ \A d \in Devices : app'[d] \in {app[d], None}
  BY <1>7
<1> QED BY <1>1, <1>3, <1>5, <1>7, <1>8, <1>9, <1>10, WorldMoves

LEMMA BootMoves ==
  ASSUME IInv, RInv, NEW o \in Operations, Boot(o)
  PROVE  RInv'
<1> DEFINE r == [op[o] EXCEPT !.pc = "clear"]
<1>1. /\ r \in Op /\ r.pc = "clear" /\ r.device = op[o].device /\ r.alone = op[o].alone
  BY Here, PcNames DEF Op
<1>2. /\ op[o].pc = "boot" /\ UNCHANGED <<app, bound, path, marker, launches, astray>>
      /\ op' = [op EXCEPT ![o] = r]
      /\ booted' = IF op[o].cold THEN booted \cup {op[o].device} ELSE booted
  BY DEF Boot, At, Goes, Becomes
<1>3. op'[o] = r
  BY <1>2 DEF IInv, TypeOK
<1> HIDE DEF r
<1>4. Single /\ ~astray => booted' = booted \/ booted' \subseteq {M}
  BY <1>2, Here DEF Sound, Placed, Thinned
<1>5. Aims(op[o])' /\ Leaves(op[o])'
  BY <1>1, <1>3 DEF Aims, Leaves, Leaving
<1>6. ASSUME SingleSimulator PROVE Has(op[o])'
  <2>1. op[o].alone => OnlyIn(op[o].device) /\ (op[o].cold \/ op[o].device \in booted)
    BY <1>2, <1>6 DEF RInv, Has, Launching
  <2>2. r.alone => /\ r.device \in booted'
                   /\ \A d \in Devices : app'[d] # None => d = r.device
    BY <1>1, <1>2, <2>1 DEF OnlyIn
  <2> QED BY <1>1, <1>3, <2>2 DEF Has, Launching, OnlyIn
<1> QED BY <1>1, <1>2, <1>4, <1>5, <1>6, WorldMoves

LEMMA ClearMoves ==
  ASSUME IInv, RInv, NEW o \in Operations, Clear(o)
  PROVE  RInv'
<1> DEFINE r == [op[o] EXCEPT !.pc = "launch"]
<1>1. /\ r \in Op /\ r.pc = "launch" /\ r.device = op[o].device /\ r.alone = op[o].alone
  BY Here, PcNames DEF Op
<1>2. /\ op[o].pc = "clear" /\ UNCHANGED <<booted, app, bound, launches, astray>>
      /\ marker' = NoSession /\ op' = [op EXCEPT ![o] = r]
  BY DEF Clear, At, Goes, Becomes
<1>3. op'[o] = r
  BY <1>2 DEF IInv, TypeOK
<1> HIDE DEF r
<1>4. Aims(op[o])' /\ Leaves(op[o])'
  BY <1>1, <1>2, <1>3 DEF Aims, Leaves, Leaving
<1>5. ASSUME SingleSimulator PROVE Has(op[o])'
  <2>1. op[o].alone => OnlyIn(op[o].device) /\ op[o].device \in booted
    BY <1>2, <1>5 DEF RInv, Has, Launching
  <2>2. r.alone => /\ r.device \in booted'
                   /\ \A d \in Devices : app'[d] # None => d = r.device
    BY <1>1, <1>2, <2>1 DEF OnlyIn
  <2> QED BY <1>1, <1>3, <2>2 DEF Has, Launching, OnlyIn
<1> QED BY <1>1, <1>2, <1>4, <1>5, WorldMoves

\* The end of a Disconnect: a simulator, the marker or the socket goes.
LEMMA LeavesMoves ==
  ASSUME IInv, RInv, NEW o \in Operations, NEW r \in Op, op' = [op EXCEPT ![o] = r],
         op[o].pc # "idle", r.alone => op[o].alone, r.pc \in {"idle", "poll", "unlink"},
         booted' \subseteq booted, ~astray' => ~astray, marker' \in {marker, NoSession},
         UNCHANGED <<bound, launches>>, \A d \in Devices : app'[d] \in {app[d], None},
         Leaves(op[o])'
  PROVE  RInv'
<1>1. op'[o] = r
  BY DEF IInv, TypeOK
<1>2. Aims(op[o])' /\ Has(op[o])'
  BY <1>1 DEF Aims, Has, Launching
<1> QED BY <1>2, WorldMoves

LEMMA ShutDownMoves ==
  ASSUME IInv, RInv, NEW o \in Operations, ShutDown(o) \/ SimctlFails(o)
  PROVE  RInv'
<1>1. /\ UNCHANGED <<bound, path, marker, launches>>
      /\ op[o].pc \in {"stopped?", "device", "shut", "poll"}
      /\ op[o].device \in Devices
  BY Here DEF ShutDown, SimctlFails, At, Sound, Shaped, Session
<1>2. ASSUME Takes(o, op[o].device)
      PROVE  /\ booted' \subseteq booted /\ (~astray' => ~astray)
             /\ \A d \in Devices : app'[d] \in {app[d], None}
  BY <1>1, <1>2, Taken
<1>3. CASE ShutDown(o)
  <2> DEFINE r == [op[o] EXCEPT !.pc = "poll"]
  <2>1. r \in Op /\ r.pc = "poll" /\ r.device = op[o].device /\ r.alone = op[o].alone
    BY Here, PcNames DEF Op
  <2>2. op' = [op EXCEPT ![o] = r] /\ Takes(o, op[o].device) /\ op[o].pc = "shut"
    BY <1>3 DEF ShutDown, At, Goes, Becomes
  <2>3. op'[o] = r
    BY <2>2 DEF IInv, TypeOK
  <2> HIDE DEF r
  <2>4. Leaves(op[o])'
    BY <1>2, <2>1, <2>2, <2>3 DEF RInv, Leaves, Leaving, OnlyIn, Single
  <2> QED BY <1>1, <1>2, <2>1, <2>2, <2>4, LeavesMoves
<1>4. CASE SimctlFails(o)
  <2>1. Failed \in Op /\ Failed.pc = "idle" /\ ~Failed.alone
    BY NoOpFacts DEF Op, Failed
  <2>2. op' = [op EXCEPT ![o] = Failed]
    BY <1>4 DEF SimctlFails, Becomes
  <2>3. op'[o] = Failed
    BY <2>2 DEF IInv, TypeOK
  <2>4. Leaves(op[o])'
    BY <2>1, <2>3 DEF Leaves
  <2>5. CASE UNCHANGED <<booted, app, astray>>
    BY <1>1, <1>4, <2>5, EndsMoves DEF SimctlFails, sims
  <2>6. CASE Takes(o, op[o].device)
    BY <1>1, <1>2, <2>1, <2>2, <2>4, <2>6, LeavesMoves
  <2> QED BY <1>4, <2>5, <2>6 DEF SimctlFails
<1> QED BY <1>3, <1>4

LEMMA RemovalMoves ==
  ASSUME IInv, RInv, NEW o \in Operations, RemoveMarker(o) \/ RemoveSocket(o)
  PROVE  RInv'
<1>1. UNCHANGED <<booted, app, bound, launches, astray>> /\ marker' \in {marker, NoSession}
  BY DEF RemoveMarker, RemoveSocket, sims
<1>2. CASE RemoveMarker(o)
  <2> DEFINE r == [op[o] EXCEPT !.pc = "unlink"]
  <2>1. r \in Op /\ r.pc = "unlink" /\ r.alone = op[o].alone
    BY Here, PcNames DEF Op
  <2>2. op' = [op EXCEPT ![o] = r] /\ op[o].pc = "forget"
    BY <1>2 DEF RemoveMarker, At, Goes, Becomes
  <2>3. op'[o] = r
    BY <2>2 DEF IInv, TypeOK
  <2> HIDE DEF r
  <2>4. Leaves(op[o])'
    BY <1>1, <2>1, <2>2, <2>3 DEF RInv, Leaves, Leaving, NoneRuns, Single
  <2> QED BY <1>1, <2>1, <2>2, <2>4, LeavesMoves
<1>3. CASE RemoveSocket(o)
  <2> DEFINE r == [NoOp EXCEPT !.result = "disconnected", !.alone = op[o].alone]
  <2>1. r \in Op /\ r.pc = "idle" /\ r.alone = op[o].alone
    BY Here, NoOpFacts DEF Op
  <2>2. op' = [op EXCEPT ![o] = r] /\ op[o].pc = "unlink"
    BY <1>3 DEF RemoveSocket, At, Ends, Becomes
  <2>3. op'[o] = r
    BY <2>2 DEF IInv, TypeOK
  <2> HIDE DEF r
  <2>4. Leaves(op[o])'
    BY <2>1, <2>3 DEF Leaves, Leaving
  <2> QED BY <1>1, <2>1, <2>2, <2>4, LeavesMoves
<1> QED BY <1>2, <1>3

LEMMA WriteMarkerMoves ==
  ASSUME IInv, RInv, NEW o \in Operations, WriteMarker(o)
  PROVE  RInv'
<1> DEFINE r == [NoOp EXCEPT !.pc = "reread", !.forced = op[o].forced, !.alone = op[o].alone]
<1>1. r \in Op /\ r.pc = "reread" /\ r.alone = op[o].alone
  BY Here, NoOpFacts, PcNames DEF Op
<1>2. /\ op[o].pc = "mark" /\ UNCHANGED <<booted, app, bound, path, launches, astray>>
      /\ marker' = [udid |-> op[o].device, pid |-> op[o].status]
      /\ op' = [op EXCEPT ![o] = r]
  BY DEF WriteMarker, At, Anew, Becomes, sims
<1>3. op'[o] = r /\ \A q \in Operations \ {o} : op'[q] = op[q]
  BY <1>2 DEF IInv, TypeOK
<1> HIDE DEF r
<1>4. marker'.udid = op[o].device /\ marker'.pid = op[o].status
  BY <1>2
<1>5. Launched'
  BY <1>2 DEF RInv, Launched
<1>6. ASSUME Single, ~astray
      PROVE  op[o].device \in booted /\ booted \subseteq {op[o].device}
  BY <1>2, <1>6, Here DEF Sound, Placed, Thinned
<1>7. Marked'
  <2>1. ASSUME Single, ~astray, NEW d \in Devices, app[d] # None PROVE d = op[o].device
    BY <1>6, <2>1 DEF IInv, Processes
  <2> QED BY <1>2, <1>4, <2>1 DEF Marked, OnlyIn, Single
\* Whoever is about to launch does so where this launcher's simulator is.
<1>8. ASSUME NEW q \in Operations \ {o} PROVE Aims(op[q])'
  <2>1. ASSUME Single, ~astray, op[q].pc = "launch", op[q].device \in booted \cup {M}
        PROVE  op[q].device = op[o].device
    <3>1. booted \subseteq {op[q].device}
      BY <2>1, Here DEF Sound, Placed, Thinned
    <3> QED BY <1>6, <2>1, <3>1
  <2> QED BY <1>2, <1>3, <1>4, <2>1 DEF Aims, Single, M
<1>9. Aims(op[o])' /\ Leaves(op[o])'
  BY <1>1, <1>3 DEF Aims, Leaves, Leaving
<1>10. ASSUME SingleSimulator PROVE Has(op[o])'
  <2>1. op[o].alone => Holds(op[o].status)
    BY <1>2, <1>10 DEF RInv, Has
  <2>2. op[o].alone => Holds(marker.pid)'
    BY <1>2, <1>4, <2>1 DEF Holds, Lone, Alive
  <2> QED BY <1>1, <1>3, <2>2 DEF Has, Launching
<1> QED BY <1>1, <1>2, <1>3, <1>5, <1>7, <1>8, <1>9, <1>10, OwnMoves

LEMMA LaunchMoves ==
  ASSUME IInv, RInv, NEW o \in Operations, Launch(o), IInv'
  PROVE  RInv'
<1>1. /\ op[o].pc = "launch" /\ op[o].device \in Devices /\ launches \in Nat
      /\ UNCHANGED <<booted, bound, path, marker, astray>>
  BY Here, Values DEF Launch, At, Sound, Shaped, IInv, Picked
<1>2. CASE op[o].device \notin booted
  BY <1>1, <1>2, EndsMoves DEF Launch, sims
<1>3. CASE op[o].device \in booted
  <2> DEFINE r == [op[o] EXCEPT !.pc = "wait", !.own = launches']
  <2>1. /\ launches' = launches + 1 /\ op' = [op EXCEPT ![o] = r]
        /\ app' = [app EXCEPT ![op[o].device] = launches']
    BY <1>3 DEF Launch, Becomes
  <2>2. /\ r.pc = "wait" /\ r.own = launches + 1 /\ r.device = op[o].device
        /\ r.alone = op[o].alone
    BY <2>1, Here DEF Op
  <2> HIDE DEF r
  <2>3. op'[o] = r /\ \A q \in Operations \ {o} : op'[q] = op[q]
    BY <2>1 DEF IInv, TypeOK
  <2>4. \A d \in Devices : app'[d] = IF d = op[o].device THEN launches + 1 ELSE app[d]
    BY <2>1 DEF IInv, TypeOK
  <2>5. Launched' /\ launches + 1 \notin bound
    <3>1. \A p \in bound : p <= launches /\ p \in Nat
      BY Numbers DEF RInv, Launched, IInv, TypeOK
    <3>2. \A p \in bound : p <= launches + 1 /\ p # launches + 1
      BY <1>1, <3>1
    <3> QED BY <1>1, <2>1, <3>2 DEF Launched
  <2>6. Marked'
    <3>1. ASSUME Single, ~astray, marker # NoSession, NEW d \in Devices, app'[d] # None
          PROVE  d = marker.udid
      <4>1. op[o].device = marker.udid
        BY <1>1, <1>3, <3>1 DEF RInv, Aims
      <4>2. app[d] # None => d = marker.udid
        BY <3>1 DEF RInv, Marked, OnlyIn
      <4> QED BY <2>4, <3>1, <4>1, <4>2
    <3> QED BY <1>1, <3>1 DEF Marked, OnlyIn, Single
  <2>7. ASSUME NEW q \in Operations \ {o} PROVE Aims(op[q])'
    BY <1>1, <2>3, AimStays
  <2>8. Aims(op[o])' /\ Leaves(op[o])'
    BY <2>2, <2>3 DEF Aims, Leaves, Leaving
  <2>9. ASSUME SingleSimulator PROVE Has(op[o])'
    <3>1. op[o].alone => \A d \in Devices : app[d] # None => d = op[o].device
      BY <1>1, <2>9 DEF RInv, Has, Launching, OnlyIn
    <3>2. r.alone => \A d \in Devices : app'[d] \in {None, r.own}
      BY <2>2, <2>4, <3>1
    <3>3. r.own # None /\ app'[op[o].device] = r.own /\ r.own \notin bound'
      BY <1>1, <2>2, <2>4, <2>5 DEF None
    <3> QED BY <1>1, <2>2, <2>3, <3>2, <3>3 DEF Has, Launching, Lone, Alive
  <2> QED BY <1>1, <2>2, <2>3, <2>5, <2>6, <2>7, <2>8, <2>9, OwnMoves
<1> QED BY <1>2, <1>3
-----------------------------------------------------------------------------
(* A server that binds, commands that begin, and what others do *)

LEMMA BindMoves ==
  ASSUME IInv, RInv, NEW p \in Pids, Bind(p)
  PROVE  RInv'
<1>1. /\ UNCHANGED <<booted, app, marker, launches, op, astray>>
      /\ path' = p /\ bound' = bound \cup {p}
  BY DEF Bind
<1>2. PICK d \in Devices : app[d] = p /\ p # None
  BY DEF Bind, Alive
<1>3. Launched' /\ Marked'
  <2>1. p <= launches
    BY <1>2 DEF IInv, Processes
  <2> QED BY <1>1, <2>1 DEF RInv, Launched, Marked, OnlyIn
<1>4. ASSUME NEW q \in Operations
      PROVE  Aims(op[q])' /\ Alone(q)' /\ Leaves(op[q])'
  BY <1>1 DEF RInv, Aims, Alone, Leaves, OnlyIn, NoneRuns
<1>5. ASSUME NEW q \in Operations, SingleSimulator PROVE Has(op[q])'
  <2>1. Has(op[q])
    BY <1>5 DEF RInv
  <2>2. \A x : Lone(x) => p = x /\ Lone(x)' /\ Holds(x)'
    BY <1>1, <1>2 DEF Lone, Holds, Alive
  <2>3. \A x : Holds(x) => Holds(x)'
    BY <2>2 DEF Holds
  <2> QED BY <1>1, <2>1, <2>2, <2>3 DEF Has, OnlyIn, Holds
<1> QED BY <1>3, <1>4, <1>5 DEF RInv

\* Nobody is alone but perhaps the command that begins, at whose pc nothing is relied on.
LEMMA AllDisturbed ==
  ASSUME IInv, RInv, Launched', Marked',
         \A q \in Operations : /\ Aims(op[q])' /\ Alone(q)'
                               /\ ~op'[q].alone \/ op'[q].pc \in {"check", "pick", "read"}
  PROVE  RInv'
<1>1. ASSUME NEW q \in Operations PROVE Has(op[q])' /\ Leaves(op[q])'
  BY DEF Has, Leaves, Launching, Leaving
<1> QED BY <1>1 DEF RInv

LEMMA BeginMoves ==
  ASSUME IInv, RInv, NEW o \in Operations, NEW pc \in {"check", "pick", "read"},
         NEW forced \in BOOLEAN, Begin(o, pc, forced)
  PROVE  RInv'
<1> DEFINE r == [NoOp EXCEPT !.pc = pc, !.forced = forced, !.alone = Busy = {}]
<1>1. /\ UNCHANGED <<booted, app, bound, path, marker, launches, astray>>
      /\ op' = [Disturbed EXCEPT ![o] = r]
  BY DEF Begin, sims
<1>2. r.pc = pc /\ r.alone = (Busy = {})
  BY DEF NoOp
<1> HIDE DEF r
<1>3. /\ op'[o] = r
      /\ \A q \in Operations \ {o} :
           op'[q].pc = op[q].pc /\ op'[q].device = op[q].device /\ ~op'[q].alone
  <2>1. \A q \in Operations : op[q] \in Op
    BY Here
  <2> QED BY <1>1, <2>1 DEF Disturbed, Op
<1>4. Launched' /\ Marked'
  BY <1>1 DEF RInv, Launched, Marked, OnlyIn
<1>5. ASSUME NEW q \in Operations \ {o} PROVE Aims(op[q])' /\ Alone(q)'
  <2>1. Aims(op[q])'
    BY <1>1, <1>3, AimStays
  <2> QED BY <1>3, <2>1 DEF Alone
<1>6. Aims(op[o])'
  BY <1>2, <1>3 DEF Aims
<1>7. Alone(o)'
  <2>1. Busy = {} => \A q \in Operations : op[q].pc = "idle"
    BY DEF Busy, At
  <2> QED BY <1>2, <1>3, <2>1 DEF Alone
<1> QED BY <1>2, <1>3, <1>4, <1>5, <1>6, <1>7, AllDisturbed

LEMMA OthersMove ==
  ASSUME IInv, RInv, NEW d \in Devices, BootByHand(d) \/ ShutDownByHand(d) \/ Crash(d)
  PROVE  RInv'
<1>1. UNCHANGED <<bound, path, marker, launches, astray>> /\ op' = Disturbed
  BY DEF BootByHand, ShutDownByHand, Crash
<1>2. \A q \in Operations :
        op'[q].pc = op[q].pc /\ op'[q].device = op[q].device /\ ~op'[q].alone
  <2>1. \A q \in Operations : op[q] \in Op
    BY Here
  <2> QED BY <1>1, <2>1 DEF Disturbed, Op
<1>3. \A e \in Devices : app'[e] \in {app[e], None}
  <2>1. app \in [Devices -> Pids \cup {None}]
    BY DEF IInv, TypeOK
  <2> QED BY <2>1 DEF BootByHand, ShutDownByHand, Crash, Off
<1>4. Single => booted' \subseteq booted \/ \A q \in Operations : op[q].pc = "idle"
  BY DEF BootByHand, ShutDownByHand, Crash, Off, ByHand, Single, Busy, At
<1>5. Launched' /\ Marked'
  <2>1. Marked'
    BY <1>1, <1>3, MarkedStays
  <2> QED BY <1>1, <2>1 DEF RInv, Launched
<1>6. ASSUME NEW q \in Operations PROVE Aims(op[q])'
  BY <1>1, <1>2, <1>4, AimStays
<1>7. \A q \in Operations : Alone(q)'
  BY <1>2 DEF Alone
<1> QED BY <1>2, <1>5, <1>6, <1>7, AllDisturbed
-----------------------------------------------------------------------------
LEMMA NextRInv == IInv /\ RInv /\ IInv' /\ [Next]_vars => RInv'
<1> SUFFICES ASSUME IInv, RInv, IInv', [Next]_vars PROVE RInv'
  OBVIOUS
<1>1. ASSUME NEW o \in Operations, Command(o) PROVE RInv'
  BY <1>1, BeginMoves DEF Command, Connect, Disconnect, LoadToolkit
<1>2. ASSUME NEW o \in Operations, Step(o) PROVE RInv'
  <2>1. CASE Check(o) \/ Compare(o) \/ Pick(o) \/ Recheck(o) \/ ListOthers(o)
    BY <2>1, CheckMoves, PickMoves, ListOthersMoves
  <2>2. CASE ShutDownOther(o) \/ Boot(o) \/ Clear(o) \/ Launch(o)
    BY <2>2, ShutDownOtherMoves, BootMoves, ClearMoves, LaunchMoves
  <2>3. CASE Wait(o) \/ ActivateToolkit(o) \/ WriteMarker(o) \/ Reread(o) \/ Confirm(o)
    BY <2>3, WaitMoves, WriteMarkerMoves, RereadMoves, ConfirmMoves
  <2>4. CASE ReadSession(o) \/ Status(o) \/ Stopped(o) \/ DeviceState(o) \/ PollDevice(o)
    BY <2>4, ReadMoves, StatusMoves, SimctlMoves
  <2>5. CASE ShutDown(o) \/ RemoveMarker(o) \/ RemoveSocket(o)
    BY <2>5, ShutDownMoves, RemovalMoves
  <2> QED BY <1>2, <2>1, <2>2, <2>3, <2>4, <2>5 DEF Step
<1>3. ASSUME NEW o \in Operations,
             LaunchFails(o) \/ StatusTimesOut(o) \/ SimctlFails(o) \/ SimctlIgnored(o)
      PROVE  RInv'
  BY <1>3, FailureMoves, ShutDownMoves, SimctlIgnoredMoves
<1>4. ASSUME NEW p \in Pids, Bind(p) PROVE RInv'
  BY <1>4, BindMoves
<1>5. ASSUME NEW d \in Devices, BootByHand(d) \/ ShutDownByHand(d) \/ Crash(d) PROVE RInv'
  BY <1>5, OthersMove
<1>6. CASE UNCHANGED vars
  BY <1>6 DEF vars, sims, RInv, Launched, Marked, Aims, Alone, Has, Leaves, OnlyIn, NoneRuns,
              Holds, Lone, Alive, M
<1> QED BY <1>1, <1>2, <1>3, <1>4, <1>5, <1>6 DEF Next

LEMMA RecoveryInvariance == Spec => [](IInv /\ RInv)
BY InitIInv, NextIInv, InitRInv, NextRInv, PTL DEF Spec

\* A Connect that ends undisturbed was where every check of its own holds: its
\* simulator is on, its process lives and has the socket, and the marker names it.
LEMMA StepRecovers ==
  ASSUME IInv, RInv, SingleSimulator, NEW o \in Operations, Step(o),
         op[o].pc \in Connecting, op'[o].pc = "idle", op'[o].alone
  PROVE  op'[o].result = "connected"
<1>1. op \in [Operations -> Op] /\ op[o] \in Op /\ Has(op[o])
  BY Here DEF RInv
<1>2. ASSUME NEW result, Ends(o, result)
      PROVE  op'[o].result = result /\ op[o].alone
  BY <1>1, <1>2 DEF Ends, Becomes, NoOp
<1>3. ASSUME NEW r, Becomes(o, r) PROVE op'[o] = r
  BY <1>1, <1>3 DEF Becomes
<1>4. ASSUME NEW pc, NEW x, NEW y,
             \/ Goes(o, pc)
             \/ Becomes(o, [op[o] EXCEPT !.pc = pc, !.status = x])
             \/ Becomes(o, [op[o] EXCEPT !.pc = pc, !.session = x])
             \/ Becomes(o, [op[o] EXCEPT !.pc = pc, !.own = x])
             \/ Picks(o, pc, x, y)
             \/ Anew(o, pc, x)
      PROVE  op'[o].pc = pc
  <2>1. CASE Anew(o, pc, x)
    BY <1>1, <2>1 DEF Anew, Becomes, NoOp
  <2>2. CASE Picks(o, pc, x, y)
    BY <1>1, <2>2 DEF Picks, Becomes, Op
  <2>3. CASE Goes(o, pc)
    BY <1>1, <2>3 DEF Goes, Becomes, Op
  <2>4. CASE ~Goes(o, pc) /\ ~Picks(o, pc, x, y) /\ ~Anew(o, pc, x)
    BY <1>1, <1>4, <2>4 DEF Becomes, Op
  <2> QED BY <2>1, <2>2, <2>3, <2>4
<1>5. ASSUME NEW S, NEW alone, Thins(o, S, alone) PROVE op'[o].pc # "idle"
  BY <1>1, <1>5 DEF Thins, Becomes, Op
<1>6. /\ ~(Pick(o) \/ Recheck(o) \/ Boot(o) \/ Clear(o) \/ WriteMarker(o) \/ Reread(o) \/ Check(o))
      /\ ~(ListOthers(o) \/ ShutDownOther(o))
  <2>1. ~(Pick(o) \/ Recheck(o) \/ Boot(o) \/ Clear(o) \/ WriteMarker(o) \/ Reread(o) \/ Check(o))
    BY <1>4 DEF Pick, Recheck, Boot, Clear, WriteMarker, Reread, Check
  <2>2. ~(ListOthers(o) \/ ShutDownOther(o))
    BY <1>5 DEF ListOthers, ShutDownOther
  <2> QED BY <2>1, <2>2
<1>7. CASE Compare(o)
  <2>1. ~Anew(o, "pick", TRUE)
    BY <1>4
  <2> QED BY <1>2, <1>7, <2>1 DEF Compare
<1>8. CASE Launch(o)
  <2>1. op[o].pc = "launch"
    BY <1>8 DEF Launch, At
  <2>2. CASE op[o].device \in booted
    BY <1>4, <1>8, <2>2 DEF Launch
  <2>3. CASE op[o].device \notin booted
    <3>1. op[o].alone
      BY <1>2, <1>8, <2>3 DEF Launch
    <3> QED BY <1>1, <2>1, <2>3, <3>1 DEF Has
  <2> QED BY <2>2, <2>3
<1>9. CASE Wait(o) \/ ActivateToolkit(o)
  <2>1. op[o].pc \in {"wait", "toolkit"}
    BY <1>9 DEF Wait, ActivateToolkit, At
  <2>2. ~Goes(o, "mark") /\ ~Becomes(o, [op[o] EXCEPT !.pc = "toolkit", !.status = path])
        /\ ~Becomes(o, [op[o] EXCEPT !.pc = "mark", !.status = path])
    BY <1>4
  <2>3. /\ Ends(o, "error") /\ ~Responding
        /\ op[o].pc = "wait" => ~Alive(op[o].own) \/ op[o].own \in bound
    BY <1>9, <2>2 DEF Wait, ActivateToolkit, At
  <2>4. op[o].alone
    BY <1>2, <2>3
  <2>5. CASE op[o].pc = "wait"
    BY <1>1, <2>3, <2>4, <2>5 DEF Has, Lone, Responding
  <2>6. CASE op[o].pc = "toolkit"
    BY <1>1, <2>3, <2>4, <2>6 DEF Has, Holds, Lone, Responding
  <2> QED BY <2>1, <2>5, <2>6
<1>10. CASE Confirm(o)
  <2>1. op[o].pc = "confirm"
    BY <1>10 DEF Confirm, At
  <2>2. ~Anew(o, "pick", TRUE)
    BY <1>4
  <2>3. Ends(o, "connected") \/ (Ends(o, "error") /\ ~(Responding /\ Validates(op[o].session, path)))
    BY <1>10, <2>2 DEF Confirm
  <2>4. ASSUME op[o].alone PROVE Responding /\ Validates(op[o].session, path)
    <3>1. Holds(op[o].session.pid)
      BY <1>1, <2>1, <2>4 DEF Has
    <3>2. path = op[o].session.pid /\ path # None /\ Responding
      BY <3>1 DEF Holds, Lone, Alive, Responding
    <3>3. op[o].session # NoSession
      BY <3>2, NoOpFacts DEF None
    <3> QED BY <3>2, <3>3 DEF Validates
  <2> QED BY <1>2, <2>3, <2>4
<1>11. ~(ReadSession(o) \/ Status(o) \/ Stopped(o) \/ DeviceState(o) \/ ShutDown(o)
         \/ PollDevice(o) \/ RemoveMarker(o) \/ RemoveSocket(o))
  BY DEF ReadSession, Status, Stopped, DeviceState, ShutDown, PollDevice, RemoveMarker,
         RemoveSocket, At, Connecting
<1> QED BY <1>6, <1>7, <1>8, <1>9, <1>10, <1>11 DEF Step

\* Connect connects if nothing disturbs it (bridge.js 585-624), whatever markers, sockets and
\* processes the commands, failures and crashes before it left behind: what the launcher
\* clears and shuts down is enough.
THEOREM ConnectionsRecover ==
  ASSUME SingleSimulator
  PROVE  Spec => ConnectRecovers
<1>1. IInv /\ RInv /\ [Next]_vars =>
        [\A o \in Operations :
           (op[o].pc \in Connecting /\ op'[o].pc = "idle" /\ op'[o].alone)
             => op'[o].result = "connected"]_vars
  <2> SUFFICES ASSUME IInv, RInv, Next, NEW o \in Operations,
                      op[o].pc \in Connecting, op'[o].pc = "idle", op'[o].alone
               PROVE  op'[o].result = "connected"
    OBVIOUS
  <2>1. op \in [Operations -> Op] /\ op[o].pc # "idle"
    BY DEF IInv, TypeOK, Connecting
  <2>2. CASE Step(o)
    BY <2>2, StepRecovers
  <2>3. ~(Command(o) \/ LaunchFails(o) \/ StatusTimesOut(o) \/ SimctlFails(o) \/ SimctlIgnored(o))
    <3>1. ~Command(o)
      BY <2>1 DEF Command, Connect, Disconnect, LoadToolkit, Begin, At
    <3>2. ~Becomes(o, Failed)
      BY <2>1 DEF Becomes, Failed, NoOp
    <3>3. ~Becomes(o, [op[o] EXCEPT !.pc = "pick"]) /\ ~Becomes(o, [op[o] EXCEPT !.pc = "stopped?"])
      BY <2>1 DEF Becomes, Op
    <3>4. ~SimctlIgnored(o)
      <4>1. \A pc, d, cold : Picks(o, pc, d, cold) => op'[o].pc = pc
        BY <2>1 DEF Picks, Becomes, Op
      <4>2. \A S, alone : Thins(o, S, alone) => op'[o].pc \in {"boot", "others"}
        BY <2>1 DEF Thins, Becomes, Op
      <4> QED BY <2>1, <4>1, <4>2 DEF SimctlIgnored
    <3> QED BY <3>1, <3>2, <3>3, <3>4 DEF LaunchFails, StatusTimesOut, SimctlFails
  <2>4. ASSUME NEW q \in Operations, q # o,
               \/ Command(q) \/ Step(q)
               \/ LaunchFails(q) \/ StatusTimesOut(q) \/ SimctlFails(q) \/ SimctlIgnored(q)
        PROVE  op'[o].pc = op[o].pc
    <3>1. ASSUME NEW r, op' = [op EXCEPT ![q] = r] PROVE op'[o] = op[o]
      BY <2>1, <2>4, <3>1
    <3>2. ASSUME NEW r, op' = [Disturbed EXCEPT ![q] = r] PROVE op'[o].pc = op[o].pc
      BY <2>4, <3>2, DisturbedFacts
    <3>3. CASE Command(q)
      BY <3>2, <3>3 DEF Command, Connect, Disconnect, LoadToolkit, Begin
    <3>4. CASE Step(q)
      BY <3>1, <3>4 DEF Step, Check, Compare, Pick, Recheck, ListOthers, ShutDownOther, Boot, Clear, Launch, Wait,
           ActivateToolkit, WriteMarker, Reread, Confirm, ReadSession, Status, Stopped,
           DeviceState, ShutDown, PollDevice, RemoveMarker, RemoveSocket, Picks, Thins, Anew, Goes, Becomes, Ends
    <3>5. CASE LaunchFails(q) \/ StatusTimesOut(q) \/ SimctlFails(q) \/ SimctlIgnored(q)
      BY <3>1, <3>5 DEF LaunchFails, StatusTimesOut, SimctlFails, SimctlIgnored, Picks, Thins, Becomes
    <3> QED BY <2>4, <3>3, <3>4, <3>5
  <2>5. ASSUME NEW p \in Pids, Bind(p) PROVE op'[o].pc = op[o].pc
    BY <2>5 DEF Bind
  <2>6. ASSUME NEW d \in Devices, BootByHand(d) \/ ShutDownByHand(d) \/ Crash(d)
        PROVE  op'[o].pc = op[o].pc
    BY <2>6, DisturbedFacts DEF BootByHand, ShutDownByHand, Crash
  <2> QED BY <2>1, <2>2, <2>3, <2>4, <2>5, <2>6 DEF Next
<1> QED BY <1>1, RecoveryInvariance, PTL DEF Spec, ConnectRecovers

\* The socket that cleanupSimulatorSession removes (bridge.js 406-424) is nobody's: when a
\* Disconnect that no other command overlaps comes to it, no injected Shortcuts is left.
THEOREM CleanupsSpareBridges ==
  ASSUME SingleSimulator, ~ByHandDuring
  PROVE  Spec => CleanupSparesBridge
<1>1. RInv => [\A o \in Operations :
                 (~astray /\ At(o, "unlink") /\ ~At(o, "unlink")' /\ op[o].alone)
                   => ~Responding]_vars
  <2> SUFFICES ASSUME RInv, NEW o \in Operations, ~astray, op[o].pc = "unlink", op[o].alone
               PROVE  ~Responding
    BY DEF At
  <2>1. NoneRuns
    BY DEF RInv, Leaves, Single
  <2> QED BY <2>1 DEF NoneRuns, Responding, Alive
<1> QED BY <1>1, RecoveryInvariance, PTL DEF CleanupSparesBridge
=============================================================================
