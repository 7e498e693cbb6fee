---------------------------- MODULE BridgeSession ----------------------------
(***************************************************************************)
(* The session with the simulator bridge: what Connect and Disconnect do   *)
(* (extension.js 348-460, bridge.js 93-110 and 426-505 and 585-665), the   *)
(* launcher they run (launch_shortcuts_sim_bridge.sh) and the bridge       *)
(* server's socket (ShortcutsIDESimBridge.c 859-959).                      *)
(*                                                                         *)
(* Nothing here is held by one process: the simulators, the bridge inside  *)
(* each, the socket path and the session marker are shared by every window *)
(* of VS Code, by the commands that overlap in one window, and by whoever  *)
(* boots and shuts down simulators by hand.  An operation is a command in  *)
(* progress; each of its actions is what happens between two awaits, or    *)
(* one command of the launcher.                                            *)
(***************************************************************************)
EXTENDS Naturals, FiniteSets

CONSTANTS
  Devices,          \* simulators, by their rank: the best is the greatest
  Operations,       \* slots for commands in progress, in whatever window
  SingleSimulator,  \* shortcutsRuntimeIDE.singleSimulatorOnConnect
  ByHandDuring,     \* are simulators booted by hand during commands, too?
  MaxLaunches,      \* bound on launches of Shortcuts (and so on pids)
  MaxActs           \* bound on what users, crashes and failures do

ASSUME DevicesAssumption ==
  /\ Devices \subseteq Nat /\ Devices # {}
  /\ \A S \in SUBSET Devices : S # {} => \E d \in S : \A e \in S : e <= d
ASSUME OperationsAssumption == IsFiniteSet(Operations)
ASSUME BoundsAssumption ==
  /\ {SingleSimulator, ByHandDuring} \subseteq BOOLEAN
  /\ MaxLaunches \in Nat /\ MaxActs \in Nat

None == 0           \* no device, no process
ASSUME NoneAssumption == None \notin Devices

Pids == 1..MaxLaunches
Session == [udid : Devices, pid : Pids]
NoSession == [udid |-> None, pid |-> None]

Pcs == {"idle",
        "check", "compare", "pick", "recheck", "thin", "others", "boot", "clear", "launch",
        "wait", "toolkit", "mark", "reread", "confirm",
        "read", "status", "stopped?", "device", "shut", "poll", "forget", "unlink"}

Op == [pc : Pcs, forced : BOOLEAN, cold : BOOLEAN, device : Devices \cup {None},
       others : SUBSET Devices, own : Pids \cup {None}, status : Pids \cup {None},
       session : Session \cup {NoSession}, alone : BOOLEAN,
       result : {"none", "connected", "disconnected", "error"}]

VARIABLES
  booted,    \* simulators that are booted
  app,       \* the injected Shortcuts process of each, or None
  bound,     \* processes whose server thread has bound its socket
  path,      \* the process the socket path leads to, or None: no such file
  marker,    \* shortpy-simulator-session.json
  launches,  \* launches so far; also the last pid
  acts,      \* what is used of MaxActs
  op,        \* the operations
  astray     \* history: a launcher may not have had one simulator to itself: one was shut
             \* down while another command waited there for a bridge or was about to write
             \* its marker; a failure to shut one down was ignored; or one that had gone
             \* since it was picked was to be booted though it is not the best

sims == <<booted, app, bound, path>>
vars == <<booted, app, bound, path, marker, launches, acts, op, astray>>

NoOp == [pc |-> "idle", forced |-> FALSE, cold |-> FALSE, device |-> None, others |-> {},
         own |-> None, status |-> None, session |-> NoSession, alone |-> TRUE, result |-> "none"]

TypeOK ==
  /\ booted \in SUBSET Devices
  /\ app \in [Devices -> Pids \cup {None}]
  /\ bound \in SUBSET Pids
  /\ path \in Pids \cup {None}
  /\ marker \in Session \cup {NoSession}
  /\ launches \in 0..MaxLaunches /\ acts \in 0..MaxActs
  /\ op \in [Operations -> Op] /\ astray \in BOOLEAN

\* No bridge was launched yet; some simulators may be in use.
Init ==
  /\ booted \in SUBSET Devices
  /\ app = [d \in Devices |-> None]
  /\ bound = {} /\ path = None /\ marker = NoSession
  /\ launches = 0 /\ acts = 0
  /\ op = [o \in Operations |-> NoOp] /\ astray = FALSE

Alive(p) == p # None /\ \E d \in Devices : app[d] = p

\* bridgectl.py status: whoever listens at the path answers with its pid.
Responding == Alive(path)

Best(S) == CHOOSE d \in S : \A e \in S : e <= d

\* validateSimulatorSession.
Validates(session, pid) == session # NoSession /\ pid # None /\ session.pid = pid

At(o, pc) == op[o].pc = pc
Busy == {o \in Operations : ~At(o, "idle")}

\* Operation o takes the state r, everything else of op as it is.
Becomes(o, r) == op' = [op EXCEPT ![o] = r]
Goes(o, pc) == Becomes(o, [op[o] EXCEPT !.pc = pc])
Ends(o, result) == Becomes(o, [NoOp EXCEPT !.result = result, !.alone = op[o].alone])

\* Operation o goes on, and what it has noted is needed no more.
Anew(o, pc, forced) ==
  Becomes(o, [NoOp EXCEPT !.pc = pc, !.forced = forced, !.alone = op[o].alone])

\* An operation ended by a failure outside the code.
Failed == [NoOp EXCEPT !.result = "error", !.alone = FALSE]

\* What someone else does while operations are in progress.
Disturbed == [o \in Operations |-> [op[o] EXCEPT !.alone = FALSE]]
Act == acts < MaxActs /\ acts' = acts + 1
-----------------------------------------------------------------------------
(***************************************************************************)
(* A command starts.  `alone' says that no other command was in progress    *)
(* since, and that nobody touched a simulator or its Shortcuts.            *)
(***************************************************************************)
Begin(o, pc, forced) ==
  /\ At(o, "idle")
  /\ op' = [Disturbed EXCEPT ![o] =
             [NoOp EXCEPT !.pc = pc, !.forced = forced, !.alone = Busy = {}]]
  /\ UNCHANGED <<sims, marker, launches, acts, astray>>

\* (Bound: every operation in progress may launch twice.)
Room == launches + 2 * (Cardinality(Busy) + 1) <= MaxLaunches

Connect(o) == Room /\ Begin(o, "check", FALSE)
Disconnect(o) == Begin(o, "read", FALSE)

\* Loading a ToolKit connects with forceLaunch.
LoadToolkit(o) == Room /\ Begin(o, "pick", TRUE)
-----------------------------------------------------------------------------
(***************************************************************************)
(* ensureBridgeLaunched and connectBridge.                                 *)
(***************************************************************************)
Check(o) ==
  /\ At(o, "check")
  /\ IF Responding
     THEN Becomes(o, [op[o] EXCEPT !.pc = "compare", !.status = path])
     ELSE Goes(o, "pick")
  /\ UNCHANGED <<sims, marker, launches, acts, astray>>

\* Mutant: a marker that does not fit is reported, not replaced.
CompareOnly(o) ==
  /\ At(o, "compare")
  /\ Ends(o, IF Validates(marker, op[o].status) THEN "connected" ELSE "error")
  /\ UNCHANGED <<sims, marker, launches, acts, astray>>

\* The marker is read; if it does not fit, a new launch adopts the simulator.
Compare(o) ==
  /\ At(o, "compare")
  /\ IF Validates(marker, op[o].status)
     THEN Ends(o, "connected")
     ELSE Anew(o, "pick", TRUE)
  /\ UNCHANGED <<sims, marker, launches, acts, astray>>

\* The simulator d is picked; cold, it will be booted.
Picks(o, pc, d, cold) ==
  Becomes(o, [op[o] EXCEPT !.pc = pc, !.device = d, !.cold = cold])

\* The best booted simulator or, if there is none, the best one, cold.
Pick(o) ==
  /\ At(o, "pick")
  /\ IF booted # {} THEN Picks(o, "recheck", Best(booted), FALSE)
                    ELSE Picks(o, "thin", Best(Devices), TRUE)
  /\ UNCHANGED <<sims, marker, launches, acts, astray>>

\* A second list tells whether it is booted: if not, it will be, best or not.
Recheck(o) ==
  /\ At(o, "recheck")
  /\ Picks(o, "thin", op[o].device, op[o].device \notin booted)
  /\ astray' = (astray \/ (op[o].device \notin booted /\ op[o].device # Best(Devices)))
  /\ UNCHANGED <<sims, marker, launches, acts>>

\* A simulator that is shut down takes its processes with it.
Off(S) ==
  /\ booted' = booted \ S
  /\ app' = [d \in Devices |-> IF d \in S THEN None ELSE app[d]]

\* The command o shuts down the simulator d, whoever waits for a bridge there.
Takes(o, d) ==
  /\ Off({d})
  /\ astray' = (astray \/ \E q \in Operations \ {o} :
                  op[q].pc \in {"wait", "toolkit", "mark"} /\ op[q].device = d)

\* The launcher has the simulators S still to shut down.
Thins(o, S, alone) ==
  Becomes(o, [op[o] EXCEPT !.pc = IF S = {} THEN "boot" ELSE "others", !.others = S,
                           !.alone = alone])

\* Mutant: singleSimulatorOnConnect is not passed to the launcher.
ListNone(o) ==
  /\ At(o, "thin")
  /\ Thins(o, {}, op[o].alone)
  /\ UNCHANGED <<sims, marker, launches, acts, astray>>

ListOthers(o) ==
  /\ At(o, "thin")
  /\ Thins(o, IF SingleSimulator THEN booted \ {op[o].device} ELSE {}, op[o].alone)
  /\ UNCHANGED <<sims, marker, launches, acts, astray>>

\* One simulator of the list after the other.
ShutDownOther(o) ==
  /\ At(o, "others")
  /\ \E d \in op[o].others : Takes(o, d) /\ Thins(o, op[o].others \ {d}, op[o].alone)
  /\ UNCHANGED <<bound, path, marker, launches, acts>>

\* A simctl that fails, and the launcher goes on: without a list of booted simulators
\* it takes the best one; without the second, it boots what it picked; without the
\* third, or when a shutdown fails, the others stay.
SimctlIgnored(o) ==
  /\ Act
  /\ \/ /\ At(o, "pick") /\ Picks(o, "thin", Best(Devices), TRUE)
        /\ UNCHANGED astray
     \/ /\ At(o, "recheck") /\ Picks(o, "thin", op[o].device, TRUE)
        /\ astray' = (astray \/ op[o].device # Best(Devices))
     \/ /\ At(o, "thin") /\ SingleSimulator
        /\ Thins(o, {}, FALSE) /\ astray' = TRUE
     \/ /\ At(o, "others") /\ astray' = TRUE
        /\ \E d \in op[o].others : Thins(o, op[o].others \ {d}, FALSE)
  /\ UNCHANGED <<sims, marker, launches>>

\* A simulator that was booted when picked is not booted again.
Boot(o) ==
  /\ At(o, "boot")
  /\ booted' = IF op[o].cold THEN booted \cup {op[o].device} ELSE booted
  /\ Goes(o, "clear")
  /\ UNCHANGED <<app, bound, path, marker, launches, acts, astray>>

\* rm -f socket and marker, before anything is launched.
Clear(o) ==
  /\ At(o, "clear")
  /\ path' = None /\ marker' = NoSession
  /\ Goes(o, "launch")
  /\ UNCHANGED <<booted, app, bound, launches, acts, astray>>

\* simctl launch --terminate-running-process.
Launch(o) ==
  /\ At(o, "launch")
  /\ IF op[o].device \in booted
     THEN /\ launches' = launches + 1
          /\ app' = [app EXCEPT ![op[o].device] = launches']
          /\ Becomes(o, [op[o] EXCEPT !.pc = "wait", !.own = launches'])
     ELSE /\ Ends(o, "error")
          /\ UNCHANGED <<app, launches>>
  /\ UNCHANGED <<booted, bound, path, marker, acts, astray>>

\* bind_socket_at, in the new process: unlink, bind, listen.
Bind(p) ==
  /\ Alive(p) /\ p \notin bound
  /\ bound' = bound \cup {p} /\ path' = p
  /\ UNCHANGED <<booted, app, marker, launches, acts, op, astray>>

\* Mutant: the launcher goes on when its time is up, bridge or no bridge.
WaitAtMost(o) ==
  /\ At(o, "wait")
  /\ Becomes(o, [op[o] EXCEPT !.pc = "toolkit",
                   !.status = IF Responding THEN path ELSE None])
  /\ UNCHANGED <<sims, marker, launches, acts, astray>>

\* Mutant: the launcher waits for a bridge without limit.
WaitForBridge(o) ==
  /\ At(o, "wait")
  /\ IF Responding
     THEN Becomes(o, [op[o] EXCEPT !.pc = "toolkit", !.status = path])
     ELSE UNCHANGED op
  /\ UNCHANGED <<sims, marker, launches, acts, astray>>

\* Ten seconds of status calls; whoever answers will do.
Wait(o) ==
  /\ At(o, "wait")
  /\ \/ /\ Responding
        /\ Becomes(o, [op[o] EXCEPT !.pc = "toolkit", !.status = path])
     \/ /\ ~Responding
        /\ ~Alive(op[o].own) \/ op[o].own \in bound
        /\ Ends(o, "error")
  /\ UNCHANGED <<sims, marker, launches, acts, astray>>

\* After indexing, activation and priming, if there is a ToolKit to activate:
\* the status once more.
ActivateToolkit(o) ==
  /\ At(o, "toolkit")
  /\ \/ Goes(o, "mark")
     \/ Responding /\ Becomes(o, [op[o] EXCEPT !.pc = "mark", !.status = path])
     \/ ~Responding /\ Ends(o, "error")
  /\ UNCHANGED <<sims, marker, launches, acts, astray>>

\* The launcher fails after the launch: indexing times out, the database
\* cannot be activated or primed, or the time limit kills it.
LaunchFails(o) ==
  /\ op[o].pc \in {"pick", "recheck", "thin", "others", "boot", "clear", "launch", "wait",
                "toolkit", "mark"} /\ Act
  /\ Becomes(o, Failed)
  /\ UNCHANGED <<sims, marker, launches, astray>>

\* The server answers one client at a time: while it compiles, a status call
\* waits, and may run into its time limit.
StatusTimesOut(o) ==
  /\ op[o].pc \in {"check", "status", "toolkit", "confirm"} /\ Responding /\ Act
  /\ Becomes(o, CASE At(o, "check") -> [op[o] EXCEPT !.pc = "pick"]
                  [] At(o, "status") -> [op[o] EXCEPT !.pc = "stopped?"]
                  [] OTHER -> Failed)
  /\ UNCHANGED <<sims, marker, launches, astray>>

\* The device the launcher picked, with the pid that answered.
WriteMarker(o) ==
  /\ At(o, "mark")
  /\ marker' = [udid |-> op[o].device, pid |-> op[o].status]
  /\ Anew(o, "reread", op[o].forced)
  /\ UNCHANGED <<sims, launches, acts, astray>>

Reread(o) ==
  /\ At(o, "reread")
  /\ Becomes(o, [op[o] EXCEPT !.pc = "confirm", !.session = marker])
  /\ UNCHANGED <<sims, marker, launches, acts, astray>>

Confirm(o) ==
  /\ At(o, "confirm")
  /\ IF Responding /\ Validates(op[o].session, path)
     THEN Ends(o, "connected")
     ELSE IF Responding /\ ~op[o].forced
          THEN Anew(o, "pick", TRUE)
          ELSE Ends(o, "error")
  /\ UNCHANGED <<sims, marker, launches, acts, astray>>
-----------------------------------------------------------------------------
(***************************************************************************)
(* disconnectBridge of bridge.js.                                          *)
(***************************************************************************)
ReadSession(o) ==
  /\ At(o, "read")
  /\ IF marker = NoSession THEN Ends(o, "error")
     ELSE Becomes(o, [op[o] EXCEPT !.pc = "status", !.session = marker,
                                   !.device = marker.udid])
  /\ UNCHANGED <<sims, marker, launches, acts, astray>>

Status(o) ==
  /\ At(o, "status")
  /\ IF Responding
     THEN IF Validates(op[o].session, path)
          THEN Becomes(o, [op[o] EXCEPT !.pc = "device", !.status = path])
          ELSE Ends(o, "error")
     ELSE Goes(o, "stopped?")
  /\ UNCHANGED <<sims, marker, launches, acts, astray>>

\* Mutant: a bridge that does not answer is taken for stopped.
StoppedIfSilent(o) ==
  /\ At(o, "stopped?")
  /\ Goes(o, "forget")
  /\ UNCHANGED <<sims, marker, launches, acts, astray>>

\* No bridge answers: that is fine if its simulator is off as well.
Stopped(o) ==
  /\ At(o, "stopped?")
  /\ IF op[o].device \in booted THEN Ends(o, "error") ELSE Goes(o, "forget")
  /\ UNCHANGED <<sims, marker, launches, acts, astray>>

DeviceState(o) ==
  /\ At(o, "device")
  /\ IF op[o].device \in booted THEN Goes(o, "shut") ELSE Ends(o, "error")
  /\ UNCHANGED <<sims, marker, launches, acts, astray>>

ShutDown(o) ==
  /\ At(o, "shut")
  /\ Takes(o, op[o].device)
  /\ Goes(o, "poll")
  /\ UNCHANGED <<bound, path, marker, launches, acts>>

PollDevice(o) ==
  /\ At(o, "poll")
  /\ IF op[o].device \in booted THEN Ends(o, "error") ELSE Goes(o, "forget")
  /\ UNCHANGED <<sims, marker, launches, acts, astray>>

\* simctl fails or runs into its time limit, a shutdown perhaps after its work.
SimctlFails(o) ==
  /\ op[o].pc \in {"stopped?", "device", "shut", "poll"} /\ Act
  /\ Becomes(o, Failed)
  /\ \/ UNCHANGED <<booted, app, astray>>
     \/ At(o, "shut") /\ Takes(o, op[o].device)
  /\ UNCHANGED <<bound, path, marker, launches>>

\* cleanupSimulatorSession: the marker, then the session's socket.
RemoveMarker(o) ==
  /\ At(o, "forget")
  /\ marker' = NoSession
  /\ Goes(o, "unlink")
  /\ UNCHANGED <<sims, launches, acts, astray>>

RemoveSocket(o) ==
  /\ At(o, "unlink")
  /\ path' = None
  /\ Ends(o, "disconnected")
  /\ UNCHANGED <<booted, app, bound, marker, launches, acts, astray>>
-----------------------------------------------------------------------------
(***************************************************************************)
(* Others: simulators booted and shut down by hand, a Shortcuts that dies. *)
(***************************************************************************)
ByHand == ByHandDuring \/ Busy = {}

BootByHand(d) ==
  /\ ByHand /\ d \notin booted /\ Act
  /\ booted' = booted \cup {d}
  /\ op' = Disturbed
  /\ UNCHANGED <<app, bound, path, marker, launches, astray>>

ShutDownByHand(d) ==
  /\ ByHand /\ d \in booted /\ Act
  /\ Off({d})
  /\ op' = Disturbed
  /\ UNCHANGED <<bound, path, marker, launches, astray>>

Crash(d) ==
  /\ app[d] # None /\ Act
  /\ app' = [app EXCEPT ![d] = None]
  /\ op' = Disturbed
  /\ UNCHANGED <<booted, bound, path, marker, launches, astray>>
-----------------------------------------------------------------------------
Step(o) ==
  \/ Check(o) \/ Compare(o) \/ Pick(o) \/ Recheck(o) \/ ListOthers(o) \/ ShutDownOther(o)
  \/ Boot(o) \/ Clear(o) \/ Launch(o) \/ Wait(o) \/ ActivateToolkit(o) \/ WriteMarker(o) \/ Reread(o)
  \/ Confirm(o)
  \/ ReadSession(o) \/ Status(o) \/ Stopped(o) \/ DeviceState(o) \/ ShutDown(o)
  \/ PollDevice(o) \/ RemoveMarker(o) \/ RemoveSocket(o)

Command(o) == Connect(o) \/ Disconnect(o) \/ LoadToolkit(o)

Next ==
  \/ \E o \in Operations :
       \/ Command(o) \/ Step(o)
       \/ LaunchFails(o) \/ StatusTimesOut(o) \/ SimctlFails(o) \/ SimctlIgnored(o)
  \/ \E p \in Pids : Bind(p)
  \/ \E d \in Devices : BootByHand(d) \/ ShutDownByHand(d) \/ Crash(d)

\* Commands and child processes end (they have time limits); a server thread
\* comes to bind its socket.
Fairness ==
  /\ \A o \in Operations : WF_vars(Step(o))
  /\ \A p \in Pids : WF_vars(Bind(p))

Spec == Init /\ [][Next]_vars
FairSpec == Spec /\ Fairness
-----------------------------------------------------------------------------
\* A session that validates is true: the process that answers runs in the
\* simulator the marker names.  Whoever answers will do for the launcher (233), so it
\* need not be once a launcher did not have one simulator to itself (`astray'): one was
\* shut down under another command, a failing list or shutdown was ignored (98, 100),
\* or what was picked was no longer booted and is booted cold, best or not (161).
SessionTrue ==
  (~astray /\ marker # NoSession /\ Responding /\ Validates(marker, path))
    => app[marker.udid] = path

\* Disconnect shuts down the simulator of the bridge that answered it and no
\* other (vscode-extension/README.md 61-62: "shut down the exact simulator
\* device selected by Shortpy and stop its injected bridge"); but for `astray'.
OnlyOwnSimulator ==
  [][\A o \in Operations :
       (~astray /\ At(o, "shut") /\ ~At(o, "shut")' /\ op[o].device \in booted \ booted'
          /\ Alive(op[o].status))
         => app[op[o].device] = op[o].status]_vars

Connecting == {"check", "compare", "pick", "recheck", "thin", "others", "boot", "clear", "launch",
               "wait", "toolkit", "mark", "reread", "confirm"}

\* Connect connects, if nothing disturbs it, whatever markers, sockets and
\* processes the commands, failures and crashes before it left behind.
ConnectRecovers ==
  [][\A o \in Operations :
       (op[o].pc \in Connecting /\ op'[o].pc = "idle" /\ op'[o].alone)
         => op'[o].result = "connected"]_vars

\* A Disconnect that no other command overlaps and nobody disturbs does not
\* remove the socket of a bridge that is alive, even one too busy to answer (nor does
\* it after commands that overlapped, but for `astray').
CleanupSparesBridge ==
  [][\A o \in Operations :
       (~astray /\ At(o, "unlink") /\ ~At(o, "unlink")' /\ op[o].alone) => ~Responding]_vars

\* Every command ends.
OperationsEnd == \A o \in Operations : []<>At(o, "idle")
=============================================================================
