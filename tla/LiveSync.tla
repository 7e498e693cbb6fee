------------------------------ MODULE LiveSync ------------------------------
(***************************************************************************)
(* The system around the sync run of module HostSync: the Live Sync timer  *)
(* and save listener, the commands, the dialogs, the user's edits on both  *)
(* sides and the bridge connection (extension.js 314-460, 1816-1951 and    *)
(* 2904-2949).                                                             *)
(***************************************************************************)
EXTENDS HostSync

(***************************************************************************)
(* Live Sync: the timer, the save listener and the toggle.                 *)
(***************************************************************************)
HasBaseline(l) == l # None /\ l.source # None /\ l.host # None
LiveSyncOn(l) == l # None /\ l.live /\ l.paused = "none"

\* Mutant: a poll without a bridge just does nothing.
PollWhenConnected ==
  /\ ~polling /\ LiveSyncOn(link)
  /\ kind = "connected" /\ ~dirty
  /\ polling' = TRUE
  /\ RequestAuto("poll")
  /\ UNCHANGED storeQ
  /\ RunOnly

Poll ==
  /\ ~polling /\ LiveSyncOn(link)
  /\ \/ /\ kind # "connected"
        /\ polling' = TRUE
        /\ storeQ' = Append(storeQ, PauseAll("poll"))
        /\ UNCHANGED runVars
     \/ /\ kind = "connected" /\ ~dirty
        /\ polling' = TRUE
        /\ RequestAuto("poll")
        /\ UNCHANGED storeQ
  /\ RunOnly

\* onDidSaveTextDocument; ignored while a pull saves the document itself.
UserSave ==
  /\ dirty /\ dirty' = FALSE
  /\ IF At("savedoc") \/ ~LiveSyncOn(link)
     THEN UNCHANGED <<runVars, storeQ>>
     ELSE \/ /\ kind # "connected"
             /\ storeQ' = Append(storeQ, PauseAll("user"))
             /\ UNCHANGED runVars
          \/ /\ kind = "connected"
             /\ RequestAuto("save")
             /\ UNCHANGED storeQ
  /\ UNCHANGED <<text, records, snap, link, polling, bridgeVars, bounds>>

\* (Bound: one toggle waits in the update chain.)
ToggleLiveSync ==
  /\ "toggle" \in Acts
  /\ \/ /\ link # None /\ link.live
        /\ storeQ' = Append(storeQ, ByUser("disable", link))
        /\ UNCHANGED runVars
     \/ /\ HasBaseline(link) /\ ~link.live
        /\ storeQ' = Append(storeQ, ByUser("enable", link))
        /\ UNCHANGED runVars
     \/ /\ ~HasBaseline(link) /\ ~(link # None /\ link.live)
        /\ RequestInteractive({"toggle"})
        /\ UNCHANGED storeQ
  /\ \A i \in DOMAIN storeQ : storeQ[i].kind \notin {"enable", "disable"}
  /\ UNCHANGED <<editorVars, records, snap, link, polling, bridgeVars, bounds>>

SyncCommand ==
  /\ "sync" \in Acts
  /\ RequestInteractive({})
  /\ UNCHANGED <<editorVars, records, snap, storeVars, polling, bridgeVars, bounds>>
-----------------------------------------------------------------------------
(***************************************************************************)
(* The user in the editor and in Shortcuts.                                *)
(***************************************************************************)
\* The conflict question is modal: the editor takes no input under it.
UserType ==
  /\ TypingDuringRun \/ At("idle")
  /\ ~At("conflict?")
  /\ Edit
  /\ text' \in Texts \ {text} /\ dirty' = TRUE
  /\ UNCHANGED <<records, snap, storeVars, runVars, polling, bridgeVars, faults>>

\* Shortcuts saves a different version of a record, or deletes it.
HostEdit ==
  /\ HostEditsDuringRun \/ At("idle")
  /\ Edit
  /\ \E id \in IDs : /\ records[id] # None
                     /\ \E p \in (Plist \cup {None}) \ {records[id]} :
                          records' = [records EXCEPT ![id] = p]
  /\ UNCHANGED <<editorVars, snap, storeVars, runVars, polling, bridgeVars, faults>>
-----------------------------------------------------------------------------
(***************************************************************************)
(* The bridge, as far as synchronisation sees it.                          *)
(***************************************************************************)
\* probeBridgeStatusPassive.  No answer, or a session marker that does not fit
\* the bridge, pauses; otherwise the session is recorded, then links resume.
Probe ==
  /\ bridgeOp = "probing"
  /\ \/ /\ up /\ bridgeOp' = "validating"
        /\ UNCHANGED <<kind, storeQ>>
     \/ /\ ~up /\ bridgeOp' = "idle"
        /\ kind' = "disconnected"
        /\ storeQ' = Append(storeQ, PauseAll("user"))
  /\ UNCHANGED <<editorVars, records, snap, link, runVars, polling, up, bounds>>

ProbeValidates ==
  /\ bridgeOp = "validating"
  /\ \/ /\ bridgeOp' = "recording" /\ kind' = "connected"
        /\ UNCHANGED storeQ
     \/ /\ bridgeOp' = "idle" /\ kind' = "error"
        /\ storeQ' = Append(storeQ, PauseAll("user"))
  /\ UNCHANGED <<editorVars, records, snap, link, runVars, polling, up, bounds>>

ProbeResumes ==
  /\ bridgeOp = "recording" /\ bridgeOp' = "idle"
  /\ storeQ' = Append(storeQ, ResumeAll("user"))
  /\ UNCHANGED <<editorVars, records, snap, link, runVars, polling, up, kind, bounds>>

UserConnect ==
  /\ "connect" \in Acts
  /\ kind \in {"disconnected", "error"} /\ bridgeOp = "idle"
  /\ kind' = "connecting" /\ bridgeOp' = "starting"
  /\ UNCHANGED <<editorVars, records, snap, storeVars, runVars, polling, up, bounds>>

BridgeStarts ==
  /\ bridgeOp = "starting"
  /\ up' = TRUE /\ bridgeOp' = "adopting"
  /\ UNCHANGED <<editorVars, records, snap, storeVars, runVars, polling, kind, bounds>>

BridgeAdopted ==
  /\ bridgeOp = "adopting"
  /\ kind' = "connected" /\ bridgeOp' = "idle"
  /\ storeQ' = Append(storeQ, ResumeAll("user"))
  /\ UNCHANGED <<editorVars, records, snap, link, runVars, polling, up, bounds>>

BridgeStartFails ==
  /\ bridgeOp = "starting" /\ Fault
  /\ kind' = "error" /\ bridgeOp' = "idle"
  /\ UNCHANGED <<editorVars, records, snap, storeVars, runVars, polling, up, edits>>

UserDisconnect ==
  /\ "disconnect" \in Acts
  /\ bridgeOp = "idle" /\ kind = "connected"
  /\ kind' = "disconnecting" /\ bridgeOp' = "stopping"
  /\ UNCHANGED <<editorVars, records, snap, storeVars, runVars, polling, up, bounds>>

BridgeStops ==
  /\ bridgeOp = "stopping"
  /\ up' = FALSE /\ bridgeOp' = "pausing"
  /\ storeQ' = Append(storeQ, PauseAll("stop"))
  /\ UNCHANGED <<editorVars, records, snap, link, runVars, polling, kind, bounds>>

\* disconnectBridge's catch: the state follows what status says now.
BridgeStopFails ==
  /\ bridgeOp = "stopping" /\ Fault
  /\ kind' = IF up THEN "connected" ELSE "error"
  /\ bridgeOp' = "idle"
  /\ UNCHANGED <<editorVars, records, snap, storeVars, runVars, polling, up, edits>>

BridgeDies ==
  /\ up /\ Fault /\ up' = FALSE
  /\ UNCHANGED <<editorVars, records, snap, storeVars, runVars, polling, kind, bridgeOp, edits>>

\* The window is reloaded or the extension host crashes: memory is lost,
\* globalState, the snapshot files and (hot exit) the editor stay.
Reload ==
  /\ Fault
  /\ storeQ' = <<>> /\ run' = Idle /\ pending' = <<>> /\ polling' = FALSE
  /\ kind' = "disconnected" /\ bridgeOp' = "probing"
  /\ UNCHANGED <<editorVars, records, snap, link, up, edits>>
-----------------------------------------------------------------------------
RunStep ==
  \/ BridgeAnswers \/ BridgeSilent \/ RunConnects \/ RunAdopts
  \/ ExportMissing \/ ExportHost
  \/ CompareShown \/ CompileLocal \/ NotCompiled \/ MergeWithHost \/ WriteHost
  \/ RecordGone \/ Reexport \/ ReplaceEditor \/ SaveDocument
  \/ WriteHostSnapshot \/ WriteCompiledSnapshot \/ DeleteSnapshots

StoreStep ==
  ApplyRunUpdate \/ ApplyPollUpdate \/ ApplyUserUpdate \/ ApplyStopUpdate

BridgeStep ==
  \/ Probe \/ ProbeValidates \/ ProbeResumes
  \/ BridgeStarts \/ BridgeAdopted \/ BridgeStops

Answer == AnswerName \/ AnswerMissing \/ AnswerConflict

User ==
  \/ SyncCommand \/ ToggleLiveSync \/ UserSave \/ UserType \/ HostEdit
  \/ UserConnect \/ UserDisconnect \/ Answer

Failure ==
  \/ RunConnectFails \/ CommandFails \/ BridgeStartFails \/ BridgeStopFails
  \/ BridgeDies \/ Reload

Next == RunStep \/ StoreStep \/ BridgeStep \/ Poll \/ User \/ Failure

(***************************************************************************)
(* Promises settle (every external command has a timeout) and the interval *)
(* timer fires; the user owes nothing.                                     *)
(***************************************************************************)
Fairness == WF_vars(RunStep) /\ WF_vars(StoreStep) /\ WF_vars(BridgeStep) /\ WF_vars(Poll)

Spec == Init /\ [][Next]_vars
FairSpec == Spec /\ Fairness
-----------------------------------------------------------------------------
(***************************************************************************)
(* Safety.                                                                 *)
(***************************************************************************)
SameBaseline(l, m) ==
  l # None /\ l.id = m.id /\ l.source = m.source /\ l.host = m.host

\* The pcs at which a run relies on the link it read at the start.
Deciding == Pcs \ {"idle", "bridge", "connect", "adopt", "resuming", "deleting"}

\* performPythonDocumentHostSync reads the link once and decides, merges and
\* edits by it many awaits later: meanwhile neither a toggle, a pause, a
\* resume nor another run has changed the shortcut the document is linked to
\* or the baseline of the last sync.
DecidesOnCurrentLink ==
  (run.pc \in Deciding /\ run.link # None) => SameBaseline(link, run.link)

\* A pause that waits in the update chain never lands on a link which a later
\* sync has resolved: the conflict it reports is with the stored baseline.
PauseIsCurrent ==
  \A i \in DOMAIN storeQ :
    storeQ[i].kind = "pause" => SameBaseline(link, storeQ[i].link)

\* When nothing is going on and both hashes match, the editor and the host
\* hold the same program: "in sync" is never said of sides that differ.
InSyncAgrees ==
  (/\ At("idle") /\ storeQ = <<>> /\ HasBaseline(link)
   /\ link.source = text /\ records[link.id] = link.host)
    => records[link.id].prog = Compile[text]

\* What either side saved after the run looked at it is not lost: an edit of
\* the record replaces the version the run exported, and an automatic pull
\* replaces the text of the last sync (README.md 256-258: "If both sides
\* change, Live Sync pauses without overwriting either version").
UnseenChangesKept ==
  [][/\ (At("write") /\ run.host # None /\ run'.pc # "write")
          => \A id \in IDs : records[id] # records'[id] => records[id] = run.host
     /\ (At("convert") /\ run.auto /\ run'.pc = "savedoc")
          => text = run.link.source]_vars
-----------------------------------------------------------------------------
(***************************************************************************)
(* Refinement: in terms of TwoWaySync the sides move together with the     *)
(* base, at the step in which the run writes; the link follows later.      *)
(***************************************************************************)
Written == run.pc \in {"savedoc", "reexport", "snapHost", "snapCompiled", "saving"}

rightSide ==
  IF Written THEN records[run.id]
  ELSE IF link # None THEN records[link.id] ELSE None

baseState ==
  CASE Written -> [left |-> run.source,
                   right |-> IF At("reexport") THEN run.out ELSE run.host]
    [] ~Written /\ HasBaseline(link) -> [left |-> link.source, right |-> link.host]
    [] OTHER -> None

ASSUME NoBaseAssumption == None \notin [left : Texts, right : Plist]

Sync == INSTANCE TwoWaySync WITH
          Lefts <- Texts, Rights <- Plist,
          Create <- CompiledFrom,
          Overlay <- LAMBDA b0, l, r : Merge(CompiledFrom(b0.left), CompiledFrom(l), r),
          Render <- LAMBDA r : Decompile[r.prog],
          left <- text, right <- rightSide, base <- baseState,
          attended <- ~run.auto

\* Every step of the sync engine is a step two-way synchronisation allows.
SyncsBothWays == Sync!Spec
-----------------------------------------------------------------------------
(***************************************************************************)
(* Liveness.                                                               *)
(***************************************************************************)
AwaitsUser == run.pc \in Dialogs

\* While Live Sync is on and connected, the sides keep coming back to a state
\* where neither differs from the baseline, unless the editor is unsaved or
\* holds no valid program, a run waits for an answer, or Live Sync is paused
\* or off.
Settled == HasBaseline(link) /\ text = link.source /\ records[link.id] = link.host
LiveSyncSettles ==
  []<>(Settled \/ dirty \/ Compile[text] = None \/ AwaitsUser \/ ~LiveSyncOn(link))

\* A disconnected bridge pauses Live Sync, even if a run that was on its way
\* clears the pause once more.
DisconnectPauses ==
  [](kind = "disconnected" =>
       <>(kind # "disconnected" \/ AwaitsUser \/ ~LiveSyncOn(link)))

\* Reconnecting resumes Live Sync automatically (README.md 259-260): with the
\* bridge connected, no link stays paused for its sake.
ConnectedResumes ==
  [](kind = "connected" =>
       <>(kind # "connected" \/ link = None \/ link.paused # "bridge disconnected"))
=============================================================================
