------------------------------ MODULE HostSync ------------------------------
(***************************************************************************)
(* Two-way synchronisation of one Shortpy Python document with one host    *)
(* Shortcuts record (vscode-extension/src/extension.js, 1310-1951).        *)
(*                                                                         *)
(* The extension host is single threaded, so an action of this module is   *)
(* the code between two awaits: everything else may happen at an await.    *)
(* `run' is the sync run in progress (performPythonDocumentHostSync); its  *)
(* pc names the await it is suspended at.  Runs of one link key execute    *)
(* one after the other, as module SyncQueue shows of the promise chain in  *)
(* syncPythonDocumentToHost.  `storeQ' is the other promise chain,         *)
(* hostShortcutLinkStateUpdate: link updates wait there and are applied in *)
(* order, each to the link it then finds.                                  *)
(*                                                                         *)
(* Hashes are modelled by the values hashed (SHA-256 taken as injective).  *)
(***************************************************************************)
EXTENDS Naturals, Sequences

CONSTANTS
  Texts,              \* what the Python editor can hold
  Progs,              \* programs: what compiling a text determines
  Metas,              \* host-only metadata (icon, trigger UUIDs)
  IDs,                \* workflow identifiers of the host database
  Compile,            \* [Texts -> Progs or None]: Apple's compiler
  Decompile,          \* [Progs -> Texts]: plist-data-to-python
  CompilerMeta,       \* the metadata a compilation fills in by itself
  None,               \* undefined / missing
  Acts,               \* the commands and dialog answers the user gives
  TypingDuringRun,    \* may the user type while a run is in progress?
  HostEditsDuringRun, \* may Shortcuts change while a run is in progress?
  LegacyLink,         \* may the persisted link lack the two hashes?
  MaxEdits,           \* bound on changes made by the user
  MaxFaults,          \* bound on failed commands, bridge deaths, reloads
  MaxQueue            \* bound on interactive runs waiting in the chain

AllActs == {"sync", "toggle", "connect", "disconnect",
            "name", "create", "unlink", "editor", "shortcuts", "compare", "dismiss"}

ASSUME CompileAssumption ==
  /\ Compile \in [Texts -> Progs \cup {None}]
  /\ Decompile \in [Progs -> Texts]
  /\ \A p \in Progs : Compile[Decompile[p]] = p

ASSUME ValuesAssumption ==
  /\ CompilerMeta \in Metas
  /\ Acts \subseteq AllActs
  /\ {TypingDuringRun, HostEditsDuringRun, LegacyLink} \subseteq BOOLEAN
  /\ {MaxEdits, MaxFaults, MaxQueue} \subseteq Nat

Plist == [prog : Progs, meta : Metas]

ASSUME NoneAssumption == None \notin Texts \cup Progs \cup IDs \cup Plist

Reasons == {"none", "bridge disconnected", "conflict", "missing"}

Link == [id : IDs, source : Texts \cup {None}, host : Plist \cup {None},
         live : BOOLEAN, paused : Reasons]

ASSUME NoLinkAssumption == None \notin Link

\* Who awaits a run and acts on its result (the Sync command only reports).
Callers == {"toggle", "save", "poll"}

Pcs == {"idle", "bridge", "connect", "adopt", "resuming", "name?", "export",
        "missing?", "unlinking", "deleting", "conflict?", "comparing",
        "noting", "compile", "merge", "write", "reexport", "convert",
        "savedoc", "snapHost", "snapCompiled", "saving"}

Run == [pc : Pcs, auto : BOOLEAN, callers : SUBSET Callers,
        link : Link \cup {None}, id : IDs \cup {None},
        host : Plist \cup {None}, source : Texts \cup {None},
        compiled : Plist \cup {None}, out : Plist \cup {None}]

Updates == {"baseline", "note", "remove", "pause", "enable", "disable",
            "pause all", "resume all"}

\* by: who awaits the update.
Update == [kind : Updates, by : {"run", "poll", "user", "stop"},
           reason : Reasons, link : Link \cup {None}]

VARIABLES
  text, dirty,        \* the editor's buffer; is it unsaved?
  records,            \* host database: [IDs -> Plist or None]
  snap,               \* host.plist and compiled.plist of the last sync
  link,               \* the persisted link of this document, or None
  storeQ,             \* link updates waiting in hostShortcutLinkStateUpdate
  run, pending,       \* the run in progress; callers of the runs behind it
  polling,            \* liveSyncPollRunning
  up, kind,           \* does the bridge answer? bridgeConnectionState.kind
  bridgeOp,           \* where the probe or bridge command in progress is
  edits, faults       \* what is used of MaxEdits and MaxFaults

editorVars == <<text, dirty>>
storeVars == <<link, storeQ>>
runVars == <<run, pending>>
bridgeVars == <<up, kind, bridgeOp>>
bounds == <<edits, faults>>
vars == <<text, dirty, records, snap, link, storeQ, run, pending, polling,
          up, kind, bridgeOp, edits, faults>>

Idle == [pc |-> "idle", auto |-> FALSE, callers |-> {}, link |-> None,
         id |-> None, host |-> None, source |-> None, compiled |-> None,
         out |-> None]

NoSnap == [host |-> None, compiled |-> None]

Dialogs == {"name?", "missing?", "conflict?"}

TypeOK ==
  /\ text \in Texts /\ dirty \in BOOLEAN
  /\ records \in [IDs -> Plist \cup {None}]
  /\ snap \in [host : Plist \cup {None}, compiled : Plist \cup {None}]
  /\ link \in Link \cup {None}
  /\ storeQ \in Seq(Update)
  /\ run \in Run
  /\ pending \in Seq(SUBSET Callers)
  /\ polling \in BOOLEAN
  /\ up \in BOOLEAN
  /\ kind \in {"connected", "connecting", "disconnecting", "disconnected", "error"}
  /\ bridgeOp \in {"idle", "probing", "validating", "recording",
                   "starting", "adopting", "stopping", "pausing"}
  /\ edits \in Nat /\ faults \in Nat

CompiledFrom(t) == [prog |-> Compile[t], meta |-> CompilerMeta]

(***************************************************************************)
(* A window opens on a saved document: nothing is linked yet, or the last  *)
(* session left a link, in sync or (when LegacyLink) written by a version  *)
(* that kept no hashes.  activate starts the passive bridge probe.         *)
(***************************************************************************)
Fresh ==
  /\ records = [i \in IDs |-> None]
  /\ link = None /\ snap = NoSnap

Legacy ==
  \E id \in IDs, host \in Plist :
    /\ LegacyLink
    /\ records = [i \in IDs |-> IF i = id THEN host ELSE None]
    /\ link = [id |-> id, source |-> None, host |-> None,
               live |-> FALSE, paused |-> "none"]
    /\ snap = NoSnap

InSync ==
  \E id \in IDs, m \in Metas, live \in BOOLEAN :
    LET host == [prog |-> Compile[text], meta |-> m] IN
    /\ Compile[text] # None
    /\ records = [i \in IDs |-> IF i = id THEN host ELSE None]
    /\ link = [id |-> id, source |-> text, host |-> host,
               live |-> live, paused |-> "none"]
    /\ snap = [host |-> host, compiled |-> CompiledFrom(text)]

Init ==
  /\ text \in Texts /\ dirty = FALSE
  /\ Fresh \/ Legacy \/ InSync
  /\ storeQ = <<>> /\ run = Idle /\ pending = <<>> /\ polling = FALSE
  /\ up \in BOOLEAN /\ kind = "disconnected" /\ bridgeOp = "probing"
  /\ edits = 0 /\ faults = 0

Edit == edits < MaxEdits /\ edits' = edits + 1
Fault == faults < MaxFaults /\ faults' = faults + 1
-----------------------------------------------------------------------------
(***************************************************************************)
(* The data operations.                                                    *)
(***************************************************************************)

\* Mutant: only the editor is compared.
SyncActionIgnoringHost(l, source, host) ==
  IF l.source = None \/ l.host = None THEN "initialize"
  ELSE CASE source # l.source -> "push"
         [] source = l.source /\ host = l.host -> "none"
         [] OTHER -> "pull"

\* hostShortcuts.js determineSyncAction: which side moved since the baseline.
SyncAction(l, source, host) ==
  IF l.source = None \/ l.host = None THEN "initialize"
  ELSE CASE source = l.source /\ host = l.host -> "none"
         [] source # l.source /\ host = l.host -> "push"
         [] source = l.source /\ host # l.host -> "pull"
         [] OTHER -> "conflict"

\* merge-workflow-plists.py on a plist with one part Shortpy expresses and
\* one it does not: the local change of the first, the host's second.
Merge(base, local, host) ==
  [prog |-> IF local.prog = base.prog THEN host.prog ELSE local.prog,
   meta |-> host.meta]

(***************************************************************************)
(* Link updates: the closures passed to updateHostShortcutLink and         *)
(* updateAllHostShortcutLinks, evaluated when their turn comes.            *)
(***************************************************************************)
\* Mutant: a pause forgets what the editor held at the last sync.
PausedAnew(l, reason) == [l EXCEPT !.paused = reason, !.source = None]

Paused(l, reason) == [l EXCEPT !.paused = reason]
Unpaused(l) == [l EXCEPT !.paused = "none"]

\* Mutant: the link is the one read before the update was asked for.
CapturedLink(u) == IF u.link # None THEN u.link ELSE link

\* `currentLink || link': the link of the moment, or the one captured.
CurrentLink(u) == IF link # None THEN link ELSE u.link

Updated(u) ==
  LET old == CurrentLink(u) IN
  CASE u.kind = "baseline" ->
         [id |-> run.id, source |-> run.source, host |-> run.host,
          live |-> old # None /\ old.live, paused |-> "none"]
    [] u.kind = "note"    -> Unpaused(old)
    [] u.kind = "remove"  -> None
    [] u.kind = "pause"   -> Paused(old, u.reason)
    [] u.kind = "enable"  -> Unpaused([old EXCEPT !.live = TRUE])
    [] u.kind = "disable" -> Unpaused([old EXCEPT !.live = FALSE])
    [] u.kind = "pause all" ->
         IF link # None /\ link.live /\ link.paused = "none"
         THEN Paused(link, "bridge disconnected") ELSE link
    [] u.kind = "resume all" ->
         IF link # None /\ link.paused = "bridge disconnected"
         THEN Unpaused(link) ELSE link

PauseAll(by) == [kind |-> "pause all", by |-> by, reason |-> "none", link |-> None]
ResumeAll(by) == [kind |-> "resume all", by |-> by, reason |-> "none", link |-> None]
ByRun(k) == [kind |-> k, by |-> "run", reason |-> "none", link |-> run.link]
ByUser(k, l) == [kind |-> k, by |-> "user", reason |-> "none", link |-> l]
-----------------------------------------------------------------------------
(***************************************************************************)
(* syncPythonDocumentToHost: start, join (coalesce) or wait in the chain.  *)
(***************************************************************************)
NewRun(auto, callers) ==
  [Idle EXCEPT !.pc = "bridge", !.auto = auto, !.callers = callers]

StartRun(auto, callers) ==
  /\ run.pc = "idle"
  /\ run' = NewRun(auto, callers)
  /\ UNCHANGED pending

JoinRun(caller) ==
  /\ run.pc # "idle"
  /\ IF pending = <<>>
     THEN /\ run' = [run EXCEPT !.callers = @ \cup {caller}]
          /\ UNCHANGED pending
     ELSE /\ pending' = [pending EXCEPT ![Len(pending)] = @ \cup {caller}]
          /\ UNCHANGED run

QueueRun(callers) ==
  /\ run.pc # "idle" /\ Len(pending) < MaxQueue
  /\ pending' = Append(pending, callers)
  /\ UNCHANGED run

RequestAuto(caller) == StartRun(TRUE, {caller}) \/ JoinRun(caller)
RequestInteractive(callers) == StartRun(FALSE, callers) \/ QueueRun(callers)

(***************************************************************************)
(* A run ends with `result'.  Its callers go on in the same turn: Live     *)
(* Sync pauses on a conflict or a missing record, a toggle enables Live    *)
(* Sync; then the next run of the chain starts.  l and q are the link and  *)
(* the update queue of the moment.                                         *)
(***************************************************************************)
FollowUps(result, l) ==
  LET auto == run.callers \cap {"save", "poll"}
      pauses == auto # {} /\ result \in {"conflict", "missing"} /\ l # None /\ l.live
      enables == "toggle" \in run.callers /\ result = "ok" /\ l # None
  IN (IF pauses
      THEN << [kind |-> "pause", by |-> IF "poll" \in auto THEN "poll" ELSE "user",
               reason |-> result, link |-> l] >>
      ELSE <<>>)
     \o (IF enables THEN << ByUser("enable", l) >> ELSE <<>>)

\* Mutant: only a poll that runs to its end clears liveSyncPollRunning.
PollGoesOnAfterError(result, ups) ==
  polling /\ ("poll" \in run.callers =>
                result = "error" \/ \E i \in DOMAIN ups : ups[i].by = "poll")

\* The `finally' of pollLiveSyncDocuments.
PollGoesOn(result, ups) ==
  polling /\ ("poll" \in run.callers => \E i \in DOMAIN ups : ups[i].by = "poll")

Finish(result, l, q) ==
  LET ups == FollowUps(result, l) IN
  /\ storeQ' = q \o ups
  /\ polling' = PollGoesOn(result, ups)
  /\ IF pending = <<>>
     THEN run' = Idle /\ UNCHANGED pending
     ELSE run' = NewRun(FALSE, Head(pending)) /\ pending' = Tail(pending)

\* The run stays suspended at another await; nothing else is touched.
Goes(r) ==
  /\ run' = r
  /\ UNCHANGED <<pending, storeQ, polling>>

At(pc) == run.pc = pc

\* A step of the run that changes nothing outside it and its callers.
RunOnly == UNCHANGED <<editorVars, records, snap, link, bridgeVars, bounds>>
-----------------------------------------------------------------------------
(***************************************************************************)
(* performPythonDocumentHostSync, one action per await.                    *)
(***************************************************************************)

\* Lines 1494-1516: the link is read once, here, and used to the end.
ReadLink(l, q) ==
  IF l = None /\ run.auto THEN Finish("unlinked", l, q)
  ELSE /\ storeQ' = q
       /\ run' = [run EXCEPT !.pc = IF l = None THEN "name?" ELSE "export",
                             !.link = l,
                             !.id = IF l = None THEN None ELSE l.id]
       /\ UNCHANGED <<pending, polling>>

BridgeAnswers ==
  /\ At("bridge") /\ up
  /\ ReadLink(link, storeQ)
  /\ RunOnly

\* ensureBridgeConnectedForHostSync falls back on connectBridge.
BridgeSilent ==
  /\ At("bridge") /\ ~up
  /\ kind' = "connecting"
  /\ Goes([run EXCEPT !.pc = "connect"])
  /\ UNCHANGED <<editorVars, records, snap, link, up, bridgeOp, bounds>>

RunConnects ==
  /\ At("connect")
  /\ up' = TRUE
  /\ Goes([run EXCEPT !.pc = "adopt"])
  /\ UNCHANGED <<editorVars, records, snap, link, kind, bridgeOp, bounds>>

\* The new session is recorded; then the state is set and the links resumed.
RunAdopts ==
  /\ At("adopt")
  /\ kind' = "connected"
  /\ run' = [run EXCEPT !.pc = "resuming"]
  /\ storeQ' = Append(storeQ, ResumeAll("run"))
  /\ UNCHANGED <<editorVars, records, snap, link, pending, polling, up, bridgeOp, bounds>>

RunConnectFails ==
  /\ At("connect") /\ Fault
  /\ kind' = "error"
  /\ Finish("error", link, storeQ)
  /\ UNCHANGED <<editorVars, records, snap, link, up, bridgeOp, edits>>

\* compileLocal starts: the text is read before the await.
Compiling(r, host) ==
  [r EXCEPT !.pc = "compile", !.host = host, !.source = text]

FreeID == \E id \in IDs : records[id] = None

AnswerName ==
  /\ At("name?")
  /\ \/ /\ "name" \in Acts /\ FreeID
        /\ Goes(Compiling(run, None))
     \/ /\ "dismiss" \in Acts
        /\ Finish("undefined", link, storeQ)
  /\ RunOnly

AnswerMissing ==
  /\ At("missing?")
  /\ \/ /\ "create" \in Acts /\ FreeID
        /\ Goes(Compiling([run EXCEPT !.id = None], None))
     \/ /\ "unlink" \in Acts
        /\ run' = [run EXCEPT !.pc = "unlinking"]
        /\ storeQ' = Append(storeQ, ByRun("remove"))
        /\ UNCHANGED <<pending, polling>>
     \/ /\ "dismiss" \in Acts
        /\ Finish("undefined", link, storeQ)
  /\ RunOnly

ExportMissing ==
  /\ At("export") /\ records[run.link.id] = None
  /\ IF run.auto THEN Finish("missing", link, storeQ)
     ELSE Goes([run EXCEPT !.pc = "missing?"])
  /\ RunOnly

\* Lines 1624-1696: the record is exported, then the side that moved is
\* found by comparing the editor of this moment with the link read before.
\* (In sync, the link is written if it was paused or if the record was renamed;
\* names are not modelled, so it may always be.)
ExportHost ==
  /\ At("export") /\ records[run.link.id] # None
  /\ LET host == records[run.link.id]
         read == [run EXCEPT !.host = host]
         action == SyncAction(run.link, text, host)
     IN \/ /\ action \in {"initialize", "push"}
           /\ Goes(Compiling(read, host))
        \/ /\ action = "pull"
           /\ Goes([read EXCEPT !.pc = "convert"])
        \/ /\ action = "none"
           /\ \/ run.link.paused = "none" /\ Finish("ok", link, storeQ)
              \/ /\ run' = [read EXCEPT !.pc = "noting"]
                 /\ storeQ' = Append(storeQ, ByRun("note"))
                 /\ UNCHANGED <<pending, polling>>
        \/ /\ action = "conflict"
           /\ IF run.auto THEN Finish("conflict", link, storeQ)
              ELSE Goes([read EXCEPT !.pc = "conflict?"])
  /\ RunOnly

AnswerConflict ==
  /\ At("conflict?")
  /\ \/ "editor" \in Acts /\ Goes(Compiling(run, run.host))
     \/ "shortcuts" \in Acts /\ Goes([run EXCEPT !.pc = "convert"])
     \/ "compare" \in Acts /\ Goes([run EXCEPT !.pc = "comparing"])
     \/ "dismiss" \in Acts /\ Finish("undefined", link, storeQ)
  /\ RunOnly

\* The host version is converted and shown beside the editor; nothing else.
CompareShown ==
  /\ At("comparing") /\ up
  /\ Finish("conflict", link, storeQ)
  /\ RunOnly

\* Mutant: a compilation that fails goes unnoticed.
AnswersAnything(source) == up

\* Apple's compiler, behind the bridge, accepts the source.
Answers(source) == up /\ Compile[source] # None

\* compileLocal returns (1551-1556): the plist is compiled from the text sent,
\* the source that goes with it is read from the editor again.
CompileLocal ==
  /\ At("compile") /\ Answers(run.source)
  /\ LET plist == CompiledFrom(run.source)
         done == [run EXCEPT !.compiled = plist, !.source = text]
     IN IF run.host = None
        THEN Goes([done EXCEPT !.pc = "write", !.out = plist])
        ELSE Goes([done EXCEPT !.pc = IF run.link.source = None \/ run.link.host = None
                                      THEN "snapHost" ELSE "merge"])
  /\ RunOnly

\* The text is not a valid program, or there is no bridge to ask.
NotCompiled ==
  /\ \/ At("compile") /\ ~Answers(run.source)
     \/ run.pc \in {"convert", "comparing"} /\ ~up
  /\ Finish("error", link, storeQ)
  /\ RunOnly

MergeWithHost ==
  /\ At("merge")
  /\ IF snap.host = None \/ snap.compiled = None
     THEN Finish("error", link, storeQ)
     ELSE Goes([run EXCEPT !.pc = "write",
                           !.out = Merge(snap.compiled, run.compiled, run.host)])
  /\ RunOnly

(***************************************************************************)
(* syncHostShortcut: `edit --id' replaces the record, `create' adds one.   *)
(* The helper may do its work and its answer be lost (a timeout kills it). *)
(***************************************************************************)
Target(id) ==
  IF run.host = None THEN records[id] = None ELSE id = run.id /\ records[id] # None

WriteHost ==
  /\ At("write")
  /\ \E id \in IDs :
       /\ Target(id)
       /\ records' = [records EXCEPT ![id] = run.out]
       /\ \/ Goes([run EXCEPT !.pc = "reexport", !.id = id]) /\ UNCHANGED faults
          \/ Fault /\ Finish("error", link, storeQ)
  /\ UNCHANGED <<editorVars, snap, link, bridgeVars, edits>>

\* The record was deleted in the meantime: edit and export say not_found.
RecordGone ==
  /\ \/ At("write") /\ run.host # None
     \/ At("reexport")
  /\ records[run.id] = None
  /\ Finish("error", link, storeQ)
  /\ RunOnly

Reexport ==
  /\ At("reexport") /\ records[run.id] # None
  /\ Goes([run EXCEPT !.pc = "snapHost", !.host = records[run.id]])
  /\ RunOnly

\* pullHost: the conversion returns and the whole editor is replaced.
ReplaceEditor ==
  /\ At("convert") /\ up
  /\ LET source == Decompile[run.host.prog] IN
     /\ text' = source /\ dirty' = TRUE
     /\ Goes([run EXCEPT !.pc = "savedoc", !.source = source,
                         !.compiled = CompiledFrom(source)])
  /\ UNCHANGED <<records, snap, link, bridgeVars, bounds>>

SaveDocument ==
  /\ At("savedoc")
  /\ dirty' = FALSE
  /\ Goes([run EXCEPT !.pc = "snapHost"])
  /\ UNCHANGED <<text, records, snap, link, bridgeVars, bounds>>

\* writeHostSyncSnapshots: two files, one after the other.
WriteHostSnapshot ==
  /\ At("snapHost")
  /\ snap' = [snap EXCEPT !.host = run.host]
  /\ Goes([run EXCEPT !.pc = "snapCompiled"])
  /\ UNCHANGED <<editorVars, records, link, bridgeVars, bounds>>

\* Mutant: compiled.plist is written at the first sync only.
WriteCompiledSnapshotOnce ==
  /\ At("snapCompiled")
  /\ snap' = [snap EXCEPT !.compiled = IF @ = None THEN run.compiled ELSE @]
  /\ run' = [run EXCEPT !.pc = "saving"]
  /\ storeQ' = Append(storeQ, ByRun("baseline"))
  /\ UNCHANGED <<editorVars, records, link, pending, polling, bridgeVars, bounds>>

\* Mutant: saveBaseline does not wait its turn in the update chain.
WriteCompiledSnapshotFirst ==
  /\ At("snapCompiled")
  /\ snap' = [snap EXCEPT !.compiled = run.compiled]
  /\ run' = [run EXCEPT !.pc = "saving"]
  /\ storeQ' = <<ByRun("baseline")>> \o storeQ
  /\ UNCHANGED <<editorVars, records, link, pending, polling, bridgeVars, bounds>>

WriteCompiledSnapshot ==
  /\ At("snapCompiled")
  /\ snap' = [snap EXCEPT !.compiled = run.compiled]
  /\ run' = [run EXCEPT !.pc = "saving"]
  /\ storeQ' = Append(storeQ, ByRun("baseline"))
  /\ UNCHANGED <<editorVars, records, link, pending, polling, bridgeVars, bounds>>

DeleteSnapshots ==
  /\ At("deleting")
  /\ snap' = NoSnap
  /\ Finish("unlink", link, storeQ)
  /\ UNCHANGED <<editorVars, records, link, bridgeVars, bounds>>

\* A command of the run fails or times out: the run rejects, its callers
\* only report it.
CommandFails ==
  /\ run.pc \in {"export", "comparing", "compile", "merge", "write", "reexport",
                 "convert", "savedoc", "snapHost", "snapCompiled"}
  /\ Fault
  /\ Finish("error", link, storeQ)
  /\ UNCHANGED <<editorVars, records, snap, link, bridgeVars, edits>>
-----------------------------------------------------------------------------
(***************************************************************************)
(* The head of hostShortcutLinkStateUpdate is applied, and whoever awaited *)
(* it goes on.                                                             *)
(***************************************************************************)
NextUpdate == storeQ # <<>>
UpdateBy(by) == NextUpdate /\ Head(storeQ).by = by

ApplyRunUpdate ==
  /\ UpdateBy("run")
  /\ link' = Updated(Head(storeQ))
  /\ CASE run.pc \in {"saving", "noting"} -> Finish("ok", link', Tail(storeQ))
       [] At("resuming") -> ReadLink(link', Tail(storeQ))
       [] At("unlinking") -> /\ run' = [run EXCEPT !.pc = "deleting"]
                             /\ storeQ' = Tail(storeQ)
                             /\ UNCHANGED <<pending, polling>>
  /\ UNCHANGED <<editorVars, records, snap, bridgeVars, bounds>>

ApplyPollUpdate ==
  /\ UpdateBy("poll")
  /\ link' = Updated(Head(storeQ)) /\ storeQ' = Tail(storeQ)
  /\ polling' = FALSE
  /\ UNCHANGED <<editorVars, records, snap, runVars, bridgeVars, bounds>>

ApplyUserUpdate ==
  /\ UpdateBy("user")
  /\ link' = Updated(Head(storeQ)) /\ storeQ' = Tail(storeQ)
  /\ UNCHANGED <<editorVars, records, snap, runVars, polling, bridgeVars, bounds>>

\* disconnectBridge reports "disconnected" only after its pause is stored.
ApplyStopUpdate ==
  /\ UpdateBy("stop")
  /\ link' = Updated(Head(storeQ)) /\ storeQ' = Tail(storeQ)
  /\ kind' = "disconnected" /\ bridgeOp' = "idle"
  /\ UNCHANGED <<editorVars, records, snap, runVars, polling, up, bounds>>
=============================================================================
