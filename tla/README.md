# Shortpy IDE: TLA+ models, checks and proofs

Shortpy IDE edits Apple Shortcuts as Python text ("Shortpy").  A VS Code
extension talks to an injected *bridge* inside a simulator process of Shortcuts,
asks it to compile Python into a workflow property list and back, and keeps a
Python editor in step with a shortcut in the Mac's own Shortcuts database.

This directory models the parts of the system where steps of several actors
interleave over state that outlives them: **two-way synchronisation** of an
editor with a host shortcut, the **promise chains** that order it, the **merge**
it rests on, the **session with the bridge**: launcher, socket, marker and
simulators, the **workflow editor** and its exact round trip, the **staging of the
native runtimes**, and the **metadata and problems** shown in a Python document.

    cd tla
    tlc -workers 2 -config engine.cfg MCLiveSync      # a run, see PROJECT.json
    tlc -workers 2 -config bridge_session.cfg BridgeSession
    tlc -workers 2 -config workflow_editor.cfg MCWorkflowEditor
    tlapm SyncQueueProofs.tla                         # the proofs: every *Proofs.tla

## 1. Inventory

Paths are relative to `src/`; `ext` is `vscode-extension/src`.

| Component | State it keeps | Operations | What is hard | What makes it correct |
|---|---|---|---|---|
| Host sync engine (`ext/extension.js` 1310-1834, `ext/hostShortcuts.js`) | one *link* per editor in globalState (id, hash of the text, hash of the record, live, paused), `host.plist` and `compiled.plist` of the last sync, the runs by link key | `syncPythonDocumentToHost`, its first-sync, push, pull, merge, conflict and missing paths, `updateHostShortcutLink`, `removeHostShortcutLink` | about twenty awaits per run; the user types and Shortcuts saves at each; dialogs; failures half-way; snapshots and link are three writes | a run decides on the stored baseline; only a side that did not move is overwritten; "in sync" joins equal programs; a run never overlaps another of its link |
| Live Sync (`extension.js` 1816-1951, 2904-2949) | `liveSyncPollRunning`, `live`/`paused` of the link | a poll every 3 s, the save listener, the toggle, pauses for conflicts, missing records, disconnection | the flag must clear whatever fails; polls and saves join runs in progress; pauses wait in the update chain | it keeps converging; a disconnection pauses, a connection resumes; nothing but the user's word resolves a conflict |
| Plist merge (`vscode-extension/scripts/merge-workflow-plists.py`) | none | three-way merge of property lists | lists of dictionaries with UUIDs | the local change, and only it, is applied to the host's version |
| Bridge connection (`extension.js` 303-460, `ext/bridge.js`, `ext/connectionState.js`) | `bridgeConnectionState`, the active session, the marker file, the socket | passive probe, connect, disconnect, orphan cleanup | probe, connect and disconnect overlap; a marker that belongs to another bridge; a status that answers for another simulator | what is shut down or removed belongs to the validated session; the state shown is the state of the bridge |
| Bridge launcher (`bridge/tools/launch_shortcuts_sim_bridge.sh`) | marker, socket, simulator device, DYLD variables | boot, inject, wait for readiness, activate the ToolKit database, write the marker | every step can fail; the marker is removed first and written last; whoever answers the socket is taken for the bridge just launched | no failed launch leaves state the next one trusts; a marker that validates is true |
| Runtime staging (`ext/bridge.js` 104-142, 497-634, `ext/hostShortcuts.js` 37-171) | a copy of the packaged sources in the extension's storage, its marker file, the binaries make leaves there | compare signatures, remove, copy, mark, build | every window shares the directory and nothing locks it; what exists is not built again; a step fails, a window goes, a package is replaced | a copy that passes for current is complete, and its binary was built from it |
| Simulator bridge server (`bridge/src/ShortcutsIDESimBridge.c`) | the listening socket, the last result, captured toolbox | read a command, dispatch, answer; one client at a time | fixed buffers, a client that dies half-way, a socket path in use | a command is answered by its own result or refused |
| ToolKit activation (`bridge/tools/toolkitctl.py`, `ext/toolkitState.js`) | active database, its backup, the priming record; the activation recorded per simulator in globalState | snapshot, overlay, activate, prime, restore; record an activation | a crash between backup, replacement and priming; an activation recorded before what it calls for is done | the database can always be restored; one name per tool; a recorded activation is acted on |
| bridgectl command line (`bridge/tools/bridgectl.py`) | none across calls | commands over the socket, import and export, signing, inline catalog | socket candidates, time limits | the right socket; exact round trips |
| Workflow custom editor (`extension.js` 560-1275, 1969-2030, 2541-2800, `ext/workflowRoundTrip.js`, `ext/workflowEditorView.js`) | a session per workflow and document with the *baseline*: a text and the bytes it stands for; the Python document; per panel the import in progress | import, reload, validate, export, save elsewhere, with the exact original where the text is the one imported | the import and the buttons of a closed panel go on; all share one document and one session; the file is changed from outside; sessions change the link key of a document | kept bytes are of their text; an unedited document is written back byte for byte; a rejected conversion leaves the text |
| Tool metadata and diagnostics (`ext/toolrenderer.js`, `ext/shortpyDiagnostics.js`, `ext/diagnostics.js`, `ext/editorInsertion.js`) | the index of tools and its cache file, a debounce timer per document, the problems shown | fetch, cache and index the tools; scan; compile to validate; completion, hover | a refresh overlaps another, or fails after its cause was recorded; a late answer for an older text; a pull under a running timer | problems belong to the text shown and the index in use, the index to the ToolKit activated |
| Owned IR compiler adapter (`bridge/src/shortpy/shortpy_ir_adapter.c`, `bridge/src/*.swift`, `*.m`, `*.S`) | none across calls | Python tree to workflow actions, runtime conversions | private frameworks | what it compiles decompiles to itself |
| Headless Shortcuts helper (`vscode-extension/bundled/headless-shortcuts`) | the host's Shortcuts database | create, edit, export | the helper may be killed after it has written | the record written is the record named |
| Packaging and scripts | none | build, install, stage | | |

How they interact: the extension runs `bridgectl.py` and the launcher as child
processes; `bridgectl.py` speaks to the bridge over a Unix socket; the extension
runs the host helper, which writes the Shortcuts database, which the Shortcuts
app writes too; the marker file is written by the launcher and read by the
extension; links live in VS Code's globalState, shared by every window; snapshots
are files beside it.  Inside the extension everything is one thread with awaits,
two explicit promise chains (runs by link key, link updates) and a few flags.

The hazards of this code, each with its line and the properties that watch it,
are the `hazards` of `PROJECT.json`.

## 2. Modules

| Module | Models | Notes |
|---|---|---|
| `HostSync` | `performPythonDocumentHostSync` and what it calls | one action per await; the whole code between two awaits is one action |
| `LiveSync` | everything around it: poll, save, toggle, commands, typing, edits in Shortcuts, bridge connection, reload; the specification and its properties | EXTENDS `HostSync` |
| `TwoWaySync` | the abstract promise: two sides and a base, six moves | `LiveSync` implements it (`SyncsBothWays`) |
| `SyncQueue` | the promise chain by link key | `HostSync` relies on what it shows |
| `SerialExec` | the abstract promise of the chain: per key, the oldest pending job runs, and only one; when it ends is its own affair | `SyncQueue` implements it (`ExecutesSerially`) |
| `PlistMerge` | `merge-workflow-plists.py` and the push and pull around it, on nested records | `HostSync` takes what it shows for granted |
| `BridgeSession` | connect, disconnect and loading a ToolKit; the launcher; the socket the server binds; simulators and their processes | stands alone: what several windows share |
| `WorkflowEditor` | the custom editor of one workflow: panels, imports, handlers, the session and its baseline | stands alone; the link key it changes is in `SyncQueue` |
| `RuntimeStaging` | preparing the bridge's or the helper's runtime: compare, remove, copy, mark, make | what `BridgeSession` takes as "the launcher runs" |
| `ToolAssist` | the recorded ToolKit, cache, index and refreshes; the static problems and the compiler's verdict of one document | two halves that meet in the static problems |
| `SyncQueueProofs`, `LiveSyncProofs`, `PlistMergeProofs`, `BridgeSessionProofs`, `WorkflowEditorProofs`, `RuntimeStagingProofs`, `ToolAssistProofs` | theorems and proofs of the module they EXTEND | section 4 |
| `QuietSyncProofs` | theorems about `LiveSync` while nobody interferes with a run, and its refinement of `TwoWaySync` | EXTENDS `LiveSyncProofs` |
| `MCLiveSync`, `MCSyncQueue`, `MCWorkflowEditor` | values of the constants for TLC | the other modules need no more than their cfg |

### How the code maps to `HostSync` and `LiveSync`

* **A run** is `run`, a record with the pc of the await it is suspended at and the
  locals it holds there (`link`, `host`, `source`, `compiled`, `out`, `id`).  The
  link is read once, when the bridge has answered (1494-1496), and used to the end,
  as in the code.  `callers` are those who await it: a poll and a save *join* a run
  (coalesce), the Sync command waits behind it (`pending`).
* **Link updates** (`updateHostShortcutLink`, `updateAllHostShortcutLinks`) are
  closures evaluated when their turn in the promise chain comes: `storeQ` holds them,
  `Updated` is what each does *to the link it then finds*, with `currentLink || link`
  as `CurrentLink`.  Who awaits the update goes on in the same step.
* **The bridge** answers or not (`up`); `kind` is what the extension believes.
  `bridgeOp` is the command in progress.
* **Plists** have two parts, one Shortpy expresses (`prog`) and one it does not
  (`meta`: icons, trigger UUIDs).  `Merge` is `apply_local_delta` on such a plist.
  Hashes are the values hashed.
* **The compiler** is a constant `Compile`, partial (`None`: not a valid program);
  `Decompile` inverts it.  Several texts may have one program.
* **The helper** may do its work and its answer be lost (`WriteHost`'s second
  alternative): a timeout kills the child process.
* **A reload** drops memory and keeps globalState, snapshots, records and text.

**`SyncQueue`** has the same runs as entries of the chain: a run waits for its `prior`,
reads its link key, and settles; one the user asked for may open a dialog on the way
(a name, 1503; a missing record, 1638; a conflict, 1700), which has no time limit.

Left out of `HostSync` and `LiveSync`: shortcut names and renames (a record renamed on the host
only adds a link write, which `ExportHost` therefore always allows), notifications,
several documents and windows, closing a document, the exported file's path.

### How the code maps to `PlistMerge`

A record is a dictionary with a list of items and an icon; an item has an identity or
none (`Sorts`), a parameter Shortpy expresses, an identifier if it is a trigger, and a
value only Shortcuts knows.  `ApplyLocalDelta` is `apply_local_delta` but for its
recursive calls: what they return is given to it by the operator of each level of a
record (`MergeRecords`, `MergeLists`, `MergeItems`, and `MergeValues` for what is neither
dictionary nor list).  `MergeableObjectLists` is its test for merging a list item by
item, `MergePlists` the script's `main` with the keys `pushLocal` passes.  `Compiled`
draws fresh values for what a compilation makes up.  `HostSync` uses a two-part `Merge`;
`PushShowsEditor` is what justifies it: after a push onto a program Shortcuts did not
change, the record's program is the editor's, whatever the lists look like.

### How the code maps to `BridgeSession`

An operation is one command in progress, in whatever window; its pc is the await of
`connectBridge`/`disconnectBridge`, or the command of the launcher, it stands before.
`app` is the injected Shortcuts of each simulator (its pid), `bound` the processes
whose server has bound the socket, `path` the process the one socket path leads to,
`marker` the session file.  The launcher's way to one simulator is as many steps as it
has commands: a list of the booted ones picks the best (`Pick`), a second list tells
whether it still is booted (`Recheck`: if not, it is booted cold, best or not), a third
the others (`ListOthers`), which are shut down one after the other (`ShutDownOther`).
What fails there is ignored, and the launcher goes on with what it has
(`SimctlIgnored`; `|| true` at 98, 100 and 148).  `Clear` is its `rm -f`, `WriteMarker` pairs the
simulator picked with the pid that answered, as the script does.  Other failures:
`LaunchFails` (any `exit` of the launcher, or its time limit), `StatusTimesOut` (the
server serves one client at a time), `SimctlFails` (of a Disconnect; a shutdown may have
happened), `Crash`.  `alone` is a history variable: no other command overlapped, nobody
touched a simulator, no failure ended it or left other simulators up.  `astray` is another: a launcher may not have had one
simulator to itself (section 3).  Devices are numbers in the launcher's order of
preference.  Left out: `SIMULATOR_UDID` and `SIM_RUNTIME_BUILD`, the second socket
candidate under TMPDIR, pids used again, what a killed launcher's own children still do.

### How the code maps to `WorkflowEditor`

A panel is one opening of the editor; `imp[p]` is the import its `importPromise` stands
for, with the pc of the await it is suspended at and the bytes and text it holds; a
click makes a `job`, which first awaits the import (2614-2621) and then goes on to
validate, build, save, open or import.  `file` and `out` are bytes, reduced to the
program they contain and their kind (signed shortcut or property list).  `session` is
the workflow session with its baseline (`rememberWorkflowBaseline`).  `IsExact` is
`exactWorkflowRoundTripBytes`: the text is the baseline's, and the target has the kind
of the bytes.  `Compile` and `Convert` are partial: a conversion may give a text the
compiler rejects (350-360 of `bridge.js`).  Faults are failing commands, changes of the
file by other programs, and reloads.  Left out: the iCloud link files (974-992), the
webview's rendering and its search, several workflows.

### How the code maps to `RuntimeStaging`

`disk` says of each part of the copy which package it is from: the entries, the marker
file and the binary.  A handler is one call of `ensureBridgeLaunched` or
`ensureHeadlessRuntime` (`kind` tells them apart: their entries, and that the bridge is
current only with its command line).  `rm -rf` is two steps, since another call can
write into the directory while it runs (`RemoveSome`, `RemoveRest`, `RemoveDisturbed`:
ENOTEMPTY).  A make that loses its window goes on as an *orphan*.  `Fault` is the
failure of any step or the end of a window; `Reinstall` a new package under the same
path.  Assumed: packages that differ have different signatures.  `README` and
`LICENSE` entries are left out, they are not built from.

### How the code maps to `ToolAssist`

`session` is the simulator the marker names and the ToolKit activated there, `recorded`
what `toolkitActivations` says: a ToolKit (its `sourceSha256`) per simulator and runtime
(`device:runtime`), which a later activation overwrites and `Changed` compares with.
`Launch` makes any simulator and any ToolKit the session's, new or activated before.
`cache` is the file `toolrenderer-interface.json`, `index` the window's
`toolRendererIndex`.  Three things
replace the index: Connect's refresh, the command's, and the priming of a new window
(`refresh`, each with its awaits: fetch, write, read and index).  `static` names the text
and the index the static problems were computed for, `verdict` the text of the
compiler's problems, `validation` the compilations under way, `timer` the debounce.
`pull` is a pull in `replacePythonDocumentSource`: it clears the timer (1412), then edits
the document, which VS Code may refuse (1421-1423), then saves it, which may fail (1424),
and only then is its verdict published (1599).
The setting `validateOnType`, off by default, is on in the model.  Left out: what a scan
finds in a text, completion and hover texts, several documents.

## 3. What the runs check

| Run | Question | Bounds |
|---|---|---|
| `engine` | whatever the user answers and changes while a run is on its way: does the run decide on the stored baseline (`DecidesOnCurrentLink`), and is a queued pause about it (`PauseIsCurrent`)? | 2 edits on either side, 1 failure or reload, one run waiting behind another, 2 programs, one record |
| `live` | does Live Sync keep converging (`LiveSyncSettles`), does a disconnection end in a pause (`DisconnectPauses`), and do toggles and connections leave the baseline of a run alone (`DecidesOnCurrentLink`)? | 1 edit, 1 failure or reload, connects and disconnects without bound |
| `quiet` | while the sides change only *between* runs: is every step one that two-way synchronisation allows (`SyncsBothWays`), and does "in sync" join equal programs (`InSyncAgrees`)? | 3 edits, 4 texts (two of one program, one no program), 2 kinds of metadata |
| `sync_queue` | is the promise chain a serial executor per key (`ExecutesSerially`, `OneRunPerKey`, `InOrder`, `Registered`), and does every run settle unless the user leaves a dialog of its key open (`EveryRunSettles`)? | 2 documents, 3 runs, each automatic or with a dialog |
| `plist_merge` | does a push make the record's program the editor's (`PushShowsEditor`), keep what only the host knows (`HostOnlyKept`), and does compiling the same text anew change nothing on the host (`RecompilationKeepsHost`)? | lists of 2 items of 3 sorts (with an action identity, a trigger identity, none), 2 parameters, 2 marks, 2 edits |
| `bridge_session` | is a session that validates true (`SessionTrue`), does Disconnect end the simulator of the bridge that answered (`OnlyOwnSimulator`) and spare living bridges (`CleanupSparesBridge`), does Connect recover from whatever was left (`ConnectRecovers`), and does every command end (`OperationsEnd`)? | 2 simulators, 2 overlapping commands, 4 launches, 2 crashes, failures (reported or ignored) or simulators handled by hand between commands |
| `workflow_editor` | are kept bytes of the program of their text (`BaselinePairs`), is an unedited document built byte for byte (`UneditedExact`), do files get bytes of their kind (`KindFits`), is a rejected conversion kept out of the document (`OnlyAcceptedText`), and does every button end (`HandlersEnd`)? | 2 openings, 1 button at a time, 3 programs (one converts to a text the compiler rejects), 1 edit, 1 failure, outside change or reload |
| `runtime_staging` | is a copy that passes for current complete (`CurrentIsComplete`) and its binary built from it (`BinaryFits`), and does every call end (`EnsureEnds`)? | 2 calls, 2 packages, 2 failures or windows that go, both runtimes |
| `tool_assist` | do static problems belong to text and index (`StaticProblemsFit`), the index to the ToolKit active in the session (`MetadataFits`), the verdict to the text (`VerdictFits`), and is what is typed validated (`TypedIsValidated`)? | 2 texts, 2 compilations at once, 2 simulators, 2 ToolKits, 3 launches, ends, edits, pulls, failures or reloads |

Two edits let both sides change, or one side twice around a run; a third lets the
sides be changed again after a merge.  One failure is enough to break a chain, and
what is interesting after it is recovery.  Two runs of one key and a third that may
have another key are what ordering needs.  Two openings of an editor are what a closed
panel whose import goes on needs; two calls and two packages let a copy be renewed
under another call; two failures let a recovery fail as well.  Where a case lies beyond
a run's bounds the theorems of section 4 reach it: they have no bounds.

**Fairness** (`Fairness` in `LiveSync`, `FairSpec` in `SyncQueue`): weak fairness of
the run's, the update chain's and the bridge command's next step, because each is a
promise whose external command has a time limit and so settles; and of the poll,
because its interval timer is never cleared while the window lives.  The user owes
nothing: a dialog may stay open for ever, and then only `AwaitsUser` is promised, in
`SyncQueue` for the runs of the dialog's key only.  `SerialExec` asks for fairness of
`Begin` alone: that a job which can begin does, not that one ends.
In `BridgeSession`, weak fairness of every command's next step (child processes have
time limits) and of a new process's server thread; users, crashes and failures owe
nothing.  In `WorkflowEditor`, of every import's and handler's next step, but for the two
that wait for the user (a dialog, a choice of file), which owe nothing; in
`RuntimeStaging`, of every call's next step (make has a time limit); in `ToolAssist`, of
the next step of every refresh, of a connection that has launched, of every pull (which may
fail) and compilation (all with time limits) and of the timer, which the event loop fires.

**`bridge_session` and what it excludes.**  `SingleSimulator` is TRUE, the default.
Without it `SessionTrue` and `OnlyOwnSimulator` fail already for one command at a time
(`SingleSimulator = FALSE`, `Operations = {1}`, `MaxLaunches = 4`): a bridge whose launch
failed before it was up answers the next launch, of another simulator; the marker
validates, and Disconnect shuts down the simulator that bridge is not in (launcher 233,
345-348; bridge.js 631-648).  Simulators are booted by hand only
between commands: with `ByHandDuring`, two connects that overlap can pick different
simulators, and the marker can again pair one with the process of the other (set it
to TRUE in `bridge_session.cfg`; one command at a time holds even then).
`CleanupSparesBridge` is promised to a Disconnect that no other command overlaps: a
Connect of another window whose server binds between a Disconnect's shutdown and its
cleanup loses its socket, because the path is removed whoever bound it (`bridge.js:415`).
`SessionTrue`, `OnlyOwnSimulator` and `CleanupSparesBridge` also exclude `astray`: that a
launcher may not have had one simulator to itself, while whoever answers will do for it
(233).  It is set in four cases, in each of which the marker can come to pair one
simulator with the process of another (drop the disjunct that sets it to see the order;
some need more launches or acts than the run's):

* a command shuts down a simulator (`Takes`) where another waits for its bridge or is about
  to write its marker: a Disconnect begun earlier shuts simulator 1 down under a launcher,
  another connect finds nothing booted and cold-boots 2, and the bridge of 2 answers the
  first launcher, which pairs simulator 1 with it;
* the list of the other simulators fails, and none of them is shut down (100);
* the shutdown of one fails, and it stays (98): the bridge inside it answers for the next;
* the simulator picked is gone by the second list and is booted cold although it is not the
  best (161, 183-190), so that another launcher, which finds nothing booted, boots the best
  beside it.

`BridgeSessionProofs` shows that in the model nothing else leads there, at any bound.
`ConnectRecovers` needs no such exclusion: a failure that is ignored has disturbed the
Connect (`alone`).  Beyond the run, the safety properties were also checked with 5
launches (2.7 million states) and with 3 simulators (1.6 million).
One act is a crash, a failure or a change by hand; two let a failed launch be followed
by another failure while its remains are still there.

**`workflow_editor`, `runtime_staging`, `tool_assist` and what they exclude.**  Each has
history variables for the orders in which the code does not keep what the property says;
drop the conjunct to see the order in TLC.

* `UneditedExact`, `crossed`: two openings import at once, so the text of one can be
  paired with the bytes of the other; a build falls between the writing of a re-imported
  text and the keeping of its bytes (1090-1095), or comes after a failure there, and then
  writes a compilation of a text nobody edited.
* `CurrentIsComplete`, `cut`: two calls stage at once and one of them is given up; the
  other's marker then stands over a copy with a part missing, and nothing repairs it.
* `BinaryFits`, `crossed`: a copy is renewed while another call is in make, whose binary
  then lands in the new copy and is not built again.
* `MetadataFits`, `missed` and `crossed`: README.md:236-237 says "Metadata refreshes
  automatically after a changed ToolKit is activated".  The index does not fit, and
  `missed` is set, where
  - the passive probe (330), another window or a launcher run by hand records an activation or
    makes it; a Connect of this window then finds it recorded and refreshes nothing.  The
    probe can also do so between a Connect's launch and its recording (385-386);
  - a Connect returns to a simulator whose recorded ToolKit is unchanged, after another ToolKit was
    activated in another simulator: records are per simulator, the index is not;
  - the refresh fails (394-398), or the window is reloaded during a Connect;
  - the refresh command renders the new ToolKit between a Connect's launch and its recording.

  `crossed`: two refreshes are in progress at once.  Either lasts until a refresh that
  nothing crosses has indexed what was recorded last.
* `VerdictFits`, `mixed`: two compilations are under way at once, and the slower, of the
  older text, replaces the problems of the younger (1289, 1299); or text is typed into
  a pull, and then has no validation timer (2936-2939).
* `VerdictFits` and `TypedIsValidated`, `dropped`: a pull has cleared the timer of what was
  typed and VS Code refuses its edit, so the text stays and nobody validates it; or the
  pull has replaced the text and the save fails, so the problems stay those of the text
  before.  Either lasts until something validates the text.

**`quiet` and what it excludes.**  With edits during a run, `SyncsBothWays` and
`InSyncAgrees` fail; the runs below show where.  Without them they hold, with two
more exclusions that `quiet` makes and a reader should know of (`QuietSyncProofs` proves
the two properties under the same conditions, without the run's bounds):

* *Use Editor Version* is not among its answers.  After a conflict, that answer
  merges the editor's change since the last sync onto the host's version
  (`extension.js:1704`, 1561-1573).  Where the editor's *program* did not change
  (only a comment did) the host's program stays, while the baseline records the two
  as synchronised.  (Add `"editor"` to `Acts` in `quiet.cfg` to see it.)
* `LegacyLink` is FALSE: a link persisted without hashes is initialised from the two
  sides as they are (1661-1673), different or not.

### Disagreements with the documentation

Each is a run that TLC finds violated, and an entry of `findings`.

| Run | What happens |
|---|---|
| `edit_recorded` | text typed while the compiler runs is recorded as synchronised, though the record got the text before it (1549, 1555): Live Sync never pushes it |
| `unseen_change` | a version Shortcuts saves after the export, or text typed during a pull, is overwritten by an automatic run (1576, 1598) |
| `failed_disconnect` | a poll during a disconnect that then fails leaves Live Sync paused for a bridge that is connected (451); without failures `ConnectedResumes` holds |

Seen while modelling and not given a run of its own:

* A toggle queued behind an Unlink stores the link again, because the update falls back
  on the link it captured (1941).
* `docs/PROOFS.md` 173-175 says a push keeps "values not represented by Shortpy": where
  items were added, removed or reordered the lists cannot be matched, the compiler's
  list replaces the host's whole, and such values inside its items are lost
  (`HostOnlyKept` is stated for lists that match).
* Opening a workflow's editor changes the link key of its Python document: a run queued
  under the old key and one under the new key then work on the same document, and the same
  link, at once (1495, 1738), although README.md 256 says "Host operations are serialized per
  document".  `OneRunPerDocument` in `SyncQueue` states that sentence; add it to
  `sync_queue.cfg` to see the order.  What holds is `OneRunPerKey`.
* The metadata does not always refresh after a changed ToolKit is activated (README.md
  236-237): the passive probe takes note of an activation without a refresh, and a return
  to a simulator with an unchanged record calls for none.  See `MetadataFits` above.
* A pull that VS Code refuses has already cleared the timer of the text typed before it, which
  is then not validated (1412, 1421); one whose save fails leaves the problems of the text
  it replaced (1424, 1599).
* After a shutdown that failed and was ignored, or a cold boot of a simulator that is not the
  best, the marker can name a simulator the bridge is not in, and Disconnect shuts down
  that one, although vscode-extension/README.md 61-62 says "the exact simulator".
* The launcher takes whoever answers the socket for the bridge it launched (233); the
  pid it gets from `simctl launch` is not compared.  See `bridge_session` above.
* In the workflow editor, the Import button of an editor whose Python file was never
  written fails on opening that file (2757-2758), so that "Connect ... then retry
  import" (2583) cannot succeed with it; opening the panel again or reloading the window
  imports again without asking (2798) and replaces what was typed; an exact build
  overwrites a file that was changed on disk since the import (2682); a file that is no
  workflow marks a connected bridge disconnected (2593-2599).
* Staging a runtime anew removes the directory the session marker of a living bridge is
  in (`rm -rf` of the copy, bridge.js 500), so that bridge cannot
  be disconnected until a Connect has launched it anew.
* `ensureToolRendererMetadata` asks for `byName.size > 0`, which the built-in helpers
  make always true; its load of the cache and its error (904) are never reached.

## 4. What is proved

Each proof module states an inductive invariant `IInv` (each first checked by TLC),
shows that `Init` implies it and every action keeps it (`Invariance`), and derives the
properties.

`SyncQueueProofs`, for any documents, keys and number of requests: `RunsSerialized`
(at most one run of a key in execution), `RunsInOrder`, `RunsRegistered`.  The
inductive invariant adds `Linked`: a run's `prior` is the youngest earlier run of its
key that may be unsettled, and the map holds the youngest run of each key; without it
"settled before" could not be carried from a run to the one behind it.
`ImplementsSerialExec` is the refinement: jobs are the runs asked for, pending the
unsettled runs of a key, active those in execution; a start takes the oldest pending
job because whatever came before it under its key has settled (`InOrder`).

`LiveSyncProofs`, for any texts, programs, records, compilers, bounds and answers:
`TypeCorrect`, `DecisionsAreCurrent`, `PausesAreCurrent`.  A run keeps the link it
read through many awaits, and other actors keep updating the link; the argument is
that only updates of kind *baseline* and *remove* change what a decision rests on,
that only the run in progress asks for these and waits for them (`Fits`,
`UpdateShape`), that there is at most one of them in the chain, and that no pause is
behind it (`RunLast`): when one is applied the run that decides by the old baseline is
the one that ends, and no pause that concerned the old baseline is left.

`QuietSyncProofs`, under two hypotheses on the constants that `quiet.cfg` satisfies and
any values besides: `Quiet` (nobody writes during a run, nothing fails, no link without
hashes, no *Use Editor Version*) and, for the refinement, `NeverBoth` (not both switching
Live Sync and unlinking).  `InSyncTells` proves `InSyncAgrees`: hashing the sides apart
never calls sides synchronised that differ.  `ImplementsTwoWaySync` proves
`SyncsBothWays`, the refinement of `TwoWaySync`, step by step.  The invariant follows a
run: at each await it still holds what it compared (`Exported`, `Creates`), what it
compiled, merged and wrote is of the editor's text (`Compiles`), and `compiled.plist` is
what the baseline's text compiles to, also for a link that a waiting switch may put back
(`Snapped`); so the baseline that is stored is of one program (`Good`).  In the refinement
the base moves with the side that is written, at the write or at the replacement of the
text, and the link follows at the end of the run.  `NeverBoth` is needed: a switch queued
behind an Unlink puts the removed link back (1941), which no move of `TwoWaySync` is; with
`"toggle"` added to `Acts` in `quiet.cfg` TLC shows it.  `AInv` says that otherwise no
update in the chain restores a link.

`PlistMergeProofs`, for workflows of any length and any sorts, parameters, identifiers and
icons: `PushesShowEditor`, `PushesKeepHostOnly`, `RecompilationsKeepHost`.  The argument
goes up the levels of a record.  Two items of one sort merge into the host's with the
parameter merged (`ItemMerged`); lists merge item by item, or stay, or are replaced
(`ListMerged`); records merge their lists and keep the host's icon (`RecordMerged`).  Lists
are mergeable exactly if the programs correspond (`MergeableIs`), which makes `Pushed` say
what a push does in each of the three cases.  `Typed` is the inductive invariant: the base
is a compilation, the record a list of items Shortcuts may save.

`BridgeSessionProofs`, for any simulators, any finite number of overlapping commands and
any number of launches, crashes and failures: `TypeCorrect`, and, with one simulator at a
time and none handled by hand during a command, `SessionsAreTrue` and
`DisconnectSparesOthers`.  The marker pairs the simulator picked with whoever answers.
They belong together because the launcher has shut down all others: while it waits its
simulator is the only one booted (`Placed`), and stays so, since a command boots none but the
best, which is everybody's choice, and only after it has shut down the others.  Where it
does otherwise it is `astray`, and nothing is claimed.  Pids
only grow, so what fitted once never comes to fit another simulator (`Fits`).
`Budget` bounds the launches still to come, for `TypeOK` only.  The attempt to prove
`SessionTrue` without `~astray` is how the shutdown under another command was found.

Its second part adds `RInv`, an invariant of what is running, for `ConnectionsRecover`
(with one simulator at a time; crashes and simulators handled by hand are allowed) and
`CleanupsSpareBridges` (with none handled by hand during a command).  A Connect that no
other command overlaps has ended every other process before it launches, so the socket
can only lead to its own (`Has`).  A Disconnect shuts down the simulator of the marker;
that it leaves no other bridge behind is because the marker names the simulator of every
process there is (`Marked`).  What keeps that true is whoever is about to launch: it
launches in the marker's simulator (`Aims`), because it has shut down the others.

`WorkflowEditorProofs`, for any texts, programs, conversions, panels and handlers and any
number of edits and faults: `TypeCorrect`, `BytesFitText`, `UneditedIsExact`, `KindsFit`,
`TextIsAccepted`.  What an import or a handler carries from await to await belongs
together (`ImportFits`, `JobFits`), whatever happens to the document meanwhile; without
edits and crossings the document holds the baseline's text, or that of the one import
about to replace it (`Unedited`).  The import that fails after its text was written was
found by this proof.

`RuntimeStagingProofs`, for any calls, packages and faults: `TypeCorrect`,
`CurrentCopiesAreComplete`, `BinariesFit`.  Per entry of the copy: it is of the package
installed, or a call is still going to copy it, or neither the marker nor a call beyond
it stands for that package (`Accounted`).

`ToolAssistProofs`, for any texts, compilations, simulators, ToolKits and events:
`TypeCorrect`, `StaticProblemsAreCurrent`, `VerdictsFit`, `MetadataIsCurrent`.  The actions
of the metadata and those of the document leave each other's variables alone, so each half
has an invariant of its own.  `Vouched`: what the index was or will be made from is the
ToolKit recorded last (`Rendered`), and that is the session's unless Connect is about to
record another (`Settled`).  `Checked`: the verdict that comes next is of the text, or a
timer will see to it, or the pull that holds the document will.

Assumptions, all evaluated by TLC in the runs: of `HostSync`, `CompileAssumption`,
`ValuesAssumption`, `NoneAssumption`, `NoLinkAssumption`; of `SyncQueue`,
`KeysAssumption`; of `LiveSync`, `NoBaseAssumption` (`None` is no pair of texts and
plists); of `PlistMerge`, `BoundsAssumption`; of `BridgeSession`, `DevicesAssumption` (numbers of which every
nonempty set has a greatest, as any finite set has), `OperationsAssumption` (finitely
many commands), `BoundsAssumption`, `NoneAssumption`; of `WorkflowEditor`,
`ConversionAssumption` (a conversion that compiles compiles to what was converted),
`ValuesAssumption`, `NoBaselineAssumption`; of `RuntimeStaging` and `ToolAssist`
(`BoundsAssumption`, `TextsAssumption`, `KitsAssumption`), that bounds are numbers, `None`
none of the values, and that there is a text.

Only model-checked: what needs fairness, which is out of the prover's reach.  These are
`LiveSyncSettles`, `DisconnectPauses`, `EveryRunSettles`, `OperationsEnd`, `HandlersEnd`,
`EnsureEnds`, `TypedIsValidated`, and the fairness in `ExecutesSerially` (its safety part
is `ImplementsSerialExec`).  Every other property of a passing run is a theorem; where one
has hypotheses on the constants (`Quiet`, `NeverBoth`, `SingleSimulator`,
`~ByHandDuring`), the run's configuration satisfies them.

## 5. Plan

Done: the modules, runs and theorems above.  Left, in this order:

1. the composition of `BridgeSession` with the connection state of the extension: a
   passive probe that answers after a younger command has set the state;
2. `LivePoll` and `LinkStore`: several documents under one poll loop, two windows over
   one globalState, once it is known how VS Code merges what two windows store;
3. `ToolkitActivation`: backup, replacement, priming and restore with a crash between any
   two steps.

## 6. Not modelled

* **Owned IR compiler adapter**: calls into Apple's private frameworks; a constant here
  (`Compile`, `Convert`).
* **ToolKit databases** (`toolkitctl.py`): what a later activation finds depends on the
  tables of SQLite databases it opens, restores and overlays, and on the Shortcuts process
  that uses them; `ToolAssist` models what the extension records of it.
* **The bridge server's read loop**: one thread over fixed buffers, one client at a
  time; sequential, with limits that cut what is too long (828).
* **`bridgectl.py`**: one process per command without state across calls; the models
  take it to answer, to fail or to run into its time limit.
* **Text**: scanning Python for problems, completion, hovers, rendering, the webview's
  markup and search, wording.  Scanning is pure functions over strings, without order
  or state.
* **iCloud links** as workflow files, several workflows at once, closing a document,
  shortcut names and renames.
* **Build, packaging and installation scripts**, the command registry and the tests.

`PROJECT.json` lists every component with its status.
