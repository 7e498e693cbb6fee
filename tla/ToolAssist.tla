----------------------------- MODULE ToolAssist -----------------------------
(***************************************************************************)
(* What one window knows of the ToolKit, and the problems it shows for one *)
(* Python document (extension.js 256-305, 312-395, 798-913, 1161-1308,     *)
(* 2931-2953; toolkitState.js; toolrenderer.js 437-667).                   *)
(*                                                                         *)
(* The ToolKit a launch activates in a simulator is recorded per simulator *)
(* in the extension's global state and rendered into one cache file; both  *)
(* outlive the window and are shared with others.  The window's index is   *)
(* made from either and decides the static problems.  The compiler's       *)
(* verdict arrives later, for the text that was sent.                      *)
(***************************************************************************)
EXTENDS Naturals

CONSTANTS
  Texts, Validations,  \* texts of the document; compilations in progress
  Devices, Kits,       \* device:runtime of a simulator; sourceSha256 of a ToolKit
  None,
  MaxEvents   \* bound: what users and other programs begin, failures and reloads, in all

ASSUME BoundsAssumption == MaxEvents \in Nat
ASSUME TextsAssumption == Texts # {} /\ None \notin Texts
ASSUME KitsAssumption == None \notin Devices \cup Kits

VARIABLES
  session,   \* the session marker: simulator of the bridge and ToolKit activated in it
  recorded,  \* toolkitActivations: [Devices -> ToolKit or None]
  cache,     \* toolrenderer-interface.json; None: no file
  index,     \* toolRendererIndex; None: the built-in helpers only
  connect,   \* connectBridge
  probed,    \* probeBridgeStatusPassive of this window has ended
  refresh,   \* what replaces the index: connectBridge's refresh, the command's, the cache
  text, static, verdict,  \* the document; the text and index its static problems are
                          \* of; the text the compiler's problems are of
  timer,     \* validateTimers has a timer for the document
  pull,      \* replacePythonDocumentSource, until pullHost publishes the verdict
  validation,
  latest,    \* history: the simulator whose activation was recorded last
  missed,    \* history: the refresh an activation calls for was not made, or another
             \* rendered the ToolKit before it was recorded
  crossed,   \* history: two refreshes were in progress at once
  mixed,     \* history: two verdicts were in the making at once, or text was typed
             \* into a pull
  dropped,   \* history: a pull cleared the timer of the text, or failed on its own text
  events

metadata == <<session, recorded, cache, connect, probed, refresh, latest, missed, crossed>>
checking == <<verdict, timer, pull, validation, mixed, dropped>>
vars == <<metadata, index, text, static, checking, events>>

NoSession == [device |-> None, kit |-> None]
Session == {NoSession} \cup [device : Devices, kit : Kits \cup {None}]
Refreshes == {"connect", "command", "prime"}
NoRefresh == [pc |-> "idle", kit |-> None]
Refresh == [pc : {"idle", "fetch"}, kit : {None}] \cup [pc : {"write", "index"}, kit : Kits]
NoConnect == [pc |-> "idle", session |-> NoSession]
Connect == [pc : {"idle", "refresh"}, session : {NoSession}] \cup [pc : {"record"}, session : Session]
NoPull == [pc |-> "idle", text |-> None]
Pull == {NoPull} \cup [pc : {"edit", "save"}, text : Texts]

TypeOK ==
  /\ session \in Session /\ recorded \in [Devices -> Kits \cup {None}]
  /\ {cache, index} \subseteq Kits \cup {None}
  /\ connect \in Connect /\ probed \in BOOLEAN
  /\ refresh \in [Refreshes -> Refresh]
  /\ text \in Texts /\ static \in [text : Texts, index : Kits \cup {None}]
  /\ verdict \in Texts \cup {None} /\ timer \in BOOLEAN /\ pull \in Pull
  /\ validation \in [Validations -> Texts \cup {None}]
  /\ latest \in Devices \cup {None}
  /\ {missed, crossed, mixed, dropped} \subseteq BOOLEAN
  /\ events \in 0..MaxEvents

\* setShortpyDiagnostics: the problems the index finds in the text.
Problems(t, i) == [text |-> t, index |-> i]

\* activate: primeToolRendererMetadata and probeBridgeStatusPassive are under way.
Priming == [[s \in Refreshes |-> NoRefresh] EXCEPT !["prime"].pc = "fetch"]

Init ==
  /\ session = NoSession /\ recorded = [d \in Devices |-> None]
  /\ cache = None /\ index = None
  /\ connect = NoConnect /\ probed = FALSE /\ refresh = Priming
  /\ text = (CHOOSE t \in Texts : TRUE) /\ static = Problems(text, None) /\ verdict = None
  /\ timer = FALSE /\ pull = NoPull /\ validation = [v \in Validations |-> None]
  /\ latest = None /\ missed = FALSE /\ crossed = FALSE /\ mixed = FALSE /\ dropped = FALSE
  /\ events = 0

\* Something happens that does not go on for ever.
Happens == events < MaxEvents /\ events' = events + 1

-----------------------------------------------------------------------------
(* Activation *)

Refreshing == {s \in Refreshes : refresh[s].pc # "idle"}

Starts(s) ==
  /\ refresh[s].pc = "idle"
  /\ refresh' = [refresh EXCEPT ![s].pc = "fetch"]
  /\ crossed' = (crossed \/ Refreshing # {})

\* ensureBridgeLaunched within connectBridge: the marker now names a simulator and
\* the ToolKit it was given, be it a new one, one activated before, or none (the
\* default one, if it cannot be activated).
Launch ==
  /\ connect.pc = "idle" /\ Happens
  /\ session' \in Session \ {NoSession}
  /\ connect' = [pc |-> "record", session |-> session']
  /\ UNCHANGED <<recorded, cache, probed, refresh, latest, missed, crossed, index, text,
                 static, checking>>

\* A Disconnect, a crash, or a launch that fails.
BridgeEnds ==
  /\ session # NoSession /\ session' = NoSession /\ Happens
  /\ UNCHANGED <<recorded, cache, connect, probed, refresh, latest, missed, crossed, index,
                 text, static, checking>>

\* recordToolkitActivation, and whether it finds the simulator's activation changed.
Recorded(s) ==
  IF s.kit = None THEN UNCHANGED <<recorded, latest>>
  ELSE recorded' = [recorded EXCEPT ![s.device] = s.kit] /\ latest' = s.device

Changed(s) == s.kit # None /\ recorded[s.device] # s.kit

\* The activation recorded last was of another simulator.
Returned(s) == s.kit # None /\ latest # s.device

\* Mutant: the activation is recorded and found unchanged, as if it was the last one.
RecordOnly ==
  /\ connect.pc = "record"
  /\ Recorded(connect.session)
  /\ connect' = NoConnect
  /\ UNCHANGED <<session, cache, probed, refresh, missed, crossed, index, text, static,
                 checking, events>>

\* recordActiveToolkitSession, and the refresh if the simulator's ToolKit has changed.
Record ==
  /\ connect.pc = "record"
  /\ Recorded(connect.session)
  /\ IF Changed(connect.session)
     THEN /\ Starts("connect") /\ connect' = [NoConnect EXCEPT !.pc = "refresh"]
          /\ UNCHANGED missed
     ELSE /\ connect' = NoConnect /\ missed' = (missed \/ Returned(connect.session))
          /\ UNCHANGED <<refresh, crossed>>
  /\ UNCHANGED <<session, cache, probed, index, text, static, checking, events>>

\* probeBridgeStatusPassive records what it finds, and refreshes nothing.
Probe ==
  /\ ~probed /\ probed' = TRUE
  /\ \/ /\ Recorded(session)
        /\ missed' = (missed \/ Changed(session) \/ Returned(session))
     \/ UNCHANGED <<recorded, latest, missed>>
  /\ UNCHANGED <<session, cache, connect, refresh, crossed, index, text, static, checking,
                 events>>

\* The launcher is run in a terminal, or by another window, which records the
\* activation and renders it: this one is not told.
LaunchElsewhere ==
  /\ Happens
  /\ session' \in Session \ {NoSession}
  /\ \/ session'.kit # None /\ Recorded(session') /\ cache' = session'.kit
     \/ UNCHANGED <<recorded, latest, cache>>
  /\ missed' = TRUE
  /\ UNCHANGED <<connect, probed, refresh, crossed, index, text, static, checking>>

-----------------------------------------------------------------------------
(* refreshNativeToolRendererInterface and loadCachedToolRendererMetadata *)

RefreshCommand ==
  /\ Starts("command") /\ Happens
  /\ UNCHANGED <<session, recorded, cache, connect, probed, latest, missed, index, text,
                 static, checking>>

\* The simulator renders the metadata of its ToolKit (some other, if the launch
\* activated none); type references are complete.
Fetch(s) ==
  /\ refresh[s].pc = "fetch" /\ s # "prime" /\ session # NoSession
  /\ \E kit \in Kits :
       /\ session.kit \in {None, kit}
       /\ refresh' = [refresh EXCEPT ![s] = [pc |-> "write", kit |-> kit]]
       /\ missed' = (missed \/ latest # session.device \/ recorded[latest] # kit)
  /\ UNCHANGED <<session, recorded, cache, connect, probed, latest, crossed, index, text,
                 static, checking, events>>

WriteCache(s) ==
  /\ refresh[s].pc = "write"
  /\ cache' = refresh[s].kit
  /\ refresh' = [refresh EXCEPT ![s].pc = "index"]
  /\ UNCHANGED <<session, recorded, connect, probed, latest, missed, crossed, index, text,
                 static, checking, events>>

\* Mutant: a file that is not there is taken for an empty one.
ReadCacheAnyway ==
  /\ refresh["prime"].pc = "fetch"
  /\ refresh' = [refresh EXCEPT !["prime"] = [pc |-> "index", kit |-> cache]]
  /\ UNCHANGED <<session, recorded, cache, connect, probed, latest, missed, crossed, index,
                 text, static, checking, events>>

\* primeToolRendererMetadata: without a file, or with one it cannot read, it keeps the index.
ReadCache ==
  /\ refresh["prime"].pc = "fetch"
  /\ refresh' = [refresh EXCEPT !["prime"] =
       IF cache = None THEN NoRefresh ELSE [pc |-> "index", kit |-> cache]]
  /\ UNCHANGED <<session, recorded, cache, connect, probed, latest, missed, crossed, index,
                 text, static, checking, events>>

\* The refresh s is over; connectBridge goes on after its own.
Ends(s) ==
  /\ refresh' = [refresh EXCEPT ![s] = NoRefresh]
  /\ connect' = IF s = "connect" THEN NoConnect ELSE connect

\* What is rendered is what was recorded last and is active, and nothing crosses it.
UpToDate(s) ==
  /\ Refreshing = {s} /\ latest # None
  /\ {refresh[s].kit, cache} = {recorded[latest]}
  /\ session.kit # None => session = [device |-> latest, kit |-> recorded[latest]]

\* Mutant: problems stay until their document is typed in again.
SetIndexOnly(s) ==
  /\ refresh[s].pc = "index"
  /\ index' = refresh[s].kit
  /\ missed' = (missed /\ ~UpToDate(s)) /\ crossed' = (crossed /\ ~UpToDate(s))
  /\ Ends(s)
  /\ UNCHANGED <<session, recorded, cache, probed, latest, text, static, checking, events>>

\* indexToolRendererMetadata, and refreshShortpyDiagnosticsForOpenDocuments.
SetIndex(s) ==
  /\ refresh[s].pc = "index"
  /\ index' = refresh[s].kit
  /\ static' = Problems(text, index')
  /\ missed' = (missed /\ ~UpToDate(s)) /\ crossed' = (crossed /\ ~UpToDate(s))
  /\ Ends(s)
  /\ UNCHANGED <<session, recorded, cache, probed, latest, text, checking, events>>

\* The command line fails, or renders references to types it does not define, or the
\* file is not written or not read; without a simulator there is nothing to ask.
\* A failure within connectBridge is logged only.
RefreshFails(s) ==
  /\ \/ Happens
     \/ /\ refresh[s].pc = "fetch" /\ s # "prime" /\ session = NoSession
        /\ UNCHANGED events
  /\ refresh[s].pc # "idle"
  /\ Ends(s)
  /\ missed' = (missed \/ s # "command")
  /\ UNCHANGED <<session, recorded, cache, probed, latest, crossed, index, text, static,
                 checking>>

-----------------------------------------------------------------------------
(* One document and its problems *)

Validating == {v \in Validations : validation[v] # None}

\* compilePythonDocument of the text as it is.
Sends(v) ==
  /\ validation[v] = None
  /\ validation' = [validation EXCEPT ![v] = text]
  /\ mixed' = (Validating # {} \/ pull.pc = "save") /\ dropped' = FALSE

\* Mutant: while the compiler is busy with the document, no timer is set.
TypeUnlessBusy ==
  /\ Happens
  /\ text' \in Texts \ {text}
  /\ static' = Problems(text', index)
  /\ timer' = (pull = NoPull /\ Validating = {})
  /\ mixed' = (mixed \/ pull # NoPull)
  /\ UNCHANGED <<metadata, index, verdict, pull, validation, dropped>>

\* onDidChangeTextDocument, with validateOnType: whatever timer there was is
\* replaced, and while a pull holds the document it is only cleared.
Type ==
  /\ Happens
  /\ text' \in Texts \ {text}
  /\ static' = Problems(text', index)
  /\ timer' = (pull = NoPull)
  /\ mixed' = (mixed \/ pull # NoPull)
  /\ UNCHANGED <<metadata, index, verdict, pull, validation, dropped>>

\* The timer is due, and the text is the one of now.
TimerFires(v) ==
  /\ timer /\ timer' = FALSE
  /\ Sends(v)
  /\ UNCHANGED <<metadata, index, text, static, verdict, pull, events>>

\* Validation by a command, or on save.
Validate(v) ==
  /\ Sends(v) /\ Happens
  /\ UNCHANGED <<metadata, index, text, static, verdict, timer, pull>>

\* setSuccessDiagnostics or setCompilerDiagnostic, whatever the document now holds.
Answer(v) ==
  /\ validation[v] # None
  /\ verdict' = validation[v]
  /\ validation' = [validation EXCEPT ![v] = None]
  /\ UNCHANGED <<metadata, index, text, static, timer, pull, mixed, dropped, events>>

\* replacePythonDocumentSource clears the timer before it knows of the edit.
PullBegins ==
  /\ pull = NoPull /\ Happens
  /\ \E t \in Texts : pull' = [pc |-> "edit", text |-> t]
  /\ timer' = FALSE /\ dropped' = (dropped \/ timer)
  /\ UNCHANGED <<metadata, index, text, static, verdict, validation, mixed>>

\* applyEdit succeeds: the change event finds a pull, and sets no timer.
PullReplaces ==
  /\ pull.pc = "edit"
  /\ text' = pull.text /\ static' = Problems(text', index)
  /\ pull' = [pull EXCEPT !.pc = "save"] /\ timer' = FALSE
  /\ mixed' = (Validating # {}) /\ dropped' = FALSE
  /\ UNCHANGED <<metadata, index, verdict, validation, events>>

\* VS Code refuses the edit: the text stays, and what was cleared stays cleared.
PullRefused ==
  /\ pull.pc = "edit" /\ pull' = NoPull
  /\ UNCHANGED <<metadata, index, text, static, verdict, timer, validation, mixed, dropped,
                 events>>

\* document.save throws: the text is replaced, and its verdict is not published.
PullSaveFails ==
  /\ pull.pc = "save" /\ pull' = NoPull /\ dropped' = TRUE
  /\ UNCHANGED <<metadata, index, text, static, verdict, timer, validation, mixed, events>>

\* Mutant: the pull leaves the problems of the text it replaced.
PullQuietly ==
  /\ pull.pc = "save" /\ pull' = NoPull
  /\ UNCHANGED <<metadata, index, text, static, verdict, timer, validation, mixed, dropped,
                 events>>

\* pullHost publishes the verdict that came with the conversion.
PullEnds ==
  /\ pull.pc = "save" /\ pull' = NoPull
  /\ verdict' = pull.text
  /\ UNCHANGED <<metadata, index, text, static, timer, validation, mixed, dropped, events>>

PullStep == PullReplaces \/ PullRefused \/ PullSaveFails \/ PullEnds

-----------------------------------------------------------------------------
\* deactivate and activate: the document keeps its text.
Reload ==
  /\ Happens
  /\ index' = None /\ static' = Problems(text, None)
  /\ connect' = NoConnect /\ probed' = FALSE /\ refresh' = Priming
  /\ verdict' = None /\ timer' = FALSE /\ pull' = NoPull
  /\ validation' = [v \in Validations |-> None] /\ mixed' = FALSE /\ dropped' = FALSE
  /\ missed' = (missed \/ connect.pc # "idle")
  /\ UNCHANGED <<session, recorded, cache, latest, crossed, text>>

RefreshStep(s) == Fetch(s) \/ WriteCache(s) \/ SetIndex(s) \/ RefreshFails(s)

Next ==
  \/ Launch \/ BridgeEnds \/ Record \/ Probe \/ LaunchElsewhere \/ RefreshCommand
  \/ \E s \in Refreshes : RefreshStep(s)
  \/ ReadCache
  \/ Type \/ PullBegins \/ PullStep
  \/ \E v \in Validations : TimerFires(v) \/ Validate(v) \/ Answer(v)
  \/ Reload

\* Every await of a refresh ends, and so does every one of a pull; a compilation, by
\* its time limit at the latest; timers fire.
Fairness ==
  /\ WF_vars(Record) /\ WF_vars(Probe) /\ WF_vars(ReadCache) /\ WF_vars(PullStep)
  /\ \A s \in Refreshes : WF_vars(RefreshStep(s))
  /\ WF_vars(\E v \in Validations : TimerFires(v))
  /\ \A v \in Validations : WF_vars(Answer(v))

Spec == Init /\ [][Next]_vars /\ Fairness

-----------------------------------------------------------------------------
(* Properties *)

\* The static problems are those of the text that is shown under the index that
\* completion and hovers use: neither changes without the problems.
StaticProblemsFit == static = Problems(text, index)

\* When nothing is in progress the index is of the ToolKit that is active in the
\* simulator: README.md:236-237, "Metadata refreshes automatically after a changed
\* ToolKit is activated", over any order of simulators, ToolKits (new ones or earlier
\* ones), reloads and failures.  The code does not keep it, and `missed' is set, where
\* an activation is recorded without a refresh that reaches its end: by the passive
\* probe or another window, by a return to a simulator whose recorded activation is
\* unchanged, by a failing refresh, by a window that goes; or where a refresh
\* renders a ToolKit before it is recorded.  `crossed': two refreshes at once.  Either
\* lasts until a refresh that nothing crosses has rendered what was recorded last.
MetadataFits ==
  (connect.pc = "idle" /\ Refreshing = {} /\ ~missed /\ ~crossed)
    => session.kit \in {None, index}

\* When nothing is in progress, the compiler's problems are of the text that is
\* shown.  The code does not keep it where the last verdicts were in the making
\* together, so that the slower stays, or text was typed into a pull (`mixed'); and
\* where a pull failed that had cleared the text's timer or replaced the text
\* (`dropped'): until something else validates the text, its problems are another's.
VerdictFits ==
  (Validating = {} /\ ~timer /\ pull = NoPull /\ ~mixed /\ ~dropped)
    => verdict \in {None, text}

\* What is typed gets a verdict of its own, or is overtaken: its text replaced by a
\* pull, its verdict by another in the making, or everything by a reload (after which
\* the window probes anew).  The exception is a pull that clears the timer and fails.
TypedIsValidated ==
  timer ~> \/ verdict = text \/ mixed \/ pull.pc = "save" \/ ~probed
           \/ dropped /\ pull = NoPull
=============================================================================
