-------------------------- MODULE ToolAssistProofs --------------------------
(***************************************************************************)
(* The problems and the metadata of ToolAssist fit what they are for, for  *)
(* any texts, simulators, ToolKits, compilations and number of events.     *)
(*                                                                         *)
(* The actions fall into two groups: those of the metadata leave the       *)
(* compilations alone, and those of the document leave the metadata alone. *)
(* Each group has an inductive invariant of its own, Vouched for the index *)
(* and Checked for the compiler's problems.                                *)
(***************************************************************************)
EXTENDS ToolAssist, TLAPS

\* The ToolKit that was recorded last.
Active == IF latest = None THEN None ELSE recorded[latest]

\* It is the one of the session, in its simulator.
Paired == session.kit # None => session.device = latest /\ session.kit = Active

\* connectBridge awaits its own refresh, and uncrossed refreshes are alone.
Apart ==
  /\ connect.pc = "refresh" <=> refresh["connect"].pc # "idle"
  /\ ~crossed => \A s, t \in Refreshing : s = t

\* What has been rendered for the refresh s is the ToolKit recorded last.
Rendered(s) ==
  /\ refresh[s].pc \in {"write", "index"} => refresh[s].kit = Active /\ (s = "connect" => Paired)
  /\ refresh[s].pc = "index" => cache = Active

\* Without a refresh of its own connectBridge leaves nothing to refresh, but for the
\* activation it is about to record.
Settled ==
  /\ cache = Active
  /\ Paired \/ (connect.pc = "record" /\ session = connect.session)
  /\ refresh["prime"].pc = "idle" => index = Active

\* What the index was or will be made from is the ToolKit recorded last.
Vouched ==
  ~crossed =>
    /\ refresh["prime"].pc = "fetch" => index = None
    /\ ~missed => (\A s \in Refreshes : Rendered(s)) /\ (connect.pc # "refresh" => Settled)

\* The verdict that comes next is of the text, or a timer will see to it.
Checked ==
  ~mixed =>
    /\ pull.pc = "save" => pull.text = text /\ Validating = {} /\ ~timer
    /\ \A v, w \in Validating : v = w
    /\ \A v \in Validating : timer \/ dropped \/ validation[v] = text
    /\ Validating = {} /\ ~timer /\ pull.pc # "save" /\ ~dropped => verdict \in {None, text}

IInv == TypeOK /\ Apart /\ Vouched /\ StaticProblemsFit /\ Checked
-----------------------------------------------------------------------------
USE BoundsAssumption, TextsAssumption, KitsAssumption

Known == Kits \cup {None}

\* The parts of a session, a refresh and a pull, of the sets they are in.
LEMMA Values ==
  ASSUME TypeOK
  PROVE  /\ session \in Session /\ recorded \in [Devices -> Known]
         /\ cache \in Known /\ index \in Known /\ latest \in Devices \cup {None}
         /\ \A s \in Session : s.kit \in Known /\ (s # NoSession => s.device \in Devices)
         /\ NoSession.kit = None /\ NoSession \in Session
         /\ connect.pc = "record" => connect.session \in Session
         /\ \A s \in Refreshes : refresh[s] \in Refresh /\ refresh[s].kit \in Known
                                 /\ (refresh[s].pc \in {"write", "index"} => refresh[s].kit \in Kits)
         /\ "prime" \in Refreshes /\ "connect" \in Refreshes
         /\ missed \in BOOLEAN /\ crossed \in BOOLEAN /\ mixed \in BOOLEAN /\ dropped \in BOOLEAN
<1>1. \A r \in Refresh : r.kit \in Known /\ (r.pc \in {"write", "index"} => r.kit \in Kits)
  BY DEF Refresh, Known
<1>2. \A s \in Session : s.kit \in Known /\ (s # NoSession => s.device \in Devices)
  BY DEF Session, NoSession, Known
<1>3. NoSession.kit = None /\ NoSession \in Session
  BY DEF NoSession, Session
<1>4. \A c \in Connect : c.pc = "record" => c.session \in Session
  BY DEF Connect
<1> QED BY <1>1, <1>2, <1>3, <1>4 DEF TypeOK, Refreshes, Known

LEMMA IdleRecords ==
  /\ NoRefresh \in Refresh /\ NoRefresh.pc = "idle" /\ NoRefresh.kit = None
  /\ NoConnect \in Connect /\ NoConnect.pc = "idle"
  /\ NoPull \in Pull /\ NoPull.pc = "idle"
  /\ Priming \in [Refreshes -> Refresh]
  /\ Priming["prime"].pc = "fetch"
  /\ \A s \in Refreshes \ {"prime"} : Priming[s] = NoRefresh
<1>1. /\ NoRefresh \in Refresh /\ NoConnect \in Connect /\ NoPull \in Pull
      /\ [pc |-> "fetch", kit |-> None] \in Refresh
  BY DEF NoRefresh, Refresh, NoConnect, Connect, NoPull, Pull
<1>2. [NoRefresh EXCEPT !.pc = "fetch"] = [pc |-> "fetch", kit |-> None]
  BY DEF NoRefresh
<1>3. Priming = [s \in Refreshes |->
                   IF s = "prime" THEN [pc |-> "fetch", kit |-> None] ELSE NoRefresh]
  BY <1>2 DEF Priming, Refreshes
<1> QED BY <1>1, <1>3 DEF NoRefresh, NoConnect, NoPull, Refreshes

LEMMA PullKinds ==
  ASSUME NEW p \in Pull
  PROVE  /\ p.pc \in {"idle", "edit", "save"} /\ p.text \in Texts \cup {None}
         /\ p.pc = "idle" <=> p = NoPull
         /\ p.pc # "idle" => p.text \in Texts /\ [p EXCEPT !.pc = "save"] = [pc |-> "save", text |-> p.text]
  BY DEF Pull, NoPull

LEMMA ProblemsType ==
  ASSUME NEW t \in Texts, NEW i \in Known
  PROVE  Problems(t, i) \in [text : Texts, index : Known]
  BY DEF Problems

LEMMA InitIInv == Init => IInv
<1> SUFFICES ASSUME Init PROVE IInv
  OBVIOUS
<1>1. (CHOOSE t \in Texts : TRUE) \in Texts
  OBVIOUS
<1>2. TypeOK
  <2>1. static \in [text : Texts, index : Known] /\ text \in Texts
    BY <1>1, ProblemsType DEF Init, Known
  <2>2. connect \in Connect /\ refresh \in [Refreshes -> Refresh] /\ pull \in Pull
    BY IdleRecords DEF Init
  <2>3. /\ session \in Session /\ recorded \in [Devices -> Known]
        /\ {cache, index} \subseteq Known /\ events \in 0..MaxEvents
    BY DEF Init, Session, Known
  <2>4. /\ verdict \in Texts \cup {None} /\ probed \in BOOLEAN /\ timer \in BOOLEAN
        /\ latest \in Devices \cup {None} /\ {missed, crossed, mixed, dropped} \subseteq BOOLEAN
        /\ validation \in [Validations -> Texts \cup {None}]
    BY DEF Init
  <2> QED BY <2>1, <2>2, <2>3, <2>4 DEF TypeOK, Known
<1>3. \A s \in Refreshes : (refresh[s].pc # "idle" <=> s = "prime")
                           /\ refresh[s].pc \notin {"write", "index"}
  BY IdleRecords DEF Init, Refreshes
<1>4. Vouched
  <2>1. cache = Active /\ Paired /\ refresh["prime"].pc = "fetch" /\ index = None
    BY IdleRecords DEF Init, Active, Paired, NoSession
  <2> QED BY <1>3, <2>1 DEF Vouched, Rendered, Settled
<1>5. Apart
  BY <1>3, IdleRecords DEF Init, Apart, Refreshing, Refreshes
<1>6. Checked
  BY IdleRecords DEF Init, Checked, Validating
<1> QED BY <1>2, <1>4, <1>5, <1>6 DEF IInv, StaticProblemsFit, Init

-----------------------------------------------------------------------------
(* The document *)

\* The metadata and the index stay, so what was said of them does.
LEMMA MetadataStays ==
  ASSUME Apart, Vouched, UNCHANGED <<metadata, index>>
  PROVE  Apart' /\ Vouched'
<1>1. UNCHANGED <<session, recorded, cache, connect, refresh, latest, missed, crossed, index>>
  BY DEF metadata
<1>2. Apart'
  BY <1>1 DEF Apart, Refreshing
<1>3. Active' = Active /\ Paired' = Paired
  BY <1>1 DEF Active, Paired
<1>4. Vouched'
  BY <1>1, <1>3 DEF Vouched, Rendered, Settled
<1> QED BY <1>2, <1>4

LEMMA DocumentType ==
  ASSUME TypeOK, UNCHANGED <<metadata, index>>,
         text' \in Texts, static' \in [text : Texts, index : Known],
         verdict' \in Texts \cup {None}, timer' \in BOOLEAN, pull' \in Pull,
         validation' \in [Validations -> Texts \cup {None}],
         mixed' \in BOOLEAN, dropped' \in BOOLEAN, events' \in 0..MaxEvents
  PROVE  TypeOK'
  BY DEF TypeOK, metadata, Known

LEMMA HappensType == TypeOK /\ Happens => events' \in 0..MaxEvents
  BY DEF TypeOK, Happens

LEMMA TypeKeeps == IInv /\ Type => IInv'
<1> SUFFICES ASSUME IInv, Type PROVE IInv'
  OBVIOUS
<1>0. /\ UNCHANGED <<metadata, index, verdict, pull, validation, dropped>>
      /\ events' \in 0..MaxEvents /\ pull \in Pull
  BY HappensType DEF Type, IInv, TypeOK
<1>1. /\ text' \in Texts /\ static' = Problems(text', index) /\ timer' = (pull = NoPull)
      /\ mixed' = (mixed \/ pull # NoPull)
  BY DEF Type
<1>2. static' \in [text : Texts, index : Known]
  BY <1>1, ProblemsType, Values DEF IInv
<1>3. TypeOK'
  BY <1>0, <1>1, <1>2, DocumentType DEF IInv, TypeOK, Known
<1>4. Checked'
  BY <1>0, <1>1, PullKinds DEF IInv, Checked, Validating
<1> QED BY <1>0, <1>1, <1>3, <1>4, MetadataStays DEF IInv, StaticProblemsFit, Problems

\* The text sent is the one of now, and the only one if nothing else is in progress.
LEMMA SendsKeeps ==
  ASSUME IInv, NEW v \in Validations, Sends(v), timer' \in {timer, FALSE},
         UNCHANGED <<metadata, index, text, static, verdict, pull>>, events' \in 0..MaxEvents
  PROVE  IInv'
<1>1. /\ validation' \in [Validations -> Texts \cup {None}] /\ validation'[v] = text
      /\ \A w \in Validations \ {v} : validation'[w] = validation[w]
      /\ text \in Texts /\ text # None
      /\ mixed' = (Validating # {} \/ pull.pc = "save") /\ dropped' = FALSE
  BY DEF Sends, IInv, TypeOK
<1>2. TypeOK'
  BY <1>1, DocumentType DEF IInv, TypeOK, Known
<1>3. ASSUME ~mixed' PROVE pull'.pc # "save" /\ Validating' = {v}
  BY <1>1, <1>3 DEF Validating
<1>4. Checked'
  BY <1>1, <1>3 DEF Checked
<1> QED BY <1>2, <1>4, MetadataStays DEF IInv, StaticProblemsFit, Problems

LEMMA AnswerKeeps ==
  ASSUME IInv, NEW v \in Validations, Answer(v)
  PROVE  IInv'
<1>0. UNCHANGED <<metadata, index, text, static, timer, pull, mixed, dropped, events>>
  BY DEF Answer
<1>1. /\ validation' \in [Validations -> Texts \cup {None}] /\ validation'[v] = None
      /\ \A w \in Validations \ {v} : validation'[w] = validation[w]
      /\ verdict' = validation[v] /\ verdict' \in Texts /\ v \in Validating
  BY DEF Answer, IInv, TypeOK, Validating
<1>2. TypeOK'
  BY <1>0, <1>1, DocumentType DEF IInv, TypeOK, Known
<1>3. Validating' = Validating \ {v}
  BY <1>1 DEF Validating
<1>4. Checked'
  BY <1>0, <1>1, <1>3 DEF IInv, Checked
<1> QED BY <1>0, <1>2, <1>4, MetadataStays DEF IInv, StaticProblemsFit, Problems

\* A pull that fails, or has yet to edit, leaves the text and its problems.
LEMMA PullOnlyBegins ==
  ASSUME IInv, UNCHANGED <<metadata, index, text, static, verdict, validation, mixed>>,
         pull' \in Pull, pull'.pc # "save", timer' \in BOOLEAN, dropped' \in BOOLEAN,
         pull.pc = "save" => dropped', dropped => dropped',
         timer => timer' \/ dropped', timer' => timer,
         events' \in 0..MaxEvents
  PROVE  IInv'
<1>1. TypeOK'
  BY DocumentType DEF IInv, TypeOK, Known
<1>2. Checked'
  BY DEF IInv, Checked, Validating
<1> QED BY <1>1, <1>2, MetadataStays DEF IInv, StaticProblemsFit, Problems

LEMMA PullBeginsKeeps == IInv /\ PullBegins => IInv'
<1> SUFFICES ASSUME IInv, PullBegins PROVE IInv'
  OBVIOUS
<1>1. pull = NoPull /\ timer' = FALSE /\ dropped' = (dropped \/ timer) /\ events' \in 0..MaxEvents
      /\ UNCHANGED <<metadata, index, text, static, verdict, validation, mixed>>
  BY HappensType DEF PullBegins, IInv
<1>2. pull' \in Pull /\ pull'.pc = "edit"
  BY DEF PullBegins, Pull
<1>3. timer \in BOOLEAN /\ dropped \in BOOLEAN
  BY DEF IInv, TypeOK
<1> QED BY <1>1, <1>2, <1>3, IdleRecords, PullOnlyBegins

LEMMA PullStepKeeps == IInv /\ PullStep => IInv'
<1> SUFFICES ASSUME IInv, PullStep PROVE IInv'
  OBVIOUS
<1>0. pull \in Pull /\ timer \in BOOLEAN /\ dropped \in BOOLEAN /\ events \in 0..MaxEvents
  BY DEF IInv, TypeOK
<1>1. CASE PullReplaces
  <2>1. /\ UNCHANGED <<metadata, index, verdict, validation, events>>
        /\ text' = pull.text /\ static' = Problems(text', index) /\ timer' = FALSE
        /\ mixed' = (Validating # {}) /\ dropped' = FALSE /\ pull.pc = "edit"
        /\ pull' = [pull EXCEPT !.pc = "save"]
    BY <1>1 DEF PullReplaces
  <2>2. text' \in Texts /\ pull' = [pc |-> "save", text |-> text']
    BY <1>0, <2>1, PullKinds
  <2>3. pull' \in Pull /\ pull'.pc = "save" /\ pull'.text = text'
    BY <2>2 DEF Pull
  <2>4. static' \in [text : Texts, index : Known]
    BY <2>1, <2>2, ProblemsType, Values DEF IInv
  <2>5. TypeOK'
    BY <2>1, <2>2, <2>3, <2>4, DocumentType DEF IInv, TypeOK, Known
  <2>6. Checked'
    BY <2>1, <2>3 DEF Checked, Validating
  <2> QED BY <2>1, <2>5, <2>6, MetadataStays DEF IInv, StaticProblemsFit, Problems
<1>2. CASE PullRefused
  <2>1. /\ pull.pc = "edit" /\ pull' = NoPull
        /\ UNCHANGED <<metadata, index, text, static, verdict, timer, validation, mixed,
                       dropped, events>>
    BY <1>2 DEF PullRefused
  <2> QED BY <1>0, <2>1, IdleRecords, PullOnlyBegins
<1>3. CASE PullSaveFails
  <2>1. /\ pull' = NoPull /\ dropped' = TRUE
        /\ UNCHANGED <<metadata, index, text, static, verdict, timer, validation, mixed, events>>
    BY <1>3 DEF PullSaveFails
  <2> QED BY <1>0, <2>1, IdleRecords, PullOnlyBegins
<1>4. CASE PullEnds
  <2>1. /\ UNCHANGED <<metadata, index, text, static, timer, validation, mixed, dropped, events>>
        /\ pull.pc = "save" /\ verdict' = pull.text /\ pull' = NoPull
    BY <1>4 DEF PullEnds
  <2>2. verdict' \in Texts /\ pull' \in Pull /\ pull'.pc = "idle"
    BY <1>0, <2>1, PullKinds, IdleRecords
  <2>3. TypeOK'
    BY <2>1, <2>2, DocumentType DEF IInv, TypeOK, Known
  <2>4. Checked'
    BY <2>1, <2>2 DEF IInv, Checked, Validating
  <2> QED BY <2>1, <2>3, <2>4, MetadataStays DEF IInv, StaticProblemsFit, Problems
<1> QED BY <1>1, <1>2, <1>3, <1>4 DEF PullStep

-----------------------------------------------------------------------------
(* The metadata *)

\* The document and its compilations stay, but for the static problems.
LEMMA DocumentStays ==
  ASSUME TypeOK, Checked, UNCHANGED <<text, checking>>,
         session' \in Session, recorded' \in [Devices -> Known], cache' \in Known,
         index' \in Known, latest' \in Devices \cup {None}, connect' \in Connect,
         probed' \in BOOLEAN, refresh' \in [Refreshes -> Refresh],
         missed' \in BOOLEAN, crossed' \in BOOLEAN, events' \in 0..MaxEvents,
         static' = Problems(text, index')
  PROVE  TypeOK' /\ Checked' /\ StaticProblemsFit'
<1>1. TypeOK'
  BY ProblemsType DEF TypeOK, checking, Known
<1>2. Checked'
  BY DEF Checked, Validating, checking
<1> QED BY <1>1, <1>2 DEF StaticProblemsFit, Problems, checking

LEMMA ActiveStays ==
  /\ UNCHANGED <<recorded, latest>> => Active' = Active
  /\ UNCHANGED <<session, recorded, latest>> => Paired' = Paired
BY DEF Active, Paired

LEMMA LaunchKeeps == IInv /\ Launch => IInv'
<1> SUFFICES ASSUME IInv, Launch PROVE IInv'
  OBVIOUS
<1>0. /\ UNCHANGED <<recorded, cache, probed, refresh, latest, missed, crossed, index, text,
                     static, checking>>
      /\ connect.pc = "idle" /\ session' \in Session /\ session' # NoSession
      /\ connect' = [pc |-> "record", session |-> session'] /\ events' \in 0..MaxEvents
  BY HappensType DEF Launch, IInv
<1>1. connect' \in Connect /\ connect'.pc = "record" /\ connect'.session = session'
  BY <1>0 DEF Connect
<1>2. TypeOK' /\ Checked' /\ StaticProblemsFit'
  BY <1>0, <1>1, Values, DocumentStays DEF IInv, TypeOK, StaticProblemsFit
<1>3. Apart'
  BY <1>0, <1>1 DEF IInv, Apart, Refreshing
<1>4. Vouched'
  <2>1. ASSUME ~crossed, ~missed PROVE Settled /\ refresh["connect"].pc = "idle"
    BY <1>0, <2>1 DEF IInv, Apart, Vouched
  <2>2. ASSUME ~crossed, ~missed PROVE Settled' /\ \A s \in Refreshes : Rendered(s)'
    BY <1>0, <1>1, <2>1, <2>2, ActiveStays DEF IInv, Vouched, Settled, Rendered
  <2> QED BY <1>0, <2>2 DEF IInv, Vouched
<1> QED BY <1>2, <1>3, <1>4 DEF IInv

LEMMA BridgeEndsKeeps == IInv /\ BridgeEnds => IInv'
<1> SUFFICES ASSUME IInv, BridgeEnds PROVE IInv'
  OBVIOUS
<1>0. /\ UNCHANGED <<recorded, cache, connect, probed, refresh, latest, missed, crossed, index,
                     text, static, checking>>
      /\ session' = NoSession /\ events' \in 0..MaxEvents
  BY HappensType DEF BridgeEnds, IInv
<1>1. TypeOK' /\ Checked' /\ StaticProblemsFit'
  BY <1>0, Values, DocumentStays DEF IInv, TypeOK, StaticProblemsFit
<1>2. Apart'
  BY <1>0 DEF IInv, Apart, Refreshing
<1>3. Paired'
  BY <1>0 DEF Paired, NoSession
<1>4. Vouched'
  BY <1>0, <1>3, ActiveStays DEF IInv, Vouched, Settled, Rendered
<1> QED BY <1>1, <1>2, <1>4 DEF IInv

\* A refresh begins; alone, if nothing has crossed.
LEMMA StartFacts ==
  ASSUME IInv, NEW s \in Refreshes, Starts(s)
  PROVE  /\ refresh' \in [Refreshes -> Refresh] /\ refresh'[s].pc = "fetch"
         /\ \A t \in Refreshes \ {s} : refresh'[t] = refresh[t]
         /\ crossed' \in BOOLEAN
         /\ ~crossed' => ~crossed /\ Refreshing = {} /\ Refreshing' = {s}
<1>1. refresh[s] = [pc |-> "idle", kit |-> None]
  BY DEF Starts, IInv, TypeOK, Refresh
<1>2. [refresh[s] EXCEPT !.pc = "fetch"] = [pc |-> "fetch", kit |-> None]
  BY <1>1
<1>3. [pc |-> "fetch", kit |-> None] \in Refresh
  BY DEF Refresh
<1>4. /\ refresh' \in [Refreshes -> Refresh] /\ refresh'[s] = [pc |-> "fetch", kit |-> None]
      /\ \A t \in Refreshes \ {s} : refresh'[t] = refresh[t]
  BY <1>2, <1>3 DEF Starts, IInv, TypeOK
<1>5. ASSUME ~crossed' PROVE ~crossed /\ Refreshing = {} /\ Refreshing' = {s}
  <2>1. ~crossed /\ Refreshing = {}
    BY <1>5 DEF Starts
  <2>2. Refreshing' = {s}
    BY <1>4, <2>1 DEF Refreshing
  <2> QED BY <2>1, <2>2
<1> QED BY <1>4, <1>5 DEF Starts, IInv, TypeOK

\* An activation that is found as it was recorded last changes nothing.
LEMMA RecordedFacts ==
  ASSUME TypeOK, NEW s \in Session, Recorded(s)
  PROVE  /\ recorded' \in [Devices -> Known] /\ latest' \in Devices \cup {None}
         /\ ~Changed(s) /\ ~Returned(s) =>
              /\ UNCHANGED <<recorded, latest>>
              /\ s.kit # None => s.device = latest /\ s.kit = Active
<1>1. CASE s.kit = None
  BY <1>1, Values DEF Recorded
<1>2. CASE s.kit # None
  <2>1. s.device \in Devices /\ s.kit \in Known /\ recorded \in [Devices -> Known]
    BY <1>2, Values
  <2>2. recorded' = [recorded EXCEPT ![s.device] = s.kit] /\ latest' = s.device
    BY <1>2 DEF Recorded
  <2>3. ASSUME ~Changed(s), ~Returned(s)
        PROVE  recorded' = recorded /\ latest' = latest /\ s.device = latest /\ s.kit = Active
    <3>1. recorded[s.device] = s.kit /\ latest = s.device /\ latest # None
      BY <1>2, <2>1, <2>3 DEF Changed, Returned
    <3> QED BY <2>1, <2>2, <3>1 DEF Active
  <2> QED BY <2>1, <2>2, <2>3
<1> QED BY <1>1, <1>2

LEMMA RecordKeeps == IInv /\ Record => IInv'
<1> SUFFICES ASSUME IInv, Record PROVE IInv'
  OBVIOUS
<1> DEFINE s == connect.session
<1>0. /\ UNCHANGED <<session, cache, probed, index, text, static, checking, events>>
      /\ connect.pc = "record" /\ Recorded(s) /\ s \in Session
  BY Values DEF Record, IInv
<1>a. recorded' \in [Devices -> Known] /\ latest' \in Devices \cup {None}
  BY <1>0, RecordedFacts DEF IInv
<1>1. CASE ~Changed(s)
  <2>1. /\ UNCHANGED <<refresh, crossed>> /\ missed' = (missed \/ Returned(s))
        /\ connect' \in Connect /\ connect'.pc = "idle"
    BY <1>0, <1>1, IdleRecords DEF Record
  <2>2. TypeOK' /\ Checked' /\ StaticProblemsFit'
    BY <1>0, <1>a, <2>1, Values, DocumentStays DEF IInv, TypeOK, StaticProblemsFit, Returned
  <2>3. Apart'
    BY <1>0, <2>1 DEF IInv, Apart, Refreshing
  <2>4. ASSUME ~crossed, ~missed' PROVE Settled' /\ \A r \in Refreshes : Rendered(r)'
    <3>1. /\ ~missed /\ UNCHANGED <<recorded, latest>>
          /\ s.kit # None => s.device = latest /\ s.kit = Active
      BY <1>0, <1>1, <2>1, <2>4, RecordedFacts DEF IInv
    <3>2. Settled /\ \A r \in Refreshes : Rendered(r)
      BY <1>0, <2>4, <3>1 DEF IInv, Vouched
    <3>3. Paired
      BY <3>1, <3>2 DEF Settled, Paired
    <3> QED BY <1>0, <2>1, <3>1, <3>2, <3>3, ActiveStays DEF Settled, Rendered
  <2>5. Vouched'
    BY <1>0, <2>1, <2>4 DEF IInv, Vouched
  <2> QED BY <2>2, <2>3, <2>5 DEF IInv
<1>2. CASE Changed(s)
  <2>0. Starts("connect") /\ connect' = [NoConnect EXCEPT !.pc = "refresh"] /\ missed' = missed
    BY <1>2 DEF Record
  <2>1. connect' \in Connect /\ connect'.pc = "refresh"
    BY <2>0 DEF NoConnect, Connect
  <2>2. /\ refresh' \in [Refreshes -> Refresh] /\ crossed' \in BOOLEAN
        /\ refresh'["connect"].pc = "fetch"
        /\ \A t \in Refreshes \ {"connect"} : refresh'[t] = refresh[t]
        /\ ~crossed' => ~crossed /\ Refreshing = {} /\ Refreshing' = {"connect"}
    BY <2>0, StartFacts, Values DEF IInv
  <2>3. TypeOK' /\ Checked' /\ StaticProblemsFit'
    BY <1>0, <1>a, <2>0, <2>1, <2>2, Values, DocumentStays DEF IInv, TypeOK, StaticProblemsFit
  <2>4. Apart'
    BY <2>1, <2>2 DEF Apart
  <2>5. ASSUME ~crossed', NEW t \in Refreshes
        PROVE  refresh'[t].pc \notin {"write", "index"} /\ refresh'["prime"].pc # "fetch"
    BY <2>2, <2>5 DEF Refreshing, Refreshes
  <2>6. Vouched'
    BY <2>1, <2>5, Values DEF IInv, Vouched, Rendered
  <2> QED BY <2>3, <2>4, <2>6 DEF IInv
<1> QED BY <1>1, <1>2

LEMMA ProbeKeeps == IInv /\ Probe => IInv'
<1> SUFFICES ASSUME IInv, Probe PROVE IInv'
  OBVIOUS
<1>0. /\ UNCHANGED <<session, cache, connect, refresh, crossed, index, text, static, checking,
                     events>>
      /\ probed' = TRUE
  BY DEF Probe
<1>1. /\ recorded' \in [Devices -> Known] /\ latest' \in Devices \cup {None}
      /\ missed' \in BOOLEAN /\ (~missed' => ~missed /\ UNCHANGED <<recorded, latest>>)
  <2>1. CASE Recorded(session) /\ missed' = (missed \/ Changed(session) \/ Returned(session))
    <3>1. session \in Session /\ TypeOK
      BY Values DEF IInv
    <3> QED BY <2>1, <3>1, RecordedFacts
  <2>2. CASE UNCHANGED <<recorded, latest, missed>>
    BY <2>2, Values DEF IInv
  <2> QED BY <2>1, <2>2 DEF Probe
<1>2. TypeOK' /\ Checked' /\ StaticProblemsFit'
  BY <1>0, <1>1, Values, DocumentStays DEF IInv, TypeOK, StaticProblemsFit
<1>3. Apart'
  BY <1>0 DEF IInv, Apart, Refreshing
<1>4. Vouched'
  BY <1>0, <1>1, ActiveStays DEF IInv, Vouched, Settled, Rendered
<1> QED BY <1>2, <1>3, <1>4 DEF IInv

LEMMA LaunchElsewhereKeeps == IInv /\ LaunchElsewhere => IInv'
<1> SUFFICES ASSUME IInv, LaunchElsewhere PROVE IInv'
  OBVIOUS
<1>0. /\ UNCHANGED <<connect, probed, refresh, crossed, index, text, static, checking>>
      /\ missed' = TRUE /\ session' \in Session /\ events' \in 0..MaxEvents
  BY HappensType DEF LaunchElsewhere, IInv
<1>1. /\ recorded' \in [Devices -> Known] /\ latest' \in Devices \cup {None} /\ cache' \in Known
  <2>1. CASE Recorded(session') /\ cache' = session'.kit
    <3>1. session' \in Session /\ session'.kit \in Known /\ TypeOK
      BY <1>0, Values DEF IInv
    <3> DEFINE s == session'
    <3>2. Recorded(s) /\ s \in Session
      BY <1>0, <2>1
    <3> HIDE DEF s
    <3>3. recorded' \in [Devices -> Known] /\ latest' \in Devices \cup {None}
      BY <3>1, <3>2, RecordedFacts
    <3> QED BY <2>1, <3>1, <3>3
  <2>2. CASE UNCHANGED <<recorded, latest, cache>>
    BY <2>2, Values DEF IInv
  <2> QED BY <2>1, <2>2 DEF LaunchElsewhere
<1>2. TypeOK' /\ Checked' /\ StaticProblemsFit'
  BY <1>0, <1>1, Values, DocumentStays DEF IInv, TypeOK, StaticProblemsFit
<1>3. Apart' /\ Vouched'
  BY <1>0 DEF IInv, Apart, Refreshing, Vouched
<1> QED BY <1>2, <1>3 DEF IInv

LEMMA RefreshCommandKeeps == IInv /\ RefreshCommand => IInv'
<1> SUFFICES ASSUME IInv, RefreshCommand PROVE IInv'
  OBVIOUS
<1>0. /\ UNCHANGED <<session, recorded, cache, connect, probed, latest, missed, index, text,
                     static, checking>>
      /\ events' \in 0..MaxEvents
  BY HappensType DEF RefreshCommand, IInv
<1>1. /\ refresh' \in [Refreshes -> Refresh] /\ crossed' \in BOOLEAN
      /\ refresh'["command"].pc = "fetch"
      /\ \A t \in Refreshes \ {"command"} : refresh'[t] = refresh[t]
      /\ ~crossed' => ~crossed /\ Refreshing = {} /\ Refreshing' = {"command"}
  BY StartFacts DEF RefreshCommand, IInv, Refreshes
<1>2. TypeOK' /\ Checked' /\ StaticProblemsFit'
  BY <1>0, <1>1, Values, DocumentStays DEF IInv, TypeOK, StaticProblemsFit
<1>3. refresh'["connect"] = refresh["connect"] /\ refresh'["prime"] = refresh["prime"]
  BY <1>1 DEF Refreshes
<1>4. Apart'
  BY <1>0, <1>1, <1>3 DEF IInv, Apart
<1>5. Vouched'
  <2>1. ASSUME ~crossed', NEW t \in Refreshes PROVE refresh'[t].pc \notin {"write", "index"}
    BY <1>1, <2>1 DEF Refreshing
  <2> QED BY <1>0, <1>1, <1>3, <2>1, ActiveStays DEF IInv, Vouched, Rendered, Settled
<1> QED BY <1>2, <1>4, <1>5 DEF IInv

\* An uncrossed refresh is the only one.
LEMMA Only ==
  ASSUME IInv, ~crossed, NEW s \in Refreshes, refresh[s].pc # "idle"
  PROVE  Refreshing = {s} /\ \A t \in Refreshes \ {s} : refresh[t].pc = "idle"
BY DEF IInv, Apart, Refreshing

\* One refresh goes on: what it will write or index is what was recorded last.
LEMMA RefreshGoesOn ==
  ASSUME IInv, NEW s \in Refreshes, refresh[s].pc # "idle", NEW r \in Refresh,
         refresh' = [refresh EXCEPT ![s] = r], r.pc \in {"write", "index"},
         missed' \in BOOLEAN,
         ~crossed /\ ~missed' => ~missed /\ r.kit = Active /\ (s = "connect" => Paired),
         cache' \in {cache, r.kit}, r.pc = "index" => cache' = r.kit,
         UNCHANGED <<session, recorded, connect, probed, latest, crossed, index, text, static,
                     checking, events>>
  PROVE  IInv'
<1>1. /\ refresh' \in [Refreshes -> Refresh] /\ refresh'[s] = r
      /\ \A t \in Refreshes \ {s} : refresh'[t] = refresh[t]
  BY DEF IInv, TypeOK
<1>2. cache' \in Known
  BY Values DEF IInv, Refresh, Known
<1>3. TypeOK' /\ Checked' /\ StaticProblemsFit'
  BY <1>1, <1>2, Values, DocumentStays DEF IInv, TypeOK, StaticProblemsFit
<1>4. Apart'
  <2>1. Refreshing' = Refreshing
    BY <1>1 DEF Refreshing
  <2>2. refresh'["connect"].pc # "idle" <=> refresh["connect"].pc # "idle"
    BY <1>1, Values DEF IInv
  <2> QED BY <2>1, <2>2 DEF IInv, Apart
<1>5. Active' = Active /\ Paired' = Paired
  BY ActiveStays
<1>6. ASSUME ~crossed PROVE Vouched'
  <2>1. \A t \in Refreshes \ {s} : refresh'[t].pc = "idle"
    BY <1>1, <1>6, Only
  <2>2. refresh'["prime"].pc # "fetch"
    BY <1>1, <2>1, Values DEF IInv
  <2>3. ASSUME ~missed', NEW t \in Refreshes PROVE Rendered(t)'
    BY <1>1, <1>5, <1>6, <2>1, <2>3 DEF Rendered
  <2>4. ASSUME ~missed', connect.pc # "refresh" PROVE Settled'
    <3>1. Settled /\ r.kit = Active
      BY <1>6, <2>4 DEF IInv, Vouched
    <3>2. refresh'["prime"].pc = "idle" => refresh["prime"].pc = "idle"
      BY <1>1, <2>1, Values DEF IInv
    <3> QED BY <1>5, <3>1, <3>2 DEF Settled
  <2> QED BY <2>2, <2>3, <2>4 DEF Vouched
<1> QED BY <1>3, <1>4, <1>6 DEF IInv, Vouched

LEMMA FetchKeeps ==
  ASSUME IInv, NEW s \in Refreshes, Fetch(s)
  PROVE  IInv'
<1>0. /\ refresh[s].pc = "fetch" /\ session # NoSession
      /\ UNCHANGED <<session, recorded, cache, connect, probed, latest, crossed, index, text,
                     static, checking, events>>
  BY DEF Fetch
<1>1. PICK kit \in Kits :
        /\ session.kit \in {None, kit}
        /\ refresh' = [refresh EXCEPT ![s] = [pc |-> "write", kit |-> kit]]
        /\ missed' = (missed \/ latest # session.device \/ recorded[latest] # kit)
  BY DEF Fetch
<1> DEFINE r == [pc |-> "write", kit |-> kit]
<1>2. r \in Refresh /\ r.pc = "write" /\ r.kit = kit
  BY DEF Refresh
<1>3. missed' \in BOOLEAN
  BY <1>1
<1>4. ASSUME ~missed' PROVE ~missed /\ r.kit = Active /\ Paired
  <2>1. ~missed /\ latest = session.device /\ recorded[latest] = kit
    BY <1>1, <1>4
  <2>2. latest # None
    BY <1>0, <2>1, Values DEF IInv
  <2> QED BY <1>1, <1>2, <2>1, <2>2 DEF Active, Paired
<1>5. refresh' = [refresh EXCEPT ![s] = r] /\ refresh[s].pc # "idle"
  BY <1>0, <1>1
<1> HIDE DEF r
<1> QED BY <1>0, <1>2, <1>3, <1>4, <1>5, RefreshGoesOn

LEMMA WriteCacheKeeps ==
  ASSUME IInv, NEW s \in Refreshes, WriteCache(s)
  PROVE  IInv'
<1> DEFINE r == [refresh[s] EXCEPT !.pc = "index"]
<1>1. r \in Refresh /\ r.pc = "index" /\ r.kit = refresh[s].kit
  BY DEF WriteCache, Refresh, IInv, TypeOK
<1>2. ASSUME ~crossed, ~missed PROVE r.kit = Active /\ (s = "connect" => Paired)
  BY <1>1, <1>2 DEF WriteCache, IInv, Vouched, Rendered
<1>3. refresh' = [refresh EXCEPT ![s] = r] /\ refresh[s].pc # "idle" /\ cache' = r.kit
      /\ UNCHANGED <<session, recorded, connect, probed, latest, missed, crossed, index, text,
                     static, checking, events>>
  BY <1>1 DEF WriteCache
<1>4. missed' \in BOOLEAN
  BY <1>3, Values DEF IInv
<1> HIDE DEF r
<1> QED BY <1>1, <1>2, <1>3, <1>4, RefreshGoesOn

\* A refresh is over, and the index may be another.
LEMMA RefreshEnds ==
  ASSUME IInv, NEW s \in Refreshes, refresh[s].pc # "idle", Ends(s),
         index' \in Known, static' = Problems(text, index'),
         missed' \in BOOLEAN, crossed' \in BOOLEAN,
         ~crossed' => Refreshing = {s},
         ~crossed' /\ ~missed' =>
           /\ cache = Active /\ index' = Active
           /\ Paired \/ (s # "connect" /\ connect.pc = "record" /\ session = connect.session),
         UNCHANGED <<session, recorded, cache, probed, latest, text, checking>>,
         events' \in 0..MaxEvents
  PROVE  IInv'
<1>1. /\ refresh' \in [Refreshes -> Refresh] /\ refresh'[s] = NoRefresh
      /\ \A t \in Refreshes \ {s} : refresh'[t] = refresh[t]
      /\ connect' \in Connect /\ connect' = IF s = "connect" THEN NoConnect ELSE connect
  BY IdleRecords DEF Ends, IInv, TypeOK
<1>2. TypeOK' /\ Checked' /\ StaticProblemsFit'
  BY <1>1, Values, DocumentStays DEF IInv, TypeOK
<1>3. Refreshing' = Refreshing \ {s}
  BY <1>1, IdleRecords DEF Refreshing
<1>4. Apart'
  <2>1. connect'.pc = "refresh" <=> refresh'["connect"].pc # "idle"
    <3>1. CASE s = "connect"
      BY <1>1, <3>1, IdleRecords
    <3>2. CASE s # "connect"
      BY <1>1, <3>2, Values DEF IInv, Apart
    <3> QED BY <3>1, <3>2
  <2>2. ~crossed' => Refreshing' = {}
    BY <1>3
  <2> QED BY <2>1, <2>2 DEF Apart
<1>5. ASSUME ~crossed' PROVE Vouched'
  <2>1. \A t \in Refreshes : refresh'[t].pc = "idle"
    BY <1>1, <1>3, <1>5 DEF Refreshing
  <2>2. \A t \in Refreshes : Rendered(t)'
    BY <2>1 DEF Rendered
  <2>3. ~missed' => Settled'
    BY <1>1, <1>5, ActiveStays DEF Settled
  <2> QED BY <2>1, <2>2, <2>3, Values DEF IInv, Vouched
<1> QED BY <1>2, <1>4, <1>5 DEF IInv, Vouched

LEMMA SetIndexKeeps ==
  ASSUME IInv, NEW s \in Refreshes, SetIndex(s)
  PROVE  IInv'
<1>1. /\ refresh[s].pc = "index" /\ index' = refresh[s].kit /\ static' = Problems(text, index')
      /\ missed' = (missed /\ ~UpToDate(s)) /\ crossed' = (crossed /\ ~UpToDate(s)) /\ Ends(s)
      /\ UNCHANGED <<session, recorded, cache, probed, latest, text, checking, events>>
  BY DEF SetIndex
<1>2. /\ index' \in Known /\ missed \in BOOLEAN /\ crossed \in BOOLEAN /\ events' \in 0..MaxEvents
      /\ missed' \in BOOLEAN /\ crossed' \in BOOLEAN
  BY <1>1, Values DEF IInv, TypeOK
<1>3. CASE UpToDate(s)
  <2>1. Refreshing = {s} /\ refresh[s].kit = Active /\ cache = Active /\ Paired
    BY <1>3 DEF UpToDate, Active, Paired
  <2> QED BY <1>1, <1>2, <2>1, RefreshEnds
<1>4. CASE ~UpToDate(s)
  <2>1. missed' = missed /\ crossed' = crossed
    BY <1>1, <1>2, <1>4
  <2>2. ~crossed => Refreshing = {s}
    BY <1>1, Only
  <2>3. ASSUME ~crossed, ~missed
        PROVE  /\ cache = Active /\ index' = Active
               /\ Paired \/ (s # "connect" /\ connect.pc = "record" /\ session = connect.session)
    <3>1. Rendered(s) /\ (connect.pc # "refresh" => Settled)
      BY <2>3 DEF IInv, Vouched
    <3>2. CASE s = "connect"
      BY <1>1, <3>1, <3>2 DEF Rendered
    <3>3. CASE s # "connect"
      <4>1. connect.pc # "refresh"
        BY <1>1, <2>3, <3>3, Only, Values DEF IInv, Apart
      <4> QED BY <1>1, <3>1, <3>3, <4>1 DEF Rendered, Settled
    <3> QED BY <3>2, <3>3
  <2> QED BY <1>1, <1>2, <2>1, <2>2, <2>3, RefreshEnds
<1> QED BY <1>3, <1>4

LEMMA RefreshFailsKeeps ==
  ASSUME IInv, NEW s \in Refreshes, RefreshFails(s)
  PROVE  IInv'
<1>1. /\ refresh[s].pc # "idle" /\ Ends(s) /\ missed' = (missed \/ s # "command")
      /\ UNCHANGED <<session, recorded, cache, probed, latest, crossed, index, text, static,
                     checking>>
  BY DEF RefreshFails
<1>2. /\ missed' \in BOOLEAN /\ crossed' \in BOOLEAN /\ events' \in 0..MaxEvents
      /\ index' \in Known
  BY <1>1, HappensType, Values DEF RefreshFails, IInv, TypeOK
<1>3. ASSUME ~crossed, ~missed'
      PROVE  /\ cache = Active /\ index = Active
             /\ Paired \/ (s # "connect" /\ connect.pc = "record" /\ session = connect.session)
  <2>1. ~missed /\ s = "command"
    BY <1>1, <1>3
  <2>2. refresh["prime"].pc = "idle" /\ refresh["connect"].pc = "idle"
    BY <1>1, <1>3, <2>1, Only DEF Refreshes
  <2> QED BY <1>3, <2>1, <2>2 DEF IInv, Apart, Vouched, Settled
<1>4. static' = Problems(text, index')
  BY <1>1 DEF IInv, StaticProblemsFit
<1>5. ~crossed' => Refreshing = {s}
  BY <1>1, Only
<1> QED BY <1>1, <1>2, <1>3, <1>4, <1>5, RefreshEnds

LEMMA ReadCacheKeeps == IInv /\ ReadCache => IInv'
<1> SUFFICES ASSUME IInv, ReadCache PROVE IInv'
  OBVIOUS
<1>0. /\ UNCHANGED <<session, recorded, cache, connect, probed, latest, missed, crossed, index,
                     text, static, checking, events>>
      /\ refresh["prime"].pc = "fetch" /\ "prime" \in Refreshes /\ missed' \in BOOLEAN
  BY Values DEF ReadCache, Refreshes, IInv
<1>1. ASSUME ~crossed, ~missed PROVE Settled
  <2>1. connect.pc # "refresh"
    BY <1>0, <1>1, Only DEF IInv, Apart, Refreshes
  <2> QED BY <1>1, <2>1 DEF IInv, Vouched
<1>2. CASE cache = None
  <2>1. Ends("prime")
    BY <1>0, <1>2 DEF ReadCache, Ends
  <2>2. /\ index' \in Known /\ crossed' \in BOOLEAN /\ events' \in 0..MaxEvents
        /\ static' = Problems(text, index')
    BY <1>0, Values DEF IInv, TypeOK, StaticProblemsFit
  <2>3. ~crossed => Refreshing = {"prime"}
    BY <1>0, Only
  <2>4. ASSUME ~crossed, ~missed
        PROVE  /\ cache = Active /\ index = Active
               /\ Paired \/ (connect.pc = "record" /\ session = connect.session)
    BY <1>0, <1>1, <1>2, <2>4 DEF IInv, Vouched, Settled
  <2> QED BY <1>0, <2>1, <2>2, <2>3, <2>4, RefreshEnds
<1>3. CASE cache # None
  <2> DEFINE r == [pc |-> "index", kit |-> cache]
  <2>1. r \in Refresh /\ r.pc = "index" /\ r.kit = cache
    BY <1>3, Values DEF IInv, Refresh, Known
  <2>2. refresh' = [refresh EXCEPT !["prime"] = r]
    BY <1>3 DEF ReadCache
  <2>3. ~crossed /\ ~missed => r.kit = Active
    BY <1>1, <2>1 DEF Settled
  <2> HIDE DEF r
  <2> QED BY <1>0, <2>1, <2>2, <2>3, RefreshGoesOn
<1> QED BY <1>2, <1>3

LEMMA ReloadKeeps == IInv /\ Reload => IInv'
<1> SUFFICES ASSUME IInv, Reload PROVE IInv'
  OBVIOUS
<1>1. /\ index' = None /\ static' = Problems(text, None) /\ connect' = NoConnect /\ probed' = FALSE
      /\ refresh' = Priming /\ verdict' = None /\ timer' = FALSE /\ pull' = NoPull
      /\ validation' = [v \in Validations |-> None] /\ mixed' = FALSE /\ dropped' = FALSE
      /\ missed' = (missed \/ connect.pc # "idle")
      /\ UNCHANGED <<session, recorded, cache, latest, crossed, text>> /\ events' \in 0..MaxEvents
  BY HappensType DEF Reload, IInv
<1>2. TypeOK'
  <2>1. static' \in [text : Texts, index : Known]
    BY <1>1, ProblemsType DEF IInv, TypeOK, Known
  <2>2. connect' \in Connect /\ refresh' \in [Refreshes -> Refresh] /\ pull' \in Pull
    BY <1>1, IdleRecords
  <2>3. missed' \in BOOLEAN
    BY <1>1
  <2> QED BY <1>1, <2>1, <2>2, <2>3 DEF IInv, TypeOK, Known
<1>3. \A s \in Refreshes : (refresh'[s].pc # "idle" <=> s = "prime")
                           /\ refresh'[s].pc \notin {"write", "index"}
  BY <1>1, IdleRecords DEF Refreshes
<1>4. Apart'
  BY <1>1, <1>3, IdleRecords DEF Apart, Refreshing, Refreshes
<1>5. Vouched'
  <2>1. ASSUME ~crossed, ~missed' PROVE cache = Active /\ Paired
    BY <1>1, <2>1 DEF IInv, Vouched, Settled
  <2>2. refresh'["prime"].pc # "idle"
    BY <1>3 DEF Refreshes
  <2> QED BY <1>1, <1>3, <2>1, <2>2, ActiveStays DEF Vouched, Rendered, Settled
<1>6. Checked'
  BY <1>1, IdleRecords DEF Checked, Validating
<1>7. StaticProblemsFit'
  BY <1>1 DEF StaticProblemsFit, Problems
<1> QED BY <1>2, <1>4, <1>5, <1>6, <1>7 DEF IInv

-----------------------------------------------------------------------------
LEMMA NextIInv == IInv /\ [Next]_vars => IInv'
<1> SUFFICES ASSUME IInv, [Next]_vars PROVE IInv'
  OBVIOUS
<1>1. CASE Launch \/ BridgeEnds \/ Record \/ Probe \/ LaunchElsewhere \/ RefreshCommand
  BY <1>1, LaunchKeeps, BridgeEndsKeeps, RecordKeeps, ProbeKeeps, LaunchElsewhereKeeps,
     RefreshCommandKeeps
<1>2. ASSUME NEW s \in Refreshes, RefreshStep(s) PROVE IInv'
  BY <1>2, FetchKeeps, WriteCacheKeeps, SetIndexKeeps, RefreshFailsKeeps DEF RefreshStep
<1>3. CASE ReadCache
  BY <1>3, ReadCacheKeeps
<1>4. CASE Type \/ PullBegins \/ PullStep
  BY <1>4, TypeKeeps, PullBeginsKeeps, PullStepKeeps
<1>5. ASSUME NEW v \in Validations, TimerFires(v) PROVE IInv'
  <2>1. /\ Sends(v) /\ timer' = FALSE /\ UNCHANGED <<metadata, index, text, static, verdict, pull>>
        /\ events' \in 0..MaxEvents
    BY <1>5 DEF TimerFires, IInv, TypeOK
  <2> QED BY <2>1, SendsKeeps
<1>6. ASSUME NEW v \in Validations, Validate(v) PROVE IInv'
  <2>1. /\ Sends(v) /\ timer' = timer /\ UNCHANGED <<metadata, index, text, static, verdict, pull>>
        /\ events' \in 0..MaxEvents
    BY <1>6, HappensType DEF Validate, IInv
  <2> QED BY <2>1, SendsKeeps
<1>7. ASSUME NEW v \in Validations, Answer(v) PROVE IInv'
  BY <1>7, AnswerKeeps
<1>8. CASE Reload
  BY <1>8, ReloadKeeps
<1>9. CASE UNCHANGED vars
  <2>1. UNCHANGED <<metadata, index, text, static, verdict, timer, pull, validation, mixed,
                    dropped, events>>
    BY <1>9 DEF vars, checking
  <2>2. TypeOK'
    BY <2>1, DocumentType DEF IInv, TypeOK, Known
  <2>3. Checked' /\ StaticProblemsFit'
    BY <2>1 DEF IInv, Checked, Validating, StaticProblemsFit, Problems
  <2> QED BY <2>1, <2>2, <2>3, MetadataStays DEF IInv
<1> QED BY <1>1, <1>2, <1>3, <1>4, <1>5, <1>6, <1>7, <1>8, <1>9 DEF Next

THEOREM Invariance == Spec => []IInv
BY InitIInv, NextIInv, PTL DEF Spec

\* The document, the compilations, the pulls and the refreshes keep their types.
THEOREM TypeCorrect == Spec => []TypeOK
<1>1. IInv => TypeOK
  BY DEF IInv
<1> QED BY <1>1, Invariance, PTL

\* The static problems are always those of the text shown, under the index that
\* completion uses: whatever replaces either also computes them again.
THEOREM StaticProblemsAreCurrent == Spec => []StaticProblemsFit
<1>1. IInv => StaticProblemsFit
  BY DEF IInv
<1> QED BY <1>1, Invariance, PTL

\* The problems of the compiler are of the text shown once nothing is in progress, for
\* any number of compilations and of pulls that end or fail, unless the last of them
\* were in the making together or a pull that failed has cleared the text's timer or
\* replaced the text.
THEOREM VerdictsFit == Spec => []VerdictFits
<1>1. IInv => VerdictFits
  BY IdleRecords DEF IInv, Checked, VerdictFits
<1> QED BY <1>1, Invariance, PTL

\* The index is of the ToolKit active in the simulator of the session, once no connect
\* and no refresh is in progress, for any sequence of activations in any simulators,
\* unless two refreshes crossed or one that an activation called for was not made.
THEOREM MetadataIsCurrent == Spec => []MetadataFits
<1>1. IInv => MetadataFits
  <2> SUFFICES ASSUME IInv, connect.pc = "idle", Refreshing = {}, ~missed, ~crossed
               PROVE  session.kit \in {None, index}
    BY DEF MetadataFits
  <2>1. Settled /\ refresh["prime"].pc = "idle"
    BY Values DEF IInv, Vouched, Refreshing
  <2> QED BY <2>1 DEF Settled, Paired
<1> QED BY <1>1, Invariance, PTL
=============================================================================
