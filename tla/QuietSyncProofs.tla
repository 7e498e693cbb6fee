---------------------------- MODULE QuietSyncProofs ----------------------------
(***************************************************************************)
(* What the sync engine guarantees while nobody interferes with a run: the *)
(* baseline it records is the program both sides hold, and it implements   *)
(* two-way synchronisation (TwoWaySync).  For any texts, programs,         *)
(* compilers, records, numbers of edits, waiting runs and answers.         *)
(*                                                                         *)
(* The argument: from await to await a run holds what was compared         *)
(* (Exported), what it compiles and writes is made of that (Compiles), and *)
(* the snapshots a merge starts from are those of the stored baseline      *)
(* (Snapped).                                                              *)
(***************************************************************************)
EXTENDS LiveSyncProofs

\* Nobody writes while a run is in progress, nothing fails, and no version of
\* the sides is declared synchronised that the code does not compare: neither
\* a link without hashes nor the editor's version after a conflict.
Quiet ==
  /\ ~TypingDuringRun /\ ~HostEditsDuringRun /\ ~LegacyLink
  /\ "editor" \notin Acts /\ MaxFaults = 0

\* A baseline of one program.
Good(l) == l.source \in Texts /\ l.host \in Plist /\ l.host.prog = Compile[l.source]

\* The pcs at which a run is about to replace the editor's text or asks whether.
Pulls == {"conflict?", "comparing", "convert"}
Synced == {"savedoc", "snapHost", "snapCompiled", "saving"}
HasCompiled == {"merge", "write", "reexport"} \cup Synced

\* The run r pushes onto a record that exists.
Pushes(r) == r.pc \in {"compile", "merge", "write"} /\ r.host # None

\* What was exported is what the record holds, and the comparison with the
\* baseline still stands.
Exported(r, t, R) ==
  /\ r.pc = "export" => r.link # None /\ r.id = r.link.id
  /\ r.pc \in Pulls \/ Pushes(r) =>
       /\ r.link # None /\ r.id = r.link.id
       /\ r.host \in Plist /\ R[r.id] = r.host
  /\ Pushes(r) => r.host = r.link.host /\ r.source # r.link.source
  /\ r.pc \in Pulls => r.host # r.link.host
  /\ r.pc = "conflict?" => ~r.auto /\ t # r.link.source
  /\ r.pc = "convert" /\ r.auto => t = r.link.source

\* A run that creates a record has none to overwrite.
Creates(r, R) ==
  (r.pc \in {"name?", "missing?"} \/ (r.pc \in {"compile", "write"} /\ r.host = None))
    => (r.link # None => R[r.link.id] = None)

\* What is compiled, merged, written and recorded is the editor's program.
Compiles(r, t, R) ==
  /\ r.pc \in HasCompiled \cup {"compile"} => r.source = t
  /\ r.pc \in HasCompiled => r.compiled = CompiledFrom(t) /\ Compile[t] # None
  /\ r.pc = "write" =>
       r.out = IF r.host = None THEN CompiledFrom(t)
               ELSE Merge(CompiledFrom(r.link.source), CompiledFrom(t), r.host)
  /\ r.pc = "reexport" =>
       r.out \in Plist /\ r.out.prog = Compile[t] /\ R[r.id] = r.out
  /\ r.pc \in Synced =>
       r.host \in Plist /\ r.host.prog = Compile[t] /\ R[r.id] = r.host

Carried(r, t, R) ==
  /\ r.link # None => Good(r.link)
  /\ Exported(r, t, R) /\ Creates(r, R) /\ Compiles(r, t, R)

\* compiled.plist is what the text of baseline l compiles to, if there is one.
SnapFits(s, l) == s.compiled # None => s.compiled = CompiledFrom(l.source)

Switches == {"enable", "disable"}

\* It fits the link, and every link that a switch of Live Sync may put back
\* after an unlink; while a run is saving it fits the run.
Snapped(r, s, q, l) ==
  /\ r.pc = "saving" => s.compiled = r.compiled
  /\ r.pc # "saving" =>
       /\ l # None => SnapFits(s, l)
       /\ \A i \in DOMAIN q :
            (/\ q[i].kind \in Switches
             /\ l = None \/ \E j \in DOMAIN q : j < i /\ q[j].kind = "remove")
              => SnapFits(s, q[i].link)

AllGood(q) == \A i \in DOMAIN q : q[i].link # None => Good(q[i].link)

QInv ==
  /\ Carried(run, text, records)
  /\ Snapped(run, snap, storeQ, link)
  /\ AllGood(storeQ)
  /\ link # None => Good(link)
-----------------------------------------------------------------------------
(***************************************************************************)
(* Programs and plists.                                                    *)
(***************************************************************************)
\* What a valid text compiles to is a plist of its program.
LEMMA CompilesTo ==
  ASSUME NEW t \in Texts, Compile[t] # None
  PROVE  /\ Compile[t] \in Progs
         /\ CompiledFrom(t) \in Plist /\ CompiledFrom(t).prog = Compile[t]
  BY CompileAssumption, ValuesAssumption DEF CompiledFrom, Plist

\* A merge of an edit made since the baseline shows the editor's program.
LEMMA MergeShowsEditor ==
  ASSUME NEW l, NEW t \in Texts, NEW host \in Plist,
         Good(l), Compile[t] # None, host.prog = Compile[l.source]
  PROVE  /\ Merge(CompiledFrom(l.source), CompiledFrom(t), host) \in Plist
         /\ Merge(CompiledFrom(l.source), CompiledFrom(t), host).prog = Compile[t]
<1>1. /\ CompiledFrom(t).prog = Compile[t] /\ Compile[t] \in Progs
      /\ CompiledFrom(l.source).prog = Compile[l.source]
      /\ host.prog \in Progs /\ host.meta \in Metas
  BY CompilesTo DEF CompiledFrom, Plist
<1> QED BY <1>1 DEF Merge, Plist

\* A baseline whose link is exchanged for one with the same baseline.
LEMMA GoodSame ==
  ASSUME NEW l, NEW m, SameBaseline(l, m)
  PROVE  (Good(l) <=> Good(m)) /\ \A s : SnapFits(s, l) <=> SnapFits(s, m)
  BY DEF SameBaseline, Good, SnapFits

\* None is no plist, so that what was exported can be told from nothing.
LEMMA NoneIsNothing == None \notin Plist /\ None \notin Texts /\ None \notin IDs /\ None \notin Progs
  BY NoneAssumption
-----------------------------------------------------------------------------
(***************************************************************************)
(* The queue of link updates.                                              *)
(***************************************************************************)
LEMMA Appended ==
  ASSUME NEW q \in Seq(Update), NEW u \in Update
  PROVE  /\ Append(q, u) \in Seq(Update)
         /\ DOMAIN Append(q, u) = DOMAIN q \cup {Len(q) + 1}
         /\ Append(q, u)[Len(q) + 1] = u
         /\ \A i \in DOMAIN q : Append(q, u)[i] = q[i]
         /\ \A i \in DOMAIN q : i \in Nat /\ i < Len(q) + 1
  OBVIOUS

\* A switch is asked for a link there is: if it comes to put a link back, it is
\* the one in force when an unlink was already waiting.
LEMMA SnappedAppend ==
  ASSUME NEW r, NEW r2, NEW s, NEW q \in Seq(Update), NEW l, NEW u \in Update,
         Snapped(r, s, q, l), r.pc # "saving", r2.pc # "saving",
         u.kind \in Switches => l # None /\ u.link = l
  PROVE  Snapped(r2, s, Append(q, u), l)
<1> DEFINE p == Append(q, u)
<1>1. /\ DOMAIN p = DOMAIN q \cup {Len(q) + 1} /\ p[Len(q) + 1] = u
      /\ \A i \in DOMAIN q : p[i] = q[i]
      /\ \A i \in DOMAIN q : i \in Nat /\ i < Len(q) + 1
  BY Appended
<1>2. Len(q) + 1 \in Nat
  OBVIOUS
<1> HIDE DEF p
<1>3. ASSUME NEW i \in DOMAIN p, p[i].kind \in Switches,
             l = None \/ \E j \in DOMAIN p : j < i /\ p[j].kind = "remove"
      PROVE  SnapFits(s, p[i].link)
  <2>1. CASE i = Len(q) + 1
    BY <1>1, <1>3, <2>1 DEF Snapped
  <2>2. CASE i \in DOMAIN q
    <3>1. l = None \/ \E j \in DOMAIN q : j < i /\ q[j].kind = "remove"
      BY <1>1, <1>2, <1>3, <2>2
    <3> QED BY <1>1, <1>3, <2>2, <3>1 DEF Snapped
  <2> QED BY <1>1, <2>1, <2>2
<1> QED BY <1>3 DEF Snapped, p

\* Everything still fits when only the run moves on.
LEMMA SnappedMoves ==
  ASSUME NEW r, NEW r2, NEW s, NEW q, NEW l,
         Snapped(r, s, q, l), r.pc # "saving", r2.pc # "saving"
  PROVE  Snapped(r2, s, q, l)
  BY DEF Snapped

LEMMA AllGoodAppend ==
  ASSUME NEW q \in Seq(Update), NEW u \in Update, AllGood(q),
         u.link # None => Good(u.link)
  PROVE  AllGood(Append(q, u))
<1> DEFINE p == Append(q, u)
<1>1. /\ DOMAIN p = DOMAIN q \cup {Len(q) + 1} /\ p[Len(q) + 1] = u
      /\ \A i \in DOMAIN q : p[i] = q[i]
  BY Appended
<1> HIDE DEF p
<1> QED BY <1>1 DEF AllGood, p

\* What the callers of a run ask for is about the link there is.
LEMMA CallersAskOfLink ==
  ASSUME NEW result, NEW l \in Link \cup {None}
  PROVE  /\ FollowUps(result, l) \in Seq(Update)
         /\ \A i \in DOMAIN FollowUps(result, l) :
              /\ FollowUps(result, l)[i].link = l /\ l # None
              /\ FollowUps(result, l)[i].kind \in {"pause", "enable"}
<1> DEFINE auto == run.callers \cap {"save", "poll"}
           pauses == auto # {} /\ result \in {"conflict", "missing"} /\ l # None /\ l.live
           enables == "toggle" \in run.callers /\ result = "ok" /\ l # None
           pause == [kind |-> "pause", by |-> IF "poll" \in auto THEN "poll" ELSE "user",
                     reason |-> result, link |-> l]
           p == IF pauses THEN << pause >> ELSE << >>
           e == IF enables THEN << ByUser("enable", l) >> ELSE << >>
           Ours(u) == u.link = l /\ l # None /\ u.kind \in {"pause", "enable"}
<1>1. pauses => pause \in Update /\ Ours(pause)
  BY DEF Update, Updates, Reasons
<1>2. enables => ByUser("enable", l) \in Update /\ Ours(ByUser("enable", l))
  BY DEF Update, Updates, Reasons, ByUser
<1>3. FollowUps(result, l) = p \o e
  BY DEF FollowUps
<1> HIDE DEF pauses, enables, pause, Ours
<1>4. p \in Seq(Update) /\ \A i \in DOMAIN p : Ours(p[i])
  BY <1>1
<1>5. e \in Seq(Update) /\ \A i \in DOMAIN e : Ours(e[i])
  BY <1>2
<1> HIDE DEF p, e
<1>6. p \o e \in Seq(Update)
  BY <1>4, <1>5, Concatenated
<1>7. ASSUME NEW i \in DOMAIN (p \o e)
      PROVE  Ours((p \o e)[i])
  <2>1. \/ i \in DOMAIN p /\ (p \o e)[i] = p[i]
        \/ i - Len(p) \in DOMAIN e /\ (p \o e)[i] = e[i - Len(p)]
    BY <1>4, <1>5, Concatenated
  <2> QED BY <2>1, <1>4, <1>5
<1> QED BY <1>3, <1>6, <1>7 DEF Ours

\* They join the queue behind everything else.
LEMMA SnappedFollowUps ==
  ASSUME NEW result, NEW r, NEW r2, NEW s, NEW q \in Seq(Update), NEW l \in Link \cup {None},
         Snapped(r, s, q, l), r.pc # "saving", r2.pc # "saving",
         AllGood(q), l # None => Good(l)
  PROVE  /\ Snapped(r2, s, q \o FollowUps(result, l), l)
         /\ AllGood(q \o FollowUps(result, l))
<1> DEFINE f == FollowUps(result, l)
           p == q \o f
<1>1. f \in Seq(Update) /\ \A i \in DOMAIN f : /\ f[i].link = l /\ l # None
                                              /\ f[i].kind \in {"pause", "enable"}
  BY CallersAskOfLink
<1>2. /\ DOMAIN q = 1 .. Len(q) /\ Len(q) \in Nat
      /\ DOMAIN f = 1 .. Len(f) /\ Len(f) \in Nat
      /\ DOMAIN p = 1 .. Len(q) + Len(f)
  <2>1. Len(p) = Len(q) + Len(f) /\ p \in Seq(Update)
    BY <1>1, ConcatProperties
  <2> QED BY <1>1, <2>1
<1>3. ASSUME NEW i \in DOMAIN p
      PROVE  \/ i \in DOMAIN q /\ p[i] = q[i]
             \/ i > Len(q) /\ i - Len(q) \in DOMAIN f /\ p[i] = f[i - Len(q)]
  <2>1. p[i] = IF i <= Len(q) THEN q[i] ELSE f[i - Len(q)]
    BY <1>1, <1>2, ConcatProperties
  <2> QED BY <1>2, <2>1
<1> HIDE DEF f, p
<1>4. ASSUME NEW i \in DOMAIN p, p[i].kind \in Switches,
             l = None \/ \E j \in DOMAIN p : j < i /\ p[j].kind = "remove"
      PROVE  SnapFits(s, p[i].link)
  <2>1. CASE i \in DOMAIN q /\ p[i] = q[i]
    <3>1. l = None \/ \E j \in DOMAIN q : j < i /\ q[j].kind = "remove"
      <4>1. ASSUME NEW j \in DOMAIN p, j < i PROVE j \in DOMAIN q /\ p[j] = q[j]
        BY <1>2, <1>3, <2>1, <4>1
      <4> QED BY <1>4, <4>1
    <3> QED BY <1>4, <2>1, <3>1 DEF Snapped
  <2>2. CASE i - Len(q) \in DOMAIN f /\ p[i] = f[i - Len(q)]
    BY <1>1, <2>2 DEF Snapped
  <2> QED BY <1>3, <2>1, <2>2
<1>5. AllGood(p)
  BY <1>1, <1>3 DEF AllGood
<1> QED BY <1>4, <1>5 DEF Snapped, p, f
-----------------------------------------------------------------------------
(***************************************************************************)
(* Runs that end, begin or wait.                                           *)
(***************************************************************************)
\* A run that has read nothing yet carries nothing.
LEMMA CarriesNothing ==
  ASSUME NEW r, NEW t, NEW R, r.pc \in {"idle", "bridge"}, r.link = None
  PROVE  Carried(r, t, R)
  BY DEF Carried, Exported, Creates, Compiles, Pushes, Pulls, HasCompiled, Synced

\* A run that is asked for has read nothing.
LEMMA NewRuns ==
  ASSUME NEW auto \in BOOLEAN, NEW callers
  PROVE  /\ NewRun(auto, callers).pc = "bridge" /\ NewRun(auto, callers).link = None
         /\ NewRun(auto, callers).auto = auto /\ NewRun(auto, callers).callers = callers
         /\ Idle.pc = "idle" /\ Idle.link = None /\ Idle.auto = FALSE /\ Idle.callers = {}
  BY DEF NewRun, Idle

\* Neither has the run behind the one that ends.
LEMMA NextRun ==
  ASSUME NEW result, NEW l, NEW q, Finish(result, l, q)
  PROVE  run'.pc \in {"idle", "bridge"} /\ run'.link = None /\ run'.auto = FALSE
<1>1. run' = Idle \/ run' = NewRun(FALSE, Head(pending))
  BY DEF Finish
<1>2. CASE run' = Idle
  BY <1>2, NewRuns
<1>3. CASE run' = NewRun(FALSE, Head(pending))
  <2>1. FALSE \in BOOLEAN
    OBVIOUS
  <2> QED BY <1>3, <2>1, NewRuns
<1> QED BY <1>1, <1>2, <1>3

\* A run ends: only its callers' updates are new.
LEMMA QuietFinish ==
  ASSUME NEW result, NEW r, NEW q \in Seq(Update), NEW l \in Link \cup {None},
         NEW s, Finish(result, l, q),
         Snapped(r, s, q, l), r.pc # "saving", AllGood(q), l # None => Good(l)
  PROVE  /\ Carried(run', text', records')
         /\ Snapped(run', s, storeQ', l) /\ AllGood(storeQ')
<1>1. run'.pc \in {"idle", "bridge"} /\ run'.link = None
  BY NextRun
<1>2. storeQ' = q \o FollowUps(result, l)
  BY DEF Finish
<1>3. Carried(run', text', records')
  BY <1>1, CarriesNothing
<1>4. run'.pc # "saving"
  BY <1>1
<1>5. Snapped(run', s, q \o FollowUps(result, l), l) /\ AllGood(q \o FollowUps(result, l))
  BY <1>4, SnappedFollowUps
<1> QED BY <1>2, <1>3, <1>5

\* What the invariant says of a run is about what it holds, not for whom it works.
LEMMA SameRun ==
  ASSUME NEW r, NEW r2, NEW t, NEW R, Carried(r, t, R),
         r2.pc = r.pc, r2.auto = r.auto, r2.link = r.link, r2.id = r.id, r2.host = r.host,
         r2.source = r.source, r2.compiled = r.compiled, r2.out = r.out
  PROVE  Carried(r2, t, R) /\ \A s, q, l : Snapped(r, s, q, l) => Snapped(r2, s, q, l)
  BY DEF Carried, Exported, Creates, Compiles, Pushes, Snapped

\* A run reads the link, or there is none and an automatic run ends.
LEMMA QuietRead ==
  ASSUME NEW s, NEW q \in Seq(Update), NEW l \in Link \cup {None},
         run \in Run, run.pc \in {"bridge", "resuming"}, ReadLink(l, q),
         Snapped(run, s, q, l), AllGood(q), l # None => Good(l)
  PROVE  /\ Carried(run', text', records')
         /\ Snapped(run', s, storeQ', l) /\ AllGood(storeQ')
<1>1. CASE l = None /\ run.auto
  <2>1. Finish("unlinked", l, q) /\ run.pc # "saving"
    BY <1>1 DEF ReadLink
  <2> QED BY <2>1, QuietFinish
<1>2. CASE ~(l = None /\ run.auto)
  <2> DEFINE r == [run EXCEPT !.pc = IF l = None THEN "name?" ELSE "export",
                              !.link = l,
                              !.id = IF l = None THEN None ELSE l.id]
  <2>1. run' = r /\ storeQ' = q
    BY <1>2 DEF ReadLink
  <2>2. /\ r.pc = (IF l = None THEN "name?" ELSE "export") /\ r.link = l
        /\ r.id = (IF l = None THEN None ELSE l.id)
    BY DEF Run
  <2> HIDE DEF r
  <2>3. Carried(r, text', records')
    BY <2>2 DEF Carried, Exported, Creates, Compiles, Pushes, Pulls, HasCompiled, Synced
  <2>4. Snapped(r, s, q, l)
    BY <2>2, SnappedMoves
  <2> QED BY <2>1, <2>3, <2>4
<1> QED BY <1>1, <1>2
-----------------------------------------------------------------------------
(***************************************************************************)
(* The steps of everybody but the run.                                     *)
(***************************************************************************)
\* They leave both sides, the snapshots and the link alone: a run may be asked
\* for, and updates that switch Live Sync or concern every link.
ByOthers ==
  /\ UNCHANGED <<text, records, snap, link, edits>>
  /\ \/ run' = run
     \/ \E c \in Callers : run' = [run EXCEPT !.callers = @ \cup {c}]
     \/ /\ run.pc = "idle"
        /\ \E auto \in BOOLEAN, callers \in SUBSET Callers : run' = NewRun(auto, callers)
  /\ \/ storeQ' = storeQ
     \/ \E u \in Update :
          /\ storeQ' = Append(storeQ, u)
          /\ \/ u.kind \in Switches /\ link # None /\ u.link = link
             \/ u.kind \in {"pause all", "resume all"} /\ u.link = None

LEMMA BridgeByOthers ==
  ASSUME BridgeStep \/ UserConnect \/ UserDisconnect
  PROVE  ByOthers
<1>1. /\ UNCHANGED <<text, records, snap, link, edits>> /\ run' = run
      /\ \/ storeQ' = storeQ
         \/ \E by \in {"poll", "user", "stop"} :
              \E u \in {PauseAll(by), ResumeAll(by)} : storeQ' = Append(storeQ, u)
  BY DEF BridgeStep, Probe, ProbeValidates, ProbeResumes, BridgeStarts, BridgeAdopted,
         BridgeStops, UserConnect, UserDisconnect, editorVars, runVars, storeVars, bounds
<1>2. \A by \in {"poll", "user", "stop"} : \A u \in {PauseAll(by), ResumeAll(by)} :
        u \in Update /\ u.kind \in {"pause all", "resume all"} /\ u.link = None
  <2> TAKE by \in {"poll", "user", "stop"}
  <2>1. /\ PauseAll(by) \in Update /\ PauseAll(by).kind = "pause all"
        /\ PauseAll(by).link = None
    BY DEF PauseAll, Update, Updates, Reasons
  <2>2. /\ ResumeAll(by) \in Update /\ ResumeAll(by).kind = "resume all"
        /\ ResumeAll(by).link = None
    BY DEF ResumeAll, Update, Updates, Reasons
  <2> QED BY <2>1, <2>2
<1> QED BY <1>1, <1>2 DEF ByOthers

\* A run asked for starts, or its callers join one that was.
LEMMA AskedFor ==
  ASSUME NEW auto \in BOOLEAN, NEW callers \in SUBSET Callers,
         \/ StartRun(auto, callers)
         \/ \E c \in Callers : JoinRun(c)
         \/ QueueRun(callers)
  PROVE  \/ run' = run
         \/ \E c \in Callers : run' = [run EXCEPT !.callers = @ \cup {c}]
         \/ /\ run.pc = "idle"
            /\ \E a \in BOOLEAN, cs \in SUBSET Callers : run' = NewRun(a, cs)
<1>1. CASE StartRun(auto, callers)
  BY <1>1 DEF StartRun
<1>2. CASE \E c \in Callers : JoinRun(c)
  BY <1>2 DEF JoinRun
<1>3. CASE QueueRun(callers)
  BY <1>3 DEF QueueRun
<1> QED BY <1>1, <1>2, <1>3

LEMMA LiveByOthers ==
  ASSUME Poll \/ UserSave
  PROVE  ByOthers
<1>1. UNCHANGED <<text, records, snap, link, edits>>
  BY DEF Poll, UserSave, RunOnly, editorVars, bounds
<1>2. \/ UNCHANGED <<run, storeQ>>
      \/ /\ UNCHANGED run
         /\ \E by \in {"poll", "user"} : storeQ' = Append(storeQ, PauseAll(by))
      \/ \E c \in {"poll", "save"} : RequestAuto(c) /\ storeQ' = storeQ
  BY DEF Poll, UserSave, runVars
<1>3. \A by \in {"poll", "user"} :
        PauseAll(by) \in Update /\ PauseAll(by).kind = "pause all" /\ PauseAll(by).link = None
  BY DEF PauseAll, Update, Updates, Reasons
<1>4. ASSUME NEW c \in {"poll", "save"}, RequestAuto(c), storeQ' = storeQ
      PROVE  ByOthers
  <2>1. c \in Callers /\ {c} \in SUBSET Callers /\ TRUE \in BOOLEAN
    BY DEF Callers
  <2>2. StartRun(TRUE, {c}) \/ JoinRun(c)
    BY <1>4 DEF RequestAuto
  <2>3. \/ run' = run
        \/ \E d \in Callers : run' = [run EXCEPT !.callers = @ \cup {d}]
        \/ /\ run.pc = "idle"
           /\ \E a \in BOOLEAN, cs \in SUBSET Callers : run' = NewRun(a, cs)
    BY <2>1, <2>2, AskedFor
  <2> QED BY <1>1, <1>4, <2>3 DEF ByOthers
<1> QED BY <1>1, <1>2, <1>3, <1>4 DEF ByOthers

LEMMA CommandsByOthers ==
  ASSUME link \in Link \cup {None}, SyncCommand \/ ToggleLiveSync
  PROVE  ByOthers
<1>1. UNCHANGED <<text, records, snap, link, edits>>
  BY DEF SyncCommand, ToggleLiveSync, storeVars, editorVars, bounds
<1>2. \/ /\ UNCHANGED run /\ link # None
         /\ \E k \in Switches : storeQ' = Append(storeQ, ByUser(k, link))
      \/ \E callers \in {{}, {"toggle"}} :
           RequestInteractive(callers) /\ storeQ' = storeQ
  BY DEF SyncCommand, ToggleLiveSync, storeVars, runVars, HasBaseline, Switches
<1>3. link # None => \A k \in Switches :
        ByUser(k, link) \in Update /\ ByUser(k, link).kind = k /\ ByUser(k, link).link = link
  BY DEF ByUser, Update, Updates, Reasons, Switches
<1>4. ASSUME NEW callers \in {{}, {"toggle"}}, RequestInteractive(callers), storeQ' = storeQ
      PROVE  ByOthers
  <2>1. callers \in SUBSET Callers /\ FALSE \in BOOLEAN
    BY DEF Callers
  <2>2. StartRun(FALSE, callers) \/ QueueRun(callers)
    BY <1>4 DEF RequestInteractive
  <2>3. \/ run' = run
        \/ \E d \in Callers : run' = [run EXCEPT !.callers = @ \cup {d}]
        \/ /\ run.pc = "idle"
           /\ \E a \in BOOLEAN, cs \in SUBSET Callers : run' = NewRun(a, cs)
    BY <2>1, <2>2, AskedFor
  <2> QED BY <1>1, <1>4, <2>3 DEF ByOthers
<1> QED BY <1>1, <1>2, <1>3, <1>4 DEF ByOthers

LEMMA QuietOthers ==
  ASSUME IInv, QInv, ByOthers
  PROVE  QInv'
<1>1. run \in Run /\ storeQ \in Seq(Update)
  BY DEF IInv, TypeOK
<1>2. UNCHANGED <<text, records, snap, link>>
  BY DEF ByOthers
<1>3. /\ Carried(run', text, records)
      /\ Snapped(run', snap, storeQ, link)
      /\ (run'.pc = "saving") <=> (run.pc = "saving")
  <2>1. CASE run' = run
    BY <2>1 DEF QInv
  <2>2. ASSUME NEW c \in Callers, run' = [run EXCEPT !.callers = @ \cup {c}]
        PROVE  <1>3!:
    <3> DEFINE r == [run EXCEPT !.callers = @ \cup {c}]
    <3>1. /\ r.pc = run.pc /\ r.auto = run.auto /\ r.link = run.link /\ r.id = run.id
          /\ r.host = run.host /\ r.source = run.source /\ r.compiled = run.compiled
          /\ r.out = run.out
      BY <1>1 DEF Run
    <3> HIDE DEF r
    <3>2. Carried(r, text, records) /\ Snapped(r, snap, storeQ, link)
      BY <3>1, SameRun DEF QInv
    <3> QED BY <2>2, <3>1, <3>2 DEF r
  <2>3. ASSUME NEW auto \in BOOLEAN, NEW callers \in SUBSET Callers,
               run.pc = "idle", run' = NewRun(auto, callers)
        PROVE  <1>3!:
    <3>1. run'.pc = "bridge" /\ run'.link = None
      BY <2>3, NewRuns
    <3> QED BY <2>3, <3>1, CarriesNothing, SnappedMoves DEF QInv
  <2> QED BY <2>1, <2>2, <2>3 DEF ByOthers
<1>4. Snapped(run', snap, storeQ', link) /\ AllGood(storeQ')
  <2>1. CASE storeQ' = storeQ
    BY <1>3, <2>1 DEF QInv
  <2>2. ASSUME NEW u \in Update, storeQ' = Append(storeQ, u),
               \/ u.kind \in Switches /\ link # None /\ u.link = link
               \/ u.kind \in {"pause all", "resume all"} /\ u.link = None
        PROVE  <1>4!:
    <3>1. u.link # None => Good(u.link)
      BY <2>2 DEF QInv
    <3>2. u.kind \in Switches => link # None /\ u.link = link
      BY <2>2 DEF Switches
    <3>3. Snapped(run', snap, Append(storeQ, u), link)
      <4>1. CASE run'.pc = "saving"
        BY <1>3, <4>1 DEF Snapped
      <4>2. CASE run'.pc # "saving"
        BY <1>1, <1>3, <3>2, <4>2, SnappedAppend
      <4> QED BY <4>1, <4>2
    <3>4. AllGood(Append(storeQ, u))
      BY <1>1, <3>1, AllGoodAppend DEF QInv
    <3> QED BY <2>2, <3>3, <3>4
  <2> QED BY <2>1, <2>2 DEF ByOthers
<1> QED BY <1>2, <1>3, <1>4 DEF QInv
-----------------------------------------------------------------------------
(***************************************************************************)
(* The steps of the run: three ways to leave an await, then step by step.  *)
(***************************************************************************)
LEMMA QuietGoes ==
  ASSUME QInv, NEW r, Goes(r), UNCHANGED <<snap, link>>,
         run.pc # "saving", r.pc # "saving", Carried(r, text', records')
  PROVE  QInv'
<1>1. run' = r /\ storeQ' = storeQ
  BY DEF Goes
<1>2. Snapped(r, snap, storeQ, link)
  BY SnappedMoves DEF QInv
<1> QED BY <1>1, <1>2 DEF QInv

LEMMA QuietAsks ==
  ASSUME IInv, QInv, NEW r, NEW u \in Update, run' = r, storeQ' = Append(storeQ, u),
         UNCHANGED <<snap, link>>, run.pc # "saving", r.pc # "saving",
         u.kind \notin Switches, u.link \in {None, run.link}, Carried(r, text', records')
  PROVE  QInv'
<1>1. storeQ \in Seq(Update)
  BY DEF IInv, TypeOK
<1>2. Snapped(r, snap, Append(storeQ, u), link)
  BY <1>1, SnappedAppend DEF QInv
<1>3. u.link # None => Good(u.link)
  BY DEF QInv, Carried
<1>4. AllGood(Append(storeQ, u))
  BY <1>1, <1>3, AllGoodAppend DEF QInv
<1> QED BY <1>2, <1>4 DEF QInv

LEMMA QuietEnds ==
  ASSUME IInv, QInv, NEW result, Finish(result, link, storeQ), UNCHANGED <<snap, link>>,
         run.pc # "saving"
  PROVE  QInv'
<1>1. storeQ \in Seq(Update) /\ link \in Link \cup {None}
  BY DEF IInv, TypeOK
<1>2. /\ Carried(run', text', records')
      /\ Snapped(run', snap, storeQ', link) /\ AllGood(storeQ')
  BY <1>1, QuietFinish DEF QInv
<1> QED BY <1>2 DEF QInv

\* The run in progress and the link it decides by.
LEMMA Held ==
  ASSUME IInv
  PROVE  /\ run \in Run /\ Shape(run) /\ storeQ \in Seq(Update)
         /\ text \in Texts /\ records \in [IDs -> Plist \cup {None}]
         /\ link \in Link \cup {None}
         /\ (run.pc \in Deciding /\ run.link # None) => SameBaseline(link, run.link)
  BY DEF IInv, TypeOK, State, Decides

LEMMA QuietConnects ==
  ASSUME IInv, QInv, BridgeAnswers \/ BridgeSilent \/ RunConnects \/ RunAdopts
  PROVE  QInv'
<1>0. run \in Run /\ storeQ \in Seq(Update) /\ link \in Link \cup {None}
  BY Held
<1>1. CASE BridgeAnswers
  <2>1. run.pc = "bridge" /\ ReadLink(link, storeQ) /\ UNCHANGED <<snap, link>>
    BY <1>1 DEF BridgeAnswers, At, RunOnly
  <2>2. /\ Carried(run', text', records')
        /\ Snapped(run', snap, storeQ', link) /\ AllGood(storeQ')
    BY <1>0, <2>1, QuietRead DEF QInv
  <2> QED BY <2>1, <2>2 DEF QInv
<1>2. ASSUME NEW pc \in {"connect", "adopt", "resuming"}
      PROVE  /\ [run EXCEPT !.pc = pc].pc = pc
             /\ Carried([run EXCEPT !.pc = pc], text, records)
  <2> DEFINE r == [run EXCEPT !.pc = pc]
  <2>1. r.pc = pc /\ r.link = run.link
    BY <1>0 DEF Run
  <2> HIDE DEF r
  <2>2. Carried(r, text, records)
    BY <2>1 DEF QInv, Carried, Exported, Creates, Compiles, Pushes, Pulls, HasCompiled, Synced
  <2> QED BY <2>1, <2>2 DEF r
<1>3. CASE BridgeSilent
  <2>1. /\ run.pc = "bridge" /\ Goes([run EXCEPT !.pc = "connect"])
        /\ UNCHANGED <<text, records, snap, link>>
    BY <1>3 DEF BridgeSilent, At, editorVars
  <2> QED BY <1>2, <2>1, QuietGoes
<1>4. CASE RunConnects
  <2>1. /\ run.pc = "connect" /\ Goes([run EXCEPT !.pc = "adopt"])
        /\ UNCHANGED <<text, records, snap, link>>
    BY <1>4 DEF RunConnects, At, editorVars
  <2> QED BY <1>2, <2>1, QuietGoes
<1>5. CASE RunAdopts
  <2>1. /\ run.pc = "adopt" /\ run' = [run EXCEPT !.pc = "resuming"]
        /\ storeQ' = Append(storeQ, ResumeAll("run"))
        /\ UNCHANGED <<text, records, snap, link>>
    BY <1>5 DEF RunAdopts, At, editorVars
  <2>2. /\ ResumeAll("run") \in Update /\ ResumeAll("run").kind \notin Switches
        /\ ResumeAll("run").link = None
    BY DEF ResumeAll, Update, Updates, Reasons, Switches
  <2> QED BY <1>2, <2>1, <2>2, QuietAsks
<1> QED BY <1>1, <1>3, <1>4, <1>5

\* What a run that compiles the editor's text holds.
LEMMA CompilingHolds ==
  ASSUME NEW r \in Run, NEW host \in Plist \cup {None}
  PROVE  /\ Compiling(r, host).pc = "compile" /\ Compiling(r, host).host = host
         /\ Compiling(r, host).source = text /\ Compiling(r, host).link = r.link
         /\ Compiling(r, host).id = r.id
<1> DEFINE c == Compiling(r, host)
<1>1. c.source = text /\ c.host = host
  BY DEF Compiling, Run
<1>2. c.id = r.id /\ c.link = r.link /\ c.pc = "compile"
  BY DEF Compiling, Run
<1> QED BY <1>1, <1>2

LEMMA QuietExports ==
  ASSUME IInv, QInv, ExportMissing \/ ExportHost
  PROVE  QInv'
<1>0. /\ run \in Run /\ run.pc = "export" /\ run.link \in Link
      /\ UNCHANGED <<text, records, snap, link>>
  BY Held DEF ExportMissing, ExportHost, At, RunOnly, editorVars, Shape, HasLink
<1>1. Good(run.link) /\ run.id = run.link.id /\ run.link.id \in IDs
  BY <1>0, NoLinkAssumption DEF QInv, Carried, Exported, Link
<1>2. CASE ExportMissing
  <2> DEFINE r == [run EXCEPT !.pc = "missing?"]
  <2>1. records[run.link.id] = None /\ (Finish("missing", link, storeQ) \/ Goes(r))
    BY <1>2 DEF ExportMissing
  <2>2. r.pc = "missing?" /\ r.link = run.link
    BY <1>0 DEF Run
  <2> HIDE DEF r
  <2>3. Carried(r, text, records)
    BY <1>1, <2>1, <2>2
       DEF Carried, Exported, Creates, Compiles, Pushes, Pulls, HasCompiled, Synced
  <2> QED BY <1>0, <2>1, <2>2, <2>3, QuietGoes, QuietEnds
<1>3. CASE ExportHost
  <2> DEFINE host == records[run.link.id]
             read == [run EXCEPT !.host = host]
             action == SyncAction(run.link, text, host)
  <2>1. host \in Plist
    BY <1>1, <1>3, Held DEF ExportHost
  <2>2. /\ read \in Run /\ read.host = host /\ read.link = run.link
        /\ read.id = run.id /\ read.auto = run.auto
    BY <1>0, <2>1 DEF Run
  <2>3. /\ action = "push" => text # run.link.source /\ host = run.link.host
        /\ action = "pull" => text = run.link.source /\ host # run.link.host
        /\ action = "conflict" => text # run.link.source /\ host # run.link.host
        /\ action # "initialize"
    BY <1>1, NoneIsNothing DEF SyncAction, Good
  <2>4. records[run.link.id] = host /\ run.link # None /\ host # None
    BY <1>0, <2>1, NoneIsNothing, NoLinkAssumption
  <2>5. \/ action \in {"initialize", "push"} /\ Goes(Compiling(read, host))
        \/ action = "pull" /\ Goes([read EXCEPT !.pc = "convert"])
        \/ Finish("ok", link, storeQ)
        \/ /\ run' = [read EXCEPT !.pc = "noting"]
           /\ storeQ' = Append(storeQ, ByRun("note"))
        \/ Finish("conflict", link, storeQ)
        \/ action = "conflict" /\ ~run.auto /\ Goes([read EXCEPT !.pc = "conflict?"])
    BY <1>3 DEF ExportHost
  <2> HIDE DEF host, read, action
  <2>6. CASE action \in {"initialize", "push"} /\ Goes(Compiling(read, host))
    <3> DEFINE r == Compiling(read, host)
    <3>1. /\ r.pc = "compile" /\ r.host = host /\ r.source = text /\ r.link = run.link
          /\ r.id = run.id
      BY <2>1, <2>2, CompilingHolds
    <3> HIDE DEF r
    <3>2. Carried(r, text, records)
      BY <1>1, <2>1, <2>3, <2>4, <2>6, <3>1
         DEF Carried, Exported, Creates, Compiles, Pushes, Pulls, HasCompiled, Synced
    <3> QED BY <1>0, <2>6, <3>1, <3>2, QuietGoes DEF r
  <2>7. ASSUME NEW pc \in {"convert", "conflict?"},
               pc = "convert" => action = "pull",
               pc = "conflict?" => action = "conflict" /\ ~run.auto,
               Goes([read EXCEPT !.pc = pc])
        PROVE  QInv'
    <3> DEFINE r == [read EXCEPT !.pc = pc]
    <3>1. /\ r.pc = pc /\ r.host = host /\ r.link = run.link /\ r.id = run.id
          /\ r.auto = run.auto
      BY <2>2 DEF Run
    <3> HIDE DEF r
    <3>2. Carried(r, text, records)
      BY <1>1, <2>1, <2>3, <2>4, <2>7, <3>1
         DEF Carried, Exported, Creates, Compiles, Pushes, Pulls, HasCompiled, Synced
    <3> QED BY <1>0, <2>7, <3>1, <3>2, QuietGoes DEF r
  <2>8. CASE /\ run' = [read EXCEPT !.pc = "noting"]
             /\ storeQ' = Append(storeQ, ByRun("note"))
    <3> DEFINE r == [read EXCEPT !.pc = "noting"]
    <3>1. r.pc = "noting" /\ r.link = run.link
      BY <2>2 DEF Run
    <3>2. /\ ByRun("note") \in Update /\ ByRun("note").kind \notin Switches
          /\ ByRun("note").link = run.link
      BY <1>0 DEF ByRun, Update, Updates, Reasons, Switches
    <3> HIDE DEF r
    <3>3. Carried(r, text, records)
      BY <1>1, <3>1 DEF Carried, Exported, Creates, Compiles, Pushes, Pulls, HasCompiled, Synced
    <3> QED BY <1>0, <2>8, <3>1, <3>2, <3>3, QuietAsks DEF r
  <2> QED BY <1>0, <2>5, <2>6, <2>7, <2>8, QuietEnds
<1> QED BY <1>2, <1>3

LEMMA QuietAnswers ==
  ASSUME IInv, QInv, Quiet, Answer
  PROVE  QInv'
<1>0. run \in Run /\ UNCHANGED <<text, records, snap, link>>
  BY Held DEF Answer, AnswerName, AnswerMissing, AnswerConflict, RunOnly, editorVars
<1>1. ASSUME NEW r \in Run, r.link = run.link, run.pc \in {"name?", "missing?"},
             Goes(Compiling(r, None))
      PROVE  QInv'
  <2> DEFINE c == Compiling(r, None)
  <2>1. c.pc = "compile" /\ c.host = None /\ c.source = text /\ c.link = run.link
    BY <1>1, CompilingHolds
  <2> HIDE DEF c
  <2>2. Carried(c, text, records)
    BY <1>1, <2>1
       DEF QInv, Carried, Exported, Creates, Compiles, Pushes, Pulls, HasCompiled, Synced
  <2> QED BY <1>0, <1>1, <2>1, <2>2, QuietGoes DEF c
<1>2. CASE AnswerName
  <2>1. run.pc = "name?" /\ (Goes(Compiling(run, None)) \/ Finish("undefined", link, storeQ))
    BY <1>2 DEF AnswerName, At
  <2> QED BY <1>0, <1>1, <2>1, QuietEnds
<1>3. CASE AnswerMissing
  <2>1. /\ run.pc = "missing?"
        /\ \/ Goes(Compiling([run EXCEPT !.id = None], None))
           \/ /\ run' = [run EXCEPT !.pc = "unlinking"]
              /\ storeQ' = Append(storeQ, ByRun("remove"))
           \/ Finish("undefined", link, storeQ)
    BY <1>3 DEF AnswerMissing, At
  <2>2. CASE Goes(Compiling([run EXCEPT !.id = None], None))
    <3>1. [run EXCEPT !.id = None] \in Run /\ [run EXCEPT !.id = None].link = run.link
      BY <1>0 DEF Run
    <3> QED BY <1>1, <2>1, <2>2, <3>1
  <2>3. CASE /\ run' = [run EXCEPT !.pc = "unlinking"]
             /\ storeQ' = Append(storeQ, ByRun("remove"))
    <3> DEFINE r == [run EXCEPT !.pc = "unlinking"]
    <3>1. r.pc = "unlinking" /\ r.link = run.link /\ run.link \in Link \cup {None}
      BY <1>0 DEF Run
    <3>2. /\ ByRun("remove") \in Update /\ ByRun("remove").kind \notin Switches
          /\ ByRun("remove").link = run.link
      BY <3>1 DEF ByRun, Update, Updates, Reasons, Switches
    <3> HIDE DEF r
    <3>3. Carried(r, text, records)
      BY <3>1 DEF QInv, Carried, Exported, Creates, Compiles, Pushes, Pulls, HasCompiled, Synced
    <3> QED BY <1>0, <2>1, <2>3, <3>1, <3>2, <3>3, QuietAsks DEF r
  <2> QED BY <1>0, <2>1, <2>2, <2>3, QuietEnds
<1>4. CASE AnswerConflict
  <2>1. /\ run.pc = "conflict?"
        /\ \/ \E pc \in {"convert", "comparing"} : Goes([run EXCEPT !.pc = pc])
           \/ Finish("undefined", link, storeQ)
    BY <1>4 DEF AnswerConflict, At, Quiet
  <2>2. ASSUME NEW pc \in {"convert", "comparing"}, Goes([run EXCEPT !.pc = pc])
        PROVE  QInv'
    <3> DEFINE r == [run EXCEPT !.pc = pc]
    <3>1. /\ r.pc = pc /\ r.link = run.link /\ r.id = run.id /\ r.host = run.host
          /\ r.auto = run.auto
      BY <1>0 DEF Run
    <3> HIDE DEF r
    <3>2. Carried(r, text, records)
      BY <2>1, <3>1
         DEF QInv, Carried, Exported, Creates, Compiles, Pushes, Pulls, HasCompiled, Synced
    <3> QED BY <1>0, <2>1, <2>2, <3>1, <3>2, QuietGoes DEF r
  <2> QED BY <1>0, <2>1, <2>2, QuietEnds
<1> QED BY <1>2, <1>3, <1>4 DEF Answer

\* The local program is compiled, and merged with the record when there is one.
LEMMA QuietCompiles ==
  ASSUME IInv, QInv, CompileLocal \/ MergeWithHost
  PROVE  QInv'
<1>0. /\ run \in Run /\ text \in Texts /\ UNCHANGED <<text, records, snap, link>>
  BY Held DEF CompileLocal, MergeWithHost, RunOnly, editorVars
<1>1. CASE CompileLocal
  <2>1. run.pc = "compile" /\ run.source = text /\ Compile[text] # None
    BY <1>1 DEF CompileLocal, At, Answers, QInv, Carried, Compiles
  <2> DEFINE plist == CompiledFrom(text)
             done == [run EXCEPT !.compiled = plist, !.source = text]
  <2>2. plist \in Plist
    BY <1>0, <2>1, CompilesTo
  <2>3. run.host # None => run.link # None /\ Good(run.link)
    BY <2>1 DEF QInv, Carried, Exported, Pushes
  <2>4. \/ run.host = None /\ Goes([done EXCEPT !.pc = "write", !.out = plist])
        \/ run.host # None /\ Goes([done EXCEPT !.pc = "merge"])
    <3>1. run.host # None => run.link.source # None /\ run.link.host # None
      BY <2>3, NoneIsNothing DEF Good
    <3> QED BY <1>1, <2>1, <3>1 DEF CompileLocal
  <2> HIDE DEF plist
  <2>5. /\ done \in Run /\ done.link = run.link /\ done.id = run.id
        /\ done.host = run.host /\ done.compiled = plist /\ done.source = text
    BY <1>0, <2>2 DEF Run
  <2> HIDE DEF done
  <2>6. CASE run.host = None /\ Goes([done EXCEPT !.pc = "write", !.out = plist])
    <3> DEFINE r == [done EXCEPT !.pc = "write", !.out = plist]
    <3>1. /\ r.pc = "write" /\ r.out = plist /\ r.link = run.link /\ r.host = None
          /\ r.source = text /\ r.compiled = plist
      BY <2>5, <2>6 DEF Run
    <3> HIDE DEF r
    <3>2. Carried(r, text, records)
      BY <2>1, <2>6, <3>1
         DEF plist, QInv, Carried, Exported, Creates, Compiles, Pushes, Pulls, HasCompiled, Synced
    <3> QED BY <1>0, <2>1, <2>6, <3>1, <3>2, QuietGoes DEF r
  <2>7. CASE run.host # None /\ Goes([done EXCEPT !.pc = "merge"])
    <3> DEFINE r == [done EXCEPT !.pc = "merge"]
    <3>1. /\ r.pc = "merge" /\ r.link = run.link /\ r.id = run.id /\ r.host = run.host
          /\ r.source = text /\ r.compiled = plist
      BY <2>5 DEF Run
    <3> HIDE DEF r
    <3>2. Carried(r, text, records)
      BY <2>1, <2>7, <3>1
         DEF plist, QInv, Carried, Exported, Creates, Compiles, Pushes, Pulls, HasCompiled, Synced
    <3> QED BY <1>0, <2>1, <2>7, <3>1, <3>2, QuietGoes DEF r
  <2> QED BY <2>4, <2>6, <2>7
<1>2. CASE MergeWithHost
  <2>1. run.pc = "merge"
    BY <1>2 DEF MergeWithHost, At
  <2>2. /\ run.link \in Link /\ run.link # None /\ run.host \in Plist /\ run.host # None
        /\ run.compiled = CompiledFrom(text)
    BY <2>1, Held, NoLinkAssumption, NoneIsNothing
       DEF Shape, HasLink, HasHost, QInv, Carried, Compiles, HasCompiled
  <2>3. SameBaseline(link, run.link)
    BY <2>1, <2>2, Held DEF Deciding, Pcs
  <2>4. SnapFits(snap, run.link)
    <3>1. SnapFits(snap, link)
      BY <2>1, <2>3 DEF QInv, Snapped, SameBaseline
    <3> QED BY <2>3, <3>1, GoodSame
  <2> DEFINE out == Merge(snap.compiled, run.compiled, run.host)
             r == [run EXCEPT !.pc = "write", !.out = out]
  <2>5. \/ Finish("error", link, storeQ)
        \/ snap.compiled # None /\ Goes(r)
    BY <1>2 DEF MergeWithHost
  <2>6. /\ r.pc = "write" /\ r.out = out /\ r.link = run.link /\ r.id = run.id
        /\ r.host = run.host /\ r.source = run.source /\ r.compiled = run.compiled
    BY <1>0 DEF Run
  <2>7. snap.compiled # None
          => out = Merge(CompiledFrom(run.link.source), CompiledFrom(text), run.host)
    BY <2>2, <2>4 DEF SnapFits
  <2> HIDE DEF r, out
  <2>8. snap.compiled # None => Carried(r, text, records)
    BY <2>1, <2>2, <2>6, <2>7
       DEF QInv, Carried, Exported, Creates, Compiles, Pushes, Pulls, HasCompiled, Synced
  <2> QED BY <1>0, <2>1, <2>5, <2>6, <2>8, QuietGoes, QuietEnds
<1> QED BY <1>1, <1>2

\* A run that fails, or that shows the host's version, ends and leaves all alone.
LEMMA QuietGivesUp ==
  ASSUME IInv, QInv, CompareShown \/ NotCompiled \/ RecordGone
  PROVE  QInv'
<1>1. /\ run.pc # "saving" /\ UNCHANGED <<snap, link>>
      /\ Finish("error", link, storeQ) \/ Finish("conflict", link, storeQ)
  BY DEF CompareShown, NotCompiled, RecordGone, At, RunOnly
<1> QED BY <1>1, QuietEnds

\* Nothing fails, no answer is lost.
LEMMA NoFault ==
  ASSUME IInv, Quiet
  PROVE  ~Fault
<1>1. faults \in Nat /\ MaxFaults = 0
  BY DEF IInv, TypeOK, Quiet
<1> QED BY <1>1 DEF Fault

\* The merged program is written, and read back.
LEMMA QuietWrites ==
  ASSUME IInv, QInv, Quiet, WriteHost \/ Reexport
  PROVE  QInv'
<1>0. /\ run \in Run /\ text \in Texts /\ records \in [IDs -> Plist \cup {None}]
      /\ UNCHANGED <<text, snap, link>>
  BY Held DEF WriteHost, Reexport, RunOnly, editorVars
<1>1. CASE WriteHost
  <2>1. run.pc = "write" /\ ~Fault
    BY <1>1, NoFault DEF WriteHost, At
  <2>2. PICK id \in IDs : /\ records' = [records EXCEPT ![id] = run.out]
                          /\ Goes([run EXCEPT !.pc = "reexport", !.id = id])
    BY <1>1, <2>1 DEF WriteHost
  <2> DEFINE r == [run EXCEPT !.pc = "reexport", !.id = id]
  <2>3. /\ r.pc = "reexport" /\ r.id = id /\ r.link = run.link /\ r.source = run.source
        /\ r.compiled = run.compiled /\ r.out = run.out
    BY <1>0 DEF Run
  <2>4. Goes(r)
    BY <2>2
  <2> HIDE DEF r
  <2>5. run.source = text /\ run.compiled = CompiledFrom(text) /\ Compile[text] # None
    BY <2>1 DEF QInv, Carried, Compiles, HasCompiled
  <2>6. run.out \in Plist /\ run.out.prog = Compile[text]
    <3>1. CASE run.host = None
      BY <1>0, <2>1, <2>5, <3>1, CompilesTo DEF QInv, Carried, Compiles
    <3>2. CASE run.host # None
      <4>1. /\ run.link # None /\ Good(run.link) /\ run.host \in Plist
            /\ run.host.prog = Compile[run.link.source]
            /\ run.out = Merge(CompiledFrom(run.link.source), CompiledFrom(text), run.host)
        BY <2>1, <3>2 DEF QInv, Carried, Exported, Compiles, Pushes, Good
      <4> QED BY <1>0, <2>5, <4>1, MergeShowsEditor
    <3> QED BY <3>1, <3>2
  <2>7. records'[id] = run.out
    BY <1>0, <2>2
  <2>8. Carried(r, text, records')
    BY <2>3, <2>5, <2>6, <2>7
       DEF QInv, Carried, Exported, Creates, Compiles, Pushes, Pulls, HasCompiled, Synced
  <2> QED BY <1>0, <2>1, <2>3, <2>4, <2>8, QuietGoes
<1>2. CASE Reexport
  <2> DEFINE r == [run EXCEPT !.pc = "snapHost", !.host = records[run.id]]
  <2>1. run.pc = "reexport" /\ Goes(r) /\ UNCHANGED records
    BY <1>2 DEF Reexport, At, RunOnly
  <2>2. records[run.id] = run.out /\ run.out \in Plist /\ run.out.prog = Compile[text]
    BY <2>1 DEF QInv, Carried, Compiles
  <2>3. /\ r.pc = "snapHost" /\ r.id = run.id /\ r.link = run.link /\ r.source = run.source
        /\ r.compiled = run.compiled /\ r.host = run.out
    BY <1>0, <2>2 DEF Run
  <2> HIDE DEF r
  <2>4. Carried(r, text, records)
    BY <2>1, <2>2, <2>3
       DEF QInv, Carried, Exported, Creates, Compiles, Pushes, Pulls, HasCompiled, Synced
  <2> QED BY <1>0, <2>1, <2>3, <2>4, QuietGoes
<1> QED BY <1>1, <1>2

\* The editor takes over the program of the record.
LEMMA QuietPulls ==
  ASSUME IInv, QInv, ReplaceEditor \/ SaveDocument
  PROVE  QInv'
<1>0. run \in Run /\ UNCHANGED <<records, snap, link>>
  BY Held DEF ReplaceEditor, SaveDocument
<1>1. CASE ReplaceEditor
  <2> DEFINE source == Decompile[run.host.prog]
             plist == CompiledFrom(source)
             r == [run EXCEPT !.pc = "savedoc", !.source = source, !.compiled = plist]
  <2>1. run.pc = "convert" /\ text' = source /\ Goes(r)
    BY <1>1 DEF ReplaceEditor, At
  <2>2. run.host \in Plist /\ records[run.id] = run.host
    BY <2>1 DEF QInv, Carried, Exported, Pulls
  <2>3. run.host.prog \in Progs /\ Compile[source] = run.host.prog
    BY <2>2, CompileAssumption DEF Plist
  <2>4. Compile[source] # None
    BY <2>3, NoneIsNothing
  <2> HIDE DEF plist, source
  <2>5. /\ r.pc = "savedoc" /\ r.id = run.id /\ r.link = run.link /\ r.source = source
        /\ r.compiled = plist /\ r.host = run.host
    BY <1>0 DEF Run
  <2> HIDE DEF r
  <2>6. Carried(r, text', records')
    BY <1>0, <2>1, <2>2, <2>3, <2>4, <2>5
       DEF plist, QInv, Carried, Exported, Creates, Compiles, Pushes, Pulls, HasCompiled, Synced
  <2> QED BY <1>0, <2>1, <2>5, <2>6, QuietGoes
<1>2. CASE SaveDocument
  <2> DEFINE r == [run EXCEPT !.pc = "snapHost"]
  <2>1. run.pc = "savedoc" /\ Goes(r) /\ UNCHANGED text
    BY <1>2 DEF SaveDocument, At
  <2>2. /\ r.pc = "snapHost" /\ r.id = run.id /\ r.link = run.link /\ r.source = run.source
        /\ r.compiled = run.compiled /\ r.host = run.host
    BY <1>0 DEF Run
  <2> HIDE DEF r
  <2>3. Carried(r, text, records)
    BY <2>1, <2>2
       DEF QInv, Carried, Exported, Creates, Compiles, Pushes, Pulls, HasCompiled, Synced
  <2> QED BY <1>0, <2>1, <2>2, <2>3, QuietGoes
<1> QED BY <1>1, <1>2

\* The snapshots are written, the baseline is asked for, or both are dropped.
LEMMA QuietSnapshots ==
  ASSUME IInv, QInv, WriteHostSnapshot \/ WriteCompiledSnapshot \/ DeleteSnapshots
  PROVE  QInv'
<1>0. /\ run \in Run /\ storeQ \in Seq(Update) /\ link \in Link \cup {None}
      /\ snap \in [host : Plist \cup {None}, compiled : Plist \cup {None}]
      /\ UNCHANGED <<text, records, link>>
  BY Held DEF WriteHostSnapshot, WriteCompiledSnapshot, DeleteSnapshots, editorVars, IInv, TypeOK
<1>1. ASSUME NEW pc \in {"snapCompiled", "saving"},
             run.pc \in {"snapHost", "snapCompiled"}
      PROVE  Carried([run EXCEPT !.pc = pc], text, records)
  <2> DEFINE r == [run EXCEPT !.pc = pc]
  <2>1. /\ r.pc = pc /\ r.id = run.id /\ r.link = run.link /\ r.source = run.source
        /\ r.compiled = run.compiled /\ r.host = run.host
    BY <1>0 DEF Run
  <2> HIDE DEF r
  <2> QED BY <1>1, <2>1
          DEF r, QInv, Carried, Exported, Creates, Compiles, Pushes, Pulls, HasCompiled, Synced
<1>2. CASE WriteHostSnapshot
  <2> DEFINE r == [run EXCEPT !.pc = "snapCompiled"]
  <2>1. /\ run.pc = "snapHost" /\ run' = r /\ storeQ' = storeQ
        /\ snap' = [snap EXCEPT !.host = run.host]
    BY <1>2 DEF WriteHostSnapshot, At, Goes
  <2>2. snap'.compiled = snap.compiled /\ r.pc = "snapCompiled"
    BY <1>0, <2>1 DEF Run
  <2>3. Carried(r, text, records)
    BY <1>1, <2>1
  <2> HIDE DEF r
  <2>4. Snapped(r, snap', storeQ, link)
    BY <2>1, <2>2 DEF QInv, Snapped, SnapFits
  <2> QED BY <1>0, <2>1, <2>3, <2>4 DEF QInv
<1>3. CASE WriteCompiledSnapshot
  <2> DEFINE r == [run EXCEPT !.pc = "saving"]
  <2>1. /\ run.pc = "snapCompiled" /\ run' = r /\ storeQ' = Append(storeQ, ByRun("baseline"))
        /\ snap' = [snap EXCEPT !.compiled = run.compiled]
    BY <1>3 DEF WriteCompiledSnapshot, At
  <2>2. snap'.compiled = run.compiled /\ r.pc = "saving" /\ r.compiled = run.compiled
    BY <1>0, <2>1 DEF Run
  <2>3. Carried(r, text, records)
    BY <1>1, <2>1
  <2> HIDE DEF r
  <2>4. run.link \in Link \cup {None}
    BY <1>0 DEF Run
  <2>5. ByRun("baseline") \in Update /\ ByRun("baseline").link = run.link
    BY <2>4 DEF ByRun, Update, Updates, Reasons
  <2>6. AllGood(Append(storeQ, ByRun("baseline")))
    BY <1>0, <2>5, AllGoodAppend DEF QInv, Carried
  <2>7. Snapped(r, snap', storeQ', link)
    BY <2>2 DEF Snapped
  <2> QED BY <1>0, <2>1, <2>3, <2>6, <2>7 DEF QInv
<1>4. CASE DeleteSnapshots
  <2>1. run.pc = "deleting" /\ snap' = NoSnap /\ Finish("unlink", link, storeQ)
    BY <1>4 DEF DeleteSnapshots, At
  <2>2. Snapped(run, NoSnap, storeQ, link)
    BY <2>1 DEF Snapped, SnapFits, NoSnap
  <2>3. /\ Carried(run', text', records')
        /\ Snapped(run', NoSnap, storeQ', link) /\ AllGood(storeQ')
    BY <1>0, <2>1, <2>2, QuietFinish DEF QInv
  <2> QED BY <1>0, <2>1, <2>3 DEF QInv
<1> QED BY <1>2, <1>3, <1>4

\* While nothing fails, no step is a failure.
LEMMA NothingFails ==
  ASSUME IInv, Quiet
  PROVE  ~Failure
  BY NoFault DEF Failure, RunConnectFails, CommandFails, BridgeStartFails, BridgeStopFails,
                 BridgeDies, Reload

\* The user edits between the runs: no run holds anything then.
LEMMA QuietEdits ==
  ASSUME IInv, QInv, Quiet, UserType \/ HostEdit
  PROVE  QInv'
<1>1. run.pc = "idle" /\ UNCHANGED <<run, storeQ, snap, link>>
  BY DEF UserType, HostEdit, Quiet, At, storeVars, runVars
<1>2. Carried(run, text', records')
  BY <1>1 DEF QInv, Carried, Exported, Creates, Compiles, Pushes, Pulls, HasCompiled, Synced
<1> QED BY <1>1, <1>2 DEF QInv
-----------------------------------------------------------------------------
(***************************************************************************)
(* The updates of the link.                                                *)
(***************************************************************************)
\* The run that saves gets a link of the versions it holds.
LEMMA BaselineRecorded ==
  ASSUME IInv, storeQ # <<>>, Head(storeQ).kind = "baseline"
  PROVE  LET l == Updated(Head(storeQ)) IN
         /\ run.pc = "saving"
         /\ l # None /\ l.id = run.id /\ l.source = run.source /\ l.host = run.host
<1> DEFINE u == Head(storeQ)
           live == CurrentLink(u) # None /\ CurrentLink(u).live
<1>1. storeQ \in Seq(Update) /\ run \in Run /\ Shape(run) /\ link \in Link \cup {None}
  BY Held
<1>2. u \in Update /\ 1 \in DOMAIN storeQ /\ u = storeQ[1]
  BY <1>1, Popped
<1>3. run.pc = "saving"
  BY <1>2 DEF IInv, State, Queue, UpdateShape, Fits
<1>4. /\ run.id \in IDs /\ run.source \in Texts \cup {None} /\ run.host \in Plist \cup {None}
      /\ live \in BOOLEAN
  BY <1>1, <1>3 DEF Shape, HasID, Run
<1>5. Updated(u) = [id |-> run.id, source |-> run.source, host |-> run.host,
                    live |-> live, paused |-> "none"]
  BY DEF Updated
<1> HIDE DEF live, u
<1>6. Updated(u) \in Link
  BY <1>4, <1>5, MakesLink
<1> QED BY <1>3, <1>5, <1>6, NoLinkAssumption DEF u

\* An update that neither records a baseline nor unlinks keeps the baseline of
\* the link; a switch of Live Sync may put back the link that was removed.
LEMMA KeepsOrRestores ==
  ASSUME State(run, storeQ, link), storeQ # <<>>,
         Head(storeQ).kind \notin {"baseline", "remove"}
  PROVE  LET u == Head(storeQ)
             l == Updated(u)
         IN  /\ l \in Link \cup {None}
             /\ link # None => SameBaseline(l, link)
             /\ (link = None /\ l # None) => u.kind \in Switches /\ SameBaseline(l, u.link)
<1> DEFINE u == Head(storeQ)
           l == Updated(u)
<1>1. /\ u \in Update /\ link \in Link \cup {None} /\ UpdateShape(u)
      /\ u.by = "run" => Fits(u, run)
      /\ u.kind = "pause" => SameBaseline(link, u.link)
      /\ u.kind \in {"note", "pause", "enable", "disable", "pause all", "resume all"}
  <2>1. storeQ \in Seq(Update) /\ link \in Link \cup {None}
    BY DEF State, Queue
  <2>2. u \in Update /\ 1 \in DOMAIN storeQ /\ u = storeQ[1]
    BY <2>1, Popped
  <2>3. u.kind \in Updates
    BY <2>2 DEF Update
  <2>4. u.kind \notin {"baseline", "remove"}
    OBVIOUS
  <2> HIDE DEF u
  <2> QED BY <2>1, <2>2, <2>3, <2>4 DEF State, Queue, Current, Updates
<1>2. u.kind = "note" => link # None
  <2> SUFFICES ASSUME u.kind = "note" PROVE link # None
    OBVIOUS
  <2>1. run.pc = "noting"
    BY <1>1 DEF UpdateShape, Fits
  <2>2. run.link \in Link /\ run.pc \in Deciding
    BY <2>1 DEF State, Shape, HasLink, Deciding, Pcs
  <2> QED BY <2>2, NoLinkAssumption DEF State, Decides, SameBaseline
<1>3. l \in Link \cup {None}
  BY <1>1, Updating DEF State
<1> HIDE DEF u
<1>4. \A c \in Link, r \in Reasons, b \in BOOLEAN :
        /\ SameBaseline(Paused(c, r), c) /\ SameBaseline(Unpaused(c), c)
        /\ SameBaseline(Unpaused([c EXCEPT !.live = b]), c)
  <2> TAKE c \in Link, r \in Reasons, b \in BOOLEAN
  <2>1. SameBaseline(c, c)
    BY NoLinkAssumption DEF SameBaseline
  <2> QED BY <2>1, Switching
<1>5. u.reason \in Reasons /\ "bridge disconnected" \in Reasons
  BY <1>1 DEF Update, Reasons
<1>6. CASE u.kind \in {"note", "pause", "enable", "disable"}
  <2> DEFINE c == CurrentLink(u)
  <2>1. c \in Link /\ c = (IF link # None THEN link ELSE u.link)
    BY <1>1, <1>6 DEF CurrentLink, UpdateShape
  <2>2. l \in {Unpaused(c), Paused(c, u.reason), Unpaused([c EXCEPT !.live = TRUE]),
               Unpaused([c EXCEPT !.live = FALSE])}
    BY <1>6 DEF Updated
  <2> HIDE DEF c, l
  <2>3. SameBaseline(l, c)
    BY <1>4, <1>5, <2>1, <2>2
  <2>4. link = None => u.kind \in Switches
    BY <1>1, <1>2, <1>6 DEF Switches, SameBaseline
  <2> QED BY <1>3, <2>1, <2>3, <2>4 DEF u, l
<1>7. CASE u.kind \in {"pause all", "resume all"}
  <2>1. l \in {link, Paused(link, "bridge disconnected"), Unpaused(link)}
        /\ (link = None => l = link)
    BY <1>7 DEF Updated
  <2> HIDE DEF l
  <2>2. link # None => link \in Link /\ SameBaseline(link, link)
    BY <1>1 DEF SameBaseline
  <2> QED BY <1>3, <1>4, <1>5, <2>1, <2>2 DEF u, l
<1> QED BY <1>1, <1>6, <1>7

\* What is left in the queue when its head is applied to the link.
LEMMA SnappedPop ==
  ASSUME NEW r, NEW q \in Seq(Update), q # <<>>, NEW l, NEW m,
         Snapped(r, snap, q, l),
         m # None => SnapFits(snap, m),
         m = None => l = None \/ Head(q).kind = "remove"
  PROVE  Snapped(r, snap, Tail(q), m)
<1> DEFINE p == Tail(q)
<1>1. /\ 1 \in DOMAIN q /\ Head(q) = q[1]
      /\ \A i \in DOMAIN p : i \in Nat \ {0} /\ i + 1 \in DOMAIN q /\ p[i] = q[i + 1]
  BY Popped
<1> HIDE DEF p
<1>2. ASSUME r.pc # "saving", NEW i \in DOMAIN p, p[i].kind \in Switches,
             m = None \/ \E j \in DOMAIN p : j < i /\ p[j].kind = "remove"
      PROVE  SnapFits(snap, p[i].link)
  <2>1. l = None \/ \E j \in DOMAIN q : j < i + 1 /\ q[j].kind = "remove"
    <3>1. CASE m = None /\ Head(q).kind = "remove"
      <4>1. 1 < i + 1 /\ q[1].kind = "remove"
        BY <1>1, <3>1
      <4> QED BY <1>1, <4>1
    <3>2. ASSUME NEW j \in DOMAIN p, j < i, p[j].kind = "remove"
          PROVE  \E k \in DOMAIN q : k < i + 1 /\ q[k].kind = "remove"
      <4>1. j + 1 \in DOMAIN q /\ j + 1 < i + 1 /\ q[j + 1].kind = "remove"
        BY <1>1, <3>2
      <4> QED BY <4>1
    <3> QED BY <1>2, <3>1, <3>2
  <2>2. i + 1 \in DOMAIN q /\ p[i] = q[i + 1]
    BY <1>1
  <2>3. q[i + 1].kind \in Switches
    BY <1>2, <2>2
  <2> QED BY <1>2, <2>1, <2>2, <2>3 DEF Snapped
<1>3. r.pc = "saving" => snap.compiled = r.compiled
  BY DEF Snapped
<1> QED BY <1>2, <1>3 DEF Snapped, p

LEMMA AllGoodPop ==
  ASSUME NEW q \in Seq(Update), q # <<>>, AllGood(q)
  PROVE  AllGood(Tail(q)) /\ (Head(q).link # None => Good(Head(q).link))
  BY Popped DEF AllGood

\* What a link becomes is good, and its snapshots fit it.
LEMMA QuietRestores ==
  ASSUME IInv, QInv, storeQ # <<>>, run.pc # "saving",
         Head(storeQ).kind \notin {"baseline", "remove"}
  PROVE  LET l == Updated(Head(storeQ)) IN
         /\ l \in Link \cup {None}
         /\ l # None => Good(l) /\ SnapFits(snap, l)
         /\ l = None => link = None
<1> DEFINE u == Head(storeQ)
           l == Updated(u)
<1>1. /\ l \in Link \cup {None}
      /\ link # None => SameBaseline(l, link)
      /\ (link = None /\ l # None) => u.kind \in Switches /\ SameBaseline(l, u.link)
  BY KeepsOrRestores DEF IInv
<1>2. storeQ \in Seq(Update)
  BY Held
<1>3. 1 \in DOMAIN storeQ /\ u = storeQ[1]
  BY <1>2, Popped
<1>4. CASE link # None
  BY <1>1, <1>4, GoodSame DEF QInv, Snapped, SameBaseline
<1>5. CASE link = None /\ l # None
  <2>1. SnapFits(snap, u.link)
    BY <1>1, <1>3, <1>5 DEF QInv, Snapped
  <2>2. u.link # None => Good(u.link)
    BY <1>2, AllGoodPop DEF QInv
  <2>3. u.link # None
    BY <1>1, <1>3, <1>5, Held, NoLinkAssumption
       DEF IInv, State, Queue, UpdateShape, Switches
  <2> QED BY <1>1, <1>5, <2>1, <2>2, <2>3, GoodSame
<1> QED BY <1>1, <1>4, <1>5

\* A run that waits for its update goes on with the new link.
LEMMA QuietRunUpdates ==
  ASSUME IInv, QInv, ApplyRunUpdate
  PROVE  QInv'
<1> DEFINE u == Head(storeQ)
           q == Tail(storeQ)
<1>1. /\ storeQ # <<>> /\ u.by = "run" /\ link' = Updated(u)
      /\ UNCHANGED <<text, records, snap>>
  BY DEF ApplyRunUpdate, UpdateBy, NextUpdate, editorVars
<1>2. storeQ \in Seq(Update) /\ run \in Run /\ text \in Texts
  BY Held
<1>3. u \in Update /\ q \in Seq(Update) /\ AllGood(q)
  BY <1>1, <1>2, Popped, AllGoodPop DEF QInv
<1>4. Queue(q, link') /\ NoRun(q) /\ Fits(u, run)
  BY <1>1, RunsApplied DEF IInv
<1>5. link' \in Link \cup {None} /\ \A i \in DOMAIN q : q[i].kind # "remove"
  BY <1>4 DEF Queue, NoRun, UpdateShape
<1>6. /\ run.pc \in {"saving", "noting"} => Finish("ok", link', q)
      /\ run.pc = "resuming" => ReadLink(link', q)
      /\ run.pc = "unlinking" => run' = [run EXCEPT !.pc = "deleting"] /\ storeQ' = q
  BY DEF ApplyRunUpdate, At
<1>7. CASE u.kind = "baseline" /\ run.pc = "saving"
  <2>1. /\ run.source = text /\ run.compiled = CompiledFrom(text)
        /\ run.host \in Plist /\ run.host.prog = Compile[text]
    BY <1>7 DEF QInv, Carried, Compiles, HasCompiled, Synced
  <2>2. /\ link' # None /\ link'.source = run.source /\ link'.host = run.host
    BY <1>1, <1>7, BaselineRecorded
  <2>3. Good(link')
    BY <1>2, <2>1, <2>2 DEF Good
  <2>4. SnapFits(snap, link')
    BY <1>7, <2>1, <2>2 DEF QInv, Snapped, SnapFits
  <2>5. Snapped(Idle, snap, q, link')
    BY <1>5, <2>2, <2>4 DEF Snapped, Idle
  <2>6. Finish("ok", link', q) /\ Idle.pc # "saving"
    BY <1>6, <1>7 DEF Idle
  <2> HIDE DEF q
  <2>7. /\ Carried(run', text', records')
        /\ Snapped(run', snap, storeQ', link') /\ AllGood(storeQ')
    BY <1>3, <1>5, <2>3, <2>5, <2>6, QuietFinish
  <2> QED BY <1>1, <2>3, <2>7 DEF QInv
<1>8. CASE u.kind \in {"note", "resume all"} /\ run.pc \in {"noting", "resuming"}
  <2>1. /\ link' # None => Good(link') /\ SnapFits(snap, link')
        /\ link' = None => link = None
    BY <1>1, <1>8, QuietRestores
  <2>2. Snapped(run, snap, q, link')
    BY <1>1, <1>2, <2>1, SnappedPop DEF QInv
  <2>3. run.pc # "saving"
    BY <1>8
  <2> HIDE DEF q
  <2>4. /\ Carried(run', text', records')
        /\ Snapped(run', snap, storeQ', link') /\ AllGood(storeQ')
    BY <1>2, <1>3, <1>5, <1>6, <1>8, <2>1, <2>2, <2>3, QuietFinish, QuietRead
  <2> QED BY <1>1, <2>1, <2>4 DEF QInv
<1>9. CASE u.kind = "remove" /\ run.pc = "unlinking"
  <2> DEFINE r == [run EXCEPT !.pc = "deleting"]
  <2>1. link' = None /\ run' = r /\ storeQ' = q
    BY <1>1, <1>6, <1>9 DEF Updated
  <2>2. Snapped(run, snap, q, None)
    BY <1>1, <1>2, <1>9, SnappedPop DEF QInv
  <2>3. r.pc = "deleting" /\ r.link = run.link
    BY <1>2 DEF Run
  <2> HIDE DEF r, q
  <2>4. Carried(r, text, records)
    BY <2>3 DEF QInv, Carried, Exported, Creates, Compiles, Pushes, Pulls, HasCompiled, Synced
  <2>5. Snapped(r, snap, q, None)
    BY <1>9, <2>2, <2>3, SnappedMoves
  <2> QED BY <1>1, <1>3, <2>1, <2>4, <2>5 DEF QInv
<1> QED BY <1>4, <1>7, <1>8, <1>9 DEF Fits

\* Nobody else's update changes what was last synchronised.
LEMMA QuietOtherUpdates ==
  ASSUME IInv, QInv, ApplyPollUpdate \/ ApplyUserUpdate \/ ApplyStopUpdate
  PROVE  QInv'
<1> DEFINE u == Head(storeQ)
           q == Tail(storeQ)
<1>1. /\ storeQ # <<>> /\ u.by # "run" /\ link' = Updated(u) /\ storeQ' = q
      /\ UNCHANGED <<text, records, snap, run>>
  BY DEF ApplyPollUpdate, ApplyUserUpdate, ApplyStopUpdate, UpdateBy, NextUpdate,
         editorVars, runVars
<1>2. storeQ \in Seq(Update) /\ link \in Link \cup {None}
  BY Held
<1>3. AllGood(q) /\ u \in Update
  BY <1>1, <1>2, Popped, AllGoodPop DEF QInv
<1>4. u.kind \notin {"baseline", "remove"}
  BY <1>1, <1>2, Popped DEF IInv, State, Queue, UpdateShape
<1>5. /\ link' \in Link \cup {None}
      /\ link # None => SameBaseline(link', link)
      /\ (link = None /\ link' # None) => u.kind \in Switches /\ SameBaseline(link', u.link)
  BY <1>1, <1>4, KeepsOrRestores DEF IInv
<1>6. link' # None => Good(link')
  <2>1. CASE link # None
    BY <1>5, <2>1, GoodSame DEF QInv
  <2>2. CASE link = None /\ link' # None
    <3>1. u.link # None => Good(u.link)
      BY <1>1, <1>2, AllGoodPop DEF QInv
    <3>2. u.link # None
      BY <1>1, <1>2, <1>5, <2>2, Popped, NoLinkAssumption
         DEF IInv, State, Queue, UpdateShape, Switches
    <3> QED BY <1>5, <2>2, <3>1, <3>2, GoodSame
  <2> QED BY <2>1, <2>2
<1>7. Snapped(run, snap, q, link')
  <2>1. CASE run.pc = "saving"
    BY <2>1 DEF QInv, Snapped
  <2>2. CASE run.pc # "saving"
    <3>1. /\ link' # None => SnapFits(snap, link')
          /\ link' = None => link = None
      BY <1>1, <1>4, <2>2, QuietRestores
    <3> QED BY <1>1, <1>2, <3>1, SnappedPop DEF QInv
  <2> QED BY <2>1, <2>2
<1> QED BY <1>1, <1>3, <1>6, <1>7 DEF QInv
-----------------------------------------------------------------------------
(***************************************************************************)
(* The invariant.                                                          *)
(***************************************************************************)
LEMMA QuietInit ==
  ASSUME Init, Quiet
  PROVE  QInv
<1>1. /\ text \in Texts /\ storeQ = <<>> /\ run.pc = "idle" /\ run.link = None
  BY NewRuns DEF Init, Idle
<1>2. Carried(run, text, records)
  BY <1>1, CarriesNothing
<1>3. link # None => Good(link) /\ SnapFits(snap, link)
  <2>1. CASE Fresh
    BY <2>1 DEF Fresh
  <2>2. CASE Legacy
    BY <2>2 DEF Legacy, Quiet
  <2>3. CASE InSync
    <3>1. PICK id \in IDs, m \in Metas, live \in BOOLEAN :
            LET host == [prog |-> Compile[text], meta |-> m] IN
            /\ Compile[text] # None
            /\ link = [id |-> id, source |-> text, host |-> host,
                       live |-> live, paused |-> "none"]
            /\ snap = [host |-> host, compiled |-> CompiledFrom(text)]
      BY <2>3 DEF InSync
    <3>2. Compile[text] \in Progs
      BY <1>1, <3>1, CompilesTo
    <3> QED BY <1>1, <3>1, <3>2 DEF Good, SnapFits, Plist
  <2> QED BY <2>1, <2>2, <2>3 DEF Init
<1>4. DOMAIN storeQ = {}
  BY <1>1
<1> QED BY <1>1, <1>2, <1>3, <1>4 DEF QInv, Snapped, AllGood

LEMMA QuietNext ==
  ASSUME IInv, QInv, Quiet, [Next]_vars
  PROVE  QInv'
<1>1. CASE RunStep
  BY <1>1, QuietConnects, QuietExports, QuietGivesUp, QuietCompiles, QuietWrites,
     QuietPulls, QuietSnapshots DEF RunStep
<1>2. CASE StoreStep
  BY <1>2, QuietRunUpdates, QuietOtherUpdates DEF StoreStep
<1>3. CASE BridgeStep \/ Poll \/ User
  <2>1. link \in Link \cup {None}
    BY Held
  <2> QED BY <1>3, <2>1, BridgeByOthers, LiveByOthers, CommandsByOthers, QuietOthers,
             QuietEdits, QuietAnswers DEF User
<1>4. CASE Failure
  BY <1>4, NothingFails
<1>5. CASE UNCHANGED vars
  BY <1>5 DEF vars, QInv
<1> QED BY <1>1, <1>2, <1>3, <1>4, <1>5 DEF Next

\* While nobody interferes with a run, what a run holds at its awaits is what it
\* compared, compiled and wrote, and the link and its snapshots are of one program
\* (extension.js 1494-1814).
THEOREM QuietInvariance ==
  ASSUME Quiet
  PROVE  Spec => [](IInv /\ QInv)
<1>1. Init => IInv /\ QInv
  BY InitIInv, QuietInit
<1>2. IInv /\ QInv /\ [Next]_vars => (IInv /\ QInv)'
  BY NextKeeps, QuietNext
<1> QED BY <1>1, <1>2, PTL DEF Spec

\* When nothing is going on and both hashes match, the editor and the record hold
\* the same program: hashing the two sides apart (extension.js 1696-1735, saveBaseline)
\* never calls sides synchronised that differ, if nobody writes while a run is on.
THEOREM InSyncTells ==
  ASSUME Quiet
  PROVE  Spec => []InSyncAgrees
<1>1. IInv /\ QInv => InSyncAgrees
  <2> SUFFICES ASSUME QInv, HasBaseline(link), link.source = text,
                      records[link.id] = link.host
               PROVE  records[link.id].prog = Compile[text]
    BY DEF InSyncAgrees
  <2> QED BY DEF QInv, Good, HasBaseline
<1> QED BY <1>1, QuietInvariance, PTL
-----------------------------------------------------------------------------
(***************************************************************************)
(* No link comes back.  A switch of Live Sync that waits behind an unlink  *)
(* puts the removed link back (`currentLink || link', 1826-1890): unless   *)
(* the user never switches or never unlinks, and then a document that has  *)
(* no link gets one from a sync only.                                      *)
(***************************************************************************)
NeverBoth == ~({"toggle", "unlink"} \subseteq Acts)

\* A run that found no link goes on without one, a switch has its link.
Attached(r, q, l) ==
  /\ (r.pc \in Deciding /\ r.link = None) => l = None
  /\ \A i \in DOMAIN q : q[i].kind \in Switches => l # None
  /\ "unlink" \notin Acts => r.pc # "unlinking"

Untoggled(r, p, q) ==
  "toggle" \notin Acts =>
     /\ "toggle" \notin r.callers
     /\ \A i \in DOMAIN p : "toggle" \notin p[i]
     /\ \A i \in DOMAIN q : q[i].kind \notin Switches

AInv == Attached(run, storeQ, link) /\ Untoggled(run, pending, storeQ)

\* The run stays with its link and its callers.
Continues ==
  /\ run'.callers = run.callers /\ run'.link = run.link /\ run'.auto = run.auto
  /\ run'.pc \in Deciding => run.pc \in Deciding
  /\ "unlink" \notin Acts => run'.pc # "unlinking"
  /\ UNCHANGED <<link, pending>>
  /\ \/ storeQ' = storeQ
     \/ \E u \in Update : storeQ' = Append(storeQ, u) /\ u.kind \notin Switches

\* An update that may be a switch joins the queue.
LEMMA AttachedAppend ==
  ASSUME NEW r, NEW p, NEW q \in Seq(Update), NEW l, NEW u \in Update,
         Attached(r, q, l), Untoggled(r, p, q),
         u.kind \in Switches => l # None /\ "toggle" \in Acts
  PROVE  Attached(r, Append(q, u), l) /\ Untoggled(r, p, Append(q, u))
<1> DEFINE a == Append(q, u)
<1>1. /\ DOMAIN a = DOMAIN q \cup {Len(q) + 1} /\ a[Len(q) + 1] = u
      /\ \A i \in DOMAIN q : a[i] = q[i]
  BY Appended
<1> HIDE DEF a
<1>2. \A i \in DOMAIN a : a[i].kind \in Switches => l # None
  BY <1>1 DEF Attached
<1>3. "toggle" \notin Acts => \A i \in DOMAIN a : a[i].kind \notin Switches
  BY <1>1 DEF Untoggled
<1> QED BY <1>2, <1>3 DEF Attached, Untoggled, a

LEMMA AttachedGoesOn ==
  ASSUME IInv, AInv, Continues
  PROVE  AInv'
<1>1. storeQ \in Seq(Update)
  BY Held
<1>2. Attached(run', storeQ, link) /\ Untoggled(run', pending, storeQ)
  BY DEF AInv, Attached, Untoggled, Continues
<1>3. CASE storeQ' = storeQ
  BY <1>2, <1>3 DEF AInv, Continues
<1>4. ASSUME NEW u \in Update, storeQ' = Append(storeQ, u), u.kind \notin Switches
      PROVE  AInv'
  <2>1. Attached(run', Append(storeQ, u), link) /\ Untoggled(run', pending, Append(storeQ, u))
    BY <1>1, <1>2, <1>4, AttachedAppend
  <2> QED BY <1>4, <2>1 DEF AInv, Continues
<1> QED BY <1>3, <1>4 DEF Continues

\* The callers of a run that ends may ask for a switch of the link there is.
LEMMA AttachedEnds ==
  ASSUME NEW result, NEW l \in Link \cup {None}, NEW q \in Seq(Update),
         pending \in Seq(SUBSET Callers), Finish(result, l, q),
         \A i \in DOMAIN q : q[i].kind \in Switches => l # None,
         Untoggled(run, pending, q)
  PROVE  Attached(run', storeQ', l) /\ Untoggled(run', pending', storeQ')
<1> DEFINE f == FollowUps(result, l)
<1>1. storeQ' = q \o f
  BY DEF Finish
<1>2. /\ f \in Seq(Update)
      /\ \A i \in DOMAIN f : l # None /\ f[i].kind \in {"pause", "enable"}
  BY CallersAskOfLink
<1>3. "toggle" \notin run.callers => \A i \in DOMAIN f : f[i].kind = "pause"
  BY DEF FollowUps
<1>4. \A i \in DOMAIN (q \o f) :
        \/ i \in DOMAIN q /\ (q \o f)[i] = q[i]
        \/ i - Len(q) \in DOMAIN f /\ (q \o f)[i] = f[i - Len(q)]
  BY <1>2, Concatenated
<1> HIDE DEF f
<1>5. \A i \in DOMAIN storeQ' : storeQ'[i].kind \in Switches => l # None
  BY <1>1, <1>2, <1>4
<1>6. "toggle" \notin Acts => \A i \in DOMAIN storeQ' : storeQ'[i].kind \notin Switches
  BY <1>1, <1>3, <1>4 DEF Untoggled, Switches
<1>7. run'.pc \in {"idle", "bridge"}
  BY NextRun
<1>8. "toggle" \notin Acts => /\ "toggle" \notin run'.callers
                              /\ \A i \in DOMAIN pending' : "toggle" \notin pending'[i]
  <2>1. CASE pending = <<>>
    <3>1. run' = Idle /\ pending' = pending
      BY <2>1 DEF Finish
    <3> QED BY <3>1 DEF Untoggled, Idle
  <2>2. CASE pending # <<>>
    <3>1. run' = NewRun(FALSE, Head(pending)) /\ pending' = Tail(pending)
      BY <2>2 DEF Finish
    <3>2. /\ Head(pending) = pending[1] /\ 1 \in DOMAIN pending
          /\ \A i \in DOMAIN Tail(pending) : i + 1 \in DOMAIN pending
                                            /\ Tail(pending)[i] = pending[i + 1]
      BY <2>2, HeadTailProperties
    <3>3. run'.callers = Head(pending)
      BY <3>1, NewRuns
    <3> QED BY <3>1, <3>2, <3>3 DEF Untoggled
  <2> QED BY <2>1, <2>2
<1> QED BY <1>5, <1>6, <1>7, <1>8 DEF Attached, Untoggled, Deciding

LEMMA AttachedReads ==
  ASSUME NEW l \in Link \cup {None}, NEW q \in Seq(Update), run \in Run,
         pending \in Seq(SUBSET Callers), ReadLink(l, q),
         \A i \in DOMAIN q : q[i].kind \in Switches => l # None,
         Untoggled(run, pending, q)
  PROVE  Attached(run', storeQ', l) /\ Untoggled(run', pending', storeQ')
<1>1. CASE l = None /\ run.auto
  BY <1>1, AttachedEnds DEF ReadLink
<1>2. CASE ~(l = None /\ run.auto)
  <2> DEFINE r == [run EXCEPT !.pc = IF l = None THEN "name?" ELSE "export",
                              !.link = l,
                              !.id = IF l = None THEN None ELSE l.id]
  <2>1. run' = r /\ storeQ' = q /\ pending' = pending
    BY <1>2 DEF ReadLink
  <2>2. r.link = l /\ r.callers = run.callers /\ r.pc # "unlinking"
    BY DEF Run
  <2> HIDE DEF r
  <2> QED BY <2>1, <2>2 DEF Attached, Untoggled
<1> QED BY <1>1, <1>2

\* The run waits for the next await, reads the link or ends.
LEMMA RunMoves ==
  ASSUME IInv, Quiet, RunStep \/ Answer
  PROVE  \/ Continues
         \/ UNCHANGED link /\ \E result : Finish(result, link, storeQ)
         \/ UNCHANGED link /\ ReadLink(link, storeQ) /\ run.pc = "bridge"
<1> DEFINE Ends == UNCHANGED link /\ \E result : Finish(result, link, storeQ)
           Asked(k) == storeQ' = Append(storeQ, ByRun(k))
<1>1. run \in Run
  BY Held
<1>2. /\ ResumeAll("run") \in Update /\ ResumeAll("run").kind \notin Switches
      /\ \A k \in {"note", "remove", "baseline"} :
           ByRun(k) \in Update /\ ByRun(k).kind \notin Switches
  <2>1. run.link \in Link \cup {None}
    BY <1>1 DEF Run
  <2> QED BY <2>1 DEF ResumeAll, ByRun, Update, Updates, Reasons, Switches
<1>3. CASE BridgeAnswers \/ BridgeSilent \/ RunConnects \/ RunAdopts
  <2>1. BridgeAnswers => UNCHANGED link /\ ReadLink(link, storeQ) /\ run.pc = "bridge"
    BY DEF BridgeAnswers, At, RunOnly
  <2>2. BridgeSilent => Continues
    BY <1>1 DEF BridgeSilent, Goes, Continues, Deciding, Run
  <2>3. RunConnects => Continues
    BY <1>1 DEF RunConnects, Goes, Continues, Deciding, Run
  <2>4. RunAdopts => Continues
    BY <1>1, <1>2 DEF RunAdopts, Continues, Deciding, Run
  <2> QED BY <1>3, <2>1, <2>2, <2>3, <2>4
<1>4. CASE ExportMissing \/ ExportHost
  <2>1. run.pc \in Deciding /\ UNCHANGED link
    BY <1>4 DEF ExportMissing, ExportHost, At, RunOnly, Deciding, Pcs
  <2>2. ExportMissing => Continues \/ Ends
    BY <1>1, <2>1 DEF ExportMissing, Goes, Continues, Run
  <2>3. ExportHost => Continues \/ Ends
    <3> SUFFICES ASSUME ExportHost PROVE Continues \/ Ends
      OBVIOUS
    <3> DEFINE host == records[run.link.id]
               read == [run EXCEPT !.host = host]
    <3>1. /\ read.callers = run.callers /\ read.link = run.link /\ read.auto = run.auto
      BY <1>1 DEF Run
    <3>2. \/ Goes([read EXCEPT !.pc = "compile", !.host = host, !.source = text])
          \/ \E pc \in {"convert", "conflict?"} : Goes([read EXCEPT !.pc = pc])
          \/ /\ run' = [read EXCEPT !.pc = "noting"] /\ Asked("note")
             /\ UNCHANGED pending
          \/ Ends
      BY <2>1 DEF ExportHost, Compiling
    <3>3. /\ DOMAIN read = DOMAIN run
          /\ {"pc", "auto", "callers", "link"} \subseteq DOMAIN run
      BY <1>1 DEF Run
    <3> HIDE DEF read
    <3> QED BY <1>2, <2>1, <3>1, <3>2, <3>3 DEF Goes, Continues
  <2> QED BY <1>4, <2>2, <2>3
<1>5. CASE Answer
  <2>1. run.pc \in Deciding /\ UNCHANGED link
    BY <1>5 DEF Answer, AnswerName, AnswerMissing, AnswerConflict, At, RunOnly, Deciding, Pcs
  <2>2. AnswerName => Continues \/ Ends
    BY <1>1, <2>1 DEF AnswerName, Goes, Compiling, Continues, Run
  <2>3. AnswerMissing => Continues \/ Ends
    BY <1>1, <1>2, <2>1 DEF AnswerMissing, Goes, Compiling, Continues, Run
  <2>4. AnswerConflict => Continues \/ Ends
    BY <1>1, <2>1 DEF AnswerConflict, Goes, Compiling, Continues, Run
  <2> QED BY <1>5, <2>2, <2>3, <2>4 DEF Answer
<1>6. CASE CompileLocal \/ MergeWithHost \/ WriteHost \/ Reexport
  <2>1. run.pc \in Deciding /\ UNCHANGED link
    BY <1>6 DEF CompileLocal, MergeWithHost, WriteHost, Reexport, At, RunOnly, Deciding, Pcs
  <2>2. CompileLocal => Continues
    BY <1>1, <2>1 DEF CompileLocal, Goes, Continues, Run
  <2>3. MergeWithHost => Continues \/ Ends
    BY <1>1, <2>1 DEF MergeWithHost, Goes, Continues, Run
  <2>4. WriteHost => Continues
    BY <1>1, <2>1, NoFault DEF WriteHost, Goes, Continues, Run
  <2>5. Reexport => Continues
    BY <1>1, <2>1 DEF Reexport, Goes, Continues, Run
  <2> QED BY <1>6, <2>2, <2>3, <2>4, <2>5
<1>7. CASE \/ ReplaceEditor \/ SaveDocument
           \/ WriteHostSnapshot \/ WriteCompiledSnapshot
  <2>1. run.pc \in Deciding /\ UNCHANGED link
    BY <1>7 DEF ReplaceEditor, SaveDocument, WriteHostSnapshot, WriteCompiledSnapshot, At,
                Deciding, Pcs
  <2>2. ReplaceEditor => Continues
    BY <1>1, <2>1 DEF ReplaceEditor, Goes, Continues, Run
  <2>3. SaveDocument => Continues
    BY <1>1, <2>1 DEF SaveDocument, Goes, Continues, Run
  <2>4. WriteHostSnapshot => Continues
    BY <1>1, <2>1 DEF WriteHostSnapshot, Goes, Continues, Run
  <2>5. WriteCompiledSnapshot => Continues
    BY <1>1, <1>2, <2>1 DEF WriteCompiledSnapshot, Continues, Run
  <2> QED BY <1>7, <2>2, <2>3, <2>4, <2>5
<1>8. CASE CompareShown \/ NotCompiled \/ RecordGone \/ DeleteSnapshots
  BY <1>8 DEF CompareShown, NotCompiled, RecordGone, DeleteSnapshots, RunOnly
<1> QED BY <1>3, <1>4, <1>5, <1>6, <1>7, <1>8 DEF RunStep

LEMMA AttachedRuns ==
  ASSUME IInv, AInv, Quiet, RunStep \/ Answer
  PROVE  AInv'
<1>1. /\ run \in Run /\ link \in Link \cup {None} /\ storeQ \in Seq(Update)
      /\ pending \in Seq(SUBSET Callers)
  BY Held DEF IInv, TypeOK
<1>2. Untoggled(run, pending, storeQ) /\ \A i \in DOMAIN storeQ :
        storeQ[i].kind \in Switches => link # None
  BY DEF AInv, Attached
<1>3. CASE Continues
  BY <1>3, AttachedGoesOn
<1>4. ASSUME NEW result, Finish(result, link, storeQ), UNCHANGED link
      PROVE  AInv'
  BY <1>1, <1>2, <1>4, AttachedEnds DEF AInv
<1>5. CASE UNCHANGED link /\ ReadLink(link, storeQ)
  BY <1>1, <1>2, <1>5, AttachedReads DEF AInv
<1> QED BY <1>3, <1>4, <1>5, RunMoves

\* Whoever asks for a run or an update asks for what may be asked.
LEMMA AttachedAsks ==
  ASSUME IInv, AInv, UNCHANGED link,
         \/ UNCHANGED <<run, pending>>
         \/ \E auto \in BOOLEAN, callers \in SUBSET Callers :
              /\ "toggle" \in callers => "toggle" \in Acts
              /\ \/ StartRun(auto, callers) \/ QueueRun(callers)
                 \/ \E c \in callers : JoinRun(c),
         \/ storeQ' = storeQ
         \/ \E u \in Update : /\ storeQ' = Append(storeQ, u)
                              /\ u.kind \in Switches => link # None /\ "toggle" \in Acts
  PROVE  AInv'
<1>1. run \in Run /\ storeQ \in Seq(Update) /\ pending \in Seq(SUBSET Callers)
  BY Held DEF IInv, TypeOK
<1>2. Attached(run', storeQ, link) /\ Untoggled(run', pending', storeQ)
  <2>1. CASE UNCHANGED <<run, pending>>
    BY <2>1 DEF AInv
  <2>2. ASSUME NEW auto \in BOOLEAN, NEW callers \in SUBSET Callers,
               "toggle" \in callers => "toggle" \in Acts, StartRun(auto, callers)
        PROVE  <1>2!:
    <3>1. run'.pc = "bridge" /\ run'.callers = callers /\ pending' = pending
      BY <2>2, NewRuns DEF StartRun
    <3> QED BY <2>2, <3>1 DEF AInv, Attached, Untoggled, Deciding
  <2>3. ASSUME NEW callers \in SUBSET Callers,
               "toggle" \in callers => "toggle" \in Acts, QueueRun(callers)
        PROVE  <1>2!:
    <3>1. run' = run /\ pending' = Append(pending, callers)
      BY <2>3 DEF QueueRun
    <3>2. \A i \in DOMAIN pending' : \/ pending'[i] = callers
                                     \/ i \in DOMAIN pending /\ pending'[i] = pending[i]
      BY <1>1, <3>1
    <3> QED BY <2>3, <3>1, <3>2 DEF AInv, Untoggled
  <2>4. ASSUME NEW callers \in SUBSET Callers, NEW c \in callers,
               "toggle" \in callers => "toggle" \in Acts, JoinRun(c)
        PROVE  <1>2!:
    <3>1. CASE pending = <<>>
      <4> DEFINE r == [run EXCEPT !.callers = @ \cup {c}]
      <4>1. run' = r /\ pending' = pending
        BY <2>4, <3>1 DEF JoinRun
      <4>2. r.callers = run.callers \cup {c} /\ r.pc = run.pc /\ r.link = run.link
        BY <1>1 DEF Run
      <4> HIDE DEF r
      <4> QED BY <2>4, <4>1, <4>2 DEF AInv, Attached, Untoggled
    <3>2. CASE pending # <<>>
      <4>1. run' = run /\ pending' = [pending EXCEPT ![Len(pending)] = @ \cup {c}]
        BY <2>4, <3>2 DEF JoinRun
      <4>2. \A i \in DOMAIN pending' :
              i \in DOMAIN pending /\ pending'[i] \subseteq pending[i] \cup {c}
        BY <1>1, <3>2, <4>1
      <4> QED BY <2>4, <4>1, <4>2 DEF AInv, Untoggled
    <3> QED BY <3>1, <3>2
  <2> QED BY <2>1, <2>2, <2>3, <2>4
<1>3. CASE storeQ' = storeQ
  BY <1>2, <1>3 DEF AInv
<1>4. ASSUME NEW u \in Update, storeQ' = Append(storeQ, u),
             u.kind \in Switches => link # None /\ "toggle" \in Acts
      PROVE  AInv'
  BY <1>1, <1>2, <1>4, AttachedAppend DEF AInv
<1> QED BY <1>3, <1>4

LEMMA AttachedOthers ==
  ASSUME IInv, AInv, BridgeStep \/ Poll \/ User, ~Answer
  PROVE  AInv'
<1> DEFINE AsksOf(by) == \E u \in {PauseAll(by), ResumeAll(by)} : storeQ' = Append(storeQ, u)
<1>1. \A by \in {"poll", "user", "stop"} :
        AsksOf(by) => \E u \in Update : storeQ' = Append(storeQ, u) /\ u.kind \notin Switches
  <2> TAKE by \in {"poll", "user", "stop"}
  <2>1. /\ PauseAll(by) \in Update /\ PauseAll(by).kind \notin Switches
        /\ ResumeAll(by) \in Update /\ ResumeAll(by).kind \notin Switches
    BY DEF PauseAll, ResumeAll, Update, Updates, Reasons, Switches
  <2> QED BY <2>1
<1>2. CASE BridgeStep \/ UserConnect \/ UserDisconnect
  <2>1. /\ UNCHANGED <<link, run, pending>>
        /\ storeQ' = storeQ \/ \E by \in {"poll", "user", "stop"} : AsksOf(by)
    BY <1>2 DEF BridgeStep, Probe, ProbeValidates, ProbeResumes, BridgeStarts, BridgeAdopted,
                BridgeStops, UserConnect, UserDisconnect, runVars, storeVars
  <2> HIDE DEF AsksOf
  <2> QED BY <1>1, <2>1, AttachedAsks
<1>3. CASE Poll \/ UserSave
  <2>1. /\ UNCHANGED link
        /\ \/ /\ UNCHANGED <<run, pending>>
              /\ storeQ' = storeQ \/ \E by \in {"poll", "user", "stop"} : AsksOf(by)
           \/ \E c \in {"poll", "save"} : RequestAuto(c) /\ storeQ' = storeQ
    BY <1>3 DEF Poll, UserSave, RunOnly, runVars
  <2>2. ASSUME NEW c \in {"poll", "save"}, RequestAuto(c)
        PROVE  \E auto \in BOOLEAN, callers \in SUBSET Callers :
                 /\ "toggle" \in callers => "toggle" \in Acts
                 /\ \/ StartRun(auto, callers) \/ QueueRun(callers)
                    \/ \E d \in callers : JoinRun(d)
    <3>1. {c} \in SUBSET Callers /\ "toggle" \notin {c} /\ c \in {c} /\ TRUE \in BOOLEAN
      BY DEF Callers
    <3>2. StartRun(TRUE, {c}) \/ JoinRun(c)
      BY <2>2 DEF RequestAuto
    <3> QED BY <3>1, <3>2
  <2> HIDE DEF AsksOf
  <2> QED BY <1>1, <2>1, <2>2, AttachedAsks
<1>4. CASE SyncCommand \/ ToggleLiveSync
  <2>1. /\ UNCHANGED link
        /\ \/ /\ UNCHANGED <<run, pending>> /\ link # None /\ "toggle" \in Acts
              /\ \E k \in Switches : storeQ' = Append(storeQ, ByUser(k, link))
           \/ \E callers \in {{}, {"toggle"}} :
                /\ "toggle" \in callers => "toggle" \in Acts
                /\ RequestInteractive(callers) /\ storeQ' = storeQ
    BY <1>4 DEF SyncCommand, ToggleLiveSync, storeVars, runVars, HasBaseline, Switches
  <2>2. link # None => \A k \in Switches : ByUser(k, link) \in Update
    BY Held DEF ByUser, Update, Updates, Reasons, Switches
  <2>3. ASSUME NEW callers \in {{}, {"toggle"}}, "toggle" \in callers => "toggle" \in Acts,
               RequestInteractive(callers)
        PROVE  \E auto \in BOOLEAN, cs \in SUBSET Callers :
                 /\ "toggle" \in cs => "toggle" \in Acts
                 /\ StartRun(auto, cs) \/ QueueRun(cs) \/ \E d \in cs : JoinRun(d)
    <3>1. callers \in SUBSET Callers /\ FALSE \in BOOLEAN
      BY DEF Callers
    <3>2. StartRun(FALSE, callers) \/ QueueRun(callers)
      BY <2>3 DEF RequestInteractive
    <3> QED BY <2>3, <3>1, <3>2
  <2>4. CASE /\ UNCHANGED <<run, pending>> /\ link # None /\ "toggle" \in Acts
             /\ \E k \in Switches : storeQ' = Append(storeQ, ByUser(k, link))
    BY <2>1, <2>2, <2>4, AttachedAsks
  <2>5. ASSUME NEW callers \in {{}, {"toggle"}}, "toggle" \in callers => "toggle" \in Acts,
               RequestInteractive(callers), storeQ' = storeQ
        PROVE  AInv'
    BY <2>1, <2>3, <2>5, AttachedAsks
  <2> QED BY <2>1, <2>4, <2>5
<1>5. CASE UserType \/ HostEdit
  BY <1>5, AttachedAsks DEF UserType, HostEdit, storeVars, runVars
<1> QED BY <1>2, <1>3, <1>4, <1>5 DEF User

\* Only a sync gives a document a link that has none, only the answer takes it.
LEMMA LinkComesAndGoes ==
  ASSUME IInv, AInv, storeQ # <<>>
  PROVE  LET u == Head(storeQ)
             l == Updated(u)
         IN  /\ l \in Link \cup {None}
             /\ u.kind = "baseline" => l # None
             /\ u.kind = "remove" => l = None
             /\ u.kind \notin {"baseline", "remove"} =>
                  /\ l = None <=> link = None
                  /\ link # None => SameBaseline(l, link)
<1> DEFINE u == Head(storeQ)
           l == Updated(u)
<1>1. storeQ \in Seq(Update) /\ State(run, storeQ, link)
  BY Held DEF IInv
<1>2. u \in Update /\ 1 \in DOMAIN storeQ /\ u = storeQ[1]
  BY <1>1, Popped
<1>3. UpdateShape(u) /\ (u.by = "run" => Fits(u, run)) /\ link \in Link \cup {None}
  BY <1>1, <1>2 DEF State, Queue
<1>4. l \in Link \cup {None}
  BY <1>1, <1>2, <1>3, Updating DEF State
<1>5. u.kind = "baseline" => l # None
  BY BaselineRecorded
<1>6. u.kind = "remove" => l = None
  BY DEF Updated
<1>7. ASSUME u.kind \notin {"baseline", "remove"}
      PROVE  /\ l = None <=> link = None
             /\ link # None => SameBaseline(l, link)
  <2>1. /\ link # None => SameBaseline(l, link)
        /\ (link = None /\ l # None) => u.kind \in Switches
    BY <1>1, <1>7, KeepsOrRestores
  <2>2. u.kind \in Switches => link # None
    BY <1>2 DEF AInv, Attached
  <2> QED BY <2>1, <2>2 DEF SameBaseline
<1> QED BY <1>4, <1>5, <1>6, <1>7

LEMMA AttachedUpdates ==
  ASSUME IInv, AInv, NeverBoth, StoreStep
  PROVE  AInv'
<1> DEFINE u == Head(storeQ)
           q == Tail(storeQ)
<1>1. storeQ # <<>> /\ link' = Updated(u)
  BY DEF StoreStep, ApplyRunUpdate, ApplyPollUpdate, ApplyUserUpdate, ApplyStopUpdate,
         UpdateBy, NextUpdate
<1>2. /\ run \in Run /\ storeQ \in Seq(Update) /\ pending \in Seq(SUBSET Callers)
      /\ State(run, storeQ, link)
  BY Held DEF IInv, TypeOK
<1>3. /\ u \in Update /\ 1 \in DOMAIN storeQ /\ u = storeQ[1] /\ q \in Seq(Update)
      /\ \A i \in DOMAIN q : i + 1 \in DOMAIN storeQ /\ q[i] = storeQ[i + 1]
  BY <1>1, <1>2, Popped
<1>4. /\ link' \in Link \cup {None}
      /\ link' = None <=> (u.kind = "remove" \/ (u.kind # "baseline" /\ link = None))
  BY <1>1, LinkComesAndGoes
<1>5. /\ UpdateShape(u)
      /\ u.kind = "remove" => u.by = "run" /\ run.pc = "unlinking"
  BY <1>2, <1>3 DEF State, Queue, UpdateShape, Fits
<1>6. u.kind = "remove" => "toggle" \notin Acts
  BY <1>5 DEF NeverBoth, AInv, Attached
<1>7. Untoggled(run, pending, q)
  BY <1>3 DEF AInv, Untoggled
<1>8. \A i \in DOMAIN q : q[i].kind \in Switches => link' # None
  BY <1>3, <1>4, <1>6, <1>7 DEF AInv, Attached, Untoggled
<1>9. CASE ApplyRunUpdate
  <2>1. u.by = "run" /\ Fits(u, run)
    BY <1>2, <1>3, <1>9 DEF ApplyRunUpdate, UpdateBy, State
  <2>2. /\ run.pc \in {"saving", "noting"} => Finish("ok", link', q)
        /\ run.pc = "resuming" => ReadLink(link', q)
        /\ run.pc = "unlinking" => /\ run' = [run EXCEPT !.pc = "deleting"]
                                   /\ storeQ' = q /\ pending' = pending
    BY <1>9 DEF ApplyRunUpdate, At
  <2> HIDE DEF u, q
  <2>3. CASE run.pc \in {"saving", "noting"}
    BY <1>2, <1>3, <1>4, <1>7, <1>8, <2>2, <2>3, AttachedEnds DEF AInv
  <2>4. CASE run.pc = "resuming"
    BY <1>2, <1>3, <1>4, <1>7, <1>8, <2>2, <2>4, AttachedReads DEF AInv
  <2>5. CASE run.pc = "unlinking"
    <3> DEFINE r == [run EXCEPT !.pc = "deleting"]
    <3>1. run' = r /\ storeQ' = q /\ pending' = pending
      BY <2>2, <2>5
    <3>2. r.pc = "deleting" /\ r.callers = run.callers
      BY <1>2 DEF Run
    <3> HIDE DEF r
    <3> QED BY <1>7, <1>8, <3>1, <3>2 DEF AInv, Attached, Untoggled, Deciding
  <2> QED BY <2>1, <2>3, <2>4, <2>5 DEF Fits
<1>10. CASE ApplyPollUpdate \/ ApplyUserUpdate \/ ApplyStopUpdate
  <2>1. u.by # "run" /\ storeQ' = q /\ run' = run /\ pending' = pending
    BY <1>10 DEF ApplyPollUpdate, ApplyUserUpdate, ApplyStopUpdate, UpdateBy, runVars
  <2>2. link = None => link' = None
    BY <1>4, <1>5, <2>1 DEF UpdateShape
  <2> QED BY <1>7, <1>8, <2>1, <2>2 DEF AInv, Attached
<1> QED BY <1>9, <1>10 DEF StoreStep

LEMMA AttachedNext ==
  ASSUME IInv, AInv, Quiet, NeverBoth, [Next]_vars
  PROVE  AInv'
<1>1. CASE Failure
  BY <1>1, NothingFails
<1>2. CASE UNCHANGED vars
  BY <1>2 DEF vars, AInv
<1> QED BY <1>1, <1>2, AttachedRuns, AttachedOthers, AttachedUpdates DEF Next, User

LEMMA AttachedInit == Init => AInv
<1> SUFFICES ASSUME Init PROVE AInv
  OBVIOUS
<1>1. storeQ = <<>> /\ pending = <<>> /\ run = Idle
  BY DEF Init
<1>2. DOMAIN storeQ = {} /\ DOMAIN pending = {} /\ run.pc = "idle" /\ run.callers = {}
  BY <1>1 DEF Idle
<1> QED BY <1>2 DEF AInv, Attached, Untoggled, Deciding
-----------------------------------------------------------------------------
(***************************************************************************)
(* The refinement: every step of the engine is a step that two-way         *)
(* synchronisation allows.                                                 *)
(***************************************************************************)
\* The two sides and the baseline stay; another run may serve the user.
LEMMA SyncWaits ==
  ASSUME IInv, IInv', text' = text, rightSide' = rightSide, baseState' = baseState,
         edits' = edits
  PROVE  [Sync!Next]_(Sync!vars)
<1>1. run.auto \in BOOLEAN /\ run'.auto \in BOOLEAN
  BY DEF IInv, TypeOK, Run
<1>2. CASE run'.auto = run.auto
  BY <1>2 DEF Sync!vars
<1>3. CASE run'.auto # run.auto
  <2>1. (~run'.auto) = (~~run.auto)
    BY <1>1, <1>3
  <2> QED BY <2>1 DEF Sync!Next, Sync!Attend
<1> QED BY <1>2, <1>3

\* Before a run writes, the stored baseline tells what was last synchronised.
LEMMA BeforeWriting ==
  ASSUME IInv, QInv, ~Written
  PROVE  /\ link = None => rightSide = None /\ baseState = None
         /\ link # None => /\ rightSide = records[link.id]
                           /\ baseState = [left |-> link.source, right |-> link.host]
                           /\ baseState # None /\ Good(link)
<1>1. link # None => Good(link) /\ HasBaseline(link)
  BY NoneIsNothing DEF QInv, Good, HasBaseline
<1>2. CASE link = None
  BY <1>2 DEF rightSide, baseState, HasBaseline
<1>3. CASE link # None
  <2>1. /\ rightSide = records[link.id]
        /\ baseState = [left |-> link.source, right |-> link.host]
    BY <1>1, <1>3 DEF rightSide, baseState
  <2>2. baseState # None
    BY <1>1, <1>3, <2>1, NoBaseAssumption DEF Good
  <2> QED BY <1>1, <1>3, <2>1, <2>2
<1> QED BY <1>2, <1>3

\* A step that writes nothing and keeps the baseline of the link.
LEMMA SyncStays ==
  ASSUME IInv, QInv, IInv', QInv', ~Written, ~Written', UNCHANGED <<text, records, edits>>,
         link' = None <=> link = None, link # None => SameBaseline(link', link)
  PROVE  [Sync!Next]_(Sync!vars)
<1>1. rightSide' = rightSide /\ baseState' = baseState
  <2>1. /\ link = None => rightSide = None /\ baseState = None
        /\ link # None => /\ rightSide = records[link.id]
                          /\ baseState = [left |-> link.source, right |-> link.host]
    BY BeforeWriting
  <2>2. /\ link' = None => rightSide' = None /\ baseState' = None
        /\ link' # None => /\ rightSide' = records[link'.id]
                           /\ baseState' = [left |-> link'.source, right |-> link'.host]
    <3>1. link' # None => HasBaseline(link')
      BY NoneIsNothing DEF QInv, Good, HasBaseline
    <3> QED BY <3>1 DEF rightSide, baseState, HasBaseline
  <2> QED BY <2>1, <2>2 DEF SameBaseline
<1> QED BY <1>1, SyncWaits

\* A step of a run that has written, on its way to the link.
LEMMA SyncGoesOn ==
  ASSUME IInv, IInv', Written, Written', UNCHANGED <<text, records, edits>>,
         run'.id = run.id, run'.source = run.source,
         (IF run'.pc = "reexport" THEN run'.out ELSE run'.host)
           = (IF run.pc = "reexport" THEN run.out ELSE run.host)
  PROVE  [Sync!Next]_(Sync!vars)
<1>1. rightSide' = rightSide /\ baseState' = baseState
  BY DEF rightSide, baseState, At
<1> QED BY <1>1, SyncWaits

\* A run that begins, ends or reads the link has written nothing.
LEMMA BeginsUnwritten ==
  /\ \A result, l, q : Finish(result, l, q) => ~Written'
  /\ \A l, q : run \in Run /\ ReadLink(l, q) => ~Written'
<1>1. ASSUME NEW result, NEW l, NEW q, Finish(result, l, q)
      PROVE  ~Written'
  BY <1>1, NextRun DEF Written
<1>2. ASSUME NEW l, NEW q, run \in Run, ReadLink(l, q)
      PROVE  ~Written'
  <2>1. CASE l = None /\ run.auto
    BY <1>1, <1>2, <2>1 DEF ReadLink
  <2>2. CASE ~(l = None /\ run.auto)
    <3>1. run'.pc \in {"name?", "export"}
      BY <1>2, <2>2 DEF ReadLink, Run
    <3> QED BY <3>1 DEF Written
  <2> QED BY <2>1, <2>2
<1> QED BY <1>1, <1>2

\* Connecting, comparing, asking and compiling write nothing.
LEMMA StaysUnwritten ==
  ASSUME IInv, QInv, Quiet,
         \/ BridgeAnswers \/ BridgeSilent \/ RunConnects \/ RunAdopts
         \/ ExportMissing \/ ExportHost \/ Answer
         \/ CompareShown \/ CompileLocal \/ NotCompiled \/ MergeWithHost
         \/ RecordGone \/ DeleteSnapshots
  PROVE  ~Written /\ ~Written' /\ UNCHANGED <<text, records, edits, link>>
<1> DEFINE Ends == \E result : Finish(result, link, storeQ)
<1>1. run \in Run
  BY Held
<1>2. UNCHANGED <<text, records, edits, link>>
  BY DEF BridgeAnswers, BridgeSilent, RunConnects, RunAdopts, ExportMissing, ExportHost,
         Answer, AnswerName, AnswerMissing, AnswerConflict, CompareShown, CompileLocal,
         NotCompiled, MergeWithHost, RecordGone, DeleteSnapshots, RunOnly, editorVars, bounds
<1>3. ~Written
  <2>1. CASE RecordGone
    <3>1. run.pc # "reexport"
      BY <2>1, NoneIsNothing DEF RecordGone, QInv, Carried, Compiles
    <3> QED BY <2>1, <3>1 DEF RecordGone, At, Written
  <2>2. CASE ~RecordGone
    BY <2>2 DEF BridgeAnswers, BridgeSilent, RunConnects, RunAdopts, ExportMissing, ExportHost,
         Answer, AnswerName, AnswerMissing, AnswerConflict, CompareShown, CompileLocal,
         NotCompiled, MergeWithHost, DeleteSnapshots, At, Written
  <2> QED BY <2>1, <2>2
<1>4. CASE BridgeSilent \/ RunConnects \/ RunAdopts
  <2>1. run'.pc \in {"connect", "adopt", "resuming"}
    BY <1>1, <1>4 DEF BridgeSilent, RunConnects, RunAdopts, Goes, Run
  <2> QED BY <1>2, <1>3, <2>1 DEF Written
<1>5. CASE \/ BridgeAnswers \/ CompareShown \/ NotCompiled \/ RecordGone \/ DeleteSnapshots
  <2>1. ReadLink(link, storeQ) \/ Ends
    BY <1>5 DEF BridgeAnswers, CompareShown, NotCompiled, RecordGone, DeleteSnapshots
  <2> QED BY <1>1, <1>2, <1>3, <2>1, BeginsUnwritten
<1>6. CASE ExportMissing \/ ExportHost \/ Answer
  <2>1. Ends \/ run'.pc \in {"compile", "missing?", "unlinking", "convert", "comparing",
                             "noting", "conflict?"}
    <3>1. CASE ExportMissing \/ Answer
      BY <1>1, <3>1 DEF ExportMissing, Answer, AnswerName, AnswerMissing, AnswerConflict,
                        Compiling, Goes, Run
    <3>2. CASE ExportHost
      <4> DEFINE read == [run EXCEPT !.host = records[run.link.id]]
      <4>1. DOMAIN read = DOMAIN run /\ "pc" \in DOMAIN run
        BY <1>1 DEF Run
      <4>2. \/ Goes([read EXCEPT !.pc = "compile", !.host = records[run.link.id], !.source = text])
            \/ \E pc \in {"convert", "conflict?", "noting"} : run' = [read EXCEPT !.pc = pc]
            \/ Ends
        BY <3>2 DEF ExportHost, Compiling, Goes
      <4> HIDE DEF read
      <4> QED BY <4>1, <4>2 DEF Goes
    <3> QED BY <1>6, <3>1, <3>2
  <2> QED BY <1>2, <1>3, <2>1, BeginsUnwritten DEF Written
<1>7. CASE CompileLocal \/ MergeWithHost
  <2>1. Ends \/ run'.pc \in {"write", "merge"}
    <3>1. CASE MergeWithHost
      BY <1>1, <3>1 DEF MergeWithHost, Goes, Run
    <3>2. CASE CompileLocal
      <4>1. run.host # None => run.link.source # None /\ run.link.host # None
        BY <3>2, NoneIsNothing
           DEF CompileLocal, At, QInv, Carried, Exported, Pushes, Good
      <4> QED BY <1>1, <3>2, <4>1 DEF CompileLocal, Goes, Run
    <3> QED BY <1>7, <3>1, <3>2
  <2> QED BY <1>2, <1>3, <2>1, BeginsUnwritten DEF Written
<1> QED BY <1>4, <1>5, <1>6, <1>7

\* The version written, and read back, is the new baseline until the link has it.
LEMMA SyncSaves ==
  ASSUME IInv, QInv, IInv', Reexport \/ SaveDocument \/ WriteHostSnapshot \/ WriteCompiledSnapshot
  PROVE  [Sync!Next]_(Sync!vars)
<1>1. run \in Run
  BY Held
<1>2. UNCHANGED <<text, records, edits>> /\ Written
  BY DEF Reexport, SaveDocument, WriteHostSnapshot, WriteCompiledSnapshot, RunOnly,
         editorVars, bounds, At, Written
<1>3. /\ run'.pc \in {"snapHost", "snapCompiled", "saving"}
      /\ run'.id = run.id /\ run'.source = run.source
      /\ run.pc = "reexport" => run'.host = records[run.id]
      /\ run.pc # "reexport" => run'.host = run.host
  <2>1. CASE Reexport
    BY <1>1, <2>1 DEF Reexport, Goes, At, Run
  <2>2. CASE SaveDocument \/ WriteHostSnapshot
    BY <1>1, <2>2 DEF SaveDocument, WriteHostSnapshot, Goes, At, Run
  <2>3. CASE WriteCompiledSnapshot
    BY <1>1, <2>3 DEF WriteCompiledSnapshot, At, Run
  <2> QED BY <2>1, <2>2, <2>3
<1>4. run.pc = "reexport" => records[run.id] = run.out
  BY DEF QInv, Carried, Compiles
<1>5. Written'
  BY <1>3 DEF Written
<1> QED BY <1>2, <1>3, <1>4, <1>5, SyncGoesOn

\* The record is created where there is none, or takes over what the editor
\* changed since the two were last the same.
LEMMA SyncWrites ==
  ASSUME IInv, QInv, AInv, Quiet, WriteHost
  PROVE  Sync!New \/ Sync!Push
<1>1. /\ run.pc = "write" /\ run \in Run /\ text \in Texts
      /\ records \in [IDs -> Plist \cup {None}]
      /\ UNCHANGED <<text, edits, link>>
  BY Held DEF WriteHost, At, editorVars
<1>2. PICK id \in IDs : /\ Target(id)
                        /\ records' = [records EXCEPT ![id] = run.out]
                        /\ run' = [run EXCEPT !.pc = "reexport", !.id = id]
  BY NoFault DEF WriteHost, Goes
<1>3. /\ run'.pc = "reexport" /\ run'.id = id /\ run'.out = run.out
      /\ run'.source = run.source /\ run'.auto = run.auto
  BY <1>1, <1>2 DEF Run
<1>4. run.source = text /\ ~Written
  BY <1>1 DEF QInv, Carried, Compiles, HasCompiled, Written
<1>5. /\ text' = text /\ rightSide' = run.out
      /\ baseState' = [left |-> text, right |-> run.out]
      /\ (~run.auto)' = ~run.auto
  <2>1. Written'
    BY <1>3 DEF Written
  <2>2. records'[id] = run.out
    BY <1>1, <1>2
  <2> QED BY <1>1, <1>3, <1>4, <2>1, <2>2 DEF rightSide, baseState, At
<1>6. run.link # None => SameBaseline(link, run.link)
  BY <1>1, Held DEF Deciding, Pcs
<1>7. CASE run.host = None
  <2>1. run.out = CompiledFrom(text)
    BY <1>1, <1>7 DEF QInv, Carried, Compiles
  <2>2. rightSide = None
    <3>1. CASE run.link = None
      <4>1. link = None
        BY <1>1, <3>1 DEF AInv, Attached, Deciding, Pcs
      <4> QED BY <1>4, <4>1, BeforeWriting
    <3>2. CASE run.link # None
      <4>1. records[run.link.id] = None
        BY <1>1, <1>7, <3>2 DEF QInv, Carried, Creates
      <4> QED BY <1>4, <1>6, <3>2, <4>1, BeforeWriting DEF SameBaseline
    <3> QED BY <3>1, <3>2
  <2> QED BY <1>1, <1>5, <2>1, <2>2 DEF Sync!New, Sync!SyncedAs
<1>8. CASE run.host # None
  <2>1. /\ run.link # None /\ run.id = run.link.id /\ run.host \in Plist
        /\ records[run.id] = run.host /\ run.host = run.link.host
        /\ run.source # run.link.source
    BY <1>1, <1>8 DEF QInv, Carried, Exported, Pushes
  <2>2. run.out = Merge(CompiledFrom(run.link.source), CompiledFrom(text), run.host)
    BY <1>1, <1>8 DEF QInv, Carried, Compiles
  <2>3. /\ link # None /\ link.id = run.id /\ link.source = run.link.source
        /\ link.host = run.host
    BY <1>6, <2>1 DEF SameBaseline
  <2>4. /\ rightSide = run.host /\ baseState # None
        /\ baseState = [left |-> run.link.source, right |-> run.host]
    BY <1>4, <2>1, <2>3, BeforeWriting
  <2>5. rightSide # None
    BY <1>8, <2>4
  <2>6. baseState.left = run.link.source /\ baseState.right = run.host
    BY <2>4
  <2> QED BY <1>1, <1>4, <1>5, <2>1, <2>2, <2>4, <2>5, <2>6
          DEF Sync!Push, Sync!LeftMoved, Sync!RightMoved, Sync!SyncedAs
<1> QED BY <1>7, <1>8

\* The editor takes over what the record changed, or what the user chose.
LEMMA SyncPulls ==
  ASSUME IInv, QInv, ReplaceEditor
  PROVE  Sync!Pull \/ Sync!Resolve
<1>1. run.pc = "convert" /\ run \in Run /\ UNCHANGED <<records, edits, link>>
  BY Held DEF ReplaceEditor, At, bounds
<1> DEFINE source == Decompile[run.host.prog]
<1>2. /\ text' = source
      /\ run' = [run EXCEPT !.pc = "savedoc", !.source = source,
                            !.compiled = CompiledFrom(source)]
  BY DEF ReplaceEditor, Goes
<1> HIDE DEF source
<1>3. /\ run'.pc = "savedoc" /\ run'.id = run.id /\ run'.host = run.host
      /\ run'.source = source /\ run'.auto = run.auto
  BY <1>1, <1>2 DEF Run
<1>4. /\ run.link # None /\ run.id = run.link.id /\ run.host \in Plist
      /\ records[run.id] = run.host /\ run.host # run.link.host
      /\ run.auto => text = run.link.source
  BY <1>1 DEF QInv, Carried, Exported, Pulls
<1>5. SameBaseline(link, run.link) /\ ~Written
  BY <1>1, <1>4, Held DEF Deciding, Pcs, Written
<1>6. /\ rightSide = run.host /\ baseState # None
      /\ baseState = [left |-> run.link.source, right |-> run.link.host]
  BY <1>4, <1>5, BeforeWriting DEF SameBaseline
<1>7. /\ rightSide' = run.host /\ baseState' = [left |-> source, right |-> run.host]
      /\ (~run.auto)' = ~run.auto
  <2>1. Written'
    BY <1>3 DEF Written
  <2> QED BY <1>1, <1>3, <1>4, <2>1 DEF rightSide, baseState, At
<1>8. Sync!SyncedAs(Decompile[rightSide.prog], rightSide)
  BY <1>1, <1>2, <1>6, <1>7 DEF Sync!SyncedAs, source
<1>9. /\ rightSide # None /\ baseState.left = run.link.source
      /\ baseState.right = run.link.host
  BY <1>4, <1>6, NoneIsNothing
<1>10. CASE text = run.link.source
  BY <1>4, <1>6, <1>8, <1>9, <1>10
     DEF Sync!Pull, Sync!LeftMoved, Sync!RightMoved
<1>11. CASE text # run.link.source
  BY <1>4, <1>6, <1>8, <1>9, <1>11
     DEF Sync!Resolve, Sync!LeftMoved, Sync!RightMoved
<1> QED BY <1>10, <1>11

\* A saved baseline is the version written; an unlinked document forgets it.
LEMMA SyncUpdates ==
  ASSUME IInv, QInv, AInv, IInv', QInv', StoreStep
  PROVE  [Sync!Next]_(Sync!vars)
<1> DEFINE u == Head(storeQ)
           q == Tail(storeQ)
<1>1. /\ storeQ # <<>> /\ link' = Updated(u)
      /\ UNCHANGED <<text, records, edits>>
  BY DEF StoreStep, ApplyRunUpdate, ApplyPollUpdate, ApplyUserUpdate, ApplyStopUpdate,
         UpdateBy, NextUpdate, editorVars, bounds
<1>2. run \in Run /\ storeQ \in Seq(Update)
  BY Held
<1>3. u \in Update /\ 1 \in DOMAIN storeQ /\ u = storeQ[1]
  BY <1>1, <1>2, Popped
<1>4. /\ u.kind = "remove" => link' = None
      /\ u.kind \notin {"baseline", "remove"} =>
           /\ link' = None <=> link = None
           /\ link # None => SameBaseline(link', link)
  BY <1>1, LinkComesAndGoes
<1>5. UpdateShape(u) /\ (u.by = "run" => Fits(u, run))
  BY <1>3 DEF IInv, State, Queue
<1>6. CASE ApplyRunUpdate
  <2>1. Fits(u, run)
    BY <1>5, <1>6 DEF ApplyRunUpdate, UpdateBy
  <2>2. /\ run.pc \in {"saving", "noting"} => Finish("ok", link', q)
        /\ run.pc = "resuming" => ReadLink(link', q)
        /\ run.pc = "unlinking" => run' = [run EXCEPT !.pc = "deleting"]
    BY <1>6 DEF ApplyRunUpdate, At
  <2>3. CASE u.kind = "baseline" /\ run.pc = "saving"
    <3>1. /\ link' # None /\ link'.id = run.id /\ link'.source = run.source
          /\ link'.host = run.host
      BY <1>1, <2>3, BaselineRecorded
    <3>2. HasBaseline(link')
      BY <3>1, NoneIsNothing DEF QInv, Good, HasBaseline
    <3>3. Written /\ ~Written'
      BY <2>2, <2>3, BeginsUnwritten DEF Written
    <3>4. rightSide' = rightSide /\ baseState' = baseState
      BY <1>1, <2>3, <3>1, <3>2, <3>3 DEF rightSide, baseState, At
    <3> QED BY <1>1, <3>4, SyncWaits
  <2>4. CASE u.kind \in {"note", "resume all"} /\ run.pc \in {"noting", "resuming"}
    <3>1. ~Written /\ ~Written'
      BY <1>2, <2>2, <2>4, BeginsUnwritten DEF Written
    <3>2. /\ link' = None <=> link = None
          /\ link # None => SameBaseline(link', link)
      BY <1>4, <2>4
    <3> QED BY <1>1, <3>1, <3>2, SyncStays
  <2>5. CASE u.kind = "remove" /\ run.pc = "unlinking"
    <3>1. link' = None /\ run'.pc = "deleting" /\ run'.auto = run.auto
      BY <1>2, <1>4, <2>2, <2>5 DEF Run
    <3>2. ~Written /\ ~Written'
      BY <2>5, <3>1 DEF Written
    <3>3. link # None
      <4>1. run.link \in Link /\ run.link # None /\ run.pc \in Deciding
        BY <2>5, Held, NoLinkAssumption DEF Shape, HasLink, Deciding, Pcs
      <4> QED BY <4>1, Held DEF SameBaseline
    <3>4. baseState # None
      BY <3>2, <3>3, BeforeWriting
    <3>5. baseState' = None /\ rightSide' = None
      BY <3>1, <3>2 DEF baseState, rightSide, HasBaseline
    <3>6. (~run.auto)' = ~run.auto
      BY <3>1
    <3> QED BY <1>1, <3>4, <3>5, <3>6 DEF Sync!Next, Sync!Forget
  <2> QED BY <2>1, <2>3, <2>4, <2>5 DEF Fits
<1>7. CASE ApplyPollUpdate \/ ApplyUserUpdate \/ ApplyStopUpdate
  <2>1. u.by # "run" /\ run' = run
    BY <1>7 DEF ApplyPollUpdate, ApplyUserUpdate, ApplyStopUpdate, UpdateBy, runVars
  <2>2. u.kind \notin {"baseline", "remove"}
    BY <1>5, <2>1 DEF UpdateShape
  <2>3. CASE Written
    <3>1. Written'
      BY <2>1, <2>3 DEF Written
    <3> QED BY <1>1, <2>1, <2>3, <3>1, SyncGoesOn
  <2>4. CASE ~Written
    <3>1. ~Written'
      BY <2>1, <2>4 DEF Written
    <3> QED BY <1>1, <1>4, <2>2, <2>4, <3>1, SyncStays
  <2> QED BY <2>3, <2>4
<1> QED BY <1>6, <1>7 DEF StoreStep

\* The timer, the commands and the bridge touch no side.
LEMMA SyncOthers ==
  ASSUME IInv, QInv, IInv', QInv', ByOthers
  PROVE  [Sync!Next]_(Sync!vars)
<1>1. run \in Run /\ UNCHANGED <<text, records, edits, link>>
  BY Held DEF ByOthers
<1>2. link # None => SameBaseline(link', link)
  BY <1>1 DEF SameBaseline
<1>3. ASSUME run'.pc = run.pc, run'.id = run.id, run'.source = run.source,
             run'.host = run.host, run'.out = run.out
      PROVE  [Sync!Next]_(Sync!vars)
  <2>1. Written' <=> Written
    BY <1>3 DEF Written
  <2> QED BY <1>1, <1>2, <1>3, <2>1, SyncStays, SyncGoesOn
<1>4. CASE run' = run
  BY <1>3, <1>4
<1>5. ASSUME NEW c \in Callers, run' = [run EXCEPT !.callers = @ \cup {c}]
      PROVE  [Sync!Next]_(Sync!vars)
  <2>1. /\ run'.pc = run.pc /\ run'.id = run.id /\ run'.source = run.source
        /\ run'.host = run.host /\ run'.out = run.out
    BY <1>1, <1>5 DEF Run
  <2> QED BY <1>3, <2>1
<1>6. ASSUME NEW auto \in BOOLEAN, NEW callers \in SUBSET Callers,
             run.pc = "idle", run' = NewRun(auto, callers)
      PROVE  [Sync!Next]_(Sync!vars)
  <2>1. ~Written /\ ~Written'
    BY <1>6, NewRuns DEF Written
  <2> QED BY <1>1, <1>2, <2>1, SyncStays
<1> QED BY <1>4, <1>5, <1>6 DEF ByOthers

\* The user changes one side, between the runs.
LEMMA SyncEdits ==
  ASSUME IInv, QInv, Quiet, UserType \/ HostEdit
  PROVE  Sync!Edit
<1>1. /\ run.pc = "idle" /\ UNCHANGED <<run, link>> /\ edits' = edits + 1
      /\ text \in Texts /\ records \in [IDs -> Plist \cup {None}]
      /\ link \in Link \cup {None}
  BY Held DEF UserType, HostEdit, Edit, Quiet, At, storeVars, runVars
<1>2. ~Written /\ ~Written' /\ (~run.auto)' = ~run.auto
  BY <1>1 DEF Written
<1>3. /\ text' \in Texts /\ records' \in [IDs -> Plist \cup {None}]
      /\ text' = text \/ records' = records
  BY <1>1 DEF UserType, HostEdit, editorVars
<1>4. link # None => link.id \in IDs
  BY <1>1 DEF Link
<1>5. /\ rightSide' = (IF link # None THEN records'[link.id] ELSE None)
      /\ rightSide = (IF link # None THEN records[link.id] ELSE None)
      /\ baseState' = baseState
  BY <1>1, <1>2 DEF rightSide, baseState, HasBaseline, At
<1> QED BY <1>1, <1>2, <1>3, <1>4, <1>5 DEF Sync!Edit

LEMMA SyncInit ==
  ASSUME Init, Quiet
  PROVE  Sync!Init
<1>1. /\ IInv /\ QInv /\ text \in Texts /\ edits = 0 /\ run = Idle
  BY InitIInv, QuietInit DEF Init
<1>2. /\ (~run.auto) \in BOOLEAN /\ ~Written
  BY <1>1 DEF Idle, Written
<1>3. CASE link = None
  BY <1>1, <1>2, <1>3, BeforeWriting DEF Sync!Init
<1>4. CASE link # None
  <2>1. InSync
    BY <1>4 DEF Init, Fresh, Legacy, Quiet
  <2>2. link.source = text /\ records[link.id] = link.host
    BY <2>1 DEF InSync
  <2>3. /\ rightSide = link.host /\ link.host \in Plist
        /\ baseState = [left |-> text, right |-> link.host]
    BY <1>1, <1>2, <1>4, <2>2, BeforeWriting DEF Good
  <2> QED BY <1>1, <1>2, <2>3, NoneIsNothing DEF Sync!Init
<1> QED BY <1>3, <1>4

LEMMA SyncStep ==
  ASSUME IInv, QInv, AInv, IInv', QInv', Quiet, [Next]_vars
  PROVE  [Sync!Next]_(Sync!vars)
<1>1. CASE WriteHost \/ ReplaceEditor
  BY <1>1, SyncWrites, SyncPulls DEF Sync!Next
<1>2. CASE Reexport \/ SaveDocument \/ WriteHostSnapshot \/ WriteCompiledSnapshot
  BY <1>2, SyncSaves
<1>3. CASE (RunStep \/ Answer) /\ ~WriteHost /\ ~ReplaceEditor
           /\ ~(Reexport \/ SaveDocument \/ WriteHostSnapshot \/ WriteCompiledSnapshot)
  <2>1. ~Written /\ ~Written' /\ UNCHANGED <<text, records, edits, link>>
    BY <1>3, StaysUnwritten DEF RunStep
  <2>2. link # None => SameBaseline(link', link)
    BY <2>1 DEF SameBaseline
  <2> QED BY <2>1, <2>2, SyncStays
<1>4. CASE StoreStep
  BY <1>4, SyncUpdates
<1>5. CASE BridgeStep \/ Poll \/ (User /\ ~Answer)
  <2>1. link \in Link \cup {None}
    BY Held
  <2>2. UserType \/ HostEdit => Sync!Edit
    BY SyncEdits
  <2>3. ByOthers => [Sync!Next]_(Sync!vars)
    BY SyncOthers
  <2>4. ByOthers \/ UserType \/ HostEdit
    BY <1>5, <2>1, BridgeByOthers, LiveByOthers, CommandsByOthers DEF User
  <2> QED BY <2>2, <2>3, <2>4 DEF Sync!Next
<1>6. CASE Failure
  BY <1>6, NothingFails
<1>7. CASE UNCHANGED vars
  <2>1. /\ text' = text /\ edits' = edits /\ rightSide' = rightSide /\ baseState' = baseState
    BY <1>7 DEF vars, rightSide, baseState, Written, At, HasBaseline
  <2> QED BY <2>1, SyncWaits
<1> QED BY <1>1, <1>2, <1>3, <1>4, <1>5, <1>6, <1>7 DEF Next, User, RunStep

\* While nobody interferes with a run, and links are not both switched and removed,
\* the sync engine does what its README promises of two-way synchronisation (244-260):
\* it creates a record where there is none, lets the side that moved overwrite the
\* one that did not, asks when both moved, and forgets the baseline of an unlinked
\* document (extension.js 1494-1890).
THEOREM ImplementsTwoWaySync ==
  ASSUME Quiet, NeverBoth
  PROVE  Spec => SyncsBothWays
<1>1. Init => IInv /\ QInv /\ AInv /\ Sync!Init
  BY InitIInv, QuietInit, AttachedInit, SyncInit
<1>2. IInv /\ QInv /\ AInv /\ [Next]_vars => (IInv /\ QInv /\ AInv)'
  BY NextKeeps, QuietNext, AttachedNext
<1>3. /\ IInv /\ QInv /\ AInv /\ (IInv /\ QInv /\ AInv)' /\ [Next]_vars
      => [Sync!Next]_(Sync!vars)
  BY SyncStep
<1> QED BY <1>1, <1>2, <1>3, PTL DEF Spec, SyncsBothWays, Sync!Spec
================================================================================
