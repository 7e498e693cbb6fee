---------------------------- MODULE LiveSyncProofs ----------------------------
(***************************************************************************)
(* A sync run decides on the stored baseline, and a queued pause is about  *)
(* it, for any texts, programs, compilers, records and any number of       *)
(* edits, failures and waiting runs.                                       *)
(*                                                                         *)
(* The argument: the baseline changes only by an update that the run in    *)
(* progress waits for (Fits, UpdateShape), there is at most one such       *)
(* update, and no pause waits behind it (RunLast).                         *)
(***************************************************************************)
EXTENDS LiveSync, SequenceTheorems, TLAPS

\* The pcs at which the run has what the later steps take from it.
HasLink == {"export", "missing?", "unlinking", "noting", "conflict?",
            "comparing", "convert", "merge"}
HasID == HasLink \cup {"reexport", "savedoc", "snapHost", "snapCompiled", "saving"}
HasHost == {"conflict?", "comparing", "convert", "merge"}

\* What a run holds at its pc.
Shape(r) ==
  /\ r.pc \in HasLink => r.link \in Link
  /\ r.pc \in HasID => r.id \in IDs
  /\ r.pc \in HasHost => r.host \in Plist
  /\ r.pc = "compile" => /\ r.source \in Texts
                         /\ r.host # None => r.link \in Link /\ r.id \in IDs
  /\ r.pc = "merge" => r.compiled \in Plist

\* The run that waits for an update, and the update it waits for.
Waiting == {"saving", "noting", "unlinking", "resuming"}
Fits(u, r) ==
  \/ u.kind = "baseline" /\ r.pc = "saving"
  \/ u.kind = "note" /\ r.pc = "noting"
  \/ u.kind = "remove" /\ r.pc = "unlinking"
  \/ u.kind = "resume all" /\ r.pc = "resuming"

\* Only a run changes the baseline; the others have a link to fall back on.
UpdateShape(u) ==
  /\ u.kind \in {"baseline", "note", "remove"} => u.by = "run"
  /\ u.kind \in {"note", "pause", "enable", "disable"} => u.link \in Link

\* The update of a run is alone, and behind every pause.
RunLast(q) ==
  \A i, j \in DOMAIN q :
    (q[i].by = "run" /\ (q[j].by = "run" \/ q[j].kind = "pause")) => j <= i

Current(q, l) ==
  \A i \in DOMAIN q : q[i].kind = "pause" => SameBaseline(l, q[i].link)

Decides(r, l) ==
  (r.pc \in Deciding /\ r.link # None) => SameBaseline(l, r.link)

\* A queue of updates for link l, and one without an update of a run.
Queue(q, l) ==
  /\ l \in Link \cup {None}
  /\ q \in Seq(Update)
  /\ \A i \in DOMAIN q : UpdateShape(q[i])
  /\ Current(q, l)

NoRun(q) == \A i \in DOMAIN q : q[i].by # "run"

State(r, q, l) ==
  /\ r \in Run /\ Shape(r)
  /\ Queue(q, l) /\ RunLast(q)
  /\ \A i \in DOMAIN q : q[i].by = "run" => Fits(q[i], r)
  /\ Decides(r, l)

IInv == TypeOK /\ State(run, storeQ, link)
-----------------------------------------------------------------------------
\* A run that waits for no update has none in the queue.
LEMMA NotWaiting ==
  ASSUME NEW r, NEW q, NEW l, State(r, q, l), r.pc \notin Waiting
  PROVE  NoRun(q)
  BY DEF State, NoRun, Fits, Waiting

\* The run goes on to another await that needs no update.
LEMMA Moves ==
  ASSUME NEW r, NEW q, NEW l, NEW s \in Run,
         Queue(q, l), NoRun(q), Shape(s), Decides(s, l)
  PROVE  State(s, q, l)
  BY DEF State, NoRun, RunLast

\* An update nobody of the run waits for joins the queue.
LEMMA Joins ==
  ASSUME NEW r, NEW q, NEW l, NEW u \in Update,
         State(r, q, l), UpdateShape(u), u.by # "run", u.kind # "pause"
  PROVE  State(r, Append(q, u), l)
<1>1. /\ Append(q, u) \in Seq(Update)
      /\ DOMAIN Append(q, u) = DOMAIN q \cup {Len(q) + 1}
      /\ Append(q, u)[Len(q) + 1] = u
      /\ \A i \in DOMAIN q : Append(q, u)[i] = q[i]
      /\ \A i \in DOMAIN q : i < Len(q) + 1
  BY DEF State, Queue
<1> DEFINE p == Append(q, u)
<1> HIDE DEF p
<1> QED BY <1>1 DEF p, State, Queue, RunLast, Current

\* The run asks for an update and waits for it.
LEMMA Asks ==
  ASSUME NEW q, NEW l, NEW s \in Run, NEW u \in Update,
         Queue(q, l), NoRun(q), Shape(s), Decides(s, l),
         UpdateShape(u), u.kind # "pause", Fits(u, s)
  PROVE  State(s, Append(q, u), l)
<1>1. /\ Append(q, u) \in Seq(Update)
      /\ DOMAIN Append(q, u) = DOMAIN q \cup {Len(q) + 1}
      /\ Append(q, u)[Len(q) + 1] = u
      /\ \A i \in DOMAIN q : Append(q, u)[i] = q[i]
      /\ \A i \in DOMAIN q : i < Len(q) + 1
  BY DEF Queue
<1>2. \A i \in DOMAIN q \cup {Len(q) + 1} : i \in Nat
  BY DEF Queue
<1> DEFINE p == Append(q, u)
<1> HIDE DEF p
<1> QED BY <1>1, <1>2 DEF p, State, Queue, NoRun, RunLast, Current
-----------------------------------------------------------------------------
LEMMA Concatenated ==
  ASSUME NEW S, NEW p \in Seq(S), NEW q \in Seq(S)
  PROVE  /\ p \o q \in Seq(S)
         /\ \A i \in DOMAIN (p \o q) :
              \/ i \in DOMAIN p /\ (p \o q)[i] = p[i]
              \/ i - Len(p) \in DOMAIN q /\ (p \o q)[i] = q[i - Len(p)]
<1>1. p \o q \in Seq(S) /\ Len(p \o q) = Len(p) + Len(q)
  BY ConcatProperties
<1>2. ASSUME NEW i \in 1 .. Len(p \o q)
      PROVE  (p \o q)[i] = IF i <= Len(p) THEN p[i] ELSE q[i - Len(p)]
  BY <1>1, ConcatProperties
<1>3. DOMAIN (p \o q) = 1 .. Len(p) + Len(q) /\ DOMAIN p = 1 .. Len(p)
      /\ DOMAIN q = 1 .. Len(q) /\ Len(p) \in Nat /\ Len(q) \in Nat
  BY <1>1
<1> QED BY <1>1, <1>2, <1>3

\* The callers of a run ask for a pause of the link there is, or for Live Sync.
LEMMA CallersAsk ==
  ASSUME NEW result, NEW l \in Link \cup {None}
  PROVE  /\ FollowUps(result, l) \in Seq(Update)
         /\ \A i \in DOMAIN FollowUps(result, l) :
              /\ FollowUps(result, l)[i].by # "run"
              /\ UpdateShape(FollowUps(result, l)[i])
              /\ FollowUps(result, l)[i].kind = "pause"
                   => SameBaseline(l, FollowUps(result, l)[i].link)
<1> DEFINE auto == run.callers \cap {"save", "poll"}
           pauses == auto # {} /\ result \in {"conflict", "missing"} /\ l # None /\ l.live
           enables == "toggle" \in run.callers /\ result = "ok" /\ l # None
           pause == [kind |-> "pause", by |-> IF "poll" \in auto THEN "poll" ELSE "user",
                     reason |-> result, link |-> l]
           p == IF pauses THEN << pause >> ELSE << >>
           e == IF enables THEN << ByUser("enable", l) >> ELSE << >>
           Good(u) == u.by # "run" /\ UpdateShape(u)
                      /\ (u.kind = "pause" => SameBaseline(l, u.link))
<1>1. pauses => pause \in Update /\ Good(pause)
  BY DEF Update, Updates, Reasons, UpdateShape, SameBaseline
<1>2. enables => ByUser("enable", l) \in Update /\ Good(ByUser("enable", l))
  BY DEF Update, Updates, Reasons, UpdateShape, ByUser
<1>3. FollowUps(result, l) = p \o e
  BY DEF FollowUps
<1> HIDE DEF pauses, enables, pause, Good
<1>4. p \in Seq(Update) /\ \A i \in DOMAIN p : Good(p[i])
  BY <1>1
<1>5. e \in Seq(Update) /\ \A i \in DOMAIN e : Good(e[i])
  BY <1>2
<1> HIDE DEF p, e
<1>6. p \o e \in Seq(Update)
  BY <1>4, <1>5, Concatenated
<1>7. ASSUME NEW i \in DOMAIN (p \o e)
      PROVE  Good((p \o e)[i])
  <2>1. \/ i \in DOMAIN p /\ (p \o e)[i] = p[i]
        \/ i - Len(p) \in DOMAIN e /\ (p \o e)[i] = e[i - Len(p)]
    BY <1>4, <1>5, Concatenated
  <2> QED BY <2>1, <1>4, <1>5
<1> QED BY <1>3, <1>6, <1>7 DEF Good

\* The record that starts the next run of the chain.
LEMMA Starts ==
  ASSUME NEW auto \in BOOLEAN, NEW callers \in SUBSET Callers
  PROVE  /\ NewRun(auto, callers) \in Run /\ NewRun(auto, callers).pc = "bridge"
         /\ Idle \in Run /\ Idle.pc = "idle"
  BY DEF NewRun, Idle, Run, Pcs, Callers

\* A run ends: the updates its callers ask for join the queue.
LEMMA Finishes ==
  ASSUME NEW result, NEW l, NEW q,
         pending \in Seq(SUBSET Callers), polling \in BOOLEAN,
         Queue(q, l), NoRun(q), Finish(result, l, q)
  PROVE  /\ State(run', storeQ', l)
         /\ pending' \in Seq(SUBSET Callers) /\ polling' \in BOOLEAN
<1>1. storeQ' = q \o FollowUps(result, l)
  BY DEF Finish
<1>2. /\ FollowUps(result, l) \in Seq(Update)
      /\ \A i \in DOMAIN FollowUps(result, l) :
           /\ FollowUps(result, l)[i].by # "run"
           /\ UpdateShape(FollowUps(result, l)[i])
           /\ FollowUps(result, l)[i].kind = "pause"
                => SameBaseline(l, FollowUps(result, l)[i].link)
  BY CallersAsk DEF Queue
<1>3. q \in Seq(Update)
  BY DEF Queue
<1>4. Queue(storeQ', l) /\ NoRun(storeQ')
  <2>1. storeQ' \in Seq(Update)
    BY <1>1, <1>2, <1>3, Concatenated
  <2>2. \A i \in DOMAIN storeQ' :
          /\ storeQ'[i].by # "run" /\ UpdateShape(storeQ'[i])
          /\ storeQ'[i].kind = "pause" => SameBaseline(l, storeQ'[i].link)
    <3> TAKE i \in DOMAIN storeQ'
    <3> DEFINE f == FollowUps(result, l)
    <3>1. \/ i \in DOMAIN q /\ storeQ'[i] = q[i]
          \/ i - Len(q) \in DOMAIN f /\ storeQ'[i] = f[i - Len(q)]
      BY <1>1, <1>2, <1>3, Concatenated
    <3> HIDE DEF f
    <3>2. CASE i \in DOMAIN q /\ storeQ'[i] = q[i]
      BY <3>2 DEF Queue, NoRun, Current
    <3>3. CASE i - Len(q) \in DOMAIN f /\ storeQ'[i] = f[i - Len(q)]
      BY <1>2, <3>3 DEF f
    <3> QED BY <3>1, <3>2, <3>3
  <2> QED BY <2>1, <2>2 DEF Queue, NoRun, Current
<1>5. /\ run' \in Run /\ run'.pc \in {"idle", "bridge"}
      /\ pending' \in Seq(SUBSET Callers)
  <2>1. CASE pending = <<>>
    BY <2>1, Starts DEF Finish
  <2>2. CASE pending # <<>>
    <3>1. Head(pending) \in SUBSET Callers /\ Tail(pending) \in Seq(SUBSET Callers)
      BY <2>2
    <3>2. run' = NewRun(FALSE, Head(pending)) /\ pending' = Tail(pending)
      BY <2>2 DEF Finish
    <3> QED BY <3>1, <3>2, Starts
  <2> QED BY <2>1, <2>2
<1>6. Shape(run') /\ Decides(run', l)
  BY <1>5 DEF Shape, Decides, Deciding, HasLink, HasID, HasHost
<1>7. State(run', storeQ', l)
  BY <1>4, <1>5, <1>6, Moves
<1>8. polling' \in BOOLEAN
  BY DEF Finish, PollGoesOn
<1> QED BY <1>5, <1>7, <1>8
\* The link is read, or there is none and an automatic run ends.
LEMMA Reads ==
  ASSUME NEW l, NEW q, run \in Run, run.pc \in {"bridge", "resuming"},
         pending \in Seq(SUBSET Callers), polling \in BOOLEAN,
         Queue(q, l), NoRun(q), ReadLink(l, q)
  PROVE  /\ State(run', storeQ', l)
         /\ pending' \in Seq(SUBSET Callers) /\ polling' \in BOOLEAN
<1>1. CASE l = None /\ run.auto
  BY <1>1, Finishes DEF ReadLink
<1>2. CASE ~(l = None /\ run.auto)
  <2> DEFINE s == [run EXCEPT !.pc = IF l = None THEN "name?" ELSE "export",
                              !.link = l,
                              !.id = IF l = None THEN None ELSE l.id]
  <2>1. run' = s /\ storeQ' = q /\ pending' = pending /\ polling' = polling
    BY <1>2 DEF ReadLink
  <2>2. l \in Link \cup {None} /\ (l # None => l.id \in IDs)
    BY DEF Queue, Link
  <2>3. s \in Run
    BY <2>2 DEF Run, Pcs
  <2>4. Shape(s) /\ Decides(s, l)
    <3>1. s.link = l /\ s.pc = (IF l = None THEN "name?" ELSE "export")
          /\ (l # None => s.id \in IDs)
      BY <2>2 DEF Run
    <3> HIDE DEF s
    <3> QED BY <2>2, <3>1
            DEF Shape, Decides, SameBaseline, HasLink, HasID, HasHost
  <2> HIDE DEF s
  <2> QED BY <2>1, <2>3, <2>4, Moves
<1> QED BY <1>1, <1>2
-----------------------------------------------------------------------------
\* A link made anew is a link.
LEMMA MakesLink ==
  ASSUME NEW i \in IDs, NEW t \in Texts \cup {None},
         NEW h \in Plist \cup {None}, NEW b \in BOOLEAN
  PROVE  [id |-> i, source |-> t, host |-> h, live |-> b, paused |-> "none"] \in Link
<1>1. "none" \in Reasons
  BY DEF Reasons
<1> QED BY <1>1 DEF Link

\* Switching Live Sync on or off and pausing it keeps the baseline.
LEMMA Switching ==
  ASSUME NEW c \in Link, NEW reason \in Reasons, NEW b \in BOOLEAN
  PROVE  /\ Paused(c, reason) \in Link
         /\ Unpaused(c) \in Link
         /\ Unpaused([c EXCEPT !.live = b]) \in Link
         /\ \A m : SameBaseline(c, m) =>
              /\ SameBaseline(Paused(c, reason), m) /\ SameBaseline(Unpaused(c), m)
              /\ SameBaseline(Unpaused([c EXCEPT !.live = b]), m)
<1> DEFINE d == [c EXCEPT !.live = b]
<1>1. d \in Link /\ d.id = c.id /\ d.source = c.source /\ d.host = c.host
  BY DEF Link
<1> HIDE DEF d
<1>2. ASSUME NEW l \in Link, NEW r \in Reasons
      PROVE  /\ [l EXCEPT !.paused = r] \in Link
             /\ [l EXCEPT !.paused = r].id = l.id
             /\ [l EXCEPT !.paused = r].source = l.source
             /\ [l EXCEPT !.paused = r].host = l.host
  BY DEF Link
<1>3. "none" \in Reasons
  BY DEF Reasons
<1>4. /\ Paused(c, reason) \in Link /\ Unpaused(c) \in Link /\ Unpaused(d) \in Link
      /\ Paused(c, reason).id = c.id /\ Paused(c, reason).source = c.source
      /\ Paused(c, reason).host = c.host
      /\ Unpaused(c).id = c.id /\ Unpaused(c).source = c.source /\ Unpaused(c).host = c.host
      /\ Unpaused(d).id = d.id /\ Unpaused(d).source = d.source /\ Unpaused(d).host = d.host
  BY <1>1, <1>2, <1>3 DEF Paused, Unpaused
<1>5. /\ Paused(c, reason) # None /\ Unpaused(c) # None /\ Unpaused(d) # None
  BY <1>4, NoLinkAssumption
<1> QED BY <1>1, <1>4, <1>5 DEF SameBaseline, d

\* Updates that are no run's keep the baseline.
LEMMA Updating ==
  ASSUME NEW u \in Update, UpdateShape(u), link \in Link \cup {None},
         run \in Run, Shape(run), u.by = "run" => Fits(u, run)
  PROVE  /\ Updated(u) \in Link \cup {None}
         /\ u.by # "run" =>
              \A m : SameBaseline(link, m) => SameBaseline(Updated(u), m)
<1>1. CASE u.kind = "baseline"
  <2>1. run.id \in IDs /\ run.source \in Texts \cup {None} /\ run.host \in Plist \cup {None}
    BY <1>1 DEF Shape, Run, Fits, UpdateShape, HasID
  <2>2. CurrentLink(u) \in Link \cup {None}
    BY DEF CurrentLink, Update
  <2> DEFINE live == CurrentLink(u) # None /\ CurrentLink(u).live
  <2>3. Updated(u) = [id |-> run.id, source |-> run.source, host |-> run.host,
                      live |-> live, paused |-> "none"]
    BY <1>1 DEF Updated
  <2>4. live \in BOOLEAN
    OBVIOUS
  <2> HIDE DEF live
  <2>5. Updated(u) \in Link
    BY <2>1, <2>3, <2>4, MakesLink
  <2> QED BY <1>1, <2>5 DEF UpdateShape
<1>2. CASE u.kind = "remove"
  BY <1>2 DEF Updated, UpdateShape
<1>3. CASE u.kind \in {"note", "pause", "enable", "disable"}
  <2>1. CurrentLink(u) \in Link /\ (link # None => CurrentLink(u) = link)
    BY <1>3 DEF CurrentLink, UpdateShape
  <2>2. \A c \in Link, r \in Reasons, b \in BOOLEAN :
          /\ Paused(c, r) \in Link
          /\ Unpaused(c) \in Link
          /\ Unpaused([c EXCEPT !.live = b]) \in Link
          /\ \A m : SameBaseline(c, m) =>
               /\ SameBaseline(Paused(c, r), m) /\ SameBaseline(Unpaused(c), m)
               /\ SameBaseline(Unpaused([c EXCEPT !.live = b]), m)
    BY Switching
  <2>3. u.reason \in Reasons
    BY DEF Update
  <2>4. Updated(u) = IF u.kind = "note" THEN Unpaused(CurrentLink(u))
                     ELSE IF u.kind = "pause" THEN Paused(CurrentLink(u), u.reason)
                     ELSE Unpaused([CurrentLink(u) EXCEPT !.live = (u.kind = "enable")])
    BY <1>3 DEF Updated
  <2>5. \A m : SameBaseline(link, m) => SameBaseline(CurrentLink(u), m)
    BY <2>1 DEF SameBaseline
  <2> QED BY <2>1, <2>2, <2>3, <2>4, <2>5
<1>4. CASE u.kind \in {"pause all", "resume all"}
  <2>1. \A c \in Link, r \in Reasons :
          /\ Paused(c, r) \in Link /\ Unpaused(c) \in Link
          /\ \A m : SameBaseline(c, m) =>
               SameBaseline(Paused(c, r), m) /\ SameBaseline(Unpaused(c), m)
    BY Switching
  <2>2. Updated(u) \in {link, Paused(link, "bridge disconnected"), Unpaused(link)}
        /\ (link = None => Updated(u) = link)
    BY <1>4 DEF Updated
  <2>3. "bridge disconnected" \in Reasons
    BY DEF Reasons
  <2> QED BY <2>1, <2>2, <2>3
<1> QED BY <1>1, <1>2, <1>3, <1>4 DEF Update, Updates
\* The head of the queue leaves it.
LEMMA Popped ==
  ASSUME NEW q \in Seq(Update), q # <<>>
  PROVE  /\ Head(q) \in Update /\ Tail(q) \in Seq(Update)
         /\ 1 \in DOMAIN q /\ Head(q) = q[1]
         /\ \A i \in DOMAIN Tail(q) : /\ i \in Nat \ {0}
                                      /\ i + 1 \in DOMAIN q
                                      /\ Tail(q)[i] = q[i + 1]
<1>1. Head(q) \in Update /\ Tail(q) \in Seq(Update)
  OBVIOUS
<1>2. Len(q) \in Nat \ {0} /\ DOMAIN q = 1 .. Len(q) /\ DOMAIN Tail(q) = 1 .. Len(q) - 1
  OBVIOUS
<1>3. ASSUME NEW i \in 1 .. Len(q) - 1 PROVE Tail(q)[i] = q[i + 1]
  BY HeadTailProperties
<1> QED BY <1>1, <1>2, <1>3

\* Somebody else's update is applied.
LEMMA OthersApplied ==
  ASSUME State(run, storeQ, link), storeQ # <<>>, Head(storeQ).by # "run"
  PROVE  State(run, Tail(storeQ), Updated(Head(storeQ)))
<1> DEFINE q == Tail(storeQ)
           l == Updated(Head(storeQ))
<1>1. /\ Head(storeQ) \in Update /\ q \in Seq(Update)
      /\ 1 \in DOMAIN storeQ /\ Head(storeQ) = storeQ[1]
      /\ \A i \in DOMAIN q : i \in Nat \ {0} /\ i + 1 \in DOMAIN storeQ
                             /\ q[i] = storeQ[i + 1]
  BY Popped DEF State, Queue
<1>2. UpdateShape(Head(storeQ))
  BY <1>1 DEF State, Queue
<1>3. l \in Link \cup {None} /\ \A m : SameBaseline(link, m) => SameBaseline(l, m)
  BY <1>1, <1>2, Updating DEF State, Queue
<1> HIDE DEF q, l
<1>4. Queue(q, l)
  BY <1>1, <1>3 DEF State, Queue, Current
<1>5. RunLast(q)
  <2> SUFFICES ASSUME NEW i \in DOMAIN q, NEW j \in DOMAIN q,
                      q[i].by = "run", q[j].by = "run" \/ q[j].kind = "pause"
               PROVE  j <= i
    BY DEF RunLast
  <2>1. i \in Nat /\ j \in Nat /\ j + 1 <= i + 1
    BY <1>1 DEF State, RunLast
  <2> QED BY <2>1
<1>6. Decides(run, l)
  BY <1>3 DEF State, Decides
<1> QED BY <1>1, <1>4, <1>5, <1>6 DEF State, q, l

\* The run's update is applied: nothing is left that rests on the baseline.
LEMMA RunsApplied ==
  ASSUME State(run, storeQ, link), storeQ # <<>>, Head(storeQ).by = "run"
  PROVE  /\ Queue(Tail(storeQ), Updated(Head(storeQ)))
         /\ NoRun(Tail(storeQ))
         /\ Fits(Head(storeQ), run)
<1> DEFINE q == Tail(storeQ)
           l == Updated(Head(storeQ))
<1>1. /\ Head(storeQ) \in Update /\ q \in Seq(Update)
      /\ 1 \in DOMAIN storeQ /\ Head(storeQ) = storeQ[1]
      /\ \A i \in DOMAIN q : i \in Nat \ {0} /\ i + 1 \in DOMAIN storeQ
                             /\ q[i] = storeQ[i + 1]
  BY Popped DEF State, Queue
<1>2. UpdateShape(Head(storeQ)) /\ Fits(Head(storeQ), run)
  BY <1>1 DEF State, Queue
<1>3. l \in Link \cup {None}
  BY <1>1, <1>2, Updating DEF State, Queue
<1> HIDE DEF q, l
<1>4. \A i \in DOMAIN q : q[i].by # "run" /\ q[i].kind # "pause"
  <2> SUFFICES ASSUME NEW i \in DOMAIN q, q[i].by = "run" \/ q[i].kind = "pause"
               PROVE  FALSE
    OBVIOUS
  <2>1. i \in Nat \ {0} /\ i + 1 <= 1
    BY <1>1 DEF State, RunLast
  <2> QED BY <2>1
<1>5. Queue(q, l) /\ NoRun(q)
  BY <1>1, <1>3, <1>4 DEF State, Queue, Current, NoRun
<1> QED BY <1>2, <1>5 DEF q, l
-----------------------------------------------------------------------------
(***************************************************************************)
(* The invariant in two parts: what the run and the update chain share,    *)
(* and the rest, which only needs its types.                               *)
(***************************************************************************)
Shared ==
  /\ State(run, storeQ, link)
  /\ pending \in Seq(SUBSET Callers) /\ polling \in BOOLEAN

Rest ==
  /\ text \in Texts /\ dirty \in BOOLEAN
  /\ records \in [IDs -> Plist \cup {None}]
  /\ snap \in [host : Plist \cup {None}, compiled : Plist \cup {None}]
  /\ up \in BOOLEAN
  /\ kind \in {"connected", "connecting", "disconnecting", "disconnected", "error"}
  /\ bridgeOp \in {"idle", "probing", "validating", "recording",
                   "starting", "adopting", "stopping", "pausing"}
  /\ edits \in Nat /\ faults \in Nat

LEMMA Parts == IInv <=> Shared /\ Rest
  BY DEF IInv, TypeOK, Shared, Rest, State, Queue

LEMMA PartsAfter == (Shared' /\ Rest') => IInv'
  BY DEF IInv, TypeOK, Shared, Rest, State, Queue

\* The run ends by itself.
LEMMA EndsHere ==
  ASSUME Shared, run.pc \notin Waiting, link' = link,
         NEW result, Finish(result, link, storeQ)
  PROVE  Shared'
<1>1. Queue(storeQ, link) /\ NoRun(storeQ)
  BY NotWaiting DEF Shared, State
<1>2. /\ State(run', storeQ', link)
      /\ pending' \in Seq(SUBSET Callers) /\ polling' \in BOOLEAN
  BY <1>1, Finishes DEF Shared
<1> QED BY <1>2 DEF Shared

\* The run goes on to its next await.
LEMMA GoesOn ==
  ASSUME Shared, run.pc \notin Waiting, link' = link,
         NEW s \in Run, Goes(s), Shape(s),
         s.link = run.link, run.pc \in Deciding \/ s.pc \notin Deciding
  PROVE  Shared'
<1>1. Queue(storeQ, link) /\ NoRun(storeQ)
  BY NotWaiting DEF Shared, State
<1>2. Decides(s, link)
  BY DEF Shared, State, Decides
<1>3. State(s, storeQ, link)
  BY <1>1, <1>2, Moves
<1> QED BY <1>3 DEF Shared, Goes

\* The run asks for an update of the link and waits for it.
LEMMA AsksFor ==
  ASSUME Shared, run.pc \notin Waiting, link' = link,
         NEW s \in Run, NEW u \in Update, run' = s, storeQ' = Append(storeQ, u),
         UNCHANGED <<pending, polling>>, Shape(s),
         s.link = run.link, run.pc \in Deciding \/ s.pc \notin Deciding,
         UpdateShape(u), u.kind # "pause", Fits(u, s)
  PROVE  Shared'
<1>1. Queue(storeQ, link) /\ NoRun(storeQ)
  BY NotWaiting DEF Shared, State
<1>2. Decides(s, link)
  BY DEF Shared, State, Decides
<1>3. State(s, Append(storeQ, u), link)
  BY <1>1, <1>2, Asks
<1> QED BY <1>3 DEF Shared
\* Another update joins the chain, or nothing of this happens.
LEMMA OthersAsk ==
  ASSUME Shared, link' = link, run' = run,
         pending' \in Seq(SUBSET Callers), polling' \in BOOLEAN,
         \/ storeQ' = storeQ
         \/ \E u \in Update : /\ storeQ' = Append(storeQ, u) /\ UpdateShape(u)
                              /\ u.by # "run" /\ u.kind # "pause"
  PROVE  Shared'
<1>1. CASE storeQ' = storeQ
  BY <1>1 DEF Shared
<1>2. CASE storeQ' # storeQ
  BY <1>2, Joins DEF Shared
<1> QED BY <1>1, <1>2

\* A run is asked for: it starts, joins the one in progress or waits.
LEMMA Requested ==
  ASSUME Shared, link' = link, storeQ' = storeQ, polling' \in BOOLEAN,
         NEW auto \in BOOLEAN, NEW callers \in SUBSET Callers,
         \/ StartRun(auto, callers)
         \/ \E c \in Callers : JoinRun(c)
         \/ QueueRun(callers)
  PROVE  Shared'
<1>1. CASE StartRun(auto, callers)
  <2>1. run.pc \notin Waiting
    BY <1>1 DEF StartRun, Waiting
  <2>2. Queue(storeQ, link) /\ NoRun(storeQ)
    BY <2>1, NotWaiting DEF Shared, State
  <2>3. run' \in Run /\ run'.pc = "bridge" /\ pending' = pending
    BY <1>1, Starts DEF StartRun
  <2>4. Shape(run') /\ Decides(run', link)
    BY <2>3 DEF Shape, Decides, Deciding, HasLink, HasID, HasHost
  <2> QED BY <2>2, <2>3, <2>4, Moves DEF Shared
<1>2. ASSUME NEW c \in Callers, JoinRun(c)
      PROVE  Shared'
  <2>1. CASE pending = <<>>
    <3> DEFINE s == [run EXCEPT !.callers = @ \cup {c}]
    <3>1. run' = s /\ pending' = pending
      BY <1>2, <2>1 DEF JoinRun
    <3>2. /\ s \in Run /\ s.pc = run.pc /\ s.link = run.link /\ s.id = run.id
          /\ s.host = run.host /\ s.source = run.source /\ s.compiled = run.compiled
      BY DEF Shared, State, Run
    <3> HIDE DEF s
    <3>3. State(s, storeQ, link)
      BY <3>2 DEF Shared, State, Shape, Fits, Decides
    <3> QED BY <3>1, <3>3 DEF Shared
  <2>2. CASE pending # <<>>
    <3>1. /\ run' = run
          /\ pending' = [pending EXCEPT ![Len(pending)] = @ \cup {c}]
      BY <1>2, <2>2 DEF JoinRun
    <3>2. Len(pending) \in DOMAIN pending
      BY <2>2 DEF Shared
    <3>3. pending[Len(pending)] \cup {c} \in SUBSET Callers
      BY <3>2 DEF Shared
    <3>4. pending' \in Seq(SUBSET Callers)
      BY <3>1, <3>2, <3>3, ExceptSeq DEF Shared
    <3> QED BY <3>1, <3>4 DEF Shared
  <2> QED BY <2>1, <2>2
<1>3. CASE QueueRun(callers)
  <2>1. run' = run /\ pending' \in Seq(SUBSET Callers)
    BY <1>3 DEF QueueRun, Shared
  <2> QED BY <2>1 DEF Shared
<1> QED BY <1>1, <1>2, <1>3
-----------------------------------------------------------------------------
(***************************************************************************)
(* The steps, one lemma each where the shared part needs an argument.      *)
(***************************************************************************)
LEMMA InitIInv == Init => IInv
<1> SUFFICES ASSUME Init PROVE Shared /\ Rest
  BY Parts
<1>1. link \in Link \cup {None}
  <2>1. CASE Fresh
    BY <2>1 DEF Fresh
  <2>2. CASE Legacy
    <3>1. PICK id \in IDs :
            link = [id |-> id, source |-> None, host |-> None,
                    live |-> FALSE, paused |-> "none"]
      BY <2>2 DEF Legacy
    <3>2. None \in Texts \cup {None} /\ None \in Plist \cup {None} /\ FALSE \in BOOLEAN
      OBVIOUS
    <3> QED BY <3>1, <3>2, MakesLink
  <2>3. CASE InSync
    <3>1. PICK id \in IDs, m \in Metas, live \in BOOLEAN :
            /\ Compile[text] # None
            /\ link = [id |-> id, source |-> text,
                       host |-> [prog |-> Compile[text], meta |-> m],
                       live |-> live, paused |-> "none"]
      BY <2>3 DEF InSync
    <3>2. [prog |-> Compile[text], meta |-> m] \in Plist
      BY <3>1, CompileAssumption DEF Init, Plist
    <3> QED BY <3>1, <3>2, MakesLink DEF Init
  <2> QED BY <2>1, <2>2, <2>3 DEF Init
<1>2. records \in [IDs -> Plist \cup {None}]
      /\ snap \in [host : Plist \cup {None}, compiled : Plist \cup {None}]
  <2>1. CASE Fresh
    BY <2>1 DEF Fresh, NoSnap
  <2>2. CASE Legacy
    BY <2>2 DEF Legacy, NoSnap
  <2>3. CASE InSync
    <3>1. PICK id \in IDs, m \in Metas :
            /\ Compile[text] # None
            /\ records = [i \in IDs |-> IF i = id
                            THEN [prog |-> Compile[text], meta |-> m] ELSE None]
            /\ snap = [host |-> [prog |-> Compile[text], meta |-> m],
                       compiled |-> CompiledFrom(text)]
      BY <2>3 DEF InSync
    <3>2. Compile[text] \in Progs
      BY <3>1, CompileAssumption DEF Init
    <3>3. [prog |-> Compile[text], meta |-> m] \in Plist /\ CompiledFrom(text) \in Plist
      BY <3>2, ValuesAssumption DEF Plist, CompiledFrom
    <3> QED BY <3>1, <3>3
  <2> QED BY <2>1, <2>2, <2>3 DEF Init
<1>3. run \in Run /\ run.pc = "idle"
  BY Starts DEF Init
<1>4. State(run, storeQ, link)
  <2>1. storeQ = <<>>
    BY DEF Init
  <2>2. storeQ \in Seq(Update) /\ DOMAIN storeQ = {}
    BY <2>1
  <2> QED BY <1>1, <1>3, <2>2
          DEF State, Queue, RunLast, Current, Decides, Shape, Deciding, HasLink, HasID, HasHost
<1>5. pending \in Seq(SUBSET Callers)
  BY DEF Init
<1>6. Shared
  BY <1>4, <1>5 DEF Init, Shared
<1>7. Rest
  BY <1>2 DEF Init, Rest
<1> QED BY <1>6, <1>7

\* The steps of a run: Rest keeps its types.
LEMMA RunKeepsRest ==
  ASSUME IInv, RunStep
  PROVE  Rest'
<1> USE DEF IInv, TypeOK, Rest, RunOnly, editorVars, bridgeVars, bounds
<1>1. CASE BridgeAnswers
  BY <1>1 DEF BridgeAnswers
<1>2. CASE BridgeSilent
  BY <1>2 DEF BridgeSilent
<1>3. CASE RunConnects
  BY <1>3 DEF RunConnects
<1>4. CASE RunAdopts
  BY <1>4 DEF RunAdopts
<1>5. CASE ExportMissing \/ ExportHost
  BY <1>5 DEF ExportMissing, ExportHost
<1>6. CASE CompareShown \/ CompileLocal \/ NotCompiled \/ MergeWithHost
  BY <1>6 DEF CompareShown, CompileLocal, NotCompiled, MergeWithHost
<1>7. CASE WriteHost
  <2>1. PICK id \in IDs : records' = [records EXCEPT ![id] = run.out]
    BY <1>7 DEF WriteHost
  <2>2. run.out \in Plist \cup {None}
    BY DEF Run
  <2>3. faults' \in Nat
    BY <1>7 DEF WriteHost, Fault
  <2> QED BY <1>7, <2>1, <2>2, <2>3 DEF WriteHost
<1>8. CASE RecordGone \/ Reexport
  BY <1>8 DEF RecordGone, Reexport
<1>9. CASE ReplaceEditor
  <2>1. run.host \in Plist
    BY <1>9 DEF ReplaceEditor, At, State, Shape, HasHost
  <2>2. Decompile[run.host.prog] \in Texts
    BY <2>1, CompileAssumption DEF Plist
  <2> QED BY <1>9, <2>2 DEF ReplaceEditor
<1>10. CASE SaveDocument
  BY <1>10 DEF SaveDocument
<1>11. CASE WriteHostSnapshot \/ WriteCompiledSnapshot
  <2>1. run.host \in Plist \cup {None} /\ run.compiled \in Plist \cup {None}
    BY DEF Run
  <2> QED BY <1>11, <2>1 DEF WriteHostSnapshot, WriteCompiledSnapshot
<1>12. CASE DeleteSnapshots
  BY <1>12 DEF DeleteSnapshots, NoSnap
<1> QED BY <1>1, <1>2, <1>3, <1>4, <1>5, <1>6, <1>7, <1>8, <1>9, <1>10, <1>11, <1>12
        DEF RunStep

\* Dialogs, updates, commands, edits and failures: Rest keeps its types.
LEMMA OthersKeepRest ==
  ASSUME IInv, StoreStep \/ BridgeStep \/ Poll \/ User \/ Failure
  PROVE  Rest'
<1> USE DEF IInv, TypeOK, Rest, RunOnly, editorVars, bridgeVars, bounds
<1>1. CASE StoreStep
  BY <1>1 DEF StoreStep, ApplyRunUpdate, ApplyPollUpdate, ApplyUserUpdate, ApplyStopUpdate
<1>2. CASE BridgeStep
  BY <1>2 DEF BridgeStep, Probe, ProbeValidates, ProbeResumes, BridgeStarts,
              BridgeAdopted, BridgeStops
<1>3. CASE Poll
  BY <1>3 DEF Poll
<1>4. CASE Answer
  BY <1>4 DEF Answer, AnswerName, AnswerMissing, AnswerConflict
<1>5. CASE SyncCommand \/ ToggleLiveSync \/ UserSave
  BY <1>5 DEF SyncCommand, ToggleLiveSync, UserSave
<1>6. CASE UserType
  BY <1>6 DEF UserType, Edit
<1>7. CASE HostEdit
  BY <1>7 DEF HostEdit, Edit
<1>8. CASE UserConnect \/ UserDisconnect
  BY <1>8 DEF UserConnect, UserDisconnect
<1>9. CASE Failure
  <2>1. CASE BridgeStopFails
    <3>1. kind' \in {"connected", "error"} /\ bridgeOp' = "idle" /\ faults' = faults + 1
          /\ UNCHANGED <<text, dirty, records, snap, up, edits>>
      BY <2>1 DEF BridgeStopFails, Fault
    <3> QED BY <3>1
  <2>2. CASE BridgeDies
    <3>1. /\ up' = FALSE /\ faults' = faults + 1
          /\ UNCHANGED <<text, dirty, records, snap, kind, bridgeOp, edits>>
      BY <2>2 DEF BridgeDies, Fault
    <3>2. up' \in BOOLEAN
      BY <3>1
    <3> QED BY <3>1, <3>2
  <2> QED BY <1>9, <2>1, <2>2
          DEF Failure, Fault, RunConnectFails, CommandFails, BridgeStartFails, Reload
<1> QED BY <1>1, <1>2, <1>3, <1>4, <1>5, <1>6, <1>7, <1>8, <1>9 DEF User
-----------------------------------------------------------------------------
(***************************************************************************)
(* The steps of a run keep the shared part.                                *)
(***************************************************************************)
LEMMA ConnectionKeeps ==
  ASSUME Shared, BridgeAnswers \/ BridgeSilent \/ RunConnects \/ RunAdopts
  PROVE  Shared'
<1> USE DEF At
<1>0. run \in Run /\ run.pc \in Pcs
  BY DEF Shared, State, Run
<1>1. CASE BridgeAnswers
  <2>1. run.pc = "bridge" /\ ReadLink(link, storeQ) /\ link' = link
    BY <1>1 DEF BridgeAnswers, RunOnly
  <2>2. Queue(storeQ, link) /\ NoRun(storeQ)
    BY <2>1, NotWaiting DEF Shared, State, Waiting
  <2> QED BY <1>0, <2>1, <2>2, Reads DEF Shared
<1>2. CASE BridgeSilent
  <2> DEFINE s == [run EXCEPT !.pc = "connect"]
  <2>1. s \in Run /\ s.pc = "connect" /\ s.link = run.link
    BY <1>0 DEF Run, Pcs
  <2>2. Goes(s) /\ link' = link /\ run.pc \notin Waiting
    BY <1>2 DEF BridgeSilent, Waiting
  <2> HIDE DEF s
  <2> QED BY <2>1, <2>2, GoesOn DEF Shape, Deciding, HasLink, HasID, HasHost
<1>3. CASE RunConnects
  <2> DEFINE s == [run EXCEPT !.pc = "adopt"]
  <2>1. s \in Run /\ s.pc = "adopt" /\ s.link = run.link
    BY <1>0 DEF Run, Pcs
  <2>2. Goes(s) /\ link' = link /\ run.pc \notin Waiting
    BY <1>3 DEF RunConnects, Waiting
  <2> HIDE DEF s
  <2> QED BY <2>1, <2>2, GoesOn DEF Shape, Deciding, HasLink, HasID, HasHost
<1>4. CASE RunAdopts
  <2> DEFINE s == [run EXCEPT !.pc = "resuming"]
             u == ResumeAll("run")
  <2>1. s \in Run /\ s.pc = "resuming" /\ s.link = run.link
    BY <1>0 DEF Run, Pcs
  <2>2. /\ u \in Update /\ UpdateShape(u) /\ u.kind # "pause" /\ Fits(u, s)
    BY <2>1 DEF ResumeAll, Update, Updates, Reasons, UpdateShape, Fits
  <2>3. /\ run' = s /\ storeQ' = Append(storeQ, u) /\ UNCHANGED <<pending, polling>>
        /\ link' = link /\ run.pc \notin Waiting
    BY <1>4 DEF RunAdopts, Waiting
  <2> HIDE DEF s, u
  <2> QED BY <2>1, <2>2, <2>3, AsksFor DEF Shape, Deciding, HasLink, HasID, HasHost
<1> QED BY <1>1, <1>2, <1>3, <1>4

\* compileLocal starts, for the host version h, with the link the run has.
LEMMA StartsCompiling ==
  ASSUME Shared, text \in Texts, link' = link,
         NEW r \in Run, r.link = run.link, run.pc \in Deciding \ Waiting,
         NEW h \in Plist \cup {None}, h # None => r.link \in Link /\ r.id \in IDs,
         Goes(Compiling(r, h))
  PROVE  Shared'
<1> DEFINE s == Compiling(r, h)
<1>1. /\ s \in Run /\ s.pc = "compile" /\ s.link = run.link /\ s.host = h
      /\ s.source = text /\ s.id = r.id
  BY DEF Compiling, Run, Pcs
<1> HIDE DEF s
<1>2. Shape(s)
  BY <1>1 DEF Shape, HasLink, HasID, HasHost
<1> QED BY <1>1, <1>2, GoesOn DEF s

LEMMA ExportKeeps ==
  ASSUME IInv, ExportMissing \/ ExportHost
  PROVE  Shared'
<1>0. /\ Shared /\ run \in Run /\ run.pc = "export" /\ link' = link
      /\ run.link \in Link /\ run.id \in IDs
      /\ run.pc \in Deciding \ Waiting
  BY Parts DEF ExportMissing, ExportHost, Shared, State, Shape, At, RunOnly,
               HasLink, HasID, Deciding, Waiting, Pcs
<1>1. CASE ExportMissing
  <2> DEFINE s == [run EXCEPT !.pc = "missing?"]
  <2>1. s \in Run /\ s.pc = "missing?" /\ s.link = run.link /\ s.id = run.id
    BY <1>0 DEF Run, Pcs
  <2>2. Finish("missing", link, storeQ) \/ Goes(s)
    BY <1>1 DEF ExportMissing
  <2> HIDE DEF s
  <2> QED BY <1>0, <2>1, <2>2, EndsHere, GoesOn DEF Shape, HasLink, HasID, HasHost
<1>2. CASE ExportHost
  <2> DEFINE host == records[run.link.id]
             read == [run EXCEPT !.host = host]
  <2>1. host \in Plist
    BY <1>0, <1>2 DEF ExportHost, IInv, TypeOK, Link
  <2>2. /\ read \in Run /\ read.link = run.link /\ read.id = run.id
        /\ read.host = host
    BY <1>0, <2>1 DEF Run
  <2>3. \/ Goes(Compiling(read, host))
        \/ Goes([read EXCEPT !.pc = "convert"])
        \/ Finish("ok", link, storeQ)
        \/ /\ run' = [read EXCEPT !.pc = "noting"]
           /\ storeQ' = Append(storeQ, ByRun("note"))
           /\ UNCHANGED <<pending, polling>>
        \/ Finish("conflict", link, storeQ)
        \/ Goes([read EXCEPT !.pc = "conflict?"])
    BY <1>2 DEF ExportHost
  <2>4. CASE Goes(Compiling(read, host))
    BY <1>0, <2>1, <2>2, <2>4, StartsCompiling DEF IInv, TypeOK
  <2>5. CASE Finish("ok", link, storeQ) \/ Finish("conflict", link, storeQ)
    BY <1>0, <2>5, EndsHere
  <2>6. ASSUME NEW pc \in {"convert", "conflict?"}, Goes([read EXCEPT !.pc = pc])
        PROVE  Shared'
    <3> DEFINE s == [read EXCEPT !.pc = pc]
    <3>1. /\ s \in Run /\ s.pc = pc /\ s.link = run.link /\ s.id = run.id
          /\ s.host = host
      BY <2>2 DEF Run, Pcs
    <3> HIDE DEF s, host
    <3>2. Shape(s)
      BY <1>0, <2>1, <3>1 DEF Shape, HasLink, HasID, HasHost
    <3> QED BY <1>0, <2>6, <3>1, <3>2, GoesOn DEF s
  <2>7. CASE /\ run' = [read EXCEPT !.pc = "noting"]
             /\ storeQ' = Append(storeQ, ByRun("note"))
             /\ UNCHANGED <<pending, polling>>
    <3> DEFINE s == [read EXCEPT !.pc = "noting"]
               u == ByRun("note")
    <3>1. /\ s \in Run /\ s.pc = "noting" /\ s.link = run.link /\ s.id = run.id
      BY <2>2 DEF Run, Pcs
    <3>2. /\ u \in Update /\ UpdateShape(u) /\ u.kind # "pause" /\ Fits(u, s)
      BY <1>0, <3>1 DEF ByRun, Update, Updates, Reasons, UpdateShape, Fits
    <3>3. run' = s /\ storeQ' = Append(storeQ, u)
      BY <2>7
    <3> HIDE DEF s, u, host, read
    <3>4. Shape(s)
      BY <1>0, <3>1 DEF Shape, HasLink, HasID, HasHost
    <3> QED BY <1>0, <2>7, <3>1, <3>2, <3>3, <3>4, AsksFor
  <2> QED BY <2>3, <2>4, <2>5, <2>6, <2>7
<1> QED BY <1>1, <1>2

LEMMA AnswersKeep ==
  ASSUME IInv, Answer
  PROVE  Shared'
<1>0. Shared /\ run \in Run /\ text \in Texts /\ link' = link
  BY Parts DEF Answer, AnswerName, AnswerMissing, AnswerConflict, Shared, State,
               IInv, TypeOK, RunOnly
<1>1. CASE AnswerName
  <2>1. run.pc = "name?" /\ run.pc \in Deciding \ Waiting
    BY <1>1 DEF AnswerName, At, Deciding, Waiting, Pcs
  <2>2. Goes(Compiling(run, None)) \/ Finish("undefined", link, storeQ)
    BY <1>1 DEF AnswerName
  <2> QED BY <1>0, <2>1, <2>2, EndsHere, StartsCompiling
<1>2. CASE AnswerMissing
  <2>1. run.pc = "missing?" /\ run.pc \in Deciding \ Waiting
    BY <1>2 DEF AnswerMissing, At, Deciding, Waiting, Pcs
  <2>2. run.link \in Link /\ run.id \in IDs
    BY <1>0, <2>1 DEF Shared, State, Shape, HasLink, HasID
  <2>3. \/ Goes(Compiling([run EXCEPT !.id = None], None))
        \/ /\ run' = [run EXCEPT !.pc = "unlinking"]
           /\ storeQ' = Append(storeQ, ByRun("remove"))
           /\ UNCHANGED <<pending, polling>>
        \/ Finish("undefined", link, storeQ)
    BY <1>2 DEF AnswerMissing
  <2>4. CASE Goes(Compiling([run EXCEPT !.id = None], None))
    <3> DEFINE r == [run EXCEPT !.id = None]
    <3>1. r \in Run /\ r.link = run.link
      BY <1>0 DEF Run
    <3> HIDE DEF r
    <3> QED BY <1>0, <2>1, <2>4, <3>1, StartsCompiling DEF r
  <2>5. CASE /\ run' = [run EXCEPT !.pc = "unlinking"]
             /\ storeQ' = Append(storeQ, ByRun("remove"))
             /\ UNCHANGED <<pending, polling>>
    <3> DEFINE s == [run EXCEPT !.pc = "unlinking"]
               u == ByRun("remove")
    <3>1. /\ s \in Run /\ s.pc = "unlinking" /\ s.link = run.link /\ s.id = run.id
      BY <1>0 DEF Run, Pcs
    <3>2. /\ u \in Update /\ UpdateShape(u) /\ u.kind # "pause" /\ Fits(u, s)
      BY <2>2, <3>1 DEF ByRun, Update, Updates, Reasons, UpdateShape, Fits
    <3>3. run' = s /\ storeQ' = Append(storeQ, u)
      BY <2>5
    <3> HIDE DEF s, u
    <3>4. Shape(s)
      BY <2>2, <3>1 DEF Shape, HasLink, HasID, HasHost
    <3> QED BY <1>0, <2>1, <2>5, <3>1, <3>2, <3>3, <3>4, AsksFor
  <2> QED BY <1>0, <2>1, <2>3, <2>4, <2>5, EndsHere
<1>3. CASE AnswerConflict
  <2>1. run.pc = "conflict?" /\ run.pc \in Deciding \ Waiting
    BY <1>3 DEF AnswerConflict, At, Deciding, Waiting, Pcs
  <2>2. run.link \in Link /\ run.id \in IDs /\ run.host \in Plist
    BY <1>0, <2>1 DEF Shared, State, Shape, HasLink, HasID, HasHost
  <2>3. \/ Goes(Compiling(run, run.host))
        \/ \E pc \in {"convert", "comparing"} : Goes([run EXCEPT !.pc = pc])
        \/ Finish("undefined", link, storeQ)
    BY <1>3 DEF AnswerConflict
  <2>4. ASSUME NEW pc \in {"convert", "comparing"}, Goes([run EXCEPT !.pc = pc])
        PROVE  Shared'
    <3> DEFINE s == [run EXCEPT !.pc = pc]
    <3>1. /\ s \in Run /\ s.pc = pc /\ s.link = run.link /\ s.id = run.id
          /\ s.host = run.host
      BY <1>0 DEF Run, Pcs
    <3> HIDE DEF s
    <3>2. Shape(s)
      BY <2>2, <3>1 DEF Shape, HasLink, HasID, HasHost
    <3> QED BY <1>0, <2>1, <2>4, <3>1, <3>2, GoesOn DEF s
  <2> QED BY <1>0, <2>1, <2>2, <2>3, <2>4, EndsHere, StartsCompiling
<1> QED BY <1>1, <1>2, <1>3 DEF Answer

\* The steps in which the run may only end.
LEMMA EndingsKeep ==
  ASSUME Shared,
         CompareShown \/ NotCompiled \/ RecordGone \/ DeleteSnapshots
           \/ RunConnectFails \/ CommandFails
  PROVE  Shared'
<1> DEFINE Ends == Finish("error", link, storeQ) \/ Finish("conflict", link, storeQ)
                   \/ Finish("unlink", link, storeQ)
           Here == run.pc \notin Waiting /\ link' = link /\ Ends
<1>1. CompareShown => Here
  BY DEF CompareShown, At, RunOnly, Waiting
<1>2. NotCompiled => Here
  BY DEF NotCompiled, At, RunOnly, Waiting
<1>3. RecordGone => Here
  BY DEF RecordGone, At, RunOnly, Waiting
<1>4. DeleteSnapshots => Here
  BY DEF DeleteSnapshots, At, Waiting
<1>5. RunConnectFails => Here
  BY DEF RunConnectFails, At, Waiting
<1>6. CommandFails => Here
  BY DEF CommandFails, Waiting
<1>7. Here
  BY <1>1, <1>2, <1>3, <1>4, <1>5, <1>6
<1> QED BY <1>7, EndsHere

LEMMA CompileKeeps ==
  ASSUME IInv, CompileLocal \/ MergeWithHost
  PROVE  Shared'
<1>0. Shared /\ run \in Run /\ text \in Texts /\ link' = link
  BY Parts DEF CompileLocal, MergeWithHost, Shared, State, IInv, TypeOK, RunOnly
<1>1. CASE CompileLocal
  <2>1. run.pc = "compile" /\ run.pc \in Deciding \ Waiting
    BY <1>1 DEF CompileLocal, At, Deciding, Waiting, Pcs
  <2>2. /\ run.source \in Texts
        /\ run.host # None => run.link \in Link /\ run.id \in IDs
        /\ run.host \in Plist \cup {None}
    BY <1>0, <2>1 DEF Shared, State, Shape, Run
  <2> DEFINE plist == CompiledFrom(run.source)
             done == [run EXCEPT !.compiled = plist, !.source = text]
  <2>3. plist \in Plist
    BY <1>1, <2>2, CompileAssumption, ValuesAssumption
       DEF CompileLocal, Answers, CompiledFrom, Plist
  <2> HIDE DEF plist
  <2>4. /\ done \in Run /\ done.link = run.link /\ done.id = run.id
        /\ done.host = run.host /\ done.compiled = plist /\ done.source = text
    BY <1>0, <2>3 DEF Run
  <2>5. \/ run.host = None /\ Goes([done EXCEPT !.pc = "write", !.out = plist])
        \/ run.host # None /\ Goes([done EXCEPT !.pc = "snapHost"])
        \/ run.host # None /\ Goes([done EXCEPT !.pc = "merge"])
    BY <1>1 DEF CompileLocal, plist
  <2> HIDE DEF done
  <2>6. CASE run.host = None /\ Goes([done EXCEPT !.pc = "write", !.out = plist])
    <3> DEFINE s == [done EXCEPT !.pc = "write", !.out = plist]
    <3>1. s \in Run /\ s.pc = "write" /\ s.link = run.link
      BY <2>3, <2>4 DEF Run, Pcs
    <3> HIDE DEF s
    <3>2. Shape(s)
      BY <3>1 DEF Shape, HasLink, HasID, HasHost
    <3> QED BY <1>0, <2>1, <2>6, <3>1, <3>2, GoesOn DEF s
  <2>7. ASSUME NEW pc \in {"snapHost", "merge"}, run.host # None,
               Goes([done EXCEPT !.pc = pc])
        PROVE  Shared'
    <3> DEFINE s == [done EXCEPT !.pc = pc]
    <3>1. /\ s \in Run /\ s.pc = pc /\ s.link = run.link /\ s.id = run.id
          /\ s.host = run.host /\ s.compiled = plist
      BY <2>4 DEF Run, Pcs
    <3> HIDE DEF s
    <3>2. Shape(s)
      BY <2>2, <2>3, <2>7, <3>1 DEF Shape, HasLink, HasID, HasHost
    <3> QED BY <1>0, <2>1, <2>7, <3>1, <3>2, GoesOn DEF s
  <2> QED BY <2>5, <2>6, <2>7
<1>2. CASE MergeWithHost
  <2>1. run.pc = "merge" /\ run.pc \in Deciding \ Waiting
    BY <1>2 DEF MergeWithHost, At, Deciding, Waiting, Pcs
  <2>2. run.link \in Link /\ run.id \in IDs /\ run.host \in Plist /\ run.compiled \in Plist
    BY <1>0, <2>1 DEF Shared, State, Shape, HasLink, HasID, HasHost
  <2> DEFINE out == Merge(snap.compiled, run.compiled, run.host)
             s == [run EXCEPT !.pc = "write", !.out = out]
  <2>3. Finish("error", link, storeQ) \/ Goes(s)
    BY <1>2 DEF MergeWithHost
  <2>4. out \in Plist
    BY <2>2 DEF Merge, Plist
  <2> HIDE DEF out
  <2>5. s \in Run /\ s.pc = "write" /\ s.link = run.link
    BY <1>0, <2>4 DEF Run, Pcs
  <2> HIDE DEF s
  <2>6. Shape(s)
    BY <2>5 DEF Shape, HasLink, HasID, HasHost
  <2> QED BY <1>0, <2>1, <2>3, <2>5, <2>6, EndsHere, GoesOn
<1> QED BY <1>1, <1>2

LEMMA WriteKeeps ==
  ASSUME IInv, WriteHost \/ Reexport
  PROVE  Shared'
<1>0. Shared /\ run \in Run /\ link' = link
  BY Parts DEF WriteHost, Reexport, Shared, State, RunOnly
<1>1. CASE WriteHost
  <2>1. run.pc = "write" /\ run.pc \in Deciding \ Waiting
    BY <1>1 DEF WriteHost, At, Deciding, Waiting, Pcs
  <2>2. PICK id \in IDs :
          Goes([run EXCEPT !.pc = "reexport", !.id = id]) \/ Finish("error", link, storeQ)
    BY <1>1 DEF WriteHost
  <2> DEFINE s == [run EXCEPT !.pc = "reexport", !.id = id]
  <2>3. s \in Run /\ s.pc = "reexport" /\ s.link = run.link /\ s.id = id
    BY <1>0 DEF Run, Pcs
  <2>4. Goes(s) \/ Finish("error", link, storeQ)
    BY <2>2
  <2> HIDE DEF s
  <2>5. Shape(s)
    BY <2>3 DEF Shape, HasLink, HasID, HasHost
  <2> QED BY <1>0, <2>1, <2>3, <2>4, <2>5, EndsHere, GoesOn
<1>2. CASE Reexport
  <2>1. run.pc = "reexport" /\ run.pc \in Deciding \ Waiting
    BY <1>2 DEF Reexport, At, Deciding, Waiting, Pcs
  <2>2. run.id \in IDs
    BY <1>0, <2>1 DEF Shared, State, Shape, HasID
  <2> DEFINE s == [run EXCEPT !.pc = "snapHost", !.host = records[run.id]]
  <2>3. /\ records[run.id] \in Plist \cup {None} /\ Goes(s)
    BY <1>2, <2>2 DEF Reexport, IInv, TypeOK
  <2>4. s \in Run /\ s.pc = "snapHost" /\ s.link = run.link /\ s.id = run.id
    BY <1>0, <2>3 DEF Run, Pcs
  <2> HIDE DEF s
  <2>5. Shape(s)
    BY <2>2, <2>4 DEF Shape, HasLink, HasID, HasHost
  <2> QED BY <1>0, <2>1, <2>3, <2>4, <2>5, GoesOn
<1> QED BY <1>1, <1>2

LEMMA PullKeeps ==
  ASSUME IInv, ReplaceEditor \/ SaveDocument
  PROVE  Shared'
<1>0. Shared /\ run \in Run /\ link' = link
  BY Parts DEF ReplaceEditor, SaveDocument, Shared, State
<1>1. CASE ReplaceEditor
  <2>1. run.pc = "convert" /\ run.pc \in Deciding \ Waiting
    BY <1>1 DEF ReplaceEditor, At, Deciding, Waiting, Pcs
  <2>2. run.id \in IDs /\ run.host \in Plist
    BY <1>0, <2>1 DEF Shared, State, Shape, HasLink, HasID, HasHost
  <2> DEFINE source == Decompile[run.host.prog]
             plist == CompiledFrom(source)
             s == [run EXCEPT !.pc = "savedoc", !.source = source, !.compiled = plist]
  <2>3. run.host.prog \in Progs /\ source \in Texts /\ Compile[source] = run.host.prog
    BY <2>2, CompileAssumption DEF Plist
  <2>4. plist \in Plist
    BY <2>3, ValuesAssumption DEF CompiledFrom, Plist
  <2>5. Goes(s)
    BY <1>1 DEF ReplaceEditor
  <2> HIDE DEF plist, source
  <2>6. s \in Run /\ s.pc = "savedoc" /\ s.link = run.link /\ s.id = run.id
    BY <1>0, <2>3, <2>4 DEF Run, Pcs
  <2> HIDE DEF s
  <2>7. Shape(s)
    BY <2>2, <2>6 DEF Shape, HasLink, HasID, HasHost
  <2> QED BY <1>0, <2>1, <2>5, <2>6, <2>7, GoesOn
<1>2. CASE SaveDocument
  <2>1. run.pc = "savedoc" /\ run.pc \in Deciding \ Waiting
    BY <1>2 DEF SaveDocument, At, Deciding, Waiting, Pcs
  <2> DEFINE s == [run EXCEPT !.pc = "snapHost"]
  <2>2. run.id \in IDs /\ Goes(s)
    BY <1>0, <1>2, <2>1 DEF SaveDocument, Shared, State, Shape, HasID
  <2>3. s \in Run /\ s.pc = "snapHost" /\ s.link = run.link /\ s.id = run.id
    BY <1>0 DEF Run, Pcs
  <2> HIDE DEF s
  <2>4. Shape(s)
    BY <2>2, <2>3 DEF Shape, HasLink, HasID, HasHost
  <2> QED BY <1>0, <2>1, <2>2, <2>3, <2>4, GoesOn
<1> QED BY <1>1, <1>2

LEMMA SnapshotsKeep ==
  ASSUME IInv, WriteHostSnapshot \/ WriteCompiledSnapshot
  PROVE  Shared'
<1>0. Shared /\ run \in Run /\ link' = link
  BY Parts DEF WriteHostSnapshot, WriteCompiledSnapshot, Shared, State
<1>1. run.pc \in {"snapHost", "snapCompiled"} /\ run.pc \in Deciding \ Waiting
  BY DEF WriteHostSnapshot, WriteCompiledSnapshot, At, Deciding, Waiting, Pcs
<1>2. run.id \in IDs
  BY <1>0, <1>1 DEF Shared, State, Shape, HasID
<1>3. CASE WriteHostSnapshot
  <2> DEFINE s == [run EXCEPT !.pc = "snapCompiled"]
  <2>1. Goes(s)
    BY <1>3 DEF WriteHostSnapshot
  <2>2. s \in Run /\ s.pc = "snapCompiled" /\ s.link = run.link /\ s.id = run.id
    BY <1>0 DEF Run, Pcs
  <2> HIDE DEF s
  <2>3. Shape(s)
    BY <1>2, <2>2 DEF Shape, HasLink, HasID, HasHost
  <2> QED BY <1>0, <1>1, <2>1, <2>2, <2>3, GoesOn
<1>4. CASE WriteCompiledSnapshot
  <2> DEFINE s == [run EXCEPT !.pc = "saving"]
             u == ByRun("baseline")
  <2>1. s \in Run /\ s.pc = "saving" /\ s.link = run.link /\ s.id = run.id
    BY <1>0 DEF Run, Pcs
  <2>2. run.link \in Link \cup {None}
    BY <1>0 DEF Run
  <2>3. /\ u \in Update /\ UpdateShape(u) /\ u.kind # "pause" /\ Fits(u, s)
    BY <2>1, <2>2 DEF ByRun, Update, Updates, Reasons, UpdateShape, Fits
  <2>4. run' = s /\ storeQ' = Append(storeQ, u) /\ UNCHANGED <<pending, polling>>
    BY <1>4 DEF WriteCompiledSnapshot
  <2> HIDE DEF s, u
  <2>5. Shape(s)
    BY <1>2, <2>1 DEF Shape, HasLink, HasID, HasHost
  <2> QED BY <1>0, <1>1, <2>1, <2>3, <2>4, <2>5, AsksFor
<1> QED BY <1>3, <1>4
-----------------------------------------------------------------------------
(***************************************************************************)
(* The other steps keep the shared part.                                   *)
(***************************************************************************)
LEMMA UpdatesKeep ==
  ASSUME Shared, StoreStep
  PROVE  Shared'
<1> DEFINE u == Head(storeQ)
           l == Updated(u)
           q == Tail(storeQ)
<1>1. storeQ # <<>> /\ link' = l
  BY DEF StoreStep, ApplyRunUpdate, ApplyPollUpdate, ApplyUserUpdate, ApplyStopUpdate,
         UpdateBy, NextUpdate
<1>2. CASE ApplyRunUpdate
  <2>1. u.by = "run"
    BY <1>2 DEF ApplyRunUpdate, UpdateBy
  <2>2. Queue(q, l) /\ NoRun(q) /\ Fits(u, run)
    BY <1>1, <2>1, RunsApplied DEF Shared
  <2>3. run.pc \in Waiting /\ run \in Run
    BY <2>2 DEF Fits, Waiting, Shared, State
  <2>4. /\ run.pc \in {"saving", "noting"} => Finish("ok", link', q)
        /\ run.pc = "resuming" => ReadLink(link', q)
        /\ run.pc = "unlinking" => /\ run' = [run EXCEPT !.pc = "deleting"]
                                   /\ storeQ' = q
                                   /\ UNCHANGED <<pending, polling>>
    BY <1>2 DEF ApplyRunUpdate, At
  <2> HIDE DEF u, l, q
  <2>5. CASE run.pc \in {"saving", "noting"}
    BY <1>1, <2>2, <2>4, <2>5, Finishes DEF Shared
  <2>6. CASE run.pc = "resuming"
    BY <1>1, <2>2, <2>3, <2>4, <2>6, Reads DEF Shared
  <2>7. CASE run.pc = "unlinking"
    <3> DEFINE s == [run EXCEPT !.pc = "deleting"]
    <3>1. s \in Run /\ s.pc = "deleting"
      BY <2>3 DEF Run, Pcs
    <3>2. run' = s /\ storeQ' = q /\ UNCHANGED <<pending, polling>>
      BY <2>4, <2>7
    <3> HIDE DEF s
    <3>3. Shape(s) /\ Decides(s, l)
      BY <3>1 DEF Shape, Decides, Deciding, HasLink, HasID, HasHost
    <3> QED BY <1>1, <2>2, <3>1, <3>2, <3>3, Moves DEF Shared
  <2> QED BY <2>3, <2>5, <2>6, <2>7 DEF Waiting
<1>3. CASE ApplyPollUpdate \/ ApplyUserUpdate \/ ApplyStopUpdate
  <2>1. /\ u.by # "run" /\ storeQ' = q /\ run' = run /\ pending' = pending
        /\ polling' \in BOOLEAN
    BY <1>3 DEF ApplyPollUpdate, ApplyUserUpdate, ApplyStopUpdate, UpdateBy, runVars, Shared
  <2>2. State(run, q, l)
    BY <1>1, <2>1, OthersApplied DEF Shared
  <2> HIDE DEF u, l, q
  <2> QED BY <1>1, <2>1, <2>2 DEF Shared
<1> QED BY <1>2, <1>3 DEF StoreStep

\* The updates asked for by commands, the timer and the bridge.
LEMMA Requests ==
  /\ \A by \in {"poll", "user", "stop"} :
       \A u \in {PauseAll(by), ResumeAll(by)} :
         u \in Update /\ UpdateShape(u) /\ u.by # "run" /\ u.kind # "pause"
  /\ \A l \in Link : \A k \in {"enable", "disable"} :
       /\ ByUser(k, l) \in Update /\ UpdateShape(ByUser(k, l))
       /\ ByUser(k, l).by # "run" /\ ByUser(k, l).kind # "pause"
  BY DEF PauseAll, ResumeAll, ByUser, Update, Updates, Reasons, UpdateShape

LEMMA BridgeKeeps ==
  ASSUME Shared, BridgeStep \/ UserConnect \/ UserDisconnect
                   \/ BridgeStartFails \/ BridgeStopFails \/ BridgeDies
  PROVE  Shared'
<1>1. /\ link' = link /\ run' = run /\ pending' = pending /\ polling' = polling
      /\ \/ storeQ' = storeQ
         \/ \E by \in {"poll", "user", "stop"} :
              \E u \in {PauseAll(by), ResumeAll(by)} : storeQ' = Append(storeQ, u)
  BY DEF BridgeStep, Probe, ProbeValidates, ProbeResumes, BridgeStarts, BridgeAdopted,
         BridgeStops, UserConnect, UserDisconnect, BridgeStartFails, BridgeStopFails,
         BridgeDies, runVars, storeVars
<1>2. pending' \in Seq(SUBSET Callers) /\ polling' \in BOOLEAN
  BY <1>1 DEF Shared
<1> QED BY <1>1, <1>2, Requests, OthersAsk

LEMMA LiveKeeps ==
  ASSUME Shared, Poll \/ UserSave
  PROVE  Shared'
<1>1. link' = link /\ polling' \in BOOLEAN
  BY DEF Poll, UserSave, RunOnly, Shared
<1>2. \/ UNCHANGED <<run, pending, storeQ>>
      \/ /\ UNCHANGED <<run, pending>>
         /\ \E by \in {"poll", "user"} : storeQ' = Append(storeQ, PauseAll(by))
      \/ \E c \in {"poll", "save"} : RequestAuto(c) /\ storeQ' = storeQ
  BY DEF Poll, UserSave, runVars
<1>3. CASE UNCHANGED <<run, pending, storeQ>>
  BY <1>1, <1>3, OthersAsk DEF Shared
<1>4. CASE /\ UNCHANGED <<run, pending>>
           /\ \E by \in {"poll", "user"} : storeQ' = Append(storeQ, PauseAll(by))
  BY <1>1, <1>4, Requests, OthersAsk DEF Shared
<1>5. ASSUME NEW c \in {"poll", "save"}, RequestAuto(c), storeQ' = storeQ
      PROVE  Shared'
  <2>1. c \in Callers /\ {c} \in SUBSET Callers /\ TRUE \in BOOLEAN
    BY DEF Callers
  <2>2. StartRun(TRUE, {c}) \/ JoinRun(c)
    BY <1>5 DEF RequestAuto
  <2> QED BY <1>1, <1>5, <2>1, <2>2, Requested
<1> QED BY <1>2, <1>3, <1>4, <1>5

LEMMA CommandsKeep ==
  ASSUME Shared, SyncCommand \/ ToggleLiveSync
  PROVE  Shared'
<1>1. link' = link /\ polling' = polling
  BY DEF SyncCommand, ToggleLiveSync, storeVars
<1>2. \/ /\ UNCHANGED <<run, pending>> /\ link # None
         /\ \E k \in {"enable", "disable"} : storeQ' = Append(storeQ, ByUser(k, link))
      \/ \E callers \in {{}, {"toggle"}} :
           RequestInteractive(callers) /\ storeQ' = storeQ
  BY DEF SyncCommand, ToggleLiveSync, storeVars, runVars, HasBaseline
<1>3. CASE /\ UNCHANGED <<run, pending>> /\ link # None
           /\ \E k \in {"enable", "disable"} : storeQ' = Append(storeQ, ByUser(k, link))
  <2>1. link \in Link
    BY <1>3 DEF Shared, State, Queue
  <2> QED BY <1>1, <1>3, <2>1, Requests, OthersAsk DEF Shared
<1>4. ASSUME NEW callers \in {{}, {"toggle"}}, RequestInteractive(callers), storeQ' = storeQ
      PROVE  Shared'
  <2>1. callers \in SUBSET Callers /\ FALSE \in BOOLEAN
    BY DEF Callers
  <2>2. StartRun(FALSE, callers) \/ QueueRun(callers)
    BY <1>4 DEF RequestInteractive
  <2> QED BY <1>1, <1>4, <2>1, <2>2, Requested DEF Shared
<1> QED BY <1>2, <1>3, <1>4

\* What the user writes changes no link, and a reload forgets every run.
LEMMA EditsKeep ==
  ASSUME Shared, UserType \/ HostEdit
  PROVE  Shared'
<1>1. UNCHANGED <<link, run, pending, polling, storeQ>>
  BY DEF UserType, HostEdit, storeVars, runVars
<1> QED BY <1>1, OthersAsk DEF Shared

LEMMA ReloadKeeps ==
  ASSUME Shared, Reload
  PROVE  Shared'
<1>1. /\ link' = link /\ storeQ' = <<>> /\ run' = Idle /\ pending' = <<>>
      /\ polling' = FALSE
  BY DEF Reload
<1>2. storeQ' \in Seq(Update) /\ DOMAIN storeQ' = {} /\ pending' \in Seq(SUBSET Callers)
  BY <1>1
<1>3. run' \in Run /\ run'.pc = "idle"
  BY <1>1, Starts
<1>4. State(run', storeQ', link')
  BY <1>1, <1>2, <1>3
     DEF Shared, State, Queue, RunLast, Current, Decides, Shape, Deciding,
         HasLink, HasID, HasHost
<1> QED BY <1>1, <1>2, <1>4 DEF Shared

LEMMA RunStepKeeps ==
  ASSUME IInv, RunStep
  PROVE  Shared'
<1> Shared
  BY Parts
<1> QED BY ConnectionKeeps, ExportKeeps, EndingsKeep, CompileKeeps, WriteKeeps, PullKeeps,
           SnapshotsKeep DEF RunStep

LEMMA NextKeeps ==
  ASSUME IInv, [Next]_vars
  PROVE  IInv'
<1> Shared /\ Rest
  BY Parts
<1>1. CASE RunStep
  BY <1>1, RunStepKeeps, RunKeepsRest, PartsAfter
<1>2. CASE StoreStep \/ BridgeStep \/ Poll \/ User \/ Failure
  <2>1. Shared'
    BY <1>2, UpdatesKeep, BridgeKeeps, LiveKeeps, CommandsKeep, EditsKeep, AnswersKeep,
       EndingsKeep, ReloadKeeps DEF User, Failure
  <2>2. Rest'
    BY <1>2, OthersKeepRest
  <2> QED BY <2>1, <2>2, PartsAfter
<1>3. CASE UNCHANGED vars
  <2>1. Shared' /\ Rest'
    BY <1>3 DEF vars, Shared, Rest
  <2> QED BY <2>1, PartsAfter
<1> QED BY <1>1, <1>2, <1>3 DEF Next
-----------------------------------------------------------------------------
\* Every state of the system satisfies the inductive invariant.
THEOREM Invariance == Spec => []IInv
<1>1. Init => IInv
  BY InitIInv
<1>2. IInv /\ [Next]_vars => IInv'
  BY NextKeeps
<1> QED BY <1>1, <1>2, PTL DEF Spec

\* Every variable keeps its type: no step of a run takes a link, a record or a
\* compiled program it does not have (extension.js, performPythonDocumentHostSync).
THEOREM TypeCorrect == Spec => []TypeOK
<1>1. IInv => TypeOK
  BY DEF IInv
<1> QED BY <1>1, Invariance, PTL

\* The link a run read when it began still has, at every later await of the run,
\* the baseline it had: what the run decides on, merges with and edits is current
\* (extension.js 1494-1735).
THEOREM DecisionsAreCurrent == Spec => []DecidesOnCurrentLink
<1>1. IInv => DecidesOnCurrentLink
  BY DEF IInv, State, Decides, DecidesOnCurrentLink
<1> QED BY <1>1, Invariance, PTL

\* A pause that waits in the update chain reports on the baseline that is stored
\* (extension.js 1816-1834).
THEOREM PausesAreCurrent == Spec => []PauseIsCurrent
<1>1. IInv => PauseIsCurrent
  BY DEF IInv, State, Queue, Current, PauseIsCurrent
<1> QED BY <1>1, Invariance, PTL
===============================================================================
