------------------------ MODULE RuntimeStagingProofs ------------------------
(***************************************************************************)
(* A copy that passes for current is complete, and so is its binary, for   *)
(* any number of calls, packages and failures.                             *)
(*                                                                         *)
(* The argument is per entry of the copy: it is of the package installed,  *)
(* or a call is still going to copy it, or neither the marker nor a call   *)
(* that has passed it stands for that package (Accounted).  As long as     *)
(* nothing has crossed, the call that copies is alone (Alone), so nothing  *)
(* it empties comes back from a make that was on its way.                  *)
(***************************************************************************)
EXTENDS RuntimeStaging, TLAPS

Positions == 1..Len(Entries)

WillCopy(i) ==
  \E h \in Handlers :
    \/ handler[h].pc \in {"sign", "remove", "empty"}
    \/ handler[h].pc = "copy" /\ handler[h].next <= i

Disowned ==
  /\ disk["marker"] # pkg
  /\ \A h \in Handlers : handler[h].pc \in {"copy", "mark"} => handler[h].sig # pkg

Accounted ==
  ~cut => \A i \in Positions : disk[Entries[i]] = pkg \/ WillCopy(i) \/ Disowned

\* What was copied, and what a call read, is not of a package still to come.
NotOfTheFuture ==
  /\ \A part \in Parts : disk[part] # None => disk[part] <= pkg
  /\ \A h \in Handlers : /\ handler[h].sig # None => handler[h].sig <= pkg
                         /\ handler[h].made # None => handler[h].made <= pkg

Counts ==
  \A h \in Handlers :
    /\ handler[h].pc \in {"idle", "sign", "remove", "empty"} => handler[h].next = 1
    /\ handler[h].pc = "copy" => handler[h].next \in Positions

Alone ==
  ~crossed => \A h \in Staging :
    /\ disk["marker"] # pkg
    /\ \A g \in Handlers \ {h} : handler[g].pc = "idle"
    /\ handler[h].pc \in {"copy", "mark"} => disk["marker"] = None /\ disk["binary"] = None

Makes ==
  ~crossed /\ disk["marker"] = pkg =>
    /\ disk["binary"] \in {None, pkg}
    /\ \A h \in Handlers : handler[h].pc \in {"make", "orphan"} => handler[h].made = pkg

IInv == /\ TypeOK /\ NotOfTheFuture /\ Counts /\ (cut => crossed)
        /\ Accounted /\ Alone /\ Makes
-----------------------------------------------------------------------------
USE BoundsAssumption, NoneAssumption

LEMMA EntriesFacts ==
  ASSUME TypeOK
  PROVE  /\ Len(Entries) \in {2, 3} /\ Positions \subseteq 1..3 /\ 1 \in Positions
         /\ \A i \in Positions : Entries[i] \in Parts \ {"marker", "binary"}
         /\ \A i, j \in Positions : Entries[i] = Entries[j] => i = j
         /\ Sources = {Entries[i] : i \in Positions}
         /\ kind = "bridge" => 3 \in Positions /\ Entries[3] = "tools"
         /\ 2 \in Positions /\ Entries[2] = "src"
<1>1. CASE kind = "bridge"
  BY <1>1 DEF Entries, Positions, Sources, Parts
<1>2. CASE kind = "host"
  BY <1>2 DEF Entries, Positions, Sources, Parts
<1> QED BY <1>1, <1>2 DEF TypeOK

\* What the values are; Nat holds no None.
LEMMA Values ==
  ASSUME TypeOK
  PROVE  /\ pkg \in Nat /\ pkg # 0 /\ pkg # None /\ Packages \subseteq Nat
         /\ \A part \in Parts : disk[part] \in Packages \cup {None}
         /\ \A h \in Handlers : handler[h] \in Handler
         /\ "marker" \in Parts /\ "binary" \in Parts /\ "src" \in Parts /\ "tools" \in Parts
  BY DEF TypeOK, Packages, Parts

LEMMA InitIInv == Init => IInv
<1> SUFFICES ASSUME Init PROVE IInv
  OBVIOUS
<1>1. Idle \in Handler
  BY DEF Idle, Handler
<1>2. TypeOK
  <2>1. Empty \in [Parts -> Packages \cup {None}] /\ 1 \in Packages /\ 0 \in 0..MaxFaults
    BY DEF Empty, Packages
  <2> QED BY <1>1, <2>1 DEF Init, TypeOK
<1>3. \A h \in Handlers : /\ handler[h] = Idle /\ handler[h].pc = "idle" /\ handler[h].next = 1
                           /\ handler[h].sig = None /\ handler[h].made = None
  BY DEF Init, Idle
<1>4. \A part \in Parts : disk[part] = None
  BY DEF Init, Empty
<1>5. NotOfTheFuture /\ Counts
  BY <1>3, <1>4 DEF NotOfTheFuture, Counts
<1>6. Accounted
  BY <1>2, <1>3, <1>4, Values DEF Accounted, Disowned
<1>7. Alone /\ Makes /\ (cut => crossed)
  BY <1>2, <1>3, <1>4, Values DEF Alone, Makes, Staging, Init
<1> QED BY <1>2, <1>5, <1>6, <1>7 DEF IInv

\* One call changes, and nothing it will copy or be alone for: it is not staging, before or after.
LEMMA OtherStep ==
  ASSUME IInv, NEW h \in Handlers, NEW e \in Handler,
         handler[h].pc \notin {"sign", "remove", "empty", "copy", "mark"},
         e.pc \notin {"sign", "remove", "empty", "copy", "mark"},
         e.sig = handler[h].sig \/ e.sig = None,
         e.made # None => e.made <= pkg, e.pc = "idle" => e.next = 1,
         e.pc # "idle" => handler[h].pc # "idle" \/ disk["marker"] = pkg,
         ~crossed /\ disk["marker"] = pkg /\ e.pc \in {"make", "orphan"} => e.made = pkg,
         handler' = [handler EXCEPT ![h] = e],
         UNCHANGED <<kind, pkg, disk, crossed, cut>>, faults' \in 0..MaxFaults
  PROVE  IInv'
<1>1. /\ handler' \in [Handlers -> Handler] /\ handler'[h] = e
      /\ \A g \in Handlers \ {h} : handler'[g] = handler[g]
  BY DEF IInv, TypeOK
<1>2. TypeOK'
  BY <1>1 DEF IInv, TypeOK
<1>3. NotOfTheFuture' /\ Counts'
  BY <1>1, Values DEF IInv, NotOfTheFuture, Counts, Positions, Entries
<1>4. Staging' = Staging /\ h \notin Staging
  BY <1>1 DEF Staging
<1>5. Accounted'
  <2>1. \A i \in Positions : WillCopy(i) => WillCopy(i)'
    BY <1>1 DEF WillCopy
  <2>2. Disowned => Disowned'
    BY <1>1 DEF Disowned
  <2> QED BY <2>1, <2>2 DEF IInv, Accounted, Positions, Entries
<1>6. Alone'
  BY <1>1, <1>4 DEF IInv, Alone, Staging
<1>7. Makes'
  BY <1>1 DEF IInv, Makes
<1> QED BY <1>2, <1>3, <1>5, <1>6, <1>7 DEF IInv

\* A call that is not copying ends.
LEMMA IdleStep ==
  ASSUME IInv, NEW h \in Handlers, h \notin Staging,
         handler' = [handler EXCEPT ![h] = Idle],
         UNCHANGED <<kind, pkg, disk, crossed, cut>>, faults' \in 0..MaxFaults
  PROVE  IInv'
<1>1. Idle \in Handler /\ Idle.pc = "idle" /\ Idle.next = 1 /\ Idle.sig = None /\ Idle.made = None
  BY DEF Idle, Handler
<1>2. handler[h].pc \notin {"sign", "remove", "empty", "copy", "mark"}
  BY DEF Staging
<1> HIDE DEF Idle
<1> QED BY <1>1, <1>2, OtherStep

\* Without a staging call, a marker of the package vouches for the copy.
LEMMA Vouched ==
  ASSUME IInv, ~cut, Staging = {}, disk["marker"] = pkg
  PROVE  \A i \in Positions : disk[Entries[i]] = pkg
  BY DEF IInv, Accounted, WillCopy, Disowned, Staging

LEMMA EnsureKeeps ==
  ASSUME IInv, NEW h \in Handlers, Ensure(h)
  PROVE  IInv'
<1>0. /\ handler[h] \in Handler /\ handler[h].pc = "idle"
      /\ UNCHANGED <<kind, pkg, disk, faults, cut>>
  BY DEF Ensure, IInv, TypeOK
<1>1. CASE IsCurrent
  <2> DEFINE e == [handler[h] EXCEPT !.pc = "build"]
  <2>1. /\ e \in Handler /\ e.pc = "build" /\ e.sig = handler[h].sig /\ e.made = handler[h].made
        /\ handler' = [handler EXCEPT ![h] = e] /\ UNCHANGED crossed
    BY <1>0, <1>1 DEF Ensure, Goes, Handler
  <2>2. e.made # None => e.made <= pkg
    BY <2>1 DEF IInv, NotOfTheFuture
  <2>3. disk["marker"] = pkg /\ faults' \in 0..MaxFaults
    BY <1>0, <1>1 DEF IsCurrent, IInv, TypeOK
  <2> HIDE DEF e
  <2> QED BY <1>0, <2>1, <2>2, <2>3, OtherStep
<1>2. CASE ~IsCurrent
  <2>1. /\ handler' = [handler EXCEPT ![h].pc = "sign"]
        /\ crossed' = (crossed \/ \E g \in Handlers \ {h} : handler[g].pc # "idle")
    BY <1>2 DEF Ensure, Goes
  <2>2. /\ handler' \in [Handlers -> Handler] /\ handler'[h].pc = "sign"
        /\ handler'[h].next = handler[h].next /\ handler'[h].sig = handler[h].sig
        /\ handler'[h].made = handler[h].made
        /\ \A g \in Handlers \ {h} : handler'[g] = handler[g]
    BY <1>0, <2>1 DEF IInv, TypeOK, Handler
  <2>3. TypeOK'
    BY <1>0, <2>1, <2>2 DEF IInv, TypeOK
  <2>4. NotOfTheFuture' /\ (cut' => crossed')
    BY <1>0, <2>1, <2>2 DEF IInv, NotOfTheFuture
  <2>5. Counts'
    BY <1>0, <2>2 DEF IInv, Counts, Positions, Entries
  <2>6. Accounted'
    <3>1. \E g \in Handlers : handler'[g].pc = "sign"
      BY <2>2
    <3>2. ASSUME NEW i \in Positions PROVE WillCopy(i)'
      BY <3>1 DEF WillCopy
    <3> QED BY <1>0, <3>2 DEF Accounted, Positions, Entries
  <2>7. ASSUME ~crossed' PROVE Alone' /\ Makes'
    <3>1. ~crossed /\ \A g \in Handlers \ {h} : handler[g].pc = "idle" /\ handler'[g].pc = "idle"
      BY <2>1, <2>2, <2>7
    <3>2. Staging = {} /\ Staging' = {h}
      BY <1>0, <2>2, <3>1 DEF Staging
    <3>3. disk["marker"] # pkg
      <4> SUFFICES ASSUME disk["marker"] = pkg PROVE FALSE
        OBVIOUS
      <4>1. kind = "bridge" /\ disk["tools"] = None
        BY <1>2 DEF IsCurrent
      <4>2. disk["tools"] = pkg
        BY <3>1, <3>2, <4>1, Vouched, EntriesFacts DEF IInv
      <4> QED BY <4>1, <4>2, Values DEF IInv
    <3>4. Alone'
      BY <1>0, <2>2, <3>1, <3>2, <3>3 DEF Alone
    <3>5. Makes'
      BY <1>0, <3>3 DEF Makes
    <3> QED BY <3>4, <3>5
  <2> QED BY <2>3, <2>4, <2>5, <2>6, <2>7 DEF IInv, Alone, Makes
<1> QED BY <1>1, <1>2

LEMMA ReadSignatureKeeps ==
  ASSUME IInv, NEW h \in Handlers, ReadSignature(h)
  PROVE  IInv'
<1>0. handler[h] \in Handler /\ handler[h].pc = "sign" /\ handler[h].next = 1
  BY DEF ReadSignature, IInv, TypeOK, Counts
<1> DEFINE e == [handler[h] EXCEPT !.pc = "remove", !.sig = pkg]
<1>1. /\ e \in Handler /\ e.pc = "remove" /\ e.sig = pkg /\ e.next = 1 /\ e.made = handler[h].made
  BY <1>0 DEF Handler, IInv, TypeOK
<1>2. handler' = [handler EXCEPT ![h] = e] /\ UNCHANGED <<kind, pkg, disk, faults, crossed, cut>>
  BY DEF ReadSignature
<1> HIDE DEF e
<1>3. /\ handler' \in [Handlers -> Handler] /\ handler'[h] = e
      /\ \A g \in Handlers \ {h} : handler'[g] = handler[g]
  BY <1>1, <1>2 DEF IInv, TypeOK
<1>4. TypeOK'
  BY <1>2, <1>3 DEF IInv, TypeOK
<1>5. NotOfTheFuture' /\ Counts' /\ (cut' => crossed')
  BY <1>1, <1>2, <1>3, Values DEF IInv, NotOfTheFuture, Counts, Positions, Entries
<1>6. Accounted'
  <2>1. \E g \in Handlers : handler'[g].pc = "remove"
    BY <1>1, <1>3
  <2>2. ASSUME NEW i \in Positions PROVE WillCopy(i)'
    BY <2>1 DEF WillCopy
  <2> QED BY <1>2, <2>2 DEF Accounted, Positions, Entries
<1>7. Staging' = Staging /\ h \in Staging
  BY <1>0, <1>1, <1>3 DEF Staging
<1>8. ASSUME ~crossed PROVE Alone'
  <2>1. disk["marker"] # pkg /\ \A g \in Handlers \ {h} : handler'[g].pc = "idle"
    BY <1>3, <1>7, <1>8 DEF IInv, Alone
  <2>2. Staging' \subseteq {h} /\ handler'[h].pc = "remove"
    BY <1>1, <1>3, <2>1 DEF Staging
  <2> QED BY <1>2, <2>1, <2>2 DEF Alone
<1>9. Makes'
  BY <1>1, <1>2, <1>3 DEF IInv, Makes
<1> QED BY <1>2, <1>4, <1>5, <1>6, <1>8, <1>9 DEF IInv, Alone

\* Parts disappear, before the copying begins.
LEMMA RemoveKeeps ==
  ASSUME IInv, NEW h \in Handlers, NEW parts \in SUBSET Parts, disk' = Without(parts),
         \/ handler[h].pc = "remove" /\ Goes(h, "empty")
         \/ handler[h].pc = "empty" /\ Goes(h, "copy") /\ parts = Parts,
         UNCHANGED <<kind, pkg, faults, crossed, cut>>
  PROVE  IInv'
<1>0. /\ handler[h] \in Handler /\ handler[h].pc \in {"remove", "empty"} /\ handler[h].next = 1
      /\ 1 \in Positions
  BY EntriesFacts DEF IInv, TypeOK, Counts
<1>1. /\ handler' \in [Handlers -> Handler] /\ handler'[h].pc \in {"empty", "copy"}
      /\ handler'[h].next = 1 /\ handler'[h].sig = handler[h].sig
      /\ handler'[h].made = handler[h].made
      /\ handler'[h].pc = "copy" => \A part \in Parts : disk'[part] = None
      /\ \A g \in Handlers \ {h} : handler'[g] = handler[g]
  BY <1>0 DEF Goes, IInv, TypeOK, Handler, Without
<1>2. /\ disk' \in [Parts -> Packages \cup {None}]
      /\ \A part \in Parts : disk'[part] \in {disk[part], None}
  BY DEF Without, IInv, TypeOK
<1>3. TypeOK'
  BY <1>1, <1>2 DEF IInv, TypeOK
<1>4. NotOfTheFuture' /\ Counts' /\ (cut' => crossed')
  BY <1>0, <1>1, <1>2 DEF IInv, NotOfTheFuture, Counts, Positions, Entries
<1>5. Accounted'
  <2>1. \A i \in Positions : WillCopy(i)'
    BY <1>1 DEF WillCopy, Positions
  <2> QED BY <2>1 DEF Accounted, Positions, Entries
<1>6. Staging' = Staging /\ h \in Staging
  BY <1>0, <1>1 DEF Staging
<1>7. Alone'
  BY <1>1, <1>2, <1>6, Values DEF IInv, Alone
<1>8. Makes'
  BY <1>1, <1>2, <1>6, Values DEF IInv, Alone, Makes
<1> QED BY <1>3, <1>4, <1>5, <1>7, <1>8 DEF IInv

\* The next entry is of the package; what was accounted for stays so.
LEMMA CopyKeeps ==
  ASSUME IInv, NEW h \in Handlers, Copy(h)
  PROVE  IInv'
<1> DEFINE n == handler[h].next
           e == IF n = Len(Entries) THEN [handler[h] EXCEPT !.pc = "mark"]
                                    ELSE [handler[h] EXCEPT !.next = n + 1]
<1>0. /\ handler[h] \in Handler /\ handler[h].pc = "copy" /\ n \in Positions
      /\ handler' = [handler EXCEPT ![h] = e] /\ disk' = [disk EXCEPT ![Entries[n]] = pkg]
      /\ UNCHANGED <<kind, pkg, faults, crossed, cut>>
  BY DEF Copy, Goes, IInv, TypeOK, Counts
<1>1. /\ e \in Handler /\ e.sig = handler[h].sig /\ e.made = handler[h].made
      /\ e.pc = "copy" => e.next = n + 1 /\ e.next \in Positions
      /\ e.pc \in {"copy", "mark"} /\ (e.pc = "mark" => n = Len(Entries))
  BY <1>0, EntriesFacts DEF Handler, Positions, IInv
<1> HIDE DEF e
<1>2. /\ handler' \in [Handlers -> Handler] /\ handler'[h] = e
      /\ \A g \in Handlers \ {h} : handler'[g] = handler[g]
  BY <1>0, <1>1 DEF IInv, TypeOK
<1>3. /\ Entries[n] \in Parts \ {"marker", "binary"}
      /\ disk' \in [Parts -> Packages \cup {None}] /\ disk'[Entries[n]] = pkg
      /\ \A part \in Parts \ {Entries[n]} : disk'[part] = disk[part]
      /\ disk'["marker"] = disk["marker"] /\ disk'["binary"] = disk["binary"]
  BY <1>0, EntriesFacts, Values DEF IInv, TypeOK
<1>4. TypeOK'
  BY <1>0, <1>2, <1>3 DEF IInv, TypeOK
<1>5. NotOfTheFuture' /\ (cut' => crossed')
  BY <1>0, <1>1, <1>2, <1>3, Values DEF IInv, NotOfTheFuture
<1>6. Counts'
  BY <1>0, <1>1, <1>2 DEF IInv, Counts, Positions, Entries
<1>7. Accounted'
  <2> SUFFICES ASSUME ~cut, NEW i \in Positions
               PROVE  disk'[Entries[i]] = pkg \/ WillCopy(i)' \/ Disowned'
    BY <1>0 DEF Accounted, Positions, Entries
  <2>1. CASE i = n
    BY <1>3, <2>1
  <2>2. CASE i # n /\ disk[Entries[i]] = pkg
    BY <1>3, <2>2, EntriesFacts DEF IInv
  <2>3. CASE i # n /\ WillCopy(i)
    <3>1. PICK g \in Handlers : \/ handler[g].pc \in {"sign", "remove", "empty"}
                                \/ handler[g].pc = "copy" /\ handler[g].next <= i
      BY <2>3 DEF WillCopy
    <3>2. CASE g # h
      BY <1>2, <3>1, <3>2 DEF WillCopy
    <3>3. CASE g = h
      <4>1. n <= i /\ n # i /\ i <= Len(Entries) /\ i \in Nat /\ n \in Nat /\ Len(Entries) \in Nat
        BY <1>0, <2>3, <3>1, <3>3, EntriesFacts DEF Positions, IInv
      <4>2. e.pc = "copy" /\ e.next <= i
        BY <1>1, <4>1
      <4> QED BY <1>2, <4>2 DEF WillCopy
    <3> QED BY <3>2, <3>3
  <2>4. CASE Disowned
    BY <1>0, <1>1, <1>2, <1>3, <2>4 DEF Disowned
  <2> QED BY <2>1, <2>2, <2>3, <2>4 DEF IInv, Accounted
<1>8. Staging' = Staging /\ h \in Staging
  BY <1>0, <1>1, <1>2 DEF Staging
<1>9. Alone'
  BY <1>0, <1>1, <1>2, <1>3, <1>8 DEF IInv, Alone
<1>10. Makes'
  BY <1>0, <1>1, <1>2, <1>3 DEF IInv, Makes
<1> QED BY <1>4, <1>5, <1>6, <1>7, <1>9, <1>10 DEF IInv

LEMMA MarkKeeps ==
  ASSUME IInv, NEW h \in Handlers, Mark(h)
  PROVE  IInv'
<1>0. /\ handler[h] \in Handler /\ handler[h].pc = "mark" /\ h \in Staging
      /\ disk' = [disk EXCEPT !["marker"] = handler[h].sig]
      /\ UNCHANGED <<kind, pkg, faults, crossed, cut>>
  BY DEF Mark, IInv, TypeOK, Staging
<1>1. /\ handler' \in [Handlers -> Handler] /\ handler'[h].pc = "build"
      /\ handler'[h].sig = handler[h].sig /\ handler'[h].made = handler[h].made
      /\ \A g \in Handlers \ {h} : handler'[g] = handler[g]
  BY <1>0 DEF Mark, Goes, IInv, TypeOK, Handler
<1>2. /\ disk' \in [Parts -> Packages \cup {None}] /\ disk'["marker"] = handler[h].sig
      /\ \A part \in Parts \ {"marker"} : disk'[part] = disk[part]
  BY <1>0, Values DEF IInv, TypeOK, Handler
<1>3. TypeOK'
  BY <1>0, <1>1, <1>2 DEF IInv, TypeOK
<1>4. NotOfTheFuture' /\ Counts' /\ (cut' => crossed')
  BY <1>0, <1>1, <1>2 DEF IInv, NotOfTheFuture, Counts, Positions, Entries
<1>5. Accounted'
  <2> SUFFICES ASSUME ~cut, NEW i \in Positions
               PROVE  disk'[Entries[i]] = pkg \/ WillCopy(i)' \/ Disowned'
    BY <1>0 DEF Accounted, Positions, Entries
  <2>1. CASE disk[Entries[i]] = pkg
    BY <1>2, <2>1, EntriesFacts DEF IInv
  <2>2. CASE WillCopy(i)
    BY <1>0, <1>1, <2>2 DEF WillCopy
  <2>3. CASE Disowned
    BY <1>0, <1>1, <1>2, <2>3 DEF Disowned
  <2> QED BY <2>1, <2>2, <2>3 DEF IInv, Accounted
<1>6. Staging' = Staging \ {h}
  BY <1>0, <1>1 DEF Staging
<1>7. ASSUME ~crossed PROVE Alone' /\ Makes'
  <2>1. Staging' = {} /\ disk["binary"] = None /\ \A g \in Handlers \ {h} : handler[g].pc = "idle"
    BY <1>0, <1>6, <1>7 DEF IInv, Alone, Staging
  <2>2. Alone'
    BY <2>1 DEF Alone
  <2>3. Makes'
    BY <1>1, <1>2, <2>1, Values DEF Makes, IInv
  <2> QED BY <2>2, <2>3
<1> QED BY <1>0, <1>3, <1>4, <1>5, <1>7 DEF IInv, Alone, Makes

LEMMA BuildKeeps ==
  ASSUME IInv, NEW h \in Handlers, AlreadyRunning(h) \/ Build(h) \/ MakeFails(h) \/ Return(h)
  PROVE  IInv'
<1>0. /\ handler[h] \in Handler /\ h \notin Staging /\ handler[h].pc \in {"build", "check"}
      /\ UNCHANGED <<kind, pkg, disk, faults, crossed, cut>> /\ faults' \in 0..MaxFaults
  BY DEF AlreadyRunning, Build, MakeFails, Return, IInv, TypeOK, Staging
<1>1. CASE AlreadyRunning(h) \/ MakeFails(h) \/ Return(h)
  BY <1>0, <1>1, IdleStep DEF AlreadyRunning, MakeFails, Return
<1>2. CASE disk["binary"] # None /\ Goes(h, "check")
  <2> DEFINE e == [handler[h] EXCEPT !.pc = "check"]
  <2>1. /\ e \in Handler /\ e.pc = "check" /\ e.sig = handler[h].sig /\ e.made = handler[h].made
        /\ handler' = [handler EXCEPT ![h] = e]
    BY <1>0, <1>2 DEF Goes, Handler
  <2>2. e.made # None => e.made <= pkg
    BY <2>1 DEF IInv, NotOfTheFuture
  <2> HIDE DEF e
  <2> QED BY <1>0, <2>1, <2>2, OtherStep
<1>3. CASE /\ Build(h) /\ disk["src"] # None
           /\ handler' = [handler EXCEPT ![h].pc = "make", ![h].made = disk["src"]]
  <2> DEFINE e == [handler[h] EXCEPT !.pc = "make", !.made = disk["src"]]
  <2>1. /\ e \in Handler /\ e.pc = "make" /\ e.sig = handler[h].sig /\ e.made = disk["src"]
        /\ handler' = [handler EXCEPT ![h] = e]
    BY <1>0, <1>3, Values DEF Handler, IInv
  <2>2. e.made # None => e.made <= pkg
    BY <2>1, Values DEF IInv, NotOfTheFuture
  <2>3. ASSUME ~crossed, disk["marker"] = pkg PROVE e.made = pkg
    <3>1. Staging = {}
      BY <2>3 DEF IInv, Alone
    <3> QED BY <2>1, <2>3, <3>1, Vouched, EntriesFacts DEF IInv
  <2> HIDE DEF e
  <2> QED BY <1>0, <2>1, <2>2, <2>3, OtherStep
<1> QED BY <1>1, <1>2, <1>3 DEF Build

LEMMA MakeEndsKeeps ==
  ASSUME IInv, NEW h \in Handlers, MakeEnds(h)
  PROVE  IInv'
<1> DEFINE e == IF handler[h].pc = "make" THEN [handler[h] EXCEPT !.pc = "check"] ELSE Idle
<1>0. /\ handler[h] \in Handler /\ handler[h].pc \in {"make", "orphan"} /\ h \notin Staging
      /\ disk' = [disk EXCEPT !["binary"] = handler[h].made]
      /\ handler' = [handler EXCEPT ![h] = e]
      /\ UNCHANGED <<kind, pkg, faults, crossed, cut>>
  BY DEF MakeEnds, IInv, TypeOK, Staging
<1>1. /\ e \in Handler /\ e.pc \in {"check", "idle"} /\ (e.pc = "idle" => e.next = 1)
      /\ e.sig \in {handler[h].sig, None} /\ e.made \in {handler[h].made, None}
  BY <1>0 DEF Handler, Idle
<1> HIDE DEF e
<1>2. /\ handler' \in [Handlers -> Handler] /\ handler'[h] = e
      /\ \A g \in Handlers \ {h} : handler'[g] = handler[g]
  BY <1>0, <1>1 DEF IInv, TypeOK
<1>3. /\ disk' \in [Parts -> Packages \cup {None}] /\ disk'["binary"] = handler[h].made
      /\ \A part \in Parts \ {"binary"} : disk'[part] = disk[part]
  BY <1>0, Values DEF IInv, TypeOK, Handler
<1>4. TypeOK'
  BY <1>0, <1>2, <1>3 DEF IInv, TypeOK
<1>5. NotOfTheFuture' /\ Counts' /\ (cut' => crossed')
  BY <1>0, <1>1, <1>2, <1>3 DEF IInv, NotOfTheFuture, Counts, Positions, Entries
<1>6. Staging' = Staging
  BY <1>0, <1>1, <1>2 DEF Staging
<1>7. Accounted'
  <2>1. \A i \in Positions : disk'[Entries[i]] = disk[Entries[i]]
    BY <1>3, EntriesFacts DEF IInv
  <2>2. \A i \in Positions : WillCopy(i) => WillCopy(i)'
    BY <1>0, <1>2 DEF WillCopy
  <2>3. Disowned => Disowned'
    BY <1>0, <1>1, <1>2, <1>3, Values DEF IInv, Disowned
  <2> QED BY <1>0, <2>1, <2>2, <2>3 DEF IInv, Accounted, Positions, Entries
<1>8. Alone'
  BY <1>0, <1>1, <1>2, <1>3, <1>6, Values DEF IInv, Alone
<1>9. Makes'
  BY <1>0, <1>1, <1>2, <1>3, Values DEF IInv, Makes
<1> QED BY <1>4, <1>5, <1>7, <1>8, <1>9 DEF IInv

\* A staging call is given up: what it would have copied nobody vouches for.
LEMMA GivesUpKeeps ==
  ASSUME IInv, NEW h \in Handlers, handler[h].pc # "idle", GivesUp(h),
         UNCHANGED <<kind, pkg, disk, crossed>>, faults' \in 0..MaxFaults
  PROVE  IInv'
<1>0. handler[h] \in Handler
  BY DEF IInv, TypeOK
<1>1. CASE h \notin Staging
  <2>1. UNCHANGED cut
    BY <1>1 DEF GivesUp, IInv, TypeOK
  <2>2. CASE handler' = [handler EXCEPT ![h] = Idle]
    BY <1>1, <2>1, <2>2, IdleStep
  <2>3. CASE handler[h].pc = "make" /\ Goes(h, "orphan")
    <3> DEFINE e == [handler[h] EXCEPT !.pc = "orphan"]
    <3>1. /\ e \in Handler /\ e.pc = "orphan" /\ e.sig = handler[h].sig /\ e.made = handler[h].made
          /\ handler' = [handler EXCEPT ![h] = e]
      BY <1>0, <2>3 DEF Goes, Handler
    <3>2. /\ e.made # None => e.made <= pkg
          /\ ~crossed /\ disk["marker"] = pkg => e.made = pkg
      BY <2>3, <3>1 DEF IInv, NotOfTheFuture, Makes
    <3> HIDE DEF e
    <3> QED BY <1>1, <2>1, <2>3, <3>1, <3>2, OtherStep
  <2> QED BY <2>2, <2>3 DEF GivesUp
<1>2. CASE h \in Staging
  <2>1. handler' = [handler EXCEPT ![h] = Idle] /\ cut' = (cut \/ crossed)
    BY <1>2 DEF GivesUp, Staging
  <2>2. Idle \in Handler /\ Idle.pc = "idle" /\ Idle.next = 1 /\ Idle.sig = None /\ Idle.made = None
    BY DEF Idle, Handler
  <2> HIDE DEF Idle
  <2>3. /\ handler' \in [Handlers -> Handler] /\ handler'[h] = Idle
        /\ \A g \in Handlers \ {h} : handler'[g] = handler[g]
    BY <2>1, <2>2 DEF IInv, TypeOK
  <2>4. TypeOK' /\ (cut' => crossed')
    BY <2>1, <2>3 DEF IInv, TypeOK
  <2>5. NotOfTheFuture' /\ Counts'
    BY <2>2, <2>3 DEF IInv, NotOfTheFuture, Counts, Positions, Entries
  <2>6. ASSUME ~crossed PROVE Accounted' /\ Alone' /\ Makes'
    <3>1. disk["marker"] # pkg /\ \A g \in Handlers : handler'[g].pc = "idle"
      BY <1>2, <2>2, <2>3, <2>6 DEF IInv, Alone
    <3>2. Disowned'
      BY <3>1 DEF Disowned
    <3>3. Staging' = {}
      BY <3>1 DEF Staging
    <3> QED BY <3>1, <3>2, <3>3 DEF Accounted, Alone, Makes
  <2>7. ASSUME crossed PROVE Accounted' /\ Alone' /\ Makes'
    BY <2>1, <2>7 DEF Accounted, Alone, Makes
  <2> QED BY <2>4, <2>5, <2>6, <2>7 DEF IInv
<1> QED BY <1>1, <1>2

\* Nothing in the directory is of the package that has just come.
LEMMA ReinstallKeeps == IInv /\ Reinstall => IInv'
<1> SUFFICES ASSUME IInv, Reinstall PROVE IInv'
  OBVIOUS
<1>1. /\ pkg' = pkg + 1 /\ pkg < MaxInstalls
      /\ UNCHANGED <<kind, disk, handler, faults, crossed, cut>>
  BY DEF Reinstall
<1>2. TypeOK'
  BY <1>1, Values DEF IInv, TypeOK, Packages
<1>3. NotOfTheFuture' /\ Counts'
  <2>1. \A n \in Nat : n <= pkg => n <= pkg'
    BY <1>1, Values DEF IInv
  <2>2. \A h \in Handlers : handler[h].sig \in Nat \cup {None} /\ handler[h].made \in Nat \cup {None}
    BY Values DEF IInv, Handler
  <2>3. \A part \in Parts : disk[part] \in Nat \cup {None}
    BY Values DEF IInv
  <2> QED BY <1>1, <2>1, <2>2, <2>3 DEF IInv, NotOfTheFuture, Counts, Positions, Entries
<1>4. disk["marker"] # pkg' /\ \A h \in Handlers : handler[h].sig # pkg'
  <2>1. ~(pkg' <= pkg) /\ pkg' # None
    BY <1>1, Values DEF IInv
  <2> QED BY <2>1, Values DEF IInv, NotOfTheFuture
<1>5. Disowned' /\ Staging' = Staging
  BY <1>1, <1>4 DEF Disowned, Staging
<1>6. Accounted' /\ Makes'
  BY <1>1, <1>4, <1>5 DEF Accounted, Makes
<1>7. Alone'
  BY <1>1, <1>4, <1>5 DEF IInv, Alone
<1> QED BY <1>1, <1>2, <1>3, <1>6, <1>7 DEF IInv

LEMMA NextIInv == IInv /\ [Next]_vars => IInv'
<1> SUFFICES ASSUME IInv, [Next]_vars PROVE IInv'
  OBVIOUS
<1>0. faults \in 0..MaxFaults
  BY DEF IInv, TypeOK
<1>1. ASSUME NEW h \in Handlers, Ensure(h) PROVE IInv'
  BY <1>1, EnsureKeeps
<1>2. ASSUME NEW h \in Handlers, Step(h) PROVE IInv'
  <2>1. CASE ReadSignature(h)
    BY <2>1, ReadSignatureKeeps
  <2>2. CASE RemoveSome(h)
    <3>1. PICK parts \in SUBSET Parts : disk' = Without(parts)
      BY <2>2 DEF RemoveSome
    <3> QED BY <2>2, <3>1, RemoveKeeps DEF RemoveSome
  <2>3. CASE RemoveRest(h)
    <3>1. disk' = Without(Parts) /\ Parts \in SUBSET Parts
      BY <2>3 DEF RemoveRest, Without, Empty
    <3> QED BY <2>3, <3>1, RemoveKeeps DEF RemoveRest
  <2>4. CASE RemoveDisturbed(h)
    BY <1>0, <2>4, GivesUpKeeps DEF RemoveDisturbed
  <2>5. CASE Copy(h)
    BY <2>5, CopyKeeps
  <2>6. CASE Mark(h)
    BY <2>6, MarkKeeps
  <2>7. CASE AlreadyRunning(h) \/ Build(h) \/ MakeFails(h) \/ Return(h)
    BY <2>7, BuildKeeps
  <2>8. CASE MakeEnds(h)
    BY <2>8, MakeEndsKeeps
  <2> QED BY <1>2, <2>1, <2>2, <2>3, <2>4, <2>5, <2>6, <2>7, <2>8 DEF Step
<1>3. ASSUME NEW h \in Handlers, Fault(h) PROVE IInv'
  <2>1. faults' \in 0..MaxFaults
    BY <1>0, <1>3 DEF Fault
  <2> QED BY <1>3, <2>1, GivesUpKeeps DEF Fault
<1>4. CASE Reinstall
  BY <1>4, ReinstallKeeps
<1>5. CASE UNCHANGED vars
  <2>1. TypeOK' /\ NotOfTheFuture' /\ Counts' /\ (cut' => crossed')
    BY <1>5 DEF vars, IInv, TypeOK, NotOfTheFuture, Counts, Positions, Entries
  <2>2. Accounted' /\ Alone' /\ Makes'
    BY <1>5 DEF vars, IInv, Accounted, WillCopy, Disowned, Alone, Staging, Makes, Positions, Entries
  <2> QED BY <2>1, <2>2 DEF IInv
<1> QED BY <1>1, <1>2, <1>3, <1>4, <1>5 DEF Next

-----------------------------------------------------------------------------
THEOREM Invariance == Spec => []IInv
BY InitIInv, NextIInv, PTL DEF Spec

\* The parts, the calls and the counters keep their types.
THEOREM TypeCorrect == Spec => []TypeOK
<1>1. IInv => TypeOK
  BY DEF IInv
<1> QED BY <1>1, Invariance, PTL

\* A copy that passes for current is complete (copyBridgeRuntime writes its marker last,
\* with the signature read first), however often calls fail or a package is installed
\* between two steps, unless copies crossed and one of them was given up.
THEOREM CurrentCopiesAreComplete == Spec => []CurrentIsComplete
<1>1. IInv => CurrentIsComplete
  <2> SUFFICES ASSUME IInv, ~cut, Staging = {}, disk["marker"] = pkg, NEW e \in Sources
               PROVE  disk[e] = pkg
    BY DEF CurrentIsComplete
  <2>1. PICK i \in Positions : e = Entries[i]
    BY EntriesFacts DEF IInv
  <2> QED BY <2>1, Vouched
<1> QED BY <1>1, Invariance, PTL

\* A binary in a current copy was built from it, so that what exists need not be built
\* again (buildBridgeIfNeeded), unless a copy was renewed while another call was busy.
THEOREM BinariesFit == Spec => []BinaryFits
<1>1. IInv => BinaryFits
  BY DEF IInv, Makes, BinaryFits
<1> QED BY <1>1, Invariance, PTL
=============================================================================
