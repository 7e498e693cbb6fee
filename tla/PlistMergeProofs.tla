-------------------------- MODULE PlistMergeProofs ---------------------------
(***************************************************************************)
(* What a push does to a record, for records of any length and any values: *)
(* it shows the editor's program, and where the items correspond it keeps  *)
(* what only Shortcuts knows.                                              *)
(*                                                                         *)
(* The argument goes up the levels of a record: what the merge makes of    *)
(* one item (ItemMerged), of the lists of items (ListMerged), of records   *)
(* (RecordMerged).  Two dictionaries are equal if they hold the same under *)
(* every key (SameDicts), a missing one included.                          *)
(***************************************************************************)
EXTENDS PlistMerge, SequenceTheorems, TLAPS

\* The items of a compilation.
CompiledItems(p, mark) ==
  [i \in DOMAIN p |-> Item(p[i].sort, p[i].param, Atom(mark), Missing)]

\* What the editor, the compilation kept as base and the record may be.
Typed ==
  /\ program \in Seq(Statement)
  /\ \E q \in Seq(Statement), m \in Marks : base = Compiled(q, m)
  /\ \E s \in Seq(AnyItem), icon \in Optional(Marks) : host = Record(s, icon)
-----------------------------------------------------------------------------
(***************************************************************************)
(* Property lists.                                                         *)
(***************************************************************************)
LEMMA Kinds ==
  ASSUME NEW x
  PROVE  /\ IsDict(Dict(x)) /\ ~IsList(Dict(x)) /\ Dict(x) # Missing
         /\ IsList(List(x)) /\ ~IsDict(List(x)) /\ List(x) # Missing /\ List(x).list = x
         /\ ~IsList(Atom(x)) /\ ~IsDict(Atom(x)) /\ Atom(x) # Missing
         /\ \A y : Atom(x) = Atom(y) => x = y
         /\ \A y : List(x) = List(y) => x = y
<1>1. /\ IsDict(Dict(x)) /\ ~IsList(Dict(x)) /\ Dict(x) # Missing
      /\ IsList(List(x)) /\ ~IsDict(List(x)) /\ List(x) # Missing /\ List(x).list = x
  BY DEF Dict, List, IsDict, IsList, Missing
<1>2. ~IsList(Atom(x)) /\ ~IsDict(Atom(x)) /\ Atom(x) # Missing
  BY DEF Atom, IsDict, IsList, Missing
<1>3. \A y : Atom(x) = Atom(y) => x = y
  BY DEF Atom
<1>4. \A y : List(x) = List(y) => x = y
  BY DEF List
<1> QED BY <1>1, <1>2, <1>3, <1>4

LEMMA Looked ==
  ASSUME NEW f, NEW k
  PROVE  /\ Keys(Dict(f)) = {x \in DOMAIN f : f[x] # Missing}
         /\ Get(Dict(f), k) = IF k \in DOMAIN f THEN f[k] ELSE Missing
         /\ k \in Keys(Dict(f)) <=> Get(Dict(f), k) # Missing
BY DEF Dict, Keys, Get

LEMMA SameDicts ==
  ASSUME NEW f, NEW g, \A k : Get(Dict(f), k) = Get(Dict(g), k)
  PROVE  Dict(f) = Dict(g)
<1> DEFINE F == {k \in DOMAIN f : f[k] # Missing}
           G == {k \in DOMAIN g : g[k] # Missing}
<1>1. F = G /\ \A k \in F : f[k] = g[k]
  BY Looked
<1>2. [k \in F |-> f[k]] = [k \in G |-> g[k]]
  BY <1>1
<1> QED BY <1>2 DEF Dict
-----------------------------------------------------------------------------
(***************************************************************************)
(* Items and records.                                                      *)
(***************************************************************************)
SortNames == {"action", "trigger", "plain"}

LEMMA Held ==
  ASSUME NEW sort \in SortNames, NEW param, NEW uuid, NEW extra, NEW k
  PROVE  Get(Item(sort, param, uuid, extra), k) =
           CASE k = sort -> Atom(sort)
             [] k = "param" -> param
             [] k = "uuid" -> IF sort = "trigger" THEN uuid ELSE Missing
             [] k = "extra" -> extra
             [] OTHER -> Missing
BY Looked DEF Item, SortNames

LEMMA HeldParts ==
  ASSUME NEW sort \in SortNames, NEW param, NEW uuid, NEW extra
  PROVE  /\ Get(Item(sort, param, uuid, extra), sort) = Atom(sort)
         /\ Get(Item(sort, param, uuid, extra), "param") = param
         /\ Get(Item(sort, param, uuid, extra), "uuid") = IF sort = "trigger" THEN uuid ELSE Missing
         /\ Get(Item(sort, param, uuid, extra), "extra") = extra
         /\ \A s \in SortNames : s # sort => Get(Item(sort, param, uuid, extra), s) = Missing
         /\ IsDict(Item(sort, param, uuid, extra)) /\ Item(sort, param, uuid, extra) # Missing
         /\ \A k : k \in Keys(Item(sort, param, uuid, extra))
                     <=> Get(Item(sort, param, uuid, extra), k) # Missing
<1>1. \A s \in SortNames : s # "param" /\ s # "uuid" /\ s # "extra"
  BY DEF SortNames
<1>2. /\ IsDict(Item(sort, param, uuid, extra)) /\ Item(sort, param, uuid, extra) # Missing
      /\ \A k : k \in Keys(Item(sort, param, uuid, extra))
                  <=> Get(Item(sort, param, uuid, extra), k) # Missing
  BY Kinds, Looked DEF Item
<1> QED BY <1>1, <1>2, Held

LEMMA SortIs ==
  ASSUME NEW sort \in Sorts, NEW param, NEW uuid, NEW extra
  PROVE  SortOf(Item(sort, param, uuid, extra)) = sort
<1>1. Sorts \subseteq SortNames
  BY BoundsAssumption DEF SortNames
<1>2. \A s \in Sorts : s \in Keys(Item(sort, param, uuid, extra)) <=> s = sort
  BY <1>1, HeldParts, Kinds
<1> QED BY <1>2 DEF SortOf

LEMMA IdentityIs ==
  ASSUME NEW sort \in SortNames, NEW param, NEW uuid, NEW extra
  PROVE  ItemIdentity(Item(sort, param, uuid, extra)) =
           IF sort = "plain" THEN NoIdentity ELSE <<sort, Atom(sort)>>
<1> DEFINE item == Item(sort, param, uuid, extra)
<1>1. /\ IsDict(item)
      /\ \A s \in SortNames : s \in Keys(item) <=> s = sort
  BY HeldParts, Kinds
<1>2. \A k : k \in Keys(item) => item.dict[k] = Get(item, k)
  BY DEF Get
<1>3. Get(item, sort) = Atom(sort)
  BY HeldParts
<1> HIDE DEF item
<1>4. item.dict[sort] = Atom(sort)
  BY <1>1, <1>2, <1>3
<1>5. sort = "action" => ItemIdentity(item) = <<sort, Atom(sort)>>
  BY <1>1, <1>4 DEF ItemIdentity, SortNames
<1>6. sort = "trigger" => ItemIdentity(item) = <<sort, Atom(sort)>>
  BY <1>1, <1>4 DEF ItemIdentity, SortNames
<1>7. sort = "plain" => ItemIdentity(item) = NoIdentity
  BY <1>1 DEF ItemIdentity, SortNames
<1>8. ItemIdentity(item) = IF sort = "plain" THEN NoIdentity ELSE <<sort, Atom(sort)>>
  BY <1>5, <1>6, <1>7 DEF SortNames
<1> QED BY <1>8 DEF item

LEMMA RecordHolds ==
  ASSUME NEW s, NEW icon
  PROVE  /\ Items(Record(s, icon)) = s /\ Get(Record(s, icon), "items") = List(s)
         /\ Get(Record(s, icon), "icon") = icon
         /\ \A k : k \notin {"items", "icon"} => Get(Record(s, icon), k) = Missing
         /\ IsDict(Record(s, icon)) /\ Record(s, icon) # Missing
         /\ \A k : k \in Keys(Record(s, icon)) <=> Get(Record(s, icon), k) # Missing
<1> DEFINE f == [k \in {"items", "icon"} |-> IF k = "items" THEN List(s) ELSE icon]
<1>1. Record(s, icon) = Dict(f)
  BY DEF Record
<1>2. /\ Get(Dict(f), "items") = List(s) /\ Get(Dict(f), "icon") = icon
      /\ \A k : k \notin {"items", "icon"} => Get(Dict(f), k) = Missing
      /\ IsDict(Dict(f)) /\ Dict(f) # Missing
      /\ \A k : k \in Keys(Dict(f)) <=> Get(Dict(f), k) # Missing
  BY Looked, Kinds
<1>3. Items(Dict(f)) = s
  BY <1>2, Kinds DEF Items, Get
<1> HIDE DEF f
<1> QED BY <1>1, <1>2, <1>3
-----------------------------------------------------------------------------
(***************************************************************************)
(* The merge, level by level.                                              *)
(***************************************************************************)
\* Values, which are neither dictionaries nor lists.
LEMMA ValueMerged ==
  ASSUME NEW b, NEW l, NEW h
  PROVE  /\ l = b => MergeValues(b, l, h) = h
         /\ l # b => MergeValues(b, l, h) = l
         /\ MergeValues(b, b, h) = h
BY DEF MergeValues

\* Two items of one sort: the parameter is merged, the rest is the host's.
LEMMA ItemMerged ==
  ASSUME NEW sort \in SortNames, NEW pb, NEW ub, NEW pl, NEW ul, NEW ph, NEW uh, NEW eh
  PROVE  MergeItems(Item(sort, pb, ub, Missing), Item(sort, pl, ul, Missing), Item(sort, ph, uh, eh))
           = Item(sort, MergeValues(pb, pl, ph), uh, eh)
<1> DEFINE b == Item(sort, pb, ub, Missing)
           l == Item(sort, pl, ul, Missing)
           h == Item(sort, ph, uh, eh)
           merged == Item(sort, MergeValues(pb, pl, ph), uh, eh)
<1>1. CASE l = b
  <2>1. pl = pb
    BY <1>1, HeldParts
  <2>2. merged = h
    BY <2>1, ValueMerged
  <2> HIDE DEF merged, h, l, b
  <2> QED BY <1>1, <2>2 DEF MergeItems, ApplyLocalDelta, AllDicts, merged, h, l, b
<1>2. CASE l # b
  <2> DEFINE K == AllKeys(b, l, h)
             F(k) == IF k \in PreserveKeys THEN Get(h, k)
                     ELSE MergeValues(Get(b, k), Get(l, k), Get(h, k))
             f == [k \in K |-> F(k)]
  <2>1. /\ IsDict(b) /\ IsDict(l) /\ IsDict(h)
        /\ b # Missing /\ l # Missing /\ h # Missing
    BY HeldParts
  <2>2. MergeItems(b, l, h) = Dict(f)
    <3> HIDE DEF b, l, h
    <3> QED BY <1>2, <2>1 DEF MergeItems, ApplyLocalDelta, AllDicts
  <2>3. ASSUME NEW k PROVE Get(Dict(f), k) = Get(merged, k)
    <3>1. Get(Dict(f), k) = IF k \in K THEN F(k) ELSE Missing
      <4> HIDE DEF K, F
      <4>1. DOMAIN f = K /\ (k \in K => f[k] = F(k))
        OBVIOUS
      <4> HIDE DEF f
      <4> QED BY <4>1, Looked
    <3>2. k \notin K => Get(b, k) = Missing /\ Get(l, k) = Missing /\ Get(h, k) = Missing
      BY HeldParts DEF AllKeys
    <3>3. F(k) = Get(merged, k)
      <4>1. CASE k = sort
        BY <4>1, HeldParts, ValueMerged DEF PreserveKeys, SortNames
      <4>2. CASE k = "param"
        BY <4>2, HeldParts DEF PreserveKeys
      <4>3. CASE k = "uuid"
        BY <4>3, HeldParts DEF PreserveKeys
      <4>4. CASE k = "extra"
        BY <4>4, HeldParts, ValueMerged DEF PreserveKeys
      <4>5. CASE k \notin {sort, "param", "uuid", "extra"}
        <5>1. Get(b, k) = Missing /\ Get(l, k) = Missing /\ Get(h, k) = Missing /\ Get(merged, k) = Missing
          BY <4>5, Held
        <5> QED BY <4>5, <5>1, ValueMerged DEF PreserveKeys
      <4> QED BY <4>1, <4>2, <4>3, <4>4, <4>5
    <3>4. k \notin K => F(k) = Missing
      BY <3>2, ValueMerged DEF PreserveKeys
    <3> QED BY <3>1, <3>3, <3>4
  <2>4. Dict(f) = merged
    <3>1. \E g : merged = Dict(g)
      BY DEF Item
    <3> HIDE DEF merged, f
    <3> QED BY <2>3, <3>1, SameDicts
  <2> QED BY <2>2, <2>4
<1> QED BY <1>1, <1>2

\* The lists of items: the host's if the editor's is the base, item by item if they
\* are mergeable, the editor's otherwise.
LEMMA ListMerged ==
  ASSUME NEW b, NEW l, NEW h
  PROVE  MergeLists(List(b), List(l), List(h)) =
           List(IF l = b THEN h
                ELSE IF MergeableObjectLists(b, l, h)
                THEN [i \in Zipped(b, l, h) |-> MergeItems(b[i], l[i], h[i])]
                ELSE l)
<1>1. /\ \A x : IsList(List(x)) /\ ~IsDict(List(x)) /\ List(x) # Missing /\ List(x).list = x
      /\ \A x, y : List(x) = List(y) => x = y
  BY Kinds
<1>2. CASE l = b
  BY <1>2 DEF MergeLists, ApplyLocalDelta, AllDicts, AllMergeableLists
<1>3. CASE l # b /\ MergeableObjectLists(b, l, h)
  BY <1>1, <1>3 DEF MergeLists, ApplyLocalDelta, AllDicts, AllMergeableLists
<1>4. CASE l # b /\ ~MergeableObjectLists(b, l, h)
  BY <1>1, <1>4 DEF MergeLists, ApplyLocalDelta, AllDicts, AllMergeableLists
<1> QED BY <1>2, <1>3, <1>4

\* Records: the lists are merged, the icon is the host's.
LEMMA RecordMerged ==
  ASSUME NEW bs, NEW ib, NEW ls, NEW il, NEW hs, NEW ih, NEW ms,
         MergeLists(List(bs), List(ls), List(hs)) = List(ms)
  PROVE  MergePlists(Record(bs, ib), Record(ls, il), Record(hs, ih)) = Record(ms, ih)
<1> DEFINE b == Record(bs, ib)
           l == Record(ls, il)
           h == Record(hs, ih)
           merged == MergeRecords(b, l, h)
<1>1. /\ IsDict(b) /\ IsDict(l) /\ IsDict(h)
      /\ b # Missing /\ l # Missing /\ h # Missing
  BY RecordHolds
<1>2. /\ Get(merged, "items") = List(ms)
      /\ \A k : k \notin {"items", "icon"} => Get(merged, k) = Missing
  <2>1. CASE l = b
    <3>1. merged = h
      <4> HIDE DEF l, b, h
      <4> QED BY <2>1 DEF MergeRecords, ApplyLocalDelta, AllDicts
    <3>2. ls = bs
      BY <2>1, RecordHolds
    <3>3. ms = hs
      BY <3>2, ListMerged, Kinds
    <3>4. Get(h, "items") = List(hs) /\ \A k : k \notin {"items", "icon"} => Get(h, k) = Missing
      BY RecordHolds
    <3> QED BY <3>1, <3>3, <3>4
  <2>2. CASE l # b
    <3> DEFINE K == AllKeys(b, l, h)
               F(k) == IF k \in PreserveKeys THEN Get(h, k)
                       ELSE MergeLists(Get(b, k), Get(l, k), Get(h, k))
               f == [k \in K |-> F(k)]
    <3>1. merged = Dict(f)
      <4> HIDE DEF b, l, h
      <4> QED BY <1>1, <2>2 DEF MergeRecords, ApplyLocalDelta, AllDicts
    <3>2. ASSUME NEW k PROVE Get(merged, k) = IF k \in K THEN F(k) ELSE Missing
      <4> HIDE DEF K, F, merged
      <4>1. DOMAIN f = K /\ (k \in K => f[k] = F(k))
        OBVIOUS
      <4> HIDE DEF f
      <4> QED BY <3>1, <4>1, Looked
    <3>3. "items" \in K
      BY RecordHolds, Kinds DEF AllKeys
    <3>4. F("items") = List(ms)
      BY RecordHolds DEF PreserveKeys
    <3>5. ASSUME NEW k, k \notin {"items", "icon"} PROVE k \notin K
      BY <3>5, RecordHolds DEF AllKeys
    <3> HIDE DEF K, F, merged
    <3> QED BY <3>2, <3>3, <3>4, <3>5
  <2> QED BY <2>1, <2>2
<1> DEFINE K == Keys(merged) \cup Keys(h)
           F(k) == IF k \in PreserveRootKeys THEN Get(h, k) ELSE Get(merged, k)
           f == [k \in K |-> F(k)]
<1>3. MergePlists(b, l, h) = Dict(f)
  BY DEF MergePlists
<1>4. ASSUME NEW k PROVE Get(Dict(f), k) = Get(Record(ms, ih), k)
  <2>1. Get(Dict(f), k) = IF k \in K THEN F(k) ELSE Missing
    <3> HIDE DEF K, F
    <3>1. DOMAIN f = K /\ (k \in K => f[k] = F(k))
      OBVIOUS
    <3> HIDE DEF f
    <3> QED BY <3>1, Looked
  <2>2. k \notin K => Get(merged, k) = Missing /\ Get(h, k) = Missing
    <3> HIDE DEF merged, h
    <3> QED BY DEF Get
  <2>3. k \notin K => F(k) = Missing
    BY <2>2
  <2>4. F(k) = Get(Record(ms, ih), k)
    <3>1. CASE k = "icon"
      BY <3>1, RecordHolds DEF PreserveRootKeys
    <3>2. CASE k = "items"
      BY <1>2, <3>2, RecordHolds DEF PreserveRootKeys
    <3>3. CASE k \notin {"items", "icon"}
      BY <1>2, <3>3, RecordHolds DEF PreserveRootKeys
    <3> QED BY <3>1, <3>2, <3>3
  <2> QED BY <2>1, <2>3, <2>4
<1>5. \E g : Record(ms, ih) = Dict(g)
  BY DEF Record
<1> HIDE DEF f
<1>6. Dict(f) = Record(ms, ih)
  BY <1>4, <1>5, SameDicts
<1> QED BY <1>3, <1>6
-----------------------------------------------------------------------------
(***************************************************************************)
(* Sequences.                                                              *)
(***************************************************************************)
\* A function over the positions of a sequence is a sequence.
LEMMA SequenceOf ==
  ASSUME NEW S, NEW T, NEW s \in Seq(S), NEW t, DOMAIN t = DOMAIN s, \A i \in DOMAIN s : t[i] \in T,
         t = [i \in DOMAIN s |-> t[i]]
  PROVE  t \in Seq(T) /\ Len(t) = Len(s)
<1>1. Len(s) \in Nat /\ DOMAIN s = 1..Len(s)
  BY LenProperties
<1>2. t \in [1..Len(s) -> T]
  BY <1>1
<1> QED BY <1>1, <1>2

\* A change of one element leads from sequences over S to sequences over S.
LEMMA ChangedIn ==
  ASSUME NEW S, NEW s \in Seq(S), NEW t \in OneChange(s, S)
  PROVE  t \in Seq(S)
<1>1. Len(s) \in Nat /\ DOMAIN s = 1..Len(s) /\ \A i \in 1..Len(s) : s[i] \in S
  BY LenProperties, ElementOfSeq
<1>2. ASSUME NEW m \in Int, NEW n \in Int, 1 <= m, n <= Len(s) PROVE SubSeq(s, m, n) \in Seq(S)
  <2>1. \A i \in m..n : s[i] \in S
    BY <1>1, <1>2
  <2> QED BY <2>1, SubSeqProperties
<1>3. CASE \E x \in S : t \in Changed(s, x)
  <2>1. PICK x \in S, i \in DOMAIN s : t = [s EXCEPT ![i] = x]
    BY <1>3 DEF Changed
  <2> QED BY <1>1, <2>1, ExceptSeq
<1>4. CASE \E x \in S : t \in Inserted(s, x)
  <2>1. PICK x \in S, i \in 0..Len(s) : t = SubSeq(s, 1, i) \o <<x>> \o SubSeq(s, i + 1, Len(s))
    BY <1>4 DEF Inserted
  <2>2. SubSeq(s, 1, i) \in Seq(S) /\ SubSeq(s, i + 1, Len(s)) \in Seq(S) /\ <<x>> \in Seq(S)
    BY <1>1, <1>2
  <2>3. SubSeq(s, 1, i) \o <<x>> \in Seq(S)
    BY <2>2, ConcatProperties
  <2> QED BY <2>1, <2>2, <2>3, ConcatProperties
<1>5. CASE t \in Removed(s)
  <2>1. PICK i \in DOMAIN s : t = SubSeq(s, 1, i - 1) \o SubSeq(s, i + 1, Len(s))
    BY <1>5 DEF Removed
  <2>2. SubSeq(s, 1, i - 1) \in Seq(S) /\ SubSeq(s, i + 1, Len(s)) \in Seq(S)
    BY <1>1, <1>2
  <2> QED BY <2>1, <2>2, ConcatProperties
<1> QED BY <1>3, <1>4, <1>5 DEF OneChange
-----------------------------------------------------------------------------
(***************************************************************************)
(* The items a record may hold, and those of a compilation.                *)
(***************************************************************************)
LEMMA ItemIn ==
  ASSUME NEW sort \in Sorts, NEW param \in Optional(Params), NEW m \in Marks, NEW e \in Optional({"x"})
  PROVE  Item(sort, param, Atom(m), e) \in AnyItem
<1> DEFINE st == [sort |-> sort, param |-> param]
<1>1. st \in Statement /\ st.sort = sort /\ st.param = param
  BY DEF Statement
<1> HIDE DEF st
<1> QED BY <1>1 DEF AnyItem

LEMMA AnItem ==
  ASSUME NEW x \in AnyItem
  PROVE  /\ SortOf(x) \in Sorts /\ Get(x, "param") \in Optional(Params)
         /\ Get(x, "extra") \in Optional({"x"})
         /\ \E m \in Marks : x = Item(SortOf(x), Get(x, "param"), Atom(m), Get(x, "extra"))
<1>1. PICK st \in Statement, m \in Marks, e \in Optional({"x"}) : x = Item(st.sort, st.param, Atom(m), e)
  BY DEF AnyItem
<1>2. st.sort \in Sorts /\ st.param \in Optional(Params) /\ st.sort \in SortNames
  BY BoundsAssumption DEF Statement, SortNames
<1>3. SortOf(x) = st.sort /\ Get(x, "param") = st.param /\ Get(x, "extra") = e
  BY <1>1, <1>2, SortIs, HeldParts
<1> QED BY <1>1, <1>2, <1>3

LEMMA CompiledParts ==
  ASSUME NEW p \in Seq(Statement), NEW m \in Marks
  PROVE  /\ Compiled(p, m) = Record(CompiledItems(p, m), Atom(m))
         /\ CompiledItems(p, m) \in Seq(AnyItem)
         /\ Len(CompiledItems(p, m)) = Len(p) /\ DOMAIN CompiledItems(p, m) = DOMAIN p
         /\ \A i \in DOMAIN p : /\ CompiledItems(p, m)[i] = Item(p[i].sort, p[i].param, Atom(m), Missing)
                                /\ p[i] \in Statement /\ p[i].sort \in Sorts
                                /\ p[i].param \in Optional(Params)
<1> DEFINE s == CompiledItems(p, m)
<1>1. /\ DOMAIN s = DOMAIN p /\ s = [i \in DOMAIN p |-> s[i]]
      /\ \A i \in DOMAIN p : s[i] = Item(p[i].sort, p[i].param, Atom(m), Missing)
  BY DEF CompiledItems
<1>2. ASSUME NEW i \in DOMAIN p
      PROVE  p[i] \in Statement /\ p[i].sort \in Sorts /\ p[i].param \in Optional(Params)
  <2>1. p[i] \in Statement
    BY LenProperties, ElementOfSeq
  <2> QED BY <2>1 DEF Statement
<1>3. Missing \in Optional({"x"})
  BY DEF Optional
<1>4. \A i \in DOMAIN p : s[i] \in AnyItem
  BY <1>1, <1>2, <1>3, ItemIn
<1>5. Compiled(p, m) = Record(s, Atom(m))
  BY DEF Compiled, CompiledItems
<1> HIDE DEF s
<1>6. s \in Seq(AnyItem) /\ Len(s) = Len(p)
  BY <1>1, <1>4, SequenceOf
<1> QED BY <1>1, <1>2, <1>5, <1>6 DEF s

\* The program a record expresses, and that of a compilation: the one compiled.
LEMMA ProgramOf ==
  ASSUME NEW s \in Seq(AnyItem), NEW icon
  PROVE  /\ Program(Record(s, icon)) \in Seq(Statement)
         /\ Len(Program(Record(s, icon))) = Len(s)
         /\ DOMAIN Program(Record(s, icon)) = DOMAIN s
         /\ \A i \in DOMAIN s :
              /\ s[i] \in AnyItem
              /\ Program(Record(s, icon))[i] = [sort |-> SortOf(s[i]), param |-> Get(s[i], "param")]
              /\ Program(Record(s, icon))[i].sort = SortOf(s[i])
              /\ Program(Record(s, icon))[i].param = Get(s[i], "param")
<1> DEFINE p == Program(Record(s, icon))
<1>1. p = [i \in DOMAIN s |-> [sort |-> SortOf(s[i]), param |-> Get(s[i], "param")]]
  BY RecordHolds DEF Program
<1>2. \A i \in DOMAIN s : s[i] \in AnyItem
  BY LenProperties, ElementOfSeq
<1>3. \A i \in DOMAIN s : [sort |-> SortOf(s[i]), param |-> Get(s[i], "param")] \in Statement
  BY <1>2, AnItem DEF Statement
<1> HIDE DEF p
<1>4. /\ DOMAIN p = DOMAIN s
      /\ \A i \in DOMAIN s : p[i] = [sort |-> SortOf(s[i]), param |-> Get(s[i], "param")]
      /\ \A i \in DOMAIN s : p[i] \in Statement
      /\ p = [i \in DOMAIN s |-> p[i]]
  BY <1>1, <1>3
<1>5. p \in Seq(Statement) /\ Len(p) = Len(s)
  BY <1>4, SequenceOf
<1>6. \A i \in DOMAIN s : p[i].sort = SortOf(s[i]) /\ p[i].param = Get(s[i], "param")
  BY <1>4
<1> QED BY <1>2, <1>4, <1>5, <1>6 DEF p

LEMMA ProgramCompiled ==
  ASSUME NEW p \in Seq(Statement), NEW m \in Marks, NEW icon
  PROVE  Program(Record(CompiledItems(p, m), icon)) = p
<1> DEFINE s == CompiledItems(p, m)
           q == Program(Record(s, icon))
<1>1. /\ s \in Seq(AnyItem) /\ Len(s) = Len(p) /\ DOMAIN s = DOMAIN p
      /\ \A i \in DOMAIN p : /\ s[i] = Item(p[i].sort, p[i].param, Atom(m), Missing)
                             /\ p[i] \in Statement /\ p[i].sort \in Sorts
  BY CompiledParts
<1>2. /\ q \in Seq(Statement) /\ Len(q) = Len(s)
      /\ \A i \in DOMAIN s : q[i] = [sort |-> SortOf(s[i]), param |-> Get(s[i], "param")]
  BY <1>1, ProgramOf
<1>3. ASSUME NEW i \in 1..Len(q) PROVE q[i] = p[i]
  <2>1. i \in DOMAIN p
    BY <1>1, <1>2, LenProperties
  <2>2. p[i].sort \in SortNames
    BY <1>1, <2>1, BoundsAssumption DEF SortNames
  <2>3. SortOf(s[i]) = p[i].sort /\ Get(s[i], "param") = p[i].param
    BY <1>1, <2>1, <2>2, SortIs, HeldParts
  <2>4. p[i] = [sort |-> p[i].sort, param |-> p[i].param]
    BY <1>1, <2>1 DEF Statement
  <2> QED BY <1>1, <1>2, <2>1, <2>3, <2>4
<1> HIDE DEF q
<1>4. q = p
  BY <1>1, <1>2, <1>3, SeqEqual
<1> QED BY <1>4 DEF q
-----------------------------------------------------------------------------
(***************************************************************************)
(* A push.                                                                 *)
(***************************************************************************)
\* The lists of items are mergeable if the programs correspond.
LEMMA MergeableIs ==
  ASSUME NEW q \in Seq(Statement), NEW m \in Marks, NEW p \in Seq(Statement), NEW n \in Marks,
         NEW s \in Seq(AnyItem), NEW icon
  PROVE  MergeableObjectLists(CompiledItems(q, m), CompiledItems(p, n), s)
           <=> Corresponding(q, p, Program(Record(s, icon)))
<1> DEFINE b == CompiledItems(q, m)
           l == CompiledItems(p, n)
           r == Program(Record(s, icon))
<1>1. /\ Len(b) = Len(q) /\ DOMAIN b = DOMAIN q
      /\ \A i \in DOMAIN q : b[i] = Item(q[i].sort, q[i].param, Atom(m), Missing) /\ q[i].sort \in Sorts
  BY CompiledParts
<1>2. /\ Len(l) = Len(p) /\ DOMAIN l = DOMAIN p
      /\ \A i \in DOMAIN p : l[i] = Item(p[i].sort, p[i].param, Atom(n), Missing) /\ p[i].sort \in Sorts
  BY CompiledParts
<1>3. /\ Len(r) = Len(s) /\ DOMAIN r = DOMAIN s
      /\ \A i \in DOMAIN s : r[i].sort = SortOf(s[i]) /\ s[i] \in AnyItem
  BY ProgramOf
<1>4. DOMAIN q = 1..Len(q) /\ DOMAIN p = 1..Len(p) /\ DOMAIN s = 1..Len(s)
  BY LenProperties
<1>5. \A x \in Sorts : x \in SortNames
  BY BoundsAssumption DEF SortNames
<1>6. \A x, y : <<x, Atom(x)>> = <<y, Atom(y)>> => x = y
  OBVIOUS
<1>7. \A x : <<x, Atom(x)>> # NoIdentity
  BY DEF NoIdentity
<1> HIDE DEF b, l, r
<1>8. SUFFICES ASSUME Len(q) = Len(p), Len(p) = Len(s), NEW i \in DOMAIN q
               PROVE  (/\ ItemIdentity(b[i]) # NoIdentity
                       /\ ItemIdentity(l[i]) = ItemIdentity(b[i])
                       /\ ItemIdentity(s[i]) = ItemIdentity(b[i]))
                      <=> (q[i].sort = p[i].sort /\ p[i].sort = r[i].sort /\ q[i].sort # "plain")
  <2>1. Len(q) = Len(p) /\ Len(p) = Len(s) => Zipped(b, l, s) = DOMAIN q
    BY <1>1, <1>2, <1>4 DEF Zipped
  <2> QED BY <1>1, <1>2, <1>3, <1>8, <2>1
             DEF MergeableObjectLists, SameItems, Corresponding, b, l, r
<1>9. i \in DOMAIN p /\ i \in DOMAIN s
  BY <1>4, <1>8
<1>10. ItemIdentity(b[i]) = IF q[i].sort = "plain" THEN NoIdentity ELSE <<q[i].sort, Atom(q[i].sort)>>
  BY <1>1, <1>5, IdentityIs
<1>11. ItemIdentity(l[i]) = IF p[i].sort = "plain" THEN NoIdentity ELSE <<p[i].sort, Atom(p[i].sort)>>
  BY <1>2, <1>5, <1>9, IdentityIs
<1>12. ItemIdentity(s[i]) = IF r[i].sort = "plain" THEN NoIdentity ELSE <<r[i].sort, Atom(r[i].sort)>>
  <2>1. r[i].sort = SortOf(s[i]) /\ SortOf(s[i]) \in SortNames
        /\ \E u, e : s[i] = Item(SortOf(s[i]), Get(s[i], "param"), u, e)
    BY <1>3, <1>5, <1>9, AnItem
  <2> QED BY <2>1, IdentityIs
<1> QED BY <1>6, <1>7, <1>10, <1>11, <1>12

\* Items of one sort: the parameter is merged, what only Shortcuts knows is kept, and
\* an item compiled as before stays as it is.
LEMMA Kept ==
  ASSUME NEW b \in Statement, NEW m \in Marks, NEW l \in Statement, NEW n \in Marks, NEW x \in AnyItem,
         NEW y, y = MergeItems(Item(b.sort, b.param, Atom(m), Missing),
                               Item(l.sort, l.param, Atom(n), Missing), x),
         b.sort = l.sort, l.sort = SortOf(x)
  PROVE  /\ y \in AnyItem /\ SortOf(y) = l.sort
         /\ Get(y, "param") = MergeValues(b.param, l.param, Get(x, "param"))
         /\ Get(y, "uuid") = Get(x, "uuid") /\ Get(y, "extra") = Get(x, "extra")
         /\ b = l => y = x
<1>1. /\ l.sort \in Sorts /\ l.sort \in SortNames
      /\ b.param \in Optional(Params) /\ l.param \in Optional(Params)
  BY BoundsAssumption DEF Statement, SortNames
<1>2. Get(x, "param") \in Optional(Params) /\ Get(x, "extra") \in Optional({"x"})
  BY AnItem
<1>3. PICK k \in Marks : x = Item(l.sort, Get(x, "param"), Atom(k), Get(x, "extra"))
  BY AnItem
<1> DEFINE v == MergeValues(b.param, l.param, Get(x, "param"))
           e == Get(x, "extra")
<1>4. v \in Optional(Params) /\ (b = l => v = Get(x, "param"))
  BY <1>1, <1>2 DEF MergeValues
<1>5. y = Item(l.sort, v, Atom(k), e)
  BY <1>1, <1>3, ItemMerged
<1> HIDE DEF v
<1>6. y \in AnyItem
  BY <1>1, <1>2, <1>4, <1>5, ItemIn
<1>7. SortOf(y) = l.sort /\ Get(y, "param") = v
  BY <1>1, <1>5, SortIs, HeldParts
<1>8. Get(y, "uuid") = Get(x, "uuid") /\ Get(y, "extra") = Get(x, "extra")
  BY <1>1, <1>3, <1>5, HeldParts
<1>9. b = l => y = x
  BY <1>3, <1>4, <1>5
<1> QED BY <1>6, <1>7, <1>8, <1>9 DEF v

\* The items t a push makes of the items s of a record that expresses r, the base
\* expressing q and the editor holding p: those there are, if the compilation is the
\* base; the compiled ones, if the items do not correspond; else the merged ones.
PushedItems(q, p, n, s, r, t) ==
  \/ t = s /\ p = q
  \/ t = CompiledItems(p, n) /\ ~Corresponding(q, p, r)
  \/ /\ Corresponding(q, p, r)
     /\ DOMAIN t = DOMAIN s /\ Len(t) = Len(s)
     /\ \A i \in DOMAIN s :
          /\ SortOf(t[i]) = p[i].sort
          /\ Get(t[i], "param") = MergeValues(q[i].param, p[i].param, Get(s[i], "param"))
          /\ Get(t[i], "uuid") = Get(s[i], "uuid")
          /\ Get(t[i], "extra") = Get(s[i], "extra")
          /\ q[i] = p[i] => t[i] = s[i]

\* The record a push makes of its own, the compilation of q being the base and the
\* editor holding p.
LEMMA Pushed ==
  ASSUME NEW q \in Seq(Statement), NEW m \in Marks, NEW p \in Seq(Statement), NEW n \in Marks,
         NEW s \in Seq(AnyItem), NEW icon
  PROVE  \E t \in Seq(AnyItem) :
           /\ MergePlists(Compiled(q, m), Compiled(p, n), Record(s, icon)) = Record(t, icon)
           /\ PushedItems(q, p, n, s, Program(Record(s, icon)), t)
<1> DEFINE b == CompiledItems(q, m)
           l == CompiledItems(p, n)
           r == Program(Record(s, icon))
           joined == [i \in Zipped(b, l, s) |-> MergeItems(b[i], l[i], s[i])]
           t == IF l = b THEN s ELSE IF MergeableObjectLists(b, l, s) THEN joined ELSE l
<1>1. Compiled(q, m) = Record(b, Atom(m)) /\ Compiled(p, n) = Record(l, Atom(n)) /\ l \in Seq(AnyItem)
  BY CompiledParts
<1>2. MergeLists(List(b), List(l), List(s)) = List(t)
  <2> HIDE DEF b, l
  <2> QED BY ListMerged
<1>3. MergePlists(Compiled(q, m), Compiled(p, n), Record(s, icon)) = Record(t, icon)
  <2> HIDE DEF b, l, t
  <2> QED BY <1>1, <1>2, RecordMerged
<1>4. CASE l = b
  <2>1. p = q
    <3>1. Program(Record(l, icon)) = p /\ Program(Record(b, icon)) = q
      BY ProgramCompiled
    <3> QED BY <1>4, <3>1
  <2>2. t = s
    BY <1>4
  <2> QED BY <1>3, <2>1, <2>2 DEF PushedItems
<1>5. CASE l # b /\ ~MergeableObjectLists(b, l, s)
  <2>1. t = l
    BY <1>5
  <2>2. ~Corresponding(q, p, r)
    BY <1>5, MergeableIs
  <2> QED BY <1>1, <1>3, <2>1, <2>2 DEF PushedItems
<1>6. CASE l # b /\ MergeableObjectLists(b, l, s)
  <2>1. t = joined
    BY <1>6
  <2>2. Corresponding(q, p, r)
    BY <1>6, MergeableIs
  <2>3. /\ DOMAIN b = DOMAIN q /\ DOMAIN l = DOMAIN p
        /\ \A i \in DOMAIN q : b[i] = Item(q[i].sort, q[i].param, Atom(m), Missing) /\ q[i] \in Statement
        /\ \A i \in DOMAIN p : l[i] = Item(p[i].sort, p[i].param, Atom(n), Missing) /\ p[i] \in Statement
    BY CompiledParts
  <2>4. /\ Len(r) = Len(s) /\ DOMAIN r = DOMAIN s
        /\ \A i \in DOMAIN s : r[i].sort = SortOf(s[i]) /\ s[i] \in AnyItem
    BY ProgramOf
  <2> HIDE DEF b, l, r
  <2>5. DOMAIN q = DOMAIN s /\ DOMAIN p = DOMAIN s
        /\ \A i \in DOMAIN s : q[i].sort = p[i].sort /\ p[i].sort = SortOf(s[i])
    BY <2>2, <2>4, LenProperties DEF Corresponding
  <2>6. /\ DOMAIN joined = DOMAIN s /\ joined = [i \in DOMAIN s |-> joined[i]]
        /\ \A i \in DOMAIN s : joined[i] = MergeItems(b[i], l[i], s[i])
    BY <2>3, <2>5 DEF Zipped
  <2> HIDE DEF joined
  <2>7. ASSUME NEW i \in DOMAIN s
        PROVE  /\ joined[i] \in AnyItem
               /\ SortOf(joined[i]) = p[i].sort
               /\ Get(joined[i], "param") = MergeValues(q[i].param, p[i].param, Get(s[i], "param"))
               /\ Get(joined[i], "uuid") = Get(s[i], "uuid")
               /\ Get(joined[i], "extra") = Get(s[i], "extra")
               /\ q[i] = p[i] => joined[i] = s[i]
    <3>1. joined[i] = MergeItems(Item(q[i].sort, q[i].param, Atom(m), Missing),
                                 Item(p[i].sort, p[i].param, Atom(n), Missing), s[i])
      BY <2>3, <2>5, <2>6
    <3>2. /\ q[i] \in Statement /\ p[i] \in Statement /\ s[i] \in AnyItem
          /\ q[i].sort = p[i].sort /\ p[i].sort = SortOf(s[i])
      BY <2>3, <2>4, <2>5
    <3> DEFINE x == s[i]
               qi == q[i]
               pi == p[i]
               y == joined[i]
    <3>3. /\ qi \in Statement /\ pi \in Statement /\ x \in AnyItem
          /\ qi.sort = pi.sort /\ pi.sort = SortOf(x)
          /\ y = MergeItems(Item(qi.sort, qi.param, Atom(m), Missing),
                            Item(pi.sort, pi.param, Atom(n), Missing), x)
      BY <3>1, <3>2
    <3> HIDE DEF x, qi, pi, y
    <3>4. /\ y \in AnyItem /\ SortOf(y) = pi.sort
          /\ Get(y, "param") = MergeValues(qi.param, pi.param, Get(x, "param"))
          /\ Get(y, "uuid") = Get(x, "uuid") /\ Get(y, "extra") = Get(x, "extra")
          /\ qi = pi => y = x
      BY <3>3, Kept
    <3> QED BY <3>4 DEF x, qi, pi, y
  <2>8. joined \in Seq(AnyItem) /\ Len(joined) = Len(s)
    BY <2>6, <2>7, SequenceOf
  <2>9. Record(t, icon) = Record(joined, icon)
    BY <2>1
  <2> HIDE DEF t
  <2>10. MergePlists(Compiled(q, m), Compiled(p, n), Record(s, icon)) = Record(joined, icon)
    BY <1>3, <2>9
  <2> QED BY <2>2, <2>6, <2>7, <2>8, <2>10 DEF r, PushedItems
<1> QED BY <1>4, <1>5, <1>6
-----------------------------------------------------------------------------
(***************************************************************************)
(* The reachable states, and what a push does in them.                     *)
(***************************************************************************)
LEMMA TypedInit == Init => Typed
<1> SUFFICES ASSUME Init PROVE Typed
  OBVIOUS
<1>1. program \in Seq(Statement)
  <2>1. PICK st \in Statement : program \in {<<st>>, <<st, st>>}
    BY DEF Init
  <2>2. <<st>> \in Seq(Statement) /\ <<st, st>> \in Seq(Statement)
    OBVIOUS
  <2> QED BY <2>1, <2>2
<1>2. PICK m \in Marks : base = Compiled(program, m) /\ host = base
  BY DEF Init
<1>3. host = Record(CompiledItems(program, m), Atom(m)) /\ CompiledItems(program, m) \in Seq(AnyItem)
  BY <1>1, <1>2, CompiledParts
<1>4. Atom(m) \in Optional(Marks)
  BY DEF Optional
<1> QED BY <1>1, <1>2, <1>3, <1>4 DEF Typed

LEMMA TypedNext == Typed /\ [Next]_vars => Typed'
<1> SUFFICES ASSUME Typed, [Next]_vars PROVE Typed'
  OBVIOUS
<1>1. PICK q \in Seq(Statement), m \in Marks : base = Compiled(q, m)
  BY DEF Typed
<1>2. PICK s \in Seq(AnyItem), icon \in Optional(Marks) : host = Record(s, icon)
  BY DEF Typed
<1>3. program \in Seq(Statement) /\ Items(host) = s /\ Get(host, "icon") = icon
  BY <1>2, RecordHolds DEF Typed
<1>4. CASE EditorEdit
  <2>1. program' \in Seq(Statement)
    BY <1>3, <1>4, ChangedIn DEF EditorEdit
  <2> QED BY <1>1, <1>2, <1>4, <2>1 DEF EditorEdit, Typed
<1>5. CASE HostEdit
  <2>1. \E t \in Seq(AnyItem), i \in Optional(Marks) : host' = Record(t, i)
    BY <1>2, <1>3, <1>5, ChangedIn DEF HostEdit
  <2> QED BY <1>1, <1>3, <1>5, <2>1 DEF HostEdit, Typed
<1>6. CASE Push
  <2>1. PICK n \in Marks : base' = Compiled(program, n) /\ host' = MergePlists(base, base', host)
    BY <1>6 DEF Push
  <2>2. \E t \in Seq(AnyItem) : host' = Record(t, icon)
    BY <1>1, <1>2, <1>3, <2>1, Pushed
  <2> QED BY <1>3, <1>6, <2>1, <2>2 DEF Push, Typed
<1>7. CASE Pull
  <2>1. program' \in Seq(Statement)
    BY <1>2, <1>7, ProgramOf DEF Pull
  <2> QED BY <1>2, <1>7, <2>1 DEF Pull, Typed
<1>8. CASE UNCHANGED vars
  BY <1>8 DEF vars, Typed
<1> QED BY <1>4, <1>5, <1>6, <1>7, <1>8 DEF Next

\* Whatever the editor and Shortcuts did, the record is a list of items Shortcuts may
\* save, and the base is the compilation of some program.
THEOREM RecordsStayTyped == Spec => []Typed
BY TypedInit, TypedNext, PTL DEF Spec

\* A push, with its base, what the editor holds and the record named.
LEMMA PushCases ==
  ASSUME Typed, Push
  PROVE  \E q \in Seq(Statement), n \in Marks, s \in Seq(AnyItem), t \in Seq(AnyItem), icon \in Optional(Marks) :
           /\ program \in Seq(Statement)
           /\ Program(base) = q /\ host = Record(s, icon) /\ host' = Record(t, icon)
           /\ PushedItems(q, program, n, s, Program(host), t)
<1>1. PICK q \in Seq(Statement), m \in Marks : base = Compiled(q, m)
  BY DEF Typed
<1>2. PICK s \in Seq(AnyItem), icon \in Optional(Marks) : host = Record(s, icon)
  BY DEF Typed
<1> DEFINE p == program
<1>3. p \in Seq(Statement)
  BY DEF Typed
<1>4. PICK n \in Marks : base' = Compiled(p, n) /\ host' = MergePlists(base, base', host)
  BY DEF Push
<1>5. Program(base) = q
  BY <1>1, CompiledParts, ProgramCompiled
<1>6. host' = MergePlists(Compiled(q, m), Compiled(p, n), Record(s, icon))
  BY <1>1, <1>2, <1>4
<1> HIDE DEF p
<1>7. PICK t \in Seq(AnyItem) :
        /\ MergePlists(Compiled(q, m), Compiled(p, n), Record(s, icon)) = Record(t, icon)
        /\ PushedItems(q, p, n, s, Program(Record(s, icon)), t)
  BY <1>3, Pushed
<1>8. host' = Record(t, icon) /\ PushedItems(q, p, n, s, Program(host), t)
  BY <1>2, <1>6, <1>7
<1> QED BY <1>2, <1>3, <1>5, <1>8 DEF p

\* PushShowsEditor: pushing an edit to a record whose program Shortcuts did not change
\* makes the record's program the editor's, for workflows of any length and any
\* parameters (extension.js 1558-1584, apply_local_delta).
THEOREM PushesShowEditor == Spec => PushShowsEditor
<1>1. ASSUME Typed, Push, Program(host) = Program(base) PROVE Program(host') = program
  <2>1. PICK q \in Seq(Statement), s \in Seq(AnyItem), t \in Seq(AnyItem), icon \in Optional(Marks) :
          /\ program \in Seq(Statement)
          /\ Program(base) = q /\ host = Record(s, icon) /\ host' = Record(t, icon)
          /\ \/ t = s /\ program = q
             \/ \E n \in Marks : t = CompiledItems(program, n)
             \/ /\ Corresponding(q, program, Program(host))
                /\ DOMAIN t = DOMAIN s /\ Len(t) = Len(s)
                /\ \A i \in DOMAIN s :
                     /\ SortOf(t[i]) = program[i].sort
                     /\ Get(t[i], "param") = MergeValues(q[i].param, program[i].param, Get(s[i], "param"))
    BY <1>1, PushCases DEF PushedItems
  <2>2. CASE t = s /\ program = q
    BY <1>1, <2>1, <2>2
  <2>3. CASE \E n \in Marks : t = CompiledItems(program, n)
    BY <2>1, <2>3, ProgramCompiled
  <2>4. CASE /\ Corresponding(q, program, Program(host))
             /\ DOMAIN t = DOMAIN s /\ Len(t) = Len(s)
             /\ \A i \in DOMAIN s :
                  /\ SortOf(t[i]) = program[i].sort
                  /\ Get(t[i], "param") = MergeValues(q[i].param, program[i].param, Get(s[i], "param"))
    <3> DEFINE p == program
               r == Program(host')
    <3>1. /\ r \in Seq(Statement) /\ Len(r) = Len(t)
          /\ \A i \in DOMAIN t : r[i] = [sort |-> SortOf(t[i]), param |-> Get(t[i], "param")]
      BY <2>1, ProgramOf
    <3>2. /\ Len(q) = Len(s) /\ DOMAIN q = DOMAIN s
          /\ \A i \in DOMAIN s : q[i].param = Get(s[i], "param")
      <4>1. q = Program(Record(s, icon))
        BY <1>1, <2>1
      <4> QED BY <4>1, ProgramOf
    <3>3. Len(p) = Len(q)
      BY <2>4 DEF Corresponding
    <3> HIDE DEF r
    <3>4. ASSUME NEW i \in 1..Len(r) PROVE r[i] = p[i]
      <4>1. i \in DOMAIN s /\ i \in DOMAIN t /\ i \in 1..Len(p)
        BY <2>1, <2>4, <3>1, <3>2, <3>3, LenProperties
      <4>2. p[i] \in Statement
        BY <2>1, <4>1, ElementOfSeq
      <4>3. Get(t[i], "param") = p[i].param
        BY <2>4, <3>2, <4>1 DEF MergeValues
      <4>4. p[i] = [sort |-> p[i].sort, param |-> p[i].param]
        BY <4>2 DEF Statement
      <4> QED BY <2>4, <3>1, <4>1, <4>3, <4>4
    <3>5. r = p
      BY <2>1, <2>4, <3>1, <3>2, <3>3, <3>4, SeqEqual
    <3> QED BY <3>5 DEF r
  <2> QED BY <2>1, <2>2, <2>3, <2>4
<1>2. Typed => [(Push /\ Program(host) = Program(base)) => Program(host') = program]_vars
  BY <1>1
<1> QED BY <1>2, RecordsStayTyped, PTL DEF PushShowsEditor

\* HostOnlyKept: as long as the items correspond, a push keeps the identifiers and
\* values only Shortcuts knows, of every item (docs/PROOFS.md 173-175).
THEOREM PushesKeepHostOnly == Spec => HostOnlyKept
<1>1. ASSUME Typed, Push, Correspond, NEW i \in DOMAIN Items(host), NEW k \in {"uuid", "extra"}
      PROVE  Get(Items(host')[i], k) = Get(Items(host)[i], k)
  <2>1. PICK q \in Seq(Statement), s \in Seq(AnyItem), t \in Seq(AnyItem), icon \in Optional(Marks) :
          /\ Program(base) = q /\ host = Record(s, icon) /\ host' = Record(t, icon)
          /\ \/ t = s
             \/ ~Corresponding(q, program, Program(host))
             \/ \A j \in DOMAIN s : Get(t[j], "uuid") = Get(s[j], "uuid") /\ Get(t[j], "extra") = Get(s[j], "extra")
    BY <1>1, PushCases DEF PushedItems
  <2>2. Items(host) = s /\ Items(host') = t
    BY <2>1, RecordHolds
  <2> QED BY <1>1, <2>1, <2>2 DEF Correspond
<1>2. Typed => [(Push /\ Correspond) =>
                  \A i \in DOMAIN Items(host), k \in {"uuid", "extra"} :
                    Get(Items(host')[i], k) = Get(Items(host)[i], k)]_vars
  BY <1>1
<1> QED BY <1>2, RecordsStayTyped, PTL DEF HostOnlyKept

\* RecompilationKeepsHost: pushing the program of the last sync again, compiled anew,
\* leaves the whole record alone, whatever Shortcuts made of its items and its icon
\* (docs/PROOFS.md 173-176).
THEOREM RecompilationsKeepHost == Spec => RecompilationKeepsHost
<1>1. ASSUME Typed, Push, Correspond, program = Program(base) PROVE host' = host
  <2>1. PICK q \in Seq(Statement), s \in Seq(AnyItem), t \in Seq(AnyItem), icon \in Optional(Marks) :
          /\ Program(base) = q /\ host = Record(s, icon) /\ host' = Record(t, icon)
          /\ \/ t = s
             \/ ~Corresponding(q, program, Program(host))
             \/ /\ DOMAIN t = DOMAIN s /\ Len(t) = Len(s)
                /\ \A i \in DOMAIN s : q[i] = program[i] => t[i] = s[i]
    BY <1>1, PushCases DEF PushedItems
  <2>2. t = s
    <3>1. CASE Len(t) = Len(s) /\ \A i \in DOMAIN s : t[i] = s[i]
      BY <2>1, <3>1, LenProperties, SeqEqual
    <3> QED BY <1>1, <2>1, <3>1 DEF Correspond
  <2> QED BY <2>1, <2>2
<1>2. Typed => [(Push /\ Correspond /\ program = Program(base)) => host' = host]_vars
  BY <1>1
<1> QED BY <1>2, RecordsStayTyped, PTL DEF RecompilationKeepsHost
=============================================================================
