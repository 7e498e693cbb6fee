------------------------------ MODULE PlistMerge ------------------------------
(***************************************************************************)
(* The three-way merge of workflow property lists                          *)
(* (vscode-extension/scripts/merge-workflow-plists.py) and its use by a    *)
(* push (extension.js pushLocal): what the editor changed since the last   *)
(* sync is applied to the record Shortcuts holds.                          *)
(*                                                                         *)
(* Module HostSync takes the merge for two parts that do not interact.     *)
(* Here it is the recursion of the script over nested dictionaries and     *)
(* lists, level by level, applied to records with what makes it delicate:  *)
(* items matched by position and identity, identifiers each compilation    *)
(* draws anew, values Shortpy does not express, keys that come and go on   *)
(* either side.                                                            *)
(***************************************************************************)
EXTENDS Naturals, Sequences, FiniteSets

CONSTANTS
  Sorts,      \* what an item can be: "action", "trigger", "plain"
  Params,     \* values of an item's parameter
  Marks,      \* identifiers and icons a compilation draws or the user picks
  MaxItems,   \* bound on the items of a workflow
  MaxEdits    \* bound on the changes made on the two sides

ASSUME BoundsAssumption ==
  /\ Sorts \subseteq {"action", "trigger", "plain"}
  /\ Marks # {} /\ {MaxItems, MaxEdits} \subseteq Nat

(***************************************************************************)
(* Property lists: tagged, so that values of different kinds differ.       *)
(***************************************************************************)
Missing == [missing |-> TRUE]
Atom(v) == [atom |-> v]
List(s) == [list |-> s]

\* A dictionary of the keys of f whose value is not Missing.
Dict(f) ==
  [dict |-> [k \in {k \in DOMAIN f : f[k] # Missing} |-> f[k]]]

IsDict(v) == DOMAIN v = {"dict"}
IsList(v) == DOMAIN v = {"list"}
Keys(v) == DOMAIN v.dict
Get(v, k) == IF k \in Keys(v) THEN v.dict[k] ELSE Missing

\* pushLocal preserves WFTriggerUUID anywhere and WFWorkflowIcon at the root.
PreserveKeys == {"uuid"}
PreserveRootKeys == {"icon"}

NoIdentity == <<>>

\* Mutant: only actions have an identity.
ActionIdentity(item) ==
  IF IsDict(item) /\ "action" \in Keys(item)
  THEN <<"action", item.dict["action"]>> ELSE NoIdentity

ItemIdentity(item) ==
  IF ~IsDict(item) THEN NoIdentity
  ELSE IF "action" \in Keys(item) THEN <<"action", item.dict["action"]>>
  ELSE IF "trigger" \in Keys(item) THEN <<"trigger", item.dict["trigger"]>>
  ELSE NoIdentity

\* What zip stops at.
Zipped(b, l, h) == {i \in DOMAIN b : i \in DOMAIN l /\ i \in DOMAIN h}

SameItems(b, l, h) ==
  \A i \in Zipped(b, l, h) :
    /\ ItemIdentity(b[i]) # NoIdentity
    /\ ItemIdentity(l[i]) = ItemIdentity(b[i])
    /\ ItemIdentity(h[i]) = ItemIdentity(b[i])

\* Mutant: the lengths are not compared.
MergeablePrefixes(b, l, h) == SameItems(b, l, h)

MergeableObjectLists(b, l, h) ==
  Len(b) = Len(l) /\ Len(l) = Len(h) /\ SameItems(b, l, h)

AllDicts(b, l, h) == IsDict(b) /\ IsDict(l) /\ IsDict(h)

AllMergeableLists(b, l, h) ==
  IsList(b) /\ IsList(l) /\ IsList(h) /\ MergeableObjectLists(b.list, l.list, h.list)

\* apply_local_delta.  merged is what its recursive calls make of three dictionaries
\* or three mergeable lists: a level of a record has the ones or the others.
ApplyLocalDelta(b, l, h, merged) ==
  IF l = b THEN h
  ELSE IF l = Missing \/ b = Missing \/ h = Missing THEN l
  ELSE IF AllDicts(b, l, h) \/ AllMergeableLists(b, l, h) THEN merged
  ELSE l

AllKeys(b, l, h) == Keys(b) \cup Keys(l) \cup Keys(h)

\* The levels of a record: the values of an item, the items, the list they are in,
\* the record.
MergeValues(b, l, h) == IF l = b THEN h ELSE l

MergeItems(b, l, h) ==
  ApplyLocalDelta(b, l, h,
    Dict([k \in AllKeys(b, l, h) |->
           IF k \in PreserveKeys THEN Get(h, k)
           ELSE MergeValues(Get(b, k), Get(l, k), Get(h, k))]))

MergeLists(b, l, h) ==
  ApplyLocalDelta(b, l, h,
    List([i \in Zipped(b.list, l.list, h.list) |->
           MergeItems(b.list[i], l.list[i], h.list[i])]))

MergeRecords(b, l, h) ==
  ApplyLocalDelta(b, l, h,
    Dict([k \in AllKeys(b, l, h) |->
           IF k \in PreserveKeys THEN Get(h, k)
           ELSE MergeLists(Get(b, k), Get(l, k), Get(h, k))]))

\* Mutant: a root key the host dropped is not dropped from the result.
MergePresentKeys(b, l, h) ==
  LET merged == MergeRecords(b, l, h) IN
  Dict([k \in Keys(merged) \cup Keys(h) |->
         IF k \in PreserveRootKeys /\ k \in Keys(h) THEN Get(h, k) ELSE Get(merged, k)])

\* main: the merge, then the root keys as the host has or lacks them.
MergePlists(b, l, h) ==
  LET merged == MergeRecords(b, l, h) IN
  Dict([k \in Keys(merged) \cup Keys(h) |->
         IF k \in PreserveRootKeys THEN Get(h, k) ELSE Get(merged, k)])
-----------------------------------------------------------------------------
(***************************************************************************)
(* Workflow records.  An item has a sort, which names its identity key; a  *)
(* parameter, which Shortpy expresses; a uuid, if it is a trigger; and a   *)
(* value only Shortcuts knows.  A program is what Shortpy expresses.       *)
(***************************************************************************)
Item(sort, param, uuid, extra) ==
  Dict([k \in {sort, "param", "uuid", "extra"} |->
         CASE k = sort -> Atom(sort) [] k = "param" -> param
           [] k = "uuid" -> IF sort = "trigger" THEN uuid ELSE Missing
           [] k = "extra" -> extra])

Record(items, icon) ==
  Dict([k \in {"items", "icon"} |-> IF k = "items" THEN List(items) ELSE icon])

Optional(S) == {Atom(v) : v \in S} \cup {Missing}
Statement == [sort : Sorts, param : Optional(Params)]

\* An item as Shortcuts may save it.
AnyItem ==
  {Item(st.sort, st.param, u, e) :
     st \in Statement, u \in {Atom(m) : m \in Marks}, e \in Optional({"x"})}

Items(record) == record.dict["items"].list
SortOf(item) == CHOOSE s \in Sorts : s \in Keys(item)

Program(record) ==
  [i \in DOMAIN Items(record) |->
    [sort |-> SortOf(Items(record)[i]), param |-> Get(Items(record)[i], "param")]]

\* Apple's compiler: two compilations of a program differ in the identifiers
\* and the icon they draw (docs/PROOFS.md 174-176).
Compiled(program, mark) ==
  Record([i \in DOMAIN program |->
           Item(program[i].sort, program[i].param, Atom(mark), Missing)],
         Atom(mark))
-----------------------------------------------------------------------------
VARIABLES
  program,   \* what the editor holds
  base,      \* compiled.plist of the last sync
  host,      \* the record in Shortcuts
  edits

vars == <<program, base, host, edits>>

Init ==
  /\ \E s \in Statement : program \in {<<s>>, <<s, s>>}
  /\ \E m \in Marks : base = Compiled(program, m) /\ host = base
  /\ edits = 0

Edit == edits < MaxEdits /\ edits' = edits + 1

Changed(s, x) == {[s EXCEPT ![i] = x] : i \in DOMAIN s}
Inserted(s, x) ==
  {SubSeq(s, 1, i) \o <<x>> \o SubSeq(s, i + 1, Len(s)) :
     i \in {i \in 0..Len(s) : Len(s) < MaxItems}}
Removed(s) == {SubSeq(s, 1, i - 1) \o SubSeq(s, i + 1, Len(s)) : i \in DOMAIN s}

\* Every way to change, insert or remove one element, each x being allowed.
OneChange(s, X) == (UNION {Changed(s, x) \cup Inserted(s, x) : x \in X}) \cup Removed(s)

EditorEdit ==
  /\ Edit
  /\ program' \in OneChange(program, Statement)
  /\ UNCHANGED <<base, host>>

\* Shortcuts saves the record with an item changed, added or removed, its own
\* values included, or with another icon or none.
HostEdit ==
  /\ Edit
  /\ \/ \E s \in OneChange(Items(host), AnyItem) : host' = Record(s, Get(host, "icon"))
     \/ \E icon \in Optional(Marks) : host' = Record(Items(host), icon)
  /\ UNCHANGED <<program, base>>

\* pushLocal: compile, merge, edit the record, keep the compilation as base.
Push ==
  \E m \in Marks :
    /\ base' = Compiled(program, m)
    /\ host' = MergePlists(base, base', host)
    /\ UNCHANGED <<program, edits>>

\* pullHost: the editor shows the record's program, compiled to be the base.
Pull ==
  /\ program' = Program(host)
  /\ \E m \in Marks : base' = Compiled(program', m)
  /\ UNCHANGED <<host, edits>>

Next == EditorEdit \/ HostEdit \/ Push \/ Pull

Spec == Init /\ [][Next]_vars
-----------------------------------------------------------------------------
\* A push of an edit made since the last sync, to a record whose program
\* Shortcuts did not change, makes the record's program the editor's: item by
\* item where the lists correspond, wholly where they do not.  This is what
\* HostSync's Merge takes for granted.
PushShowsEditor ==
  [][(Push /\ Program(host) = Program(base)) => Program(host') = program]_vars

Corresponding(b, l, h) ==
  /\ Len(b) = Len(l) /\ Len(l) = Len(h)
  /\ \A i \in DOMAIN b : /\ b[i].sort = l[i].sort /\ l[i].sort = h[i].sort
                         /\ b[i].sort # "plain"

\* The items of the three sides are the same ones, each with an identity.
Correspond == Corresponding(Program(base), program, Program(host))

\* As long as the items correspond, no value Shortpy does not express is lost
\* or replaced by the compiler's, whatever parameters either side changed,
\* added or removed (docs/PROOFS.md 173-175).
HostOnlyKept ==
  [][(Push /\ Correspond) =>
       \A i \in DOMAIN Items(host), k \in {"uuid", "extra"} :
         Get(Items(host')[i], k) = Get(Items(host)[i], k)]_vars

\* Recompiling the program of the last sync (a comment changed, say) and
\* pushing it leaves the record alone, whatever Shortcuts made of it since.
RecompilationKeepsHost ==
  [][(Push /\ Correspond /\ program = Program(base)) => host' = host]_vars
=============================================================================
