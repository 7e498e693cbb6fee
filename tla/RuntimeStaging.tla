--------------------------- MODULE RuntimeStaging ---------------------------
(***************************************************************************)
(* Preparing a native runtime (bridge.js 104-142, 497-634: the simulator   *)
(* bridge; hostShortcuts.js 37-171: the headless helper).  The packaged    *)
(* sources are copied into a directory of the extension's storage, with a  *)
(* marker that names what was copied, and built there by make.             *)
(*                                                                         *)
(* All windows, and all operations of one window, share the directory, and *)
(* nothing locks it.  A handler is one call of ensureBridgeLaunched or     *)
(* ensureHeadlessRuntime; whether the bridge it prepares then starts is    *)
(* BridgeSession's part.                                                   *)
(***************************************************************************)
EXTENDS Naturals, Sequences

CONSTANTS
  Handlers,
  None,
  MaxInstalls,  \* bound: packages of this version installed, each with contents of its own
  MaxFaults     \* bound: failures of a step, and reloads of a window

ASSUME BoundsAssumption == MaxInstalls \in Nat \ {0} /\ MaxFaults \in Nat
ASSUME NoneAssumption == None \notin Nat

VARIABLES
  kind,     \* the runtime this directory is for: "bridge" or "host"
  pkg,      \* the package installed: what its signature tells apart
  disk,     \* the directory: each part with the package it is from
  handler,
  faults,
  crossed,  \* a handler found the copy stale while another was still busy
  cut       \* crossed, and one of the copies was given up

vars == <<kind, pkg, disk, handler, faults, crossed, cut>>

\* SOURCE_ENTRIES, in the order they are copied; the documentation is left out.
Entries == IF kind = "bridge" THEN <<"Makefile", "src", "tools">>
                              ELSE <<"Makefile", "src">>
Sources == {Entries[i] : i \in 1..Len(Entries)}

Parts == {"Makefile", "src", "tools", "marker", "binary"}
Packages == 1..MaxInstalls
Empty == [part \in Parts |-> None]

Handler == [pc : {"idle", "sign", "remove", "empty", "copy", "mark", "build", "make", "orphan", "check"},
            sig : Packages \cup {None}, next : 1..3, made : Packages \cup {None}]
Idle == [pc |-> "idle", sig |-> None, next |-> 1, made |-> None]

TypeOK ==
  /\ kind \in {"bridge", "host"} /\ pkg \in Packages
  /\ disk \in [Parts -> Packages \cup {None}]
  /\ handler \in [Handlers -> Handler]
  /\ faults \in 0..MaxFaults /\ crossed \in BOOLEAN /\ cut \in BOOLEAN

Init ==
  /\ kind \in {"bridge", "host"} /\ pkg = 1 /\ disk = Empty
  /\ handler = [h \in Handlers |-> Idle]
  /\ faults = 0 /\ crossed = FALSE /\ cut = FALSE

-----------------------------------------------------------------------------
Goes(h, pc) == handler' = [handler EXCEPT ![h].pc = pc]

\* Handlers that have found the copy stale, and not marked a new one yet.
Staging == {h \in Handlers : handler[h].pc \in {"sign", "remove", "empty", "copy", "mark"}}

\* The call throws, or its window goes: a make that runs stops, or is left to itself.
GivesUp(h) ==
  /\ \/ handler' = [handler EXCEPT ![h] = Idle]
     \/ handler[h].pc = "make" /\ Goes(h, "orphan")
  /\ cut' = (cut \/ (crossed /\ h \in Staging))

\* runtimeCopyIsCurrent: for the bridge, its command line has to be there too.
IsCurrent ==
  /\ disk["marker"] = pkg
  /\ kind = "bridge" => disk["tools"] # None

Ensure(h) ==
  /\ handler[h].pc = "idle"
  /\ IF IsCurrent
     THEN Goes(h, "build") /\ UNCHANGED crossed
     ELSE /\ Goes(h, "sign")
          /\ crossed' = (crossed \/ \E g \in Handlers \ {h} : handler[g].pc # "idle")
  /\ UNCHANGED <<kind, pkg, disk, faults, cut>>

-----------------------------------------------------------------------------
(* copyBridgeRuntime, copySourceRuntime *)

ReadSignature(h) ==
  /\ handler[h].pc = "sign"
  /\ handler' = [handler EXCEPT ![h].pc = "remove", ![h].sig = pkg]
  /\ UNCHANGED <<kind, pkg, disk, faults, crossed, cut>>

Without(parts) == [part \in Parts |-> IF part \in parts THEN None ELSE disk[part]]

\* rm -rf: some parts, in no order the code chooses, ...
RemoveSome(h) ==
  /\ handler[h].pc = "remove"
  /\ \E parts \in SUBSET Parts : disk' = Without(parts)
  /\ Goes(h, "empty")
  /\ UNCHANGED <<kind, pkg, faults, crossed, cut>>

\* Mutant: what was built is spared, so that it need not be built again.
RemoveSources(h) ==
  /\ handler[h].pc = "empty"
  /\ disk' = Without(Parts \ {"binary"})
  /\ Goes(h, "copy")
  /\ UNCHANGED <<kind, pkg, faults, crossed, cut>>

\* ... and then the rest.
RemoveRest(h) ==
  /\ handler[h].pc = "empty"
  /\ disk' = Empty
  /\ Goes(h, "copy")
  /\ UNCHANGED <<kind, pkg, faults, crossed, cut>>

\* Mutant: one entry too many.
CopyOneMore(h) ==
  /\ handler[h].pc = "copy"
  /\ disk' = [disk EXCEPT ![Entries[handler[h].next]] = pkg]
  /\ handler' = [handler EXCEPT ![h].next = @ + 1,
                   ![h].pc = IF handler[h].next > Len(Entries) THEN "mark" ELSE "copy"]
  /\ UNCHANGED <<kind, pkg, faults, crossed, cut>>

\* The next entry, as the package has it now.
Copy(h) ==
  /\ handler[h].pc = "copy"
  /\ disk' = [disk EXCEPT ![Entries[handler[h].next]] = pkg]
  /\ IF handler[h].next = Len(Entries)
     THEN Goes(h, "mark")
     ELSE handler' = [handler EXCEPT ![h].next = @ + 1]
  /\ UNCHANGED <<kind, pkg, faults, crossed, cut>>

\* Mutant: the signature is of the package at the end of the copy.
MarkLate(h) ==
  /\ handler[h].pc = "mark"
  /\ disk' = [disk EXCEPT !["marker"] = pkg]
  /\ Goes(h, "build")
  /\ UNCHANGED <<kind, pkg, faults, crossed, cut>>

\* The marker comes last, with the signature read first.
Mark(h) ==
  /\ handler[h].pc = "mark"
  /\ disk' = [disk EXCEPT !["marker"] = handler[h].sig]
  /\ Goes(h, "build")
  /\ UNCHANGED <<kind, pkg, faults, crossed, cut>>

-----------------------------------------------------------------------------
(* buildBridgeIfNeeded, and the end of ensureHeadlessRuntime *)

\* A bridge that answers already needs no build; asking it takes the command line.
AlreadyRunning(h) ==
  /\ handler[h].pc = "build" /\ kind = "bridge" /\ disk["tools"] # None
  /\ handler' = [handler EXCEPT ![h] = Idle]
  /\ UNCHANGED <<kind, pkg, disk, faults, crossed, cut>>

\* What exists is not built again; make needs its sources.
Build(h) ==
  /\ handler[h].pc = "build"
  /\ \/ disk["binary"] # None /\ Goes(h, "check")
     \/ /\ disk["binary"] = None /\ disk["Makefile"] # None /\ disk["src"] # None
        /\ handler' = [handler EXCEPT ![h].pc = "make", ![h].made = disk["src"]]
  /\ UNCHANGED <<kind, pkg, disk, faults, crossed, cut>>

\* Mutant: make is run again until it succeeds.
MakeRetries(h) ==
  /\ handler[h].pc = "build"
  /\ disk["binary"] = None /\ (disk["Makefile"] = None \/ disk["src"] = None)
  /\ UNCHANGED vars

MakeFails(h) ==
  /\ handler[h].pc = "build"
  /\ disk["binary"] = None /\ (disk["Makefile"] = None \/ disk["src"] = None)
  /\ handler' = [handler EXCEPT ![h] = Idle]
  /\ UNCHANGED <<kind, pkg, disk, faults, crossed, cut>>

MakeEnds(h) ==
  /\ handler[h].pc \in {"make", "orphan"}
  /\ disk' = [disk EXCEPT !["binary"] = handler[h].made]
  /\ handler' = [handler EXCEPT ![h] = IF @.pc = "make" THEN [@ EXCEPT !.pc = "check"]
                                                        ELSE Idle]
  /\ UNCHANGED <<kind, pkg, faults, crossed, cut>>

\* The call returns if the binary is there, and throws if not.
Return(h) ==
  /\ handler[h].pc = "check"
  /\ handler' = [handler EXCEPT ![h] = Idle]
  /\ UNCHANGED <<kind, pkg, disk, faults, crossed, cut>>

-----------------------------------------------------------------------------
\* rm throws when another copy fills the directory that it empties.
RemoveDisturbed(h) ==
  /\ handler[h].pc = "empty"
  /\ \E g \in Handlers \ {h} : handler[g].pc \in {"copy", "mark", "make", "orphan"}
  /\ GivesUp(h)
  /\ UNCHANGED <<kind, pkg, disk, faults, crossed>>

\* A step fails, a time limit ends, or the window is reloaded.
Fault(h) ==
  /\ faults < MaxFaults /\ faults' = faults + 1
  /\ handler[h].pc # "idle"
  /\ GivesUp(h)
  /\ UNCHANGED <<kind, pkg, disk, crossed>>

\* The extension is installed again: contents and times of its files change.
Reinstall ==
  /\ pkg < MaxInstalls
  /\ pkg' = pkg + 1
  /\ UNCHANGED <<kind, disk, handler, faults, crossed, cut>>

Step(h) ==
  \/ ReadSignature(h) \/ RemoveSome(h) \/ RemoveRest(h) \/ RemoveDisturbed(h)
  \/ Copy(h) \/ Mark(h)
  \/ AlreadyRunning(h) \/ Build(h) \/ MakeFails(h) \/ MakeEnds(h) \/ Return(h)

Next ==
  \/ \E h \in Handlers : Ensure(h) \/ Step(h) \/ Fault(h)
  \/ Reinstall

Fairness == \A h \in Handlers : WF_vars(Step(h))

Spec == Init /\ [][Next]_vars /\ Fairness

-----------------------------------------------------------------------------
(* Properties *)

\* A copy that passes for current is complete, so no later call can be stuck with
\* a part of it: after a failure or a reload between any two steps, a package
\* installed during the copy, and copies that cross, if these all come to their end.
CurrentIsComplete ==
  ~cut /\ Staging = {} /\ disk["marker"] = pkg => \A e \in Sources : disk[e] = pkg

\* A binary found in a current copy was built from it: what exists is never built
\* again.  It does not hold when a copy is renewed while another call is in make.
BinaryFits ==
  ~crossed /\ disk["marker"] = pkg => disk["binary"] \in {None, pkg}

\* A call ends, whatever it finds in the directory and whoever else works in it.
EnsureEnds == \A h \in Handlers : handler[h].pc # "idle" ~> handler[h].pc = "idle"
=============================================================================
