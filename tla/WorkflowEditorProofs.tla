------------------------ MODULE WorkflowEditorProofs ------------------------
(***************************************************************************)
(* The bytes kept for a text are of its program, and an unedited document  *)
(* is built from them, for any texts, programs, panels and handlers and    *)
(* any number of edits, outside changes, failures and reloads.             *)
(*                                                                         *)
(* The argument: what an import or a handler carries from await to await   *)
(* belongs together (ImportFits, JobFits), so what it writes or keeps at   *)
(* its end does, whatever the others have done to the document meanwhile.  *)
(* Without edits, and without imports that cross, the document holds the   *)
(* text of the baseline, or that of the one import about to replace it     *)
(* (Unedited).                                                             *)
(***************************************************************************)
EXTENDS WorkflowEditor, TLAPS

\* What an import has read and converted at its pc.
ImportFits(i) ==
  /\ i.pc \notin {"idle", "read"} => i.bytes.prog \in Progs
  /\ i.pc \in {"write", "finish", "show"} =>
       i.source \in Texts /\ Compile[i.source] = i.bytes.prog
  /\ i.pc \in {"finish", "show"} => py # None
  /\ i.pc = "show" => session.baseline # None

\* What a handler holds at its pc.
Holding == {"compile", "target", "write", "remember"}
JobFits(e) ==
  /\ e.pc \in {"begin"} \cup Holding => py # None
  /\ e.pc = "begin" => session.baseline # None
  /\ e.pc \in Holding => e.source \in Texts
  /\ e.pc \in {"idle", "await", "begin", "compile"} => e.target = "own" /\ ~e.exact
  /\ e.pc = "ask" => e.panel \in Panels
  /\ e.pc = "target" => e.does = "save"
  /\ e.pc = "remember" => e.does = "export"
  /\ e.pc \in {"write", "remember"} => e.out.prog = Compile[e.source]
  /\ e.pc = "write" /\ e.target # "own" =>
       e.out.kind = IF Sign \/ e.exact THEN e.target ELSE "plist"

SessionFits ==
  /\ session.imported => session.baseline # None
  /\ session.baseline # None => py # None

\* Nothing was typed and nothing crossed.
Importing == {p \in Panels : imp[p].pc # "idle"}
Finishing == {p \in Panels : imp[p].pc = "finish"}
HoldsText ==
  /\ \A p, q \in Importing : p = q
  /\ \A p \in Finishing : py = imp[p].source
  /\ session.baseline # None /\ Finishing = {} => py = session.baseline.source
ExportsExact ==
  \A j \in Jobs : job[j].does = "export" =>
    /\ job[j].pc \notin {"compile", "remember"}
    /\ job[j].pc = "write" => job[j].exact
Unedited == edits = 0 /\ ~crossed => HoldsText /\ ExportsExact

Fits ==
  /\ \A p \in Panels : ImportFits(imp[p])
  /\ \A j \in Jobs : JobFits(job[j])
  /\ SessionFits /\ BaselinePairs

IInv == TypeOK /\ Fits /\ Unedited
-----------------------------------------------------------------------------
(* What the shared operators do *)

USE ConversionAssumption, ValuesAssumption, NoBaselineAssumption

LEMMA BuiltFits ==
  ASSUME NEW s \in Texts, NEW t \in Targets
  PROVE  /\ Built(s, t) \in Bytes /\ Built(s, t).prog = Compile[s]
         /\ t # "own" => Built(s, t).kind = IF Sign THEN t ELSE "plist"
  BY DEF Built, Bytes, Kinds, Targets, ExtensionOf

\* The bytes a handler settles on are of the program of its text.
LEMMA WritingFits ==
  ASSUME IInv, NEW j \in Jobs, NEW s \in Texts, NEW t \in Targets
  PROVE  /\ Writing(j, s, t) \in Job
         /\ Writing(j, s, t).pc = "write" /\ Writing(j, s, t).does = job[j].does
         /\ Writing(j, s, t).exact = IsExact(s, t)
         /\ py # None => JobFits(Writing(j, s, t))
<1> DEFINE w == Writing(j, s, t)
<1>1. /\ job[j] \in Job /\ IsExact(s, t) \in BOOLEAN
      /\ IsExact(s, t) => session.baseline \in Baseline
  BY DEF IInv, TypeOK, IsExact
<1>2. w = [job[j] EXCEPT !.pc = "write", !.source = s, !.target = t, !.exact = IsExact(s, t),
             !.out = IF IsExact(s, t) THEN session.baseline.bytes ELSE Built(s, t)]
  BY DEF Writing
<1>3. /\ w.pc = "write" /\ w.source = s /\ w.target = t /\ w.exact = IsExact(s, t)
      /\ w.does = job[j].does
      /\ w.out = IF IsExact(s, t) THEN session.baseline.bytes ELSE Built(s, t)
  BY <1>1, <1>2 DEF Job
<1>4. w.out \in Bytes /\ w.out.prog = Compile[s]
  <2>1. CASE IsExact(s, t)
    BY <1>1, <1>3, <2>1 DEF Baseline, IsExact, IInv, Fits, BaselinePairs
  <2>2. CASE ~IsExact(s, t)
    BY <1>3, <2>2, BuiltFits
  <2> QED BY <2>1, <2>2
<1>5. w \in Job
  BY <1>1, <1>2, <1>3, <1>4 DEF Job
<1>6. t # "own" => w.out.kind = IF Sign \/ w.exact THEN t ELSE "plist"
  <2>1. CASE IsExact(s, t)
    BY <1>1, <1>3, <2>1 DEF IsExact, ExtensionOf
  <2>2. CASE ~IsExact(s, t)
    BY <1>3, <2>2, BuiltFits
  <2> QED BY <2>1, <2>2
<1> HIDE DEF w
<1>7. py # None => JobFits(w)
  BY <1>3, <1>4, <1>6 DEF JobFits, Holding
<1> QED BY <1>3, <1>5, <1>7 DEF w

\* Joining an import starts one, and changes none that goes on.
LEMMA JoinedFits ==
  ASSUME TypeOK, NEW p \in Panels
  PROVE  /\ Joined(p) \in [Panels -> Import]
         /\ \A q \in Panels :
              \/ Joined(p)[q] = imp[q]
              \/ q = p /\ imp[q].pc = "idle" /\ Joined(p)[q].pc = "read"
  BY DEF TypeOK, Joined, Import

LEMMA NoJobFits == NoJob \in Job /\ JobFits(NoJob) /\ NoJob.does = "open" /\ NoJob.pc = "idle"
  BY DEF NoJob, Job, NoBytes, Bytes, Kinds, Targets, JobFits, Holding

\* A handler whose import is over goes on only if the import came to its end.
LEMMA SettledFits ==
  ASSUME TypeOK, NEW p \in Panels, NEW ok \in BOOLEAN
  PROVE  /\ Settled(p, ok) \in [Jobs -> Job]
         /\ \A j \in Jobs :
              \/ Settled(p, ok)[j] = job[j]
              \/ Settled(p, ok)[j] = NoJob
              \/ /\ ok /\ job[j].pc = "await"
                 /\ Settled(p, ok)[j] = [job[j] EXCEPT !.pc = "begin"]
<1>1. \A j \in Jobs : [job[j] EXCEPT !.pc = "begin"] \in Job
  BY DEF TypeOK, Job
<1> QED BY <1>1, NoJobFits DEF TypeOK, Settled, Waiting
-----------------------------------------------------------------------------
(* Types and what is carried *)

\* What the conjuncts of Fits need when a step adds to none of them.
Lasts == /\ py # None => py' # None
         /\ session.baseline # None => session'.baseline # None

LEMMA ImportsLast ==
  ASSUME IInv, Lasts,
         \A p \in Panels : imp'[p] = imp[p] \/ imp'[p].pc \in {"idle", "read"}
  PROVE  (\A p \in Panels : ImportFits(imp[p]))'
  BY DEF IInv, Fits, ImportFits, Lasts

LEMMA JobsLast ==
  ASSUME IInv, Lasts,
         \A k \in Jobs : job'[k] = job[k] \/ job'[k] = NoJob \/ JobFits(job[k])'
  PROVE  (\A k \in Jobs : JobFits(job[k]))'
<1>1. JobFits(NoJob)'
  BY DEF JobFits, NoJob, Holding
<1>2. \A k \in Jobs : job'[k] = job[k] => JobFits(job[k])'
  BY DEF IInv, Fits, JobFits, Lasts, Holding
<1> QED BY <1>1, <1>2

LEMMA InitFits == Init => TypeOK /\ Fits
<1> SUFFICES ASSUME Init PROVE TypeOK /\ Fits
  OBVIOUS
<1>1. TypeOK
  <2>1. NoImport \in Import
    BY DEF NoImport, Import, NoBytes, Bytes, Kinds
  <2>2. file \in Bytes
    BY DEF Init, Bytes, Kinds
  <2>3. NoSession \in [imported : BOOLEAN, baseline : Baseline \cup {None}]
    BY DEF NoSession
  <2>4. 0 \in 0..MaxEdits /\ 0 \in 0..MaxFaults
    OBVIOUS
  <2> QED BY NoJobFits, <2>1, <2>2, <2>3, <2>4 DEF Init, TypeOK
<1>2. \A p \in Panels : ImportFits(imp[p])
  BY DEF Init, ImportFits, NoImport
<1>3. \A j \in Jobs : JobFits(job[j])
  BY NoJobFits DEF Init
<1>4. SessionFits /\ BaselinePairs
  BY DEF Init, NoSession, SessionFits, BaselinePairs
<1> QED BY <1>1, <1>2, <1>3, <1>4 DEF Fits

LEMMA ReadFileFits ==
  ASSUME IInv, NEW p \in Panels, ReadFile(p)
  PROVE  TypeOK' /\ Fits'
<1>1. TypeOK'
  <2>1. imp[p] \in Import /\ file \in Bytes
    BY DEF IInv, TypeOK
  <2>2. [imp[p] EXCEPT !.pc = "convert", !.bytes = file] \in Import
    BY <2>1 DEF Import
  <2>3. imp' = [imp EXCEPT ![p] = [imp[p] EXCEPT !.pc = "convert", !.bytes = file]]
    BY DEF ReadFile
  <2> QED BY <2>2, <2>3 DEF IInv, TypeOK, ReadFile
<1>2. ImportFits(imp[p])'
  BY DEF IInv, TypeOK, ReadFile, Import, ImportFits, Bytes
<1>3. \A q \in Panels \ {p} : ImportFits(imp[q])'
  BY DEF IInv, TypeOK, Fits, ReadFile, ImportFits
<1>4. (\A j \in Jobs : JobFits(job[j]))' /\ SessionFits' /\ BaselinePairs'
  BY DEF IInv, Fits, ReadFile, JobFits, SessionFits, BaselinePairs
<1> QED BY <1>1, <1>2, <1>3, <1>4 DEF Fits

LEMMA ConvertBytesFits ==
  ASSUME IInv, NEW p \in Panels, ConvertBytes(p)
  PROVE  TypeOK' /\ Fits'
<1>1. imp[p].bytes.prog \in Progs /\ Convert[imp[p].bytes.prog] \in Texts
      /\ Compile[Convert[imp[p].bytes.prog]] = imp[p].bytes.prog
  BY DEF IInv, Fits, ImportFits, ConvertBytes, Accepted
<1>2. TypeOK'
  <2> DEFINE source == Convert[imp[p].bytes.prog]
  <2>1. imp[p] \in Import
    BY DEF IInv, TypeOK
  <2>2. [imp[p] EXCEPT !.pc = "write", !.source = source] \in Import
    BY <1>1, <2>1 DEF Import
  <2>3. imp' = [imp EXCEPT ![p] = [imp[p] EXCEPT !.pc = "write", !.source = source]]
    BY DEF ConvertBytes
  <2> QED BY <2>2, <2>3 DEF IInv, TypeOK, ConvertBytes
<1>3. ImportFits(imp[p])'
  BY <1>1 DEF IInv, TypeOK, ConvertBytes, Import, ImportFits
<1>4. \A q \in Panels \ {p} : ImportFits(imp[q])'
  BY DEF IInv, TypeOK, Fits, ConvertBytes, ImportFits
<1>5. (\A j \in Jobs : JobFits(job[j]))' /\ SessionFits' /\ BaselinePairs'
  BY DEF IInv, Fits, ConvertBytes, JobFits, SessionFits, BaselinePairs
<1> QED BY <1>2, <1>3, <1>4, <1>5 DEF Fits

LEMMA WriteSourceFits ==
  ASSUME IInv, NEW p \in Panels, WriteSource(p)
  PROVE  TypeOK' /\ Fits'
<1>1. py' \in Texts /\ py' # None /\ imp[p].source \in Texts
      /\ Compile[imp[p].source] = imp[p].bytes.prog /\ imp[p].bytes.prog \in Progs
  BY DEF IInv, TypeOK, Fits, ImportFits, WriteSource
<1>2. TypeOK'
  BY <1>1 DEF IInv, TypeOK, WriteSource, Import
<1>3. ImportFits(imp[p])'
  BY <1>1 DEF IInv, TypeOK, WriteSource, Import, ImportFits
<1>4. \A q \in Panels \ {p} : ImportFits(imp[q])'
  BY <1>1 DEF IInv, TypeOK, Fits, WriteSource, ImportFits
<1>5. (\A j \in Jobs : JobFits(job[j]))' /\ SessionFits' /\ BaselinePairs'
  BY <1>1 DEF IInv, Fits, WriteSource, JobFits, SessionFits, BaselinePairs
<1> QED BY <1>2, <1>3, <1>4, <1>5 DEF Fits

\* A text and bytes that belong together become the baseline.
LEMMA WithBaselineFits ==
  ASSUME TypeOK, NEW s \in Texts, NEW b \in Bytes, Compile[s] = b.prog, py # None,
         NEW flag \in BOOLEAN, py' = py,
         session' = [WithBaseline(s, b) EXCEPT !.imported = flag]
  PROVE  /\ session' \in [imported : BOOLEAN, baseline : Baseline \cup {None}]
         /\ session'.baseline # None
         /\ session'.baseline.source = s /\ session'.baseline.bytes = b
         /\ SessionFits' /\ BaselinePairs'
<1>1. session'.baseline = [source |-> s, bytes |-> b] /\ session'.imported = flag
      /\ session' \in [imported : BOOLEAN, baseline : Baseline \cup {None}]
  BY DEF TypeOK, WithBaseline, Baseline
<1>2. [source |-> s, bytes |-> b] \in Baseline
  BY DEF Baseline
<1> QED BY <1>1, <1>2 DEF SessionFits, BaselinePairs

LEMMA FinishImportFits ==
  ASSUME IInv, NEW p \in Panels, FinishImport(p)
  PROVE  TypeOK' /\ Fits'
<1>1. /\ imp[p].source \in Texts /\ imp[p].bytes \in Bytes
      /\ Compile[imp[p].source] = imp[p].bytes.prog /\ py # None
      /\ imp[p].bytes.prog \in Progs
  BY DEF IInv, TypeOK, Fits, ImportFits, FinishImport, Import
<1>2. /\ session' \in [imported : BOOLEAN, baseline : Baseline \cup {None}]
      /\ session'.baseline # None /\ SessionFits' /\ BaselinePairs'
  BY <1>1, WithBaselineFits DEF FinishImport, IInv
<1>3. TypeOK'
  BY <1>2 DEF IInv, TypeOK, FinishImport, Import
<1>4. ImportFits(imp[p])'
  BY <1>1, <1>2 DEF IInv, TypeOK, FinishImport, Import, ImportFits
<1>5. \A q \in Panels \ {p} : ImportFits(imp[q])'
  BY <1>2 DEF IInv, TypeOK, Fits, FinishImport, ImportFits
<1>6. (\A j \in Jobs : JobFits(job[j]))'
  BY <1>2 DEF IInv, Fits, FinishImport, JobFits
<1> QED BY <1>2, <1>3, <1>4, <1>5, <1>6 DEF Fits

\* An import is over, in whatever way.
LEMMA OverFits ==
  ASSUME IInv, NEW p \in Panels, NEW ok \in BOOLEAN,
         ok => imp[p].pc = "show",
         imp' = [imp EXCEPT ![p] = NoImport], job' = Settled(p, ok),
         faults' \in 0..MaxFaults, crossed' \in BOOLEAN,
         UNCHANGED <<file, py, session, open, edits>>
  PROVE  TypeOK' /\ Fits'
<1>1. /\ job' \in [Jobs -> Job]
      /\ \A j \in Jobs :
           \/ job'[j] = job[j] \/ job'[j] = NoJob
           \/ ok /\ job[j].pc = "await" /\ job'[j] = [job[j] EXCEPT !.pc = "begin"]
  BY SettledFits DEF IInv
<1>2. NoImport \in Import /\ NoImport.pc = "idle"
  BY DEF NoImport, Import, NoBytes, Bytes, Kinds
<1>3. TypeOK'
  BY <1>1, <1>2 DEF IInv, TypeOK
<1>4. (\A q \in Panels : ImportFits(imp[q]))'
  BY <1>2, ImportsLast DEF IInv, TypeOK, Lasts
<1>5. (\A j \in Jobs : JobFits(job[j]))'
  <2>1. ASSUME NEW j \in Jobs, ok, job[j].pc = "await",
               job'[j] = [job[j] EXCEPT !.pc = "begin"]
        PROVE  JobFits(job[j])'
    <3>1. py # None /\ session.baseline # None
      BY <2>1 DEF IInv, Fits, ImportFits
    <3>2. job[j] \in Job /\ JobFits(job[j])
      BY DEF IInv, TypeOK, Fits
    <3> QED BY <2>1, <3>1, <3>2 DEF JobFits, Job, Holding
  <2> QED BY <1>1, <2>1, JobsLast DEF Lasts
<1>6. SessionFits' /\ BaselinePairs'
  BY DEF IInv, Fits, SessionFits, BaselinePairs
<1> QED BY <1>3, <1>4, <1>5, <1>6 DEF Fits

LEMMA ShowEditorFits ==
  ASSUME IInv, NEW p \in Panels, ShowEditor(p)
  PROVE  TypeOK' /\ Fits'
<1>1. faults' \in 0..MaxFaults /\ crossed' \in BOOLEAN
  BY DEF ShowEditor, IInv, TypeOK
<1> QED BY <1>1, OverFits DEF ShowEditor

LEMMA RejectImportFits ==
  ASSUME IInv, NEW p \in Panels, RejectImport(p)
  PROVE  TypeOK' /\ Fits'
<1>1. faults' \in 0..MaxFaults /\ crossed' \in BOOLEAN
  BY DEF RejectImport, IInv, TypeOK
<1> QED BY <1>1, OverFits DEF RejectImport

LEMMA ImportFailsFits ==
  ASSUME IInv, NEW p \in Panels, ImportFails(p)
  PROVE  TypeOK' /\ Fits'
<1>1. faults' \in 0..MaxFaults /\ crossed' \in BOOLEAN
      /\ UNCHANGED <<file, py, session, open, edits>>
      /\ imp' = [imp EXCEPT ![p] = NoImport] /\ job' = Settled(p, FALSE)
  BY DEF ImportFails, Fails, IInv, TypeOK
<1> QED BY <1>1, OverFits

\* A panel's import is joined or started, and at most one handler changes.
LEMMA JoinsFits ==
  ASSUME IInv, NEW p \in Panels, imp' = Joined(p), crossed' = Crossed(p),
         job' \in [Jobs -> Job],
         \A k \in Jobs : job'[k] = job[k] \/ JobFits(job[k])',
         open' \in Panels \cup {None},
         UNCHANGED <<file, py, session, edits, faults>>
  PROVE  TypeOK' /\ Fits'
<1>1. /\ imp' \in [Panels -> Import]
      /\ \A q \in Panels : imp'[q] = imp[q] \/ imp'[q].pc = "read"
  BY JoinedFits DEF IInv
<1>2. TypeOK'
  BY <1>1 DEF IInv, TypeOK, Crossed
<1>3. (\A q \in Panels : ImportFits(imp[q]))'
  BY <1>1, ImportsLast DEF Lasts
<1>4. (\A j \in Jobs : JobFits(job[j]))'
  BY JobsLast DEF Lasts
<1>5. SessionFits' /\ BaselinePairs'
  BY DEF IInv, Fits, SessionFits, BaselinePairs
<1> QED BY <1>2, <1>3, <1>4, <1>5 DEF Fits

LEMMA OpenPanelFits ==
  ASSUME IInv, NEW p \in Panels, OpenPanel(p)
  PROVE  TypeOK' /\ Fits'
<1>1. /\ imp' = Joined(p) /\ crossed' = Crossed(p) /\ open' = p /\ job' = job
      /\ UNCHANGED <<file, py, session, edits, faults>>
  BY DEF OpenPanel
<1>2. job' \in [Jobs -> Job]
  BY <1>1 DEF IInv, TypeOK
<1> QED BY <1>1, <1>2, JoinsFits

\* A handler starts to wait for an import.
LEMMA AwaitsFits ==
  ASSUME IInv, NEW p \in Panels, NEW j \in Jobs,
         NEW does \in {"open", "validate", "export", "import"}, Awaits(j, does, p),
         UNCHANGED <<file, py, session, open, edits, faults>>
  PROVE  TypeOK' /\ Fits'
<1> DEFINE e == [NoJob EXCEPT !.pc = "await", !.does = does, !.panel = p]
<1>2. e \in Job /\ e.pc = "await" /\ e.target = "own" /\ ~e.exact
  BY DEF NoJob, Job, NoBytes, Bytes, Kinds, Targets
<1>3. job' = [job EXCEPT ![j] = e] /\ imp' = Joined(p) /\ crossed' = Crossed(p)
  BY DEF Awaits
<1> HIDE DEF e
<1>4. job' \in [Jobs -> Job] /\ job'[j] = e /\ \A k \in Jobs \ {j} : job'[k] = job[k]
  BY <1>2, <1>3 DEF IInv, TypeOK
<1>5. JobFits(job[j])'
  BY <1>2, <1>4 DEF JobFits, Holding
<1>6. open' \in Panels \cup {None}
  BY DEF IInv, TypeOK
<1> QED BY <1>3, <1>4, <1>5, <1>6, JoinsFits

\* A handler goes on, by itself.
LEMMA GoesFits ==
  ASSUME IInv, NEW j \in Jobs, NEW e \in Job, job' = [job EXCEPT ![j] = e],
         JobFits(job[j])', edits' \in 0..MaxEdits, faults' \in 0..MaxFaults,
         crossed' \in BOOLEAN, file' \in Bytes,
         UNCHANGED <<py, session, open, imp>>
  PROVE  TypeOK' /\ Fits'
<1>1. job' \in [Jobs -> Job] /\ job'[j] = e /\ \A k \in Jobs \ {j} : job'[k] = job[k]
  BY DEF IInv, TypeOK
<1>2. TypeOK'
  BY <1>1 DEF IInv, TypeOK
<1>3. (\A q \in Panels : ImportFits(imp[q]))'
  BY ImportsLast DEF Lasts
<1>4. (\A k \in Jobs : JobFits(job[k]))'
  BY <1>1, JobsLast DEF Lasts
<1>5. SessionFits' /\ BaselinePairs'
  BY DEF IInv, Fits, SessionFits, BaselinePairs
<1> QED BY <1>2, <1>3, <1>4, <1>5 DEF Fits

\* A handler ends, or waits for the user.
LEMMA EndsFits ==
  ASSUME IInv, NEW j \in Jobs, job' = [job EXCEPT ![j] = NoJob],
         faults' \in 0..MaxFaults, UNCHANGED <<file, py, session, open, imp, edits, crossed>>
  PROVE  TypeOK' /\ Fits'
<1>1. JobFits(job[j])'
  BY DEF JobFits, NoJob, Holding, IInv, TypeOK
<1>2. edits' \in 0..MaxEdits /\ crossed' \in BOOLEAN /\ file' \in Bytes
  BY DEF IInv, TypeOK
<1> QED BY <1>1, <1>2, NoJobFits, GoesFits

LEMMA ClickFits ==
  ASSUME IInv, NEW j \in Jobs, NEW does \in {"open", "validate", "export"}, Click(j, does)
  PROVE  TypeOK' /\ Fits'
<1>1. open \in Panels /\ UNCHANGED <<file, py, session, open, edits, faults>>
  BY DEF Click, IInv, TypeOK
<1>2. CASE Awaits(j, does, open)
  BY <1>1, <1>2, AwaitsFits
<1>3. CASE /\ session.imported
           /\ job' = [job EXCEPT ![j] = [NoJob EXCEPT !.pc = "begin", !.does = does]]
           /\ UNCHANGED <<imp, crossed>>
  <2> DEFINE e == [NoJob EXCEPT !.pc = "begin", !.does = does]
  <2>1. e \in Job /\ e.pc = "begin" /\ e.target = "own" /\ ~e.exact
    BY DEF NoJob, Job, NoBytes, Bytes, Kinds, Targets
  <2>2. session.baseline # None /\ py # None
    BY <1>3 DEF IInv, Fits, SessionFits
  <2> HIDE DEF e
  <2>3. JobFits(job[j])'
    BY <1>1, <1>3, <2>1, <2>2 DEF e, JobFits, Holding, IInv, TypeOK
  <2>4. /\ job' = [job EXCEPT ![j] = e] /\ edits' \in 0..MaxEdits /\ faults' \in 0..MaxFaults
        /\ crossed' \in BOOLEAN /\ file' \in Bytes
    BY <1>1, <1>3 DEF e, IInv, TypeOK
  <2> QED BY <1>1, <1>3, <2>1, <2>3, <2>4, GoesFits
<1> QED BY <1>2, <1>3 DEF Click

LEMMA ClickImportFits ==
  ASSUME IInv, NEW j \in Jobs, ClickImport(j)
  PROVE  TypeOK' /\ Fits'
<1>1. open \in Panels /\ UNCHANGED <<file, py, session, open, edits, faults>>
  BY DEF ClickImport, IInv, TypeOK
<1>2. CASE Awaits(j, "import", open)
  BY <1>1, <1>2, AwaitsFits
<1>3. CASE /\ job' = [job EXCEPT ![j] = [NoJob EXCEPT !.pc = "ask", !.does = "import",
                                                     !.panel = open]]
           /\ UNCHANGED <<imp, crossed>>
  <2> DEFINE e == [NoJob EXCEPT !.pc = "ask", !.does = "import", !.panel = open]
  <2>1. e \in Job /\ e.pc = "ask" /\ e.panel \in Panels
    BY <1>1 DEF NoJob, Job, NoBytes, Bytes, Kinds, Targets
  <2> HIDE DEF e
  <2>2. JobFits(job[j])'
    BY <1>3, <2>1 DEF e, JobFits, Holding, IInv, TypeOK
  <2>3. /\ job' = [job EXCEPT ![j] = e] /\ edits' \in 0..MaxEdits /\ faults' \in 0..MaxFaults
        /\ crossed' \in BOOLEAN /\ file' \in Bytes
    BY <1>1, <1>3 DEF e, IInv, TypeOK
  <2> QED BY <1>1, <1>3, <2>1, <2>2, <2>3, GoesFits
<1> QED BY <1>2, <1>3 DEF ClickImport

LEMMA AnswerReloadFits ==
  ASSUME IInv, NEW j \in Jobs, AnswerReload(j)
  PROVE  TypeOK' /\ Fits'
<1>1. /\ UNCHANGED <<file, py, session, open, edits, faults>> /\ faults' \in 0..MaxFaults
      /\ job[j].panel \in Panels
  BY DEF AnswerReload, IInv, TypeOK, Fits, JobFits
<1>2. CASE Awaits(j, "import", job[j].panel)
  BY <1>1, <1>2, AwaitsFits
<1>3. CASE job' = [job EXCEPT ![j] = NoJob] /\ UNCHANGED <<imp, crossed>>
  BY <1>1, <1>3, EndsFits
<1> QED BY <1>2, <1>3 DEF AnswerReload

LEMMA BeginFits ==
  ASSUME IInv, NEW j \in Jobs, Begin(j)
  PROVE  TypeOK' /\ Fits'
<1>1. py \in Texts /\ job[j] \in Job /\ JobFits(job[j]) /\ job[j].pc = "begin"
      /\ "own" \in Targets
  BY DEF Begin, IInv, TypeOK, Fits, JobFits, Targets
<1> DEFINE c == [job[j] EXCEPT !.pc = "compile", !.source = py]
           e == IF job[j].does = "export" /\ IsExact(py, "own") THEN Writing(j, py, "own")
                                                               ELSE c
<1>2. c \in Job /\ JobFits(c)
  BY <1>1 DEF Job, JobFits, Holding
<1>3. e \in Job /\ JobFits(e)
  BY <1>1, <1>2, WritingFits
<1>4. job' = [job EXCEPT ![j] = e] /\ UNCHANGED <<file, py, session, open, imp, edits, faults>>
  BY DEF Begin
<1> HIDE DEF e
<1>5. JobFits(job[j])'
  BY <1>3, <1>4 DEF JobFits, IInv, TypeOK
<1>6. edits' \in 0..MaxEdits /\ faults' \in 0..MaxFaults /\ crossed' \in BOOLEAN /\ file' \in Bytes
  BY <1>4 DEF Begin, IInv, TypeOK
<1> QED BY <1>3, <1>4, <1>5, <1>6, GoesFits

LEMMA SaveFits ==
  ASSUME IInv, NEW j \in Jobs, Save(j)
  PROVE  TypeOK' /\ Fits'
<1>1. PICK s \in Texts :
         job' = [job EXCEPT ![j] = [NoJob EXCEPT !.pc = "compile", !.does = "save",
                                                 !.source = s]]
  BY DEF Save
<1> DEFINE e == [NoJob EXCEPT !.pc = "compile", !.does = "save", !.source = s]
<1>2. e \in Job /\ e.pc = "compile" /\ e.target = "own" /\ ~e.exact /\ e.source \in Texts
  BY DEF NoJob, Job, NoBytes, Bytes, Kinds, Targets
<1>3. job' = [job EXCEPT ![j] = e]
  BY <1>1
<1> HIDE DEF e
<1>4. JobFits(job[j])'
  BY <1>2, <1>3 DEF JobFits, Holding, Save, IInv, TypeOK
<1>5. /\ edits' \in 0..MaxEdits /\ faults' \in 0..MaxFaults
      /\ crossed' \in BOOLEAN /\ file' \in Bytes /\ UNCHANGED <<py, session, open, imp>>
  BY DEF Save, IInv, TypeOK
<1> QED BY <1>2, <1>3, <1>4, <1>5, GoesFits

LEMMA CompiledFits ==
  ASSUME IInv, NEW j \in Jobs, Compiled(j)
  PROVE  TypeOK' /\ Fits'
<1>1. /\ job[j] \in Job /\ JobFits(job[j]) /\ job[j].pc = "compile"
      /\ job[j].source \in Texts /\ "own" \in Targets
  BY DEF Compiled, IInv, TypeOK, Fits, JobFits, Holding, Targets
<1> DEFINE built == Built(job[j].source, "own")
           e == CASE job[j].does = "save" -> [job[j] EXCEPT !.pc = "target"]
                  [] job[j].does = "export" -> [job[j] EXCEPT !.pc = "write", !.out = built]
                  [] OTHER -> NoJob
<1>2. built \in Bytes /\ built.prog = Compile[job[j].source]
  BY <1>1, BuiltFits
<1> HIDE DEF built
<1>3. /\ [job[j] EXCEPT !.pc = "target"] \in Job
      /\ job[j].does = "save" => JobFits([job[j] EXCEPT !.pc = "target"])
  BY <1>1 DEF Job, JobFits, Holding
<1>4. /\ [job[j] EXCEPT !.pc = "write", !.out = built] \in Job
      /\ JobFits([job[j] EXCEPT !.pc = "write", !.out = built])
  BY <1>1, <1>2 DEF Job, JobFits, Holding
<1>5. e \in Job /\ JobFits(e)
  <2>1. CASE job[j].does = "save"
    BY <1>3, <2>1
  <2>2. CASE job[j].does = "export"
    BY <1>4, <2>2
  <2>3. CASE job[j].does \notin {"save", "export"}
    BY <2>3, NoJobFits
  <2> QED BY <2>1, <2>2, <2>3
<1>6. job' = [job EXCEPT ![j] = e]
      /\ UNCHANGED <<file, py, session, open, imp, edits, faults, crossed>>
  BY DEF Compiled, built
<1> HIDE DEF e
<1>7. JobFits(job[j])'
  BY <1>5, <1>6 DEF JobFits, IInv, TypeOK
<1>8. edits' \in 0..MaxEdits /\ faults' \in 0..MaxFaults /\ crossed' \in BOOLEAN /\ file' \in Bytes
  BY <1>6 DEF IInv, TypeOK
<1> QED BY <1>5, <1>6, <1>7, <1>8, GoesFits

LEMMA CompileFailsFits ==
  ASSUME IInv, NEW j \in Jobs, CompileFails(j)
  PROVE  TypeOK' /\ Fits'
<1>1. /\ faults' \in 0..MaxFaults /\ job' = [job EXCEPT ![j] = NoJob]
      /\ UNCHANGED <<file, py, session, open, imp, edits, crossed>>
  BY DEF CompileFails, Fails, IInv, TypeOK
<1> QED BY <1>1, EndsFits

LEMMA PickTargetFits ==
  ASSUME IInv, NEW j \in Jobs, PickTarget(j)
  PROVE  TypeOK' /\ Fits'
<1>1. /\ job[j].source \in Texts /\ py # None
      /\ UNCHANGED <<file, py, session, open, imp, edits, faults, crossed>>
      /\ edits' \in 0..MaxEdits /\ faults' \in 0..MaxFaults
      /\ crossed' \in BOOLEAN /\ file' \in Bytes
  BY DEF PickTarget, IInv, TypeOK, Fits, JobFits, Holding
<1>2. ASSUME NEW t \in Targets, job' = [job EXCEPT ![j] = Writing(j, job[j].source, t)]
      PROVE  TypeOK' /\ Fits'
  <2> DEFINE e == Writing(j, job[j].source, t)
  <2>1. e \in Job /\ JobFits(e)
    BY <1>1, WritingFits
  <2>2. job' = [job EXCEPT ![j] = e]
    BY <1>2
  <2> HIDE DEF e
  <2>3. JobFits(job[j])'
    BY <1>1, <2>1, <2>2 DEF JobFits, IInv, TypeOK
  <2> QED BY <1>1, <2>1, <2>2, <2>3, GoesFits
<1>3. CASE job' = [job EXCEPT ![j] = NoJob]
  BY <1>1, <1>3, EndsFits
<1> QED BY <1>2, <1>3 DEF PickTarget

LEMMA WriteFileFits ==
  ASSUME IInv, NEW j \in Jobs, WriteFile(j)
  PROVE  TypeOK' /\ Fits'
<1>1. /\ job[j] \in Job /\ JobFits(job[j]) /\ job[j].pc = "write" /\ job[j].out \in Bytes
      /\ UNCHANGED <<py, session, open, imp, edits, crossed>>
      /\ edits' \in 0..MaxEdits /\ faults' \in 0..MaxFaults
      /\ crossed' \in BOOLEAN /\ file' \in Bytes
  BY DEF WriteFile, Fails, IInv, TypeOK, Fits, Job
<1> DEFINE more == [job[j] EXCEPT !.pc = "remember"]
<1>2. more \in Job /\ (job[j].does = "export" => JobFits(more))
  BY <1>1 DEF Job, JobFits, Holding
<1>3. \/ job[j].does = "export" /\ job' = [job EXCEPT ![j] = more]
      \/ job' = [job EXCEPT ![j] = NoJob]
  BY DEF WriteFile
<1> HIDE DEF more
<1>4. CASE job[j].does = "export" /\ job' = [job EXCEPT ![j] = more]
  <2>1. JobFits(job[j])'
    BY <1>1, <1>2, <1>4 DEF JobFits, IInv, TypeOK
  <2> QED BY <1>1, <1>2, <1>4, <2>1, GoesFits
<1>5. CASE job' = [job EXCEPT ![j] = NoJob]
  <2>1. JobFits(job[j])'
    BY <1>5, NoJobFits DEF NoJob, JobFits, Holding, IInv, TypeOK
  <2> QED BY <1>1, <1>5, <2>1, NoJobFits, GoesFits
<1> QED BY <1>3, <1>4, <1>5

LEMMA RememberFits ==
  ASSUME IInv, NEW j \in Jobs, Remember(j)
  PROVE  TypeOK' /\ Fits'
<1>1. /\ job[j].source \in Texts /\ job[j].out \in Bytes /\ py # None
      /\ Compile[job[j].source] = job[j].out.prog /\ session.imported \in BOOLEAN
      /\ UNCHANGED <<file, py, open, imp, edits, faults, crossed>>
      /\ job' = [job EXCEPT ![j] = NoJob]
  BY DEF Remember, IInv, TypeOK, Fits, JobFits, Holding, Job
<1>2. session' = [WithBaseline(job[j].source, job[j].out) EXCEPT !.imported = session.imported]
  BY DEF Remember, WithBaseline, IInv, TypeOK
<1>3. /\ session' \in [imported : BOOLEAN, baseline : Baseline \cup {None}]
      /\ session'.baseline # None /\ SessionFits' /\ BaselinePairs'
  BY <1>1, <1>2, WithBaselineFits DEF IInv
<1>4. TypeOK'
  BY <1>1, <1>3, NoJobFits DEF IInv, TypeOK
<1>5. (\A p \in Panels : ImportFits(imp[p]))'
  BY <1>1, <1>3, ImportsLast DEF Lasts
<1>6. (\A k \in Jobs : JobFits(job[k]))'
  BY <1>1, <1>3, JobsLast DEF Lasts, IInv, TypeOK
<1> QED BY <1>3, <1>4, <1>5, <1>6 DEF Fits

\* The user, other programs and the window.
LEMMA OutsideFits ==
  ASSUME IInv, ClosePanel \/ Type \/ ChangeOutside
  PROVE  TypeOK' /\ Fits'
<1>1. /\ py \in Texts \cup {None} /\ py' \in Texts \cup {None} /\ file' \in Bytes
      /\ py # None => py' # None
      /\ open' \in Panels \cup {None} /\ edits' \in 0..MaxEdits /\ faults' \in 0..MaxFaults
      /\ UNCHANGED <<session, imp, job, crossed>>
  BY DEF ClosePanel, Type, ChangeOutside, Fails, IInv, TypeOK, Bytes, Kinds
<1>2. TypeOK'
  BY <1>1 DEF IInv, TypeOK
<1>3. (\A p \in Panels : ImportFits(imp[p]))' /\ (\A k \in Jobs : JobFits(job[k]))'
  BY <1>1, ImportsLast, JobsLast DEF Lasts
<1>4. SessionFits' /\ BaselinePairs'
  BY <1>1 DEF IInv, Fits, SessionFits, BaselinePairs
<1> QED BY <1>2, <1>3, <1>4 DEF Fits

LEMMA ReloadFits ==
  ASSUME IInv, Reload
  PROVE  TypeOK' /\ Fits'
<1>1. NoImport \in Import /\ NoImport.pc = "idle"
  BY DEF NoImport, Import, NoBytes, Bytes, Kinds
<1>2. /\ py' \in Texts \cup {None} /\ file' \in Bytes /\ open' = None
      /\ edits' \in 0..MaxEdits /\ faults' \in 0..MaxFaults /\ crossed' \in BOOLEAN
      /\ session' = NoSession
      /\ imp' = [p \in Panels |-> NoImport] /\ job' = [j \in Jobs |-> NoJob]
  BY DEF Reload, Fails, IInv, TypeOK
<1>3. TypeOK'
  BY <1>1, <1>2, NoJobFits DEF TypeOK, NoSession
<1>4. (\A p \in Panels : ImportFits(imp[p]))'
  BY <1>1, <1>2 DEF ImportFits
<1>5. (\A k \in Jobs : JobFits(job[k]))'
  BY <1>2 DEF NoJob, JobFits, Holding
<1>6. SessionFits' /\ BaselinePairs'
  BY <1>2 DEF NoSession, SessionFits, BaselinePairs
<1> QED BY <1>3, <1>4, <1>5, <1>6 DEF Fits

LEMMA NextFits ==
  ASSUME IInv, [Next]_vars
  PROVE  TypeOK' /\ Fits'
<1>1. ASSUME NEW p \in Panels, ImportStep(p) \/ OpenPanel(p)
      PROVE  TypeOK' /\ Fits'
  BY <1>1, ReadFileFits, ConvertBytesFits, WriteSourceFits, FinishImportFits, ShowEditorFits,
     RejectImportFits, ImportFailsFits, OpenPanelFits DEF ImportStep
<1>2. ASSUME NEW j \in Jobs, JobStep(j)
      PROVE  TypeOK' /\ Fits'
  BY <1>2, BeginFits, CompiledFits, CompileFailsFits, WriteFileFits, RememberFits DEF JobStep
<1>3. ASSUME NEW j \in Jobs, Clicks(j)
      PROVE  TypeOK' /\ Fits'
  BY <1>3, ClickFits, ClickImportFits, SaveFits DEF Clicks
<1>4. ASSUME NEW j \in Jobs, AnswerReload(j) \/ PickTarget(j)
      PROVE  TypeOK' /\ Fits'
  BY <1>4, AnswerReloadFits, PickTargetFits
<1>5. CASE ClosePanel \/ Type \/ ChangeOutside \/ Reload
  BY <1>5, OutsideFits, ReloadFits
<1>6. CASE UNCHANGED vars
  BY <1>6 DEF vars, IInv, TypeOK, Fits, ImportFits, JobFits, SessionFits, BaselinePairs
<1> QED BY <1>1, <1>2, <1>3, <1>4, <1>5, <1>6 DEF Next
-----------------------------------------------------------------------------
(* An unedited document holds the text of its bytes *)

LEMMA EditsNat == TypeOK => edits \in Nat
  BY DEF TypeOK

LEMMA InitUnedited == Init => Unedited
  BY DEF Init, Unedited, HoldsText, ExportsExact, Importing, Finishing, NoImport, NoJob,
         NoSession

\* No step takes an edit or a crossing back.
LEMMA Irrevocable ==
  ASSUME IInv, [Next]_vars, edits' = 0, ~crossed'
  PROVE  edits = 0 /\ ~crossed /\ HoldsText /\ ExportsExact
<1>0. edits \in Nat
  BY EditsNat DEF IInv
<1>1. edits' = edits \/ edits' = edits + 1
  BY DEF Next, vars, ImportStep, ReadFile, ConvertBytes, WriteSource, FinishImport,
         ShowEditor, RejectImport, ImportFails, OpenPanel, JobStep, Begin, Compiled,
         CompileFails, WriteFile, Remember, Clicks, Click, ClickImport, Save, AnswerReload,
         PickTarget, ClosePanel, Type, ChangeOutside, Reload
<1>2. crossed => crossed'
  BY DEF Next, vars, ImportStep, ReadFile, ConvertBytes, WriteSource, FinishImport,
         ShowEditor, RejectImport, ImportFails, OpenPanel, JobStep, Begin, Compiled,
         CompileFails, WriteFile, Remember, Clicks, Click, ClickImport, Save, AnswerReload,
         PickTarget, ClosePanel, Type, ChangeOutside, Reload, Awaits, Crossed
<1> QED BY <1>0, <1>1, <1>2 DEF IInv, Unedited

\* Handlers that end or start to wait or compile no export keep what exports are.
LEMMA ExportsLast ==
  ASSUME ExportsExact,
         \A j \in Jobs : \/ job'[j] = job[j]
                         \/ job'[j].does # "export"
                         \/ job'[j].pc \notin {"compile", "remember", "write"}
  PROVE  ExportsExact'
  BY DEF ExportsExact

LEMMA TextLasts ==
  ASSUME HoldsText, UNCHANGED <<py, session, imp>>
  PROVE  HoldsText'
  BY DEF HoldsText, Importing, Finishing

LEMMA ImportStepUnedited ==
  ASSUME IInv, edits = 0, HoldsText, ExportsExact, NEW p \in Panels, ImportStep(p), ~crossed'
  PROVE  HoldsText' /\ ExportsExact'
<1>1. CASE ReadFile(p) \/ ConvertBytes(p)
  <2>1. /\ imp[p].pc \notin {"idle", "finish"} /\ imp'[p].pc \notin {"idle", "finish"}
        /\ \A q \in Panels \ {p} : imp'[q] = imp[q]
        /\ UNCHANGED <<py, session, job>>
    BY <1>1 DEF ReadFile, ConvertBytes, IInv, TypeOK, Import
  <2>2. Importing' = Importing /\ Finishing' = Finishing
    BY <2>1 DEF Importing, Finishing
  <2>3. HoldsText'
    BY <2>1, <2>2 DEF HoldsText, Finishing
  <2> QED BY <2>1, <2>3, ExportsLast
<1>2. CASE WriteSource(p)
  <2>1. /\ imp[p].pc = "write" /\ imp'[p].pc = "finish" /\ imp'[p].source = imp[p].source
        /\ py' = imp[p].source
        /\ \A q \in Panels \ {p} : imp'[q] = imp[q]
        /\ UNCHANGED <<session, job>>
    BY <1>2 DEF WriteSource, IInv, TypeOK, Import
  <2>2. Importing' = Importing /\ p \in Importing /\ Finishing' \subseteq Importing /\ p \in Finishing'
    BY <2>1 DEF Importing, Finishing
  <2>3. HoldsText'
    BY <2>1, <2>2 DEF HoldsText
  <2> QED BY <2>1, <2>3, ExportsLast
<1>3. CASE FinishImport(p)
  <2>1. /\ imp[p].pc = "finish" /\ imp'[p].pc = "show" /\ py' = py
        /\ session'.baseline.source = imp[p].source
        /\ \A q \in Panels \ {p} : imp'[q] = imp[q]
        /\ UNCHANGED job
    BY <1>3 DEF FinishImport, WithBaseline, IInv, TypeOK, Import
  <2>2. Importing' = Importing /\ p \in Finishing /\ Finishing \subseteq Importing
        /\ Finishing' = Finishing \ {p}
    BY <2>1 DEF Importing, Finishing
  <2>3. HoldsText'
    BY <2>1, <2>2 DEF HoldsText
  <2> QED BY <2>1, <2>3, ExportsLast
<1>4. CASE ShowEditor(p) \/ RejectImport(p) \/ ImportFails(p)
  <2>1. PICK ok \in BOOLEAN : job' = Settled(p, ok)
    BY <1>4 DEF ShowEditor, RejectImport, ImportFails
  <2>2. /\ imp[p].pc # "finish" /\ imp'[p].pc = "idle"
        /\ \A q \in Panels \ {p} : imp'[q] = imp[q]
        /\ UNCHANGED <<py, session>>
    <3>1. imp[p].pc # "finish"
      BY <1>4 DEF ShowEditor, RejectImport, ImportFails
    <3>2. imp' = [imp EXCEPT ![p] = NoImport] /\ UNCHANGED <<py, session>>
      BY <1>4 DEF ShowEditor, RejectImport, ImportFails
    <3> QED BY <3>1, <3>2 DEF NoImport, IInv, TypeOK
  <2>3. Importing' \subseteq Importing /\ Finishing' = Finishing
    BY <2>2 DEF Importing, Finishing
  <2>4. HoldsText'
    BY <2>2, <2>3 DEF HoldsText, Finishing
  <2>5. \A j \in Jobs : job'[j] = job[j] \/ job'[j].pc \in {"idle", "begin"}
    <3>1. \A j \in Jobs : [job[j] EXCEPT !.pc = "begin"].pc = "begin"
      BY DEF IInv, TypeOK, Job
    <3>2. \A j \in Jobs : \/ job'[j] = job[j] \/ job'[j] = NoJob
                          \/ job'[j] = [job[j] EXCEPT !.pc = "begin"]
      BY <2>1, SettledFits DEF IInv
    <3> QED BY <3>1, <3>2, NoJobFits
  <2> QED BY <2>4, <2>5, ExportsLast
<1> QED BY <1>1, <1>2, <1>3, <1>4 DEF ImportStep

\* An import that is started is the only one.
LEMMA JoinedUnedited ==
  ASSUME IInv, HoldsText, NEW p \in Panels, imp' = Joined(p), crossed' = Crossed(p), ~crossed',
         UNCHANGED <<py, session>>
  PROVE  HoldsText'
<1>1. \A q \in Panels : q # p => imp[q].pc = "idle"
  BY DEF Crossed
<1>2. \A q \in Panels : \/ imp'[q] = imp[q]
                        \/ q = p /\ imp[q].pc = "idle" /\ imp'[q].pc = "read"
  BY JoinedFits DEF IInv
<1>3. Importing' \subseteq {p} /\ Finishing' = Finishing /\ \A q \in Finishing : imp'[q] = imp[q]
  BY <1>1, <1>2 DEF Importing, Finishing
<1> QED BY <1>3 DEF HoldsText

LEMMA AwaitsUnedited ==
  ASSUME IInv, HoldsText, ExportsExact, NEW p \in Panels, NEW j \in Jobs, NEW does,
         Awaits(j, does, p), ~crossed', UNCHANGED <<py, session>>
  PROVE  HoldsText' /\ ExportsExact'
<1>1. HoldsText'
  BY JoinedUnedited DEF Awaits
<1>2. \A k \in Jobs : job'[k] = job[k] \/ job'[k].pc = "await"
  BY DEF Awaits, NoJob, IInv, TypeOK
<1> QED BY <1>1, <1>2, ExportsLast

\* What Begin settles on is the baseline's.
LEMMA BeginUnedited ==
  ASSUME IInv, HoldsText, ExportsExact, NEW j \in Jobs, Begin(j), ~crossed'
  PROVE  HoldsText' /\ ExportsExact'
<1>1. HoldsText'
  BY TextLasts DEF Begin
<1>2. py \in Texts /\ "own" \in Targets /\ session.baseline # None /\ Finishing = {}
  BY DEF Begin, IInv, TypeOK, Fits, JobFits, Targets, Finishing
<1>3. IsExact(py, "own")
  BY <1>2 DEF HoldsText, IsExact
<1>4. CASE job[j].does = "export"
  <2>1. job' = [job EXCEPT ![j] = Writing(j, py, "own")]
    BY <1>3, <1>4 DEF Begin
  <2>2. job'[j].pc = "write" /\ job'[j].exact /\ \A k \in Jobs \ {j} : job'[k] = job[k]
    BY <1>2, <1>3, <2>1, WritingFits DEF IInv, TypeOK
  <2> QED BY <1>1, <2>2 DEF ExportsExact
<1>5. CASE job[j].does # "export"
  <2>1. job' = [job EXCEPT ![j] = [job[j] EXCEPT !.pc = "compile", !.source = py]]
    BY <1>5 DEF Begin
  <2>2. \A k \in Jobs : job'[k] = job[k] \/ job'[k].does # "export"
    BY <1>5, <2>1 DEF IInv, TypeOK, Job
  <2> QED BY <1>1, <2>2, ExportsLast
<1> QED BY <1>4, <1>5

LEMMA JobStepUnedited ==
  ASSUME IInv, edits = 0, HoldsText, ExportsExact, NEW j \in Jobs,
         JobStep(j) \/ Clicks(j) \/ AnswerReload(j) \/ PickTarget(j), edits' = 0, ~crossed'
  PROVE  HoldsText' /\ ExportsExact'
<1>1. CASE Begin(j)
  BY <1>1, BeginUnedited
<1>2. CASE Compiled(j) \/ CompileFails(j) \/ WriteFile(j)
  <2>1. UNCHANGED <<py, session, imp>>
    BY <1>2 DEF Compiled, CompileFails, WriteFile
  <2>2. \A k \in Jobs : \/ job'[k] = job[k]
                        \/ job'[k].does # "export" \/ job'[k].pc = "idle"
    BY <1>2 DEF Compiled, CompileFails, WriteFile, ExportsExact, NoJob, IInv, TypeOK, Job
  <2> QED BY <2>1, <2>2, TextLasts, ExportsLast
<1>3. CASE Remember(j)
  BY <1>3 DEF Remember, IInv, Fits, JobFits, ExportsExact
<1>4. CASE \E does \in {"open", "validate", "export"} : Click(j, does)
  <2>1. PICK does \in {"open", "validate", "export"} : Click(j, does)
    BY <1>4
  <2>2. CASE Awaits(j, does, open)
    BY <2>1, <2>2, AwaitsUnedited DEF Click, IInv, TypeOK
  <2>3. CASE job' = [job EXCEPT ![j] = [NoJob EXCEPT !.pc = "begin", !.does = does]]
             /\ UNCHANGED <<imp, crossed>>
    <3>1. \A k \in Jobs : job'[k] = job[k] \/ job'[k].pc = "begin"
      BY <2>3 DEF NoJob, IInv, TypeOK
    <3> QED BY <2>1, <2>3, <3>1, TextLasts, ExportsLast DEF Click
  <2> QED BY <2>1, <2>2, <2>3 DEF Click
<1>5. CASE ClickImport(j)
  <2>1. CASE Awaits(j, "import", open)
    BY <1>5, <2>1, AwaitsUnedited DEF ClickImport, IInv, TypeOK
  <2>2. CASE job' = [job EXCEPT ![j] = [NoJob EXCEPT !.pc = "ask", !.does = "import",
                                                    !.panel = open]]
             /\ UNCHANGED <<imp, crossed>>
    <3>1. \A k \in Jobs : job'[k] = job[k] \/ job'[k].pc = "ask"
      BY <2>2 DEF NoJob, IInv, TypeOK
    <3> QED BY <1>5, <2>2, <3>1, TextLasts, ExportsLast DEF ClickImport
  <2> QED BY <1>5, <2>1, <2>2 DEF ClickImport
<1>6. CASE AnswerReload(j)
  <2>1. CASE Awaits(j, "import", job[j].panel)
    BY <1>6, <2>1, AwaitsUnedited DEF AnswerReload, IInv, Fits, JobFits
  <2>2. CASE job' = [job EXCEPT ![j] = NoJob] /\ UNCHANGED <<imp, crossed>>
    <3>1. \A k \in Jobs : job'[k] = job[k] \/ job'[k].pc = "idle"
      BY <2>2, NoJobFits DEF IInv, TypeOK
    <3> QED BY <1>6, <2>2, <3>1, TextLasts, ExportsLast DEF AnswerReload
  <2> QED BY <1>6, <2>1, <2>2 DEF AnswerReload
<1>7. CASE Save(j)
  <2>1. \A k \in Jobs : job'[k] = job[k] \/ job'[k].does = "save"
    BY <1>7 DEF Save, NoJob, IInv, TypeOK
  <2> QED BY <1>7, <2>1, TextLasts, ExportsLast DEF Save
<1>8. CASE PickTarget(j)
  <2>1. job[j].does = "save" /\ job[j].source \in Texts
    BY <1>8 DEF PickTarget, IInv, Fits, JobFits, Holding
  <2>2. \A t \in Targets : Writing(j, job[j].source, t).does = "save"
    BY <2>1, WritingFits
  <2>3. \A k \in Jobs : job'[k] = job[k] \/ job'[k].does = "save" \/ job'[k].pc = "idle"
    BY <1>8, <2>2, NoJobFits DEF PickTarget, IInv, TypeOK
  <2> QED BY <1>8, <2>3, TextLasts, ExportsLast DEF PickTarget
<1> QED BY <1>1, <1>2, <1>3, <1>4, <1>5, <1>6, <1>7, <1>8 DEF JobStep, Clicks

LEMMA NextUnedited ==
  ASSUME IInv, [Next]_vars
  PROVE  Unedited'
<1> SUFFICES ASSUME edits' = 0, ~crossed' PROVE HoldsText' /\ ExportsExact'
  BY DEF Unedited
<1>0. edits = 0 /\ ~crossed /\ HoldsText /\ ExportsExact
  BY Irrevocable
<1>1. ASSUME NEW p \in Panels, ImportStep(p) PROVE HoldsText' /\ ExportsExact'
  BY <1>0, <1>1, ImportStepUnedited
<1>2. ASSUME NEW p \in Panels, OpenPanel(p) PROVE HoldsText' /\ ExportsExact'
  BY <1>0, <1>2, JoinedUnedited, ExportsLast DEF OpenPanel
<1>3. ASSUME NEW j \in Jobs, JobStep(j) \/ Clicks(j) \/ AnswerReload(j) \/ PickTarget(j)
      PROVE  HoldsText' /\ ExportsExact'
  BY <1>0, <1>3, JobStepUnedited
<1>4. CASE ClosePanel \/ ChangeOutside \/ UNCHANGED vars
  BY <1>0, <1>4, TextLasts, ExportsLast DEF ClosePanel, ChangeOutside, vars
<1>5. CASE Type
  BY <1>0, <1>5 DEF Type
<1>6. CASE Reload
  BY <1>6 DEF Reload, HoldsText, ExportsExact, Importing, Finishing, NoImport, NoJob, NoSession
<1> QED BY <1>1, <1>2, <1>3, <1>4, <1>5, <1>6 DEF Next
-----------------------------------------------------------------------------
\* Every reachable state satisfies the inductive invariant.
THEOREM Invariance == Spec => []IInv
<1>1. Init => IInv
  BY InitFits, InitUnedited DEF IInv
<1>2. IInv /\ [Next]_vars => IInv'
  BY NextFits, NextUnedited DEF IInv
<1> QED BY <1>1, <1>2, PTL DEF Spec

\* Imports, handlers and the session keep the shapes that the code gives them.
THEOREM TypeCorrect == Spec => []TypeOK
<1>1. IInv => TypeOK
  BY DEF IInv
<1> QED BY <1>1, Invariance, PTL

\* The bytes kept for a text are of the program the compiler reads in it: building
\* from them loses no edit (workflowRoundTrip.js 21-53).
THEOREM BytesFitText == Spec => []BaselinePairs
<1>1. IInv => BaselinePairs
  BY DEF IInv, Fits
<1> QED BY <1>1, Invariance, PTL

\* An unedited document is built byte for byte (extension.js 2675-2693), however
\* many failures, outside changes and reloads come between.
THEOREM UneditedIsExact == Spec => []UneditedExact
<1>1. IInv => UneditedExact
  BY DEF IInv, Unedited, ExportsExact, UneditedExact
<1> QED BY <1>1, Invariance, PTL

\* Bytes kept of one kind are written to no file of the other (1991-1996).
THEOREM KindsFit == Spec => []KindFits
<1>1. IInv => KindFits
  BY DEF IInv, Fits, JobFits, KindFits
<1> QED BY <1>1, Invariance, PTL

\* A text the compiler rejects replaces none (2578-2589).
THEOREM TextIsAccepted == Spec => OnlyAcceptedText
<1>1. ASSUME IInv, [Next]_vars, edits' = edits, py' # py
      PROVE  Compile[py'] # None
  <2>1. edits \in Nat
    BY <1>1, EditsNat DEF IInv
  <2>2. ~Type
    BY <1>1, <2>1 DEF Type
  <2>3. \E p \in Panels : WriteSource(p)
    BY <1>1, <2>2 DEF Next, vars, ImportStep, ReadFile, ConvertBytes, FinishImport,
         ShowEditor, RejectImport, ImportFails, OpenPanel, JobStep, Begin, Compiled,
         CompileFails, WriteFile, Remember, Clicks, Click, ClickImport, Save, AnswerReload,
         PickTarget, ClosePanel, ChangeOutside, Reload
  <2>4. PICK p \in Panels : WriteSource(p)
    BY <2>3
  <2>5. py' = imp[p].source /\ Compile[imp[p].source] \in Progs
    BY <1>1, <2>4 DEF WriteSource, IInv, Fits, ImportFits
  <2> QED BY <2>5
<1> QED BY <1>1, Invariance, PTL DEF Spec, OnlyAcceptedText
=============================================================================
