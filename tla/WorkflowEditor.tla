--------------------------- MODULE WorkflowEditor ---------------------------
(***************************************************************************)
(* The custom editor of one workflow file (extension.js 943-1131, 1969-    *)
(* 2030, 2541-2800; workflowRoundTrip.js): the file is converted to a      *)
(* Python document, and built back from it, byte for byte where the text   *)
(* is the one that was converted.                                          *)
(*                                                                         *)
(* A panel is one opening of the editor.  VS Code shows one at a time, but *)
(* the import and the buttons of a closed panel go on.  Every handler is a *)
(* chain of awaits; the file, the Python document and the session are what *)
(* the handlers, the user and other programs share.                        *)
(***************************************************************************)
EXTENDS Naturals

CONSTANTS
  Panels, Jobs,  \* openings of the editor; handlers in progress
  Texts, Progs,  \* Python texts; what they mean to Shortcuts
  Compile,       \* [Texts -> Progs \cup {None}]: python-to-bplist
  Convert,       \* [Progs -> Texts \cup {None}]: plist-data-to-python
  OwnKind,       \* extension of the workflow file: "signed" (.shortcut) or "plist"
  Sign,          \* shortcutsRuntimeIDE.signShortcutExports
  None,
  MaxEdits,      \* bound: texts typed, or parts of the text saved
  MaxFaults      \* bound: failures, outside changes of the file, reloads

\* Converting a program gives a text of it, or one the compiler rejects.
ASSUME ConversionAssumption ==
  /\ Compile \in [Texts -> Progs \cup {None}]
  /\ Convert \in [Progs -> Texts \cup {None}]
  /\ \A p \in Progs : Convert[p] # None => Compile[Convert[p]] \in {None, p}
ASSUME ValuesAssumption ==
  /\ OwnKind \in {"signed", "plist"} /\ Sign \in BOOLEAN
  /\ {MaxEdits, MaxFaults} \subseteq Nat
  /\ None \notin Texts \cup Progs \cup Panels

VARIABLES
  file,     \* the workflow file
  py,       \* the Python document, or None: it has never been written
  session,  \* the workflow session of this window
  open,     \* the panel shown, or None
  imp,      \* per panel, the import its importPromise stands for
  job,      \* the handlers
  edits, faults,
  crossed   \* two panels imported at once, or text was built as an import ended, or
            \* an import failed whose text was in the document already

vars == <<file, py, session, open, imp, job, edits, faults, crossed>>

\* A program None makes it no workflow at all.
Kinds == {"signed", "plist"}
Bytes == [prog : Progs \cup {None}, kind : Kinds]
NoBytes == [prog |-> None, kind |-> "plist"]

\* rememberWorkflowBaseline
Baseline == [source : Texts, bytes : Bytes]
ASSUME NoBaselineAssumption == None \notin Baseline
NoSession == [imported |-> FALSE, baseline |-> None]
WithBaseline(text, bytes) ==
  [session EXCEPT !.baseline = [source |-> text, bytes |-> bytes]]

Import == [pc : {"idle", "read", "convert", "write", "finish", "show"},
           bytes : Bytes, source : Texts \cup {None}]
NoImport == [pc |-> "idle", bytes |-> NoBytes, source |-> None]

Targets == {"own"} \cup Kinds
Job == [pc : {"idle", "ask", "await", "begin", "compile", "target", "write", "remember"},
        does : {"export", "validate", "open", "import", "save"}, panel : Panels \cup {None},
        source : Texts \cup {None}, out : Bytes, exact : BOOLEAN, target : Targets]
NoJob == [pc |-> "idle", does |-> "open", panel |-> None, source |-> None,
          out |-> NoBytes, exact |-> FALSE, target |-> "own"]

TypeOK ==
  /\ file \in Bytes /\ py \in Texts \cup {None}
  /\ session \in [imported : BOOLEAN, baseline : Baseline \cup {None}]
  /\ open \in Panels \cup {None} /\ imp \in [Panels -> Import] /\ job \in [Jobs -> Job]
  /\ edits \in 0..MaxEdits /\ faults \in 0..MaxFaults /\ crossed \in BOOLEAN

Init ==
  /\ file \in [prog : Progs \cup {None}, kind : {OwnKind, "plist"}]
  /\ py = None /\ session = NoSession /\ open = None
  /\ imp = [p \in Panels |-> NoImport] /\ job = [j \in Jobs |-> NoJob]
  /\ edits = 0 /\ faults = 0 /\ crossed = FALSE

-----------------------------------------------------------------------------
(* What the handlers share *)

ExtensionOf(target) == IF target = "own" THEN OwnKind ELSE target

\* Mutant: the bytes fit whatever extension the target has.
ExactForAnyTarget(source, target) ==
  session.baseline # None /\ session.baseline.source = source

\* exactWorkflowRoundTripBytes finds bytes for this text and target.
IsExact(source, target) ==
  /\ session.baseline # None /\ session.baseline.source = source
  /\ target = "own" \/ session.baseline.bytes.kind = ExtensionOf(target)

\* Mutant: the target itself where its extension is meant.
BuiltForTarget(source, target) ==
  [prog |-> Compile[source], kind |-> IF Sign THEN target ELSE "plist"]

\* shortcutBytesForTarget of a compilation.
Built(source, target) ==
  [prog |-> Compile[source],
   kind |-> IF Sign THEN ExtensionOf(target) ELSE "plist"]

\* importIntoSession: join the panel's import, or start one.
Joined(p) ==
  IF imp[p].pc = "idle" THEN [imp EXCEPT ![p].pc = "read"] ELSE imp

\* The program has a text, and the compiler takes it.
Accepted(prog) == Convert[prog] # None /\ Compile[Convert[prog]] # None

Crossed(p) == crossed \/ \E q \in Panels \ {p} : imp[q].pc # "idle"

\* The handlers that wait for the import of panel p; ensureImported throws for a
\* failed one, and only these two have more to do after it.
Waiting(p) == {j \in Jobs : job[j].pc = "await" /\ job[j].panel = p}
Settled(p, ok) ==
  [j \in Jobs |-> IF j \notin Waiting(p) THEN job[j]
                  ELSE IF ok /\ job[j].does \in {"export", "validate"}
                       THEN [job[j] EXCEPT !.pc = "begin"]
                       ELSE NoJob]

\* A process, the file system or VS Code fails, or a time limit ends.
Fails == faults < MaxFaults /\ faults' = faults + 1

-----------------------------------------------------------------------------
(* performImport *)

ReadFile(p) ==
  /\ imp[p].pc = "read" /\ file.prog # None
  /\ imp' = [imp EXCEPT ![p].pc = "convert", ![p].bytes = file]
  /\ UNCHANGED <<file, py, session, open, job, edits, faults, crossed>>

\* Mutant: what the bridge converted is written without asking the compiler.
ConvertUnasked(p) ==
  /\ imp[p].pc = "convert" /\ Convert[imp[p].bytes.prog] # None
  /\ imp' = [imp EXCEPT ![p].pc = "write", ![p].source = Convert[imp[p].bytes.prog]]
  /\ UNCHANGED <<file, py, session, open, job, edits, faults, crossed>>

\* plist-data-to-python and then validateImportedPythonSource: two commands on
\* what was read, with nothing shared between them.
ConvertBytes(p) ==
  /\ imp[p].pc = "convert" /\ Accepted(imp[p].bytes.prog)
  /\ imp' = [imp EXCEPT ![p].pc = "write", ![p].source = Convert[imp[p].bytes.prog]]
  /\ UNCHANGED <<file, py, session, open, job, edits, faults, crossed>>

\* writeWorkflowPythonSource.  VS Code refuses an edit of an open document that
\* was typed in meanwhile; the answer of applyEdit is not looked at.
WriteSource(p) ==
  /\ imp[p].pc = "write"
  /\ imp' = [imp EXCEPT ![p].pc = "finish"]
  /\ \/ py' = imp[p].source
     \/ edits > 0 /\ py # None /\ UNCHANGED py
  /\ UNCHANGED <<file, session, open, job, edits, faults, crossed>>

\* Mutant: the baseline pairs the text with the file as it now is.
FinishImportWithFile(p) ==
  /\ imp[p].pc = "finish"
  /\ imp' = [imp EXCEPT ![p].pc = "show"]
  /\ session' = [WithBaseline(imp[p].source, file) EXCEPT !.imported = TRUE]
  /\ UNCHANGED <<file, py, open, job, edits, faults, crossed>>

\* Mutant: a later import leaves the baseline of the first.
FinishImportOnce(p) ==
  /\ imp[p].pc = "finish"
  /\ imp' = [imp EXCEPT ![p].pc = "show"]
  /\ session' = IF session.imported THEN session
                ELSE [WithBaseline(imp[p].source, imp[p].bytes) EXCEPT !.imported = TRUE]
  /\ UNCHANGED <<file, py, open, job, edits, faults, crossed>>

\* The end of importWorkflowPlistToSession.
FinishImport(p) ==
  /\ imp[p].pc = "finish"
  /\ imp' = [imp EXCEPT ![p].pc = "show"]
  /\ session' = [WithBaseline(imp[p].source, imp[p].bytes) EXCEPT !.imported = TRUE]
  /\ UNCHANGED <<file, py, open, job, edits, faults, crossed>>

\* showWorkflowPythonEditor, and the import settles.
ShowEditor(p) ==
  /\ imp[p].pc = "show"
  /\ imp' = [imp EXCEPT ![p] = NoImport]
  /\ job' = Settled(p, TRUE)
  /\ UNCHANGED <<file, py, session, open, edits, faults, crossed>>

\* Mutant: the import fails and whoever waits for it is not told.
RejectSilently(p) ==
  /\ imp[p].pc = "convert" /\ ~Accepted(imp[p].bytes.prog)
  /\ imp' = [imp EXCEPT ![p] = NoImport]
  /\ UNCHANGED <<file, py, session, open, job, edits, faults, crossed>>

\* The bridge cannot convert, or rejects its own conversion: the text and the session stay.
RejectImport(p) ==
  /\ imp[p].pc = "convert" /\ ~Accepted(imp[p].bytes.prog)
  /\ imp' = [imp EXCEPT ![p] = NoImport]
  /\ job' = Settled(p, FALSE)
  /\ UNCHANGED <<file, py, session, open, edits, faults, crossed>>

\* Any other error, a file that is no workflow included: the window then shows the
\* bridge as disconnected, whatever the bridge does.
ImportFails(p) ==
  /\ \/ imp[p].pc = "read" /\ file.prog = None /\ UNCHANGED faults
     \/ imp[p].pc # "idle" /\ Fails
  /\ imp' = [imp EXCEPT ![p] = NoImport]
  /\ job' = Settled(p, FALSE)
  /\ crossed' = (crossed \/ imp[p].pc = "finish")
  /\ UNCHANGED <<file, py, session, open, edits>>

-----------------------------------------------------------------------------
(* Panels and their buttons *)

\* resolveCustomEditor imports without asking, whatever the Python document holds.
OpenPanel(p) ==
  /\ open = None /\ imp[p].pc = "idle"
  /\ open' = p
  /\ imp' = Joined(p) /\ crossed' = Crossed(p)
  /\ UNCHANGED <<file, py, session, job, edits, faults>>

ClosePanel ==
  /\ open # None
  /\ open' = None
  /\ UNCHANGED <<file, py, session, imp, job, edits, faults, crossed>>

\* Handler j waits for the import of panel p, which it starts if there is none.
Awaits(j, does, p) ==
  /\ job' = [job EXCEPT ![j] = [NoJob EXCEPT !.pc = "await", !.does = does, !.panel = p]]
  /\ imp' = Joined(p) /\ crossed' = Crossed(p)

\* openPython, validate, export: ensureImported, then the button's own work; a
\* connection that toggleBridge makes is followed by what openPython does.
Click(j, does) ==
  /\ open # None /\ job[j].pc = "idle"
  /\ \/ /\ ~session.imported
        /\ Awaits(j, does, open)
     \/ /\ session.imported /\ does # "open"
        /\ job' = [job EXCEPT ![j] = [NoJob EXCEPT !.pc = "begin", !.does = does]]
        /\ UNCHANGED <<imp, crossed>>
  /\ UNCHANGED <<file, py, session, open, edits, faults>>

\* import: opening a Python document that was never written throws before anything
\* is done; a text that is not the baseline's is replaced only with consent.
ClickImport(j) ==
  /\ open # None /\ job[j].pc = "idle" /\ py # None
  /\ IF session.baseline # None /\ py # session.baseline.source
     THEN /\ job' = [job EXCEPT ![j] = [NoJob EXCEPT !.pc = "ask", !.does = "import",
                                                     !.panel = open]]
          /\ UNCHANGED <<imp, crossed>>
     ELSE Awaits(j, "import", open)
  /\ UNCHANGED <<file, py, session, open, edits, faults>>

\* "Reload Python", or the dialog is dismissed.
AnswerReload(j) ==
  /\ job[j].pc = "ask"
  /\ \/ Awaits(j, "import", job[j].panel)
     \/ job' = [job EXCEPT ![j] = NoJob] /\ UNCHANGED <<imp, crossed>>
  /\ UNCHANGED <<file, py, session, open, edits, faults>>

-----------------------------------------------------------------------------
(* Building and saving *)

\* The bytes handler j writes to target: those it keeps for this text, else the
\* compilation's.
Writing(j, source, target) ==
  [job[j] EXCEPT !.pc = "write", !.source = source, !.target = target,
     !.exact = IsExact(source, target),
     !.out = IF IsExact(source, target) THEN session.baseline.bytes
                                        ELSE Built(source, target)]

\* validate and export read the text; unchanged text is exported as it came.
Begin(j) ==
  /\ job[j].pc = "begin"
  /\ job' = [job EXCEPT ![j] =
       IF @.does = "export" /\ IsExact(py, "own") THEN Writing(j, py, "own")
                                                  ELSE [@ EXCEPT !.pc = "compile", !.source = py]]
  /\ crossed' = (crossed \/ \E p \in Panels : imp[p].pc = "finish")
  /\ UNCHANGED <<file, py, session, open, imp, edits, faults>>

\* saveRuntimePlistFromPython, and writeSiblingRuntimePlistFromPython, which takes
\* the .shortcut beside the document: of the text, or of a part that is selected.
Save(j) ==
  /\ py # None /\ job[j].pc = "idle"
  /\ \E s \in Texts :
       /\ \/ s = py /\ UNCHANGED edits
          \/ s # py /\ edits < MaxEdits /\ edits' = edits + 1
       /\ job' = [job EXCEPT ![j] = [NoJob EXCEPT !.pc = "compile", !.does = "save",
                                                  !.source = s]]
  /\ UNCHANGED <<file, py, session, open, imp, faults, crossed>>

\* compilePythonDocument returns.
Compiled(j) ==
  /\ job[j].pc = "compile" /\ Compile[job[j].source] # None
  /\ job' = [job EXCEPT ![j] =
       CASE @.does = "save" -> [@ EXCEPT !.pc = "target"]
         [] @.does = "export" -> [@ EXCEPT !.pc = "write", !.out = Built(job[j].source, "own")]
         [] OTHER -> NoJob]
  /\ UNCHANGED <<file, py, session, open, imp, edits, faults, crossed>>

\* The text is rejected, or the bridge or the time limit fails.
CompileFails(j) ==
  /\ job[j].pc = "compile"
  /\ \/ Compile[job[j].source] = None /\ UNCHANGED faults
     \/ Fails
  /\ job' = [job EXCEPT ![j] = NoJob]
  /\ UNCHANGED <<file, py, session, open, imp, edits, crossed>>

\* The save dialog: what is written is settled after it, with the session of then.
PickTarget(j) ==
  /\ job[j].pc = "target"
  /\ \/ \E t \in Targets : job' = [job EXCEPT ![j] = Writing(j, job[j].source, t)]
     \/ job' = [job EXCEPT ![j] = NoJob]
  /\ UNCHANGED <<file, py, session, open, imp, edits, faults, crossed>>

\* Only an export that compiled has more to do.
WriteFile(j) ==
  /\ job[j].pc = "write"
  /\ \/ /\ file' = IF job[j].target = "own" THEN job[j].out ELSE file
        /\ job' = [job EXCEPT ![j] = IF @.does = "export" /\ ~@.exact
                                     THEN [@ EXCEPT !.pc = "remember"] ELSE NoJob]
        /\ UNCHANGED faults
     \/ /\ Fails
        /\ job' = [job EXCEPT ![j] = NoJob]
        /\ UNCHANGED file
  /\ UNCHANGED <<py, session, open, imp, edits, crossed>>

\* Mutant: the baseline takes the text as it now is, not the text that was compiled.
RememberCurrent(j) ==
  /\ job[j].pc = "remember"
  /\ session' = WithBaseline(py, job[j].out)
  /\ job' = [job EXCEPT ![j] = NoJob]
  /\ UNCHANGED <<file, py, open, imp, edits, faults, crossed>>

\* rememberWorkflowBaseline of what an export wrote.
Remember(j) ==
  /\ job[j].pc = "remember"
  /\ session' = WithBaseline(job[j].source, job[j].out)
  /\ job' = [job EXCEPT ![j] = NoJob]
  /\ UNCHANGED <<file, py, open, imp, edits, faults, crossed>>

-----------------------------------------------------------------------------
(* The user, other programs, and the window *)

Type ==
  /\ py # None /\ edits < MaxEdits
  /\ py' \in Texts \ {py} /\ edits' = edits + 1
  /\ UNCHANGED <<file, session, open, imp, job, faults, crossed>>

\* The workflow file is replaced, or stops being a workflow.
ChangeOutside ==
  /\ Fails
  /\ file' \in [prog : Progs \cup {None}, kind : {OwnKind}]
  /\ UNCHANGED <<py, session, open, imp, job, edits, crossed>>

\* The files stay, everything in memory goes.
Reload ==
  /\ Fails
  /\ session' = NoSession /\ open' = None
  /\ imp' = [p \in Panels |-> NoImport] /\ job' = [j \in Jobs |-> NoJob]
  /\ UNCHANGED <<file, py, edits, crossed>>

-----------------------------------------------------------------------------
ImportStep(p) ==
  \/ ReadFile(p) \/ ConvertBytes(p) \/ WriteSource(p)
  \/ FinishImport(p) \/ ShowEditor(p) \/ RejectImport(p) \/ ImportFails(p)

\* The steps of a handler that need no user.
JobStep(j) ==
  Begin(j) \/ Compiled(j) \/ CompileFails(j) \/ WriteFile(j) \/ Remember(j)

\* "open" stands for every button that waits for the import and then leaves this
\* component: showing the document, the searches, host sync, Live Sync (2652-2756).
Clicks(j) ==
  \/ \E does \in {"open", "validate", "export"} : Click(j, does)
  \/ ClickImport(j) \/ Save(j)

Next ==
  \/ \E p \in Panels : ImportStep(p) \/ OpenPanel(p)
  \/ \E j \in Jobs : JobStep(j) \/ Clicks(j) \/ AnswerReload(j) \/ PickTarget(j)
  \/ ClosePanel \/ Type \/ ChangeOutside \/ Reload

\* Every await returns or throws; dialogs are the user's.
Fairness ==
  /\ \A p \in Panels : WF_vars(ImportStep(p))
  /\ \A j \in Jobs : WF_vars(JobStep(j))

Spec == Init /\ [][Next]_vars /\ Fairness

-----------------------------------------------------------------------------
(* Properties *)

\* Bytes are kept for a text only if the compiler reads that text as their
\* program: rebuilding from them never loses an edit or brings an old one back.
BaselinePairs ==
  session.baseline # None =>
    Compile[session.baseline.source] = session.baseline.bytes.prog

\* vscode-extension/README.md:54-55: building a document the user has not changed
\* writes exact input bytes, never a compilation, which would lose what Python does
\* not represent; over outside changes, failures and reloads.  It does not hold
\* when a second panel imports meanwhile, nor when the text of a new import is in
\* the document and its bytes are not kept yet, or are not since saving it failed.
UneditedExact ==
  edits = 0 /\ ~crossed =>
    \A j \in Jobs : job[j].does = "export" /\ job[j].pc = "write" => job[j].exact

\* A file written beside the workflow gets bytes of the kind its extension names;
\* only a compilation that is not to be signed is a plist whatever the extension.
KindFits ==
  \A j \in Jobs : job[j].pc = "write" /\ job[j].target # "own" =>
    job[j].out.kind = IF Sign \/ job[j].exact THEN job[j].target ELSE "plist"

\* "Editor source was preserved" (2578-2589): the extension replaces the text
\* only by one the compiler accepts.
OnlyAcceptedText == [][edits' = edits /\ py' # py => Compile[py'] # None]_vars

\* A button ends, or waits for an answer of the user: none is left on an import
\* that is over.
HandlersEnd ==
  \A j \in Jobs : job[j].pc \notin {"idle", "ask", "target"}
                    ~> job[j].pc \in {"idle", "ask", "target"}
=============================================================================
