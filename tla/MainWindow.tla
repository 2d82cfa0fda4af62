----------------------------- MODULE MainWindow -----------------------------
(***************************************************************************)
(* The document of the main window (gui/main_window.py): what the user, the *)
(* background workers, the timers and the dialogs do to the open scenario, *)
(* its .spdpi file and the evaluation results on show.                     *)
(*                                                                         *)
(* A dialog runs an event loop of its own inside the handler that opened   *)
(* it.  While it is open the rest of the window takes no input, but worker *)
(* signals and timers are delivered: the handlers that wait for an answer  *)
(* form the stack "frames".  A message box whose handler does nothing after *)
(* it (a warning, an error, "Another operation is running") cannot be told *)
(* from one that is closed at once, and is left out; so is a dialog whose  *)
(* handler reads nothing before it and tests nothing after it.             *)
(***************************************************************************)
EXTENDS WorkerLifecycle, FiniteSetsExt

CONSTANTS
  Designs,       \* design fingerprints: electrical content of a scenario
  SourceDesign,  \* the design an SPD import starts from
  Colours,       \* NET colours; persistent, but in no fingerprint
  SourceColour,
  Files,         \* .spdpi paths
  MaxRevision,   \* bound on the revision counter
  MaxFrames,     \* bound on nested dialogs (FramesBound); one more is answered No at once
  RecolouredFrames,  \* the same bound in a scenario whose colour was changed
  NoScenario, NoFile, NoRequest, NoJob, NoValue

ASSUME MainWindowAssumption ==
  /\ SourceDesign \in Designs
  /\ SourceColour \in Colours
  /\ NoFile \notin Files
  /\ MaxRevision \in Nat /\ MaxFrames \in Nat \ {0}
  /\ RecolouredFrames \in 0..MaxFrames
  /\ IsFiniteSet(Workers)

VARIABLES
  scenario,  \* _scenario: an object, with an identity and a content
  path,      \* _scenario_path
  dirty,     \* _dirty
  batch,     \* _comparison_batch: the design and revision the results on show describe
  pending,   \* _pending_evaluation_launch
  autoSave,  \* _auto_save_after_worker
  frames,    \* handlers that wait for a dialog, the innermost last
  timers,    \* single-shot timers that run: "autosave", "plane"
  retry,     \* the load a timer is about to try again, with the SPD relinked
  closing,   \* _closing: the window accepted its close event
  job,       \* the function and arguments of each worker, and what it returned
  disk,      \* the scenario each file holds
  base       \* history: content and file of the last import, load or completed save

windowVars == <<scenario, path, dirty, batch, pending, autoSave,
                frames, timers, retry, closing, job, disk, base>>

vars == <<lifecycleVars, windowVars>>

Contents ==
  [design : Designs, revision : 0..MaxRevision, colour : Colours,
   captured : BOOLEAN]

ASSUME NoScenarioAssumption == NoScenario \notin Contents

Content(s) == [design |-> s.design, revision |-> s.revision,
               colour |-> s.colour, captured |-> s.captured]

\* Identities of scenario objects: a job, a request and every waiting handler
\* can refer to one, besides the window.
Ids == 1..(MaxFrames + Cardinality(Workers) + 2)

Scenario(id, c) ==
  [id |-> id, design |-> c.design, revision |-> c.revision,
   colour |-> c.colour, captured |-> c.captured]

Request(s, partial) == [scenario |-> s, partial |-> partial]

\* asked (history): the design the user was asked to discard.
Frame(k, r, f, asked) == [kind |-> k, request |-> r, file |-> f, asked |-> asked]

Job(k, s, f, asked) ==
  [kind |-> k, scenario |-> s, file |-> f, asked |-> asked, value |-> NoValue]

\* The scenario objects that are compared with the open one by identity: those
\* of a preflight, of the request it leaves and of a handler that waits with one.
Held ==
  {r.scenario : r \in {pending} \ {NoRequest}}
  \cup {job[w].scenario : w \in {v \in Workers : job[v] # NoJob
                                               /\ job[v].kind = "preflight"}}
  \cup {frames[i].request.scenario :
          i \in {j \in DOMAIN frames : frames[j].request # NoRequest}}

\* A new object is none of those.
FreshId == Min(Ids \ {s.id : s \in Held})

New(c) == Scenario(FreshId, c)

WindowInit ==
  /\ scenario = NoScenario
  /\ path = NoFile
  /\ dirty = FALSE
  /\ batch = NoValue
  /\ pending = NoRequest
  /\ autoSave = FALSE
  /\ frames = <<>>
  /\ timers = {}
  /\ retry = NoRequest
  /\ closing = FALSE
  /\ job = [w \in Workers |-> NoJob]
  /\ disk = [f \in Files |-> NoScenario]
  /\ base = [content |-> NoScenario, file |-> NoFile]

Init == LifecycleInit /\ WindowInit

-----------------------------------------------------------------------------
(* Shared parts of the handlers.                                           *)

\* _run_worker: refused while the slot is taken, and then nothing changes.
StartJob(j, c) ==
  \/ /\ worker # NoWorker
     /\ UNCHANGED <<lifecycleVars, job>>
  \/ \E w \in Workers :
       /\ RunWorker(w, c)
       /\ job' = [job EXCEPT ![w] = j]

\* Mutant: the controls stay enabled while a worker runs.
ControlsAlwaysEnabled == scenario # NoScenario

\* The edit, save and evaluate controls: _set_busy switches them off while the
\* slot is taken, and _refresh_all makes the same test.
ControlsEnabled == scenario # NoScenario /\ worker = NoWorker

Quiescent == UNCHANGED <<lifecycleVars, job>>

\* _invalidate_evaluation.
Invalidate == pending' = NoRequest /\ batch' = NoValue

\* Dialogs nest MaxFrames deep until the last revision is reached, and then one
\* deep; in a recoloured scenario they have a bound of their own.
FramesBound ==
  CASE scenario = NoScenario -> MaxFrames
    [] scenario # NoScenario /\ scenario.colour # SourceColour -> RecolouredFrames
    [] OTHER -> IF scenario.revision = MaxRevision THEN 1 ELSE MaxFrames

Push(f) ==
  frames' = IF Len(frames) < FramesBound THEN Append(frames, f) ELSE frames

Pop == frames' = SubSeq(frames, 1, Len(frames) - 1)

Innermost == frames[Len(frames)]

Waiting(k) == ~closing /\ frames # <<>> /\ Innermost.kind = k

\* The user can act.  The 25 ms before a failed load is tried again are too short
\* for that.
AtTopLevel == ~closing /\ frames = <<>> /\ retry = NoRequest

\* The parts of the window an action leaves alone.
document == <<scenario, path, dirty, base>>
evaluation == <<batch, pending, autoSave>>
environment == <<closing, disk, retry>>

-----------------------------------------------------------------------------
(* The user.                                                               *)

\* open_scenario and open_spd: a dirty document is discarded only if the user
\* says so, then a file is chosen.
AskOpen(k) ==
  /\ AtTopLevel
  /\ worker = NoWorker
  /\ Push(Frame(k, NoRequest, NoFile, IF dirty THEN scenario.design ELSE NoValue))
  /\ Quiescent
  /\ UNCHANGED <<document, evaluation, timers, environment>>

AnswerOpen(f) ==
  /\ Waiting("open")
  /\ Pop
  /\ StartJob(Job("load", NoScenario, f, Innermost.asked), TRUE)
  /\ UNCHANGED <<document, evaluation, timers, environment>>

AnswerImport ==
  /\ Waiting("import")
  /\ Pop
  /\ StartJob(Job("import", NoScenario, NoFile, Innermost.asked), TRUE)
  /\ UNCHANGED <<document, evaluation, timers, environment>>

\* The user closes a dialog or says No.
Dismiss ==
  /\ ~closing
  /\ frames # <<>>
  /\ Pop
  /\ Quiescent
  /\ UNCHANGED <<document, evaluation, timers, environment>>

\* save_scenario, to the current file or, asked for one, to another.
Save(f) ==
  /\ AtTopLevel
  /\ ControlsEnabled
  /\ StartJob(Job("save", Content(scenario), f, NoValue), FALSE)
  /\ UNCHANGED <<document, evaluation, frames, timers, environment>>

\* A board context menu, a model dialog: an edit that is begun and then made.
AskEdit(k) ==
  /\ AtTopLevel
  /\ ControlsEnabled
  /\ Push(Frame(k, NoRequest, NoFile, NoValue))
  /\ Quiescent
  /\ UNCHANGED <<document, evaluation, timers, environment>>

\* Mutant: an edit keeps the results on show.
AnswerEditKeepsResults(d) ==
  /\ Waiting("edit")
  /\ d # scenario.design
  /\ scenario.revision < MaxRevision
  /\ Pop
  /\ scenario' = New([Content(scenario) EXCEPT !.design = d, !.revision = @ + 1])
  /\ dirty' = TRUE
  /\ Quiescent
  /\ UNCHANGED <<path, base, evaluation, timers, environment>>

\* _commit_atomic_edit and add_decap_model, on the scenario that is open when the
\* menu or the dialog is answered.
AnswerEdit(d) ==
  /\ Waiting("edit")
  /\ d # scenario.design
  /\ scenario.revision < MaxRevision
  /\ Pop
  /\ scenario' = New([Content(scenario) EXCEPT !.design = d, !.revision = @ + 1])
  /\ dirty' = TRUE
  /\ Invalidate
  /\ Quiescent
  /\ UNCHANGED <<path, base, autoSave, timers, environment>>

\* _choose_net_color_for_net: no new revision.  The results stay on show, unless
\* they cannot be drawn again.
AnswerColour(c) ==
  /\ Waiting("colour")
  /\ Pop
  /\ scenario' = New([Content(scenario) EXCEPT !.colour = c])
  /\ dirty' = TRUE
  /\ \/ UNCHANGED <<pending, batch>>
     \/ batch # NoValue /\ Invalidate
  /\ Quiescent
  /\ UNCHANGED <<path, base, autoSave, timers, environment>>

\* _selection_changed replaces the object and nothing a fingerprint covers.
Select ==
  /\ AtTopLevel
  /\ worker = NoWorker
  /\ scenario # NoScenario
  /\ scenario' = New(Content(scenario))
  /\ Quiescent
  /\ UNCHANGED <<path, dirty, base, evaluation, frames, timers, environment>>

\* run_evaluation starts the preflight of the scenario as it is now.
RunEvaluation ==
  /\ AtTopLevel
  /\ ControlsEnabled
  /\ pending' = NoRequest
  /\ StartJob(Job("preflight", scenario, NoFile, NoValue), TRUE)
  /\ UNCHANGED <<document, batch, autoSave, frames, timers, environment>>

\* "Run a partial Evaluation Analysis?" answered Yes: the rest of
\* _accept_evaluation_preflight.
AnswerPartial ==
  /\ Waiting("partial")
  /\ Pop
  /\ pending' = Innermost.request
  /\ Quiescent
  /\ UNCHANGED <<document, batch, autoSave, timers, environment>>

\* The job of a request whose baseline captures were taken.
EvaluateJob(r) ==
  Job("evaluate", [Content(r.scenario) EXCEPT !.captured = TRUE], NoFile, NoValue)

\* The rest of _launch_evaluation_after_preflight once the user confirmed the
\* baseline capture and named a file for a scenario that has none.
AnswerLaunch(f) ==
  /\ Waiting("launch")
  /\ path # NoFile => f = path
  /\ LET r == Innermost.request IN
       /\ IF r.partial THEN Invalidate ELSE UNCHANGED <<pending, batch>>
       /\ StartJob(EvaluateJob(r), TRUE)
  /\ Pop
  /\ path' = f
  /\ UNCHANGED <<scenario, dirty, base, autoSave, timers, environment>>

\* The exact SPD was located after a failed load: the load is tried again from
\* a timer, and nothing is asked about the document.
AnswerRelink ==
  /\ Waiting("relink")
  /\ Pop
  /\ retry' = [file |-> Innermost.file, asked |-> Innermost.asked]
  /\ Quiescent
  /\ UNCHANGED <<document, evaluation, timers, closing, disk>>

Cancel ==
  /\ AtTopLevel
  /\ CancelWorker
  /\ UNCHANGED windowVars

\* closeEvent.  A running operation keeps the window open (and may be cancelled,
\* which is Cancel); a dirty document asks first.
Close ==
  /\ AtTopLevel
  /\ worker = NoWorker
  /\ IF dirty
       THEN Push(Frame("close", NoRequest, NoFile, NoValue)) /\ UNCHANGED closing
       ELSE closing' = TRUE /\ UNCHANGED frames
  /\ Quiescent
  /\ UNCHANGED <<document, evaluation, timers, retry, disk>>

AnswerClose ==
  /\ Waiting("close")
  /\ Pop
  /\ closing' = TRUE
  /\ Quiescent
  /\ UNCHANGED <<document, evaluation, timers, retry, disk>>

-----------------------------------------------------------------------------
(* Timers: they fire in whatever event loop is running.                    *)

\* _auto_save_scenario.
FireAutoSave(f) ==
  /\ ~closing
  /\ "autosave" \in timers
  /\ path # NoFile => f = path
  /\ timers' = timers \ {"autosave"}
  /\ StartJob(Job("autosave", Content(scenario), f, NoValue), FALSE)
  /\ UNCHANGED <<document, evaluation, frames, environment>>

FireRelink ==
  /\ ~closing
  /\ retry # NoRequest
  /\ retry' = NoRequest
  /\ StartJob(Job("relink", NoScenario, retry.file, retry.asked), TRUE)
  /\ UNCHANGED <<document, evaluation, frames, timers, closing, disk>>

\* _start_plane_layer_load, for a layer the user shows, or from the timer that
\* looks for the next missing layer.
LoadPlaneLayer ==
  /\ ~closing
  /\ scenario # NoScenario
  /\ worker = NoWorker
  /\ \/ AtTopLevel /\ UNCHANGED timers
     \/ "plane" \in timers /\ timers' = timers \ {"plane"}
  /\ StartJob(Job("plane", NoScenario, NoFile, NoValue), TRUE)
  /\ UNCHANGED <<document, evaluation, frames, environment>>

\* _load_next_missing_plane_layer holds back while the slot is taken, and finds
\* every visible layer loaded in the end.
SkipPlaneLayer ==
  /\ ~closing
  /\ "plane" \in timers
  /\ timers' = timers \ {"plane"}
  /\ Quiescent
  /\ UNCHANGED <<document, evaluation, frames, environment>>

-----------------------------------------------------------------------------
(* The handlers of a result, run by the event loop that delivers it.       *)

LoadKinds == {"load", "relink"}
DocumentKinds == {"load", "relink", "import"}

\* _accept_scenario_bundle and _accept_spd_import.
AcceptDocument(j) ==
  /\ j.kind \in DocumentKinds
  /\ scenario' = New(j.value.content)
  /\ path' = j.file
  /\ dirty' = (j.kind = "relink" \/ j.value.recovered)
  /\ base' = [content |-> j.value.content, file |-> j.file]
  /\ Invalidate
  /\ timers' = timers \cup {"plane"}
  /\ UNCHANGED <<autoSave, frames>>

\* Mutant: a completed save always leaves a clean document.
AcceptSavedAlwaysClean(j) ==
  /\ j.kind \in {"save", "autosave"}
  /\ path' = j.file
  /\ dirty' = FALSE
  /\ base' = [content |-> j.scenario, file |-> j.file]
  /\ UNCHANGED <<scenario, evaluation, frames, timers>>

\* _scenario_saved: the document is clean if the design and the revision are
\* still those that were written.
AcceptSaved(j) ==
  /\ j.kind \in {"save", "autosave"}
  /\ path' = j.file
  /\ dirty' = (j.scenario.design # scenario.design
               \/ j.scenario.revision # scenario.revision)
  /\ base' = [content |-> j.scenario, file |-> j.file]
  /\ UNCHANGED <<scenario, evaluation, frames, timers>>

\* _accept_evaluation_preflight.
AcceptPreflight(j) ==
  /\ j.kind = "preflight"
  /\ IF scenario.id # j.scenario.id
       THEN UNCHANGED <<batch, pending, frames>>
       ELSE \/ /\ j.value = "blocked"
               /\ Invalidate
               /\ UNCHANGED frames
            \/ /\ j.value = "partial"
               /\ Push(Frame("partial", Request(j.scenario, TRUE), NoFile, NoValue))
               /\ UNCHANGED <<batch, pending>>
            \/ /\ j.value = "clear"
               /\ pending' = Request(j.scenario, FALSE)
               /\ UNCHANGED <<batch, frames>>
  /\ UNCHANGED <<document, autoSave, timers>>

\* Mutant: a batch of any revision matches.
MatchesDesign(j) == scenario.design = j.scenario.design

\* ScenarioEvaluationBatch.matches.
Matches(j) ==
  /\ scenario.design = j.scenario.design
  /\ scenario.revision = j.scenario.revision

\* _accept_evaluation.
AcceptEvaluation(j) ==
  /\ j.kind = "evaluate"
  /\ IF Matches(j) /\ j.value.converged
       THEN /\ scenario' = New(j.value.content)
            /\ dirty' = (dirty \/ j.value.content # Content(scenario))
            /\ autoSave' = dirty'
            /\ batch' = [design |-> j.value.content.design,
                          revision |-> j.value.content.revision]
                      /\ UNCHANGED pending
       ELSE /\ Invalidate
            /\ autoSave' = IF Matches(j) THEN FALSE ELSE autoSave
            /\ UNCHANGED <<scenario, dirty>>
  /\ UNCHANGED <<path, base, frames, timers>>

\* _accept_plane_layer_cells draws, in timed chunks, and then looks for the next
\* missing layer; it leaves the document alone.
AcceptPlane(j) ==
  /\ j.kind = "plane"
  /\ timers' = timers \cup {"plane"}
  /\ UNCHANGED <<document, evaluation, frames>>

OnResult(j) ==
  \/ AcceptDocument(j)
  \/ AcceptSaved(j)
  \/ AcceptPreflight(j)
  \/ AcceptEvaluation(j)
  \/ AcceptPlane(j)

\* Mutant: accept_result makes no test.
WindowResultAnyway ==
  /\ ~closing
  /\ DeliverResult
  /\ OnResult(job[Head(posted).worker])
  /\ job' = [job EXCEPT ![Head(posted).worker].value = NoValue]
  /\ UNCHANGED environment

WindowResult ==
  /\ ~closing
  /\ DeliverResult
  /\ IF AcceptsResult
       THEN OnResult(job[Head(posted).worker])
       ELSE UNCHANGED <<document, evaluation, frames, timers>>
  /\ job' = [job EXCEPT ![Head(posted).worker].value = NoValue]
  /\ UNCHANGED environment

\* _worker_failed, _scenario_load_error, and the handler of a failed autosave.
WindowError ==
  /\ ~closing
  /\ DeliverError
  /\ LET j == job[Head(posted).worker] IN
       /\ IF ~cancelRequested /\ j.kind \in LoadKinds /\ j.value = "relocatable"
            THEN Push(Frame("relink", NoRequest, j.file, j.asked))
            ELSE UNCHANGED frames
       /\ IF ~cancelRequested /\ j.kind = "autosave"
            THEN dirty' = TRUE
            ELSE UNCHANGED dirty
  /\ job' = [job EXCEPT ![Head(posted).worker].value = NoValue]
  /\ UNCHANGED <<scenario, path, base, evaluation, timers, environment>>

\* _worker_finished, and the evaluation it chains to an uncancelled preflight:
\* at once, or after the dialogs of _launch_evaluation_after_preflight.
Launches ==
  /\ ~cancelRequested
  /\ pending # NoRequest
  /\ scenario.id = pending.scenario.id

FinishAndEvaluate ==
  /\ Launches
  /\ path # NoFile
  /\ \E w \in Workers :
       /\ DeliverFinishedAndRun(w, TRUE)
       /\ job' = [job EXCEPT ![Head(posted).worker] = NoJob,
                             ![w] = EvaluateJob(pending)]
  /\ batch' = IF pending.partial THEN NoValue ELSE batch
  /\ UNCHANGED frames

FinishAndWait ==
  /\ DeliverFinished
  /\ job' = [job EXCEPT ![Head(posted).worker] = NoJob]
  /\ \/ Launches /\ Push(Frame("launch", pending, NoFile, NoValue))
     \/ UNCHANGED frames
  /\ UNCHANGED batch

WindowFinished ==
  /\ ~closing
  /\ NextSignal("finished")
  /\ FinishAndEvaluate \/ FinishAndWait
  /\ pending' = NoRequest
  /\ autoSave' = FALSE
  /\ \E more \in {{}, {"plane"}} :
       timers' = timers \cup
         (IF scenario # NoScenario THEN more ELSE {}) \cup
         (IF autoSave /\ ~cancelRequested /\ scenario # NoScenario /\ path # NoFile
            THEN {"autosave"} ELSE {})
  /\ UNCHANGED <<document, environment>>

-----------------------------------------------------------------------------
(* The functions the workers run.                                          *)

\* What a function may return.  A load reads the file; a save has replaced it
\* when it returns; an evaluation adds the captures and may take one revision.
Returned(j) ==
  CASE j.kind \in LoadKinds ->
         {[content |-> disk[f], recovered |-> r] :
            f \in {g \in {j.file} : disk[g] # NoScenario}, r \in BOOLEAN}
    [] j.kind = "import" ->
         {[content |-> [design |-> SourceDesign, revision |-> 0,
                        colour |-> SourceColour, captured |-> FALSE],
           recovered |-> FALSE]}
    [] j.kind = "preflight" -> {"clear", "partial", "blocked"}
    [] j.kind = "evaluate" ->
         {[content |-> [j.scenario EXCEPT !.revision = @ + n],
           converged |-> c] :
            n \in {i \in {0, 1} : j.scenario.revision + i <= MaxRevision},
            c \in BOOLEAN}
    [] OTHER -> {NoValue}

WindowReturns(w) ==
  /\ FunctionReturns(w)
  /\ \E v \in Returned(job[w]) : job' = [job EXCEPT ![w].value = v]
  /\ disk' = IF job[w].kind \in {"save", "autosave"}
             THEN [disk EXCEPT ![job[w].file] = job[w].scenario]
             ELSE disk
  /\ UNCHANGED <<document, evaluation, frames, timers, retry, closing>>

\* A load fails in a way the user can repair by locating the SPD, or not.
WindowRaises(w) ==
  /\ FunctionRaises(w)
  /\ \E v \in IF job[w].kind \in LoadKinds THEN {"relocatable", NoValue} ELSE {NoValue} :
       job' = [job EXCEPT ![w].value = v]
  /\ UNCHANGED <<document, evaluation, frames, timers, environment>>

WindowPool(w) ==
  \/ WindowReturns(w)
  \/ WindowRaises(w)
  \/ /\ PoolStarts(w) \/ EmitResult(w) \/ EmitFinished(w)
     /\ UNCHANGED windowVars

-----------------------------------------------------------------------------
Next ==
  \/ \E k \in {"open", "import"} : AskOpen(k)
  \/ \E f \in Files : AnswerOpen(f)
  \/ AnswerImport
  \/ Dismiss
  \/ \E f \in Files : Save(f)
  \/ \E k \in {"edit", "colour"} : AskEdit(k)
  \/ \E d \in Designs : AnswerEdit(d)
  \/ \E c \in Colours : AnswerColour(c)
  \/ Select
  \/ RunEvaluation
  \/ AnswerPartial
  \/ \E f \in Files : AnswerLaunch(f)
  \/ AnswerRelink
  \/ Cancel
  \/ Close
  \/ AnswerClose
  \/ \E f \in Files : FireAutoSave(f)
  \/ FireRelink
  \/ LoadPlaneLayer
  \/ SkipPlaneLayer
  \/ WindowResult
  \/ WindowError
  \/ WindowFinished
  \/ \E w \in Workers : WindowPool(w)

Spec == Init /\ [][Next]_vars

-----------------------------------------------------------------------------
(* Correctness.                                                            *)

ScenarioObjects ==
  [id : Ids, design : Designs, revision : 0..MaxRevision, colour : Colours,
   captured : BOOLEAN]

Requests == [scenario : ScenarioObjects, partial : BOOLEAN]

JobKinds ==
  {"load", "relink", "import", "save", "autosave", "preflight", "evaluate", "plane"}

FrameKinds ==
  {"open", "import", "edit", "colour", "close", "partial", "launch", "relink"}

JobOK(j) ==
  /\ j.kind \in JobKinds
  /\ j.scenario \in (CASE j.kind = "preflight" -> ScenarioObjects
                       [] j.kind \in {"save", "autosave", "evaluate"} -> Contents
                       [] OTHER -> {NoScenario})
  /\ j.file \in Files \cup {NoFile}
  /\ j.asked \in Designs \cup {NoValue}

FrameOK(f) ==
  /\ f.kind \in FrameKinds
  /\ f.request \in Requests \cup {NoRequest}
  /\ f.file \in Files \cup {NoFile}
  /\ f.asked \in Designs \cup {NoValue}

TypeOK ==
  /\ LifecycleTypeOK
  /\ scenario \in ScenarioObjects \cup {NoScenario}
  /\ path \in Files \cup {NoFile}
  /\ {dirty, autoSave, closing} \subseteq BOOLEAN
  /\ batch \in [design : Designs, revision : 0..MaxRevision] \cup {NoValue}
  /\ pending \in Requests \cup {NoRequest}
  /\ \A i \in DOMAIN frames : FrameOK(frames[i])
  /\ timers \subseteq {"autosave", "plane"}
  /\ retry \in [file : Files, asked : Designs \cup {NoValue}] \cup {NoRequest}
  /\ \A w \in Workers : job[w] = NoJob \/ JobOK(job[w])
  /\ disk \in [Files -> Contents \cup {NoScenario}]

\* What a fingerprint or the revision covers, and the baseline captures.
Design(c) == <<c.design, c.revision, c.captured>>

\* A document that is not dirty has nothing to lose: its design, revision and
\* captures are those of the last import, load or completed save and, when that
\* was a file, the open file holds them.
CleanMeansStored ==
  scenario # NoScenario /\ ~dirty =>
    /\ Design(scenario) = Design(base.content)
    /\ base.file # NoFile =>
         /\ path = base.file
         /\ disk[path] # NoScenario
         /\ Design(disk[path]) = Design(scenario)

\* The same for the NET colours, which the file holds too.
CleanMeansColoursStored ==
  scenario # NoScenario /\ ~dirty => scenario.colour = base.content.colour

\* Results on show describe the design that is open.
ResultsDescribeDesign ==
  batch # NoValue =>
    /\ batch.design = scenario.design
    /\ batch.revision = scenario.revision

\* The result being delivered is one the window accepts.
Accepting == NextSignal("result") /\ AcceptsResult /\ posted' = Tail(posted)

Delivered == job[Head(posted).worker]

\* No document replaces another one that holds a design nobody else has, unless
\* the user was asked about that very design.
ReplacesOnlyWithConsent ==
  [][Accepting /\ Delivered.kind \in DocumentKinds
     /\ scenario # NoScenario /\ scenario.design # base.content.design
       => Delivered.asked = scenario.design]_vars

\* The result of an evaluation is merged into the design it was computed from: the
\* open design stays, its revision never goes back, and no capture is lost, however
\* many edits, loads and saves came in between.  A NET colour is not protected: it may
\* become that of the evaluated scenario again, since "matches" does not compare it
\* and the whole scenario is replaced; but no third colour appears.
EvaluationKeepsDesign ==
  [][Accepting /\ Delivered.kind = "evaluate"
       => /\ scenario'.design = scenario.design
          /\ scenario'.revision >= scenario.revision
          /\ scenario.captured => scenario'.captured
          /\ scenario'.colour \in {scenario.colour, Delivered.scenario.colour}]_vars

\* Nothing a cancelled worker still reports touches the document or the results.
CancelledLeavesDocument ==
  [][cancelRequested /\ posted # <<>> /\ posted' = Tail(posted)
       => UNCHANGED <<document, batch, disk>>]_vars

\* The deferred evaluation waits for the finished signal of a worker that is
\* still in the slot: "The preflight worker still owns the busy state while its
\* result signal is being handled" (main_window.py:7978-7981).
PendingLaunchHasCarrier == pending # NoRequest => worker # NoWorker

\* The window never closes over a running operation: "Wait for it to finish
\* before closing the window" (main_window.py:8618-8623).  The code does not
\* keep it: nothing tests the slot again after the Discard question.
ClosesOnlyWhenIdle == closing => worker = NoWorker

\* The window keeps the worker slot as WorkerLifecycle says.
KeepsLifecycle == LifecycleInit /\ [][LifecycleNext]_lifecycleVars
=============================================================================
