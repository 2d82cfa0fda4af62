--------------------------- MODULE DistributionPanel ---------------------------
(***************************************************************************)
(* The De-cap Distribution panel of the main window (gui/main_window.py): a *)
(* table of target counts for the open scenario, a plan the optimizer      *)
(* computes for them through the worker slot, and the three things done    *)
(* with a plan: show it, apply it, save what it would give.                *)
(*                                                                         *)
(* The plan is offered for a scenario and for a request, and both move on  *)
(* while it is computed and while it is on show.  The table as a whole is  *)
(* one value; the optimizer is any function that returns a plan.  How the  *)
(* rest of the window gets to a document is in MainWindow, which says when *)
(* the user is asked before one is replaced.                               *)
(***************************************************************************)
EXTENDS WorkerLifecycle

CONSTANTS
  Designs,       \* design fingerprints
  SourceDesign,  \* the design an SPD import starts from
  Matrices,      \* what a table of targets and tolerances can hold
  Present,       \* the table that asks for no change, of each design
  Options,       \* candidate order, optimization policy, routing protection
  DefaultOption,
  Files,
  MaxRevision,   \* bound on the revision counter
  NoScenario, NoFile, NoPlan, NoMatrix, NoDialog, NoJob

ASSUME PanelAssumption ==
  /\ SourceDesign \in Designs
  /\ Present \in [Designs -> Matrices]
  /\ NoMatrix \notin Matrices
  /\ NoScenario \notin [design : Designs, revision : Nat]
  /\ DefaultOption \in Options
  /\ NoFile \notin Files
  /\ MaxRevision \in Nat

VARIABLES
  scenario,     \* _scenario
  path,         \* _scenario_path
  dirty,        \* _dirty
  batch,        \* _comparison_batch: the scenario the results on show describe
  autoSave,     \* "pending": _auto_save_after_worker; "timer": its timer runs
  disk,         \* the scenario in each file
  basis,        \* _distribution_basis_fingerprint
  targets,      \* _distribution_targets and _distribution_tolerances
  invalid,      \* a cell holds a text that is no number
  option,       \* the combo boxes and the routing controls
  plan,         \* _distribution_plan, with its preview scenario
  editor,       \* a cell of the table is being edited
  fill,         \* pending _fill_selected_distribution_targets_after_commit: "none",
                \* "live", or "dead" if the cells it would fill are gone
  dialog,       \* a file dialog of the panel, and what is to be saved
  job,
  own,          \* history: the file of the last load or completed save
  typed,        \* history: somebody typed into this table, or imported one
  overwritten   \* history: the user saved an unapplied plan over the document's file

document == <<scenario, path, dirty, batch, autoSave>>
table == <<basis, targets, invalid, option, plan, editor, fill, typed>>
storage == <<disk, own, overwritten>>
panelVars == <<document, table, storage, dialog, job>>
vars == <<lifecycleVars, panelVars>>

Contents == [design : Designs, revision : 0..MaxRevision]

Requests == [targets : Matrices, option : Options]

\* request is history: what the plan was asked for.
Plans == [input : Contents, output : Contents, request : Requests]

JobKinds == {"plan", "document", "save", "evaluate", "plane"}

Jobs ==
  [kind : JobKinds, content : Contents \cup {NoScenario}, file : Files \cup {NoFile},
   current : BOOLEAN, request : Requests \cup {NoMatrix}, value : Plans \cup {NoPlan}]

Job(k, c, f) ==
  [kind |-> k, content |-> c, file |-> f, current |-> TRUE,
   request |-> NoMatrix, value |-> NoPlan]

Dialogs == [kind : {"targets"}]
             \cup [kind : {"save"}, content : Contents, own : BOOLEAN]

Init ==
  /\ LifecycleInit
  /\ scenario = NoScenario
  /\ path = NoFile
  /\ dirty = FALSE
  /\ batch = NoScenario
  /\ autoSave = "no"
  /\ disk = [f \in Files |-> NoScenario]
  /\ basis = NoScenario
  /\ targets = NoMatrix
  /\ invalid = FALSE
  /\ option = DefaultOption
  /\ plan = NoPlan
  /\ editor = FALSE
  /\ fill = "none"
  /\ dialog = NoDialog
  /\ job = [w \in Workers |-> NoJob]
  /\ own = NoFile
  /\ typed = FALSE
  /\ overwritten = FALSE

-----------------------------------------------------------------------------
(* Shared parts of the handlers.                                           *)

AtTopLevel == dialog = NoDialog

Loaded == AtTopLevel /\ scenario # NoScenario /\ worker = NoWorker

Quiescent == UNCHANGED <<lifecycleVars, job>>

\* _run_worker, which refuses while the slot is taken.
StartJob(j, c) ==
  \/ worker # NoWorker /\ Quiescent
  \/ \E w \in Workers : RunWorker(w, c) /\ job' = [job EXCEPT ![w] = j]

\* Cells that are replaced take a pending fill of them along.
DropCells ==
  /\ fill' = IF fill = "live" THEN "dead" ELSE fill
  /\ editor' = FALSE

\* _populate_distribution_table.
Populate(d) ==
  /\ basis' = d
  /\ targets' = Present[d]
  /\ invalid' = FALSE
  /\ plan' = NoPlan
  /\ typed' = FALSE
  /\ DropCells

\* _refresh_distribution_tab, for a scenario of design d.
Refresh(d) ==
  IF d = basis
  THEN UNCHANGED <<basis, targets, invalid, plan, typed, fill, editor>>
  ELSE Populate(d)

Request == [targets |-> targets, option |-> option]

\* apply_distribution_plan: the scenario, or NoScenario for one it refuses.
Applied(s, p) == IF s = p.input THEN p.output ELSE NoScenario

-----------------------------------------------------------------------------
(* The table.                                                              *)

OpenEditor ==
  /\ Loaded
  /\ ~editor
  /\ editor' = TRUE
  /\ Quiescent
  /\ UNCHANGED <<document, basis, targets, invalid, option, plan, fill, typed,
                 storage, dialog>>

\* _distribution_targets_edited.
Edited == plan' = NoPlan

\* _apply_distribution_target_text: a text that is no number changes no target.
EnterText ==
  /\ \/ \E t \in Matrices : targets' = t /\ invalid' \in {FALSE, invalid}
     \/ invalid' = TRUE /\ UNCHANGED targets
  /\ Edited

\* An editor commits when it loses the focus, which it does when the table is
\* switched off because an operation starts; nothing tests the slot.  A text that
\* is not new to its cell is put into the other selected cells by a timer.
CommitEditor ==
  /\ AtTopLevel
  /\ editor
  /\ editor' = FALSE
  /\ typed' = TRUE
  /\ \/ EnterText /\ UNCHANGED fill
     \/ fill' = "live" /\ UNCHANGED <<targets, invalid, plan>>
     \/ UNCHANGED <<targets, invalid, plan, fill>>
  /\ Quiescent
  /\ UNCHANGED <<document, basis, option, storage, dialog>>

\* Mutant: the timer writes into the cells that are there now.
FireFillAnyway ==
  /\ fill # "none"
  /\ fill' = "none"
  /\ EnterText
  /\ Quiescent
  /\ UNCHANGED <<document, basis, option, editor, typed, storage, dialog>>

FireFill ==
  /\ fill # "none"
  /\ fill' = "none"
  /\ \/ fill = "live" /\ EnterText
     \/ UNCHANGED <<targets, invalid, plan>>
  /\ Quiescent
  /\ UNCHANGED <<document, basis, option, editor, typed, storage, dialog>>

\* _distribution_detached_batch_committed: the detached window is disabled while
\* an operation runs, and the owner tests the slot.
EditDetached ==
  /\ Loaded
  /\ EnterText
  /\ typed' = TRUE
  /\ Quiescent
  /\ UNCHANGED <<document, basis, option, editor, fill, storage, dialog>>

\* _distribution_option_changed and its two siblings for the routing controls.
ChooseOption(o) ==
  /\ Loaded
  /\ o # option
  /\ option' = o
  /\ plan' = NoPlan
  /\ Quiescent
  /\ UNCHANGED <<document, basis, targets, invalid, editor, fill, typed, storage,
                 dialog>>

\* _import_distribution_targets.
AskTargets ==
  /\ Loaded
  /\ dialog' = [kind |-> "targets"]
  /\ Quiescent
  /\ UNCHANGED <<document, table, storage>>

AnswerTargets(t, o) ==
  /\ dialog # NoDialog
  /\ dialog.kind = "targets"
  /\ dialog' = NoDialog
  /\ targets' = t
  /\ option' = o
  /\ invalid' = FALSE
  /\ plan' = NoPlan
  /\ typed' = TRUE
  /\ Quiescent
  /\ UNCHANGED <<document, basis, editor, fill, storage>>

-----------------------------------------------------------------------------
(* The plan.                                                               *)

\* _calculate_distribution: the preview that is on show stays.
Calculate ==
  /\ Loaded
  /\ ~invalid
  /\ targets # Present[basis]
  /\ scenario.revision < MaxRevision
  /\ StartJob([Job("plan", scenario, NoFile) EXCEPT !.request = Request], TRUE)
  /\ UNCHANGED <<document, table, storage, dialog>>

\* Mutant: the result is not compared with the request.
AcceptPlanAnyway(j) ==
  /\ j.kind = "plan"
  /\ plan' = IF j.value.input = scenario THEN j.value ELSE plan
  /\ UNCHANGED <<document, basis, targets, invalid, option, editor, fill, typed,
                 storage>>

\* _accept_distribution_plan_if_current and _accept_distribution_plan.
AcceptPlan(j) ==
  /\ j.kind = "plan"
  /\ plan' = IF /\ j.request = Request
                /\ j.content = scenario
                /\ j.value.input = scenario
             THEN j.value
             ELSE plan
  /\ UNCHANGED <<document, basis, targets, invalid, option, editor, fill, typed,
                 storage>>

\* Mutant: the results of the last evaluation stay on show.
ApplyKeepsResults ==
  /\ Loaded
  /\ plan # NoPlan
  /\ plan.input.design = basis
  /\ Applied(scenario, plan) # NoScenario
  /\ scenario' = Applied(scenario, plan)
  /\ dirty' = TRUE
  /\ basis' = scenario'.design
  /\ invalid' = FALSE
  /\ DropCells
  /\ Quiescent
  /\ UNCHANGED <<path, batch, autoSave, targets, option, plan, typed, storage, dialog>>

\* _apply_distribution_preview: a plan of another scenario is dropped; a plan that
\* changes nothing cannot be applied.  The table keeps what was asked for.
Apply ==
  /\ Loaded
  /\ plan # NoPlan
  /\ plan.input.design = basis
  /\ plan.output.design # scenario.design
  /\ \/ /\ Applied(scenario, plan) = NoScenario
        /\ plan' = NoPlan
        /\ UNCHANGED <<document, basis, targets, invalid, editor, fill>>
     \/ /\ Applied(scenario, plan) # NoScenario
        /\ scenario' = Applied(scenario, plan)
        /\ dirty' = TRUE
        /\ batch' = NoScenario
        /\ basis' = scenario'.design
        /\ invalid' = FALSE
        /\ DropCells
        /\ UNCHANGED <<path, autoSave, targets, plan>>
  /\ Quiescent
  /\ UNCHANGED <<option, typed, storage, dialog>>

\* Mutant: the scenario of the preview, whatever became of the document.
PreviewAsComputed == {plan.output}

\* What _save_distribution_scenario would write: the plan applied again, or the
\* scenario it was applied to; nothing if the document moved on.
ToSave ==
  IF scenario = plan.input /\ plan.input # plan.output
  THEN {Applied(scenario, plan)} \ {NoScenario}
  ELSE IF scenario = plan.output THEN {scenario} ELSE {}

\* own: it is the object of the open document that is saved, not another one that
\* may be equal to it.
AskSave ==
  /\ Loaded
  /\ plan # NoPlan
  /\ \E c \in ToSave, o \in BOOLEAN :
       /\ o => c = scenario
       /\ plan.input # plan.output => o = (c = scenario)
       /\ dialog' = [kind |-> "save", content |-> c, own |-> o]
  /\ Quiescent
  /\ UNCHANGED <<document, table, storage>>

AnswerSave(f) ==
  /\ dialog # NoDialog
  /\ dialog.kind = "save"
  /\ dialog' = NoDialog
  /\ StartJob([Job("save", dialog.content, f) EXCEPT !.current = dialog.own], FALSE)
  /\ UNCHANGED <<document, table, storage>>

Dismiss ==
  /\ dialog # NoDialog
  /\ dialog' = NoDialog
  /\ Quiescent
  /\ UNCHANGED <<document, table, storage>>

-----------------------------------------------------------------------------
(* The rest of the window, as far as the panel can tell.                   *)

\* An edit of the board.
Edit(d) ==
  /\ Loaded
  /\ d # scenario.design
  /\ scenario.revision < MaxRevision
  /\ scenario' = [design |-> d, revision |-> scenario.revision + 1]
  /\ dirty' = TRUE
  /\ batch' = NoScenario
  /\ Refresh(d)
  /\ Quiescent
  /\ UNCHANGED <<path, autoSave, option, storage, dialog>>

\* open_scenario and open_spd.
OpenDocument(f) ==
  /\ AtTopLevel
  /\ worker = NoWorker
  /\ StartJob(Job("document", NoScenario, f), TRUE)
  /\ UNCHANGED <<document, table, storage, dialog>>

\* save_scenario.
Save(f) ==
  /\ Loaded
  /\ StartJob(Job("save", scenario, f), FALSE)
  /\ UNCHANGED <<document, table, storage, dialog>>

\* run_evaluation, with its preflight; a document without a file gets one.
Evaluate(f) ==
  /\ Loaded
  /\ path # NoFile => f = path
  /\ StartJob(Job("evaluate", scenario, NoFile), TRUE)
  /\ path' = f
  /\ UNCHANGED <<scenario, dirty, batch, autoSave, table, storage, dialog>>

\* A layer of the plane artwork; a timer may ask for it.
LoadPlane ==
  /\ scenario # NoScenario
  /\ worker = NoWorker
  /\ StartJob(Job("plane", NoScenario, NoFile), TRUE)
  /\ UNCHANGED <<document, table, storage, dialog>>

\* The timer of _auto_save_scenario, which fires under a dialog too.
FireAutoSave(f) ==
  /\ autoSave = "timer"
  /\ path # NoFile => f = path
  /\ autoSave' = "no"
  /\ StartJob(Job("save", scenario, f), FALSE)
  /\ UNCHANGED <<scenario, path, dirty, batch, table, storage, dialog>>

Cancel ==
  /\ AtTopLevel
  /\ CancelWorker
  /\ UNCHANGED panelVars

-----------------------------------------------------------------------------
(* Worker signals.                                                         *)

\* _reset_document_view_state with _reset_distribution_state, and _refresh_all.
AcceptDocument(j) ==
  /\ j.kind = "document"
  /\ scenario' = j.content
  /\ path' = j.file
  /\ dirty' \in IF j.file = NoFile THEN {FALSE} ELSE BOOLEAN
  /\ batch' = NoScenario
  /\ Populate(j.content.design)
  /\ option' = DefaultOption
  /\ own' = j.file
  /\ overwritten' = FALSE
  /\ UNCHANGED <<autoSave, disk>>

\* Mutant: a distributed scenario that was saved is the document from now on.
AcceptSavedAnyway(j) ==
  /\ j.kind = "save"
  /\ path' = j.file
  /\ dirty' = FALSE
  /\ own' = j.file
  /\ overwritten' = FALSE
  /\ UNCHANGED <<scenario, batch, autoSave, table, disk>>

\* _scenario_saved for the open document; a plan that is not applied leaves it alone.
AcceptSaved(j) ==
  /\ j.kind = "save"
  /\ IF j.current
     THEN /\ path' = j.file
          /\ dirty' = (j.content # scenario)
          /\ own' = j.file
          /\ overwritten' = FALSE
     ELSE UNCHANGED <<path, dirty, own, overwritten>>
  /\ UNCHANGED <<scenario, batch, autoSave, table, disk>>

\* _accept_evaluation: new captures take a revision and no design.
AcceptEvaluation(j) ==
  /\ j.kind = "evaluate"
  /\ \/ /\ \E n \in {0, 1} :
             /\ scenario.revision + n <= MaxRevision
             /\ scenario' = [scenario EXCEPT !.revision = @ + n]
             /\ dirty' \in {dirty, TRUE} \cap (IF n = 1 THEN {TRUE} ELSE BOOLEAN)
        /\ batch' = scenario'
        /\ autoSave' = IF dirty' THEN "pending" ELSE "no"
     \/ batch' = NoScenario /\ UNCHANGED <<scenario, dirty, autoSave>>
  /\ Refresh(scenario'.design)
  /\ UNCHANGED <<path, option, storage>>

AcceptPlane(j) == j.kind = "plane" /\ UNCHANGED <<document, table, storage>>

PanelResult ==
  /\ DeliverResult
  /\ LET j == job[Head(posted).worker] IN
       IF AcceptsResult
       THEN \/ AcceptPlan(j)
            \/ AcceptDocument(j)
            \/ AcceptSaved(j)
            \/ AcceptEvaluation(j)
            \/ AcceptPlane(j)
       ELSE UNCHANGED <<document, table, storage>>
  /\ UNCHANGED <<dialog, job>>

PanelError ==
  /\ DeliverError
  /\ UNCHANGED panelVars

PanelFinished ==
  /\ DeliverFinished
  /\ autoSave' = IF autoSave = "pending"
                 THEN IF cancelRequested \/ path = NoFile THEN "no" ELSE "timer"
                 ELSE autoSave
  /\ job' = [job EXCEPT ![Head(posted).worker] = NoJob]
  /\ UNCHANGED <<scenario, path, dirty, batch, table, storage, dialog>>

-----------------------------------------------------------------------------
(* The functions the workers run.                                          *)

\* _job_compute_distribution: a plan that moves a decap takes a revision.  One that
\* moves none takes none, and its power projection may still change the design.
ComputedPlans(j) ==
  {[input |-> j.content, request |-> j.request,
    output |-> [design |-> d, revision |-> j.content.revision + n]] :
     d \in Designs, n \in {0, 1}}
    \ {[input |-> j.content, request |-> j.request,
        output |-> [j.content EXCEPT !.revision = @ + 1]]}

SourceContent == [design |-> SourceDesign, revision |-> 0]

PanelReturns(w) ==
  /\ FunctionReturns(w)
  /\ LET j == job[w] IN
       \/ /\ j.kind = "plan"
          /\ \E p \in ComputedPlans(j) : job' = [job EXCEPT ![w].value = p]
          /\ UNCHANGED storage
       \/ /\ j.kind = "document"
          /\ LET c == IF j.file = NoFile THEN SourceContent ELSE disk[j.file] IN
               c # NoScenario /\ job' = [job EXCEPT ![w].content = c]
          /\ UNCHANGED storage
       \/ /\ j.kind = "save"
          /\ disk' = [disk EXCEPT ![j.file] = j.content]
          /\ overwritten' = (overwritten \/ (~j.current /\ j.file = own))
          /\ UNCHANGED <<job, own>>
       \/ /\ j.kind \in {"evaluate", "plane"}
          /\ UNCHANGED <<storage, job>>
  /\ UNCHANGED <<document, table, dialog>>

PanelPool(w) ==
  \/ PanelReturns(w)
  \/ /\ PoolStarts(w) \/ EmitResult(w) \/ FunctionRaises(w) \/ EmitFinished(w)
     /\ UNCHANGED panelVars

-----------------------------------------------------------------------------

Next ==
  \/ OpenEditor
  \/ CommitEditor
  \/ FireFill
  \/ EditDetached
  \/ \E o \in Options : ChooseOption(o)
  \/ AskTargets
  \/ \E t \in Matrices, o \in Options : AnswerTargets(t, o)
  \/ Calculate
  \/ Apply
  \/ AskSave
  \/ \E f \in Files : AnswerSave(f)
  \/ Dismiss
  \/ \E d \in Designs : Edit(d)
  \/ \E f \in Files \cup {NoFile} : OpenDocument(f)
  \/ \E f \in Files : Save(f)
  \/ \E f \in Files : Evaluate(f)
  \/ LoadPlane
  \/ \E f \in Files : FireAutoSave(f)
  \/ Cancel
  \/ PanelResult
  \/ PanelError
  \/ PanelFinished
  \/ \E w \in Workers : PanelPool(w)

Spec == Init /\ [][Next]_vars

-----------------------------------------------------------------------------
(* Correctness.                                                            *)

TypeOK ==
  /\ LifecycleTypeOK
  /\ scenario \in Contents \cup {NoScenario}
  /\ path \in Files \cup {NoFile}
  /\ batch \in Contents \cup {NoScenario}
  /\ disk \in [Files -> Contents \cup {NoScenario}]
  /\ basis \in Designs \cup {NoScenario}
  /\ targets \in Matrices \cup {NoMatrix}
  /\ option \in Options
  /\ plan \in Plans \cup {NoPlan}
  /\ fill \in {"none", "live", "dead"}
  /\ own \in Files \cup {NoFile}
  /\ autoSave \in {"no", "pending", "timer"}
  /\ {dirty, invalid, editor, typed, overwritten} \subseteq BOOLEAN
  /\ dialog \in Dialogs \cup {NoDialog}
  /\ job \in [Workers -> Jobs \cup {NoJob}]

\* The plan on show is the answer to the targets, tolerances and options that are
\* in the panel now: "Preview and Apply/Export/Save are invalidated when a
\* target, a tolerance or an option changes" (docs/DECAP_DISTRIBUTION_RULES.md:389),
\* also when that happens while it is computed.
PlanAnswersRequest == plan # NoPlan => plan.request = Request

\* The table and the plan belong to the scenario that is open: the table shows its
\* counts unless somebody typed into it, and the plan starts from its design or
\* has led to it.
PanelFitsDocument ==
  scenario # NoScenario =>
    /\ basis = scenario.design
    /\ typed \/ targets = Present[basis]
    /\ plan # NoPlan => scenario.design \in {plan.input.design, plan.output.design}

\* Results on show describe the open scenario: an Apply discards them.
ResultsDescribeScenario == batch # NoScenario => batch = scenario

\* A document that is not dirty is in its file, unless the user chose that file for
\* the scenario of a plan that is not applied.
CleanIsStored ==
  scenario # NoScenario /\ ~dirty /\ own # NoFile /\ ~overwritten =>
    disk[own] = scenario

\* A distributed scenario that is saved is what the plan on show gives for the open
\* scenario, or the open scenario once the plan was applied: no plan is written
\* after the document has moved on.
SavesWhatIsOffered ==
  [][dialog = NoDialog /\ dialog' # NoDialog /\ dialog'.kind = "save" =>
       /\ plan.request = Request
       /\ dialog'.content = plan.output
       /\ scenario \in {plan.input, plan.output}]_vars

\* "A successful Apply is committed as one revision and invalidates the existing PDN
\* Evaluation results" (docs/DECAP_DISTRIBUTION_RULES.md:394).
AppliesInOneRevision ==
  [][Apply /\ scenario' # scenario => scenario'.revision = scenario.revision + 1]_vars
=============================================================================
