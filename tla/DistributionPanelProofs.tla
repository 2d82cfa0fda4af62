------------------------ MODULE DistributionPanelProofs ------------------------
(***************************************************************************)
(* Proofs about DistributionPanel, for every set of workers, designs,      *)
(* tables, options and files and every bound on the revisions.             *)
(***************************************************************************)
EXTENDS DistributionPanel, WorkerLifecycleProofs

\* What a job in the slot was started with.  A save of the open document is one of
\* its present content, for nothing can change it while the slot is taken.
Fits(j) ==
  /\ j \in Jobs
  /\ j.kind = "plan" =>
       /\ j.content \in Contents
       /\ j.content.revision < MaxRevision
       /\ j.request \in Requests
       /\ j.request.targets # Present[j.content.design]
  /\ j.kind = "save" =>
       /\ j.content \in Contents
       /\ j.file \in Files
       /\ j.current => j.content = scenario
  /\ j.kind = "evaluate" => scenario \in Contents

\* What its function has brought about once it returned.
Ready(j) ==
  /\ j.kind = "plan" =>
       /\ j.value \in Plans
       /\ j.value.input = j.content
       /\ j.value.request = j.request
  /\ j.kind = "document" =>
       /\ j.content \in Contents
       /\ j.file # NoFile => disk[j.file] = j.content
  /\ j.kind = "save" => disk[j.file] = j.content

JobInv ==
  worker # NoWorker =>
    /\ Fits(job[worker])
    /\ HasReturned => Ready(job[worker])
    /\ dialog # NoDialog => job[worker].kind \in {"save", "plane"}

\* A dialog of the panel outlasts no change of the scenario.
DialogInv ==
  /\ dialog \in [kind : {"save"}, content : Contents, own : BOOLEAN]
  /\ dialog # NoDialog
  /\ dialog.own
  => dialog.content = scenario

\* The table of an open document is filled.  Cells that wait to be filled were typed
\* into, and so was a table that has a plan: a plan asks for some change.
TableInv ==
  /\ scenario # NoScenario => targets \in Matrices
  /\ fill = "live" \/ plan # NoPlan => typed

\* An automatic save is pending for a document only.
AutoSaveInv == autoSave # "no" => scenario \in Contents

PanelInv ==
  /\ SlotInv
  /\ TypeOK
  /\ JobInv
  /\ DialogInv
  /\ TableInv
  /\ AutoSaveInv
  /\ PlanAnswersRequest
  /\ PanelFitsDocument
  /\ ResultsDescribeScenario
  /\ CleanIsStored

LEMMA NoScenarioIsNone == NoScenario \notin Contents
  BY PanelAssumption DEF Contents

-----------------------------------------------------------------------------
(* The worker slot.                                                        *)

LEMMA PanelStartIsRun ==
  ASSUME NEW j, NEW c \in BOOLEAN, StartJob(j, c)
  PROVE  [LifecycleNext]_lifecycleVars
  BY DEF StartJob, Quiescent, LifecycleNext

LEMMA PanelStepIsLifecycleStep ==
  ASSUME [Next]_vars
  PROVE  [LifecycleNext]_lifecycleVars
  <1>1. CASE OpenEditor \/ CommitEditor \/ FireFill \/ EditDetached
    BY <1>1 DEF OpenEditor, CommitEditor, FireFill, EditDetached, Quiescent
  <1>2. CASE (\E o \in Options : ChooseOption(o)) \/ AskTargets
             \/ (\E t \in Matrices, o \in Options : AnswerTargets(t, o))
    BY <1>2 DEF ChooseOption, AskTargets, AnswerTargets, Quiescent
  <1>3. CASE Calculate
    BY <1>3, PanelStartIsRun DEF Calculate
  <1>4. CASE Apply \/ AskSave \/ Dismiss \/ (\E d \in Designs : Edit(d))
    BY <1>4 DEF Apply, AskSave, Dismiss, Edit, Quiescent
  <1>5. CASE \E f \in Files : AnswerSave(f)
    BY <1>5, PanelStartIsRun DEF AnswerSave
  <1>6. CASE \E f \in Files \cup {NoFile} : OpenDocument(f)
    BY <1>6, PanelStartIsRun DEF OpenDocument
  <1>7. CASE \E f \in Files : Save(f)
    BY <1>7, PanelStartIsRun DEF Save
  <1>8. CASE \E f \in Files : Evaluate(f)
    BY <1>8, PanelStartIsRun DEF Evaluate
  <1>9. CASE LoadPlane
    BY <1>9, PanelStartIsRun DEF LoadPlane
  <1>10. CASE \E f \in Files : FireAutoSave(f)
    BY <1>10, PanelStartIsRun DEF FireAutoSave
  <1>11. CASE Cancel
    BY <1>11 DEF Cancel, LifecycleNext
  <1>12. CASE PanelResult \/ PanelError \/ PanelFinished
    BY <1>12 DEF PanelResult, PanelError, PanelFinished, LifecycleNext, Deliver
  <1>13. CASE \E w \in Workers : PanelPool(w)
    BY <1>13 DEF PanelPool, PanelReturns, Pool, LifecycleNext
  <1>14. CASE UNCHANGED vars
    BY <1>14 DEF vars
  <1> QED BY <1>1, <1>2, <1>3, <1>4, <1>5, <1>6, <1>7, <1>8, <1>9, <1>10, <1>11,
             <1>12, <1>13, <1>14 DEF Next

\* The panel keeps the slot exact.
LEMMA PanelKeepsSlot ==
  ASSUME SlotInv, [Next]_vars
  PROVE  SlotInv'
  BY SlotInvNext, PanelStepIsLifecycleStep

-----------------------------------------------------------------------------
(* The job in the slot.                                                    *)

\* A step that leaves the slot and what the jobs depend on alone.
LEMMA StillKeepsJob ==
  ASSUME JobInv, Quiescent, scenario' = scenario, disk' = disk,
         dialog' # NoDialog => worker = NoWorker \/ dialog # NoDialog
  PROVE  JobInv'
  BY DEF JobInv, Quiescent, lifecycleVars, Fits, Ready, HasReturned

\* Any step while the slot stays empty.
LEMMA EmptySlotKeepsJob == ASSUME worker' = NoWorker PROVE JobInv'
  BY DEF JobInv

LEMMA StartKeepsJob ==
  ASSUME SlotInv, JobInv, job \in [Workers -> Jobs \cup {NoJob}],
         NEW j, NEW c \in BOOLEAN, StartJob(j, c), Fits(j),
         scenario' = scenario, disk' = disk, dialog' \in {dialog, NoDialog},
         dialog' # NoDialog => j.kind \in {"save", "plane"}
  PROVE  JobInv' /\ job' \in [Workers -> Jobs \cup {NoJob}]
  <1>1. CASE worker # NoWorker /\ Quiescent
    BY <1>1, StillKeepsJob DEF Quiescent
  <1>2. ASSUME NEW w \in Workers, RunWorker(w, c), job' = [job EXCEPT ![w] = j]
        PROVE  JobInv' /\ job' \in [Workers -> Jobs \cup {NoJob}]
    <2>1. worker' = w /\ phase'[w] = "queued" /\ posted' = <<>>
      BY <1>2, SlotFacts DEF RunWorker, Occupy, Quiet
    <2>2. ~HasReturned'
      BY <2>1 DEF HasReturned
    <2>3. job'[w] = j /\ j \in Jobs
      BY <1>2 DEF Fits
    <2>4. Fits(job[worker])'
      BY <2>1, <2>3 DEF Fits
    <2> QED BY <1>2, <2>1, <2>2, <2>3, <2>4 DEF JobInv
  <1> QED BY <1>1, <1>2 DEF StartJob

\* A result that is delivered is that of the job in the slot.
LEMMA DeliveredResult ==
  ASSUME SlotInv, JobInv, DeliverResult
  PROVE  /\ worker \in Workers
         /\ Head(posted).worker = worker
         /\ Fits(job[worker])
         /\ Ready(job[worker])
         /\ worker' = worker /\ ~HasReturned'
  BY DeliveredIsOwn, WorkersAssumption DEF JobInv

LEMMA PoolKeepsJob ==
  ASSUME SlotInv, JobInv, job \in [Workers -> Jobs \cup {NoJob}],
         NEW w \in Workers, Pool(w), UNCHANGED <<scenario, disk, dialog, job>>,
         ~FunctionReturns(w)
  PROVE  JobInv'
  BY PoolKeepsReturned DEF JobInv, Fits, Ready

-----------------------------------------------------------------------------
(* Steps that leave the document or the table alone.                       *)

\* Neither the document nor the table nor a file changes.
LEMMA FrameKeepsPanel ==
  ASSUME PanelInv, SlotInv', JobInv', job' \in [Workers -> Jobs \cup {NoJob}],
         UNCHANGED <<scenario, dirty, batch, table, storage>>,
         path' \in Files \cup {NoFile}, autoSave' \in {"no", "pending", "timer"},
         autoSave = "no" => autoSave' = "no", dialog' \in {dialog, NoDialog}
  PROVE  PanelInv'
  <1> USE DEF PanelInv, table, storage
  <1>1. TypeOK'
    BY DEF TypeOK, SlotInv
  <1>2. DialogInv' /\ AutoSaveInv'
    BY DEF DialogInv, AutoSaveInv
  <1>3. TableInv' /\ PlanAnswersRequest' /\ PanelFitsDocument'
    BY DEF TableInv, PlanAnswersRequest, PanelFitsDocument, Request
  <1>4. ResultsDescribeScenario' /\ CleanIsStored'
    BY DEF ResultsDescribeScenario, CleanIsStored
  <1> QED BY <1>1, <1>2, <1>3, <1>4

\* What the user does to the table: the plan on show is dropped unless the request
\* stays as it is.
TableStep ==
  /\ Quiescent
  /\ UNCHANGED <<document, basis, storage>>
  /\ dialog' \in {dialog, NoDialog}
  /\ targets' \in Matrices \/ targets' = targets
  /\ option' \in Options
  /\ {invalid', editor', typed'} \subseteq BOOLEAN
  /\ fill' \in {"none", "live", "dead"}
  /\ fill' = "live" \/ targets' # targets => typed'
  /\ typed => typed'
  /\ plan' = NoPlan \/ (plan' = plan /\ targets' = targets /\ option' = option)

LEMMA TableStepKeepsPanel ==
  ASSUME PanelInv, SlotInv', TableStep
  PROVE  PanelInv'
  <1> USE DEF PanelInv, TableStep, document, storage
  <1>1. TypeOK'
    BY DEF TypeOK, SlotInv, Quiescent
  <1>2. JobInv'
    BY StillKeepsJob
  <1>3. DialogInv' /\ AutoSaveInv'
    BY DEF DialogInv, AutoSaveInv
  <1>4. TableInv'
    BY DEF TableInv
  <1>5. PlanAnswersRequest' /\ PanelFitsDocument'
    BY DEF PlanAnswersRequest, PanelFitsDocument, Request
  <1>6. ResultsDescribeScenario' /\ CleanIsStored'
    BY DEF ResultsDescribeScenario, CleanIsStored
  <1> QED BY <1>1, <1>2, <1>3, <1>4, <1>5, <1>6

LEMMA EditingIsTableStep ==
  ASSUME PanelInv,
         OpenEditor \/ CommitEditor \/ FireFill \/ EditDetached
         \/ (\E o \in Options : ChooseOption(o))
         \/ (\E t \in Matrices, o \in Options : AnswerTargets(t, o))
         \/ Dismiss
  PROVE  TableStep
  <1> USE DEF PanelInv, TypeOK, TableInv, table, document, TableStep, EnterText, Edited
  <1>1. CASE OpenEditor
    BY <1>1 DEF OpenEditor
  <1>2. CASE CommitEditor
    BY <1>2 DEF CommitEditor
  <1>3. CASE FireFill
    BY <1>3 DEF FireFill
  <1>4. CASE EditDetached
    BY <1>4 DEF EditDetached
  <1>5. CASE \E o \in Options : ChooseOption(o)
    BY <1>5 DEF ChooseOption
  <1>6. CASE \E t \in Matrices, o \in Options : AnswerTargets(t, o)
    BY <1>6 DEF AnswerTargets
  <1>7. CASE Dismiss
    BY <1>7 DEF Dismiss
  <1> QED BY <1>1, <1>2, <1>3, <1>4, <1>5, <1>6, <1>7

\* A dialog is opened over an empty slot.
LEMMA AskingKeepsPanel ==
  ASSUME PanelInv, SlotInv', AskTargets \/ AskSave
  PROVE  PanelInv'
  <1> USE DEF PanelInv, document, table, storage
  <1>1. Quiescent /\ worker = NoWorker /\ UNCHANGED <<document, table, storage>>
    BY DEF AskTargets, AskSave, Loaded
  <1>2. dialog' \in Dialogs /\ DialogInv'
    <2>1. CASE AskTargets
      BY <2>1 DEF AskTargets, Dialogs, DialogInv
    <2>2. CASE AskSave
      <3>1. PICK c \in ToSave, o \in BOOLEAN :
              (o => c = scenario) /\ dialog' = [kind |-> "save", content |-> c, own |-> o]
        BY <2>2 DEF AskSave
      <3>2. plan \in Plans /\ scenario \in Contents
        BY <2>2 DEF AskSave, Loaded, TypeOK
      <3>3. c \in Contents
        BY <3>2 DEF ToSave, Applied, Plans
      <3> QED BY <1>1, <3>1, <3>3 DEF Dialogs, DialogInv
    <2> QED BY <2>1, <2>2
  <1>3. TypeOK'
    BY <1>1, <1>2 DEF TypeOK, SlotInv, Quiescent
  <1>4. JobInv'
    BY <1>1, EmptySlotKeepsJob DEF Quiescent, lifecycleVars
  <1>5. AutoSaveInv' /\ TableInv' /\ PlanAnswersRequest' /\ PanelFitsDocument'
    BY <1>1 DEF AutoSaveInv, TableInv, PlanAnswersRequest, PanelFitsDocument, Request
  <1>6. ResultsDescribeScenario' /\ CleanIsStored'
    BY <1>1 DEF ResultsDescribeScenario, CleanIsStored
  <1> QED BY <1>2, <1>3, <1>4, <1>5, <1>6

\* Every operation that is started fits the document it is started for.
LEMMA StartingKeepsPanel ==
  ASSUME PanelInv, SlotInv',
         Calculate \/ (\E f \in Files : AnswerSave(f))
         \/ (\E f \in Files \cup {NoFile} : OpenDocument(f)) \/ (\E f \in Files : Save(f))
         \/ (\E f \in Files : Evaluate(f)) \/ LoadPlane \/ (\E f \in Files : FireAutoSave(f))
  PROVE  PanelInv'
  <1>1. SlotInv /\ TypeOK /\ JobInv /\ DialogInv /\ TableInv
    BY DEF PanelInv
  <1>2. job \in [Workers -> Jobs \cup {NoJob}] /\ path \in Files \cup {NoFile}
        /\ autoSave \in {"no", "pending", "timer"}
    BY <1>1 DEF TypeOK
  <1>3. CASE Calculate
    <2> DEFINE j == [Job("plan", scenario, NoFile) EXCEPT !.request = Request]
    <2>1. StartJob(j, TRUE) /\ UNCHANGED <<document, table, storage, dialog>>
          /\ Loaded /\ scenario.revision < MaxRevision
      BY <1>3 DEF Calculate
    <2>2. scenario \in Contents /\ Request \in Requests /\ dialog = NoDialog
      BY <1>1, <2>1 DEF Loaded, AtTopLevel, TypeOK, TableInv, Requests, Request
    <2>3. Request.targets # Present[scenario.design]
      BY <1>3, <2>1 DEF Calculate, Request, PanelInv, PanelFitsDocument, Loaded
    <2>4. Fits(j)
      BY <2>1, <2>2, <2>3 DEF Fits, Jobs, JobKinds, Job
    <2>5. JobInv' /\ job' \in [Workers -> Jobs \cup {NoJob}]
      BY <1>1, <1>2, <2>1, <2>2, <2>4, StartKeepsJob DEF document, storage
    <2> QED BY <1>2, <2>1, <2>5, FrameKeepsPanel DEF document
  <1>4. ASSUME NEW f \in Files, AnswerSave(f)
        PROVE  PanelInv'
    <2> DEFINE j == [Job("save", dialog.content, f) EXCEPT !.current = dialog.own]
    <2>1. StartJob(j, FALSE) /\ UNCHANGED <<document, table, storage>>
          /\ dialog # NoDialog /\ dialog.kind = "save" /\ dialog' = NoDialog
      BY <1>4 DEF AnswerSave
    <2>2. dialog \in [kind : {"save"}, content : Contents, own : BOOLEAN]
      BY <1>1, <2>1 DEF TypeOK, Dialogs
    <2>3. Fits(j)
      BY <1>1, <2>1, <2>2 DEF Fits, Jobs, JobKinds, Job, DialogInv
    <2>4. JobInv' /\ job' \in [Workers -> Jobs \cup {NoJob}]
      BY <1>1, <1>2, <2>1, <2>3, StartKeepsJob DEF document, storage
    <2> QED BY <1>2, <2>1, <2>4, FrameKeepsPanel DEF document
  <1>5. ASSUME NEW f \in Files \cup {NoFile}, OpenDocument(f)
        PROVE  PanelInv'
    <2>1. StartJob(Job("document", NoScenario, f), TRUE)
          /\ UNCHANGED <<document, table, storage, dialog>> /\ dialog = NoDialog
      BY <1>5 DEF OpenDocument, AtTopLevel
    <2>2. Fits(Job("document", NoScenario, f))
      BY DEF Fits, Jobs, JobKinds, Job
    <2>3. JobInv' /\ job' \in [Workers -> Jobs \cup {NoJob}]
      BY <1>1, <1>2, <2>1, <2>2, StartKeepsJob DEF document, storage
    <2> QED BY <1>2, <2>1, <2>3, FrameKeepsPanel DEF document
  <1>6. ASSUME NEW f \in Files, Save(f) \/ FireAutoSave(f)
        PROVE  PanelInv'
    <2>1. StartJob(Job("save", scenario, f), FALSE)
          /\ UNCHANGED <<scenario, path, dirty, batch, table, storage, dialog>>
          /\ autoSave' \in {"no", autoSave}
      BY <1>6 DEF Save, FireAutoSave, document
    <2>2. scenario \in Contents
      BY <1>1, <1>6 DEF Save, FireAutoSave, Loaded, TypeOK, PanelInv, AutoSaveInv
    <2>3. Fits(Job("save", scenario, f)) /\ Job("save", scenario, f).kind = "save"
      BY <2>2 DEF Fits, Jobs, JobKinds, Job
    <2>4. JobInv' /\ job' \in [Workers -> Jobs \cup {NoJob}]
      BY <1>1, <1>2, <2>1, <2>3, StartKeepsJob DEF storage
    <2> QED BY <1>2, <2>1, <2>4, FrameKeepsPanel
  <1>7. ASSUME NEW f \in Files, Evaluate(f)
        PROVE  PanelInv'
    <2>1. StartJob(Job("evaluate", scenario, NoFile), TRUE)
          /\ UNCHANGED <<scenario, dirty, batch, autoSave, table, storage, dialog>>
          /\ path' = f /\ Loaded
      BY <1>7 DEF Evaluate
    <2>2. scenario \in Contents /\ dialog = NoDialog
      BY <1>1, <2>1 DEF Loaded, AtTopLevel, TypeOK
    <2>3. Fits(Job("evaluate", scenario, NoFile))
      BY <2>2 DEF Fits, Jobs, JobKinds, Job
    <2>4. JobInv' /\ job' \in [Workers -> Jobs \cup {NoJob}]
      BY <1>1, <1>2, <2>1, <2>2, <2>3, StartKeepsJob DEF storage
    <2> QED BY <1>2, <2>1, <2>4, FrameKeepsPanel
  <1>8. CASE LoadPlane
    <2>1. StartJob(Job("plane", NoScenario, NoFile), TRUE)
          /\ UNCHANGED <<document, table, storage, dialog>>
      BY <1>8 DEF LoadPlane
    <2>2. Fits(Job("plane", NoScenario, NoFile))
          /\ Job("plane", NoScenario, NoFile).kind = "plane"
      BY DEF Fits, Jobs, JobKinds, Job
    <2>3. JobInv' /\ job' \in [Workers -> Jobs \cup {NoJob}]
      BY <1>1, <1>2, <2>1, <2>2, StartKeepsJob DEF document, storage
    <2> QED BY <1>2, <2>1, <2>3, FrameKeepsPanel DEF document
  <1> QED BY <1>3, <1>4, <1>5, <1>6, <1>7, <1>8

-----------------------------------------------------------------------------
(* Steps that change the document.                                         *)

LEMMA ApplyKeepsPanel ==
  ASSUME PanelInv, SlotInv', Apply
  PROVE  PanelInv'
  <1>1. TypeOK /\ TableInv /\ PanelFitsDocument /\ PlanAnswersRequest
    BY DEF PanelInv
  <1>2. /\ worker = NoWorker /\ dialog = NoDialog
        /\ scenario \in Contents /\ plan \in Plans /\ targets \in Matrices
    BY <1>1 DEF Apply, Loaded, AtTopLevel, TypeOK, TableInv
  <1>3. JobInv' /\ DialogInv'
    BY <1>2, EmptySlotKeepsJob DEF Apply, Quiescent, lifecycleVars, DialogInv
  <1>4. CASE Applied(scenario, plan) = NoScenario /\ plan' = NoPlan
             /\ UNCHANGED <<document, basis, targets, invalid, editor, fill, option, typed,
                            storage, dialog>> /\ Quiescent
    <2>1. TableStep
      BY <1>1, <1>4 DEF TableStep, TypeOK, TableInv, document
    <2> QED BY <2>1, TableStepKeepsPanel
  <1>5. CASE /\ Applied(scenario, plan) # NoScenario
             /\ scenario' = Applied(scenario, plan)
             /\ dirty' = TRUE /\ batch' = NoScenario /\ basis' = scenario'.design
             /\ invalid' = FALSE /\ DropCells
             /\ UNCHANGED <<path, autoSave, targets, plan, option, typed, storage, dialog>>
             /\ Quiescent
    <2>1. scenario = plan.input /\ scenario' = plan.output /\ scenario' \in Contents
          /\ basis' \in Designs /\ plan'.output.design = scenario'.design
      BY <1>2, <1>5 DEF Applied, Plans, Contents
    <2>2. TypeOK'
      BY <1>1, <1>5, <2>1 DEF TypeOK, SlotInv, DropCells, Quiescent, storage
    <2>3. TableInv' /\ AutoSaveInv' /\ PlanAnswersRequest'
      BY <1>1, <1>2, <1>5, <2>1
      DEF TableInv, AutoSaveInv, PlanAnswersRequest, Request, DropCells
    <2>4. PanelFitsDocument'
      <3>1. typed'
        BY <1>1, <1>5 DEF Apply, TableInv
      <3> QED BY <1>5, <2>1, <3>1 DEF PanelFitsDocument
    <2>5. ResultsDescribeScenario' /\ CleanIsStored'
      BY <1>5 DEF ResultsDescribeScenario, CleanIsStored
    <2> QED BY <1>3, <2>2, <2>3, <2>4, <2>5 DEF PanelInv
  <1> QED BY <1>4, <1>5 DEF Apply

LEMMA EditKeepsPanel ==
  ASSUME PanelInv, SlotInv', NEW d \in Designs, Edit(d)
  PROVE  PanelInv'
  <1>1. TypeOK /\ PanelFitsDocument
    BY DEF PanelInv
  <1>2. /\ worker = NoWorker /\ dialog = NoDialog /\ scenario \in Contents
        /\ scenario.revision < MaxRevision /\ d # basis
    BY <1>1 DEF Edit, Loaded, AtTopLevel, TypeOK, PanelFitsDocument
  <1>3. /\ scenario' = [design |-> d, revision |-> scenario.revision + 1]
        /\ dirty' = TRUE /\ batch' = NoScenario /\ Populate(d) /\ Quiescent
        /\ UNCHANGED <<path, autoSave, option, storage, dialog>>
    BY <1>2 DEF Edit, Refresh
  <1>4. scenario' \in Contents /\ scenario'.design = d
    BY <1>2, <1>3, PanelAssumption DEF Contents
  <1>5. JobInv' /\ DialogInv'
    BY <1>2, <1>3, EmptySlotKeepsJob DEF Quiescent, lifecycleVars, DialogInv
  <1>6. Present[d] \in Matrices
    BY PanelAssumption
  <1>7. TypeOK'
    BY <1>1, <1>3, <1>4, <1>6 DEF TypeOK, SlotInv, Populate, DropCells, Quiescent, storage
  <1>8. TableInv' /\ AutoSaveInv' /\ PlanAnswersRequest' /\ PanelFitsDocument'
    BY <1>3, <1>4, <1>6
    DEF TableInv, AutoSaveInv, PlanAnswersRequest, PanelFitsDocument, Populate, DropCells
  <1>9. ResultsDescribeScenario' /\ CleanIsStored'
    BY <1>3 DEF ResultsDescribeScenario, CleanIsStored
  <1> QED BY <1>5, <1>7, <1>8, <1>9 DEF PanelInv

\* A document that was read is in its file, and its table shows what it has.
LEMMA DocumentKeepsPanel ==
  ASSUME PanelInv, SlotInv', NEW j, AcceptDocument(j), Fits(j), Ready(j),
         worker' = worker, worker \in Workers, job[worker] = j, job' = job,
         dialog' = dialog, ~HasReturned'
  PROVE  PanelInv'
  <1>1. TypeOK /\ JobInv
    BY DEF PanelInv
  <1>2. j.kind = "document" /\ j.content \in Contents /\ j.file \in Files \cup {NoFile}
        /\ (j.file # NoFile => disk[j.file] = j.content)
    BY DEF AcceptDocument, Fits, Ready, Jobs
  <1>3. j.content.design \in Designs /\ Present[j.content.design] \in Matrices
    BY <1>2, PanelAssumption DEF Contents
  <1>4. dialog = NoDialog
    BY <1>1, <1>2, WorkersAssumption DEF JobInv
  <1>5. JobInv' /\ DialogInv'
    BY <1>2, <1>4 DEF JobInv, DialogInv, Fits
  <1>6. TypeOK'
    BY <1>1, <1>2, <1>3, PanelAssumption
    DEF TypeOK, SlotInv, AcceptDocument, Populate, DropCells
  <1>7. TableInv' /\ AutoSaveInv' /\ PlanAnswersRequest' /\ PanelFitsDocument'
    BY <1>2, <1>3 DEF TableInv, AutoSaveInv, PlanAnswersRequest, PanelFitsDocument,
                      AcceptDocument, Populate, DropCells
  <1>8. ResultsDescribeScenario' /\ CleanIsStored'
    BY <1>2 DEF ResultsDescribeScenario, CleanIsStored, AcceptDocument
  <1> QED BY <1>5, <1>6, <1>7, <1>8 DEF PanelInv

\* What the result of a plan, a save or a plane layer leaves as it is.
LEMMA PlanKeepsPanel ==
  ASSUME PanelInv, SlotInv', NEW j, AcceptPlan(j), Fits(j), Ready(j),
         worker' = worker, worker \in Workers, job[worker] = j, job' = job,
         dialog' = dialog, ~HasReturned'
  PROVE  PanelInv'
  <1>1. TypeOK /\ JobInv /\ TableInv /\ PanelFitsDocument
    BY DEF PanelInv
  <1>2. j.kind = "plan" /\ j.content \in Contents
        /\ j.value \in Plans /\ j.value.input = j.content /\ j.value.request = j.request
        /\ j.request.targets # Present[j.content.design]
    BY DEF AcceptPlan, Fits, Ready
  <1>3. UNCHANGED <<document, basis, targets, invalid, option, editor, fill, typed, storage>>
    BY DEF AcceptPlan
  <1>4. plan' = plan \/ (plan' = j.value /\ j.request = Request /\ j.content = scenario)
    BY DEF AcceptPlan
  <1>5. JobInv' /\ DialogInv' /\ AutoSaveInv'
    BY <1>1, <1>3, <1>2 DEF JobInv, DialogInv, AutoSaveInv, Fits, document, PanelInv
  <1>6. TypeOK'
    BY <1>1, <1>2, <1>3, <1>4 DEF TypeOK, SlotInv, document, storage
  <1>7. plan' # plan => typed /\ scenario = plan'.input
    <2>1. SUFFICES ASSUME plan' # plan PROVE typed /\ scenario = plan'.input
      OBVIOUS
    <2>2. plan' = j.value /\ j.request = Request /\ j.content = scenario
      BY <1>4, <2>1
    <2>3. targets # Present[scenario.design]
      BY <1>2, <2>2 DEF Request
    <2>4. scenario # NoScenario
      BY <1>2, <2>2, NoScenarioIsNone
    <2> QED BY <1>1, <1>2, <2>2, <2>3, <2>4 DEF PanelFitsDocument
  <1>8. TableInv' /\ PlanAnswersRequest' /\ PanelFitsDocument'
    BY <1>1, <1>2, <1>3, <1>4, <1>7
    DEF TableInv, PlanAnswersRequest, PanelFitsDocument, Request, document, PanelInv
  <1>9. ResultsDescribeScenario' /\ CleanIsStored'
    BY <1>3 DEF ResultsDescribeScenario, CleanIsStored, document, storage, PanelInv
  <1> QED BY <1>5, <1>6, <1>8, <1>9 DEF PanelInv

\* A save that is over leaves a clean document in its file.
LEMMA SavedKeepsPanel ==
  ASSUME PanelInv, SlotInv', NEW j, AcceptSaved(j), Fits(j), Ready(j),
         worker' = worker, worker \in Workers, job[worker] = j, job' = job,
         dialog' = dialog, ~HasReturned'
  PROVE  PanelInv'
  <1>1. TypeOK /\ JobInv
    BY DEF PanelInv
  <1>2. j.kind = "save" /\ j.content \in Contents /\ j.file \in Files
        /\ disk[j.file] = j.content
    BY DEF AcceptSaved, Fits, Ready
  <1>3. UNCHANGED <<scenario, batch, autoSave, table, disk>>
    BY DEF AcceptSaved
  <1>4. TypeOK' /\ CleanIsStored'
    <2>1. CASE j.current
      <3>1. path' = j.file /\ dirty' = (j.content # scenario) /\ own' = j.file
            /\ overwritten' = FALSE
        BY <2>1 DEF AcceptSaved
      <3>2. TypeOK'
        BY <1>1, <1>2, <1>3, <3>1 DEF TypeOK, SlotInv, table
      <3>3. CleanIsStored'
        BY <1>2, <1>3, <3>1 DEF CleanIsStored
      <3> QED BY <3>2, <3>3
    <2>2. CASE ~j.current
      <3>1. UNCHANGED <<path, dirty, own, overwritten>>
        BY <2>2 DEF AcceptSaved
      <3>2. TypeOK'
        BY <1>1, <1>3, <3>1 DEF TypeOK, SlotInv, table
      <3>3. CleanIsStored'
        BY <1>3, <3>1 DEF CleanIsStored, PanelInv
      <3> QED BY <3>2, <3>3
    <2> QED BY <2>1, <2>2
  <1>5. JobInv' /\ DialogInv' /\ AutoSaveInv'
    BY <1>1, <1>2, <1>3 DEF JobInv, DialogInv, AutoSaveInv, Fits, PanelInv
  <1>6. TableInv' /\ PlanAnswersRequest' /\ PanelFitsDocument'
    BY <1>3 DEF TableInv, PlanAnswersRequest, PanelFitsDocument, Request, table, PanelInv
  <1>7. ResultsDescribeScenario'
    BY <1>3 DEF ResultsDescribeScenario, PanelInv
  <1> QED BY <1>4, <1>5, <1>6, <1>7 DEF PanelInv

\* An evaluation changes the revision and never the design, so the table stays.
LEMMA EvaluatedKeepsPanel ==
  ASSUME PanelInv, SlotInv', NEW j, AcceptEvaluation(j), Fits(j), Ready(j),
         worker' = worker, worker \in Workers, job[worker] = j, job' = job,
         dialog' = dialog, ~HasReturned'
  PROVE  PanelInv'
  <1>1. TypeOK /\ JobInv /\ PanelFitsDocument
    BY DEF PanelInv
  <1>2. j.kind = "evaluate" /\ scenario \in Contents /\ scenario # NoScenario
    BY NoScenarioIsNone DEF AcceptEvaluation, Fits
  <1>3. /\ scenario' \in Contents /\ scenario'.design = scenario.design
        /\ dirty' \in BOOLEAN
        /\ ~dirty' => scenario' = scenario /\ ~dirty
        /\ batch' \in {scenario', NoScenario}
        /\ autoSave' \in {"no", "pending", "timer"}
    <2>1. ASSUME NEW n \in {0, 1},
                 scenario.revision + n <= MaxRevision,
                 scenario' = [scenario EXCEPT !.revision = @ + n],
                 dirty' \in {dirty, TRUE} \cap (IF n = 1 THEN {TRUE} ELSE BOOLEAN)
          PROVE  /\ scenario' \in Contents /\ scenario'.design = scenario.design
                 /\ dirty' \in BOOLEAN
                 /\ ~dirty' => scenario' = scenario /\ ~dirty
      <3>1. scenario.revision \in Nat /\ scenario.revision + n \in 0..MaxRevision
        BY <1>2, <2>1, PanelAssumption DEF Contents
      <3>2. scenario' \in Contents /\ scenario'.design = scenario.design
        BY <1>2, <2>1, <3>1 DEF Contents
      <3>3. n = 0 => scenario' = scenario
        BY <1>2, <2>1, <3>1 DEF Contents
      <3>4. dirty' \in BOOLEAN /\ (~dirty' => n = 0 /\ ~dirty)
        BY <1>1, <2>1 DEF TypeOK
      <3> QED BY <3>2, <3>3, <3>4
    <2>2. CASE UNCHANGED <<scenario, dirty, autoSave>> /\ batch' = NoScenario
      BY <1>1, <1>2, <2>2 DEF TypeOK
    <2> QED BY <2>1, <2>2, <1>1 DEF AcceptEvaluation, TypeOK
  <1>4. UNCHANGED <<basis, targets, invalid, plan, typed, fill, editor, path, option, storage>>
    BY <1>1, <1>2, <1>3 DEF AcceptEvaluation, Refresh, PanelFitsDocument
  <1>5. dialog = NoDialog
    BY <1>1, <1>2, WorkersAssumption DEF JobInv
  <1>6. JobInv' /\ DialogInv' /\ AutoSaveInv'
    BY <1>2, <1>3, <1>5 DEF JobInv, DialogInv, AutoSaveInv, Fits
  <1>7. TypeOK'
    BY <1>1, <1>3, <1>4 DEF TypeOK, SlotInv, storage
  <1>8. TableInv' /\ PlanAnswersRequest' /\ PanelFitsDocument'
    BY <1>2, <1>3, <1>4
    DEF TableInv, PlanAnswersRequest, PanelFitsDocument, Request, PanelInv
  <1>9. ResultsDescribeScenario' /\ CleanIsStored'
    BY <1>2, <1>3, <1>4 DEF ResultsDescribeScenario, CleanIsStored, storage, PanelInv
  <1> QED BY <1>6, <1>7, <1>8, <1>9 DEF PanelInv

-----------------------------------------------------------------------------
(* Signals and the pool.                                                   *)

LEMMA ResultKeepsPanel ==
  ASSUME PanelInv, SlotInv', PanelResult
  PROVE  PanelInv'
  <1> DEFINE j == job[Head(posted).worker]
  <1>1. SlotInv /\ JobInv /\ TypeOK
    BY DEF PanelInv
  <1>2. DeliverResult /\ UNCHANGED <<dialog, job>>
    BY DEF PanelResult
  <1>3. /\ worker \in Workers /\ j = job[worker] /\ Fits(j) /\ Ready(j)
        /\ worker' = worker /\ ~HasReturned'
    BY <1>1, <1>2, DeliveredResult
  <1>4. CASE AcceptPlan(j)
    BY <1>2, <1>3, <1>4, PlanKeepsPanel
  <1>5. CASE AcceptDocument(j)
    BY <1>2, <1>3, <1>5, DocumentKeepsPanel
  <1>6. CASE AcceptSaved(j)
    BY <1>2, <1>3, <1>6, SavedKeepsPanel
  <1>7. CASE AcceptEvaluation(j)
    BY <1>2, <1>3, <1>7, EvaluatedKeepsPanel
  <1>8. CASE UNCHANGED <<document, table, storage>>
    <2>1. JobInv'
      BY <1>1, <1>2, <1>3, <1>8 DEF JobInv, Fits, document
    <2> QED BY <1>1, <1>2, <1>8, <2>1, FrameKeepsPanel DEF TypeOK, document
  <1> QED BY <1>4, <1>5, <1>6, <1>7, <1>8 DEF PanelResult, AcceptPlane

LEMMA SignalKeepsPanel ==
  ASSUME PanelInv, SlotInv', Cancel \/ PanelError \/ PanelFinished
  PROVE  PanelInv'
  <1>1. SlotInv /\ JobInv /\ TypeOK
    BY DEF PanelInv
  <1>2. CASE Cancel
    <2>1. JobInv'
      BY <1>1, <1>2 DEF Cancel, CancelWorker, panelVars, document, storage, JobInv, Fits,
                        Ready, HasReturned
    <2> QED BY <1>1, <1>2, <2>1, FrameKeepsPanel DEF Cancel, panelVars, document, TypeOK
  <1>3. CASE PanelError
    <2>1. /\ posted # <<>> /\ posted' = Tail(posted) /\ worker' = worker /\ phase' = phase
          /\ UNCHANGED panelVars
      BY <1>3 DEF PanelError, DeliverError, NextSignal
    <2>2. HasReturned' => HasReturned
      BY <1>1, <2>1, DeliveryKeepsReturned
    <2>3. JobInv'
      BY <1>1, <2>1, <2>2 DEF panelVars, document, storage, JobInv, Fits, Ready
    <2> QED BY <1>1, <2>1, <2>3, FrameKeepsPanel DEF panelVars, document, TypeOK
  <1>4. CASE PanelFinished
    <2>1. JobInv'
      BY <1>4, EmptySlotKeepsJob DEF PanelFinished, DeliverFinished
    <2>2. job' \in [Workers -> Jobs \cup {NoJob}]
      BY <1>1, <1>4 DEF PanelFinished, TypeOK
    <2>3. /\ autoSave' \in {"no", "pending", "timer"}
          /\ autoSave = "no" => autoSave' = "no"
          /\ UNCHANGED <<scenario, path, dirty, batch, table, storage, dialog>>
      BY <1>1, <1>4 DEF PanelFinished, TypeOK
    <2> QED BY <1>1, <2>1, <2>2, <2>3, FrameKeepsPanel DEF TypeOK
  <1> QED BY <1>2, <1>3, <1>4

\* The function of the job in the slot: only a save writes a file, and one of the
\* open document writes what the document is.
LEMMA ReturnKeepsPanel ==
  ASSUME PanelInv, SlotInv', NEW w \in Workers, PanelReturns(w)
  PROVE  PanelInv'
  <1> DEFINE j == job[w]
  <1>1. SlotInv /\ JobInv /\ TypeOK /\ CleanIsStored
    BY DEF PanelInv
  <1>2. w = worker /\ w # NoWorker /\ Busy
    BY <1>1, AliveIsOwned, WorkersAssumption DEF PanelReturns, FunctionReturns, Alive
  <1>3. Fits(j) /\ (dialog # NoDialog => j.kind \in {"save", "plane"})
    BY <1>1, <1>2 DEF JobInv
  <1>4. worker' = worker /\ UNCHANGED <<document, table, dialog>>
    BY DEF PanelReturns, FunctionReturns
  <1>5. CASE j.kind = "plan" /\ UNCHANGED storage
             /\ \E p \in ComputedPlans(j) : job' = [job EXCEPT ![w].value = p]
    <2>1. PICK p \in ComputedPlans(j) : job' = [job EXCEPT ![w].value = p]
      BY <1>5
    <2>2. p \in Plans /\ p.input = j.content /\ p.request = j.request
      <3>1. /\ j.content \in Contents /\ j.request \in Requests
            /\ j.content.revision \in 0..MaxRevision /\ j.content.revision < MaxRevision
        BY <1>3, <1>5 DEF Fits, Contents
      <3>2. PICK d \in Designs, n \in {0, 1} :
              p = [input |-> j.content, request |-> j.request,
                   output |-> [design |-> d, revision |-> j.content.revision + n]]
        BY DEF ComputedPlans
      <3>3. [design |-> d, revision |-> j.content.revision + n] \in Contents
        BY <3>1, PanelAssumption DEF Contents
      <3> QED BY <3>1, <3>2, <3>3 DEF Plans
    <2>3. job[w] \in Jobs
      BY <1>3 DEF Fits
    <2>4. job' \in [Workers -> Jobs \cup {NoJob}] /\ Fits(job'[w]) /\ Ready(job'[w])
      BY <1>1, <1>3, <1>5, <2>1, <2>2, <2>3 DEF Fits, Ready, Jobs, TypeOK
    <2>5. JobInv'
      BY <1>2, <1>3, <1>4, <1>5, <2>1, <2>3, <2>4
      DEF JobInv, Fits, Ready, document, storage, Jobs
    <2> QED BY <1>1, <1>4, <1>5, <2>4, <2>5, FrameKeepsPanel DEF document, TypeOK
  <1>6. CASE j.kind = "document" /\ UNCHANGED storage
             /\ LET c == IF j.file = NoFile THEN SourceContent ELSE disk[j.file] IN
                  c # NoScenario /\ job' = [job EXCEPT ![w].content = c]
    <2> DEFINE c == IF j.file = NoFile THEN SourceContent ELSE disk[j.file]
    <2>1. job' = [job EXCEPT ![w].content = c] /\ c \in Contents
      <3>1. SourceContent \in Contents
        BY PanelAssumption DEF SourceContent, Contents
      <3>2. j.file \in Files \cup {NoFile}
        BY <1>3 DEF Fits, Jobs
      <3> QED BY <1>1, <1>6, <3>1, <3>2 DEF TypeOK
    <2>2. job[w] \in Jobs
      BY <1>3 DEF Fits
    <2>3. job' \in [Workers -> Jobs \cup {NoJob}] /\ Fits(job'[w]) /\ Ready(job'[w])
      BY <1>1, <1>6, <2>1, <2>2 DEF Fits, Ready, Jobs, TypeOK
    <2>4. JobInv'
      BY <1>2, <1>3, <1>4, <1>6, <2>1, <2>2, <2>3
      DEF JobInv, Fits, Ready, document, storage, Jobs
    <2> QED BY <1>1, <1>4, <1>6, <2>3, <2>4, FrameKeepsPanel DEF document, TypeOK
  <1>7. CASE j.kind \in {"evaluate", "plane"} /\ UNCHANGED <<storage, job>>
    <2>1. JobInv'
      BY <1>2, <1>3, <1>4, <1>7 DEF JobInv, Fits, Ready, document
    <2> QED BY <1>1, <1>4, <1>7, <2>1, FrameKeepsPanel DEF document, TypeOK
  <1>8. CASE /\ j.kind = "save"
             /\ disk' = [disk EXCEPT ![j.file] = j.content]
             /\ overwritten' = (overwritten \/ (~j.current /\ j.file = own))
             /\ UNCHANGED <<job, own>>
    <2>1. j.content \in Contents /\ j.file \in Files /\ (j.current => j.content = scenario)
      BY <1>3, <1>8 DEF Fits
    <2>2. disk' \in [Files -> Contents \cup {NoScenario}] /\ disk'[j.file] = j.content
      BY <1>1, <1>8, <2>1 DEF TypeOK
    <2>3. JobInv'
      BY <1>2, <1>3, <1>4, <1>8, <2>2 DEF JobInv, Fits, Ready, document
    <2>4. TypeOK'
      BY <1>1, <1>3, <1>4, <1>8, <2>2 DEF TypeOK, SlotInv, document, table, Fits, Jobs
    <2>5. CleanIsStored'
      BY <1>1, <1>4, <1>8, <2>1, <2>2 DEF CleanIsStored, document, TypeOK
    <2>6. DialogInv' /\ AutoSaveInv' /\ TableInv' /\ PlanAnswersRequest'
          /\ PanelFitsDocument' /\ ResultsDescribeScenario'
      BY <1>4 DEF PanelInv, DialogInv, AutoSaveInv, TableInv, PlanAnswersRequest, Request,
                  PanelFitsDocument, ResultsDescribeScenario, document, table
    <2> QED BY <2>3, <2>4, <2>5, <2>6 DEF PanelInv
  <1> QED BY <1>5, <1>6, <1>7, <1>8 DEF PanelReturns

LEMMA PanelPoolKeepsPanel ==
  ASSUME PanelInv, SlotInv', NEW w \in Workers, PanelPool(w)
  PROVE  PanelInv'
  <1>1. SlotInv /\ JobInv /\ TypeOK
    BY DEF PanelInv
  <1>2. CASE (PoolStarts(w) \/ EmitResult(w) \/ FunctionRaises(w) \/ EmitFinished(w))
             /\ UNCHANGED panelVars
    <2>1. Pool(w) /\ UNCHANGED <<scenario, disk, dialog, job>>
      BY <1>2 DEF Pool, panelVars, document, storage
    <2>2. ~FunctionReturns(w)
      BY <1>1, <1>2 DEF PoolStarts, EmitResult, FunctionRaises, EmitFinished,
                        FunctionReturns, TypeOK, LifecycleTypeOK
    <2>3. job \in [Workers -> Jobs \cup {NoJob}]
      BY <1>1 DEF TypeOK
    <2>4. JobInv'
      BY <1>1, <2>1, <2>2, <2>3, PoolKeepsJob
    <2> QED BY <1>1, <1>2, <2>3, <2>4, FrameKeepsPanel DEF panelVars, document, TypeOK
  <1> QED BY <1>2, ReturnKeepsPanel DEF PanelPool

-----------------------------------------------------------------------------
(* The theorems.                                                           *)

LEMMA PanelInvInit == Init => PanelInv
  <1> SUFFICES ASSUME Init PROVE PanelInv
    OBVIOUS
  <1>1. SlotInv
    BY SlotInvInit DEF Init
  <1>2. TypeOK
    BY <1>1, PanelAssumption DEF Init, TypeOK, SlotInv
  <1>3. JobInv /\ DialogInv /\ TableInv /\ AutoSaveInv
    BY DEF Init, LifecycleInit, JobInv, DialogInv, TableInv, AutoSaveInv
  <1>4. PlanAnswersRequest /\ PanelFitsDocument /\ ResultsDescribeScenario /\ CleanIsStored
    BY DEF Init, PlanAnswersRequest, PanelFitsDocument, ResultsDescribeScenario,
           CleanIsStored
  <1> QED BY <1>1, <1>2, <1>3, <1>4 DEF PanelInv

LEMMA PanelInvNext == PanelInv /\ [Next]_vars => PanelInv'
  <1> SUFFICES ASSUME PanelInv, [Next]_vars PROVE PanelInv'
    OBVIOUS
  <1>1. SlotInv'
    BY PanelKeepsSlot DEF PanelInv
  <1>2. CASE OpenEditor \/ CommitEditor \/ FireFill \/ EditDetached
             \/ (\E o \in Options : ChooseOption(o))
             \/ (\E t \in Matrices, o \in Options : AnswerTargets(t, o)) \/ Dismiss
    BY <1>1, <1>2, EditingIsTableStep, TableStepKeepsPanel
  <1>3. CASE AskTargets \/ AskSave
    BY <1>1, <1>3, AskingKeepsPanel
  <1>4. CASE Calculate \/ (\E f \in Files : AnswerSave(f))
             \/ (\E f \in Files \cup {NoFile} : OpenDocument(f))
             \/ (\E f \in Files : Save(f)) \/ (\E f \in Files : Evaluate(f))
             \/ LoadPlane \/ (\E f \in Files : FireAutoSave(f))
    BY <1>1, <1>4, StartingKeepsPanel
  <1>5. CASE Apply
    BY <1>1, <1>5, ApplyKeepsPanel
  <1>6. CASE \E d \in Designs : Edit(d)
    BY <1>1, <1>6, EditKeepsPanel
  <1>7. CASE Cancel \/ PanelError \/ PanelFinished
    BY <1>1, <1>7, SignalKeepsPanel
  <1>8. CASE PanelResult
    BY <1>1, <1>8, ResultKeepsPanel
  <1>9. CASE \E w \in Workers : PanelPool(w)
    BY <1>1, <1>9, PanelPoolKeepsPanel
  <1>10. CASE UNCHANGED vars
    <2>1. Quiescent /\ UNCHANGED panelVars
      BY <1>10 DEF vars, panelVars, Quiescent
    <2>2. JobInv'
      BY <2>1, StillKeepsJob DEF PanelInv, panelVars, document, storage
    <2> QED BY <1>1, <2>1, <2>2, FrameKeepsPanel DEF panelVars, document, PanelInv, TypeOK
  <1> QED BY <1>2, <1>3, <1>4, <1>5, <1>6, <1>7, <1>8, <1>9, <1>10 DEF Next

\* The inductive invariant of the panel: what is posted belongs to the job in the
\* slot, the job still fits the document, and the table and the plan fit both.
THEOREM PanelInvariant == Spec => []PanelInv
  BY PanelInvInit, PanelInvNext, PTL DEF Spec

\* Document, table, plan, dialogs and jobs keep their types for any designs, tables,
\* options and files.
THEOREM PanelTypeCorrect == Spec => []TypeOK
  <1>1. PanelInv => TypeOK
    BY DEF PanelInv
  <1> QED BY <1>1, PanelInvariant, PTL

\* The plan on show answers the request in the panel, whatever was typed, chosen or
\* opened while it was computed.
THEOREM PlansAnswer == Spec => []PlanAnswersRequest
  <1>1. PanelInv => PlanAnswersRequest
    BY DEF PanelInv
  <1> QED BY <1>1, PanelInvariant, PTL

\* Table and plan belong to the open scenario, though editors and timers write into
\* the table after another was opened.
THEOREM PanelFits == Spec => []PanelFitsDocument
  <1>1. PanelInv => PanelFitsDocument
    BY DEF PanelInv
  <1> QED BY <1>1, PanelInvariant, PTL

\* No result of an earlier scenario stays on show after an Apply, an edit or a load.
THEOREM PanelResultsAreCurrent == Spec => []ResultsDescribeScenario
  <1>1. PanelInv => ResultsDescribeScenario
    BY DEF PanelInv
  <1> QED BY <1>1, PanelInvariant, PTL

\* A clean document is in its file, though unapplied plans are saved too.
THEOREM CleanIsInFile == Spec => []CleanIsStored
  <1>1. PanelInv => CleanIsStored
    BY DEF PanelInv
  <1> QED BY <1>1, PanelInvariant, PTL

\* What is offered for a save is the plan on show, for the scenario it is for.
THEOREM SavesAreOffered == Spec => SavesWhatIsOffered
  <1>1. ASSUME PanelInv, [Next]_vars, dialog = NoDialog, dialog' # NoDialog,
               dialog'.kind = "save"
        PROVE  /\ plan.request = Request
               /\ dialog'.content = plan.output
               /\ scenario \in {plan.input, plan.output}
    <2>1. CASE AskSave
      <3>1. PICK c \in ToSave, o \in BOOLEAN :
              dialog' = [kind |-> "save", content |-> c, own |-> o]
        BY <2>1 DEF AskSave
      <3>2. plan # NoPlan
        BY <2>1 DEF AskSave
      <3> QED BY <1>1, <3>1, <3>2 DEF ToSave, Applied, PlanAnswersRequest, PanelInv
    <2>2. CASE AskTargets
      BY <1>1, <2>2 DEF AskTargets
    <2>3. ~(OpenEditor \/ CommitEditor \/ FireFill \/ EditDetached
            \/ (\E o \in Options : ChooseOption(o)) \/ Calculate \/ Apply
            \/ (\E d \in Designs : Edit(d))
            \/ (\E f \in Files \cup {NoFile} : OpenDocument(f))
            \/ (\E f \in Files : Save(f)) \/ (\E f \in Files : Evaluate(f)) \/ LoadPlane
            \/ (\E f \in Files : FireAutoSave(f)))
      BY <1>1 DEF OpenEditor, CommitEditor, FireFill, EditDetached, ChooseOption, Calculate,
                  Apply, Edit, OpenDocument, Save, Evaluate, LoadPlane, FireAutoSave
    <2>4. ~((\E t \in Matrices, o \in Options : AnswerTargets(t, o)) \/ Dismiss
            \/ (\E f \in Files : AnswerSave(f)))
      BY <1>1 DEF AnswerTargets, Dismiss, AnswerSave
    <2>5. ~(Cancel \/ PanelResult \/ PanelError \/ PanelFinished
            \/ (\E w \in Workers : PanelPool(w)) \/ UNCHANGED vars)
      BY <1>1 DEF Cancel, PanelResult, PanelError, PanelFinished, PanelPool, PanelReturns,
                  panelVars, vars
    <2> QED BY <1>1, <2>1, <2>2, <2>3, <2>4, <2>5 DEF Next
  <1>2. PanelInv /\ [Next]_vars =>
          [dialog = NoDialog /\ dialog' # NoDialog /\ dialog'.kind = "save" =>
             /\ plan.request = Request
             /\ dialog'.content = plan.output
             /\ scenario \in {plan.input, plan.output}]_vars
    BY <1>1
  <1> QED BY <1>2, PanelInvariant, PTL DEF Spec, SavesWhatIsOffered
=============================================================================
