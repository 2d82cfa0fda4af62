--------------------------- MODULE MainWindowProofs ---------------------------
(***************************************************************************)
(* Proofs about MainWindow, for every set of designs, files and workers and *)
(* every bound.                                                            *)
(***************************************************************************)
EXTENDS MainWindow, WorkerLifecycleProofs, FiniteSetTheorems, WellFoundedInduction

\* What a handler does to the worker slot when it starts a job: nothing, or what
\* _run_worker does.
LEMMA StartJobIsRun ==
  ASSUME NEW j, NEW c \in BOOLEAN, StartJob(j, c)
  PROVE  [LifecycleNext]_lifecycleVars
  BY DEF StartJob, LifecycleNext

LEMMA QuiescentIsStutter ==
  ASSUME Quiescent
  PROVE  [LifecycleNext]_lifecycleVars
  BY DEF Quiescent

LEMMA WindowStepIsLifecycleStep ==
  ASSUME [Next]_vars
  PROVE  [LifecycleNext]_lifecycleVars
  <1>1. CASE \E k \in {"open", "import"} : AskOpen(k)
    BY <1>1, QuiescentIsStutter DEF AskOpen
  <1>2. CASE \E f \in Files : AnswerOpen(f)
    BY <1>2, StartJobIsRun DEF AnswerOpen
  <1>3. CASE AnswerImport
    BY <1>3, StartJobIsRun DEF AnswerImport
  <1>4. CASE Dismiss
    BY <1>4, QuiescentIsStutter DEF Dismiss
  <1>5. CASE \E f \in Files : Save(f)
    BY <1>5, StartJobIsRun DEF Save
  <1>6. CASE \E k \in {"edit", "colour"} : AskEdit(k)
    BY <1>6, QuiescentIsStutter DEF AskEdit
  <1>7. CASE \E d \in Designs : AnswerEdit(d)
    BY <1>7, QuiescentIsStutter DEF AnswerEdit
  <1>8. CASE \E c \in Colours : AnswerColour(c)
    BY <1>8, QuiescentIsStutter DEF AnswerColour
  <1>9. CASE Select
    BY <1>9, QuiescentIsStutter DEF Select
  <1>10. CASE RunEvaluation
    BY <1>10, StartJobIsRun DEF RunEvaluation
  <1>11. CASE AnswerPartial
    BY <1>11, QuiescentIsStutter DEF AnswerPartial
  <1>12. CASE \E f \in Files : AnswerLaunch(f)
    BY <1>12, StartJobIsRun DEF AnswerLaunch
  <1>13. CASE AnswerRelink
    BY <1>13, QuiescentIsStutter DEF AnswerRelink
  <1>14. CASE Cancel
    BY <1>14 DEF Cancel, LifecycleNext
  <1>15. CASE Close
    BY <1>15, QuiescentIsStutter DEF Close
  <1>16. CASE AnswerClose
    BY <1>16, QuiescentIsStutter DEF AnswerClose
  <1>17. CASE \E f \in Files : FireAutoSave(f)
    BY <1>17, StartJobIsRun DEF FireAutoSave
  <1>18. CASE FireRelink
    BY <1>18, StartJobIsRun DEF FireRelink
  <1>19. CASE LoadPlaneLayer
    BY <1>19, StartJobIsRun DEF LoadPlaneLayer
  <1>20. CASE SkipPlaneLayer
    BY <1>20, QuiescentIsStutter DEF SkipPlaneLayer
  <1>21. CASE WindowResult
    BY <1>21 DEF WindowResult, LifecycleNext, Deliver
  <1>22. CASE WindowError
    BY <1>22 DEF WindowError, LifecycleNext, Deliver
  <1>23. CASE WindowFinished
    BY <1>23 DEF WindowFinished, FinishAndEvaluate, FinishAndWait, LifecycleNext, Deliver
  <1>24. ASSUME NEW w \in Workers, WindowPool(w)
         PROVE  Pool(w)
    BY <1>24 DEF WindowPool, WindowReturns, WindowRaises, Pool
  <1>25. CASE \E w \in Workers : WindowPool(w)
    BY <1>24, <1>25 DEF LifecycleNext
  <1>26. CASE UNCHANGED vars
    BY <1>26 DEF vars
  <1> QED BY <1>1, <1>2, <1>3, <1>4, <1>5, <1>6, <1>7, <1>8, <1>9, <1>10, <1>11,
             <1>12, <1>13, <1>14, <1>15, <1>16, <1>17, <1>18, <1>19, <1>20,
             <1>21, <1>22, <1>23, <1>25, <1>26 DEF Next

\* Every handler of the window uses the worker slot as WorkerLifecycle says.
THEOREM WindowKeepsLifecycle == Spec => KeepsLifecycle
  <1>1. Init => LifecycleInit
    BY DEF Init
  <1>2. [Next]_vars => [LifecycleNext]_lifecycleVars
    BY WindowStepIsLifecycleStep
  <1> QED BY <1>1, <1>2, PTL DEF Spec, KeepsLifecycle

\* The window keeps the slot exact, whatever its dialogs and timers do.
LEMMA WindowSlotInvariant == Spec => []SlotInv
  <1>1. Init => SlotInv
    BY SlotInvInit DEF Init
  <1>2. SlotInv /\ [Next]_vars => SlotInv'
    BY SlotInvNext, WindowStepIsLifecycleStep
  <1> QED BY <1>1, <1>2, PTL DEF Spec

\* Nothing runs and nothing is posted but by the worker in the slot, whatever the
\* window does meanwhile.
THEOREM WindowSlotIsExact == Spec => []SlotOwnsEverything
  BY SlotInvIsExact, WindowSlotInvariant, PTL

\* The window is told of one outcome at most, and of the end after it.
THEOREM WindowOutcomeThenEnd == Spec => []OneOutcomeThenEnd
  BY SlotInvOrdersSignals, WindowSlotInvariant, PTL

\* The slot of the window implements the abstract operation, though its handlers start
\* workers from dialogs, from timers and from the end of another worker.
THEOREM WindowImplementsOperation == Spec => OperationSpec
  <1>1. Init => Operation!OpInit
    BY SlotInitIsOperationInit DEF Init
  <1>2. SlotInv /\ [Next]_vars => [Operation!OpNext]_(Operation!opVars)
    BY SlotStepIsOperationStep, WindowStepIsLifecycleStep
  <1> QED BY <1>1, <1>2, WindowSlotInvariant, PTL DEF Spec, OperationSpec, Operation!OpSpec

-----------------------------------------------------------------------------
(* The results on show.                                                    *)

\* What a step may do without touching what the results describe.
SameResults ==
  /\ batch' = batch
  /\ scenario'.design = scenario.design
  /\ scenario'.revision = scenario.revision

LEMMA SameResultsKeep ==
  ASSUME ResultsDescribeDesign, SameResults \/ batch' = NoValue
  PROVE  ResultsDescribeDesign'
  BY DEF ResultsDescribeDesign, SameResults

\* A step that does not replace the scenario and keeps or clears the results.
LEMMA SameScenarioKeeps ==
  ASSUME ResultsDescribeDesign, scenario' = scenario, batch' \in {batch, NoValue}
  PROVE  ResultsDescribeDesign'
  BY DEF ResultsDescribeDesign

LEMMA ResultHandlerKeepsResults ==
  ASSUME ResultsDescribeDesign, NEW j, OnResult(j)
  PROVE  ResultsDescribeDesign'
  <1>1. CASE AcceptDocument(j)
    BY <1>1, SameResultsKeep DEF AcceptDocument, Invalidate
  <1>2. CASE AcceptSaved(j)
    BY <1>2, SameScenarioKeeps DEF AcceptSaved, evaluation
  <1>3. CASE AcceptPreflight(j)
    BY <1>3, SameScenarioKeeps DEF AcceptPreflight, Invalidate, document
  <1>4. CASE AcceptEvaluation(j)
    <2>1. CASE Matches(j) /\ j.value.converged
      BY <1>4, <2>1 DEF AcceptEvaluation, ResultsDescribeDesign, New, Scenario
    <2>2. CASE ~(Matches(j) /\ j.value.converged)
      BY <1>4, <2>2, SameResultsKeep DEF AcceptEvaluation, Invalidate
    <2> QED BY <2>1, <2>2
  <1>5. CASE AcceptPlane(j)
    BY <1>5, SameScenarioKeeps DEF AcceptPlane, document, evaluation
  <1> QED BY <1>1, <1>2, <1>3, <1>4, <1>5 DEF OnResult

\* The results on show describe the open design, for every number of workers,
\* dialogs, designs and files.
THEOREM ResultsAreCurrent == Spec => []ResultsDescribeDesign
  <1>1. Init => ResultsDescribeDesign
    BY DEF Init, WindowInit, ResultsDescribeDesign
  <1>2. ASSUME ResultsDescribeDesign, [Next]_vars
        PROVE  ResultsDescribeDesign'
    <2> USE SameScenarioKeeps DEF document, evaluation
    <2>1. CASE \E k \in {"open", "import"} : AskOpen(k)
      BY <1>2, <2>1 DEF AskOpen
    <2>2. CASE (\E f \in Files : AnswerOpen(f)) \/ AnswerImport \/ Dismiss
      BY <1>2, <2>2 DEF AnswerOpen, AnswerImport, Dismiss
    <2>3. CASE (\E f \in Files : Save(f)) \/ \E k \in {"edit", "colour"} : AskEdit(k)
      BY <1>2, <2>3 DEF Save, AskEdit
    <2>4. CASE \E d \in Designs : AnswerEdit(d)
      BY <1>2, <2>4, SameResultsKeep DEF AnswerEdit, Invalidate
    <2>5. CASE \E c \in Colours : AnswerColour(c)
      BY <1>2, <2>5, SameResultsKeep
      DEF AnswerColour, SameResults, New, Scenario, Content, Invalidate
    <2>6. CASE Select
      BY <1>2, <2>6, SameResultsKeep DEF Select, SameResults, New, Scenario, Content
    <2>7. CASE RunEvaluation \/ AnswerPartial
      BY <1>2, <2>7 DEF RunEvaluation, AnswerPartial
    <2>8. CASE \E f \in Files : AnswerLaunch(f)
      BY <1>2, <2>8 DEF AnswerLaunch, Invalidate
    <2>9. CASE AnswerRelink \/ Cancel \/ Close \/ AnswerClose
      BY <1>2, <2>9 DEF AnswerRelink, Cancel, Close, AnswerClose, windowVars
    <2>10. CASE (\E f \in Files : FireAutoSave(f)) \/ FireRelink
      BY <1>2, <2>10 DEF FireAutoSave, FireRelink
    <2>11. CASE LoadPlaneLayer \/ SkipPlaneLayer
      BY <1>2, <2>11 DEF LoadPlaneLayer, SkipPlaneLayer
    <2>12. CASE WindowResult
      BY <1>2, <2>12, ResultHandlerKeepsResults DEF WindowResult
    <2>13. CASE WindowError \/ WindowFinished
      BY <1>2, <2>13 DEF WindowError, WindowFinished, FinishAndEvaluate, FinishAndWait
    <2>14. CASE \E w \in Workers : WindowPool(w)
      BY <1>2, <2>14 DEF WindowPool, WindowReturns, WindowRaises, windowVars
    <2>15. CASE UNCHANGED vars
      BY <1>2, <2>15 DEF vars, windowVars
    <2> QED BY <1>2, <2>1, <2>2, <2>3, <2>4, <2>5, <2>6, <2>7, <2>8, <2>9, <2>10,
               <2>11, <2>12, <2>13, <2>14, <2>15 DEF Next
  <1> QED BY <1>1, <1>2, PTL DEF Spec

-----------------------------------------------------------------------------
(* Cancellation.                                                           *)

\* A queue that lost its head is neither the queue nor a longer one.
LEMMA TailIsShorter ==
  ASSUME NEW S, NEW s \in Seq(S), s # <<>>
  PROVE  Tail(s) # s /\ \A e \in S : Tail(s) # Append(s, e)
  <1>1. Len(s) \in Nat /\ Len(Tail(s)) = Len(s) - 1
    BY TailFacts
  <1>2. \A e \in S : Len(Append(s, e)) = Len(s) + 1
    BY AppendFacts
  <1>3. Tail(s) # s
    <2>1. SUFFICES ASSUME Tail(s) = s PROVE FALSE
      OBVIOUS
    <2>2. Len(s) = Len(s) - 1
      BY <1>1, <2>1
    <2> QED BY <1>1, <2>2
  <1>4. ASSUME NEW e \in S, Tail(s) = Append(s, e)
        PROVE  FALSE
    <2>1. Len(s) - 1 = Len(s) + 1
      BY <1>1, <1>2, <1>4, Zenon
    <2> QED BY <1>1, <2>1
  <1> QED BY <1>3, <1>4

\* A step that takes a signal from the queue delivers it.
LEMMA TailIsDelivery ==
  ASSUME SlotInv, [Next]_vars, posted # <<>>, posted' = Tail(posted)
  PROVE  WindowResult \/ WindowError \/ WindowFinished
  <1> DEFINE Sig == [kind : Kinds, worker : Workers]
  <1>1. posted \in Seq(Sig)
    BY DEF SlotInv, LifecycleTypeOK
  <1>2. posted' # posted /\ \A e \in Sig : posted' # Append(posted, e)
    BY <1>1, TailIsShorter
  <1>3. ASSUME NEW j, NEW c \in BOOLEAN, StartJob(j, c)
        PROVE  FALSE
    BY <1>2, <1>3 DEF StartJob, RunWorker, lifecycleVars
  <1>4. ASSUME Quiescent \/ CancelWorker
        PROVE  FALSE
    BY <1>2, <1>4 DEF Quiescent, CancelWorker, lifecycleVars
  <1>5. ASSUME NEW w \in Workers, Pool(w)
        PROVE  FALSE
    <2>1. \A k \in Kinds : posted' # Append(posted, Signal(k, w))
      BY <1>2 DEF Signal
    <2>2. ASSUME NEW k \in Kinds, posted' = Append(posted, Signal(k, w))
          PROVE  FALSE
      BY <2>1, <2>2
    <2>3. CASE PoolStarts(w) \/ FunctionReturns(w)
      BY <1>2, <2>3 DEF PoolStarts, FunctionReturns
    <2>4. CASE EmitResult(w)
      BY <2>2, <2>4 DEF EmitResult, Kinds
    <2>5. CASE FunctionRaises(w)
      BY <2>2, <2>5 DEF FunctionRaises, Kinds
    <2>6. CASE EmitFinished(w)
      BY <2>2, <2>6 DEF EmitFinished, Kinds
    <2> QED BY <1>5, <2>3, <2>4, <2>5, <2>6 DEF Pool
  <1>6. ASSUME NEW w \in Workers, WindowPool(w)
        PROVE  FALSE
    BY <1>5, <1>6 DEF WindowPool, WindowReturns, WindowRaises, Pool
  <1>7. ASSUME UNCHANGED vars
        PROVE  FALSE
    BY <1>2, <1>7 DEF vars, lifecycleVars
  <1>8. ~((\E f \in Files : AnswerOpen(f)) \/ AnswerImport \/ (\E f \in Files : Save(f))
          \/ RunEvaluation \/ (\E f \in Files : AnswerLaunch(f))
          \/ (\E f \in Files : FireAutoSave(f)) \/ (FireRelink)
          \/ LoadPlaneLayer)
    BY <1>3 DEF AnswerOpen, AnswerImport, Save, RunEvaluation, AnswerLaunch,
                FireAutoSave, FireRelink, LoadPlaneLayer
  <1>9. ~((\E k \in {"open", "import"} : AskOpen(k)) \/ Dismiss
          \/ (\E k \in {"edit", "colour"} : AskEdit(k))
          \/ (\E d \in Designs : AnswerEdit(d)) \/ (\E c \in Colours : AnswerColour(c))
          \/ Select \/ AnswerPartial \/ AnswerRelink \/ Cancel \/ Close \/ AnswerClose
          \/ SkipPlaneLayer)
    BY <1>4 DEF AskOpen, Dismiss, AskEdit, AnswerEdit, AnswerColour, Select,
                AnswerPartial, AnswerRelink, Cancel, Close, AnswerClose, SkipPlaneLayer
  <1> QED BY <1>6, <1>7, <1>8, <1>9 DEF Next

\* Once Cancel was pressed, nothing its worker still reports touches the document,
\* its file or the results, for every number of workers and dialogs.
THEOREM CancellationIsClean == Spec => CancelledLeavesDocument
  <1>1. ASSUME SlotInv, [Next]_vars,
               cancelRequested, posted # <<>>, posted' = Tail(posted)
        PROVE  UNCHANGED <<document, batch, disk>>
    <2>1. CASE WindowResult
      BY <1>1, <2>1 DEF WindowResult, AcceptsResult, document, evaluation, environment
    <2>2. CASE WindowError
      BY <1>1, <2>2 DEF WindowError, document, evaluation, environment
    <2>3. CASE WindowFinished
      BY <1>1, <2>3 DEF WindowFinished, FinishAndEvaluate, FinishAndWait, Launches,
                        document, environment
    <2> QED BY <1>1, <2>1, <2>2, <2>3, TailIsDelivery
  <1>2. SlotInv /\ [Next]_vars =>
          [cancelRequested /\ posted # <<>> /\ posted' = Tail(posted)
             => UNCHANGED <<document, batch, disk>>]_vars
    BY <1>1
  <1> QED BY <1>2, WindowSlotInvariant, PTL DEF Spec, CancelledLeavesDocument

-----------------------------------------------------------------------------
(* What the window knows of its document, its dialogs and its worker.      *)

Shown == {frames[i] : i \in DOMAIN frames}

SaveKinds == {"save", "autosave"}

\* Whatever may become the open scenario, or is written to a file, is a scenario.
ContentInv ==
  /\ scenario # NoScenario => Content(scenario) \in Contents
  /\ pending # NoRequest =>
       Content(pending.scenario) \in Contents /\ Content(scenario) \in Contents
  /\ disk \in [Files -> Contents \cup {NoScenario}]
  /\ "autosave" \in timers => Content(scenario) \in Contents
  /\ retry # NoRequest => retry.file \in Files
  /\ base.file \in Files \cup {NoFile}

FrameFits(f) ==
  /\ f.kind \in {"edit", "colour", "partial", "launch"} => Content(scenario) \in Contents
  /\ f.kind \in {"partial", "launch"} => Content(f.request.scenario) \in Contents
  /\ f.kind = "relink" => f.file \in Files

FrameInv == frames \in Seq(Shown) /\ \A f \in Shown : FrameFits(f)

IsJob(j) ==
  j = [kind |-> j.kind, scenario |-> j.scenario, file |-> j.file, asked |-> j.asked,
       value |-> j.value]

\* What a job in the slot was started with.  As long as the document is clean, what
\* a save writes is what is open; the captures stay in any case.
Fits(j) ==
  /\ IsJob(j)
  /\ j.kind \in JobKinds
  /\ j.kind \in LoadKinds \cup SaveKinds => j.file \in Files
  /\ j.kind = "import" => j.file = NoFile
  /\ j.kind \in SaveKinds =>
       /\ j.scenario \in Contents
       /\ scenario.captured = j.scenario.captured
       /\ ~dirty => Design(scenario) = Design(j.scenario)
  /\ j.kind \in SaveKinds \cup {"preflight", "evaluate"} => Content(scenario) \in Contents
  /\ j.kind = "preflight" => Content(j.scenario) \in Contents
  /\ j.kind = "evaluate" => j.scenario \in Contents /\ j.scenario.captured

\* What its function has brought about once it returned.
Ready(j) ==
  /\ j.kind \in LoadKinds => j.value.content = disk[j.file]
  /\ j.kind \in DocumentKinds => j.value.content \in Contents
  /\ j.kind \in SaveKinds => disk[j.file] = j.scenario
  /\ j.kind = "evaluate" =>
       /\ j.value.content \in Contents
       /\ j.value.content.design = j.scenario.design
       /\ j.value.content.revision >= j.scenario.revision
       /\ j.value.content.captured
       /\ j.value.content.colour = j.scenario.colour

JobInv ==
  /\ DOMAIN job = Workers
  /\ worker # NoWorker =>
       Fits(job[worker]) /\ (HasReturned => Ready(job[worker]))

AskKinds == {"open", "import", "relink"}

\* The designs the user was asked about by whatever may replace the document.
Askings ==
  {f.asked : f \in {g \in Shown : g.kind \in AskKinds}}
    \cup (IF retry # NoRequest THEN {retry.asked} ELSE {})
    \cup (IF worker # NoWorker /\ job[worker].kind \in DocumentKinds
          THEN {job[worker].asked} ELSE {})

Consents(a) ==
  Content(scenario) \in Contents =>
    scenario.design = base.content.design \/ a = scenario.design

NoEdit == \A f \in Shown : f.kind # "edit"

SaveIsCurrent ==
  worker # NoWorker /\ job[worker].kind \in SaveKinds =>
    job[worker].scenario.design = scenario.design

\* While the document may be replaced nothing edits it, and a save leaves it as it is.
ConsentInv ==
  /\ \A a \in Askings : Consents(a)
  /\ Askings # {} => NoEdit /\ SaveIsCurrent

\* CleanMeansStored, said of any open scenario.
StoredInv ==
  Content(scenario) \in Contents /\ ~dirty =>
    /\ Design(scenario) = Design(base.content)
    /\ base.file # NoFile =>
         /\ path = base.file
         /\ disk[path] # NoScenario
         /\ Design(disk[path]) = Design(scenario)

WindowInv ==
  /\ SlotInv
  /\ ContentInv
  /\ FrameInv
  /\ JobInv
  /\ ConsentInv
  /\ StoredInv

-----------------------------------------------------------------------------
(* Dialogs.                                                                *)

\* A sequence is one of its own elements.
LEMMA SequenceOfItsOwn ==
  ASSUME NEW S, NEW s \in Seq(S)
  PROVE  s \in Seq({s[i] : i \in DOMAIN s})
  OBVIOUS

\* A dialog that opens is the only new one.
LEMMA PushShows ==
  ASSUME frames \in Seq(Shown), NEW f, Push(f)
  PROVE  frames' \in Seq(Shown') /\ Shown' \subseteq Shown \cup {f}
  <1>1. CASE frames' = frames
    BY <1>1 DEF Shown
  <1>2. CASE frames' = Append(frames, f)
    <2> DEFINE S == Shown \cup {f}
    <2>1. frames \in Seq(S) /\ f \in S
      OBVIOUS
    <2> HIDE DEF S
    <2>2. Append(frames, f) \in Seq(S)
      BY <2>1
    <2>3. \A i \in DOMAIN frames' : frames'[i] \in S
      BY <1>2, <2>2
    <2>4. frames' \in Seq({frames'[i] : i \in DOMAIN frames'})
      BY <1>2, <2>2, SequenceOfItsOwn
    <2> QED BY <2>3, <2>4 DEF S, Shown
  <1> QED BY <1>1, <1>2 DEF Push

\* A dialog that closes was the innermost one.
LEMMA PopShows ==
  ASSUME frames \in Seq(Shown), frames # <<>>, Pop
  PROVE  /\ frames' \in Seq(Shown') /\ Shown' \subseteq Shown
         /\ Innermost \in Shown
  <1> DEFINE S == Shown
  <1>1. frames \in Seq(S)
    OBVIOUS
  <1>2. \A i \in DOMAIN frames : frames[i] \in S
    BY DEF Shown
  <1> HIDE DEF S
  <1>3. /\ Len(frames) \in Nat /\ Len(frames) >= 1
        /\ DOMAIN frames = 1..Len(frames)
    BY <1>1
  <1>4. Innermost \in S
    BY <1>2, <1>3 DEF Innermost
  <1>5. SubSeq(frames, 1, Len(frames) - 1) \in Seq(S)
    BY <1>1, <1>3
  <1>6. \A i \in DOMAIN frames' : frames'[i] \in S
    BY <1>5 DEF Pop
  <1>7. frames' \in Seq({frames'[i] : i \in DOMAIN frames'})
    <2>1. frames' \in Seq(S)
      BY <1>5 DEF Pop
    <2> QED BY <2>1, SequenceOfItsOwn
  <1> QED BY <1>4, <1>6, <1>7 DEF S, Shown

\* The open scenario stays one.
StaysScenario == Content(scenario) \in Contents => Content(scenario)' \in Contents

LEMMA SameFramesKeep ==
  ASSUME FrameInv, frames' = frames, StaysScenario
  PROVE  FrameInv' /\ Shown' = Shown
  BY DEF FrameInv, FrameFits, Shown, StaysScenario

LEMMA PushKeepsFrames ==
  ASSUME FrameInv, scenario' = scenario, NEW f, FrameFits(f), Push(f)
  PROVE  FrameInv' /\ Shown' \subseteq Shown \cup {f}
  <1>1. frames' \in Seq(Shown') /\ Shown' \subseteq Shown \cup {f}
    BY PushShows DEF FrameInv
  <1>2. \A g : FrameFits(g) => FrameFits(g)'
    BY DEF FrameFits
  <1> QED BY <1>1, <1>2 DEF FrameInv

LEMMA PopKeepsFrames ==
  ASSUME FrameInv, StaysScenario, frames # <<>>, Pop
  PROVE  FrameInv' /\ Shown' \subseteq Shown /\ Innermost \in Shown /\ FrameFits(Innermost)
  <1>1. frames' \in Seq(Shown') /\ Shown' \subseteq Shown /\ Innermost \in Shown
    BY PopShows DEF FrameInv
  <1>2. \A g : FrameFits(g) => FrameFits(g)'
    BY DEF FrameFits, StaysScenario
  <1> QED BY <1>1, <1>2 DEF FrameInv

-----------------------------------------------------------------------------
(* The job in the slot.                                                    *)

\* A step that may edit the document, and then says so.
KeepsSaves ==
  /\ StaysScenario
  /\ Content(scenario) \in Contents => scenario'.captured = scenario.captured
  /\ ~dirty' => ~dirty /\ Design(scenario') = Design(scenario)

LEMMA SameSceneKeeps ==
  ASSUME scenario' = scenario, dirty' = dirty
  PROVE  KeepsSaves /\ StaysScenario
  BY DEF KeepsSaves, StaysScenario, Design

LEMMA KeepsFits ==
  ASSUME KeepsSaves, NEW j, Fits(j)
  PROVE  Fits(j)'
  BY DEF KeepsSaves, StaysScenario, Fits, IsJob

LEMMA StillKeepsJob ==
  ASSUME JobInv, UNCHANGED <<worker, job, disk>>, KeepsSaves, HasReturned' => HasReturned
  PROVE  JobInv'
  <1>1. \A j : Fits(j) => Fits(j)'
    BY KeepsFits
  <1>2. \A j : Ready(j) => Ready(j)'
    BY DEF Ready
  <1> QED BY <1>1, <1>2 DEF JobInv

LEMMA QuietKeepsJob ==
  ASSUME JobInv, Quiescent, disk' = disk, KeepsSaves
  PROVE  JobInv'
  BY StillKeepsJob DEF Quiescent, lifecycleVars, HasReturned

LEMMA StartKeepsJob ==
  ASSUME SlotInv, JobInv, NEW j, NEW c \in BOOLEAN, StartJob(j, c), Fits(j),
         UNCHANGED <<scenario, dirty, disk>>
  PROVE  JobInv'
  <1>1. CASE Quiescent
    BY <1>1, QuietKeepsJob, SameSceneKeeps
  <1>2. ASSUME NEW w \in Workers, RunWorker(w, c), job' = [job EXCEPT ![w] = j]
        PROVE  JobInv'
    <2>1. worker' = w /\ ~HasReturned'
      BY <1>2, StartIsFresh
    <2>2. job'[w] = j /\ DOMAIN job' = Workers
      BY <1>2 DEF JobInv
    <2>3. Fits(j)'
      BY KeepsFits, SameSceneKeeps
    <2> QED BY <2>1, <2>2, <2>3 DEF JobInv
  <1> QED BY <1>1, <1>2 DEF StartJob, Quiescent

-----------------------------------------------------------------------------
(* Consent.                                                                *)

LEMMA ConsentKeeps ==
  ASSUME ConsentInv, Askings' \subseteq Askings,
         \A a \in Askings : Consents(a) => Consents(a)',
         Askings # {} /\ NoEdit => NoEdit',
         Askings # {} /\ SaveIsCurrent => SaveIsCurrent'
  PROVE  ConsentInv'
  BY DEF ConsentInv

\* Nothing is about to replace the document.
LEMMA NothingAsked == ASSUME Askings' = {} PROVE ConsentInv'
  BY DEF ConsentInv

\* The slot and the document stay, and no new question that replaces or edits.
LEMMA StillKeepsConsent ==
  ASSUME ConsentInv, UNCHANGED <<worker, job, scenario, base>>,
         \A f \in Shown' : f \in Shown \/ f.kind \notin AskKinds \cup {"edit"}
                          \/ (f.kind \in AskKinds /\ f.asked \in Askings),
         retry' # NoRequest => retry'.asked \in Askings
  PROVE  ConsentInv'
  <1>1. Askings' \subseteq Askings
    BY DEF Askings
  <1>2. \A a : Consents(a) => Consents(a)'
    BY DEF Consents
  <1>3. NoEdit => NoEdit'
    BY DEF NoEdit, AskKinds
  <1>4. SaveIsCurrent => SaveIsCurrent'
    BY DEF SaveIsCurrent
  <1> QED BY <1>1, <1>2, <1>3, <1>4, ConsentKeeps

LEMMA StartKeepsConsent ==
  ASSUME SlotInv, JobInv, ConsentInv, NEW j, NEW c \in BOOLEAN, StartJob(j, c),
         UNCHANGED <<scenario, base>>, Shown' \subseteq Shown,
         retry' # NoRequest => retry'.asked \in Askings,
         j.kind \in DocumentKinds => j.asked \in Askings,
         j.kind \in SaveKinds => j.scenario.design = scenario.design
  PROVE  ConsentInv'
  <1>1. CASE Quiescent
    BY <1>1, StillKeepsConsent DEF Quiescent, lifecycleVars
  <1>2. ASSUME NEW w \in Workers, RunWorker(w, c), job' = [job EXCEPT ![w] = j]
        PROVE  ConsentInv'
    <2>1. worker' = w /\ job'[w] = j
      BY <1>2, StartIsFresh DEF JobInv
    <2>2. Askings' \subseteq Askings
      BY <2>1 DEF Askings
    <2>3. \A a : Consents(a) => Consents(a)'
      BY DEF Consents
    <2>4. NoEdit => NoEdit'
      BY DEF NoEdit
    <2>5. SaveIsCurrent'
      BY <2>1 DEF SaveIsCurrent
    <2> QED BY <2>2, <2>3, <2>4, <2>5, ConsentKeeps
  <1> QED BY <1>1, <1>2 DEF StartJob, Quiescent

-----------------------------------------------------------------------------
(* Steps that leave the document as it is.                                 *)

\* A request is of a scenario, and left while one is open.
PendingFits ==
  \/ pending' \in {pending, NoRequest}
  \/ Content(pending'.scenario) \in Contents /\ Content(scenario) \in Contents

LEMMA StillWindow ==
  ASSUME WindowInv, SlotInv', FrameInv', JobInv', ConsentInv',
         UNCHANGED <<scenario, dirty, base, disk>>, path' = path \/ path = NoFile,
         PendingFits,
         "autosave" \in timers' => "autosave" \in timers \/ scenario # NoScenario,
         retry' \in {retry, NoRequest} \/ retry'.file \in Files
  PROVE  WindowInv'
  <1>1. ContentInv'
    BY DEF WindowInv, ContentInv, Content, PendingFits
  <1>2. StoredInv'
    BY DEF WindowInv, StoredInv, Design
  <1> QED BY <1>1, <1>2 DEF WindowInv

\* A job the window starts, and what goes with it.
LEMMA StartedWindow ==
  ASSUME WindowInv, SlotInv', FrameInv', Shown' \subseteq Shown,
         NEW j, NEW c \in BOOLEAN, StartJob(j, c), Fits(j),
         UNCHANGED <<scenario, dirty, base, disk>>, path' = path \/ path = NoFile,
         PendingFits,
         timers' \subseteq timers, retry' \in {retry, NoRequest},
         j.kind \in DocumentKinds => j.asked \in Askings,
         j.kind \in SaveKinds => j.scenario.design = scenario.design
  PROVE  WindowInv'
  <1>1. JobInv'
    BY StartKeepsJob DEF WindowInv
  <1>2. retry' # NoRequest => retry'.asked \in Askings
    BY DEF Askings
  <1>3. ConsentInv'
    BY <1>2, StartKeepsConsent DEF WindowInv
  <1> QED BY <1>1, <1>3, StillWindow

\* A dialog that is open may have been asked about the document.
LEMMA InnermostAsks ==
  ASSUME FrameInv, frames # <<>>, Pop, Innermost.kind \in AskKinds
  PROVE  Innermost.asked \in Askings
  BY PopShows DEF FrameInv, Askings

LEMMA AskOpenKeeps ==
  ASSUME WindowInv, SlotInv', NEW k \in {"open", "import"}, AskOpen(k)
  PROVE  WindowInv'
  <1> USE DEF document, evaluation, environment, PendingFits
  <1> DEFINE a == IF dirty THEN scenario.design ELSE NoValue
             f == Frame(k, NoRequest, NoFile, a)
  <1>1. FrameFits(f) /\ f.kind \in AskKinds /\ f.asked = a /\ f.kind # "edit"
    BY DEF Frame, FrameFits, AskKinds
  <1>2. FrameInv' /\ Shown' \subseteq Shown \cup {f}
    BY <1>1, PushKeepsFrames DEF AskOpen, WindowInv
  <1>3. Shown = {} /\ retry' = NoRequest /\ worker' = NoWorker
    BY DEF AskOpen, AtTopLevel, Shown, Quiescent, lifecycleVars
  <1>4. \A x \in {a} : Consents(x)'
    BY DEF WindowInv, StoredInv, Design, Consents, AskOpen
  <1>5. Askings' \subseteq {a} /\ NoEdit' /\ SaveIsCurrent'
    <2> HIDE DEF a, f
    <2> QED BY <1>1, <1>2, <1>3 DEF Askings, NoEdit, SaveIsCurrent
  <1>6. ConsentInv'
    <2> HIDE DEF a, f
    <2> QED BY <1>4, <1>5 DEF ConsentInv
  <1>7. JobInv'
    BY QuietKeepsJob, SameSceneKeeps DEF AskOpen, WindowInv
  <1> QED BY <1>2, <1>6, <1>7, StillWindow DEF AskOpen

LEMMA AnswerOpenKeeps ==
  ASSUME WindowInv, SlotInv', NEW f \in Files, AnswerOpen(f)
  PROVE  WindowInv'
  <1> USE DEF document, evaluation, environment, PendingFits
  <1> DEFINE j == Job("load", NoScenario, f, Innermost.asked)
  <1>1. frames # <<>> /\ Innermost.kind \in AskKinds
    BY DEF AnswerOpen, Waiting, AskKinds
  <1>2. FrameInv' /\ Shown' \subseteq Shown /\ Innermost.asked \in Askings
    BY <1>1, PopKeepsFrames, SameSceneKeeps, InnermostAsks DEF AnswerOpen, WindowInv
  <1>3. Fits(j) /\ j.asked = Innermost.asked /\ j.kind \notin SaveKinds
    BY DEF Fits, IsJob, Job, JobKinds, LoadKinds, SaveKinds
  <1> HIDE DEF j
  <1> QED BY <1>2, <1>3, StartedWindow DEF AnswerOpen, j

LEMMA AnswerImportKeeps ==
  ASSUME WindowInv, SlotInv', AnswerImport
  PROVE  WindowInv'
  <1> USE DEF document, evaluation, environment, PendingFits
  <1> DEFINE j == Job("import", NoScenario, NoFile, Innermost.asked)
  <1>1. frames # <<>> /\ Innermost.kind \in AskKinds
    BY DEF AnswerImport, Waiting, AskKinds
  <1>2. FrameInv' /\ Shown' \subseteq Shown /\ Innermost.asked \in Askings
    BY <1>1, PopKeepsFrames, SameSceneKeeps, InnermostAsks DEF AnswerImport, WindowInv
  <1>3. Fits(j) /\ j.asked = Innermost.asked /\ j.kind \notin SaveKinds
    BY DEF Fits, IsJob, Job, JobKinds, LoadKinds, SaveKinds
  <1> HIDE DEF j
  <1> QED BY <1>2, <1>3, StartedWindow DEF AnswerImport, j

\* A dialog that is closed without a word, or only to close the window.
LEMMA DismissKeeps ==
  ASSUME WindowInv, SlotInv', Dismiss \/ AnswerClose
  PROVE  WindowInv'
  <1> USE DEF document, evaluation, environment, PendingFits
  <1>1. frames # <<>> /\ Pop /\ Quiescent
        /\ UNCHANGED <<document, evaluation, timers, disk, retry>>
    BY DEF Dismiss, AnswerClose, Waiting
  <1>2. FrameInv' /\ Shown' \subseteq Shown
    BY <1>1, PopKeepsFrames, SameSceneKeeps DEF WindowInv
  <1>3. JobInv'
    BY <1>1, QuietKeepsJob, SameSceneKeeps DEF WindowInv
  <1>4. retry' # NoRequest => retry'.asked \in Askings
    BY <1>1 DEF Askings
  <1>5. ConsentInv'
    BY <1>1, <1>2, <1>4, StillKeepsConsent DEF WindowInv, Quiescent, lifecycleVars
  <1> QED BY <1>1, <1>2, <1>3, <1>5, StillWindow

LEMMA AskEditKeeps ==
  ASSUME WindowInv, SlotInv', NEW k \in {"edit", "colour"}, AskEdit(k)
  PROVE  WindowInv'
  <1> USE DEF document, evaluation, environment, PendingFits
  <1> DEFINE f == Frame(k, NoRequest, NoFile, NoValue)
  <1>1. FrameFits(f) /\ f.kind \notin AskKinds
    BY DEF Frame, FrameFits, AskKinds, AskEdit, ControlsEnabled, WindowInv, ContentInv
  <1>2. FrameInv' /\ Shown' \subseteq Shown \cup {f}
    BY <1>1, PushKeepsFrames DEF AskEdit, WindowInv
  <1>3. Shown = {} /\ retry' = NoRequest /\ worker' = NoWorker
    BY DEF AskEdit, AtTopLevel, ControlsEnabled, Shown, Quiescent, lifecycleVars
  <1>4. Askings' = {}
    <2> HIDE DEF f
    <2> QED BY <1>1, <1>2, <1>3 DEF Askings
  <1>5. JobInv'
    BY QuietKeepsJob, SameSceneKeeps DEF AskEdit, WindowInv
  <1> QED BY <1>2, <1>4, <1>5, NothingAsked, StillWindow DEF AskEdit

LEMMA SaveKeeps ==
  ASSUME WindowInv, SlotInv', NEW f \in Files, Save(f)
  PROVE  WindowInv'
  <1> USE DEF document, evaluation, environment, PendingFits
  <1> DEFINE j == Job("save", Content(scenario), f, NoValue)
  <1>1. Content(scenario) \in Contents
    BY DEF Save, ControlsEnabled, WindowInv, ContentInv
  <1>2. Fits(j) /\ j.kind \notin DocumentKinds /\ j.scenario.design = scenario.design
    BY <1>1 DEF Fits, IsJob, Job, JobKinds, LoadKinds, SaveKinds, DocumentKinds,
                Content, Design
  <1>3. FrameInv' /\ Shown' = Shown
    BY SameFramesKeep, SameSceneKeeps DEF Save, WindowInv
  <1> HIDE DEF j
  <1> QED BY <1>2, <1>3, StartedWindow DEF Save, j

LEMMA FireAutoSaveKeeps ==
  ASSUME WindowInv, SlotInv', NEW f \in Files, FireAutoSave(f)
  PROVE  WindowInv'
  <1> USE DEF document, evaluation, environment, PendingFits
  <1> DEFINE j == Job("autosave", Content(scenario), f, NoValue)
  <1>1. Content(scenario) \in Contents
    BY DEF FireAutoSave, WindowInv, ContentInv
  <1>2. Fits(j) /\ j.kind \notin DocumentKinds /\ j.scenario.design = scenario.design
    BY <1>1 DEF Fits, IsJob, Job, JobKinds, LoadKinds, SaveKinds, DocumentKinds,
                Content, Design
  <1>3. FrameInv' /\ Shown' = Shown
    BY SameFramesKeep, SameSceneKeeps DEF FireAutoSave, WindowInv
  <1>4. timers' \subseteq timers
    BY DEF FireAutoSave
  <1> HIDE DEF j
  <1> QED BY <1>2, <1>3, <1>4, StartedWindow DEF FireAutoSave, j

LEMMA FireRelinkKeeps ==
  ASSUME WindowInv, SlotInv', FireRelink
  PROVE  WindowInv'
  <1> USE DEF document, evaluation, environment, PendingFits
  <1> DEFINE j == Job("relink", NoScenario, retry.file, retry.asked)
  <1>1. retry # NoRequest /\ retry.file \in Files
    BY DEF FireRelink, WindowInv, ContentInv
  <1>2. Fits(j) /\ j.kind \notin SaveKinds /\ j.asked \in Askings
    BY <1>1 DEF Fits, IsJob, Job, JobKinds, LoadKinds, SaveKinds, Askings
  <1>3. FrameInv' /\ Shown' = Shown
    BY SameFramesKeep, SameSceneKeeps DEF FireRelink, WindowInv
  <1> HIDE DEF j
  <1> QED BY <1>2, <1>3, StartedWindow DEF FireRelink, j

LEMMA LoadPlaneKeeps ==
  ASSUME WindowInv, SlotInv', LoadPlaneLayer
  PROVE  WindowInv'
  <1> USE DEF document, evaluation, environment, PendingFits
  <1> DEFINE j == Job("plane", NoScenario, NoFile, NoValue)
  <1>1. Fits(j) /\ j.kind \notin SaveKinds \cup DocumentKinds
    BY DEF Fits, IsJob, Job, JobKinds, LoadKinds, SaveKinds, DocumentKinds
  <1>2. FrameInv' /\ Shown' = Shown
    BY SameFramesKeep, SameSceneKeeps DEF LoadPlaneLayer, WindowInv
  <1>3. timers' \subseteq timers
    BY DEF LoadPlaneLayer
  <1> HIDE DEF j
  <1> QED BY <1>1, <1>2, <1>3, StartedWindow DEF LoadPlaneLayer, j

LEMMA RunEvaluationKeeps ==
  ASSUME WindowInv, SlotInv', RunEvaluation
  PROVE  WindowInv'
  <1> USE DEF document, evaluation, environment, PendingFits
  <1> DEFINE j == Job("preflight", scenario, NoFile, NoValue)
  <1>1. Content(scenario) \in Contents
    BY DEF RunEvaluation, ControlsEnabled, WindowInv, ContentInv
  <1>2. Fits(j) /\ j.kind \notin SaveKinds \cup DocumentKinds
    BY <1>1 DEF Fits, IsJob, Job, JobKinds, LoadKinds, SaveKinds, DocumentKinds
  <1>3. FrameInv' /\ Shown' = Shown
    BY SameFramesKeep, SameSceneKeeps DEF RunEvaluation, WindowInv
  <1> HIDE DEF j
  <1> QED BY <1>2, <1>3, StartedWindow DEF RunEvaluation, j

LEMMA AnswerPartialKeeps ==
  ASSUME WindowInv, SlotInv', AnswerPartial
  PROVE  WindowInv'
  <1> USE DEF document, evaluation, environment, PendingFits
  <1>1. frames # <<>> /\ Innermost.kind = "partial"
    BY DEF AnswerPartial, Waiting
  <1>2. FrameInv' /\ Shown' \subseteq Shown /\ FrameFits(Innermost)
    BY <1>1, PopKeepsFrames, SameSceneKeeps DEF AnswerPartial, WindowInv
  <1>3. Content(pending'.scenario) \in Contents /\ Content(scenario) \in Contents
    BY <1>1, <1>2 DEF FrameFits, AnswerPartial
  <1>4. JobInv'
    BY QuietKeepsJob, SameSceneKeeps DEF AnswerPartial, WindowInv
  <1>5. retry' # NoRequest => retry'.asked \in Askings
    BY DEF Askings, AnswerPartial
  <1>6. ConsentInv'
    BY <1>2, <1>5, StillKeepsConsent DEF AnswerPartial, WindowInv, Quiescent, lifecycleVars
  <1> QED BY <1>2, <1>3, <1>4, <1>6, StillWindow DEF AnswerPartial

\* The job of an evaluation fits its request.
LEMMA EvaluateFits ==
  ASSUME NEW r, Content(r.scenario) \in Contents, Content(scenario) \in Contents
  PROVE  /\ Fits(EvaluateJob(r))
         /\ EvaluateJob(r).kind \notin SaveKinds \cup DocumentKinds
  <1>1. [Content(r.scenario) EXCEPT !.captured = TRUE] \in Contents
    BY DEF Contents
  <1>2. [Content(r.scenario) EXCEPT !.captured = TRUE].captured
    BY DEF Contents
  <1> DEFINE c == [Content(r.scenario) EXCEPT !.captured = TRUE]
             j == Job("evaluate", c, NoFile, NoValue)
  <1>3. EvaluateJob(r) = j
    BY DEF EvaluateJob
  <1> HIDE DEF c
  <1>4. c \in Contents /\ c.captured
    BY <1>1, <1>2 DEF c
  <1>5. j.kind = "evaluate" /\ j.scenario = c /\ IsJob(j)
    BY DEF Job, IsJob
  <1> HIDE DEF j
  <1>6. Fits(j)
    BY <1>4, <1>5 DEF Fits, IsJob, JobKinds, LoadKinds, SaveKinds
  <1> QED BY <1>3, <1>5, <1>6 DEF SaveKinds, DocumentKinds

LEMMA AnswerLaunchKeeps ==
  ASSUME WindowInv, SlotInv', NEW f \in Files, AnswerLaunch(f)
  PROVE  WindowInv'
  <1> USE DEF document, evaluation, environment, PendingFits
  <1> DEFINE j == EvaluateJob(Innermost.request)
  <1>1. frames # <<>> /\ Innermost.kind = "launch"
    BY DEF AnswerLaunch, Waiting
  <1>2. FrameInv' /\ Shown' \subseteq Shown /\ FrameFits(Innermost)
    BY <1>1, PopKeepsFrames, SameSceneKeeps DEF AnswerLaunch, WindowInv
  <1>3. Fits(j) /\ j.kind \notin SaveKinds \cup DocumentKinds
    BY <1>1, <1>2, EvaluateFits DEF FrameFits
  <1>4. pending' \in {pending, NoRequest} /\ (path' = path \/ path = NoFile)
    BY DEF AnswerLaunch, Invalidate
  <1>5. StartJob(j, TRUE) /\ UNCHANGED <<scenario, dirty, base, disk, timers, retry>>
    BY DEF AnswerLaunch
  <1> HIDE DEF j
  <1> QED BY <1>2, <1>3, <1>4, <1>5, StartedWindow

LEMMA AnswerRelinkKeeps ==
  ASSUME WindowInv, SlotInv', AnswerRelink
  PROVE  WindowInv'
  <1> USE DEF document, evaluation, environment, PendingFits
  <1>1. frames # <<>> /\ Innermost.kind = "relink"
    BY DEF AnswerRelink, Waiting
  <1>2. FrameInv' /\ Shown' \subseteq Shown /\ FrameFits(Innermost)
    BY <1>1, PopKeepsFrames, SameSceneKeeps DEF AnswerRelink, WindowInv
  <1>3. retry'.file \in Files
    BY <1>1, <1>2 DEF FrameFits, AnswerRelink
  <1>4. retry'.asked \in Askings
    BY <1>1, InnermostAsks DEF AnswerRelink, AskKinds, WindowInv
  <1>5. JobInv'
    BY QuietKeepsJob, SameSceneKeeps DEF AnswerRelink, WindowInv
  <1>6. ConsentInv'
    BY <1>2, <1>4, StillKeepsConsent DEF AnswerRelink, WindowInv, Quiescent, lifecycleVars
  <1> QED BY <1>2, <1>3, <1>5, <1>6, StillWindow DEF AnswerRelink

\* Cancellation, a timer that finds nothing to do, and a step of another component.
LEMMA IdleKeeps ==
  ASSUME WindowInv, SlotInv', UNCHANGED <<worker, scenario, path, dirty, base, disk,
           pending, frames, retry, job>>,
         timers' \subseteq timers, HasReturned' => HasReturned
  PROVE  WindowInv'
  <1>1. FrameInv' /\ Shown' = Shown
    BY SameFramesKeep, SameSceneKeeps DEF WindowInv
  <1>2. JobInv'
    BY StillKeepsJob, SameSceneKeeps DEF WindowInv
  <1>3. retry' # NoRequest => retry'.asked \in Askings
    BY DEF Askings
  <1>4. ConsentInv'
    BY <1>1, <1>3, StillKeepsConsent DEF WindowInv
  <1> QED BY <1>1, <1>2, <1>4, StillWindow DEF PendingFits

LEMMA CloseKeeps ==
  ASSUME WindowInv, SlotInv', Close
  PROVE  WindowInv'
  <1> USE DEF document, evaluation, environment, PendingFits
  <1> DEFINE f == Frame("close", NoRequest, NoFile, NoValue)
  <1>1. FrameFits(f) /\ f.kind \notin AskKinds \cup {"edit"}
    BY DEF Frame, FrameFits, AskKinds
  <1>2. FrameInv' /\ Shown' \subseteq Shown \cup {f}
    <2>1. CASE Push(f)
      BY <1>1, <2>1, PushKeepsFrames DEF Close, WindowInv
    <2>2. CASE UNCHANGED frames
      BY <2>2, SameFramesKeep, SameSceneKeeps DEF Close, WindowInv
    <2> QED BY <2>1, <2>2 DEF Close
  <1>3. JobInv'
    BY QuietKeepsJob, SameSceneKeeps DEF Close, WindowInv
  <1>4. retry' # NoRequest => retry'.asked \in Askings
    BY DEF Askings, Close
  <1>5. UNCHANGED <<worker, job, scenario, base>>
    BY DEF Close, Quiescent, lifecycleVars
  <1>6. ConsentInv'
    <2> HIDE DEF f
    <2> QED BY <1>1, <1>2, <1>4, <1>5, StillKeepsConsent DEF WindowInv
  <1> QED BY <1>2, <1>3, <1>6, StillWindow DEF Close

-----------------------------------------------------------------------------
(* Steps that replace the open scenario.                                   *)

\* A colour, a selection, an edit.
LEMMA ReplacedWindow ==
  ASSUME WindowInv, SlotInv', Quiescent, KeepsSaves, Content(scenario') \in Contents,
         UNCHANGED <<path, base, timers, retry, disk>>,
         pending' \in {pending, NoRequest},
         (Pop /\ frames # <<>>) \/ frames' = frames,
         Content(scenario) \in Contents,
         Askings = {} \/ scenario'.design = scenario.design
  PROVE  WindowInv'
  <1>1. FrameInv' /\ Shown' \subseteq Shown
    BY PopKeepsFrames, SameFramesKeep DEF WindowInv, KeepsSaves
  <1>2. JobInv'
    BY QuietKeepsJob DEF WindowInv
  <1>3. ContentInv'
    BY DEF WindowInv, ContentInv, Content
  <1>4. StoredInv'
    BY DEF WindowInv, StoredInv, KeepsSaves
  <1>5. UNCHANGED <<worker, job>>
    BY DEF Quiescent, lifecycleVars
  <1>6. Askings' \subseteq Askings
    BY <1>1, <1>5 DEF Askings
  <1>7. ConsentInv'
    <2>1. CASE Askings = {}
      BY <1>6, <2>1, NothingAsked
    <2>2. CASE scenario'.design = scenario.design
      <3>1. \A a : Consents(a) => Consents(a)'
        BY <2>2 DEF Consents
      <3>2. NoEdit => NoEdit'
        BY <1>1 DEF NoEdit
      <3>3. SaveIsCurrent => SaveIsCurrent'
        BY <1>5, <2>2 DEF SaveIsCurrent
      <3> QED BY <1>6, <3>1, <3>2, <3>3, ConsentKeeps DEF WindowInv
    <2> QED BY <2>1, <2>2
  <1> QED BY <1>1, <1>2, <1>3, <1>4, <1>7 DEF WindowInv

\* A new object has the content it was made of.
LEMMA NewHasContent ==
  ASSUME NEW c \in Contents
  PROVE  /\ Content(New(c)) = c
         /\ New(c).design = c.design /\ New(c).revision = c.revision
         /\ New(c).captured = c.captured /\ New(c).colour = c.colour
  BY DEF New, Scenario, Content, Contents

\* An edit makes a scenario of a scenario.
LEMMA EditedIsContent ==
  ASSUME NEW x \in Contents, NEW d \in Designs, x.revision < MaxRevision
  PROVE  /\ [x EXCEPT !.design = d, !.revision = @ + 1] \in Contents
         /\ [x EXCEPT !.design = d, !.revision = @ + 1].captured = x.captured
  <1>1. x.revision \in 0..MaxRevision /\ x.colour \in Colours /\ x.captured \in BOOLEAN
    BY DEF Contents
  <1>2. x.revision + 1 \in 0..MaxRevision
    BY <1>1, MainWindowAssumption
  <1> DEFINE n == x.revision + 1
             y == [design |-> d, revision |-> x.revision, colour |-> x.colour,
                   captured |-> x.captured]
  <1>3. [x EXCEPT !.design = d] = y
    BY DEF Contents
  <1>4. [y EXCEPT !.revision = n] =
          [design |-> d, revision |-> n, colour |-> x.colour, captured |-> x.captured]
    OBVIOUS
  <1>5. [x EXCEPT !.design = d, !.revision = @ + 1] = [[x EXCEPT !.design = d] EXCEPT !.revision = n]
    BY DEF Contents
  <1>6. [x EXCEPT !.design = d, !.revision = @ + 1] =
          [design |-> d, revision |-> n, colour |-> x.colour, captured |-> x.captured]
    BY <1>3, <1>4, <1>5, Zenon
  <1> HIDE DEF y
  <1> QED BY <1>1, <1>2, <1>6 DEF Contents

LEMMA AnswerEditKeeps ==
  ASSUME WindowInv, SlotInv', NEW d \in Designs, AnswerEdit(d)
  PROVE  WindowInv'
  <1> USE DEF document, evaluation, environment, PendingFits
  <1> DEFINE c == [Content(scenario) EXCEPT !.design = d, !.revision = @ + 1]
  <1>1. frames # <<>> /\ Innermost.kind = "edit"
    BY DEF AnswerEdit, Waiting
  <1>2. Innermost \in Shown /\ FrameFits(Innermost)
    BY <1>1, PopShows DEF AnswerEdit, WindowInv, FrameInv
  <1>3. Content(scenario) \in Contents
    BY <1>1, <1>2 DEF FrameFits
  <1>5. c \in Contents /\ c.captured = scenario.captured
    <2>1. Content(scenario).revision < MaxRevision
          /\ Content(scenario).captured = scenario.captured
      BY DEF AnswerEdit, Content
    <2> QED BY <1>3, <2>1, EditedIsContent
  <1>6. scenario' = New(c) /\ dirty'
    BY DEF AnswerEdit
  <1> HIDE DEF c
  <1>7. Content(scenario') = c /\ scenario'.captured = scenario.captured
    BY <1>5, <1>6, NewHasContent
  <1>8. KeepsSaves
    BY <1>5, <1>6, <1>7 DEF KeepsSaves, StaysScenario
  <1>9. Askings = {}
    BY <1>1, <1>2 DEF WindowInv, ConsentInv, NoEdit
  <1>10. /\ Quiescent /\ Pop /\ pending' = NoRequest
         /\ UNCHANGED <<path, base, timers, retry, disk>>
    BY DEF AnswerEdit, Invalidate
  <1> QED BY <1>1, <1>3, <1>5, <1>7, <1>8, <1>9, <1>10, ReplacedWindow

LEMMA AnswerColourKeeps ==
  ASSUME WindowInv, SlotInv', NEW k \in Colours, AnswerColour(k)
  PROVE  WindowInv'
  <1> USE DEF document, evaluation, environment, PendingFits
  <1> DEFINE c == [Content(scenario) EXCEPT !.colour = k]
  <1>1. frames # <<>> /\ Innermost.kind = "colour"
    BY DEF AnswerColour, Waiting
  <1>2. Innermost \in Shown /\ FrameFits(Innermost)
    BY <1>1, PopShows DEF AnswerColour, WindowInv, FrameInv
  <1>3. Content(scenario) \in Contents
    BY <1>1, <1>2 DEF FrameFits
  <1>4. c \in Contents
    BY <1>3 DEF Contents
  <1>5. c.captured = scenario.captured /\ c.design = scenario.design
    BY DEF Content
  <1>6. scenario' = New(c) /\ dirty'
    BY DEF AnswerColour
  <1> HIDE DEF c
  <1>7. /\ Content(scenario') = c /\ scenario'.captured = scenario.captured
        /\ scenario'.design = scenario.design
    BY <1>4, <1>5, <1>6, NewHasContent
  <1>8. KeepsSaves
    BY <1>4, <1>6, <1>7 DEF KeepsSaves, StaysScenario
  <1>9. /\ Quiescent /\ Pop /\ pending' \in {pending, NoRequest}
        /\ UNCHANGED <<path, base, timers, retry, disk>>
    BY DEF AnswerColour, Invalidate
  <1> QED BY <1>1, <1>3, <1>4, <1>6, <1>7, <1>8, <1>9, ReplacedWindow

LEMMA SelectKeeps ==
  ASSUME WindowInv, SlotInv', Select
  PROVE  WindowInv'
  <1> USE DEF document, evaluation, environment, PendingFits
  <1> DEFINE c == Content(scenario)
  <1>1. scenario # NoScenario /\ c \in Contents
    BY DEF Select, WindowInv, ContentInv
  <1>2. /\ c.captured = scenario.captured /\ c.design = scenario.design
        /\ c.revision = scenario.revision
    BY DEF Content
  <1>3. scenario' = New(c) /\ dirty' = dirty
    BY DEF Select
  <1>4. /\ Content(scenario') = c /\ scenario'.captured = scenario.captured
        /\ scenario'.design = scenario.design /\ scenario'.revision = scenario.revision
    <2> HIDE DEF c
    <2> QED BY <1>1, <1>2, <1>3, NewHasContent
  <1>5. KeepsSaves
    BY <1>1, <1>3, <1>4 DEF KeepsSaves, StaysScenario, Design
  <1>6. Quiescent /\ frames' = frames /\ UNCHANGED <<path, base, timers, retry, disk, pending>>
    BY DEF Select
  <1> QED BY <1>1, <1>4, <1>5, <1>6, ReplacedWindow

-----------------------------------------------------------------------------
(* What the worker reports.                                                *)

\* The slot still holds the job, and its result was taken, or is not to come.
TakesResult ==
  /\ worker' = worker
  /\ \E v : job' = [job EXCEPT ![worker].value = v]
  /\ ~HasReturned'

\* A job is the same job without its result.
LEMMA TakenJob ==
  ASSUME NEW j, NEW v, IsJob(j)
  PROVE  /\ [j EXCEPT !.value = v].kind = j.kind
         /\ [j EXCEPT !.value = v].scenario = j.scenario
         /\ [j EXCEPT !.value = v].file = j.file
         /\ [j EXCEPT !.value = v].asked = j.asked
         /\ IsJob([j EXCEPT !.value = v])
  <1>1. [j EXCEPT !.value = v] =
          [kind |-> j.kind, scenario |-> j.scenario, file |-> j.file,
           asked |-> j.asked, value |-> v]
    BY DEF IsJob
  <1> QED BY <1>1 DEF IsJob

LEMMA TakenFits ==
  ASSUME NEW j, NEW v, Fits(j)
  PROVE  Fits([j EXCEPT !.value = v])
  <1> DEFINE i == [j EXCEPT !.value = v]
  <1>1. /\ i.kind = j.kind /\ i.scenario = j.scenario /\ i.file = j.file
        /\ IsJob(i)
    BY TakenJob DEF Fits
  <1> HIDE DEF i
  <1>2. Fits(i)
    BY <1>1 DEF Fits
  <1> QED BY <1>2 DEF i

\* A handler of the result keeps the job fit, if it would for what the job is.
LEMMA TakenKeepsJob ==
  ASSUME JobInv, worker \in Workers, worker # NoWorker, TakesResult,
         \A i : /\ Fits(i) /\ i.kind = job[worker].kind
                /\ i.scenario = job[worker].scenario
                => Fits(i)'
  PROVE  /\ JobInv' /\ worker' = worker /\ worker # NoWorker
         /\ job'[worker].kind = job[worker].kind
         /\ job'[worker].scenario = job[worker].scenario
         /\ job'[worker].asked = job[worker].asked
  <1> PICK v : job' = [job EXCEPT ![worker].value = v]
    BY DEF TakesResult
  <1> DEFINE j == job[worker]
             i == [j EXCEPT !.value = v]
  <1>1. job'[worker] = i /\ DOMAIN job' = Workers
    BY DEF JobInv
  <1>2. Fits(j)
    BY DEF JobInv
  <1>3. Fits(i) /\ i.kind = j.kind /\ i.scenario = j.scenario /\ i.asked = j.asked
    BY <1>2, TakenFits, TakenJob DEF Fits
  <1> HIDE DEF i, j
  <1>4. \A x : x = i => Fits(x)'
    BY <1>3 DEF j
  <1>5. worker' = worker /\ ~HasReturned'
    BY DEF TakesResult
  <1>6. JobInv'
    BY <1>1, <1>4, <1>5 DEF JobInv
  <1> QED BY <1>1, <1>3, <1>5, <1>6 DEF j

\* What a handler asks about the document when it opens no dialog that may replace it.
LEMMA TakenAsks ==
  ASSUME worker' = worker, job'[worker].kind = job[worker].kind,
         job'[worker].asked = job[worker].asked, retry' = retry,
         \A f \in Shown' : f \in Shown \/ f.kind \notin AskKinds \cup {"edit"}
  PROVE  Askings' \subseteq Askings /\ (NoEdit => NoEdit')
  BY DEF Askings, NoEdit

LEMMA TakenWindow ==
  ASSUME WindowInv, SlotInv', worker \in Workers, worker # NoWorker, TakesResult,
         UNCHANGED <<scenario, dirty, base, path, disk, retry>>, FrameInv',
         \A f \in Shown' : f \in Shown \/ f.kind \notin AskKinds \cup {"edit"},
         PendingFits, "autosave" \in timers' => "autosave" \in timers
  PROVE  WindowInv'
  <1>1. \A i : Fits(i) => Fits(i)'
    BY KeepsFits, SameSceneKeeps
  <1>2. /\ JobInv' /\ worker' = worker /\ worker # NoWorker
        /\ job'[worker].kind = job[worker].kind
        /\ job'[worker].scenario = job[worker].scenario
        /\ job'[worker].asked = job[worker].asked
    BY <1>1, TakenKeepsJob DEF WindowInv
  <1>3. Askings' \subseteq Askings /\ (NoEdit => NoEdit')
    BY <1>2, TakenAsks
  <1>4. \A a : Consents(a) => Consents(a)'
    BY DEF Consents
  <1>5. SaveIsCurrent => SaveIsCurrent'
    BY <1>2 DEF SaveIsCurrent
  <1>6. ConsentInv'
    BY <1>3, <1>4, <1>5, ConsentKeeps DEF WindowInv
  <1> QED BY <1>2, <1>6, StillWindow

\* An import or a load makes a clean document, or one that says it is not.
LEMMA AcceptDocumentKeeps ==
  ASSUME WindowInv, SlotInv', worker \in Workers, worker # NoWorker, TakesResult,
         HasReturned, AcceptDocument(job[worker]), UNCHANGED environment
  PROVE  WindowInv'
  <1> USE DEF environment
  <1> DEFINE j == job[worker]
             c == j.value.content
  <1>1. Fits(j) /\ Ready(j) /\ j.kind \in DocumentKinds
    BY DEF WindowInv, JobInv, AcceptDocument
  <1>2. c \in Contents
    BY <1>1 DEF Ready
  <1>3. scenario' = New(c) /\ path' = j.file /\ base' = [content |-> c, file |-> j.file]
    BY DEF AcceptDocument
  <1>4. j.kind \notin SaveKinds \cup {"preflight", "evaluate"}
    BY <1>1 DEF DocumentKinds, SaveKinds
  <1>5. /\ Content(scenario') \in Contents
        /\ scenario'.design = c.design /\ scenario'.revision = c.revision
        /\ scenario'.captured = c.captured
    BY <1>2, <1>3, NewHasContent
  <1>6. \A i : Fits(i) /\ i.kind = j.kind => Fits(i)'
    BY <1>4 DEF Fits
  <1>7. /\ JobInv' /\ worker' = worker /\ worker # NoWorker
        /\ job'[worker].kind = j.kind /\ job'[worker].asked = j.asked
    BY <1>6, TakenKeepsJob DEF WindowInv
  <1>8. FrameInv' /\ Shown' = Shown
    BY <1>5, SameFramesKeep DEF WindowInv, AcceptDocument, StaysScenario
  <1>9. ContentInv'
    <2>1. pending' = NoRequest /\ ("autosave" \in timers' => "autosave" \in timers)
          /\ UNCHANGED <<disk, retry>>
      BY DEF AcceptDocument, Invalidate
    <2>2. base'.file \in Files \cup {NoFile}
      BY <1>1, <1>3 DEF Fits, DocumentKinds, LoadKinds
    <2> QED BY <1>5, <2>1, <2>2 DEF WindowInv, ContentInv, Content
  <1>10. ConsentInv'
    <2>1. \A a : Consents(a)'
      BY <1>3, <1>5 DEF Consents
    <2>2. j.asked \in Askings
      BY <1>1 DEF Askings
    <2>3. NoEdit'
      BY <1>8, <2>2 DEF WindowInv, ConsentInv, NoEdit
    <2>4. SaveIsCurrent'
      BY <1>4, <1>7 DEF SaveIsCurrent
    <2> QED BY <2>1, <2>3, <2>4 DEF ConsentInv
  <1>11. StoredInv'
    <2>1. Design(scenario') = Design(c)
      BY <1>5 DEF Design
    <2>2. j.kind = "import" => j.file = NoFile
      BY <1>1 DEF Fits
    <2>3. j.kind \in LoadKinds => disk[j.file] = c /\ disk[j.file] # NoScenario
      BY <1>1, <1>2, NoScenarioAssumption DEF Ready
    <2>4. j.kind = "import" \/ j.kind \in LoadKinds
      BY <1>1 DEF DocumentKinds, LoadKinds
    <2> HIDE DEF j, c
    <2>5. disk' = disk
      OBVIOUS
    <2> QED BY <1>3, <2>1, <2>2, <2>3, <2>4, <2>5 DEF StoredInv
  <1> QED BY <1>7, <1>8, <1>9, <1>10, <1>11 DEF WindowInv

\* A save leaves a document that is clean only if the file holds what is open.
LEMMA AcceptSavedKeeps ==
  ASSUME WindowInv, SlotInv', worker \in Workers, worker # NoWorker, TakesResult,
         HasReturned, AcceptSaved(job[worker]), UNCHANGED environment
  PROVE  WindowInv'
  <1> USE DEF environment, evaluation
  <1> DEFINE j == job[worker]
             c == j.scenario
  <1>1. Fits(j) /\ Ready(j) /\ j.kind \in SaveKinds
    BY DEF WindowInv, JobInv, AcceptSaved, SaveKinds
  <1>2. /\ c \in Contents /\ j.file \in Files /\ disk[j.file] = c
        /\ scenario.captured = c.captured
    BY <1>1 DEF Fits, Ready
  <1>3. /\ path' = j.file /\ base' = [content |-> c, file |-> j.file]
        /\ UNCHANGED <<scenario, evaluation, frames, timers, disk, retry>>
        /\ ~dirty' => scenario.design = c.design /\ scenario.revision = c.revision
    BY DEF AcceptSaved
  <1>4. ~dirty' => Design(scenario) = Design(c)
    BY <1>2, <1>3 DEF Design
  <1>5. \A i : Fits(i) /\ i.kind = j.kind /\ i.scenario = c => Fits(i)'
    <2>1. \A i : IsJob(i) <=> IsJob(i)'
      BY DEF IsJob
    <2> HIDE DEF j, c
    <2> QED BY <1>3, <1>4, <2>1 DEF Fits, Content, Design
  <1>6. /\ JobInv' /\ worker' = worker /\ worker # NoWorker
        /\ job'[worker].kind = j.kind /\ job'[worker].asked = j.asked
        /\ job'[worker].scenario = c
    BY <1>5, TakenKeepsJob DEF WindowInv
  <1>7. FrameInv' /\ Shown' = Shown
    BY <1>3, SameFramesKeep DEF WindowInv, StaysScenario
  <1>8. ContentInv'
    BY <1>2, <1>3 DEF WindowInv, ContentInv
  <1>9. ConsentInv'
    <2>1. Askings' \subseteq Askings /\ (NoEdit => NoEdit')
      BY <1>3, <1>6, <1>7, TakenAsks
    <2>2. SaveIsCurrent => SaveIsCurrent'
      BY <1>3, <1>6 DEF SaveIsCurrent
    <2>3. ASSUME Askings # {}
          PROVE  \A a : Consents(a)'
      <3>1. c.design = scenario.design
        BY <1>1, <2>3 DEF WindowInv, ConsentInv, SaveIsCurrent
      <3> HIDE DEF c, j
      <3> QED BY <1>3, <3>1 DEF Consents
    <2> QED BY <2>1, <2>2, <2>3, ConsentKeeps DEF WindowInv
  <1>10. StoredInv'
    <2>1. disk[j.file] # NoScenario
      BY <1>2, NoScenarioAssumption
    <2> HIDE DEF j, c
    <2> QED BY <1>2, <1>3, <1>4, <2>1 DEF StoredInv, Design
  <1> QED BY <1>6, <1>7, <1>8, <1>9, <1>10 DEF WindowInv

LEMMA AcceptPreflightKeeps ==
  ASSUME WindowInv, SlotInv', worker \in Workers, worker # NoWorker, TakesResult,
         AcceptPreflight(job[worker]), UNCHANGED environment
  PROVE  WindowInv'
  <1> USE DEF environment, document
  <1> DEFINE j == job[worker]
             f == Frame("partial", Request(j.scenario, TRUE), NoFile, NoValue)
  <1>1. Content(j.scenario) \in Contents /\ Content(scenario) \in Contents
    BY DEF WindowInv, JobInv, AcceptPreflight, Fits
  <1>2. FrameFits(f) /\ f.kind \notin AskKinds \cup {"edit"}
    BY <1>1 DEF Frame, Request, FrameFits, AskKinds
  <1>3. FrameInv' /\ Shown' \subseteq Shown \cup {f}
    <2>1. CASE Push(f)
      BY <1>2, <2>1, PushKeepsFrames DEF AcceptPreflight, WindowInv
    <2>2. CASE UNCHANGED frames
      BY <2>2, SameFramesKeep, SameSceneKeeps DEF AcceptPreflight, WindowInv
    <2> QED BY <2>1, <2>2 DEF AcceptPreflight
  <1>4. PendingFits
    BY <1>1 DEF PendingFits, AcceptPreflight, Request, Invalidate
  <1>5. UNCHANGED <<scenario, dirty, base, path, disk, retry, timers>>
    BY DEF AcceptPreflight
  <1> HIDE DEF f
  <1> QED BY <1>2, <1>3, <1>4, <1>5, TakenWindow

\* The scenario of an evaluation is the open one, with its captures taken.
LEMMA MergeKeeps ==
  ASSUME WindowInv, SlotInv', worker \in Workers, worker # NoWorker, TakesResult,
         HasReturned, AcceptEvaluation(job[worker]), UNCHANGED environment,
         Matches(job[worker]), job[worker].value.converged
  PROVE  WindowInv'
  <1> USE DEF environment
  <1> DEFINE j == job[worker]
             c == j.value.content
  <1>1. Fits(j) /\ Ready(j) /\ j.kind = "evaluate"
    BY DEF WindowInv, JobInv, AcceptEvaluation
  <1>2. Content(scenario) \in Contents /\ c \in Contents /\ c.design = scenario.design
    BY <1>1 DEF Fits, Ready, Matches
  <1>3. /\ scenario' = New(c) /\ dirty' = (dirty \/ c # Content(scenario))
        /\ UNCHANGED <<path, base, frames, timers, disk, retry, pending>>
    BY DEF AcceptEvaluation
  <1>4. Content(scenario') = c /\ scenario'.design = scenario.design
        /\ scenario'.revision = c.revision /\ scenario'.captured = c.captured
    BY <1>2, <1>3, NewHasContent
  <1>5. ~dirty' => ~dirty /\ Design(scenario') = Design(scenario)
    <2>1. ~dirty' => ~dirty /\ c = Content(scenario)
      BY <1>3
    <2>2. c = Content(scenario) =>
            c.revision = scenario.revision /\ c.captured = scenario.captured
      BY DEF Content
    <2> HIDE DEF c, j
    <2> QED BY <1>4, <2>1, <2>2 DEF Design
  <1>6. \A i : Fits(i) /\ i.kind = j.kind => Fits(i)'
    BY <1>1, <1>2, <1>4 DEF Fits, SaveKinds, IsJob, Content
  <1>7. /\ JobInv' /\ worker' = worker /\ worker # NoWorker
        /\ job'[worker].kind = j.kind /\ job'[worker].asked = j.asked
    BY <1>6, TakenKeepsJob DEF WindowInv
  <1>8. FrameInv' /\ Shown' = Shown
    BY <1>2, <1>3, <1>4, SameFramesKeep DEF WindowInv, StaysScenario
  <1>9. ContentInv'
    BY <1>2, <1>3, <1>4 DEF WindowInv, ContentInv, Content
  <1>10. ConsentInv'
    <2>1. Askings' \subseteq Askings /\ (NoEdit => NoEdit')
      BY <1>3, <1>7, <1>8, TakenAsks
    <2>2. SaveIsCurrent'
      BY <1>1, <1>7 DEF SaveIsCurrent, SaveKinds
    <2>3. \A a : Consents(a) => Consents(a)'
      BY <1>2, <1>3, <1>4 DEF Consents
    <2> QED BY <2>1, <2>2, <2>3, ConsentKeeps DEF WindowInv
  <1>11. StoredInv'
    BY <1>2, <1>3, <1>5 DEF WindowInv, StoredInv
  <1> QED BY <1>7, <1>8, <1>9, <1>10, <1>11 DEF WindowInv

LEMMA WindowResultKeeps ==
  ASSUME WindowInv, SlotInv', WindowResult
  PROVE  WindowInv'
  <1> USE DEF environment, document, evaluation
  <1>1. /\ worker \in Workers /\ worker # NoWorker /\ HasReturned
        /\ Head(posted).worker = worker /\ worker' = worker /\ ~HasReturned'
    BY DeliveredIsOwn, WorkersAssumption DEF WindowInv, WindowResult
  <1>2. TakesResult
    BY <1>1 DEF WindowResult, TakesResult
  <1>3. UNCHANGED environment
    BY DEF WindowResult
  <1>4. CASE OnResult(job[worker])
    <2> DEFINE j == job[worker]
    <2>1. CASE AcceptDocument(j)
      BY <1>1, <1>2, <1>3, <2>1, AcceptDocumentKeeps
    <2>2. CASE AcceptSaved(j)
      BY <1>1, <1>2, <1>3, <2>2, AcceptSavedKeeps
    <2>3. CASE AcceptPreflight(j)
      BY <1>1, <1>2, <1>3, <2>3, AcceptPreflightKeeps
    <2>4. CASE AcceptEvaluation(j) /\ Matches(j) /\ j.value.converged
      BY <1>1, <1>2, <1>3, <2>4, MergeKeeps
    <2>5. CASE AcceptEvaluation(j) /\ ~(Matches(j) /\ j.value.converged)
      <3>1. UNCHANGED <<scenario, dirty, path, base, frames, timers>> /\ pending' = NoRequest
        BY <2>5 DEF AcceptEvaluation, Invalidate
      <3>2. FrameInv' /\ Shown' = Shown
        BY <3>1, SameFramesKeep, SameSceneKeeps DEF WindowInv
      <3> QED BY <1>1, <1>2, <1>3, <3>1, <3>2, TakenWindow DEF PendingFits
    <2>6. CASE AcceptPlane(j)
      <3>1. UNCHANGED <<scenario, dirty, path, base, frames, pending>>
            /\ ("autosave" \in timers' => "autosave" \in timers)
        BY <2>6 DEF AcceptPlane
      <3>2. FrameInv' /\ Shown' = Shown
        BY <3>1, SameFramesKeep, SameSceneKeeps DEF WindowInv
      <3> QED BY <1>1, <1>2, <1>3, <3>1, <3>2, TakenWindow DEF PendingFits
    <2> HIDE DEF j
    <2> QED BY <1>4, <2>1, <2>2, <2>3, <2>4, <2>5, <2>6 DEF OnResult, j
  <1>5. CASE UNCHANGED <<document, evaluation, frames, timers>>
    <2>1. FrameInv' /\ Shown' = Shown
      BY <1>5, SameFramesKeep, SameSceneKeeps DEF WindowInv
    <2> QED BY <1>1, <1>2, <1>3, <1>5, <2>1, TakenWindow DEF PendingFits
  <1> QED BY <1>1, <1>4, <1>5 DEF WindowResult

\* A failed load offers to locate the SPD; a failed autosave leaves a document dirty.
LEMMA WindowErrorKeeps ==
  ASSUME WindowInv, SlotInv', WindowError
  PROVE  WindowInv'
  <1> USE DEF environment, evaluation
  <1> DEFINE j == job[worker]
             f == Frame("relink", NoRequest, j.file, j.asked)
  <1>1. /\ worker \in Workers /\ worker # NoWorker
        /\ Head(posted).worker = worker /\ ~HasReturned'
    BY OutcomeIsOwn DEF WindowInv, WindowError, DeliverError, Outcomes
  <1>2. TakesResult
    BY <1>1 DEF WindowError, DeliverError, TakesResult
  <1>3. UNCHANGED <<scenario, path, base, pending, timers, disk, retry>>
        /\ (~dirty' => ~dirty)
    BY DEF WindowError
  <1>4. KeepsSaves /\ StaysScenario
    BY <1>3 DEF KeepsSaves, StaysScenario
  <1>5. \A i : Fits(i) => Fits(i)'
    BY <1>4, KeepsFits
  <1>6. /\ JobInv' /\ worker' = worker /\ job'[worker].kind = j.kind
        /\ job'[worker].asked = j.asked /\ job'[worker].scenario = j.scenario
    BY <1>1, <1>2, <1>5, TakenKeepsJob DEF WindowInv
  <1>7. ~(j.kind \in LoadKinds /\ Push(f)) => frames' = frames
    BY <1>1 DEF WindowError
  <1>8. FrameInv' /\ \A g \in Shown' : g \in Shown \/ (g = f /\ j.kind \in LoadKinds)
    <2>1. CASE j.kind \in LoadKinds /\ Push(f)
      <3>1. FrameFits(f)
        BY <1>1, <2>1 DEF WindowInv, JobInv, Fits, Frame, FrameFits
      <3> QED BY <1>3, <2>1, <3>1, PushKeepsFrames DEF WindowInv
    <2>2. CASE frames' = frames
      BY <1>4, <2>2, SameFramesKeep DEF WindowInv
    <2> QED BY <1>7, <2>1, <2>2
  <1>9. ConsentInv'
    <2>1. f.kind # "edit" /\ f.asked = j.asked
      BY DEF Frame
    <2>2. j.kind \in LoadKinds => j.asked \in Askings
      BY <1>1 DEF Askings, LoadKinds, DocumentKinds
    <2> HIDE DEF f, j
    <2>3. \A g \in Shown' : g.kind \in AskKinds => g.asked \in Askings
      BY <1>8, <2>1, <2>2 DEF Askings
    <2>4. Askings' \subseteq Askings
      BY <1>3, <1>6, <2>3 DEF Askings, j
    <2>5. NoEdit => NoEdit'
      BY <1>8, <2>1 DEF NoEdit
    <2>6. SaveIsCurrent => SaveIsCurrent'
      BY <1>3, <1>6 DEF SaveIsCurrent, j
    <2>7. \A a : Consents(a) => Consents(a)'
      BY <1>3 DEF Consents
    <2> QED BY <2>4, <2>5, <2>6, <2>7, ConsentKeeps DEF WindowInv
  <1>10. ContentInv'
    BY <1>3 DEF WindowInv, ContentInv
  <1>11. StoredInv'
    BY <1>3 DEF WindowInv, StoredInv
  <1> QED BY <1>6, <1>8, <1>9, <1>10, <1>11 DEF WindowInv

\* The slot is given back, or passed on to the evaluation.
LEMMA WindowFinishedKeeps ==
  ASSUME WindowInv, SlotInv', WindowFinished
  PROVE  WindowInv'
  <1> USE DEF environment, document
  <1>1. /\ worker \in Workers /\ Head(posted).worker = worker /\ Tail(posted) = <<>>
    BY FinishedIsLast, SlotFacts DEF WindowInv, WindowFinished, NextSignal, Quiet
  <1>2. /\ UNCHANGED <<scenario, path, dirty, base, disk, retry>> /\ pending' = NoRequest
        /\ ("autosave" \in timers' => "autosave" \in timers \/ scenario # NoScenario)
    BY DEF WindowFinished
  <1>3. PendingFits
    BY <1>2 DEF PendingFits
  <1>4. pending # NoRequest =>
          Content(pending.scenario) \in Contents /\ Content(scenario) \in Contents
    BY DEF WindowInv, ContentInv
  <1>5. \A a : Consents(a) => Consents(a)'
    BY <1>2 DEF Consents
  <1>6. CASE FinishAndEvaluate
    <2> DEFINE j == EvaluateJob(pending)
    <2>1. PICK w \in Workers :
            /\ DeliverFinishedAndRun(w, TRUE)
            /\ job' = [job EXCEPT ![Head(posted).worker] = NoJob, ![w] = j]
      BY <1>6 DEF FinishAndEvaluate
    <2>2. worker' = w /\ ~HasReturned'
      <3>1. phase'[w] = "queued" /\ posted' = <<>> /\ worker' = w
        BY <1>1, <2>1, SlotFacts DEF DeliverFinishedAndRun, Occupy, WindowInv
      <3> QED BY <3>1 DEF HasReturned
    <2>3. Fits(j) /\ j.kind \notin SaveKinds \cup DocumentKinds
      BY <1>4, <1>6, EvaluateFits DEF FinishAndEvaluate, Launches
    <2> HIDE DEF j
    <2>4. job'[w] = j /\ DOMAIN job' = Workers
      BY <1>1, <2>1 DEF WindowInv, JobInv
    <2>5. \A x : x = j => Fits(x)'
      BY <1>2, <2>3, KeepsFits, SameSceneKeeps
    <2>6. JobInv'
      BY <2>2, <2>4, <2>5 DEF JobInv
    <2>7. FrameInv' /\ Shown' = Shown
      BY <1>2, <1>6, SameFramesKeep, SameSceneKeeps DEF WindowInv, FinishAndEvaluate
    <2>8. Askings' \subseteq Askings
      BY <1>2, <2>2, <2>3, <2>4, <2>7 DEF Askings
    <2>9. (NoEdit => NoEdit') /\ SaveIsCurrent'
      BY <2>2, <2>3, <2>4, <2>7 DEF NoEdit, SaveIsCurrent
    <2>10. ConsentInv'
      BY <1>5, <2>8, <2>9, ConsentKeeps DEF WindowInv
    <2> QED BY <1>2, <1>3, <2>6, <2>7, <2>10, StillWindow
  <1>7. CASE FinishAndWait
    <2> DEFINE f == Frame("launch", pending, NoFile, NoValue)
    <2>1. worker' = NoWorker /\ DOMAIN job' = Workers
      BY <1>7 DEF FinishAndWait, DeliverFinished, WindowInv, JobInv
    <2>2. JobInv'
      BY <2>1 DEF JobInv
    <2>3. f.kind \notin AskKinds \cup {"edit"}
      BY DEF Frame, AskKinds
    <2>4. FrameInv' /\ Shown' \subseteq Shown \cup {f}
      <3>1. CASE Launches /\ Push(f)
        <4>1. FrameFits(f)
          BY <1>4, <3>1 DEF Launches, Frame, FrameFits
        <4> QED BY <1>2, <3>1, <4>1, PushKeepsFrames DEF WindowInv
      <3>2. CASE frames' = frames
        BY <1>2, <3>2, SameFramesKeep, SameSceneKeeps DEF WindowInv
      <3> QED BY <1>7, <3>1, <3>2 DEF FinishAndWait
    <2> HIDE DEF f
    <2>5. Askings' \subseteq Askings
      BY <1>2, <2>1, <2>3, <2>4 DEF Askings
    <2>6. (NoEdit => NoEdit') /\ SaveIsCurrent'
      BY <2>1, <2>3, <2>4 DEF NoEdit, SaveIsCurrent
    <2>7. ConsentInv'
      BY <1>5, <2>5, <2>6, ConsentKeeps DEF WindowInv
    <2> QED BY <1>2, <1>3, <2>2, <2>4, <2>7, StillWindow
  <1> QED BY <1>6, <1>7 DEF WindowFinished

-----------------------------------------------------------------------------
(* What the pool does.                                                     *)

\* The scenario of a result may take a revision of its own.
LEMMA RevisedIsContent ==
  ASSUME NEW x \in Contents, NEW n \in {0, 1}, x.revision + n <= MaxRevision
  PROVE  /\ [x EXCEPT !.revision = @ + n] \in Contents
         /\ [x EXCEPT !.revision = @ + n].design = x.design
         /\ [x EXCEPT !.revision = @ + n].revision >= x.revision
         /\ [x EXCEPT !.revision = @ + n].captured = x.captured
         /\ [x EXCEPT !.revision = @ + n].colour = x.colour
  <1> DEFINE m == x.revision + n
  <1>1. x.revision \in 0..MaxRevision /\ m \in 0..MaxRevision /\ m >= x.revision
    BY MainWindowAssumption DEF Contents
  <1>2. [x EXCEPT !.revision = @ + n] = [x EXCEPT !.revision = m]
    OBVIOUS
  <1> HIDE DEF m
  <1>3. /\ [x EXCEPT !.revision = m] \in Contents
        /\ [x EXCEPT !.revision = m].design = x.design
        /\ [x EXCEPT !.revision = m].revision = m
        /\ [x EXCEPT !.revision = m].captured = x.captured
    BY <1>1 DEF Contents
  <1> QED BY <1>1, <1>2, <1>3

\* A function that returned has brought about what it promises.
LEMMA ReturnedIsReady ==
  ASSUME ContentInv, NEW j, Fits(j), NEW v \in Returned(j), NEW i, IsJob(i),
         i = [j EXCEPT !.value = v],
         j.kind \in SaveKinds => disk' = [disk EXCEPT ![j.file] = j.scenario],
         j.kind \notin SaveKinds => disk' = disk
  PROVE  /\ i.kind = j.kind /\ i.scenario = j.scenario /\ i.file = j.file
         /\ i.asked = j.asked /\ i.value = v
         /\ Ready(i)'
  <1>1. i = [kind |-> j.kind, scenario |-> j.scenario, file |-> j.file,
             asked |-> j.asked, value |-> v]
    BY DEF Fits, IsJob
  <1>2. /\ i.kind = j.kind /\ i.scenario = j.scenario /\ i.file = j.file
        /\ i.asked = j.asked /\ i.value = v
    BY <1>1
  <1>3. CASE j.kind \in LoadKinds
    <2>1. v.content = disk[j.file] /\ disk[j.file] # NoScenario
      BY <1>3 DEF Returned, LoadKinds
    <2>2. disk[j.file] \in Contents /\ disk' = disk
      BY <1>3, <2>1 DEF ContentInv, Fits, LoadKinds, SaveKinds
    <2> QED BY <1>2, <1>3, <2>1, <2>2 DEF Ready, LoadKinds, SaveKinds, DocumentKinds
  <1>4. CASE j.kind = "import"
    <2> DEFINE c == [design |-> SourceDesign, revision |-> 0, colour |-> SourceColour,
                     captured |-> FALSE]
    <2>1. v = [content |-> c, recovered |-> FALSE]
      BY <1>4 DEF Returned, LoadKinds
    <2>2. c \in Contents
      BY MainWindowAssumption DEF Contents
    <2>3. v.content \in Contents
      <3> HIDE DEF c
      <3> QED BY <2>1, <2>2
    <2> HIDE DEF c
    <2> QED BY <1>2, <1>4, <2>3 DEF Ready, LoadKinds, SaveKinds
  <1>5. CASE j.kind = "evaluate"
    <2>1. PICK n \in {0, 1}, c \in BOOLEAN :
            /\ v = [content |-> [j.scenario EXCEPT !.revision = @ + n], converged |-> c]
            /\ j.scenario.revision + n <= MaxRevision
      BY <1>5 DEF Returned, LoadKinds
    <2>2. j.scenario \in Contents /\ j.scenario.captured
      BY <1>5 DEF Fits
    <2> DEFINE x == [j.scenario EXCEPT !.revision = @ + n]
    <2>3. v = [content |-> x, converged |-> c]
      BY <2>1
    <2>4. /\ x \in Contents /\ x.design = j.scenario.design
          /\ x.revision >= j.scenario.revision /\ x.captured
          /\ x.colour = j.scenario.colour
      BY <2>1, <2>2, RevisedIsContent
    <2> HIDE DEF x
    <2>5. v.content = x
      BY <2>3
    <2> QED BY <1>2, <1>5, <2>4, <2>5 DEF Ready, LoadKinds, SaveKinds, DocumentKinds
  <1>6. CASE j.kind \in SaveKinds
    <2>1. disk'[j.file] = j.scenario
      BY <1>6 DEF ContentInv, Fits
    <2> QED BY <1>2, <1>6, <2>1 DEF Ready, LoadKinds, SaveKinds, DocumentKinds
  <1>7. CASE j.kind \in {"preflight", "plane"}
    BY <1>2, <1>7 DEF Ready, LoadKinds, SaveKinds, DocumentKinds
  <1> QED BY <1>2, <1>3, <1>4, <1>5, <1>6, <1>7 DEF Fits, JobKinds, LoadKinds, SaveKinds

LEMMA WindowReturnsKeeps ==
  ASSUME WindowInv, SlotInv', NEW w \in Workers, WindowReturns(w)
  PROVE  WindowInv'
  <1> USE DEF document, evaluation
  <1> DEFINE j == job[worker]
  <1>1. w = worker /\ worker # NoWorker /\ worker' = worker
    BY AliveIsOwned, WorkersAssumption DEF WindowInv, WindowReturns, FunctionReturns, Alive
  <1>2. Fits(j) /\ DOMAIN job = Workers
    BY <1>1 DEF WindowInv, JobInv
  <1>3. /\ UNCHANGED <<scenario, path, dirty, base, pending, frames, timers, retry>>
        /\ j.kind \in SaveKinds => disk' = [disk EXCEPT ![j.file] = j.scenario]
        /\ j.kind \notin SaveKinds => disk' = disk
    BY <1>1 DEF WindowReturns, SaveKinds
  <1>4. PICK v \in Returned(j) : job' = [job EXCEPT ![worker].value = v]
    BY <1>1 DEF WindowReturns
  <1>5. PICK i : i = [j EXCEPT !.value = v]
    OBVIOUS
  <1>6. job'[worker] = i /\ DOMAIN job' = Workers
    BY <1>1, <1>2, <1>4, <1>5
  <1>7. IsJob(i)
    <2>1. i = [kind |-> j.kind, scenario |-> j.scenario, file |-> j.file,
               asked |-> j.asked, value |-> v]
      BY <1>2, <1>5 DEF Fits, IsJob
    <2> QED BY <2>1 DEF IsJob
  <1> HIDE DEF j
  <1>8. /\ i.kind = j.kind /\ i.scenario = j.scenario /\ i.file = j.file
        /\ i.asked = j.asked /\ Ready(i)'
    BY <1>2, <1>3, <1>4, <1>5, <1>7, ReturnedIsReady DEF WindowInv
  <1>9. Fits(i)'
    <2>1. Fits(i)
      BY <1>2, <1>7, <1>8 DEF Fits
    <2> QED BY <1>3, <2>1, KeepsFits, SameSceneKeeps
  <1>10. JobInv'
    BY <1>1, <1>6, <1>8, <1>9 DEF JobInv
  <1>11. FrameInv' /\ Shown' = Shown
    BY <1>3, SameFramesKeep, SameSceneKeeps DEF WindowInv
  <1>12. ConsentInv'
    <2>1. Askings' \subseteq Askings
      BY <1>1, <1>3, <1>6, <1>8, <1>11 DEF Askings, j
    <2>2. NoEdit => NoEdit'
      BY <1>11 DEF NoEdit
    <2>3. SaveIsCurrent => SaveIsCurrent'
      BY <1>1, <1>3, <1>6, <1>8 DEF SaveIsCurrent, j
    <2>4. \A a : Consents(a) => Consents(a)'
      BY <1>3 DEF Consents
    <2> QED BY <2>1, <2>2, <2>3, <2>4, ConsentKeeps DEF WindowInv
  <1>13. j.kind \in SaveKinds =>
           /\ j.file \in Files /\ j.scenario \in Contents /\ j.scenario # NoScenario
           /\ ~dirty => Design(scenario) = Design(j.scenario)
    BY <1>2, NoScenarioAssumption DEF Fits
  <1>14. ContentInv'
    BY <1>3, <1>13 DEF WindowInv, ContentInv
  <1>15. StoredInv'
    <2>1. \A f \in Files : disk'[f] = disk[f]
                           \/ (j.kind \in SaveKinds /\ disk'[f] = j.scenario)
      BY <1>3, <1>13 DEF WindowInv, ContentInv
    <2>2. base.file # NoFile => base.file \in Files
      BY DEF WindowInv, ContentInv
    <2> QED BY <1>3, <1>13, <2>1, <2>2 DEF WindowInv, StoredInv
  <1> QED BY <1>10, <1>11, <1>12, <1>14, <1>15 DEF WindowInv

LEMMA WindowRaisesKeeps ==
  ASSUME WindowInv, SlotInv', NEW w \in Workers, WindowRaises(w)
  PROVE  WindowInv'
  <1> USE DEF document, evaluation, environment
  <1>1. /\ w = worker /\ worker # NoWorker /\ worker' = worker /\ Busy
        /\ phase[worker] = "running"
    BY AliveIsOwned, WorkersAssumption
    DEF WindowInv, WindowRaises, FunctionRaises, Alive
  <1>2. posted = <<>>
    BY <1>1 DEF Busy, PostedByPhase
  <1>3. phase'[worker] = "ending" /\ posted' = <<Signal("error", w)>>
    BY <1>1, <1>2, SlotFacts DEF WindowInv, WindowRaises, FunctionRaises
  <1>4. ~HasReturned'
    BY <1>1, <1>3 DEF HasReturned, Signal
  <1>5. TakesResult
    BY <1>1, <1>4 DEF TakesResult, WindowRaises
  <1>6. UNCHANGED <<scenario, dirty, base, path, disk, retry, pending, frames, timers>>
    BY DEF WindowRaises
  <1>7. FrameInv' /\ Shown' = Shown
    BY <1>6, SameFramesKeep, SameSceneKeeps DEF WindowInv
  <1> QED BY <1>1, <1>5, <1>6, <1>7, TakenWindow DEF PendingFits

LEMMA WindowPoolKeeps ==
  ASSUME WindowInv, SlotInv', NEW w \in Workers, WindowPool(w)
  PROVE  WindowInv'
  <1>1. ASSUME PoolStarts(w) \/ EmitResult(w) \/ EmitFinished(w), UNCHANGED windowVars
        PROVE  WindowInv'
    <2>1. Pool(w) /\ ~FunctionReturns(w)
      BY <1>1 DEF Pool, PoolStarts, EmitResult, EmitFinished, FunctionReturns
    <2>2. worker' = worker /\ (HasReturned' => HasReturned)
      BY <2>1, PoolKeepsReturned DEF WindowInv
    <2> QED BY <1>1, <2>2, IdleKeeps DEF windowVars
  <1> QED BY <1>1, WindowReturnsKeeps, WindowRaisesKeeps DEF WindowPool

-----------------------------------------------------------------------------
(* The invariant, and what it is for.                                      *)

LEMMA WindowInvInit == Init => WindowInv
  <1> SUFFICES ASSUME Init PROVE WindowInv
    OBVIOUS
  <1> USE DEF Init, WindowInit
  <1>1. SlotInv
    BY SlotInvInit
  <1>2. frames = <<>> /\ worker = NoWorker /\ scenario = NoScenario /\ base.content = scenario
    BY DEF LifecycleInit
  <1>3. Shown = {}
    BY <1>2 DEF Shown
  <1>4. ContentInv
    BY DEF ContentInv
  <1>5. FrameInv
    BY <1>2, <1>3, EmptyQueue DEF FrameInv
  <1>6. JobInv
    BY <1>2 DEF JobInv
  <1>7. ConsentInv
    BY <1>2, <1>3 DEF ConsentInv, Askings
  <1>8. StoredInv
    BY <1>2 DEF StoredInv
  <1> QED BY <1>1, <1>4, <1>5, <1>6, <1>7, <1>8 DEF WindowInv

LEMMA WindowInvNext == WindowInv /\ [Next]_vars => WindowInv'
  <1> SUFFICES ASSUME WindowInv, [Next]_vars PROVE WindowInv'
    OBVIOUS
  <1>0. SlotInv'
    BY SlotInvNext, WindowStepIsLifecycleStep DEF WindowInv
  <1>1. CASE \E k \in {"open", "import"} : AskOpen(k)
    BY <1>0, <1>1, AskOpenKeeps
  <1>2. CASE \E f \in Files : AnswerOpen(f)
    BY <1>0, <1>2, AnswerOpenKeeps
  <1>3. CASE AnswerImport
    BY <1>0, <1>3, AnswerImportKeeps
  <1>4. CASE Dismiss \/ AnswerClose
    BY <1>0, <1>4, DismissKeeps
  <1>5. CASE \E f \in Files : Save(f)
    BY <1>0, <1>5, SaveKeeps
  <1>6. CASE \E k \in {"edit", "colour"} : AskEdit(k)
    BY <1>0, <1>6, AskEditKeeps
  <1>7. CASE \E d \in Designs : AnswerEdit(d)
    BY <1>0, <1>7, AnswerEditKeeps
  <1>8. CASE \E c \in Colours : AnswerColour(c)
    BY <1>0, <1>8, AnswerColourKeeps
  <1>9. CASE Select
    BY <1>0, <1>9, SelectKeeps
  <1>10. CASE RunEvaluation
    BY <1>0, <1>10, RunEvaluationKeeps
  <1>11. CASE AnswerPartial
    BY <1>0, <1>11, AnswerPartialKeeps
  <1>12. CASE \E f \in Files : AnswerLaunch(f)
    BY <1>0, <1>12, AnswerLaunchKeeps
  <1>13. CASE AnswerRelink
    BY <1>0, <1>13, AnswerRelinkKeeps
  <1>14. CASE Cancel
    BY <1>0, <1>14, IdleKeeps DEF Cancel, CancelWorker, windowVars, HasReturned
  <1>15. CASE Close
    BY <1>0, <1>15, CloseKeeps
  <1>16. CASE \E f \in Files : FireAutoSave(f)
    BY <1>0, <1>16, FireAutoSaveKeeps
  <1>17. CASE FireRelink
    BY <1>0, <1>17, FireRelinkKeeps
  <1>18. CASE LoadPlaneLayer
    BY <1>0, <1>18, LoadPlaneKeeps
  <1>19. CASE SkipPlaneLayer
    <2>1. UNCHANGED <<worker, scenario, path, dirty, base, disk, pending, frames,
                      retry, job, phase, posted>> /\ timers' \subseteq timers
      BY <1>19 DEF SkipPlaneLayer, Quiescent, lifecycleVars, document, evaluation,
                   environment
    <2> QED BY <1>0, <2>1, IdleKeeps DEF HasReturned
  <1>20. CASE WindowResult
    BY <1>0, <1>20, WindowResultKeeps
  <1>21. CASE WindowError
    BY <1>0, <1>21, WindowErrorKeeps
  <1>22. CASE WindowFinished
    BY <1>0, <1>22, WindowFinishedKeeps
  <1>23. CASE \E w \in Workers : WindowPool(w)
    BY <1>0, <1>23, WindowPoolKeeps
  <1>24. CASE UNCHANGED vars
    BY <1>0, <1>24, IdleKeeps DEF vars, lifecycleVars, windowVars, HasReturned
  <1> QED BY <1>1, <1>2, <1>3, <1>4, <1>5, <1>6, <1>7, <1>8, <1>9, <1>10, <1>11,
             <1>12, <1>13, <1>14, <1>15, <1>16, <1>17, <1>18, <1>19, <1>20, <1>21,
             <1>22, <1>23, <1>24 DEF Next

\* The window always knows what its document, its dialogs, its timers and its worker
\* have to do with each other (WindowInv), for every number of workers and dialogs.
THEOREM WindowInvariant == Spec => []WindowInv
  BY WindowInvInit, WindowInvNext, PTL DEF Spec

\* A document that is shown as clean has nothing to lose: its design, revision and
\* captures are those of the last import, load or completed save, and the open file
\* holds them.
THEOREM CleanDocumentIsStored == Spec => []CleanMeansStored
  <1>1. WindowInv => CleanMeansStored
    BY DEF WindowInv, ContentInv, StoredInv, CleanMeansStored
  <1> QED BY <1>1, WindowInvariant, PTL

\* A result that is accepted is the one of the job in the slot.
LEMMA AcceptedIsOwn ==
  ASSUME WindowInv, [Next]_vars, Accepting
  PROVE  /\ WindowResult /\ OnResult(job[worker])
         /\ Delivered = job[worker] /\ worker # NoWorker
         /\ Fits(job[worker]) /\ Ready(job[worker])
  <1>1. WindowResult
    BY TailIsDelivery
    DEF WindowInv, Accepting, NextSignal, WindowError, DeliverError, WindowFinished
  <1>2. worker \in Workers /\ Head(posted).worker = worker /\ HasReturned
    BY <1>1, DeliveredIsOwn DEF WindowResult, WindowInv
  <1> QED BY <1>1, <1>2, WorkersAssumption
          DEF WindowResult, Accepting, Delivered, WindowInv, JobInv

\* No import or load replaces a design nobody else has, unless the user was asked
\* about that very design: whatever ran or was opened since the question was answered
\* left it as it was.
THEOREM ReplacementIsConsented == Spec => ReplacesOnlyWithConsent
  <1>1. ASSUME WindowInv, [Next]_vars, Accepting, Delivered.kind \in DocumentKinds,
               scenario # NoScenario, scenario.design # base.content.design
        PROVE  Delivered.asked = scenario.design
    <2>1. Delivered = job[worker] /\ worker # NoWorker
      BY <1>1, AcceptedIsOwn
    <2>2. Delivered.asked \in Askings
      BY <1>1, <2>1 DEF Askings
    <2>3. Content(scenario) \in Contents
      BY <1>1 DEF WindowInv, ContentInv
    <2> QED BY <1>1, <2>2, <2>3 DEF WindowInv, ConsentInv, Consents
  <1>2. WindowInv /\ [Next]_vars =>
          [Accepting /\ Delivered.kind \in DocumentKinds
           /\ scenario # NoScenario /\ scenario.design # base.content.design
             => Delivered.asked = scenario.design]_vars
    BY <1>1
  <1> QED BY <1>2, WindowInvariant, PTL DEF Spec, ReplacesOnlyWithConsent

\* Merging the result of an evaluation keeps the open design, its revision and its
\* captures, however many dialogs, timers and saves came between its preflight, its
\* capture and its end; a NET colour changed meanwhile may go back to the evaluated one.
THEOREM MergeKeepsDesign == Spec => EvaluationKeepsDesign
  <1>1. ASSUME WindowInv, [Next]_vars, Accepting, Delivered.kind = "evaluate"
        PROVE  /\ scenario'.design = scenario.design
               /\ scenario'.revision >= scenario.revision
               /\ scenario.captured => scenario'.captured
               /\ scenario'.colour \in {scenario.colour, Delivered.scenario.colour}
    <2> DEFINE j == job[worker]
    <2>1. /\ OnResult(j) /\ Fits(j) /\ Ready(j)
          /\ j.kind = "evaluate" /\ Delivered = j
      BY <1>1, AcceptedIsOwn
    <2>2. AcceptEvaluation(j) /\ Content(scenario) \in Contents
      BY <2>1 DEF OnResult, AcceptDocument, AcceptSaved, AcceptPreflight, AcceptPlane,
                  DocumentKinds, Fits
    <2>3. CASE Matches(j) /\ j.value.converged
      <3>1. /\ j.value.content \in Contents
            /\ j.value.content.design = scenario.design
            /\ j.value.content.revision >= scenario.revision
            /\ j.value.content.captured
            /\ j.value.content.colour = j.scenario.colour
        BY <2>1, <2>3 DEF Ready, Matches
      <3>2. scenario' = New(j.value.content)
        BY <2>2, <2>3 DEF AcceptEvaluation
      <3> QED BY <2>1, <3>1, <3>2, NewHasContent
    <2>4. CASE ~(Matches(j) /\ j.value.converged)
      <3>1. scenario' = scenario
        BY <2>2, <2>4 DEF AcceptEvaluation
      <3>2. scenario.revision >= scenario.revision
        BY <2>2, MainWindowAssumption DEF Contents, Content
      <3> QED BY <3>1, <3>2
    <2> QED BY <2>3, <2>4
  <1>2. WindowInv /\ [Next]_vars =>
          [Accepting /\ Delivered.kind = "evaluate"
             => /\ scenario'.design = scenario.design
                /\ scenario'.revision >= scenario.revision
                /\ scenario.captured => scenario'.captured
                /\ scenario'.colour \in {scenario.colour, Delivered.scenario.colour}]_vars
    BY <1>1
  <1> QED BY <1>2, WindowInvariant, PTL DEF Spec, EvaluationKeepsDesign
-----------------------------------------------------------------------------
(* Identities and types.                                                   *)

\* A function has no more values than arguments.
LEMMA ImageIsSmall ==
  ASSUME NEW S, IsFiniteSet(S), NEW g, DOMAIN g = S
  PROVE  LET T == {g[x] : x \in S}
         IN  IsFiniteSet(T) /\ Cardinality(T) \in Nat /\ Cardinality(T) <= Cardinality(S)
  <1> DEFINE T == {g[x] : x \in S}
  <1>1. PICK h : h = [x \in S |-> g[x]]
    OBVIOUS
  <1>2. h \in Surjection(S, T)
    BY <1>1 DEF Surjection
  <1> HIDE DEF T
  <1>3. IsFiniteSet(T) /\ Cardinality(T) <= Cardinality(S)
    BY <1>2, FS_Surjection
  <1>4. Cardinality(T) \in Nat
    BY <1>3, FS_CardinalityType
  <1> QED BY <1>3, <1>4 DEF T

LEMMA UnionIsSmall ==
  ASSUME NEW S, IsFiniteSet(S), NEW T, IsFiniteSet(T)
  PROVE  /\ IsFiniteSet(S \cup T) /\ Cardinality(S \cup T) \in Nat
         /\ Cardinality(S \cup T) <= Cardinality(S) + Cardinality(T)
  <1>1. IsFiniteSet(S \cup T) /\ IsFiniteSet(S \cap T)
    BY FS_Union, FS_Subset
  <1>2. /\ Cardinality(S) \in Nat /\ Cardinality(T) \in Nat
        /\ Cardinality(S \cup T) \in Nat /\ Cardinality(S \cap T) \in Nat
    BY <1>1, FS_CardinalityType
  <1>3. Cardinality(S \cup T) = Cardinality(S) + Cardinality(T) - Cardinality(S \cap T)
    BY FS_Union
  <1> QED BY <1>1, <1>2, <1>3

\* A set of numbers has a least one.
LEMMA MinIsLeast ==
  ASSUME NEW S, S \subseteq Nat, S # {}
  PROVE  Min(S) \in S
  <1> DEFINE R == OpToRel(<, Nat)
  <1>1. IsWellFoundedOn(R, Nat)
    BY NatLessThanWellFounded
  <1>2. \E x \in S : \A y \in S : <<y, x>> \notin R
    <2> HIDE DEF R
    <2> QED BY <1>1, WFMin
  <1>3. PICK x \in S : \A y \in S : <<y, x>> \notin R
    BY <1>2
  <1>4. R = {e \in Nat \X Nat : e[1] < e[2]}
    BY DEF OpToRel
  <1> HIDE DEF R
  <1>5. ASSUME NEW y \in S
        PROVE  x =< y
    <2>1. x \in Nat /\ y \in Nat /\ <<y, x>> \notin R
      BY <1>3
    <2>2. ~(y < x)
      BY <1>4, <2>1
    <2> QED BY <2>1, <2>2
  <1> QED BY <1>5 DEF Min

\* However many workers and dialogs refer to a scenario, one identity is left for a
\* new one.
LEMMA IdIsLeft ==
  ASSUME frames \in Seq(Shown), Len(frames) <= MaxFrames
  PROVE  FreshId \in Ids
  <1> DEFINE n == Len(frames)
             m == Cardinality(Workers)
             one == {pending.scenario.id}
             jobs == [w \in Workers |-> job[w].scenario.id]
             asks == [i \in 1..n |-> frames[i].request.scenario.id]
             J == {jobs[w] : w \in Workers}
             A == {asks[i] : i \in 1..n}
             U == one \cup (J \cup A)
             T == {s.id : s \in Held}
  <1>1. n \in Nat /\ DOMAIN frames = 1..n
    OBVIOUS
  <1>2. T \subseteq U
    BY <1>1 DEF Held
  <1>3. IsFiniteSet(1..n) /\ Cardinality(1..n) = n
    <2> HIDE DEF n
    <2>1. 1 \in Int /\ n \in Int /\ n >= 0
      BY <1>1
    <2> QED BY <2>1, FS_Interval
  <1>4. IsFiniteSet(Workers) /\ m \in Nat /\ MaxFrames \in Nat
    BY MainWindowAssumption, FS_CardinalityType
  <1>5. IsFiniteSet(J) /\ Cardinality(J) \in Nat /\ Cardinality(J) <= m
    <2>1. DOMAIN jobs = Workers
      OBVIOUS
    <2> HIDE DEF jobs
    <2> QED BY <1>4, <2>1, ImageIsSmall
  <1>6. IsFiniteSet(A) /\ Cardinality(A) \in Nat /\ Cardinality(A) <= n
    <2>1. DOMAIN asks = 1..n
      OBVIOUS
    <2> HIDE DEF asks, n
    <2> QED BY <1>3, <2>1, ImageIsSmall
  <1>7. IsFiniteSet(one) /\ Cardinality(one) = 1
    <2> HIDE DEF one
    <2> QED BY FS_Singleton DEF one
  <1>8. IsFiniteSet(U) /\ Cardinality(U) \in Nat /\ Cardinality(U) <= 1 + (m + n)
    <2> HIDE DEF one, J, A, m, n
    <2>1. /\ IsFiniteSet(J \cup A) /\ Cardinality(J \cup A) \in Nat
          /\ Cardinality(J \cup A) <= Cardinality(J) + Cardinality(A)
      BY <1>5, <1>6, UnionIsSmall
    <2>2. /\ IsFiniteSet(U) /\ Cardinality(U) \in Nat
          /\ Cardinality(U) <= Cardinality(one) + Cardinality(J \cup A)
      BY <1>7, <2>1, UnionIsSmall
    <2> QED BY <1>1, <1>4, <1>5, <1>6, <1>7, <2>1, <2>2
  <1> HIDE DEF U, T, one, J, A, jobs, asks, m
  <1>9. Ids = 1..(MaxFrames + m + 2)
    BY DEF Ids, m
  <1> DEFINE k == MaxFrames + m + 2
  <1>10. k \in Int /\ k >= 2 /\ k > 1 + (m + n)
    BY <1>1, <1>4
  <1>11. Cardinality(Ids) = k
    <2> HIDE DEF k
    <2> QED BY <1>9, <1>10, FS_Interval DEF k
  <1>12. Ids \ T # {}
    <2>1. SUFFICES ASSUME Ids \subseteq T PROVE FALSE
      OBVIOUS
    <2>2. Ids \in SUBSET U
      BY <1>2, <2>1
    <2>3. Cardinality(Ids) <= Cardinality(U)
      BY <1>8, <2>2, FS_Subset
    <2> HIDE DEF k, n
    <2>4. n \in Nat
      BY <1>1
    <2> QED BY <1>4, <1>8, <1>10, <1>11, <2>3, <2>4
  <1>13. Ids \subseteq Nat
    BY <1>9
  <1>14. Min(Ids \ T) \in Ids \ T
    BY <1>12, <1>13, MinIsLeast
  <1> QED BY <1>14 DEF FreshId, T

LEMMA NewIsScenario ==
  ASSUME frames \in Seq(Shown), Len(frames) <= MaxFrames, NEW c \in Contents
  PROVE  New(c) \in ScenarioObjects
  BY IdIsLeft DEF New, Scenario, ScenarioObjects, Contents

\* Everything TypeOK says but what the slot and the files are, and what it takes to
\* keep it: an identity is left, the job in the slot is one, and only a scenario is
\* dirty.
DocumentTyped ==
  /\ scenario \in ScenarioObjects \cup {NoScenario}
  /\ path \in Files \cup {NoFile}
  /\ dirty \in BOOLEAN /\ autoSave \in BOOLEAN /\ closing \in BOOLEAN
  /\ dirty => Content(scenario) \in Contents

ResultsTyped ==
  /\ batch \in [design : Designs, revision : 0..MaxRevision] \cup {NoValue}
  /\ pending \in Requests \cup {NoRequest}

DialogsTyped ==
  /\ \A f \in Shown : FrameOK(f)
  /\ Len(frames) <= MaxFrames

TimersTyped ==
  /\ timers \subseteq {"autosave", "plane"}
  /\ retry \in [file : Files, asked : Designs \cup {NoValue}] \cup {NoRequest}

JobsTyped ==
  /\ \A w \in Workers : job[w] = NoJob \/ JobOK(job[w])
  /\ worker # NoWorker => JobOK(job[worker])

TypesInv ==
  /\ WindowInv
  /\ DocumentTyped /\ ResultsTyped /\ DialogsTyped /\ TimersTyped /\ JobsTyped

LEMMA TypesAreKept == TypesInv => TypeOK
  <1> SUFFICES ASSUME TypesInv PROVE TypeOK
    OBVIOUS
  <1>1. \A i \in DOMAIN frames : FrameOK(frames[i])
    BY DEF TypesInv, DialogsTyped, Shown
  <1> QED BY <1>1 DEF TypesInv, TypeOK, DocumentTyped, ResultsTyped, TimersTyped, JobsTyped,
                      WindowInv, SlotInv, ContentInv

\* A new object made in a step.
LEMMA NewHere ==
  ASSUME TypesInv, NEW c \in Contents
  PROVE  New(c) \in ScenarioObjects /\ Content(New(c)) = c
  BY NewIsScenario, NewHasContent DEF TypesInv, WindowInv, FrameInv, DialogsTyped

LEMMA DesignIsOne ==
  ASSUME Content(scenario) \in Contents
  PROVE  scenario.design \in Designs
  BY DEF Content, Contents

-----------------------------------------------------------------------------
(* The types of the document and of the results.                           *)

LEMMA InnermostFits ==
  ASSUME TypesInv, frames # <<>>, Pop
  PROVE  /\ Innermost \in Shown /\ FrameFits(Innermost) /\ FrameOK(Innermost)
         /\ Shown' \subseteq Shown
  BY PopShows DEF TypesInv, WindowInv, FrameInv, DialogsTyped

LEMMA ResultFacts ==
  ASSUME TypesInv, WindowResult
  PROVE  /\ worker \in Workers /\ worker # NoWorker /\ Head(posted).worker = worker
         /\ Fits(job[worker]) /\ Ready(job[worker]) /\ JobOK(job[worker])
         /\ OnResult(job[worker]) \/ UNCHANGED <<document, evaluation, frames, timers>>
         /\ UNCHANGED environment
  <1>1. /\ worker \in Workers /\ worker # NoWorker /\ HasReturned
        /\ Head(posted).worker = worker
    BY DeliveredIsOwn, WorkersAssumption DEF TypesInv, WindowInv, WindowResult
  <1> QED BY <1>1 DEF TypesInv, WindowInv, JobInv, JobsTyped, WindowResult

LEMMA ErrorFacts ==
  ASSUME TypesInv, WindowError
  PROVE  /\ worker \in Workers /\ worker # NoWorker /\ Head(posted).worker = worker
         /\ Fits(job[worker]) /\ JobOK(job[worker])
  <1>1. worker \in Workers /\ worker # NoWorker /\ Head(posted).worker = worker
    BY OutcomeIsOwn DEF TypesInv, WindowInv, WindowError, DeliverError, Outcomes
  <1> QED BY <1>1 DEF TypesInv, WindowInv, JobInv, JobsTyped

\* A handler that takes a result.
LEMMA OnResultTyped ==
  ASSUME TypesInv, NEW j, OnResult(j), UNCHANGED environment, Fits(j), Ready(j), JobOK(j)
  PROVE  DocumentTyped' /\ ResultsTyped'
  <1> USE DEF document, evaluation, environment
  <1>0. DocumentTyped /\ ResultsTyped
    BY DEF TypesInv
  <1>1. CASE AcceptDocument(j)
    <2>1. j.value.content \in Contents
      BY <1>1 DEF AcceptDocument, Ready
    <2>2. scenario' \in ScenarioObjects /\ Content(scenario') \in Contents
      BY <1>1, <2>1, NewHere DEF AcceptDocument
    <2>3. j.file \in Files \cup {NoFile}
      BY DEF JobOK
    <2>4. Content(scenario)' \in Contents
      BY <2>2 DEF Content
    <2>5. DocumentTyped'
      BY <1>0, <1>1, <2>2, <2>3, <2>4 DEF AcceptDocument, DocumentTyped
    <2>6. ResultsTyped'
      BY <1>1 DEF AcceptDocument, Invalidate, ResultsTyped
    <2> QED BY <2>5, <2>6
  <1>2. CASE AcceptSaved(j)
    <2>1. j.file \in Files \cup {NoFile} /\ Content(scenario) \in Contents
      BY <1>2 DEF AcceptSaved, JobOK, Fits, SaveKinds
    <2>2. Content(scenario)' = Content(scenario)
      BY <1>2 DEF AcceptSaved, Content
    <2>3. DocumentTyped'
      BY <1>0, <1>2, <2>1, <2>2 DEF AcceptSaved, DocumentTyped
    <2> QED BY <1>0, <1>2, <2>3 DEF AcceptSaved, ResultsTyped
  <1>3. CASE AcceptPreflight(j)
    <2>1. j.scenario \in ScenarioObjects
      BY <1>3 DEF AcceptPreflight, JobOK
    <2>2. Request(j.scenario, FALSE) \in Requests
      BY <2>1 DEF Request, Requests
    <2>3. ResultsTyped'
      BY <1>0, <1>3, <2>2 DEF AcceptPreflight, ResultsTyped, Invalidate
    <2> QED BY <1>0, <1>3, <2>3 DEF AcceptPreflight, DocumentTyped, Content
  <1>4. CASE AcceptEvaluation(j) /\ Matches(j) /\ j.value.converged
    <2>1. j.value.content \in Contents
      BY <1>4 DEF AcceptEvaluation, Ready
    <2>2. /\ scenario' = New(j.value.content)
          /\ dirty' = (dirty \/ j.value.content # Content(scenario)) /\ autoSave' = dirty'
          /\ batch' = [design |-> j.value.content.design,
                       revision |-> j.value.content.revision]
          /\ UNCHANGED <<path, pending, closing>>
      BY <1>4 DEF AcceptEvaluation
    <2>3. scenario' \in ScenarioObjects /\ Content(scenario') \in Contents
      BY <2>1, <2>2, NewHere
    <2>4. Content(scenario)' \in Contents
      BY <2>3 DEF Content
    <2>5. batch' \in [design : Designs, revision : 0..MaxRevision]
      BY <2>1, <2>2 DEF Contents
    <2> QED BY <1>0, <2>2, <2>3, <2>4, <2>5 DEF DocumentTyped, ResultsTyped
  <1>5. CASE AcceptEvaluation(j) /\ ~(Matches(j) /\ j.value.converged)
    BY <1>0, <1>5 DEF AcceptEvaluation, Invalidate, DocumentTyped, ResultsTyped, Content
  <1>6. CASE AcceptPlane(j)
    BY <1>0, <1>6 DEF AcceptPlane, DocumentTyped, ResultsTyped, Content
  <1> QED BY <1>1, <1>2, <1>3, <1>4, <1>5, <1>6 DEF OnResult

\* An edit, a colour, a selection.
LEMMA ReplacedTyped ==
  ASSUME TypesInv, NEW c \in Contents, scenario' = New(c), dirty' \in BOOLEAN,
         UNCHANGED <<path, autoSave, closing>>
  PROVE  DocumentTyped'
  <1>1. scenario' \in ScenarioObjects /\ Content(scenario)' \in Contents
    BY NewHere DEF Content
  <1> QED BY <1>1 DEF TypesInv, DocumentTyped

LEMMA EditingTyped ==
  ASSUME TypesInv,
         \/ \E d \in Designs : AnswerEdit(d)
         \/ \E c \in Colours : AnswerColour(c)
         \/ Select
  PROVE  DocumentTyped' /\ ResultsTyped'
  <1> USE DEF document, evaluation, environment
  <1>1. ASSUME NEW d \in Designs, AnswerEdit(d)
        PROVE  DocumentTyped' /\ ResultsTyped'
    <2> DEFINE c == [Content(scenario) EXCEPT !.design = d, !.revision = @ + 1]
    <2>1. Content(scenario) \in Contents
      BY <1>1, InnermostFits DEF AnswerEdit, Waiting, FrameFits
    <2>2. Content(scenario).revision < MaxRevision
      BY <1>1 DEF AnswerEdit, Content
    <2>3. c \in Contents
      BY <2>1, <2>2, EditedIsContent
    <2>4. /\ scenario' = New(c) /\ dirty' \in BOOLEAN /\ UNCHANGED <<path, autoSave, closing>>
          /\ batch' = NoValue /\ pending' = NoRequest
      BY <1>1 DEF AnswerEdit, Invalidate
    <2> HIDE DEF c
    <2> QED BY <2>3, <2>4, ReplacedTyped DEF ResultsTyped
  <1>2. ASSUME NEW k \in Colours, AnswerColour(k)
        PROVE  DocumentTyped' /\ ResultsTyped'
    <2> DEFINE c == [Content(scenario) EXCEPT !.colour = k]
    <2>1. Content(scenario) \in Contents
      BY <1>2, InnermostFits DEF AnswerColour, Waiting, FrameFits
    <2>2. c \in Contents
      BY <2>1 DEF Contents
    <2>3. /\ scenario' = New(c) /\ dirty' \in BOOLEAN /\ UNCHANGED <<path, autoSave, closing>>
          /\ UNCHANGED <<pending, batch>> \/ (batch' = NoValue /\ pending' = NoRequest)
      BY <1>2 DEF AnswerColour, Invalidate
    <2> HIDE DEF c
    <2> QED BY <2>2, <2>3, ReplacedTyped DEF TypesInv, ResultsTyped
  <1>3. CASE Select
    <2>1. Content(scenario) \in Contents
      BY <1>3 DEF Select, TypesInv, WindowInv, ContentInv
    <2>2. dirty' \in BOOLEAN /\ UNCHANGED <<path, autoSave, closing, batch, pending>>
          /\ scenario' = New(Content(scenario))
      BY <1>3 DEF Select, TypesInv, DocumentTyped
    <2> QED BY <2>1, <2>2, ReplacedTyped DEF TypesInv, ResultsTyped
  <1> QED BY <1>1, <1>2, <1>3

LEMMA DocumentTypedNext ==
  ASSUME TypesInv, [Next]_vars
  PROVE  DocumentTyped' /\ ResultsTyped'
  <1> USE DEF document, evaluation, environment
  <1> DEFINE Same == UNCHANGED <<scenario, path, dirty, autoSave, closing, batch, pending>>
  <1>0. DocumentTyped /\ ResultsTyped
    BY DEF TypesInv
  <1>1. ASSUME Same PROVE DocumentTyped' /\ ResultsTyped'
    BY <1>0, <1>1 DEF DocumentTyped, ResultsTyped, Content
  <1>2. CASE \/ \E k \in {"open", "import"} : AskOpen(k)
             \/ \E f \in Files : AnswerOpen(f)
             \/ AnswerImport \/ Dismiss
             \/ \E f \in Files : Save(f)
             \/ \E k \in {"edit", "colour"} : AskEdit(k)
             \/ AnswerRelink \/ Cancel
             \/ \E f \in Files : FireAutoSave(f)
             \/ FireRelink \/ LoadPlaneLayer \/ SkipPlaneLayer
    <2>1. Same
      BY <1>2 DEF AskOpen, AnswerOpen, AnswerImport, Dismiss, Save, AskEdit, AnswerRelink,
                  Cancel, FireAutoSave, FireRelink, LoadPlaneLayer, SkipPlaneLayer, windowVars
    <2> QED BY <1>1, <2>1
  <1>3. CASE \E d \in Designs : AnswerEdit(d)
    BY <1>3, EditingTyped
  <1>4. CASE (\E c \in Colours : AnswerColour(c)) \/ Select
    BY <1>4, EditingTyped
  <1>5. CASE RunEvaluation \/ Close \/ AnswerClose
    <2>1. /\ UNCHANGED <<scenario, path, dirty, autoSave, batch>>
          /\ pending' \in {pending, NoRequest} /\ closing' \in {closing, TRUE}
      BY <1>5 DEF RunEvaluation, Close, AnswerClose
    <2>2. closing' \in BOOLEAN
      BY <1>0, <2>1 DEF DocumentTyped
    <2>3. Content(scenario)' = Content(scenario)
      BY <2>1 DEF Content
    <2>4. DocumentTyped'
      BY <1>0, <2>1, <2>2, <2>3 DEF DocumentTyped
    <2> QED BY <1>0, <2>1, <2>4 DEF ResultsTyped
  <1>6. CASE AnswerPartial
    <2>1. pending' \in Requests \cup {NoRequest}
      BY <1>6, InnermostFits DEF AnswerPartial, Waiting, FrameOK
    <2> QED BY <1>0, <1>6, <2>1 DEF AnswerPartial, DocumentTyped, ResultsTyped, Content
  <1>7. CASE \E f \in Files : AnswerLaunch(f)
    <2>1. PICK f \in Files : AnswerLaunch(f)
      BY <1>7
    <2>2. /\ path' \in Files /\ UNCHANGED <<scenario, dirty, autoSave, closing>>
          /\ UNCHANGED <<pending, batch>> \/ (batch' = NoValue /\ pending' = NoRequest)
      BY <2>1 DEF AnswerLaunch, Invalidate
    <2> QED BY <1>0, <2>2 DEF DocumentTyped, ResultsTyped, Content
  <1>8. CASE WindowResult
    <2>1. CASE OnResult(job[worker])
      <3> DEFINE j == job[worker]
      <3>1. Fits(j) /\ Ready(j) /\ JobOK(j) /\ OnResult(j) /\ UNCHANGED environment
        BY <1>8, <2>1, ResultFacts
      <3> HIDE DEF j
      <3> QED BY <3>1, OnResultTyped
    <2>2. CASE UNCHANGED <<document, evaluation, frames, timers>>
      BY <1>1, <1>8, <2>2 DEF WindowResult
    <2> QED BY <1>8, <2>1, <2>2, ResultFacts
  <1>9. CASE WindowError
    <2>1. dirty' = dirty \/ (dirty' = TRUE /\ job[worker].kind = "autosave")
      BY <1>9, ErrorFacts DEF WindowError
    <2>2. job[worker].kind = "autosave" => Content(scenario) \in Contents
      BY <1>9, ErrorFacts DEF Fits, SaveKinds
    <2>3. UNCHANGED <<scenario, path, autoSave, closing, batch, pending>>
      BY <1>9 DEF WindowError
    <2>4. dirty' \in BOOLEAN /\ (dirty' => Content(scenario) \in Contents)
      <3>1. CASE dirty' = dirty
        BY <1>0, <3>1 DEF DocumentTyped
      <3>2. CASE dirty' = TRUE /\ job[worker].kind = "autosave"
        BY <2>2, <3>2
      <3> QED BY <2>1, <3>1, <3>2
    <2>5. Content(scenario)' = Content(scenario)
      BY <2>3 DEF Content
    <2>6. DocumentTyped'
      BY <1>0, <2>3, <2>4, <2>5 DEF DocumentTyped
    <2> QED BY <1>0, <2>3, <2>6 DEF ResultsTyped
  <1>10. CASE WindowFinished
    <2>1. /\ UNCHANGED <<scenario, path, dirty, closing>>
          /\ pending' = NoRequest /\ autoSave' = FALSE /\ batch' \in {batch, NoValue}
      BY <1>10 DEF WindowFinished, FinishAndEvaluate, FinishAndWait
    <2> QED BY <1>0, <2>1 DEF DocumentTyped, ResultsTyped, Content
  <1>11. CASE \E w \in Workers : WindowPool(w)
    <2>1. Same
      BY <1>11 DEF WindowPool, WindowReturns, WindowRaises, windowVars
    <2> QED BY <1>1, <2>1
  <1>12. CASE UNCHANGED vars
    BY <1>1, <1>12 DEF vars, windowVars
  <1> QED BY <1>2, <1>3, <1>4, <1>5, <1>6, <1>7, <1>8, <1>9, <1>10, <1>11, <1>12 DEF Next

-----------------------------------------------------------------------------
(* The types of the dialogs and the timers.                                *)

LEMMA PushedTyped ==
  ASSUME TypesInv, NEW f, FrameOK(f), Push(f)
  PROVE  DialogsTyped'
  <1>1. frames \in Seq(Shown) /\ Len(frames) <= MaxFrames
    BY DEF TypesInv, WindowInv, FrameInv, DialogsTyped
  <1>2. Shown' \subseteq Shown \cup {f}
    BY <1>1, PushShows
  <1>3. Len(frames') <= MaxFrames
    <2>1. FramesBound \in 0..MaxFrames /\ MaxFrames \in Nat
      BY MainWindowAssumption DEF FramesBound
    <2>2. CASE frames' = frames
      BY <1>1, <2>2
    <2>3. CASE Len(frames) < FramesBound /\ frames' = Append(frames, f)
      <3> DEFINE S == Shown \cup {f}
      <3>1. frames \in Seq(S) /\ f \in S
        BY <1>1
      <3> HIDE DEF S
      <3>2. Len(frames') = Len(frames) + 1 /\ Len(frames) \in Nat
        BY <2>3, <3>1
      <3> QED BY <2>1, <2>3, <3>2
    <2> QED BY <2>2, <2>3 DEF Push
  <1>4. \A g \in Shown' : FrameOK(g)
    BY <1>2 DEF TypesInv, DialogsTyped
  <1> QED BY <1>3, <1>4 DEF DialogsTyped, FrameOK

LEMMA PoppedTyped ==
  ASSUME TypesInv, frames # <<>>, Pop
  PROVE  DialogsTyped'
  <1>1. frames \in Seq(Shown) /\ Len(frames) <= MaxFrames
    BY DEF TypesInv, WindowInv, FrameInv, DialogsTyped
  <1>2. Len(frames') <= MaxFrames
    <2> DEFINE S == Shown
    <2>1. frames \in Seq(S)
      BY <1>1
    <2> HIDE DEF S
    <2>2. Len(frames) \in Nat /\ Len(frames) >= 1
      BY <2>1
    <2> DEFINE n == Len(frames) - 1
    <2>3. n \in Nat /\ frames' = SubSeq(frames, 1, n) /\ n <= Len(frames)
      BY <2>2 DEF Pop
    <2> HIDE DEF n
    <2>4. \A q \in Seq(S), k \in Nat : k <= Len(q) => Len(SubSeq(q, 1, k)) = k
      OBVIOUS
    <2>5. Len(frames') = n
      BY <2>1, <2>3, <2>4
    <2> USE DEF n
    <2> QED BY <2>5, <1>1, <2>2, <2>3, MainWindowAssumption
  <1>3. \A g \in Shown' : FrameOK(g)
    BY InnermostFits DEF TypesInv, DialogsTyped
  <1> QED BY <1>2, <1>3 DEF DialogsTyped, FrameOK

\* The dialogs the window opens.
LEMMA FramesAreTyped ==
  /\ \A k \in {"open", "import"}, a \in Designs \cup {NoValue} :
       FrameOK(Frame(k, NoRequest, NoFile, a))
  /\ \A k \in {"edit", "colour", "close"} : FrameOK(Frame(k, NoRequest, NoFile, NoValue))
  /\ \A k \in {"partial", "launch"}, r \in Requests :
       FrameOK(Frame(k, r, NoFile, NoValue))
  /\ \A f \in Files \cup {NoFile}, a \in Designs \cup {NoValue} :
       FrameOK(Frame("relink", NoRequest, f, a))
  BY DEF Frame, FrameOK, FrameKinds

LEMMA DialogsTypedNext ==
  ASSUME TypesInv, [Next]_vars
  PROVE  DialogsTyped'
  <1> USE DEF document, evaluation, environment
  <1>0. DialogsTyped
    BY DEF TypesInv
  <1>1. ASSUME UNCHANGED frames PROVE DialogsTyped'
    BY <1>0, <1>1 DEF DialogsTyped, Shown, FrameOK
  <1>2. ASSUME NEW k \in {"open", "import"}, AskOpen(k) PROVE DialogsTyped'
    <2> DEFINE a == IF dirty THEN scenario.design ELSE NoValue
    <2>1. a \in Designs \cup {NoValue}
      BY DesignIsOne DEF TypesInv, DocumentTyped
    <2>2. Push(Frame(k, NoRequest, NoFile, a))
      BY <1>2 DEF AskOpen
    <2> HIDE DEF a
    <2> QED BY <2>1, <2>2, FramesAreTyped, PushedTyped
  <1>3. ASSUME NEW k \in {"edit", "colour"}, AskEdit(k) PROVE DialogsTyped'
    BY <1>3, FramesAreTyped, PushedTyped DEF AskEdit
  <1>4. CASE \/ \E f \in Files : AnswerOpen(f)
             \/ AnswerImport \/ Dismiss
             \/ \E d \in Designs : AnswerEdit(d)
             \/ \E c \in Colours : AnswerColour(c)
             \/ AnswerPartial
             \/ \E f \in Files : AnswerLaunch(f)
             \/ AnswerRelink \/ AnswerClose
    <2>1. frames # <<>> /\ Pop
      BY <1>4 DEF AnswerOpen, AnswerImport, Dismiss, AnswerEdit, AnswerColour, AnswerPartial,
                  AnswerLaunch, AnswerRelink, AnswerClose, Waiting
    <2> QED BY <2>1, PoppedTyped
  <1>5. CASE \/ \E f \in Files : Save(f)
             \/ Select \/ RunEvaluation \/ Cancel
             \/ \E f \in Files : FireAutoSave(f)
             \/ FireRelink \/ LoadPlaneLayer \/ SkipPlaneLayer
             \/ \E w \in Workers : WindowPool(w)
             \/ UNCHANGED vars
    <2>1. UNCHANGED frames
      BY <1>5 DEF Save, Select, RunEvaluation, Cancel, FireAutoSave, FireRelink,
                  LoadPlaneLayer, SkipPlaneLayer, WindowPool, WindowReturns, WindowRaises,
                  windowVars, vars
    <2> QED BY <1>1, <2>1
  <1>6. CASE Close
    <2>1. Push(Frame("close", NoRequest, NoFile, NoValue)) \/ UNCHANGED frames
      BY <1>6 DEF Close
    <2> QED BY <1>1, <2>1, FramesAreTyped, PushedTyped
  <1>7. CASE WindowResult
    <2> DEFINE j == job[worker]
    <2>1. CASE AcceptPreflight(j)
      <3>1. JobOK(j)
        BY <1>7, ResultFacts
      <3>2. Request(j.scenario, TRUE) \in Requests
        BY <2>1, <3>1 DEF AcceptPreflight, JobOK, Request, Requests
      <3>3. Push(Frame("partial", Request(j.scenario, TRUE), NoFile, NoValue))
            \/ UNCHANGED frames
        BY <2>1 DEF AcceptPreflight
      <3> QED BY <1>1, <3>2, <3>3, FramesAreTyped, PushedTyped
    <2>2. CASE ~AcceptPreflight(j)
      <3>1. UNCHANGED frames
        BY <1>7, <2>2, ResultFacts
        DEF OnResult, AcceptDocument, AcceptSaved, AcceptEvaluation, AcceptPlane
      <3> QED BY <1>1, <3>1
    <2> QED BY <2>1, <2>2
  <1>8. CASE WindowError
    <2> DEFINE j == job[worker]
    <2>1. JobOK(j) /\ (Push(Frame("relink", NoRequest, j.file, j.asked)) \/ UNCHANGED frames)
      BY <1>8, ErrorFacts DEF WindowError
    <2>2. FrameOK(Frame("relink", NoRequest, j.file, j.asked))
      BY <2>1, FramesAreTyped DEF JobOK
    <2> QED BY <1>1, <2>1, <2>2, PushedTyped
  <1>9. CASE WindowFinished
    <2>1. UNCHANGED frames \/ (Launches /\ Push(Frame("launch", pending, NoFile, NoValue)))
      BY <1>9 DEF WindowFinished, FinishAndEvaluate, FinishAndWait
    <2>2. Launches => pending \in Requests
      BY DEF Launches, TypesInv, ResultsTyped
    <2> QED BY <1>1, <2>1, <2>2, FramesAreTyped, PushedTyped
  <1> QED BY <1>2, <1>3, <1>4, <1>5, <1>6, <1>7, <1>8, <1>9 DEF Next

LEMMA TimersTypedNext ==
  ASSUME TypesInv, [Next]_vars
  PROVE  TimersTyped'
  <1> USE DEF document, evaluation, environment
  <1>0. TimersTyped
    BY DEF TypesInv
  <1>1. ASSUME timers' \subseteq {"autosave", "plane"}, retry' \in {retry, NoRequest}
        PROVE  TimersTyped'
    BY <1>0, <1>1 DEF TimersTyped
  <1>2. CASE AnswerRelink
    <2>1. Innermost.file \in Files /\ Innermost.asked \in Designs \cup {NoValue}
      BY <1>2, InnermostFits DEF AnswerRelink, Waiting, FrameFits, FrameOK
    <2> QED BY <1>0, <1>2, <2>1 DEF AnswerRelink, TimersTyped
  <1>3. CASE WindowResult
    <2>1. timers' \subseteq {"autosave", "plane"}
      BY <1>0, <1>3, ResultFacts
      DEF OnResult, AcceptDocument, AcceptSaved, AcceptPreflight, AcceptEvaluation,
          AcceptPlane, TimersTyped
    <2> QED BY <1>1, <1>3, <2>1 DEF WindowResult
  <1>4. CASE WindowFinished
    <2>1. timers' \subseteq {"autosave", "plane"}
      BY <1>0, <1>4 DEF WindowFinished, TimersTyped
    <2> QED BY <1>1, <1>4, <2>1 DEF WindowFinished
  <1>5. CASE ~AnswerRelink /\ ~WindowResult /\ ~WindowFinished
    <2>1. timers' \subseteq timers /\ retry' \in {retry, NoRequest}
      BY <1>5 DEF Next, vars, windowVars, AskOpen, AnswerOpen, AnswerImport, Dismiss, Save,
                  AskEdit, AnswerEdit, AnswerColour, Select, RunEvaluation, AnswerPartial,
                  AnswerLaunch, Cancel, Close, AnswerClose, FireAutoSave, FireRelink,
                  LoadPlaneLayer, SkipPlaneLayer, WindowError, WindowPool, WindowReturns,
                  WindowRaises
    <2> QED BY <1>0, <1>1, <2>1 DEF TimersTyped
  <1> QED BY <1>2, <1>3, <1>4, <1>5

-----------------------------------------------------------------------------
(* The types of the jobs.                                                  *)

LEMMA StartTyped ==
  ASSUME TypesInv, NEW j, NEW c \in BOOLEAN, StartJob(j, c), JobOK(j)
  PROVE  JobsTyped'
  <1>0. JobsTyped /\ DOMAIN job = Workers
    BY DEF TypesInv, WindowInv, JobInv
  <1>1. CASE UNCHANGED <<lifecycleVars, job>>
    BY <1>0, <1>1 DEF JobsTyped, lifecycleVars, JobOK
  <1>2. ASSUME NEW w \in Workers, RunWorker(w, c), job' = [job EXCEPT ![w] = j]
        PROVE  JobsTyped'
    <2>1. worker' = w /\ job'[w] = j /\ \A v \in Workers : v # w => job'[v] = job[v]
      BY <1>0, <1>2 DEF RunWorker, Occupy
    <2> QED BY <1>0, <2>1 DEF JobsTyped, JobOK
  <1> QED BY <1>1, <1>2 DEF StartJob

LEMMA ValueTyped ==
  ASSUME TypesInv, worker # NoWorker, worker \in Workers, worker' = worker, NEW v,
         job' = [job EXCEPT ![worker].value = v]
  PROVE  JobsTyped'
  <1> DEFINE j == job[worker]
             i == [j EXCEPT !.value = v]
  <1>0. JobsTyped /\ DOMAIN job = Workers /\ JobOK(j) /\ IsJob(j)
    BY DEF TypesInv, WindowInv, JobInv, Fits, JobsTyped
  <1>1. job'[worker] = i /\ \A u \in Workers : u # worker => job'[u] = job[u]
    BY <1>0
  <1>2. i.kind = j.kind /\ i.scenario = j.scenario /\ i.file = j.file /\ i.asked = j.asked
    BY <1>0, TakenJob
  <1> HIDE DEF i, j
  <1>3. JobOK(i)
    BY <1>0, <1>2 DEF JobOK
  <1> QED BY <1>0, <1>1, <1>3 DEF JobsTyped, JobOK

\* The jobs the window starts.
LEMMA JobsAreTyped ==
  /\ \A k \in {"load", "relink", "import", "plane"}, f \in Files \cup {NoFile},
        a \in Designs \cup {NoValue} : JobOK(Job(k, NoScenario, f, a))
  /\ \A k \in {"save", "autosave", "evaluate"}, c \in Contents, f \in Files \cup {NoFile} :
       JobOK(Job(k, c, f, NoValue))
  /\ \A s \in ScenarioObjects : JobOK(Job("preflight", s, NoFile, NoValue))
  BY DEF Job, JobOK, JobKinds

LEMMA EvaluateTyped ==
  ASSUME NEW r, Content(r.scenario) \in Contents
  PROVE  JobOK(EvaluateJob(r))
  <1>1. [Content(r.scenario) EXCEPT !.captured = TRUE] \in Contents
    BY DEF Contents
  <1> QED BY <1>1, JobsAreTyped DEF EvaluateJob

LEMMA JobsTypedNext ==
  ASSUME TypesInv, [Next]_vars
  PROVE  JobsTyped'
  <1> USE DEF document, evaluation, environment
  <1>0. /\ JobsTyped /\ SlotInv /\ DOMAIN job = Workers
        /\ worker # NoWorker => worker \in Workers
    BY SlotFacts DEF TypesInv, WindowInv, JobInv
  <1>1. ASSUME worker' = worker, job' = job PROVE JobsTyped'
    BY <1>0, <1>1 DEF JobsTyped, JobOK
  <1>2. CASE \/ \E k \in {"open", "import"} : AskOpen(k)
             \/ Dismiss
             \/ \E k \in {"edit", "colour"} : AskEdit(k)
             \/ \E d \in Designs : AnswerEdit(d)
             \/ \E c \in Colours : AnswerColour(c)
             \/ Select \/ AnswerPartial \/ AnswerRelink \/ Cancel \/ Close \/ AnswerClose
             \/ SkipPlaneLayer \/ UNCHANGED vars
    <2>1. worker' = worker /\ job' = job
      BY <1>2 DEF AskOpen, Dismiss, AskEdit, AnswerEdit, AnswerColour, Select, AnswerPartial,
                  AnswerRelink, Cancel, CancelWorker, Close, AnswerClose, SkipPlaneLayer,
                  Quiescent, lifecycleVars, windowVars, vars
    <2> QED BY <1>1, <2>1
  <1>3. CASE (\E f \in Files : AnswerOpen(f)) \/ AnswerImport
    <2>1. Innermost.asked \in Designs \cup {NoValue}
      BY <1>3, InnermostFits DEF AnswerOpen, AnswerImport, Waiting, FrameOK
    <2> QED BY <1>3, <2>1, StartTyped, JobsAreTyped DEF AnswerOpen, AnswerImport
  <1>4. ASSUME NEW f \in Files, Save(f) PROVE JobsTyped'
    <2>1. Content(scenario) \in Contents
      BY <1>4 DEF Save, ControlsEnabled, TypesInv, WindowInv, ContentInv
    <2> QED BY <1>4, <2>1, StartTyped, JobsAreTyped DEF Save
  <1>5. ASSUME NEW f \in Files, FireAutoSave(f) PROVE JobsTyped'
    <2>1. Content(scenario) \in Contents
      BY <1>5 DEF FireAutoSave, TypesInv, WindowInv, ContentInv
    <2> QED BY <1>5, <2>1, StartTyped, JobsAreTyped DEF FireAutoSave
  <1>6. CASE RunEvaluation
    <2>1. scenario \in ScenarioObjects
      BY <1>6 DEF RunEvaluation, ControlsEnabled, TypesInv, DocumentTyped
    <2> QED BY <1>6, <2>1, StartTyped, JobsAreTyped DEF RunEvaluation
  <1>7. ASSUME NEW f \in Files, AnswerLaunch(f) PROVE JobsTyped'
    <2>1. Content(Innermost.request.scenario) \in Contents
      BY <1>7, InnermostFits DEF AnswerLaunch, Waiting, FrameFits
    <2> QED BY <1>7, <2>1, StartTyped, EvaluateTyped DEF AnswerLaunch
  <1>8. CASE FireRelink
    <2>1. retry.file \in Files /\ retry.asked \in Designs \cup {NoValue}
      BY <1>8 DEF FireRelink, TypesInv, TimersTyped
    <2> QED BY <1>8, <2>1, StartTyped, JobsAreTyped DEF FireRelink
  <1>9. CASE LoadPlaneLayer
    BY <1>9, StartTyped, JobsAreTyped DEF LoadPlaneLayer
  <1>10. CASE WindowResult
    <2>1. worker' = worker
      BY <1>10 DEF WindowResult, DeliverResult
    <2> QED BY <1>10, <2>1, ResultFacts, ValueTyped DEF WindowResult
  <1>11. CASE WindowError
    <2>1. worker' = worker
      BY <1>11 DEF WindowError, DeliverError
    <2> QED BY <1>11, <2>1, ErrorFacts, ValueTyped DEF WindowError
  <1>12. CASE WindowFinished
    <2>1. CASE FinishAndEvaluate
      <3> DEFINE j == EvaluateJob(pending)
      <3>1. PICK w \in Workers : /\ worker' = w
                                 /\ job' = [job EXCEPT ![Head(posted).worker] = NoJob, ![w] = j]
        BY <2>1 DEF FinishAndEvaluate, DeliverFinishedAndRun, Occupy
      <3>2. JobOK(j)
        BY <2>1, EvaluateTyped DEF FinishAndEvaluate, Launches, TypesInv, WindowInv, ContentInv
      <3> HIDE DEF j
      <3>3. job'[w] = j /\ \A v \in Workers : job'[v] \in {job[v], NoJob, j}
        BY <1>0, <3>1
      <3> QED BY <1>0, <3>1, <3>2, <3>3 DEF JobsTyped, JobOK
    <2>2. CASE FinishAndWait
      <3>1. worker' = NoWorker /\ \A v \in Workers : job'[v] \in {job[v], NoJob}
        BY <1>0, <2>2 DEF FinishAndWait, DeliverFinished
      <3> QED BY <1>0, <3>1 DEF JobsTyped, JobOK
    <2> QED BY <1>12, <2>1, <2>2 DEF WindowFinished
  <1>13. ASSUME NEW w \in Workers, WindowPool(w) PROVE JobsTyped'
    <2>1. CASE WindowReturns(w) \/ WindowRaises(w)
      <3>1. w = worker /\ worker # NoWorker /\ worker' = worker
        BY <1>0, <2>1, AliveIsOwned, WorkersAssumption
        DEF WindowReturns, FunctionReturns, WindowRaises, FunctionRaises, Alive
      <3>2. \E v : job' = [job EXCEPT ![worker].value = v]
        BY <2>1, <3>1 DEF WindowReturns, WindowRaises
      <3> QED BY <1>0, <3>1, <3>2, ValueTyped
    <2>2. CASE (PoolStarts(w) \/ EmitResult(w) \/ EmitFinished(w)) /\ UNCHANGED windowVars
      <3>1. worker' = worker /\ job' = job
        BY <2>2 DEF PoolStarts, EmitResult, EmitFinished, windowVars
      <3> QED BY <1>1, <3>1
    <2> QED BY <1>13, <2>1, <2>2 DEF WindowPool
  <1> QED BY <1>2, <1>3, <1>4, <1>5, <1>6, <1>7, <1>8, <1>9, <1>10, <1>11, <1>12, <1>13 DEF Next

\* Every variable of the window holds what its type says: whatever the user, the workers
\* and the timers do, there is an identity left for a new scenario, a job is complete, and
\* only a scenario that is open can be dirty.
THEOREM WindowTypes == Spec => []TypeOK
  <1>1. Init => TypesInv
    <2> SUFFICES ASSUME Init PROVE TypesInv
      OBVIOUS
    <2> USE DEF Init, WindowInit
    <2>1. WindowInv
      BY WindowInvInit
    <2>2. DocumentTyped /\ ResultsTyped /\ TimersTyped
      BY DEF DocumentTyped, ResultsTyped, TimersTyped
    <2>3. Shown = {} /\ Len(frames) = 0
      BY DEF Shown
    <2>4. DialogsTyped
      BY <2>3, MainWindowAssumption DEF DialogsTyped
    <2>5. JobsTyped
      BY DEF JobsTyped, LifecycleInit
    <2> QED BY <2>1, <2>2, <2>4, <2>5 DEF TypesInv
  <1>2. TypesInv /\ [Next]_vars => TypesInv'
    <2> SUFFICES ASSUME TypesInv, [Next]_vars PROVE TypesInv'
      OBVIOUS
    <2>1. WindowInv'
      BY WindowInvNext DEF TypesInv
    <2> QED BY <2>1, DocumentTypedNext, DialogsTypedNext, TimersTypedNext, JobsTypedNext
            DEF TypesInv
  <1> QED BY <1>1, <1>2, TypesAreKept, PTL DEF Spec
=============================================================================
