-------------------------- MODULE PlaneArtworkProofs --------------------------
(***************************************************************************)
(* Proofs about PlaneArtwork, for any number of layers, any artwork and any *)
(* set of workers.                                                         *)
(***************************************************************************)
EXTENDS PlaneArtwork, WorkerLifecycleProofs, FiniteSetTheorems, WellFoundedInduction

\* The cells that are drawn belong to a loaded layer.
RenderIsOwned ==
  /\ left = 0 <=> target = NoLayer
  /\ target # NoLayer => target \in loaded

\* Until the load of a layer is applied, the layer is missing and nothing is
\* drawn that its cells would replace.
LoadIsPending ==
  worker # NoWorker /\ job[worker].kind = "plane" =>
    /\ open
    /\ job[worker].layer \in Layers
    /\ ~applied => left = 0 /\ job[worker].layer \notin loaded

PreviewInv ==
  /\ TypeOK
  /\ BoardShowsChecked
  /\ EveryCellOnce
  /\ RenderIsOwned
  /\ LoadIsPending

-----------------------------------------------------------------------------
(* The worker slot.                                                        *)

LEMMA StartJobIsRun ==
  ASSUME NEW j, NEW c \in BOOLEAN, StartJob(j, c)
  PROVE  LifecycleNext
  BY DEF StartJob, LifecycleNext

LEMMA StartLoadIsRun ==
  ASSUME NEW l, StartLoad(l)
  PROVE  [LifecycleNext]_lifecycleVars
  BY StartJobIsRun DEF StartLoad, Quiescent

LEMMA LoadNextIsRun ==
  ASSUME NEW wanted, NEW all, LoadNext(wanted, all)
  PROVE  [LifecycleNext]_lifecycleVars
  BY StartLoadIsRun DEF LoadNext, Quiescent

LEMMA ArtworkStepIsLifecycleStep ==
  ASSUME [Next]_vars
  PROVE  [LifecycleNext]_lifecycleVars
  <1>1. CASE \E l \in Layers : Check(l)
    BY <1>1, StartLoadIsRun DEF Check
  <1>2. CASE \E l \in Layers : Uncheck(l)
    BY <1>2 DEF Uncheck, Quiescent
  <1>3. CASE CheckAll
    BY <1>3, LoadNextIsRun DEF CheckAll
  <1>4. CASE CheckNone
    BY <1>4 DEF CheckNone, Quiescent
  <1>5. CASE \E k \in {"document", "other"} : StartOther(k)
    BY <1>5, StartJobIsRun DEF StartOther
  <1>6. CASE Cancel
    BY <1>6 DEF Cancel, LifecycleNext
  <1>7. CASE Close
    BY <1>7 DEF Close
  <1>8. CASE FireChunk
    BY <1>8 DEF FireChunk, Quiescent
  <1>9. CASE FireNext
    BY <1>9, LoadNextIsRun DEF FireNext
  <1>10. CASE ArtworkResult
    BY <1>10 DEF ArtworkResult, LifecycleNext, Deliver
  <1>11. CASE ArtworkError
    BY <1>11 DEF ArtworkError, LifecycleNext, Deliver
  <1>12. CASE ArtworkFinished
    BY <1>12 DEF ArtworkFinished, LifecycleNext, Deliver
  <1>13. CASE \E w \in Workers : ArtworkPool(w)
    BY <1>13 DEF ArtworkPool, LifecycleNext
  <1>14. CASE UNCHANGED vars
    BY <1>14 DEF vars
  <1> QED BY <1>1, <1>2, <1>3, <1>4, <1>5, <1>6, <1>7, <1>8, <1>9, <1>10, <1>11,
             <1>12, <1>13, <1>14 DEF Next, ArtworkDeliver

\* The preview keeps the worker protocol: each of its steps is a step of the
\* slot or leaves it alone.
THEOREM ArtworkKeepsLifecycle == Spec => KeepsLifecycle
  <1>1. Init => LifecycleInit
    BY DEF Init
  <1>2. [Next]_vars => [LifecycleNext]_lifecycleVars
    BY ArtworkStepIsLifecycleStep
  <1> QED BY <1>1, <1>2, PTL DEF Spec, KeepsLifecycle

\* An outcome is delivered at most once.
LEMMA OutcomeIsFirst ==
  ASSUME SlotInv, NEW k \in Outcomes, NextSignal(k)
  PROVE  worker \in Workers /\ ~applied
  <1>1. posted # <<>> /\ posted[1].kind = k
    BY TailFacts DEF SlotInv, LifecycleTypeOK, NextSignal
  <1>2. Busy
    BY <1>1 DEF SlotInv, Quiet
  <1> QED BY <1>1, <1>2 DEF Busy, PostedByPhase, Outcomes

-----------------------------------------------------------------------------
(* Shared parts of the handlers.                                           *)

JobType == [kind : {"none", "plane", "document", "other"},
            layer : Layers \cup {NoLayer}]

LEMMA LayersAreNumbers == Layers \subseteq Nat \ {0} /\ NoLayer \notin Layers
  BY PlaneArtworkAssumption DEF Layers, NoLayer

LEMMA OneMoreType ==
  ASSUME nexts \in 0..MaxNexts
  PROVE  OneMore \in 0..MaxNexts
  BY PlaneArtworkAssumption DEF OneMore

\* What a chunk does to the board.
LEMMA ChunkFacts ==
  ASSUME NEW l \in Layers, NEW n \in Nat, NEW base \in [Layers -> Nat], NEW h,
         nexts \in 0..MaxNexts, RenderChunk(l, n, base, h)
  PROVE  /\ items' \in [Layers -> Nat]
         /\ shown' = {m \in Layers : items'[m] > 0} \ h
         /\ left' \in Nat
         /\ nexts' \in 0..MaxNexts
         /\ \/ left' = 0 /\ target' = NoLayer
            \/ left' > 0 /\ target' = l
         /\ items'[l] + left' = base[l] + n
         /\ \A m \in Layers : m # l => items'[m] = base[m]
  <1>1. PICK k \in 1..n :
          /\ items' = [base EXCEPT ![l] = @ + k]
          /\ shown' = AfterChunk(items', h)
          /\ left' = n - k
          /\ target' = IF k = n THEN NoLayer ELSE l
          /\ nexts' = IF k = n THEN OneMore ELSE nexts
    BY DEF RenderChunk
  <1>2. items' \in [Layers -> Nat]
    BY <1>1
  <1>3. nexts' \in 0..MaxNexts
    BY <1>1, OneMoreType
  <1> QED BY <1>1, <1>2, <1>3 DEF AfterChunk

\* What _run_worker does with a job.
LEMMA StartJobFacts ==
  ASSUME NEW j \in JobType, NEW c \in BOOLEAN, StartJob(j, c), TypeOK
  PROVE  /\ job' \in [Workers -> JobType]
         /\ worker' \in Workers
         /\ job'[worker'] = j
         /\ ~applied'
  BY DEF StartJob, RunWorker, Occupy, TypeOK, JobType

LEMMA StartLoadKeeps ==
  ASSUME TypeOK, LoadIsPending, NEW l \in Layers, StartLoad(l),
         UNCHANGED <<open, left, loaded>>
  PROVE  /\ job' \in [Workers -> JobType]
         /\ active' \in Layers \cup {NoLayer}
         /\ LoadIsPending'
  <1>1. CASE MayLoad /\ l \notin loaded /\ active' = l /\ StartJob(Job("plane", l), TRUE)
    <2>1. Job("plane", l) \in JobType
      BY DEF Job, JobType
    <2>2. /\ job' \in [Workers -> JobType]
          /\ job'[worker'] = Job("plane", l)
      BY <1>1, <2>1, StartJobFacts
    <2>3. job'[worker'].layer = l
      BY <2>2 DEF Job
    <2> QED BY <1>1, <2>2, <2>3 DEF MayLoad, LoadIsPending
  <1>2. CASE Quiescent
    BY <1>2 DEF Quiescent, lifecycleVars, TypeOK, LoadIsPending, JobType
  <1> QED BY <1>1, <1>2 DEF StartLoad

LEMMA LoadNextKeeps ==
  ASSUME TypeOK, LoadIsPending, NEW wanted \in SUBSET Layers, NEW all \in BOOLEAN,
         LoadNext(wanted, all), UNCHANGED <<open, left, loaded>>
  PROVE  /\ job' \in [Workers -> JobType]
         /\ active' \in Layers \cup {NoLayer}
         /\ allRequested' \in BOOLEAN
         /\ LoadIsPending'
  <1>1. CASE Quiescent /\ allRequested' \in BOOLEAN
    BY <1>1 DEF Quiescent, lifecycleVars, TypeOK, LoadIsPending, JobType
  <1>2. CASE \E l \in wanted \ loaded : StartLoad(l) /\ allRequested' = all
    BY <1>2, StartLoadKeeps
  <1> QED BY <1>1, <1>2 DEF LoadNext

\* A layer that is not loaded has nothing on the board.
LEMMA MissingIsNotDrawn ==
  ASSUME TypeOK, EveryCellOnce, open, ~closing,
         NEW l \in Layers \ loaded
  PROVE  items[l] = 0
  <1>1. items[l] + (IF l = target THEN left ELSE 0) = 0
    BY DEF EveryCellOnce
  <1>2. items[l] \in Nat /\ left \in Nat
    BY DEF TypeOK
  <1> QED BY <1>1, <1>2

-----------------------------------------------------------------------------
(* The invariant of the preview is inductive, given that of the slot.      *)

LEMMA PreviewInit == Init => PreviewInv
  <1> SUFFICES ASSUME Init PROVE PreviewInv
    OBVIOUS
  <1>1. TypeOK
    <2>1. job \in [Workers -> JobType]
      BY DEF Init, Job, JobType
    <2>2. items \in [Layers -> Nat] /\ nexts \in 0..MaxNexts
      BY PlaneArtworkAssumption DEF Init
    <2>3. open \in BOOLEAN /\ closing \in BOOLEAN /\ allRequested \in BOOLEAN
      BY DEF Init
    <2>4. /\ checked \subseteq Layers /\ hidden \subseteq Layers
          /\ loaded \subseteq Layers /\ shown \subseteq Layers
          /\ cached \in Nat /\ left \in Nat
          /\ active = NoLayer /\ target = NoLayer
      BY DEF Init
    <2> QED BY <2>1, <2>2, <2>3, <2>4 DEF TypeOK, JobType
  <1>2. ~open /\ left = 0 /\ target = NoLayer
    BY DEF Init
  <1>3. BoardShowsChecked /\ EveryCellOnce /\ RenderIsOwned
    BY <1>2 DEF BoardShowsChecked, EveryCellOnce, RenderIsOwned
  <1>4. LoadIsPending
    BY DEF Init, LifecycleInit, LoadIsPending
  <1> QED BY <1>1, <1>3, <1>4 DEF PreviewInv

LEMMA CheckKeeps ==
  ASSUME PreviewInv, NEW l \in Layers, Check(l)
  PROVE  PreviewInv'
  <1>1. /\ job' \in [Workers -> JobType]
        /\ active' \in Layers \cup {NoLayer}
        /\ LoadIsPending'
    BY StartLoadKeeps DEF PreviewInv, Check, cacheVars
  <1>2. TypeOK'
    BY <1>1 DEF PreviewInv, Check, cacheVars, TypeOK, JobType
  <1>3. BoardShowsChecked'
    BY DEF PreviewInv, TypeOK, Check, Usable, BoardShowsChecked
  <1>4. EveryCellOnce' /\ RenderIsOwned'
    BY DEF PreviewInv, Check, cacheVars, EveryCellOnce, RenderIsOwned
  <1> QED BY <1>1, <1>2, <1>3, <1>4 DEF PreviewInv

LEMMA UncheckKeeps ==
  ASSUME PreviewInv, NEW l \in Layers, Uncheck(l)
  PROVE  PreviewInv'
  <1>1. TypeOK'
    BY DEF PreviewInv, Uncheck, Quiescent, cacheVars, TypeOK
  <1>2. BoardShowsChecked'
    BY DEF PreviewInv, TypeOK, Uncheck, Usable, BoardShowsChecked
  <1>3. EveryCellOnce' /\ RenderIsOwned'
    BY DEF PreviewInv, Uncheck, cacheVars, EveryCellOnce, RenderIsOwned
  <1>4. LoadIsPending'
    BY DEF PreviewInv, Uncheck, Quiescent, lifecycleVars, cacheVars, LoadIsPending
  <1> QED BY <1>1, <1>2, <1>3, <1>4 DEF PreviewInv

LEMMA CheckAllKeeps ==
  ASSUME PreviewInv, CheckAll
  PROVE  PreviewInv'
  <1>1. /\ job' \in [Workers -> JobType]
        /\ active' \in Layers \cup {NoLayer}
        /\ allRequested' \in BOOLEAN
        /\ LoadIsPending'
    BY LoadNextKeeps DEF PreviewInv, CheckAll, cacheVars
  <1>2. TypeOK'
    BY <1>1 DEF PreviewInv, CheckAll, cacheVars, TypeOK, JobType, AfterChunk
  <1>3. BoardShowsChecked'
    BY DEF PreviewInv, TypeOK, CheckAll, Usable, BoardShowsChecked, AfterChunk
  <1>4. EveryCellOnce' /\ RenderIsOwned'
    BY DEF PreviewInv, CheckAll, cacheVars, EveryCellOnce, RenderIsOwned
  <1> QED BY <1>1, <1>2, <1>3, <1>4 DEF PreviewInv

LEMMA CheckNoneKeeps ==
  ASSUME PreviewInv, CheckNone
  PROVE  PreviewInv'
  <1>1. TypeOK'
    BY DEF PreviewInv, CheckNone, Quiescent, cacheVars, TypeOK
  <1>2. BoardShowsChecked'
    BY DEF PreviewInv, TypeOK, CheckNone, Usable, BoardShowsChecked
  <1>3. EveryCellOnce' /\ RenderIsOwned'
    BY DEF PreviewInv, CheckNone, cacheVars, EveryCellOnce, RenderIsOwned
  <1>4. LoadIsPending'
    BY DEF PreviewInv, CheckNone, Quiescent, lifecycleVars, cacheVars, LoadIsPending
  <1> QED BY <1>1, <1>2, <1>3, <1>4 DEF PreviewInv

LEMMA StartOtherKeeps ==
  ASSUME PreviewInv, NEW k \in {"document", "other"}, StartOther(k)
  PROVE  PreviewInv'
  <1>1. Job(k, NoLayer) \in JobType
    BY DEF Job, JobType
  <1>2. PICK c \in BOOLEAN : StartJob(Job(k, NoLayer), c)
    BY DEF StartOther
  <1>3. /\ job' \in [Workers -> JobType]
        /\ job'[worker'] = Job(k, NoLayer)
    BY <1>1, <1>2, StartJobFacts DEF PreviewInv
  <1>4. TypeOK'
    BY <1>3 DEF PreviewInv, StartOther, checkVars, cacheVars, renderVars, TypeOK, JobType
  <1>5. BoardShowsChecked' /\ EveryCellOnce' /\ RenderIsOwned'
    BY DEF PreviewInv, StartOther, checkVars, cacheVars, renderVars,
           BoardShowsChecked, EveryCellOnce, RenderIsOwned
  <1>6. LoadIsPending'
    BY <1>3 DEF LoadIsPending, Job
  <1> QED BY <1>4, <1>5, <1>6 DEF PreviewInv

\* Steps that leave the preview alone.
LEMMA PreviewAlone ==
  ASSUME PreviewInv, UNCHANGED artworkVars, UNCHANGED <<worker, applied>>
  PROVE  PreviewInv'
  <1>1. TypeOK'
    BY DEF PreviewInv, artworkVars, checkVars, cacheVars, renderVars, TypeOK
  <1>2. BoardShowsChecked' /\ EveryCellOnce' /\ RenderIsOwned' /\ LoadIsPending'
    BY DEF PreviewInv, artworkVars, checkVars, cacheVars, renderVars,
           BoardShowsChecked, EveryCellOnce, RenderIsOwned, LoadIsPending
  <1> QED BY <1>1, <1>2 DEF PreviewInv

LEMMA CloseKeeps ==
  ASSUME PreviewInv, Close
  PROVE  PreviewInv'
  <1>1. TypeOK'
    BY DEF PreviewInv, Close, cacheVars, TypeOK
  <1>2. BoardShowsChecked' /\ EveryCellOnce' /\ RenderIsOwned'
    BY DEF PreviewInv, Close, cacheVars, BoardShowsChecked, EveryCellOnce, RenderIsOwned
  <1>3. LoadIsPending'
    BY DEF PreviewInv, Close, lifecycleVars, cacheVars, LoadIsPending
  <1> QED BY <1>1, <1>2, <1>3 DEF PreviewInv

LEMMA FireChunkKeeps ==
  ASSUME PreviewInv, FireChunk
  PROVE  PreviewInv'
  <1>1. /\ target \in Layers /\ left \in Nat /\ left > 0 /\ target \in loaded
        /\ items \in [Layers -> Nat] /\ nexts \in 0..MaxNexts
    BY LayersAreNumbers DEF PreviewInv, TypeOK, RenderIsOwned, FireChunk
  <1>2. /\ items' \in [Layers -> Nat]
        /\ shown' = {m \in Layers : items'[m] > 0} \ hidden
        /\ left' \in Nat
        /\ nexts' \in 0..MaxNexts
        /\ \/ left' = 0 /\ target' = NoLayer
           \/ left' > 0 /\ target' = target
        /\ items'[target] + left' = items[target] + left
        /\ \A m \in Layers : m # target => items'[m] = items[m]
    BY <1>1, ChunkFacts DEF FireChunk
  <1>3. UNCHANGED <<open, closing, checked, hidden, allRequested, loaded, cached,
                    job, active, worker, applied>>
    BY DEF FireChunk, Quiescent, lifecycleVars, checkVars, cacheVars
  <1>4. TypeOK'
    BY <1>1, <1>2, <1>3 DEF PreviewInv, TypeOK
  <1>5. BoardShowsChecked'
    BY <1>2, <1>3 DEF PreviewInv, TypeOK, BoardShowsChecked
  <1>6. EveryCellOnce'
    <2> SUFFICES ASSUME open, ~closing, NEW m \in Layers
                 PROVE  items'[m] + (IF m = target' THEN left' ELSE 0) =
                          IF m \in loaded THEN CellCount[m] ELSE 0
      BY <1>3 DEF EveryCellOnce
    <2>1. items[m] + (IF m = target THEN left ELSE 0) =
            IF m \in loaded THEN CellCount[m] ELSE 0
      BY DEF PreviewInv, EveryCellOnce
    <2>2. items[m] \in Nat /\ items'[m] \in Nat
      BY <1>1, <1>2
    <2>3. CASE m = target
      BY <1>1, <1>2, <2>1, <2>2, <2>3, LayersAreNumbers
    <2>4. CASE m # target
      BY <1>1, <1>2, <2>1, <2>2, <2>4, LayersAreNumbers
    <2> QED BY <2>3, <2>4
  <1>7. RenderIsOwned'
    BY <1>1, <1>2, <1>3, LayersAreNumbers DEF RenderIsOwned
  <1>8. LoadIsPending'
    BY <1>1, <1>3 DEF PreviewInv, LoadIsPending
  <1> QED BY <1>4, <1>5, <1>6, <1>7, <1>8 DEF PreviewInv

LEMMA FireNextKeeps ==
  ASSUME PreviewInv, FireNext
  PROVE  PreviewInv'
  <1>1. /\ job' \in [Workers -> JobType]
        /\ active' \in Layers \cup {NoLayer}
        /\ allRequested' \in BOOLEAN
        /\ LoadIsPending'
    BY LoadNextKeeps DEF PreviewInv, FireNext, TypeOK, cacheVars
  <1>2. nexts' \in 0..MaxNexts
    BY PlaneArtworkAssumption DEF PreviewInv, TypeOK, FireNext
  <1>3. TypeOK'
    BY <1>1, <1>2 DEF PreviewInv, FireNext, cacheVars, TypeOK, JobType
  <1>4. BoardShowsChecked' /\ EveryCellOnce' /\ RenderIsOwned'
    BY DEF PreviewInv, FireNext, cacheVars, BoardShowsChecked, EveryCellOnce,
           RenderIsOwned
  <1> QED BY <1>1, <1>3, <1>4 DEF PreviewInv

\* A failed load unchecks layers that have nothing on the board.
LEMMA LoadFailedKeeps ==
  ASSUME PreviewInv, NEW l \in Layers \ loaded, LoadFailed(l), open, ~closing,
         UNCHANGED <<open, closing, job, active, worker>>,
         applied' \in {applied, TRUE}
  PROVE  PreviewInv'
  <1>1. PICK failed \in SUBSET (Layers \ loaded) :
          checked' = checked \ failed /\ hidden' = hidden \cup failed
    BY DEF LoadFailed
  <1>2. allRequested' = FALSE /\ UNCHANGED <<loaded, cached, target, left, items, shown, nexts>>
    BY DEF LoadFailed, cacheVars, renderVars
  <1>3. \A m \in failed : items[m] = 0
    BY MissingIsNotDrawn DEF PreviewInv
  <1>4. TypeOK'
    BY <1>1, <1>2 DEF PreviewInv, TypeOK
  <1>5. BoardShowsChecked'
    BY <1>1, <1>2, <1>3 DEF PreviewInv, TypeOK, BoardShowsChecked
  <1>6. EveryCellOnce' /\ RenderIsOwned'
    BY <1>2 DEF PreviewInv, EveryCellOnce, RenderIsOwned
  <1>7. LoadIsPending'
    BY <1>2 DEF PreviewInv, LoadIsPending
  <1> QED BY <1>4, <1>5, <1>6, <1>7 DEF PreviewInv

\* The cells of a layer that was missing are all still to be drawn.
LEMMA AcceptCellsKeeps ==
  ASSUME PreviewInv, NEW l \in Layers \ loaded, left = 0, AcceptCells(l),
         open, ~closing,
         UNCHANGED <<open, closing, job, active, worker>>,
         applied' = TRUE
  PROVE  PreviewInv'
  <1>1. CASE ~Fits(l) /\ LoadFailed(l)
    BY <1>1, LoadFailedKeeps
  <1>2. CASE /\ cached' = cached + PathElements[l]
             /\ loaded' = loaded \cup {l}
             /\ \/ CellCount[l] = 0 /\ UNCHANGED renderVars
                \/ CellCount[l] > 0 /\ RenderChunk(l, CellCount[l], items, hidden)
             /\ UNCHANGED checkVars
    <2>1. /\ items[l] = 0 /\ target = NoLayer /\ CellCount[l] \in Nat
          /\ items \in [Layers -> Nat] /\ nexts \in 0..MaxNexts
      BY MissingIsNotDrawn, PlaneArtworkAssumption
      DEF PreviewInv, TypeOK, RenderIsOwned
    <2>2. /\ items' \in [Layers -> Nat]
          /\ shown' = {m \in Layers : items'[m] > 0} \ hidden
          /\ left' \in Nat
          /\ nexts' \in 0..MaxNexts
          /\ \/ left' = 0 /\ target' = NoLayer
             \/ left' > 0 /\ target' = l
          /\ items'[l] + left' = CellCount[l]
          /\ \A m \in Layers : m # l => items'[m] = items[m]
      <3>1. CASE CellCount[l] = 0 /\ UNCHANGED renderVars
        BY <2>1, <3>1 DEF renderVars, PreviewInv, TypeOK, BoardShowsChecked
      <3>2. CASE CellCount[l] > 0 /\ RenderChunk(l, CellCount[l], items, hidden)
        BY <2>1, <3>2, ChunkFacts
      <3> QED BY <1>2, <3>1, <3>2
    <2>3. UNCHANGED <<checked, hidden, allRequested>>
      BY <1>2 DEF checkVars
    <2>4. TypeOK'
      <3>1. cached' \in Nat
        BY <1>2, PlaneArtworkAssumption DEF PreviewInv, TypeOK
      <3>2. loaded' \subseteq Layers
        BY <1>2 DEF PreviewInv, TypeOK
      <3>3. target' \in Layers \cup {NoLayer} /\ shown' \subseteq Layers
        BY <2>2
      <3> QED BY <2>2, <2>3, <3>1, <3>2, <3>3 DEF PreviewInv, TypeOK
    <2>5. BoardShowsChecked'
      BY <2>2, <2>3 DEF PreviewInv, TypeOK, BoardShowsChecked
    <2>6. EveryCellOnce'
      <3> SUFFICES ASSUME NEW m \in Layers
                   PROVE  items'[m] + (IF m = target' THEN left' ELSE 0) =
                            IF m \in loaded' THEN CellCount[m] ELSE 0
        BY DEF EveryCellOnce
      <3>1. items[m] + (IF m = target THEN left ELSE 0) =
              IF m \in loaded THEN CellCount[m] ELSE 0
        BY DEF PreviewInv, EveryCellOnce
      <3>2. items[m] \in Nat /\ items'[m] \in Nat /\ m # NoLayer
        BY <2>1, <2>2, LayersAreNumbers
      <3>3. CASE m = l
        BY <1>2, <2>1, <2>2, <3>2, <3>3
      <3>4. CASE m # l
        <4>1. items[m] = IF m \in loaded THEN CellCount[m] ELSE 0
          BY <2>1, <3>1, <3>2
        <4>2. m # target' /\ items'[m] = items[m]
          BY <2>2, <3>2, <3>4
        <4>3. m \in loaded' <=> m \in loaded
          BY <1>2, <3>4
        <4> QED BY <3>2, <4>1, <4>2, <4>3
      <3> QED BY <3>3, <3>4
    <2>7. RenderIsOwned'
      BY <1>2, <2>2, LayersAreNumbers DEF RenderIsOwned
    <2>8. LoadIsPending'
      BY DEF PreviewInv, LoadIsPending
    <2> QED BY <2>4, <2>5, <2>6, <2>7, <2>8 DEF PreviewInv
  <1> QED BY <1>1, <1>2 DEF AcceptCells

LEMMA AcceptDocumentKeeps ==
  ASSUME PreviewInv, AcceptDocument, ~closing,
         UNCHANGED <<closing, job, worker>>,
         job[worker].kind = "document"
  PROVE  PreviewInv'
  <1> DEFINE nothing == [m \in Layers |-> 0]
             others == Layers \ {1}
  <1>1. /\ 1 \in Layers /\ CellCount[1] \in Nat /\ PathElements[1] \in Nat
        /\ nothing \in [Layers -> Nat] /\ nexts \in 0..MaxNexts
    BY PlaneArtworkAssumption DEF Layers, PreviewInv, TypeOK
  <1>2. /\ items' \in [Layers -> Nat]
        /\ shown' = {m \in Layers : items'[m] > 0} \ others
        /\ left' \in Nat
        /\ nexts' \in 0..MaxNexts
        /\ \/ left' = 0 /\ target' = NoLayer
           \/ left' > 0 /\ target' = 1
        /\ items'[1] + left' = CellCount[1]
        /\ \A m \in Layers : m # 1 => items'[m] = 0
    <2>1. CASE CellCount[1] > 0 /\ RenderChunk(1, CellCount[1], nothing, others)
      <3>1. /\ items' \in [Layers -> Nat]
            /\ shown' = {m \in Layers : items'[m] > 0} \ others
            /\ left' \in Nat
            /\ nexts' \in 0..MaxNexts
            /\ \/ left' = 0 /\ target' = NoLayer
               \/ left' > 0 /\ target' = 1
            /\ items'[1] + left' = nothing[1] + CellCount[1]
            /\ \A m \in Layers : m # 1 => items'[m] = nothing[m]
        BY <1>1, <2>1, ChunkFacts
      <3>2. \A m \in Layers : nothing[m] = 0
        OBVIOUS
      <3> HIDE DEF nothing
      <3> QED BY <1>1, <3>1, <3>2
    <2>2. CASE /\ CellCount[1] = 0
               /\ items' = nothing /\ shown' = {}
               /\ target' = NoLayer /\ left' = 0 /\ UNCHANGED nexts
      BY <1>1, <2>2
    <2> QED BY <2>1, <2>2 DEF AcceptDocument
  <1>3. /\ open' = TRUE /\ checked' = {1} /\ hidden' = others
        /\ cached' = PathElements[1] /\ active' = NoLayer /\ allRequested' = FALSE
    BY DEF AcceptDocument, ResetRequests, RebuildControls
  <1>4. /\ loaded' \subseteq {1}
        /\ CellCount[1] > 0 => loaded' = {1}
    BY <1>1 DEF AcceptDocument
  <1>5. TypeOK'
    <2>1. target' \in Layers \cup {NoLayer} /\ shown' \subseteq Layers
      BY <1>1, <1>2
    <2>2. checked' \subseteq Layers /\ hidden' \subseteq Layers /\ loaded' \subseteq Layers
      BY <1>1, <1>3, <1>4
    <2> QED BY <1>1, <1>2, <1>3, <2>1, <2>2 DEF PreviewInv, TypeOK
  <1>6. BoardShowsChecked'
    BY <1>1, <1>2, <1>3 DEF BoardShowsChecked
  <1>7. EveryCellOnce'
    <2> SUFFICES ASSUME NEW m \in Layers
                 PROVE  items'[m] + (IF m = target' THEN left' ELSE 0) =
                          IF m \in loaded' THEN CellCount[m] ELSE 0
      BY DEF EveryCellOnce
    <2>1. items'[m] \in Nat /\ m # NoLayer
      BY <1>2, LayersAreNumbers
    <2>2. CASE m = 1
      BY <1>1, <1>2, <1>4, <2>1, <2>2
    <2>3. CASE m # 1
      BY <1>2, <1>4, <2>1, <2>3
    <2> QED BY <2>2, <2>3
  <1>8. RenderIsOwned'
    <2>1. left' > 0 => CellCount[1] > 0
      BY <1>1, <1>2
    <2> QED BY <1>1, <1>2, <1>4, <2>1, LayersAreNumbers DEF RenderIsOwned
  <1>9. LoadIsPending'
    BY DEF LoadIsPending
  <1> QED BY <1>5, <1>6, <1>7, <1>8, <1>9 DEF PreviewInv

LEMMA ResultKeeps ==
  ASSUME PreviewInv, SlotInv, ArtworkResult
  PROVE  PreviewInv'
  <1>1. /\ ~closing /\ ~applied /\ worker \in Workers /\ worker # NoWorker
        /\ UNCHANGED <<closing, job, worker>>
    BY OutcomeIsFirst, WorkersAssumption DEF ArtworkResult, DeliverResult, Outcomes
  <1>2. applied' = (applied \/ AcceptsResult)
    BY DEF ArtworkResult, DeliverResult
  <1>3. CASE ~AcceptsResult /\ UNCHANGED <<open, active, checkVars, cacheVars, renderVars>>
    <2>1. applied' = applied
      BY <1>2, <1>3 DEF SlotInv, LifecycleTypeOK
    <2> QED BY <1>1, <1>3, <2>1, PreviewAlone DEF artworkVars
  <1>4. CASE /\ job[worker].kind = "other"
             /\ UNCHANGED <<open, active, checkVars, cacheVars, renderVars>>
    <2>1. TypeOK'
      BY <1>1, <1>4 DEF PreviewInv, checkVars, cacheVars, renderVars, TypeOK
    <2>2. BoardShowsChecked' /\ EveryCellOnce' /\ RenderIsOwned'
      BY <1>1, <1>4 DEF PreviewInv, checkVars, cacheVars, renderVars,
                        BoardShowsChecked, EveryCellOnce, RenderIsOwned
    <2>3. LoadIsPending'
      BY <1>1, <1>4 DEF LoadIsPending
    <2> QED BY <2>1, <2>2, <2>3 DEF PreviewInv
  <1>5. CASE AcceptsResult /\ job[worker].kind = "document" /\ AcceptDocument
    BY <1>1, <1>5, AcceptDocumentKeeps
  <1>6. CASE /\ AcceptsResult /\ job[worker].kind = "plane"
             /\ AcceptCells(job[worker].layer) /\ UNCHANGED <<open, active>>
    <2>1. applied' = TRUE
      BY <1>2, <1>6
    <2>2. open /\ left = 0 /\ job[worker].layer \in Layers \ loaded
      BY <1>1, <1>6 DEF PreviewInv, LoadIsPending
    <2> QED BY <1>1, <1>6, <2>1, <2>2, AcceptCellsKeeps
  <1> QED BY <1>3, <1>4, <1>5, <1>6 DEF ArtworkResult

LEMMA ErrorKeeps ==
  ASSUME PreviewInv, SlotInv, ArtworkError
  PROVE  PreviewInv'
  <1>1. /\ ~closing /\ ~applied /\ worker \in Workers /\ worker # NoWorker
        /\ UNCHANGED <<open, closing, job, active, worker, applied>>
    BY OutcomeIsFirst, WorkersAssumption DEF ArtworkError, DeliverError, Outcomes
  <1>2. CASE UNCHANGED <<checkVars, cacheVars, renderVars>>
    BY <1>1, <1>2, PreviewAlone DEF artworkVars
  <1>3. CASE job[worker].kind = "plane" /\ LoadFailed(job[worker].layer)
    <2>1. open /\ job[worker].layer \in Layers \ loaded
      BY <1>1, <1>3 DEF PreviewInv, LoadIsPending
    <2> QED BY <1>1, <1>3, <2>1, LoadFailedKeeps
  <1> QED BY <1>2, <1>3 DEF ArtworkError

\* The end of an operation unchecks missing layers only.
LEMMA FinishedKeeps ==
  ASSUME PreviewInv, SlotInv, ArtworkFinished
  PROVE  PreviewInv'
  <1>1. ~closing /\ UNCHANGED <<open, closing, loaded, cached, target, left, items, shown>>
    BY DEF ArtworkFinished, cacheVars
  <1>2. PICK missing \in SUBSET (Layers \ loaded) :
          /\ checked' = checked \ missing
          /\ hidden' = hidden \cup missing
          /\ allRequested' \in BOOLEAN
    <2>1. CASE ~cancelRequested /\ UNCHANGED checkVars
      <3> WITNESS {} \in SUBSET (Layers \ loaded)
      <3> QED BY <2>1 DEF checkVars, PreviewInv, TypeOK
    <2>2. CASE /\ checked' = checked \ CancelledLayers
               /\ hidden' = hidden \cup CancelledLayers
               /\ allRequested' = FALSE
      <3>1. CancelledLayers \subseteq Layers \ loaded
        BY DEF CancelledLayers, PreviewInv, TypeOK
      <3> QED BY <2>2, <3>1
    <2> QED BY <2>1, <2>2 DEF ArtworkFinished
  <1>3. open => \A m \in missing : items[m] = 0
    BY <1>1, MissingIsNotDrawn DEF PreviewInv
  <1>4. /\ job' \in [Workers -> JobType]
        /\ worker' # NoWorker => job'[worker'].kind = "other"
    <2>1. CASE DeliverFinished /\ UNCHANGED job
      BY <2>1 DEF DeliverFinished, PreviewInv, TypeOK, JobType
    <2>2. ASSUME NEW w \in Workers, NEW c \in BOOLEAN, DeliverFinishedAndRun(w, c),
                 job' = [job EXCEPT ![w] = Job("other", NoLayer)]
          PROVE  <1>4!1 /\ <1>4!2
      <3>1. worker' = w
        BY <2>2 DEF DeliverFinishedAndRun, Occupy
      <3> QED BY <2>2, <3>1 DEF Job, PreviewInv, TypeOK, JobType
    <2> QED BY <2>1, <2>2 DEF ArtworkFinished
  <1>5. active' = NoLayer /\ nexts' \in 0..MaxNexts
    BY OneMoreType DEF ArtworkFinished, Resume, PreviewInv, TypeOK
  <1>6. TypeOK'
    BY <1>1, <1>2, <1>4, <1>5 DEF PreviewInv, TypeOK, JobType
  <1>7. BoardShowsChecked'
    BY <1>1, <1>2, <1>3 DEF PreviewInv, TypeOK, BoardShowsChecked
  <1>8. EveryCellOnce' /\ RenderIsOwned'
    BY <1>1 DEF PreviewInv, EveryCellOnce, RenderIsOwned
  <1>9. LoadIsPending'
    BY <1>4 DEF LoadIsPending
  <1> QED BY <1>6, <1>7, <1>8, <1>9 DEF PreviewInv

LEMMA PreviewNext == PreviewInv /\ SlotInv /\ [Next]_vars => PreviewInv'
  <1> SUFFICES ASSUME PreviewInv, SlotInv, [Next]_vars
               PROVE  PreviewInv'
    OBVIOUS
  <1>1. CASE \E l \in Layers : Check(l)
    BY <1>1, CheckKeeps
  <1>2. CASE \E l \in Layers : Uncheck(l)
    BY <1>2, UncheckKeeps
  <1>3. CASE CheckAll
    BY <1>3, CheckAllKeeps
  <1>4. CASE CheckNone
    BY <1>4, CheckNoneKeeps
  <1>5. CASE \E k \in {"document", "other"} : StartOther(k)
    BY <1>5, StartOtherKeeps
  <1>6. CASE Cancel
    BY <1>6, PreviewAlone DEF Cancel, CancelWorker
  <1>7. CASE Close
    BY <1>7, CloseKeeps
  <1>8. CASE FireChunk
    BY <1>8, FireChunkKeeps
  <1>9. CASE FireNext
    BY <1>9, FireNextKeeps
  <1>10. CASE ArtworkResult
    BY <1>10, ResultKeeps
  <1>11. CASE ArtworkError
    BY <1>11, ErrorKeeps
  <1>12. CASE ArtworkFinished
    BY <1>12, FinishedKeeps
  <1>13. CASE \E w \in Workers : ArtworkPool(w)
    <2>1. UNCHANGED <<worker, applied>> /\ UNCHANGED artworkVars
      BY <1>13 DEF ArtworkPool, Pool, PoolStarts, FunctionReturns, EmitResult,
                   FunctionRaises, EmitFinished
    <2> QED BY <2>1, PreviewAlone
  <1>14. CASE UNCHANGED vars
    BY <1>14, PreviewAlone DEF vars, lifecycleVars
  <1> QED BY <1>1, <1>2, <1>3, <1>4, <1>5, <1>6, <1>7, <1>8, <1>9, <1>10, <1>11,
             <1>12, <1>13, <1>14 DEF Next, ArtworkDeliver

-----------------------------------------------------------------------------
(* The theorems.                                                           *)

\* The preview together with the slot it shares.
THEOREM PreviewInvariant == Spec => [](SlotInv /\ PreviewInv)
  <1>1. Init => SlotInv /\ PreviewInv
    BY SlotInvInit, PreviewInit DEF Init
  <1>2. SlotInv /\ PreviewInv /\ [Next]_vars => (SlotInv /\ PreviewInv)'
    BY SlotInvNext, PreviewNext, ArtworkStepIsLifecycleStep
  <1> QED BY <1>1, <1>2, PTL DEF Spec

\* Layers, counters and job records keep their types: a cancellation never
\* hides a layer that does not exist.
THEOREM PreviewTypeCorrect == Spec => []TypeOK
  <1>1. PreviewInv => TypeOK
    BY DEF PreviewInv
  <1> QED BY <1>1, PreviewInvariant, PTL

\* Checkboxes, hidden layers and visible items agree in every state.
THEOREM BoardAgrees == Spec => []BoardShowsChecked
  <1>1. PreviewInv => BoardShowsChecked
    BY DEF PreviewInv
  <1> QED BY <1>1, PreviewInvariant, PTL

\* No cell is lost or drawn twice, however loads, chunks and other operations
\* interleave.
THEOREM CellsDrawnOnce == Spec => []EveryCellOnce
  <1>1. PreviewInv => EveryCellOnce
    BY DEF PreviewInv
  <1> QED BY <1>1, PreviewInvariant, PTL

-----------------------------------------------------------------------------
(* The cache.  The sum over the loaded layers is the number of their path  *)
(* elements taken one by one, which needs no induction; that the fold      *)
(* computes this number follows from a least set for which it would not.   *)

\* The path elements of the layers in S, one by one.
PathsOf(S) == {e \in S \X (1..CacheLimit) : e[2] <= PathElements[e[1]]}

ElementsOf(S) == Cardinality(PathsOf(S))

LEMMA LayerSetsAreFinite ==
  ASSUME NEW S \in SUBSET Layers
  PROVE  IsFiniteSet(S) /\ IsFiniteSet(PathsOf(S))
  <1>1. IsFiniteSet(Layers) /\ IsFiniteSet(1..CacheLimit)
    BY FS_Interval, PlaneArtworkAssumption DEF Layers
  <1>2. IsFiniteSet(S)
    BY <1>1, FS_Subset
  <1>3. IsFiniteSet(S \X (1..CacheLimit))
    BY <1>1, <1>2, FS_Product
  <1> QED BY <1>2, <1>3, FS_Subset DEF PathsOf

\* One layer has as many as its artwork says.
LEMMA ElementsOfOne ==
  ASSUME NEW l \in Layers
  PROVE  ElementsOf({l}) = PathElements[l]
  <1>0. PathElements[l] \in 0..CacheLimit /\ CacheLimit \in Nat
    BY PlaneArtworkAssumption
  <1> DEFINE I == 1..PathElements[l]
             b == [k \in I |-> <<l, k>>]
  <1>1. b \in Bijection(I, PathsOf({l}))
    <2>1. b \in [I -> PathsOf({l})]
      BY <1>0 DEF PathsOf
    <2>2. \A j, k \in I : b[j] = b[k] => j = k
      OBVIOUS
    <2>3. \A e \in PathsOf({l}) : \E k \in I : b[k] = e
      BY <1>0 DEF PathsOf
    <2> QED BY <2>1, <2>2, <2>3 DEF Bijection, Injection, Surjection, IsInjective
  <1>2. IsFiniteSet(I) /\ Cardinality(I) = PathElements[l]
    <2>1. ASSUME NEW n \in Nat
          PROVE  IsFiniteSet(1..n) /\ Cardinality(1..n) = n
      <3>1. IsFiniteSet(1..n) /\ Cardinality(1..n) = IF 1 > n THEN 0 ELSE n - 1 + 1
        BY FS_Interval
      <3> QED BY <3>1
    <2> QED BY <1>0, <2>1
  <1>3. ExistsBijection(I, PathsOf({l}))
    BY <1>1 DEF ExistsBijection
  <1> QED BY <1>2, <1>3, FS_Bijection DEF ElementsOf

LEMMA ElementsOfNone == ElementsOf({}) = 0
  <1>1. PathsOf({}) = {}
    BY DEF PathsOf
  <1> QED BY <1>1, FS_EmptySet DEF ElementsOf

\* Any layer may be counted first.
LEMMA ElementsAdd ==
  ASSUME NEW S \in SUBSET Layers, NEW l \in S
  PROVE  ElementsOf(S) = PathElements[l] + ElementsOf(S \ {l})
  <1> DEFINE A == PathsOf(S \ {l})
             B == PathsOf({l})
  <1>1. PathsOf(S) = A \cup B /\ A \cap B = {}
    BY DEF PathsOf
  <1>2. IsFiniteSet(A) /\ IsFiniteSet(B)
    BY LayerSetsAreFinite
  <1>3. Cardinality(A \cup B) = Cardinality(A) + Cardinality(B) - Cardinality(A \cap B)
    BY <1>2, FS_Union
  <1>4. Cardinality(A) \in Nat /\ Cardinality(B) \in Nat /\ Cardinality({}) = 0
    BY <1>2, FS_CardinalityType, FS_EmptySet
  <1>5. Cardinality(B) = PathElements[l]
    BY ElementsOfOne DEF ElementsOf
  <1> HIDE DEF A, B
  <1>6. Cardinality(PathsOf(S)) = Cardinality(A) + Cardinality(B) - Cardinality({})
    BY <1>1, <1>3
  <1>7. Cardinality(PathsOf(S)) = PathElements[l] + Cardinality(A)
    BY <1>4, <1>5, <1>6
  <1> QED BY <1>7 DEF ElementsOf, A

\* What holds of a set when it holds of all smaller ones has no least exception.
LEMMA LeastSet ==
  ASSUME NEW S, IsFiniteSet(S), NEW Bad \in SUBSET SUBSET S, Bad # {}
  PROVE  \E T \in Bad : \A U \in Bad : ~(U \subseteq T /\ U # T)
  <1> DEFINE R == StrictSubsetOrdering(S)
  <1>1. IsWellFoundedOn(R, FiniteSubsetsOf(S))
    BY FS_StrictSubsetOrderingWellFounded
  <1>2. Bad \subseteq FiniteSubsetsOf(S)
    BY FS_Subset DEF FiniteSubsetsOf
  <1>3. \E T \in Bad : \A U \in Bad : <<U, T>> \notin R
    <2> HIDE DEF R
    <2> QED BY <1>1, <1>2, WFMin
  <1>4. PICK T \in Bad : \A U \in Bad : <<U, T>> \notin R
    BY <1>3
  <1>5. \A U \in Bad : ~(U \subseteq T /\ U # T)
    BY <1>4 DEF StrictSubsetOrdering
  <1> QED BY <1>5

\* The sum of the community modules is that number.
LEMMA SumIsElements ==
  ASSUME NEW S \in SUBSET Layers
  PROVE  MapThenSumSet(LAMBDA l : PathElements[l], S) = ElementsOf(S)
  <1> DEFINE First(T) == CHOOSE x \in T : TRUE
             Sums(f) == f = [T \in SUBSET S |->
                               IF T = {} THEN 0
                               ELSE PathElements[First(T)] + f[T \ {First(T)}]]
             f == CHOOSE f : Sums(f)
             g == [T \in SUBSET S |-> ElementsOf(T)]
  <1>1. MapThenSumSet(LAMBDA l : PathElements[l], S) = f[S]
    BY DEF MapThenSumSet, MapThenFoldSet
  <1>2. ASSUME NEW T \in SUBSET S, T # {}
        PROVE  /\ First(T) \in T /\ T \ {First(T)} \in SUBSET S
               /\ ElementsOf(T) = PathElements[First(T)] + ElementsOf(T \ {First(T)})
    <2>1. First(T) \in T
      BY <1>2
    <2> HIDE DEF First
    <2> QED BY <1>2, <2>1, ElementsAdd
  <1> HIDE DEF First
  <1>3. Sums(g)
    <2>1. ASSUME NEW T \in SUBSET S
          PROVE  g[T] = IF T = {} THEN 0
                        ELSE PathElements[First(T)] + g[T \ {First(T)}]
      BY <1>2, ElementsOfNone
    <2> QED BY <2>1
  <1>4. Sums(f)
    <2> HIDE DEF g
    <2>1. \E h : Sums(h)
      BY <1>3
    <2> HIDE DEF Sums
    <2> QED BY <2>1
  <1> HIDE DEF f, g
  <1>5. ASSUME NEW T \in SUBSET S
        PROVE  f[T] = IF T = {} THEN 0
                      ELSE PathElements[First(T)] + f[T \ {First(T)}]
    BY <1>4
  <1> DEFINE Bad == {T \in SUBSET S : f[T] # ElementsOf(T)}
  <1>6. Bad = {}
    <2>1. SUFFICES ASSUME Bad # {} PROVE FALSE
      OBVIOUS
    <2>2. IsFiniteSet(S) /\ Bad \in SUBSET SUBSET S
      BY LayerSetsAreFinite
    <2>3. PICK T \in Bad : \A U \in Bad : ~(U \subseteq T /\ U # T)
      <3> HIDE DEF Bad
      <3> QED BY <2>1, <2>2, LeastSet
    <2>4. T # {}
      BY <1>5, ElementsOfNone
    <2>5. First(T) \in T /\ T \ {First(T)} \in SUBSET S
      BY <1>2, <2>4
    <2>6. f[T \ {First(T)}] = ElementsOf(T \ {First(T)})
      BY <2>3, <2>5
    <2>7. f[T] = ElementsOf(T)
      BY <1>2, <1>5, <2>4, <2>6
    <2> QED BY <2>7
  <1>7. f[S] = ElementsOf(S)
    BY <1>6
  <1> QED BY <1>1, <1>7

\* CacheIsAccounted in terms of single path elements.
Accounted == cached = ElementsOf(loaded) /\ cached <= CacheLimit

LEMMA AccountedInit == Init => Accounted
  BY ElementsOfNone, PlaneArtworkAssumption DEF Init, Accounted

LEMMA AccountedNext ==
  ASSUME PreviewInv, SlotInv, Accounted, [Next]_vars
  PROVE  Accounted'
  <1>1. CASE UNCHANGED cacheVars
    BY <1>1 DEF Accounted, cacheVars
  <1>2. CASE ArtworkResult
    <2>1. ~applied /\ worker # NoWorker
      BY <1>2, OutcomeIsFirst, WorkersAssumption DEF ArtworkResult, DeliverResult, Outcomes
    <2>2. CASE job[worker].kind = "document" /\ AcceptDocument
      <3>1. 1 \in Layers /\ PathElements[1] <= CacheLimit
        BY PlaneArtworkAssumption DEF Layers
      <3>2. CASE CellCount[1] > 0
        <4>1. cached' = PathElements[1] /\ loaded' = {1}
          BY <2>2, <3>2 DEF AcceptDocument
        <4> QED BY <3>1, <4>1, ElementsOfOne DEF Accounted
      <3>3. CASE ~(CellCount[1] > 0)
        <4>1. cached' = PathElements[1] /\ loaded' = {} /\ CellCount[1] = 0
          BY <2>2, <3>3 DEF AcceptDocument
        <4>2. PathElements[1] = 0
          BY <3>1, <4>1, PlaneArtworkAssumption
        <4> QED BY <3>1, <4>1, <4>2, ElementsOfNone DEF Accounted
      <3> QED BY <3>2, <3>3
    <2>3. ASSUME job[worker].kind = "plane", AcceptCells(job[worker].layer)
          PROVE  Accounted'
      <3> DEFINE l == job[worker].layer
      <3>1. l \in Layers \ loaded /\ loaded \subseteq Layers
        BY <2>1, <2>3 DEF PreviewInv, LoadIsPending, TypeOK
      <3> HIDE DEF l
      <3>2. CASE UNCHANGED cacheVars
        BY <1>1, <3>2
      <3>3. CASE Fits(l) /\ cached' = cached + PathElements[l] /\ loaded' = loaded \cup {l}
        <4>1. loaded' \in SUBSET Layers /\ l \in loaded' /\ loaded' \ {l} = loaded
          BY <3>1, <3>3
        <4>2. ElementsOf(loaded') = PathElements[l] + ElementsOf(loaded)
          BY <4>1, ElementsAdd
        <4>3. cached \in Nat /\ PathElements[l] \in Nat
          BY <3>1, PlaneArtworkAssumption DEF PreviewInv, TypeOK
        <4> QED BY <3>3, <4>2, <4>3 DEF Accounted, Fits
      <3> QED BY <2>3, <3>2, <3>3 DEF AcceptCells, LoadFailed, l
    <2> QED BY <1>1, <1>2, <2>2, <2>3 DEF ArtworkResult
  <1>3. CASE ArtworkError
    BY <1>1, <1>3 DEF ArtworkError, LoadFailed
  <1> QED BY <1>1, <1>2, <1>3
          DEF Next, ArtworkDeliver, ArtworkFinished, ArtworkPool, artworkVars, vars, Check,
              Uncheck, CheckAll, CheckNone, StartOther, Cancel, Close, FireChunk, FireNext

\* The path elements on account are those of the loaded layers, and the cache keeps
\* its limit, whichever loads are refused, fail or are cancelled and whatever
\* document replaces the one they belong to.
THEOREM CacheKeepsItsAccount == Spec => []CacheIsAccounted
  <1>1. Accounted /\ PreviewInv => CacheIsAccounted
    <2>1. ASSUME loaded \in SUBSET Layers
          PROVE  MapThenSumSet(LAMBDA l : PathElements[l], loaded) = ElementsOf(loaded)
      BY <2>1, SumIsElements
    <2> QED BY <2>1 DEF Accounted, PreviewInv, TypeOK, CacheIsAccounted
  <1>2. Init => Accounted
    BY AccountedInit
  <1>3. Accounted /\ (SlotInv /\ PreviewInv) /\ [Next]_vars => Accounted'
    BY AccountedNext
  <1> QED BY <1>1, <1>2, <1>3, PreviewInvariant, PTL DEF Spec
=============================================================================
