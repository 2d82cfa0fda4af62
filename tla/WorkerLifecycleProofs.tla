------------------------ MODULE WorkerLifecycleProofs ------------------------
(***************************************************************************)
(* Proofs about WorkerLifecycle, for every set of workers.                 *)
(***************************************************************************)
EXTENDS WorkerLifecycle, TLAPS

Outcomes == {"result", "error"}

\* The slot is empty: the pool and the event queue are empty too.
Quiet ==
  /\ worker = NoWorker
  /\ posted = <<>>
  /\ \A w \in Workers : phase[w] = "idle"

\* What the worker in the slot has posted is fixed by how far it is.
PostedByPhase ==
  /\ \A i \in 1..Len(posted) : posted[i].worker = worker
  /\ phase[worker] \in {"queued", "running", "emitting"} =>
       posted = <<>> /\ ~applied
  /\ phase[worker] = "ending" =>
       /\ Len(posted) \in {0, 1}
       /\ Len(posted) = 1 => posted[1].kind \in Outcomes
  /\ phase[worker] = "idle" =>
       /\ Len(posted) \in {1, 2}
       /\ posted[Len(posted)].kind = "finished"
       /\ Len(posted) = 2 => posted[1].kind \in Outcomes
  /\ applied /\ posted # <<>> => posted[1].kind = "finished"

\* The slot is taken: only its worker is on the pool.
Busy ==
  /\ worker \in Workers
  /\ \A w \in Workers : w # worker => phase[w] = "idle"
  /\ PostedByPhase

SlotInv == LifecycleTypeOK /\ (Quiet \/ Busy)

-----------------------------------------------------------------------------
(* Facts about queues.                                                     *)

LEMMA AppendFacts ==
  ASSUME NEW S, NEW s \in Seq(S), NEW e \in S
  PROVE  /\ Append(s, e) \in Seq(S)
         /\ Len(Append(s, e)) = Len(s) + 1
         /\ Append(s, e)[Len(s) + 1] = e
         /\ \A i \in 1..Len(s) : Append(s, e)[i] = s[i]
         /\ Append(s, e) # <<>>
  OBVIOUS

LEMMA TailFacts ==
  ASSUME NEW S, NEW s \in Seq(S), s # <<>>
  PROVE  /\ Tail(s) \in Seq(S)
         /\ Len(s) \in Nat /\ Len(s) >= 1
         /\ Len(Tail(s)) = Len(s) - 1
         /\ Head(s) = s[1]
         /\ Head(s) \in S
         /\ \A i \in 1..(Len(s) - 1) : Tail(s)[i] = s[i + 1]
  OBVIOUS

LEMMA EmptyFacts ==
  ASSUME NEW S, NEW s \in Seq(S)
  PROVE  /\ s = <<>> <=> Len(s) = 0
         /\ Len(s) \in Nat
         /\ <<>> \in Seq(S)
  OBVIOUS

LEMMA ElementFacts ==
  ASSUME NEW S, NEW s \in Seq(S)
  PROVE  \A i \in 1..Len(s) : s[i] \in S
  OBVIOUS

LEMMA EmptyQueue == ASSUME NEW S PROVE <<>> \in Seq(S)
  OBVIOUS

-----------------------------------------------------------------------------
(* The invariant is inductive.                                             *)

LEMMA SlotInvInit == LifecycleInit => SlotInv
  <1> SUFFICES ASSUME LifecycleInit PROVE SlotInv
    OBVIOUS
  <1>1. posted \in Seq([kind : Kinds, worker : Workers])
    BY EmptyQueue DEF LifecycleInit
  <1>2. LifecycleTypeOK
    BY <1>1 DEF LifecycleInit, LifecycleTypeOK, Phases
  <1>3. Quiet
    BY DEF LifecycleInit, Quiet
  <1> QED BY <1>2, <1>3 DEF SlotInv

\* Any other worker is not alive: the slot owns what runs and what is posted.
LEMMA AliveIsOwned ==
  ASSUME SlotInv, NEW w \in Workers, Alive(w)
  PROVE  w = worker /\ Busy
  BY WorkersAssumption DEF SlotInv, LifecycleTypeOK, Alive, Quiet, Busy, PostedByPhase

LEMMA OccupyKeepsInv ==
  ASSUME SlotInv, NEW w \in Workers, NEW c \in BOOLEAN,
         Occupy(w, c), posted' = <<>>,
         \A v \in Workers : v # w => phase[v] = "idle"
  PROVE  SlotInv'
  <1>1. LifecycleTypeOK'
    <2>1. posted' \in Seq([kind : Kinds, worker : Workers])
      BY EmptyQueue
    <2> QED BY <2>1 DEF SlotInv, LifecycleTypeOK, Occupy, Phases
  <1>2. worker' = w /\ phase'[w] = "queued" /\ ~applied' /\ Len(posted') = 0
    BY DEF SlotInv, LifecycleTypeOK, Occupy
  <1>3. \A v \in Workers : v # w => phase'[v] = "idle"
    BY DEF SlotInv, LifecycleTypeOK, Occupy
  <1>4. PostedByPhase'
    BY <1>2 DEF PostedByPhase
  <1> QED BY <1>1, <1>2, <1>3, <1>4 DEF SlotInv, Busy

\* A finished signal is delivered last: the queue is empty after it and nothing
\* is left on the pool.
LEMMA FinishedIsLast ==
  ASSUME SlotInv, NextSignal("finished")
  PROVE  /\ Tail(posted) = <<>>
         /\ \A w \in Workers : phase[w] = "idle"
         /\ Head(posted).worker = worker
  <1> DEFINE Sig == [kind : Kinds, worker : Workers]
  <1>1. posted \in Seq(Sig) /\ posted # <<>>
    BY DEF SlotInv, LifecycleTypeOK, NextSignal
  <1>2. Busy /\ posted[1].kind = "finished"
    BY <1>1, TailFacts DEF SlotInv, Quiet, NextSignal
  <1>3. phase[worker] \in Phases
    BY <1>2 DEF SlotInv, LifecycleTypeOK, Busy
  <1>4. phase[worker] = "idle" /\ Len(posted) = 1
    <2>1. Len(posted) \in Nat /\ Len(posted) >= 1
      BY <1>1, TailFacts
    <2>2. phase[worker] \notin {"queued", "running", "emitting"}
      BY <1>1, <1>2 DEF Busy, PostedByPhase
    <2>3. phase[worker] # "ending"
      <3>1. phase[worker] = "ending" =>
              Len(posted) \in {0, 1} /\ (Len(posted) = 1 => posted[1].kind \in Outcomes)
        BY <1>2 DEF Busy, PostedByPhase
      <3> QED BY <1>2, <2>1, <3>1 DEF Outcomes
    <2>4. phase[worker] = "idle"
      BY <1>3, <2>2, <2>3 DEF Phases
    <2>5. Len(posted) # 2
      BY <1>2, <2>4 DEF Busy, PostedByPhase, Outcomes
    <2> QED BY <1>2, <2>4, <2>5 DEF Busy, PostedByPhase
  <1>5. Tail(posted) = <<>>
    <2>1. Tail(posted) \in Seq(Sig) /\ Len(Tail(posted)) = 0
      BY <1>1, <1>4, TailFacts
    <2> QED BY <2>1, EmptyFacts
  <1>6. Head(posted).worker = worker
    BY <1>1, <1>2, <1>4, TailFacts DEF Busy, PostedByPhase
  <1> QED BY <1>2, <1>4, <1>5, <1>6 DEF Busy

\* Delivering an outcome leaves at most the finished signal in the queue.
LEMMA DeliverOutcomeKeepsInv ==
  ASSUME SlotInv, NEW k \in Outcomes, NextSignal(k),
         posted' = Tail(posted), applied' \in BOOLEAN,
         UNCHANGED <<worker, cancelable, cancelRequested, flag, phase>>
  PROVE  SlotInv'
  <1> DEFINE Sig == [kind : Kinds, worker : Workers]
  <1>1. posted \in Seq(Sig) /\ posted # <<>>
    BY DEF SlotInv, LifecycleTypeOK, NextSignal
  <1>2. Busy /\ posted[1].kind = k
    BY <1>1, TailFacts DEF SlotInv, Quiet, NextSignal
  <1>3. LifecycleTypeOK'
    BY <1>1, TailFacts DEF SlotInv, LifecycleTypeOK
  <1>4. /\ Len(posted) \in Nat /\ Len(posted) >= 1
        /\ Len(posted') = Len(posted) - 1
        /\ \A i \in 1..(Len(posted) - 1) : posted'[i] = posted[i + 1]
    BY <1>1, TailFacts
  <1>5. posted' = <<>> <=> Len(posted') = 0
    BY <1>3, EmptyFacts DEF LifecycleTypeOK
  <1>6. PostedByPhase'
    <2>1. \A i \in 1..Len(posted') : posted'[i].worker = worker'
      BY <1>2, <1>4 DEF Busy, PostedByPhase
    <2>2. phase[worker] \in {"ending", "idle"}
      BY <1>1, <1>2 DEF SlotInv, LifecycleTypeOK, Busy, PostedByPhase, Phases
    <2>3. CASE phase[worker] = "ending"
      <3>1. Len(posted) \in {0, 1}
        BY <2>3, <1>2 DEF Busy, PostedByPhase
      <3>2. Len(posted') = 0 /\ posted' = <<>>
        BY <3>1, <1>4, <1>5
      <3>3. phase'[worker'] = "ending"
        BY <2>3
      <3> QED BY <2>1, <3>2, <3>3 DEF PostedByPhase
    <2>4. CASE phase[worker] = "idle"
      <3>1. Len(posted) = 2
        BY <2>4, <1>2, <1>4 DEF Busy, PostedByPhase, Outcomes
      <3>2. Len(posted') = 1 /\ posted'[1].kind = "finished"
        BY <3>1, <2>4, <1>2, <1>4 DEF Busy, PostedByPhase
      <3>3. phase'[worker'] = "idle"
        BY <2>4
      <3>4. /\ Len(posted') \in {1, 2}
            /\ posted'[Len(posted')].kind = "finished"
            /\ Len(posted') = 2 => posted'[1].kind \in Outcomes
        BY <3>2
      <3>5. phase'[worker'] \notin {"queued", "running", "emitting", "ending"}
        BY <3>3
      <3> QED BY <2>1, <3>2, <3>3, <3>4, <3>5 DEF PostedByPhase
    <2> QED BY <2>2, <2>3, <2>4
  <1> QED BY <1>2, <1>3, <1>6 DEF SlotInv, Busy

\* A step of the pool is a step of the worker in the slot.
LEMMA PoolKeepsInv ==
  ASSUME SlotInv, NEW w \in Workers, Pool(w)
  PROVE  SlotInv'
  <1> DEFINE Sig == [kind : Kinds, worker : Workers]
  <1>1. w = worker /\ Busy
    BY AliveIsOwned DEF Pool, PoolStarts, FunctionReturns, EmitResult,
       FunctionRaises, EmitFinished, Alive
  <1>2. posted \in Seq(Sig) /\ Len(posted) \in Nat
    BY EmptyFacts DEF SlotInv, LifecycleTypeOK
  <1>3. \A k \in Kinds : Signal(k, w) \in Sig
    BY DEF Signal
  <1>4. CASE PoolStarts(w)
    BY <1>1, <1>4 DEF PoolStarts, SlotInv, LifecycleTypeOK, Busy, PostedByPhase, Phases
  <1>5. CASE FunctionReturns(w)
    BY <1>1, <1>2, <1>5, EmptyFacts
    DEF FunctionReturns, SlotInv, LifecycleTypeOK, Busy, PostedByPhase, Phases
  <1>6. ASSUME NEW k \in Outcomes, phase[w] \in {"running", "emitting"},
               phase' = [phase EXCEPT ![w] = "ending"],
               posted' = Append(posted, Signal(k, w)),
               UNCHANGED <<worker, cancelable, cancelRequested, flag, applied>>
        PROVE  SlotInv'
    <2>1. posted = <<>> /\ ~applied /\ Len(posted) = 0
      BY <1>1, <1>2, <1>6, EmptyFacts DEF Busy, PostedByPhase
    <2>2. /\ posted' \in Seq(Sig) /\ Len(posted') = 1
          /\ posted'[1] = Signal(k, w)
      BY <1>2, <1>3, <1>6, <2>1, AppendFacts DEF Outcomes, Kinds
    <2>3. LifecycleTypeOK'
      BY <1>6, <2>2 DEF SlotInv, LifecycleTypeOK, Phases
    <2>4. Busy'
      BY <1>1, <1>6, <2>1, <2>2
      DEF SlotInv, LifecycleTypeOK, Busy, PostedByPhase, Signal
    <2> QED BY <2>3, <2>4 DEF SlotInv
  <1>7. CASE EmitResult(w)
    BY <1>6, <1>7 DEF EmitResult, Outcomes
  <1>8. CASE FunctionRaises(w)
    BY <1>6, <1>8 DEF FunctionRaises, Outcomes
  <1>9. CASE EmitFinished(w)
    <2>1. /\ posted' \in Seq(Sig) /\ Len(posted') = Len(posted) + 1
          /\ posted'[Len(posted) + 1] = Signal("finished", w)
          /\ \A i \in 1..Len(posted) : posted'[i] = posted[i]
          /\ posted' # <<>>
      BY <1>2, <1>3, <1>9, AppendFacts DEF EmitFinished, Kinds
    <2>2. LifecycleTypeOK'
      BY <1>9, <2>1 DEF EmitFinished, SlotInv, LifecycleTypeOK, Phases
    <2>3. /\ Len(posted) \in {0, 1} /\ phase[worker] = "ending"
          /\ Len(posted) = 1 => posted[1].kind \in Outcomes
      BY <1>1, <1>9 DEF EmitFinished, Busy, PostedByPhase
    <2>4. \A i \in 1..Len(posted') : posted'[i].worker = worker'
      BY <1>1, <1>2, <1>9, <2>1, <2>3 DEF EmitFinished, Busy, PostedByPhase, Signal
    <2>5. /\ Len(posted') \in {1, 2}
          /\ posted'[Len(posted')].kind = "finished"
          /\ Len(posted') = 2 => posted'[1].kind \in Outcomes
      <3>1. CASE Len(posted) = 0
        BY <2>1, <3>1 DEF Signal
      <3>2. CASE Len(posted) = 1
        <4>1. posted'[1] = posted[1] /\ posted'[2] = Signal("finished", w)
          BY <2>1, <3>2
        <4> QED BY <4>1, <2>1, <2>3, <3>2 DEF Signal
      <3>3. Len(posted) = 0 \/ Len(posted) = 1
        BY <1>2, <2>3
      <3> QED BY <3>1, <3>2, <3>3
    <2>6. applied' => posted'[1].kind = "finished"
      <3>1. CASE Len(posted) = 0
        BY <2>1, <3>1 DEF Signal
      <3>2. CASE Len(posted) = 1
        <4>1. posted # <<>> /\ posted[1].kind \in Outcomes
          <5>1. posted = <<>> => Len(posted) = 0
            BY <1>2, EmptyFacts
          <5> QED BY <2>3, <3>2, <5>1
        <4>2. ~applied
          BY <1>1, <4>1 DEF Busy, PostedByPhase, Outcomes
        <4> QED BY <4>2, <1>9 DEF EmitFinished
      <3> QED BY <2>3, <3>1, <3>2
    <2>7. phase'[worker'] = "idle"
      BY <1>1, <1>9 DEF EmitFinished, SlotInv, LifecycleTypeOK
    <2>8. \A v \in Workers : v # worker' => phase'[v] = "idle"
      BY <1>1, <1>9 DEF EmitFinished, SlotInv, LifecycleTypeOK, Busy
    <2>9. worker' \in Workers
      BY <1>1, <1>9 DEF EmitFinished
    <2> QED BY <2>2, <2>4, <2>5, <2>6, <2>7, <2>8, <2>9
            DEF SlotInv, Busy, PostedByPhase
  <1> QED BY <1>4, <1>5, <1>7, <1>8, <1>9 DEF Pool

LEMMA SlotInvNext == SlotInv /\ [LifecycleNext]_lifecycleVars => SlotInv'
  <1> SUFFICES ASSUME SlotInv, [LifecycleNext]_lifecycleVars
               PROVE  SlotInv'
    OBVIOUS
  <1>1. ASSUME NEW w \in Workers, NEW c \in BOOLEAN, RunWorker(w, c)
        PROVE  SlotInv'
    <2>1. Quiet
      BY <1>1, WorkersAssumption DEF RunWorker, SlotInv, Busy
    <2> QED BY <1>1, <2>1, OccupyKeepsInv DEF RunWorker, Quiet
  <1>2. CASE RefuseRun \/ UNCHANGED lifecycleVars
    BY <1>2 DEF RefuseRun, lifecycleVars, SlotInv, LifecycleTypeOK, Quiet, Busy,
                PostedByPhase, NextSignal
  <1>3. CASE CancelWorker
    <2>1. LifecycleTypeOK'
      BY <1>3 DEF CancelWorker, SlotInv, LifecycleTypeOK
    <2>2. (Quiet \/ Busy)'
      BY <1>3 DEF CancelWorker, SlotInv, Quiet, Busy, PostedByPhase
    <2> QED BY <2>1, <2>2 DEF SlotInv
  <1>4. CASE DeliverResult
    <2>1. applied' \in BOOLEAN
      BY <1>4 DEF DeliverResult, AcceptsResult, SlotInv, LifecycleTypeOK
    <2> QED BY <1>4, <2>1, DeliverOutcomeKeepsInv DEF DeliverResult, Outcomes
  <1>5. CASE DeliverError
    <2>1. applied' \in BOOLEAN
      BY <1>5 DEF DeliverError, SlotInv, LifecycleTypeOK
    <2> QED BY <1>5, <2>1, DeliverOutcomeKeepsInv DEF DeliverError, Outcomes
  <1>6. CASE DeliverFinished
    <2>1. posted' = <<>> /\ \A w \in Workers : phase[w] = "idle"
      BY <1>6, FinishedIsLast DEF DeliverFinished
    <2>2. posted' \in Seq([kind : Kinds, worker : Workers])
      BY <2>1, EmptyQueue
    <2>3. LifecycleTypeOK'
      BY <1>6, <2>2 DEF DeliverFinished, SlotInv, LifecycleTypeOK
    <2>4. Quiet'
      BY <1>6, <2>1 DEF DeliverFinished, Quiet
    <2> QED BY <2>3, <2>4 DEF SlotInv
  <1>7. ASSUME NEW w \in Workers, NEW c \in BOOLEAN, DeliverFinishedAndRun(w, c)
        PROVE  SlotInv'
    <2>1. posted' = <<>> /\ \A v \in Workers : phase[v] = "idle"
      BY <1>7, FinishedIsLast DEF DeliverFinishedAndRun
    <2> QED BY <1>7, <2>1, OccupyKeepsInv DEF DeliverFinishedAndRun
  <1>8. ASSUME NEW w \in Workers, Pool(w)
        PROVE  SlotInv'
    BY <1>8, PoolKeepsInv
  <1> QED BY <1>1, <1>2, <1>3, <1>4, <1>5, <1>6, <1>7, <1>8
          DEF LifecycleNext, Deliver

-----------------------------------------------------------------------------
(* The theorems.                                                           *)

\* The slot and the pool keep their types, and the slot always describes the
\* pool: this is the invariant the other theorems rest on.
THEOREM SlotInvariant == LifecycleSpec => []SlotInv
  <1>1. LifecycleInit => SlotInv
    BY SlotInvInit
  <1>2. SlotInv /\ [LifecycleNext]_lifecycleVars => SlotInv'
    BY SlotInvNext
  <1> QED BY <1>1, <1>2, PTL DEF LifecycleSpec

\* Type correctness, for every set of workers.
THEOREM TypeCorrect == LifecycleSpec => []LifecycleTypeOK
  <1>1. SlotInv => LifecycleTypeOK
    BY DEF SlotInv
  <1> QED BY <1>1, SlotInvariant, PTL

\* What the invariant says of the slot, as it is seen from outside.
LEMMA SlotInvIsExact ==
  ASSUME SlotInv
  PROVE  SlotOwnsEverything
  <1>1. \A w \in Workers : Alive(w) => w = worker
    BY AliveIsOwned
  <1>2. ASSUME worker # NoWorker, phase[worker] = "idle"
        PROVE  posted # <<>> /\ posted[Len(posted)] = Signal("finished", worker)
    <2> DEFINE Sig == [kind : Kinds, worker : Workers]
    <2>1. Busy /\ posted \in Seq(Sig)
      BY <1>2 DEF SlotInv, Quiet, LifecycleTypeOK
    <2>2. Len(posted) \in {1, 2} /\ posted[Len(posted)].kind = "finished"
      BY <1>2, <2>1 DEF Busy, PostedByPhase
    <2>3. posted # <<>> /\ Len(posted) \in 1..Len(posted)
      BY <2>1, <2>2, EmptyFacts
    <2>4. \A i \in 1..Len(posted) : posted[i].worker = worker /\ posted[i] \in Sig
      <3>1. \A i \in 1..Len(posted) : posted[i] \in Sig
        BY <2>1, ElementFacts
      <3> QED BY <2>1, <3>1 DEF Busy, PostedByPhase
    <2>5. posted[Len(posted)].worker = worker /\ posted[Len(posted)] \in Sig
      BY <2>3, <2>4
    <2> QED BY <2>2, <2>3, <2>5 DEF Signal
  <1> QED BY <1>1, <1>2 DEF SlotOwnsEverything

\* Whatever runs or is posted belongs to the worker in the slot, and a worker in
\* the slot has its finished signal still to come.
THEOREM SlotIsExact == LifecycleSpec => []SlotOwnsEverything
  BY SlotInvIsExact, SlotInvariant, PTL

LEMMA SlotInvOrdersSignals ==
  ASSUME SlotInv
  PROVE  OneOutcomeThenEnd
  <1>1. CASE posted = <<>>
    <2>1. Len(posted) = 0
      BY <1>1, EmptyFacts
    <2> QED BY <2>1 DEF OneOutcomeThenEnd
  <1>2. CASE posted # <<>>
    <2>1. Busy /\ \A i \in 1..Len(posted) : posted[i].worker = worker
      BY <1>2 DEF SlotInv, Quiet, Busy, PostedByPhase
    <2>2. phase[worker] \in {"ending", "idle"}
      BY <1>2, <2>1 DEF SlotInv, LifecycleTypeOK, Busy, PostedByPhase, Phases
    <2>3. CASE phase[worker] = "ending"
      <3>1. Len(posted) \in {0, 1} /\ (Len(posted) = 1 => posted[1].kind \in Outcomes)
        BY <2>1, <2>3 DEF Busy, PostedByPhase
      <3> QED BY <2>1, <2>3, <3>1 DEF OneOutcomeThenEnd, Outcomes
    <2>4. CASE phase[worker] = "idle"
      <3>1. /\ Len(posted) \in {1, 2}
            /\ posted[Len(posted)].kind = "finished"
            /\ Len(posted) = 2 => posted[1].kind \in Outcomes
        BY <2>1, <2>4 DEF Busy, PostedByPhase
      <3> QED BY <2>1, <2>4, <3>1 DEF OneOutcomeThenEnd, Outcomes
    <2> QED BY <2>2, <2>3, <2>4
  <1> QED BY <1>1, <1>2

\* A worker reports one outcome at most, and its end after it.
THEOREM OutcomeThenEnd == LifecycleSpec => []OneOutcomeThenEnd
  BY SlotInvOrdersSignals, SlotInvariant, PTL

\* A result whose operation was cancelled is never applied, wherever it is when
\* Cancel is pressed.
THEOREM CancelledNeverApplied == LifecycleSpec => CancelledResultIsDropped
  <1>1. ASSUME SlotInv, [LifecycleNext]_lifecycleVars,
               cancelRequested, worker' = worker
        PROVE  applied' = applied
    <2>1. ASSUME NEW w \in Workers, NEW c \in BOOLEAN, RunWorker(w, c)
          PROVE  FALSE
      BY <1>1, <2>1, WorkersAssumption DEF RunWorker, Occupy
    <2>2. CASE RefuseRun \/ CancelWorker \/ UNCHANGED lifecycleVars
      BY <2>2 DEF RefuseRun, CancelWorker, lifecycleVars
    <2>3. CASE DeliverResult
      BY <1>1, <2>3 DEF DeliverResult, AcceptsResult, SlotInv, LifecycleTypeOK
    <2>4. CASE DeliverError
      BY <2>4 DEF DeliverError
    <2>4a. ASSUME DeliverFinished
           PROVE  FALSE
      BY <1>1, <2>4a, WorkersAssumption
         DEF DeliverFinished, NextSignal, SlotInv, Quiet, Busy
    <2>5. ASSUME NEW w \in Workers, NEW c \in BOOLEAN, DeliverFinishedAndRun(w, c)
          PROVE  FALSE
      BY <1>1, <2>5 DEF DeliverFinishedAndRun
    <2>6. ASSUME NEW w \in Workers, Pool(w)
          PROVE  applied' = applied
      BY <2>6 DEF Pool, PoolStarts, FunctionReturns, EmitResult, FunctionRaises,
                  EmitFinished
    <2> QED BY <1>1, <2>1, <2>2, <2>3, <2>4, <2>4a, <2>5, <2>6
            DEF LifecycleNext, Deliver
  <1>2. SlotInv /\ [LifecycleNext]_lifecycleVars
          => [cancelRequested /\ worker' = worker => applied' = applied]_lifecycleVars
    BY <1>1
  <1> QED BY <1>2, SlotInvariant, PTL DEF LifecycleSpec, CancelledResultIsDropped

\* Every step of the slot is one of the abstract operation, or none.
LEMMA SlotStepIsOperationStep ==
  ASSUME SlotInv, [LifecycleNext]_lifecycleVars
  PROVE  [Operation!OpNext]_(Operation!opVars)
  <1> USE DEF Operation!OpNext, Operation!opVars
  <1>1. ASSUME NEW w \in Workers, NEW c \in BOOLEAN, RunWorker(w, c)
        PROVE  Operation!Begin
    BY <1>1, WorkersAssumption DEF RunWorker, Occupy, Operation!Begin
  <1>2. CASE RefuseRun \/ UNCHANGED lifecycleVars
    BY <1>2 DEF RefuseRun, lifecycleVars
  <1>3. CASE CancelWorker
    BY <1>3 DEF CancelWorker, Operation!RequestCancel
  <1>4. CASE DeliverResult
    <2>1. posted[1].kind = "result" /\ posted # <<>>
      <3>1. posted \in Seq([kind : Kinds, worker : Workers]) /\ posted # <<>>
        BY <1>4 DEF DeliverResult, NextSignal, SlotInv, LifecycleTypeOK
      <3> QED BY <1>4, <3>1, TailFacts DEF DeliverResult, NextSignal
    <2>2. ~applied /\ worker # NoWorker
      BY <2>1, WorkersAssumption DEF SlotInv, Quiet, Busy, PostedByPhase
    <2>3. CASE AcceptsResult
      BY <1>4, <2>2, <2>3 DEF DeliverResult, AcceptsResult, Operation!Apply
    <2>4. CASE ~AcceptsResult
      BY <1>4, <2>2, <2>4 DEF DeliverResult, SlotInv, LifecycleTypeOK
    <2> QED BY <2>3, <2>4
  <1>5. CASE DeliverError
    BY <1>5 DEF DeliverError
  <1>6. CASE DeliverFinished
    <2>1. worker # NoWorker
      BY <1>6, WorkersAssumption
      DEF DeliverFinished, NextSignal, SlotInv, Quiet, Busy
    <2> QED BY <1>6, <2>1 DEF DeliverFinished, Operation!End
  <1>7. ASSUME NEW w \in Workers, NEW c \in BOOLEAN, DeliverFinishedAndRun(w, c)
        PROVE  Operation!EndAndBegin
    <2>1. worker # NoWorker
      BY <1>7, WorkersAssumption
      DEF DeliverFinishedAndRun, NextSignal, SlotInv, Quiet, Busy
    <2> QED BY <1>7, <2>1, WorkersAssumption
            DEF DeliverFinishedAndRun, Occupy, Operation!EndAndBegin
  <1>8. ASSUME NEW w \in Workers, Pool(w)
        PROVE  UNCHANGED <<worker, cancelRequested, applied>>
    BY <1>8 DEF Pool, PoolStarts, FunctionReturns, EmitResult, FunctionRaises,
                EmitFinished
  <1> QED BY <1>1, <1>2, <1>3, <1>4, <1>5, <1>6, <1>7, <1>8
          DEF LifecycleNext, Deliver

LEMMA SlotInitIsOperationInit == LifecycleInit => Operation!OpInit
  BY DEF LifecycleInit, Operation!OpInit

\* The slot implements the abstract operation: one at a time, applied at most
\* once, never once it is being cancelled.
THEOREM ImplementsOperation == LifecycleSpec => OperationSpec
  <1>1. SlotInv /\ [LifecycleNext]_lifecycleVars => [Operation!OpNext]_(Operation!opVars)
    BY SlotStepIsOperationStep
  <1> QED BY <1>1, SlotInitIsOperationInit, SlotInvariant, PTL
          DEF LifecycleSpec, OperationSpec, Operation!OpSpec

-----------------------------------------------------------------------------
(* The result of the worker in the slot.                                   *)

\* It is about to be emitted, or waits to be delivered.
HasReturned ==
  \/ phase[worker] = "emitting"
  \/ \E i \in 1..Len(posted) : posted[i].kind = "result"

\* A worker in the slot is one of Workers, and then the pool is its own.
LEMMA SlotFacts ==
  ASSUME SlotInv
  PROVE  /\ worker # NoWorker => worker \in Workers /\ Busy
         /\ worker = NoWorker => Quiet
         /\ posted \in Seq([kind : Kinds, worker : Workers])
         /\ phase \in [Workers -> Phases]
  BY WorkersAssumption DEF SlotInv, LifecycleTypeOK, Quiet, Busy

\* A worker that was just started has none.
LEMMA StartIsFresh ==
  ASSUME SlotInv, NEW w \in Workers, NEW c \in BOOLEAN, RunWorker(w, c)
  PROVE  worker = NoWorker /\ worker' = w /\ ~HasReturned'
  <1>1. worker' = w /\ phase'[w] = "queued" /\ posted' = <<>>
    BY SlotFacts DEF RunWorker, Occupy, Quiet
  <1> QED BY <1>1 DEF HasReturned, RunWorker

\* The same, where it was started while the slot was given back.
LEMMA QueuedHasNone ==
  ASSUME SlotInv, worker # NoWorker, phase[worker] = "queued"
  PROVE  ~HasReturned
  <1>1. posted = <<>>
    BY SlotFacts DEF Busy, PostedByPhase
  <1> QED BY <1>1 DEF HasReturned

\* What a delivery leaves in the queue was there before.
LEMMA DeliveryKeepsReturned ==
  ASSUME SlotInv, posted # <<>>, posted' = Tail(posted), worker' = worker,
         phase' = phase, HasReturned'
  PROVE  HasReturned
  <1> DEFINE Sig == [kind : Kinds, worker : Workers]
  <1>1. posted \in Seq(Sig)
    BY SlotFacts
  <1>2. /\ Len(posted) \in Nat /\ Len(Tail(posted)) = Len(posted) - 1
        /\ \A i \in 1..(Len(posted) - 1) : Tail(posted)[i] = posted[i + 1]
    BY <1>1, TailFacts
  <1>3. ASSUME NEW i \in 1..Len(Tail(posted)), Tail(posted)[i].kind = "result"
        PROVE  \E k \in 1..Len(posted) : posted[k].kind = "result"
    <2>1. i + 1 \in 1..Len(posted) /\ posted[i + 1].kind = "result"
      BY <1>2, <1>3
    <2> QED BY <2>1
  <1> QED BY <1>3 DEF HasReturned

\* An outcome that is delivered is the one of the worker in the slot, and the last.
LEMMA OutcomeIsOwn ==
  ASSUME SlotInv, NEW k \in Outcomes, NextSignal(k),
         posted' = Tail(posted), UNCHANGED <<worker, phase>>
  PROVE  /\ worker \in Workers /\ worker # NoWorker
         /\ Head(posted).worker = worker
         /\ k = "result" => HasReturned
         /\ ~HasReturned'
  <1> DEFINE Sig == [kind : Kinds, worker : Workers]
  <1>1. posted \in Seq(Sig) /\ posted # <<>> /\ Head(posted).kind = k
    BY SlotFacts DEF NextSignal
  <1>2. /\ Len(posted) \in Nat /\ Len(posted) >= 1 /\ Head(posted) = posted[1]
        /\ Len(Tail(posted)) = Len(posted) - 1
        /\ \A i \in 1..(Len(posted) - 1) : Tail(posted)[i] = posted[i + 1]
    BY <1>1, TailFacts
  <1>3. worker # NoWorker /\ worker \in Workers /\ Busy
    BY <1>1, SlotFacts DEF Quiet
  <1>4. Head(posted).worker = worker
    BY <1>2, <1>3 DEF Busy, PostedByPhase
  <1>5. k = "result" => HasReturned
    BY <1>1, <1>2 DEF HasReturned
  <1>6. phase[worker] \in {"ending", "idle"}
    BY <1>1, <1>3, SlotFacts DEF Busy, PostedByPhase, Phases
  <1>7. \A i \in 1..Len(Tail(posted)) : Tail(posted)[i].kind # "result"
    BY <1>1, <1>2, <1>3, <1>6 DEF Busy, PostedByPhase, Outcomes
  <1>8. ~HasReturned'
    BY <1>6, <1>7 DEF HasReturned
  <1> QED BY <1>3, <1>4, <1>5, <1>8

LEMMA DeliveredIsOwn ==
  ASSUME SlotInv, DeliverResult
  PROVE  /\ worker \in Workers
         /\ Head(posted).worker = worker
         /\ HasReturned
         /\ worker' = worker /\ ~HasReturned'
  BY OutcomeIsOwn DEF DeliverResult, Outcomes

\* On the pool only the end of its function makes a worker have a result.
LEMMA PoolKeepsReturned ==
  ASSUME SlotInv, NEW w \in Workers, Pool(w), ~FunctionReturns(w)
  PROVE  w = worker /\ worker' = worker /\ (HasReturned' => HasReturned)
  <1> DEFINE Sig == [kind : Kinds, worker : Workers]
  <1>1. w = worker /\ Busy
    BY AliveIsOwned DEF Pool, PoolStarts, EmitResult, FunctionRaises, EmitFinished, Alive
  <1>2. posted \in Seq(Sig) /\ phase \in [Workers -> Phases]
    BY SlotFacts
  <1>3. worker' = worker
    BY DEF Pool, PoolStarts, EmitResult, FunctionRaises, EmitFinished
  <1>4. \A k \in Kinds :
          /\ Len(Append(posted, Signal(k, w))) = Len(posted) + 1
          /\ Append(posted, Signal(k, w))[Len(posted) + 1] = Signal(k, w)
          /\ \A i \in 1..Len(posted) : Append(posted, Signal(k, w))[i] = posted[i]
    <2>1. \A k \in Kinds : Signal(k, w) \in Sig
      BY DEF Signal
    <2> QED BY <1>2, <2>1, AppendFacts
  <1>5. Len(posted) \in Nat
    BY <1>2, EmptyFacts
  <1>6. HasReturned' => HasReturned
    <2>1. CASE PoolStarts(w)
      BY <1>1, <1>2, <1>3, <2>1 DEF PoolStarts, HasReturned, Phases
    <2>2. CASE EmitResult(w)
      BY <1>1, <2>2 DEF EmitResult, HasReturned
    <2>3. ASSUME NEW k \in {"error", "finished"}, posted' = Append(posted, Signal(k, w)),
                 phase'[w] # "emitting", HasReturned'
          PROVE  HasReturned
      <3>1. PICK i \in 1..Len(posted') : posted'[i].kind = "result"
        BY <1>1, <1>3, <2>3 DEF HasReturned
      <3>2. k \in Kinds /\ Signal(k, w).kind = k
        BY DEF Kinds, Signal
      <3>3. i # Len(posted) + 1
        BY <1>4, <2>3, <3>1, <3>2
      <3>4. i \in 1..Len(posted)
        BY <1>4, <1>5, <2>3, <3>1, <3>2, <3>3
      <3>5. posted[i].kind = "result"
        BY <1>4, <2>3, <3>1, <3>2, <3>4
      <3> QED BY <3>4, <3>5 DEF HasReturned
    <2>4. CASE FunctionRaises(w)
      BY <1>2, <2>3, <2>4 DEF FunctionRaises
    <2>5. CASE EmitFinished(w)
      BY <1>2, <2>3, <2>5 DEF EmitFinished
    <2> QED BY <2>1, <2>2, <2>4, <2>5 DEF Pool
  <1> QED BY <1>1, <1>3, <1>6
=============================================================================
