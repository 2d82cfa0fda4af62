--------------------------- MODULE WorkerLifecycle ---------------------------
(***************************************************************************)
(* The life of a FunctionWorker (gui/worker.py) and the slot MainWindow    *)
(* keeps for it (_run_worker, _cancel_worker, _worker_failed and           *)
(* _worker_finished of gui/main_window.py).                                *)
(*                                                                         *)
(* A worker runs on the global thread pool; its signals reach the GUI      *)
(* thread as posted events, in the order they were emitted.  The GUI       *)
(* thread may do anything between two deliveries, so the worker, the Cancel *)
(* button and the event loop race with each other.  What the handlers do   *)
(* to the document is in MainWindow, which extends this module.            *)
(***************************************************************************)
EXTENDS Naturals, Sequences

CONSTANTS
  Workers,    \* FunctionWorker objects; one is fresh again once nothing refers to it
  NoWorker    \* None

ASSUME WorkersAssumption == NoWorker \notin Workers

VARIABLES
  worker,           \* MainWindow._worker
  cancelable,       \* MainWindow._worker_cancelable
  cancelRequested,  \* MainWindow._worker_cancel_requested
  flag,             \* FunctionWorker._cancelled, of each worker
  phase,            \* how far FunctionWorker.run is, of each worker
  posted,           \* signals emitted and not delivered to the GUI thread yet
  applied           \* history: the result of the current worker reached on_result

lifecycleVars ==
  <<worker, cancelable, cancelRequested, flag, phase, posted, applied>>

\* "idle": not on the pool.  "emitting": the _cancelled test before the result
\* signal has passed.  "ending": in the finally clause.
Phases == {"idle", "queued", "running", "emitting", "ending"}

Kinds == {"result", "error", "finished"}

Signal(k, w) == [kind |-> k, worker |-> w]

\* Something still refers to the object w.
Alive(w) ==
  \/ worker = w
  \/ phase[w] # "idle"
  \/ \E i \in 1..Len(posted) : posted[i].worker = w

LifecycleInit ==
  /\ worker = NoWorker
  /\ cancelable = FALSE
  /\ cancelRequested = FALSE
  /\ flag = [w \in Workers |-> FALSE]
  /\ phase = [w \in Workers |-> "idle"]
  /\ posted = <<>>
  /\ applied = FALSE

-----------------------------------------------------------------------------
(* The GUI thread.                                                         *)

\* What _run_worker does with a new worker once the slot is free.
Occupy(w, c) ==
  /\ ~Alive(w)
  /\ worker' = w
  /\ cancelable' = c
  /\ cancelRequested' = FALSE
  /\ flag' = [flag EXCEPT ![w] = FALSE]
  /\ phase' = [phase EXCEPT ![w] = "queued"]
  /\ applied' = FALSE

\* Mutant: _run_worker forgets to refuse a second operation.
RunWorkerUnguarded(w, c) ==
  /\ Occupy(w, c)
  /\ UNCHANGED posted

\* _run_worker.
RunWorker(w, c) ==
  /\ worker = NoWorker
  /\ Occupy(w, c)
  /\ UNCHANGED posted

\* _run_worker while the slot is taken: "Another operation is running."
RefuseRun ==
  /\ worker # NoWorker
  /\ UNCHANGED lifecycleVars

\* _cancel_worker: the window and the worker each get a flag.
CancelWorker ==
  /\ worker # NoWorker
  /\ cancelable
  /\ cancelRequested' = TRUE
  /\ flag' = [flag EXCEPT ![worker] = TRUE]
  /\ UNCHANGED <<worker, cancelable, phase, posted, applied>>

NextSignal(k) == posted # <<>> /\ Head(posted).kind = k

\* Mutant: accept_result tests the identity only.
AcceptsCancelledResult == Head(posted).worker = worker

\* The test accept_result makes when the event loop delivers a result.
AcceptsResult ==
  /\ Head(posted).worker = worker
  /\ ~flag[worker]
  /\ ~cancelRequested

DeliverResult ==
  /\ NextSignal("result")
  /\ applied' = (applied \/ AcceptsResult)
  /\ posted' = Tail(posted)
  /\ UNCHANGED <<worker, cancelable, cancelRequested, flag, phase>>

DeliverError ==
  /\ NextSignal("error")
  /\ posted' = Tail(posted)
  /\ UNCHANGED <<worker, cancelable, cancelRequested, flag, phase, applied>>

\* _worker_finished frees the slot.  The worker object is dropped with it: its
\* flag and the history of it start over.
DeliverFinished ==
  /\ NextSignal("finished")
  /\ posted' = Tail(posted)
  /\ worker' = NoWorker
  /\ cancelable' = FALSE
  /\ cancelRequested' = FALSE
  /\ flag' = [flag EXCEPT ![worker] = FALSE]
  /\ applied' = FALSE
  /\ UNCHANGED phase

\* _worker_finished of an uncancelled preflight chains the evaluation before
\* the event loop runs again.
DeliverFinishedAndRun(w, c) ==
  /\ NextSignal("finished")
  /\ ~cancelRequested
  /\ posted' = Tail(posted)
  /\ Occupy(w, c)

-----------------------------------------------------------------------------
(* The pool thread: FunctionWorker.run.                                    *)

PoolStarts(w) ==
  /\ phase[w] = "queued"
  /\ phase' = [phase EXCEPT ![w] = "running"]
  /\ UNCHANGED <<worker, cancelable, cancelRequested, flag, posted, applied>>

\* The function returns; the result is emitted only if _cancelled is unset now.
FunctionReturns(w) ==
  /\ phase[w] = "running"
  /\ phase' = [phase EXCEPT ![w] = IF flag[w] THEN "ending" ELSE "emitting"]
  /\ UNCHANGED <<worker, cancelable, cancelRequested, flag, posted, applied>>

\* Mutant: a failure of what follows the emission, inside the try block, emits an
\* error as well.
EmitResultAndError(w) ==
  /\ phase[w] = "emitting"
  /\ phase' = [phase EXCEPT ![w] = "ending"]
  /\ posted' = posted \o <<Signal("result", w), Signal("error", w)>>
  /\ UNCHANGED <<worker, cancelable, cancelRequested, flag, applied>>

EmitResult(w) ==
  /\ phase[w] = "emitting"
  /\ phase' = [phase EXCEPT ![w] = "ending"]
  /\ posted' = Append(posted, Signal("result", w))
  /\ UNCHANGED <<worker, cancelable, cancelRequested, flag, applied>>

\* Mutant: the finished signal is emitted after the except clause instead of in
\* the finally clause.
RaisesWithoutFinally(w) ==
  /\ phase[w] = "running"
  /\ phase' = [phase EXCEPT ![w] = "idle"]
  /\ posted' = Append(posted, Signal("error", w))
  /\ UNCHANGED <<worker, cancelable, cancelRequested, flag, applied>>

FunctionRaises(w) ==
  /\ phase[w] = "running"
  /\ phase' = [phase EXCEPT ![w] = "ending"]
  /\ posted' = Append(posted, Signal("error", w))
  /\ UNCHANGED <<worker, cancelable, cancelRequested, flag, applied>>

EmitFinished(w) ==
  /\ phase[w] = "ending"
  /\ phase' = [phase EXCEPT ![w] = "idle"]
  /\ posted' = Append(posted, Signal("finished", w))
  /\ UNCHANGED <<worker, cancelable, cancelRequested, flag, applied>>

Pool(w) ==
  \/ PoolStarts(w)
  \/ FunctionReturns(w)
  \/ EmitResult(w)
  \/ FunctionRaises(w)
  \/ EmitFinished(w)

Deliver ==
  \/ DeliverResult
  \/ DeliverError
  \/ DeliverFinished
  \/ \E w \in Workers, c \in BOOLEAN : DeliverFinishedAndRun(w, c)

LifecycleNext ==
  \/ \E w \in Workers, c \in BOOLEAN : RunWorker(w, c)
  \/ RefuseRun
  \/ CancelWorker
  \/ Deliver
  \/ \E w \in Workers : Pool(w)

\* A pool thread keeps running its function, every function ends, and the event
\* loop (nested in a dialog or not) keeps delivering.  Nothing is assumed about
\* the user.
LifecycleFairness ==
  /\ \A w \in Workers : WF_lifecycleVars(Pool(w))
  /\ WF_lifecycleVars(Deliver)

LifecycleSpec ==
  LifecycleInit /\ [][LifecycleNext]_lifecycleVars /\ LifecycleFairness

-----------------------------------------------------------------------------
(* Correctness.                                                            *)

LifecycleTypeOK ==
  /\ worker \in Workers \cup {NoWorker}
  /\ cancelable \in BOOLEAN
  /\ cancelRequested \in BOOLEAN
  /\ flag \in [Workers -> BOOLEAN]
  /\ phase \in [Workers -> Phases]
  /\ posted \in Seq([kind : Kinds, worker : Workers])
  /\ applied \in BOOLEAN

\* The slot describes the pool exactly: whatever is still running or still in
\* the event queue belongs to the worker in the slot, and a worker in the slot
\* has a finished signal on its way.  _worker_finished and _worker_failed test
\* no identity, so they rely on it (main_window.py:5839, 5847).
SlotOwnsEverything ==
  /\ \A w \in Workers : Alive(w) => w = worker
  /\ worker # NoWorker =>
       \/ phase[worker] # "idle"
       \/ posted # <<>> /\ posted[Len(posted)] = Signal("finished", worker)

\* A worker cancelled before its result was delivered never reaches on_result:
\* "never mutate from a stale result even if the worker itself finished just
\* before cancellation" (main_window.py:5745-5747).
CancelledResultIsDropped ==
  [][cancelRequested /\ worker' = worker => applied' = applied]_lifecycleVars

\* A worker reports at most one outcome, always before it reports its end.
OneOutcomeThenEnd ==
  /\ Len(posted) <= 2
  /\ \A i \in 1..Len(posted) :
       posted[i].kind = "finished" <=>
         i = Len(posted) /\ phase[posted[i].worker] = "idle"

\* The slot, seen from outside, behaves as the abstract operation.
Operation == INSTANCE BackgroundOperation WITH
  op <- IF worker = NoWorker THEN "idle"
        ELSE IF cancelRequested THEN "cancelling" ELSE "running",
  applied <- applied

OperationSpec == Operation!OpSpec
=============================================================================
