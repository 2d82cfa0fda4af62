----------------------------- MODULE EngineAdapter -----------------------------
(***************************************************************************)
(* An evaluation of the window by spd_pi_engine: the batch over the chosen *)
(* rails (evaluation.py), the adapter that runs one worker process for     *)
(* each rail (engine_adapter.py), and the worker itself (engine_worker.py),*)
(* which prepares its rail through the shared cache.                       *)
(*                                                                         *)
(* The worker writes lines to a pipe of limited size.  A thread of the     *)
(* adapter moves them to a queue; the loop of solve takes them from there  *)
(* and looks at the cancel flag before each.  A progress line moves a bar  *)
(* and no more, so the queue holds the other lines alone.                  *)
(***************************************************************************)
EXTENDS EngineCache, Sequences

CONSTANTS
  Rails,       \* rails of the scenario; those with a port in the SPD are Ports
  Refdes, Models,
  Home,        \* the rail each decap is on in the SPD
  SpdModel,    \* and its model there
  Scenarios,   \* scenarios the user may evaluate
  PipeSize,    \* lines the pipe holds
  NoProc, NoRequest,
  MaxFaults    \* bound on crashes of the application, processes that hang, spoilt
               \* entries and replacements of the SPD under a process that reads it

Decap == [rail : Rails, model : Models, enabled : BOOLEAN, gap : BOOLEAN]

Roles == {"baseline", "tuned"}

Configs == UNION {[S -> Models \cup {None}] : S \in SUBSET Refdes}

Requests == [sha : Designs, rail : Ports, configs : [Roles -> Configs]]

\* trust is history: whether the process that wrote it was misled.
Receipts == [rail : Ports, role : Roles, claim : Designs \cup {None},
             used : SUBSET (Designs \cup {None}), config : Configs,
             trust : {"sound", "misled"}]

\* Ends of a worker that its output names (ENGINE_* in engine_adapter.py).
Codes == {"SHA256_MISMATCH", "RAIL_TOO_LARGE"}

ASSUME AdapterAssumption ==
  /\ None \notin Models
  /\ Ports \subseteq Rails
  /\ Home \in [Refdes -> Rails]
  /\ SpdModel \in [Refdes -> Models]
  /\ Scenarios \subseteq [source : Designs, decaps : [Refdes -> Decap]]
  /\ NoProc \notin Procs
  /\ NoRequest \notin Requests
  /\ PipeSize \in Nat \ {0}
  /\ MaxFaults \in Nat

VARIABLES
  claim,      \* Design.sha256 of each worker, which its receipts will name
  why,        \* history: the code each worker ended with
  dir,        \* the directory solve made for each worker: "none", what result file is
              \* in it ("no result", "torn", "whole"), or "left" for good
  request,    \* the request in it
  result,     \* the receipts in a whole result file
  at,         \* where the batch is
  asked,      \* the scenario and the rails of the batch
  todo,       \* rails that are left
  gathered,   \* receipts of the rails before
  cancelled,  \* the cancel flag of the FunctionWorker
  child,      \* the worker solve waits for
  pipe,       \* lines the worker wrote and the thread has not read
  lines,      \* what the thread put into the queue
  seen,       \* codes in the tail
  answer,     \* how the last evaluation ended
  lost,       \* history: workers, or attempts to start one, whose directory nobody
              \* will remove
  faults

workDirs == <<dir, request, result>>
workerVars == <<claim, why, workDirs>>
solveVars == <<child, pipe, lines, seen>>
batchVars == <<at, asked, todo, gathered, cancelled, answer>>
historyVars == <<lost, faults>>
vars == <<cacheVars, workerVars, solveVars, batchVars, historyVars>>

Eof == "EOF"

NoBatch == [scenario |-> None, rails |-> {}]

NoAnswer ==
  [kind |-> "none", code |-> "", scenario |-> None, rails |-> {}, receipts |-> {}]

Ended(kind) == [NoAnswer EXCEPT !.kind = kind]

Init ==
  /\ CacheInit
  /\ claim = [p \in Procs |-> None]
  /\ why = [p \in Procs |-> ""]
  /\ dir = [p \in Procs |-> "none"]
  /\ request = [p \in Procs |-> NoRequest]
  /\ result = [p \in Procs |-> {}]
  /\ at = "idle"
  /\ asked = NoBatch
  /\ todo = {}
  /\ gathered = {}
  /\ cancelled = FALSE
  /\ child = NoProc
  /\ pipe = <<>>
  /\ lines = <<>>
  /\ seen = {}
  /\ answer = NoAnswer
  /\ lost = {}
  /\ faults = 0

Gone(p) == step[p] \in {"exited", "failed"}

Runs(p) == step[p] # "none" /\ ~Gone(p)

-----------------------------------------------------------------------------
(* What is evaluated.                                                      *)

\* Mutant: a decap that was moved off the rail is left out of its configuration.
ConfigOfCurrent(decaps, a) ==
  [x \in {y \in Refdes : decaps[y].rail = a} |->
     IF decaps[x].enabled /\ ~decaps[x].gap THEN decaps[x].model ELSE None]

\* decap_config: None unmounts.
DecapConfig(decaps, a) ==
  [x \in {y \in Refdes : a \in {decaps[y].rail, Home[y]}} |->
     IF decaps[x].rail = a /\ decaps[x].enabled /\ ~decaps[x].gap
     THEN decaps[x].model
     ELSE None]

\* original_configuration.
Original ==
  [x \in Refdes |-> [rail |-> Home[x], model |-> SpdModel[x], enabled |-> TRUE,
                     gap |-> FALSE]]

Request(s, a) ==
  [sha |-> s.source, rail |-> a,
   configs |-> [r \in Roles |->
                  DecapConfig(IF r = "baseline" THEN Original ELSE s.decaps, a)]]

\* cross_net_decap_refdes.
CrossNet(s, a) == {x \in Refdes : s.decaps[x].rail = a /\ Home[x] # a}

\* _engine_preflight.
Preflight(s, A) == s.source = spd /\ \A a \in A : CrossNet(s, a) = {}

\* The engine's decaps are those of the SPD's net.
OnNet(a) == {x \in Refdes : Home[x] = a}

Accepts(config, a) == DOMAIN config \subseteq OnNet(a)

\* set_decaps with replace=True, over the SPD's own configuration.
SetDecaps(config, a) ==
  [x \in OnNet(a) |-> IF x \in DOMAIN config THEN config[x] ELSE SpdModel[x]]

-----------------------------------------------------------------------------
(* The worker process.                                                     *)

Quiet == UNCHANGED <<solveVars, batchVars, historyVars>>

\* A line written by a worker; it waits while the pipe is full.
Say(p, line) ==
  /\ p = child
  /\ Len(pipe) < PipeSize
  /\ pipe' = Append(pipe, line)
  /\ UNCHANGED <<child, lines, seen, batchVars, historyVars>>

\* The process ends with a message.
Refuse(p, code) ==
  /\ Say(p, code)
  /\ Goto(p, "failed")
  /\ why' = [why EXCEPT ![p] = code]

Expected(p) == request[p].sha

CheckSpd(p) ==
  /\ At(p, "check")
  /\ \/ /\ spd = Expected(p)
        /\ claim' = [claim EXCEPT ![p] = spd]
        /\ Say(p, "PROGRESS")
        /\ Goto(p, "hash")
        /\ UNCHANGED why
     \/ /\ spd # Expected(p)
        /\ Refuse(p, "SHA256_MISMATCH")
        /\ UNCHANGED claim
  /\ UNCHANGED <<spd, cached, port, prepareVars, doubts, workDirs>>

PrepareRail(p) == Prepare(p) /\ UNCHANGED workerVars /\ Quiet

GuardMemory(p) ==
  /\ At(p, "solve")
  /\ Refuse(p, "RAIL_TOO_LARGE")
  /\ UNCHANGED <<spd, cached, port, prepareVars, doubts, claim, workDirs>>

Wanted(p) == request[p].configs

\* _memory_guard passes, the model is built, and every configuration is solved;
\* a decap the net has not is a KeyError.
Solve(p) ==
  /\ At(p, "solve")
  /\ Say(p, "PROGRESS")
  /\ Goto(p, IF \A r \in Roles : Accepts(Wanted(p)[r], port[p]) THEN "open" ELSE "failed")
  /\ UNCHANGED <<spd, cached, port, prepareVars, doubts, workerVars>>

Inputs(p) == {port[p]} \cup Need[port[p]]

Result(p) ==
  {[rail |-> port[p], role |-> r, claim |-> claim[p],
    used |-> {got[p][i] : i \in Inputs(p)},
    config |-> SetDecaps(Wanted(p)[r], port[p]),
    trust |-> IF p \in misled THEN "misled" ELSE "sound"] : r \in Roles}

OpenResult(p) ==
  /\ At(p, "open")
  /\ dir' = [dir EXCEPT ![p] = "torn"]
  /\ Goto(p, "write")
  /\ UNCHANGED <<spd, cached, port, prepareVars, doubts, claim, why, request,
                 result>>
  /\ Quiet

WriteResult(p) ==
  /\ At(p, "write")
  /\ dir' = [dir EXCEPT ![p] = "whole"]
  /\ result' = [result EXCEPT ![p] = Result(p)]
  /\ Goto(p, "tell")
  /\ UNCHANGED <<spd, cached, port, prepareVars, doubts, claim, why, request>>
  /\ Quiet

Exit(p) ==
  /\ At(p, "tell")
  /\ Say(p, "PROGRESS")
  /\ Goto(p, "exited")
  /\ UNCHANGED <<spd, cached, port, prepareVars, doubts, workerVars>>

\* The adapter's end of the pipe went with the application.
BreakPipe(p) ==
  /\ p # child
  /\ step[p] \in {"check", "solve", "tell"}
  /\ Goto(p, "failed")
  /\ UNCHANGED <<spd, cached, port, prepareVars, doubts, workerVars>>
  /\ Quiet

\* The heartbeat thread.
Beat(p) ==
  /\ Runs(p)
  /\ Say(p, "PROGRESS")
  /\ UNCHANGED <<cacheVars, workerVars>>

\* An exception, a full disk or memory, a kill from outside.
Die(p) ==
  /\ Runs(p)
  /\ Goto(p, "failed")
  /\ UNCHANGED <<spd, cached, port, prepareVars, doubts, workerVars>>
  /\ Quiet

\* A call into a driver, or the end of the interpreter, that never returns.
Hang(p) ==
  /\ faults < MaxFaults
  /\ faults' = faults + 1
  /\ Runs(p)
  /\ Goto(p, "hung")
  /\ UNCHANGED <<spd, cached, port, prepareVars, doubts, workerVars, solveVars,
                 batchVars, lost>>

Work(p) ==
  \/ CheckSpd(p)
  \/ PrepareRail(p)
  \/ GuardMemory(p)
  \/ Solve(p)
  \/ OpenResult(p)
  \/ WriteResult(p)
  \/ Exit(p)
  \/ BreakPipe(p)

-----------------------------------------------------------------------------
(* The adapter and the batch, in the thread of the FunctionWorker.         *)

Still == UNCHANGED <<spd, cached, prepareVars, doubts, claim>>

\* The batch ends; its FunctionWorker emits a result unless it was cancelled.
Return(a) ==
  /\ at' = "idle"
  /\ asked' = NoBatch
  /\ todo' = {}
  /\ gathered' = {}
  /\ cancelled' = FALSE
  /\ answer' = a

NewSolve ==
  /\ pipe' = <<>>
  /\ lines' = <<>>
  /\ seen' = {}

Evaluate(s, A) ==
  /\ at = "idle"
  /\ IF Preflight(s, A)
     THEN /\ at' = "rail"
          /\ asked' = [scenario |-> s, rails |-> A]
          /\ todo' = A
          /\ answer' = NoAnswer
          /\ UNCHANGED <<gathered, cancelled>>
     ELSE Return(Ended("blocked"))
  /\ UNCHANGED <<cacheVars, workerVars, solveVars, historyVars>>

Cancel ==
  /\ at # "idle"
  /\ cancelled' = TRUE
  /\ UNCHANGED <<cacheVars, workerVars, solveVars, historyVars, at, asked, todo,
                 gathered, answer>>

\* The rails are evaluated in the order of the scenario.
NextRail == CHOOSE a \in todo : TRUE

\* _engine_outcomes and the first half of solve: a directory with the request,
\* and the process.
Spawn ==
  /\ at = "rail"
  /\ ~cancelled
  /\ todo # {}
  /\ \E p \in Procs :
       /\ At(p, "none")
       /\ Goto(p, "check")
       /\ port' = [port EXCEPT ![p] = NextRail]
       /\ dir' = [dir EXCEPT ![p] = "no result"]
       /\ request' = [request EXCEPT ![p] = Request(asked.scenario, NextRail)]
       /\ result' = [result EXCEPT ![p] = {}]
       /\ why' = [why EXCEPT ![p] = ""]
       /\ child' = p
       /\ lost' = lost \ {p}
  /\ NewSolve
  /\ at' = "wait"
  /\ todo' = todo \ {NextRail}
  /\ Still
  /\ UNCHANGED <<asked, gathered, cancelled, answer, faults>>

\* No directory can be made; or there is one when the disk is full or no process can
\* be started, and nothing removes it.
FailSpawn ==
  /\ at = "rail"
  /\ ~cancelled
  /\ todo # {}
  /\ \/ UNCHANGED <<workDirs, lost>>
     \/ \E p \in Procs :
          /\ At(p, "none")
          /\ dir' = [dir EXCEPT ![p] = "left"]
          /\ lost' = lost \cup {p}
          /\ UNCHANGED <<request, result>>
  /\ Return(Ended("broken"))
  /\ UNCHANGED <<cacheVars, claim, why, solveVars, faults>>

FinishBatch ==
  /\ at = "rail"
  /\ \/ /\ cancelled
        /\ Return(Ended("cancelled"))
     \/ /\ ~cancelled
        /\ todo = {}
        /\ Return([kind |-> "done", code |-> "", scenario |-> asked.scenario,
                   rails |-> asked.rails, receipts |-> gathered])
  /\ UNCHANGED <<cacheVars, workerVars, solveVars, historyVars>>

\* Mutant: the thread does not report the end of the stream.
DrainWithoutEnd ==
  /\ child # NoProc
  /\ pipe # <<>>
  /\ lines' = IF Head(pipe) \in Codes THEN Append(lines, Head(pipe)) ELSE lines
  /\ pipe' = Tail(pipe)
  /\ UNCHANGED <<cacheVars, workerVars, child, seen, batchVars, historyVars>>

\* The reader thread: every line, and after them the end.
Drain ==
  /\ child # NoProc
  /\ \/ /\ pipe # <<>>
        /\ lines' = IF Head(pipe) \in Codes THEN Append(lines, Head(pipe)) ELSE lines
        /\ pipe' = Tail(pipe)
     \/ /\ pipe = <<>>
        /\ Gone(child)
        /\ Eof \notin {lines[i] : i \in DOMAIN lines}
        /\ at = "wait"
        /\ lines' = Append(lines, Eof)
        /\ UNCHANGED pipe
  /\ UNCHANGED <<cacheVars, workerVars, child, seen, batchVars, historyVars>>

\* Mutant: the loop stops when the process is gone.
TakeLineUntilExit ==
  /\ at = "wait"
  /\ \/ /\ lines # <<>>
        /\ lines' = Tail(lines)
        /\ seen' = seen \cup {Head(lines)}
        /\ UNCHANGED at
     \/ /\ Gone(child)
        /\ at' = "reap"
        /\ UNCHANGED <<lines, seen>>
  /\ UNCHANGED <<cacheVars, workerVars, child, pipe, asked, todo, gathered,
                 cancelled, answer, historyVars>>

TakeLine ==
  /\ at = "wait"
  /\ lines # <<>>
  /\ lines' = Tail(lines)
  /\ IF Head(lines) = Eof
     THEN at' = "reap" /\ UNCHANGED seen
     ELSE seen' = seen \cup {Head(lines)} /\ UNCHANGED at
  /\ UNCHANGED <<cacheVars, workerVars, child, pipe, asked, todo, gathered,
                 cancelled, answer, historyVars>>

\* The process is over and its directory removed.
Discard(p) ==
  /\ Goto(p, "none")
  /\ port' = [port EXCEPT ![p] = None]
  /\ dir' = [dir EXCEPT ![p] = "none"]
  /\ request' = [request EXCEPT ![p] = NoRequest]
  /\ result' = [result EXCEPT ![p] = {}]
  /\ why' = [why EXCEPT ![p] = ""]
  /\ child' = NoProc
  /\ NewSolve
  /\ sha' = [sha EXCEPT ![p] = None]
  /\ got' = [got EXCEPT ![p] = Nothing]
  /\ pending' = [pending EXCEPT ![p] = {}]
  /\ claim' = [claim EXCEPT ![p] = None]
  /\ misled' = misled \ {p}
  /\ UNCHANGED <<spd, cached, doubtful>>

\* Mutant: the process is left to itself.
CancelOnly ==
  /\ at = "wait"
  /\ cancelled
  /\ child' = NoProc
  /\ NewSolve
  /\ Return(Ended("cancelled"))
  /\ UNCHANGED <<cacheVars, workerVars, historyVars>>

\* Mutant: the flag is looked at when the worker has said something.
KillBetweenLines ==
  /\ at = "wait"
  /\ cancelled
  /\ lines # <<>>
  /\ Discard(child)
  /\ Return(Ended("cancelled"))
  /\ UNCHANGED historyVars

\* kill, wait and rmtree.
KillWorker ==
  /\ at = "wait"
  /\ cancelled
  /\ Discard(child)
  /\ Return(Ended("cancelled"))
  /\ UNCHANGED historyVars

Succeeded(p) == At(p, "exited") /\ dir[p] \in {"torn", "whole"}

CodeSeen ==
  IF seen = {} THEN "WORKER_FAILED" ELSE CHOOSE c \in Codes : c \in seen

\* process.wait, and what solve does of a worker that failed.
FailSolve ==
  /\ at = "reap"
  /\ Gone(child)
  /\ ~Succeeded(child)
  /\ Discard(child)
  /\ Return([Ended("failed") EXCEPT !.code = CodeSeen])
  /\ UNCHANGED historyVars

\* The result is read, and the receipts are kept.
KeepReceipts ==
  /\ at = "reap"
  /\ Gone(child)
  /\ Succeeded(child)
  /\ dir[child] = "whole"
  /\ gathered' = gathered \cup result[child]
  /\ Discard(child)
  /\ at' = "rail"
  /\ UNCHANGED <<asked, todo, cancelled, answer, historyVars>>

\* A result that is not JSON, or a receipt that cannot be written.
FailKeep ==
  /\ at = "reap"
  /\ Gone(child)
  /\ Succeeded(child)
  /\ child' = NoProc
  /\ NewSolve
  /\ lost' = lost \cup {child}
  /\ Return(Ended("broken"))
  /\ UNCHANGED <<cacheVars, workerVars, faults>>

Batch ==
  \/ Spawn
  \/ FinishBatch
  \/ TakeLine
  \/ KillWorker
  \/ FailSolve
  \/ KeepReceipts

-----------------------------------------------------------------------------
(* The environment.                                                        *)

\* A worker reads the SPD from its test of the content on.
Readers == {p \in Procs : step[p] \in {"hash"} \cup Reading}

ReplaceFile ==
  /\ Readers # {} => faults < MaxFaults
  /\ faults' = IF Readers = {} THEN faults ELSE faults + 1
  /\ ReplaceSpd(Readers)
  /\ UNCHANGED <<workerVars, solveVars, batchVars, lost>>

\* A power loss ends every process, and an upgrade waits for them.
SpoilEntry ==
  /\ \A p \in Procs : At(p, "none")
  /\ faults < MaxFaults
  /\ faults' = faults + 1
  /\ Spoil
  /\ UNCHANGED <<workerVars, solveVars, batchVars, lost>>

\* The application is killed and started again.
CrashApp ==
  /\ at # "idle"
  /\ faults < MaxFaults
  /\ faults' = faults + 1
  /\ lost' = lost \cup ({child} \ {NoProc})
  /\ child' = NoProc
  /\ NewSolve
  /\ Return(NoAnswer)
  /\ UNCHANGED <<cacheVars, workerVars>>

\* The system reaps a process nobody waits for; what is in its directory is never
\* looked at.
ReapOrphan(p) ==
  /\ p # child
  /\ Gone(p)
  /\ Goto(p, "none")
  /\ port' = [port EXCEPT ![p] = None]
  /\ sha' = [sha EXCEPT ![p] = None]
  /\ got' = [got EXCEPT ![p] = Nothing]
  /\ pending' = [pending EXCEPT ![p] = {}]
  /\ claim' = [claim EXCEPT ![p] = None]
  /\ dir' = [dir EXCEPT ![p] = "left"]
  /\ request' = [request EXCEPT ![p] = NoRequest]
  /\ result' = [result EXCEPT ![p] = {}]
  /\ why' = [why EXCEPT ![p] = ""]
  /\ misled' = misled \ {p}
  /\ UNCHANGED <<spd, cached, doubtful>>
  /\ Quiet

-----------------------------------------------------------------------------

Next ==
  \/ \E s \in Scenarios, A \in (SUBSET Ports) \ {{}} : Evaluate(s, A)
  \/ Cancel
  \/ Batch
  \/ Drain
  \/ FailSpawn
  \/ FailKeep
  \/ \E p \in Procs : Work(p)
  \/ \E p \in Procs : Beat(p) \/ Die(p) \/ Hang(p)
  \/ \E p \in Procs : ReapOrphan(p)
  \/ ReplaceFile
  \/ SpoilEntry
  \/ CrashApp

\* The thread of the batch and the reader thread run, and solve looks at the flag
\* before it takes a line.  A process runs unless it hangs; fairness is strong, for
\* a line that waits for room in the pipe is written before the heartbeat, which
\* sleeps between its lines, writes one more.
Fairness ==
  /\ WF_vars(Batch)
  /\ WF_vars(KillWorker)
  /\ WF_vars(Drain)
  /\ \A p \in Procs : SF_vars(Work(p))

Spec == Init /\ [][Next]_vars /\ Fairness

-----------------------------------------------------------------------------
(* Correctness.                                                            *)

TypeOK ==
  /\ CacheTypeOK
  /\ claim \in [Procs -> Designs \cup {None}]
  /\ why \in [Procs -> Codes \cup {""}]
  /\ dir \in [Procs -> {"none", "no result", "torn", "whole", "left"}]
  /\ request \in [Procs -> Requests \cup {NoRequest}]
  /\ result \in [Procs -> SUBSET Receipts]
  /\ at \in {"idle", "rail", "wait", "reap"}
  /\ asked \in {NoBatch} \cup [scenario : Scenarios, rails : SUBSET Ports]
  /\ todo \subseteq Ports
  /\ gathered \subseteq Receipts
  /\ cancelled \in BOOLEAN
  /\ child \in Procs \cup {NoProc}
  /\ pipe \in Seq(Codes \cup {"PROGRESS"})
  /\ lines \in Seq(Codes \cup {Eof})
  /\ seen \subseteq Codes
  /\ lost \subseteq Procs
  /\ faults \in 0..MaxFaults

Populated(decaps, a) ==
  {<<x, decaps[x].model>> : x \in {y \in Refdes : /\ decaps[y].rail = a
                                                  /\ decaps[y].enabled
                                                  /\ ~decaps[y].gap}}

MountedIn(config) == {<<x, config[x]>> : x \in {y \in DOMAIN config : config[y] # None}}

Describes(receipt, s) ==
  /\ receipt.claim = s.source
  /\ receipt.trust = "sound" => receipt.used = {s.source}
  /\ MountedIn(receipt.config) =
       Populated(IF receipt.role = "baseline" THEN Original ELSE s.decaps, receipt.rail)

\* An evaluation that is done has a receipt for every rail and both roles that names
\* the SPD the scenario was imported from, and numbers of exactly the decaps the
\* scenario puts there: a moved, disabled or cut one is not mounted though it is in the
\* SPD (engine_adapter.py, decap_config).  The numbers are of that SPD and, through the
\* cache, of no other, unless the SPD was replaced under the worker, or under one that
\* wrote an entry it took: the worker tests the SPD once and reads it again later.
AnswerIsOfScenario ==
  answer.kind = "done" =>
    /\ {<<r.rail, r.role>> : r \in answer.receipts} = answer.rails \X Roles
    /\ \A r \in answer.receipts : Describes(r, answer.scenario)

\* No process goes on without an evaluation that waits for it, and no directory
\* of a request stays, unless the application crashed, could not start the worker or
\* could not keep a receipt (tests/test_spd_decap_gui_engine.py,
\* test_cancel_kills_the_engine_worker_process).
NothingIsLeft ==
  \A p \in Procs : (Runs(p) \/ dir[p] # "none") => p = child \/ p \in lost

\* A worker that refuses its rail with a code is reported with that code, though
\* the code is one line in a pipe and the loop stops when the process is gone.
RefusalIsReported ==
  [][answer'.kind = "failed" /\ answer.kind # "failed" =>
       answer'.code = IF why[child] = "" THEN "WORKER_FAILED" ELSE why[child]]_vars

\* A cancelled evaluation ends, whether or not its worker does or says anything.
CancelEnds == cancelled ~> at = "idle"

\* An evaluation ends unless its worker hangs.
SolveEnds == at = "wait" ~> (at # "wait" \/ step[child] = "hung")
=============================================================================
