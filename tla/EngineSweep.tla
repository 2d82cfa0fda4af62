------------------------------ MODULE EngineSweep ------------------------------
(***************************************************************************)
(* "python -m spd_pi_engine sweep" (cli.py): a driver that runs one solve  *)
(* process for each port without a receipt, a few at a time, and can be    *)
(* started again to do what is left.  A solve process prepares its port    *)
(* through the shared cache, solves it and writes a receipt.               *)
(*                                                                         *)
(* Processes the driver does not wait for are "outside": a solve started   *)
(* by hand with the same --out, and the solves that survive a driver that  *)
(* was killed.                                                             *)
(***************************************************************************)
EXTENDS EngineCache, Sequences

CONSTANTS
  Lists,       \* lists of ports a sweep may be given: --ports takes any, twice the
               \* same port too
  Jobs,        \* --jobs, as plan_sweep clamps it
  Stamps,      \* times of day _HHMMSS can show
  NoReceipt,
  Torn,        \* a receipt that is not a whole JSON document
  MaxMishaps   \* bound on outside + faults

Plain == "plain"

Names == {Plain} \cup Stamps

Files == Ports \X Names

\* trust is history: whether the process that wrote it was misled.
Receipts == [claim : Designs, used : SUBSET Designs, trust : {"sound", "misled"}]

ASSUME EngineSweepAssumption ==
  /\ Jobs \in Nat \ {0}
  /\ Stamps # {}
  /\ Plain \notin Stamps
  /\ NoReceipt \notin Receipts
  /\ Torn \notin Receipts \cup {NoReceipt}
  /\ MaxMishaps \in Nat
  /\ Lists \subseteq Seq(Ports)

VARIABLES
  claim,     \* spd_sha256 of the receipt each process is about to write
  name,      \* and the file it chose for it
  receipts,  \* receipt_<port>.json and receipt_<port>_<time>.json
  on,        \* a driver runs
  list,      \* the ports of the last sweep, as they were given
  todo,      \* positions of those without a receipt, one future each
  queued,    \* futures that wait in the ThreadPoolExecutor
  future,    \* the future each process runs for, or 0
  ok,        \* futures counted OK
  failed,    \* and FAIL
  outside,   \* how often a process ran outside a driver
  faults     \* how often the SPD was replaced under a process that read it, and how
             \* many entries were spoilt

solveVars == <<claim, name>>
accounts == <<on, list, todo, queued, future, ok, failed>>
driverVars == <<accounts, outside, faults>>
vars == <<cacheVars, solveVars, receipts, driverVars>>

Init ==
  /\ CacheInit
  /\ claim = [p \in Procs |-> None]
  /\ name = [p \in Procs |-> Plain]
  /\ receipts = [f \in Files |-> NoReceipt]
  /\ on = FALSE
  /\ list = <<>>
  /\ todo = {}
  /\ queued = {}
  /\ future = [p \in Procs |-> 0]
  /\ ok = {}
  /\ failed = {}
  /\ outside = 0
  /\ faults = 0

-----------------------------------------------------------------------------
(* cmd_solve, after prepare.                                               *)

\* Design.sha256 is computed when the receipt first asks for it.
Solve(p) ==
  /\ At(p, "solve")
  /\ claim' = [claim EXCEPT ![p] = spd]
  /\ Goto(p, "name")
  /\ UNCHANGED <<spd, cached, port, prepareVars, doubts, name, receipts, driverVars>>

\* unique_path.
UniquePath(a) == IF receipts[<<a, Plain>>] = NoReceipt THEN {Plain} ELSE Stamps

\* The name, and then open(..., "w"), which empties the file.
NameReceipt(p) ==
  /\ At(p, "name")
  /\ \E n \in UniquePath(port[p]) : name' = [name EXCEPT ![p] = n]
  /\ Goto(p, "open")
  /\ UNCHANGED <<spd, cached, port, prepareVars, doubts, claim, receipts, driverVars>>

File(p) == <<port[p], name[p]>>

OpenReceipt(p) ==
  /\ At(p, "open")
  /\ receipts' = [receipts EXCEPT ![File(p)] = Torn]
  /\ Goto(p, "write")
  /\ UNCHANGED <<spd, cached, port, prepareVars, doubts, solveVars, driverVars>>

Inputs(p) == {port[p]} \cup Need[port[p]]

Receipt(p) ==
  [claim |-> claim[p], used |-> {got[p][i] : i \in Inputs(p)},
   trust |-> IF p \in misled THEN "misled" ELSE "sound"]

\* The process leaves nothing behind but its exit code.
Forget(p) ==
  /\ sha' = [sha EXCEPT ![p] = None]
  /\ got' = [got EXCEPT ![p] = Nothing]
  /\ pending' = [pending EXCEPT ![p] = {}]
  /\ claim' = [claim EXCEPT ![p] = None]
  /\ name' = [name EXCEPT ![p] = Plain]
  /\ misled' = misled \ {p}

\* Two processes that write one file may leave a mixture.
WriteReceipt(p) ==
  /\ At(p, "write")
  /\ \/ receipts' = [receipts EXCEPT ![File(p)] = Receipt(p)]
     \/ /\ \E q \in Procs \ {p} : At(q, "write") /\ File(q) = File(p)
        /\ receipts' = [receipts EXCEPT ![File(p)] = Torn]
  /\ Goto(p, "exited")
  /\ Forget(p)
  /\ UNCHANGED <<spd, cached, port, doubtful, driverVars>>

Running(p) == step[p] \notin {"none", "exited", "failed"}

\* An exception, a full disk, a replace refused a hundred times, or a kill.
Fail(p) ==
  /\ Running(p)
  /\ Goto(p, "failed")
  /\ Forget(p)
  /\ UNCHANGED <<spd, cached, port, doubtful, receipts, driverVars>>

PrepareStep(p) == Prepare(p) /\ UNCHANGED <<solveVars, receipts, driverVars>>

Work(p) ==
  PrepareStep(p) \/ Solve(p) \/ NameReceipt(p) \/ OpenReceipt(p) \/ WriteReceipt(p)

-----------------------------------------------------------------------------
(* cmd_sweep.                                                              *)

\* Mutant: a sweep does every port again.
Everything(ports) == DOMAIN ports

Todo(ports) == {i \in DOMAIN ports : receipts[<<ports[i], Plain>>] = NoReceipt}

StartSweep ==
  /\ ~on
  /\ \E ports \in Lists :
       /\ list' = ports
       /\ todo' = Todo(ports)
  /\ queued' = todo'
  /\ on' = (todo' # {})
  /\ ok' = {}
  /\ failed' = {}
  /\ UNCHANGED <<cacheVars, solveVars, receipts, future, outside, faults>>

Start(p, a) ==
  /\ At(p, "none")
  /\ Goto(p, "hash")
  /\ port' = [port EXCEPT ![p] = a]
  /\ UNCHANGED <<spd, cached, prepareVars, doubts, solveVars, receipts, faults>>

\* The processes the threads of the executor wait for.
Mine == {p \in Procs : future[p] # 0}

\* run_one starts a process for the future that waits longest.
Spawn(p, i) ==
  /\ on
  /\ i \in queued
  /\ \A j \in queued : i <= j
  /\ Cardinality(Mine) < Jobs
  /\ Start(p, list[i])
  /\ queued' = queued \ {i}
  /\ future' = [future EXCEPT ![p] = i]
  /\ UNCHANGED <<on, list, todo, ok, failed, outside>>

\* Mutant: the exit code is not looked at.
LeftReceipt(p) == receipts[<<port[p], Plain>>] # NoReceipt

Succeeded(p) == At(p, "exited") /\ receipts[<<port[p], Plain>>] # NoReceipt

\* Mutant: a port that failed is tried again.
QueueAgain(p) == IF Succeeded(p) THEN queued ELSE queued \cup {future[p]}

QueueAfter(p) == queued

Gone(p) ==
  /\ step[p] \in {"exited", "failed"}
  /\ Goto(p, "none")
  /\ port' = [port EXCEPT ![p] = None]
  /\ UNCHANGED <<spd, cached, prepareVars, doubts, solveVars, receipts>>

\* run_one returns and the main thread counts.
Reap(p) ==
  /\ p \in Mine
  /\ Gone(p)
  /\ future' = [future EXCEPT ![p] = 0]
  /\ queued' = QueueAfter(p)
  /\ ok' = IF Succeeded(p) THEN ok \cup {future[p]} ELSE ok
  /\ failed' = IF Succeeded(p) THEN failed ELSE failed \cup {future[p]}
  /\ UNCHANGED <<on, list, todo, outside, faults>>

EndSweep ==
  /\ on
  /\ queued = {}
  /\ Mine = {}
  /\ on' = FALSE
  /\ UNCHANGED <<cacheVars, solveVars, receipts, list, todo, queued, future, ok, failed,
                 outside, faults>>

-----------------------------------------------------------------------------
(* Outside the driver.                                                     *)

MoreMishaps == outside + faults < MaxMishaps

SolveByHand(p, a) ==
  /\ MoreMishaps
  /\ outside' = outside + 1
  /\ Start(p, a)
  /\ UNCHANGED accounts

\* The driver is killed; its processes survive, or fail on their own.
KillSweep ==
  /\ on
  /\ MoreMishaps
  /\ outside' = outside + 1
  /\ on' = FALSE
  /\ list' = <<>>
  /\ todo' = {}
  /\ queued' = {}
  /\ future' = [p \in Procs |-> 0]
  /\ ok' = {}
  /\ failed' = {}
  /\ UNCHANGED <<cacheVars, solveVars, receipts, faults>>

ReapOutside(p) == p \notin Mine /\ Gone(p) /\ UNCHANGED driverVars

\* The last read of a solve is the hash that the receipt asks for.
Readers == {p \in Procs : step[p] \in Reading \cup {"keep", "solve"}}

MoveSpd ==
  /\ Readers # {} => MoreMishaps
  /\ faults' = IF Readers = {} THEN faults ELSE faults + 1
  /\ ReplaceSpd(Readers)
  /\ UNCHANGED <<solveVars, receipts, accounts, outside>>

SpoilEntry ==
  /\ MoreMishaps
  /\ faults' = faults + 1
  /\ Spoil
  /\ UNCHANGED <<solveVars, receipts, accounts, outside>>

-----------------------------------------------------------------------------

Next ==
  \/ StartSweep
  \/ EndSweep
  \/ KillSweep
  \/ \E p \in Procs : Work(p)
  \/ \E p \in Procs : Fail(p)
  \/ \E p \in Procs : Reap(p)
  \/ \E p \in Procs : ReapOutside(p)
  \/ \E p \in Procs, i \in queued : Spawn(p, i)
  \/ \E p \in Procs, a \in Ports : SolveByHand(p, a)
  \/ MoveSpd
  \/ SpoilEntry

\* Processes run, and the driver's threads wait for them.
Fairness ==
  /\ \A p \in Procs : WF_vars(Work(p))
  /\ \A p \in Procs : WF_vars(Reap(p) \/ ReapOutside(p))
  /\ WF_vars(\E p \in Procs, i \in queued : Spawn(p, i))
  /\ WF_vars(EndSweep)

Spec == Init /\ [][Next]_vars /\ Fairness

-----------------------------------------------------------------------------
(* Correctness.                                                            *)

Whole(f) == receipts[f] \notin {NoReceipt, Torn}

TypeOK ==
  /\ CacheTypeOK
  /\ claim \in [Procs -> Designs \cup {None}]
  /\ name \in [Procs -> Names]
  /\ receipts \in [Files -> Receipts \cup {NoReceipt, Torn}]
  /\ on \in BOOLEAN
  /\ list \in Seq(Ports)
  /\ {todo, queued, ok, failed} \subseteq SUBSET (DOMAIN list)
  /\ future \in [Procs -> DOMAIN list \cup {0}]
  /\ {outside, faults} \subseteq 0..MaxMishaps

\* A receipt names the SPD its numbers come from, and no other has a part in them,
\* though its process reads the SPD four times and takes the rest from files that
\* other processes wrote (api.py, Design.sha256).  That is no more than the code can
\* promise if the SPD was replaced under the process, or under the one that wrote an
\* entry it took: then the numbers may come from two SPDs.
ReceiptNamesItsDesign ==
  \A f \in Files :
    Whole(f) /\ receipts[f].trust = "sound" => receipts[f].used = {receipts[f].claim}

\* Nothing but this driver runs, and it was given no port twice.
Undisturbed ==
  /\ outside = 0
  /\ \A i, j \in todo : list[i] = list[j] => i = j

\* A port the driver counts OK has a whole receipt under its own name, unless
\* another process, even one of the driver's own, solved the same port.
OkIsWhole == Undisturbed => \A i \in ok : Whole(<<list[i], Plain>>)

\* Every entry of the list that had no receipt is done exactly once: it waits, or one
\* process runs for it, or it was counted OK, or it was counted FAIL.  A port that
\* the list names twice is solved twice, perhaps at the same time.
EveryEntryOnce ==
  /\ todo = queued \cup {future[p] : p \in Mine} \cup ok \cup failed
  /\ \A p, q \in Mine : future[p] = future[q] => p = q
  /\ \A p \in Mine :
       future[p] \notin queued \cup ok \cup failed /\ port[p] = list[future[p]]
  /\ queued \cap (ok \cup failed) = {}
  /\ ok \cap failed = {}

\* A sweep leaves the receipts of earlier sweeps as they are.
SweepKeepsReceipts ==
  [][Undisturbed /\ outside' = 0 =>
       \A f \in Files : Whole(f) => receipts'[f] = receipts[f]]_vars

\* A sweep ends, whatever fails.
SweepEnds == on ~> ~on

-----------------------------------------------------------------------------
(* What the documentation says of the program.                             *)

\* What a sweep tells the user is done: the ports it skips and those it counts OK.
Reported == {list[i] : i \in (DOMAIN list \ todo) \cup ok}

\* A sweep can be resumed: a port it reports as done has its receipt
\* (docs/engine/W7_REPORT.md).
ResumeIsSafe == Undisturbed => \A a \in Reported : Whole(<<a, Plain>>)
=============================================================================
