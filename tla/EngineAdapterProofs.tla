-------------------------- MODULE EngineAdapterProofs --------------------------
(***************************************************************************)
(* Proofs about EngineAdapter, for every number of worker processes, every *)
(* set of SPDs, rails, decaps and scenarios, every size of the pipe and    *)
(* every number of faults.                                                 *)
(***************************************************************************)
EXTENDS EngineAdapter, SequenceTheorems, TLAPS

\* Steps after the worker found the SPD to be the one it was asked for, and those
\* after prepare hashed it.
Hashed == {"find", "extract", "save", "walk", "keep", "solve", "open", "write",
           "tell", "exited"}

Checked == {"hash"} \cup Hashed

\* A worker knows its port, and its receipts will name the SPD of its request.  Unless it
\* was misled, that is the SPD it hashed, and what it got comes from it.
ReadsWhatItHashed(p) ==
  /\ step[p] # "none" => port[p] \in Ports /\ request[p] \in Requests
  /\ step[p] \in {"none", "check", "hash"} => sha[p] = None
  /\ step[p] \in {"none", "check"} => p \notin misled
  /\ step[p] \in Hashed => sha[p] \in Designs
  /\ step[p] \in Checked => claim[p] = Expected(p)
  /\ p \notin misled =>
       /\ step[p] \in Hashed => claim[p] = sha[p]
       /\ \A i \in Items : got[p][i] \in {sha[p], None}

\* The file is the one that was checked and hashed, unless the worker was misled.
FileIsCurrent(p) ==
  p \notin misled =>
    /\ step[p] \in Reading => sha[p] = spd
    /\ At(p, "hash") => claim[p] = spd

\* When prepare is over, no input is missing.
InputsAreThere(p) ==
  /\ step[p] \in Hashed \ {"find", "extract"} => got[p][port[p]] # None
  /\ step[p] \in {"keep", "solve", "open", "write", "tell", "exited"} =>
       \A l \in Need[port[p]] : got[p][l] # None

WorkerIsSound(p) == ReadsWhatItHashed(p) /\ FileIsCurrent(p) /\ InputsAreThere(p)

CacheInv == EntriesMatchTheirKey /\ \A p \in Procs : WorkerIsSound(p)

\* Every process that is there and every directory belongs to the evaluation that
\* waits for it, or is lost.
EveryWorkerIsOwned ==
  \A p \in Procs : step[p] # "none" \/ dir[p] # "none" => p = child \/ p \in lost

\* A whole result is that of its worker, which found no input missing.
ResultIsOwn ==
  \A p \in Procs : dir[p] = "whole" =>
    /\ step[p] \in {"tell", "exited", "failed", "hung"}
    /\ result[p] = Result(p)

\* The batch has a worker exactly while it waits for it, which works for the
\* scenario that was asked for.
ChildIsAsked ==
  /\ at \in {"wait", "reap"} <=> child # NoProc
  /\ at \in {"wait", "reap"} =>
       /\ step[child] # "none"
       /\ request[child] = Request(asked.scenario, port[child])
       /\ port[child] \in asked.rails \ todo

\* Rails of the batch that are done.
DoneRails == {a \in asked.rails \ todo : child # NoProc => a # port[child]}

\* Receipts for exactly the rails R.
Covers(receipts, R) ==
  /\ \A r \in receipts : r.rail \in R /\ r.role \in Roles
  /\ \A a \in R, role \in Roles : \E r \in receipts : r.rail = a /\ r.role = role

\* What was kept so far are the numbers of the rails that are done.
GatheredIsOfScenario ==
  /\ at = "idle" => gathered = {}
  /\ at # "idle" =>
       /\ asked \in [scenario : Scenarios, rails : SUBSET Ports]
       /\ \A a \in asked.rails : CrossNet(asked.scenario, a) = {}
       /\ todo \subseteq asked.rails
       /\ Covers(gathered, DoneRails)
       /\ \A r \in gathered : Describes(r, asked.scenario)

AnswerInv ==
  answer.kind = "done" =>
    /\ Covers(answer.receipts, answer.rails)
    /\ \A r \in answer.receipts : Describes(r, answer.scenario)

In(s, line) == \E i \in 1..Len(s) : s[i] = line

\* A line has left the worker: it is in the pipe, in the queue, or was seen.
Told(line) == In(pipe, line) \/ In(lines, line) \/ line \in seen

\* Only a worker that failed has a code.
CodeMeansFailure == \A p \in Procs : why[p] # "" => step[p] = "failed"

\* Of all codes, the one the worker ended with is on its way.
CodeIsOnItsWay ==
  at \in {"wait", "reap"} => \A c \in Codes : Told(c) <=> c = why[child]

\* The end comes after everything else, when the worker is gone.
EndComesLast ==
  /\ In(lines, Eof) => at = "wait" /\ pipe = <<>> /\ Gone(child)
  /\ \A i \in 1..Len(lines) : lines[i] = Eof => i = Len(lines)
  /\ at = "reap" => pipe = <<>> /\ lines = <<>> /\ Gone(child)

OutputInv == CodeMeansFailure /\ CodeIsOnItsWay /\ EndComesLast

AdapterInv ==
  /\ TypeOK
  /\ CacheInv
  /\ EveryWorkerIsOwned
  /\ ResultIsOwn
  /\ ChildIsAsked
  /\ GatheredIsOfScenario
  /\ AnswerInv
  /\ OutputInv

USE DEF At, Goto

-----------------------------------------------------------------------------
(* The request and the configurations.                                     *)

LEMMA ItemFacts ==
  /\ \A a \in Ports : a \in Items
  /\ \A a \in Ports : Need[a] \subseteq PlaneLayers
  /\ \A a \in Ports : \A l \in Need[a] : l \in Items
  BY EngineCacheAssumption DEF Items

LEMMA OriginalIsTyped == Original \in [Refdes -> Decap]
  BY AdapterAssumption DEF Original, Decap

LEMMA ConfigIsTyped ==
  ASSUME NEW decaps \in [Refdes -> Decap], NEW a
  PROVE  DecapConfig(decaps, a) \in Configs
<1> DEFINE S == {y \in Refdes : a \in {decaps[y].rail, Home[y]}}
<1>1. \A x \in Refdes : decaps[x].model \in Models
  BY DEF Decap
<1>2. DecapConfig(decaps, a) \in [S -> Models \cup {None}]
  BY <1>1 DEF DecapConfig
<1> QED
  BY <1>2, Zenon DEF Configs

\* What is sent to a worker.
LEMMA RequestFacts ==
  ASSUME NEW s \in Scenarios, NEW a \in Ports
  PROVE  /\ Request(s, a) \in Requests
         /\ Request(s, a).sha = s.source
         /\ Request(s, a).sha \in Designs
         /\ Request(s, a).configs["baseline"] = DecapConfig(Original, a)
         /\ Request(s, a).configs["tuned"] = DecapConfig(s.decaps, a)
<1>1. s.source \in Designs /\ s.decaps \in [Refdes -> Decap]
  BY AdapterAssumption
<1>2. \A r \in Roles :
        DecapConfig(IF r = "baseline" THEN Original ELSE s.decaps, a) \in Configs
  BY <1>1, OriginalIsTyped, ConfigIsTyped
<1>3. [r \in Roles |-> DecapConfig(IF r = "baseline" THEN Original ELSE s.decaps, a)]
        \in [Roles -> Configs]
  BY <1>2
<1> QED
  BY <1>1, <1>3 DEF Request, Requests, Roles

\* The engine solves configurations of the decaps of its net.
LEMMA MountedIsTyped ==
  ASSUME NEW config \in Configs, NEW a
  PROVE  SetDecaps(config, a) \in Configs
<1>1. PICK S \in SUBSET Refdes : config \in [S -> Models \cup {None}]
  BY DEF Configs
<1>2. \A x \in Refdes : SpdModel[x] \in Models
  BY AdapterAssumption
<1>3. SetDecaps(config, a) \in [OnNet(a) -> Models \cup {None}]
  BY <1>1, <1>2 DEF SetDecaps, OnNet
<1> QED
  BY <1>3, Zenon DEF Configs, OnNet

\* decap_config and set_decaps together mount exactly what the scenario puts on the
\* rail, if no decap was moved there from another rail.
LEMMA MountsWhatIsPopulated ==
  ASSUME NEW decaps \in [Refdes -> Decap], NEW a,
         \A x \in Refdes : decaps[x].rail = a => Home[x] = a
  PROVE  MountedIn(SetDecaps(DecapConfig(decaps, a), a)) = Populated(decaps, a)
<1> DEFINE config == SetDecaps(DecapConfig(decaps, a), a)
<1>1. {y \in Refdes : a \in {decaps[y].rail, Home[y]}} = OnNet(a)
  BY DEF OnNet
<1>2. DOMAIN DecapConfig(decaps, a) = OnNet(a)
  BY <1>1 DEF DecapConfig
<1>3. \A x \in OnNet(a) : DecapConfig(decaps, a)[x] =
        IF decaps[x].rail = a /\ decaps[x].enabled /\ ~decaps[x].gap
        THEN decaps[x].model ELSE None
  BY <1>1 DEF DecapConfig
<1>4. /\ DOMAIN config = OnNet(a)
      /\ \A x \in OnNet(a) : config[x] =
           IF decaps[x].rail = a /\ decaps[x].enabled /\ ~decaps[x].gap
           THEN decaps[x].model ELSE None
  BY <1>2, <1>3 DEF SetDecaps
<1>5. \A x \in Refdes : decaps[x].model # None
  BY AdapterAssumption DEF Decap
<1>6. {y \in OnNet(a) : config[y] # None} =
        {y \in Refdes : decaps[y].rail = a /\ decaps[y].enabled /\ ~decaps[y].gap}
  <2> HIDE DEF config
  <2> QED
    BY <1>4, <1>5 DEF OnNet
<1>7. \A x \in {y \in OnNet(a) : config[y] # None} : config[x] = decaps[x].model
  BY <1>4
<1> HIDE DEF config
<1>8. MountedIn(config) = Populated(decaps, a)
  BY <1>4, <1>6, <1>7 DEF MountedIn, Populated
<1> QED
  BY <1>8 DEF config

-----------------------------------------------------------------------------
(* Types.                                                                  *)

LEMMA BoundIsNat == MaxFaults \in Nat
  BY AdapterAssumption, Zenon

LEMMA OneFaultMore ==
  ASSUME faults \in 0..MaxFaults, faults < MaxFaults
  PROVE  faults + 1 \in 0..MaxFaults
  BY BoundIsNat

LEMMA InitTypes == Init => TypeOK
  <1> SUFFICES ASSUME Init PROVE TypeOK
    OBVIOUS
  <1>1. CacheTypeOK
    BY DEF Init, CacheInit, CacheTypeOK, Nothing, Steps
  <1>2. pipe \in Seq(Codes \cup {"PROGRESS"}) /\ lines \in Seq(Codes \cup {Eof})
    BY EmptySeq DEF Init
  <1>3. faults \in 0..MaxFaults
    <2>1. faults = 0
      BY DEF Init
    <2> QED BY <2>1, BoundIsNat
  <1> QED BY <1>1, <1>2, <1>3 DEF Init, TypeOK

\* What a saved entry is.
LEMMA SaveTypes ==
  ASSUME CacheTypeOK, NEW p \in Procs, NEW i \in Items, sha[p] \in Designs, Save(p, i)
  PROVE  /\ cached' \in [Designs \X Items -> Designs \cup {None, Unusable}]
         /\ doubtful' \subseteq Designs \X Items
  <1>1. got[p][i] \in Designs \cup {None}
    BY DEF CacheTypeOK
  <1>2. Key(p, i) \in Designs \X Items
    BY DEF Key
  <1> QED BY <1>1, <1>2 DEF Save, CacheTypeOK

LEMMA PrepareTypes ==
  ASSUME CacheTypeOK, NEW p \in Procs, ReadsWhatItHashed(p), Prepare(p)
  PROVE  CacheTypeOK'
  <1> USE ItemFacts DEF CacheTypeOK, Steps, doubts
  <1>1. CASE Hash(p)
    BY <1>1 DEF Hash
  <1>2. CASE LoadExtract(p)
    BY <1>2 DEF LoadExtract, Take, Outcomes, Entry, ReadsWhatItHashed
  <1>3. CASE Extract(p)
    BY <1>3 DEF Extract, ReadsWhatItHashed
  <1>4. CASE SaveExtract(p)
    <2>1. port[p] \in Ports /\ sha[p] \in Designs
      BY <1>4 DEF SaveExtract, ReadsWhatItHashed, Hashed
    <2>2. /\ cached' \in [Designs \X Items -> Designs \cup {None, Unusable}]
          /\ doubtful' \subseteq Designs \X Items
      BY <1>4, <2>1, SaveTypes DEF SaveExtract
    <2> QED BY <1>4, <2>1, <2>2 DEF SaveExtract
  <1>5. CASE LoadShapes(p)
    <2>0. PICK l \in pending[p] : \E found \in Outcomes(p, l) :
            Take(p, l, found) /\ pending' = [pending EXCEPT ![p] = @ \ {l}]
      BY <1>5 DEF LoadShapes
    <2>1. PICK found \in Outcomes(p, l) :
            Take(p, l, found) /\ pending' = [pending EXCEPT ![p] = @ \ {l}]
      BY <2>0
    <2>2. found \in Designs \cup {None}
      BY DEF Outcomes, Entry
    <2> QED BY <1>5, <2>1, <2>2 DEF LoadShapes, Take
  <1>6. CASE ReadShapes(p)
    <2>1. port[p] \in Ports
      BY <1>6 DEF ReadShapes, ReadsWhatItHashed
    <2>2. Missed(p) \subseteq PlaneLayers
      BY <2>1 DEF Missed
    <2>3. got' \in [Procs -> [Items -> Designs \cup {None}]]
      BY <1>6 DEF ReadShapes
    <2>4. pending' \in [Procs -> SUBSET PlaneLayers]
      BY <1>6, <2>2 DEF ReadShapes
    <2> QED BY <1>6, <2>3, <2>4 DEF ReadShapes
  <1>7. CASE SaveShapes(p)
    <2>1. PICK l \in pending[p] :
            Save(p, l) /\ pending' = [pending EXCEPT ![p] = @ \ {l}]
      BY <1>7 DEF SaveShapes
    <2>2. l \in Items /\ sha[p] \in Designs
      BY <1>7 DEF SaveShapes, ReadsWhatItHashed, Hashed, Items
    <2>3. /\ cached' \in [Designs \X Items -> Designs \cup {None, Unusable}]
          /\ doubtful' \subseteq Designs \X Items
      BY <2>1, <2>2, SaveTypes
    <2> QED BY <1>7, <2>1, <2>3 DEF SaveShapes
  <1> QED BY <1>1, <1>2, <1>3, <1>4, <1>5, <1>6, <1>7 DEF Prepare

\* The receipts a worker writes.
LEMMA ResultIsTyped ==
  ASSUME TypeOK, NEW p \in Procs, port[p] \in Ports, request[p] \in Requests
  PROVE  Result(p) \in SUBSET Receipts
<1>1. ASSUME NEW r \in Roles
      PROVE  SetDecaps(Wanted(p)[r], port[p]) \in Configs
  <2>1. Wanted(p)[r] \in Configs
    BY DEF Wanted, Requests
  <2> QED
    BY <2>1, MountedIsTyped
<1>2. \A i \in Inputs(p) : i \in Items
  BY ItemFacts DEF Inputs
<1>3. {got[p][i] : i \in Inputs(p)} \in SUBSET (Designs \cup {None})
  <2>1. \A i \in Items : got[p][i] \in Designs \cup {None}
    <3>1. CacheTypeOK
      BY DEF TypeOK
    <3> QED
      BY <3>1 DEF CacheTypeOK
  <2> QED
    BY <1>2, <2>1
<1>4. claim[p] \in Designs \cup {None}
  BY DEF TypeOK
<1>5. ASSUME NEW r \in Roles
      PROVE  [rail |-> port[p], role |-> r, claim |-> claim[p],
              used |-> {got[p][i] : i \in Inputs(p)},
              config |-> SetDecaps(Wanted(p)[r], port[p]),
              trust |-> IF p \in misled THEN "misled" ELSE "sound"] \in Receipts
  BY <1>1, <1>3, <1>4 DEF Receipts
<1> QED
  BY <1>5 DEF Result

\* A line is written by the worker that is waited for.
LEMMA SayTypes ==
  ASSUME TypeOK, NEW p, NEW line \in Codes \cup {"PROGRESS"}, Say(p, line)
  PROVE  pipe' \in Seq(Codes \cup {"PROGRESS"})
  BY AppendProperties DEF Say, TypeOK

LEMMA WorkTypes ==
  ASSUME TypeOK, NEW p \in Procs, WorkerIsSound(p),
         Work(p) \/ Beat(p) \/ Die(p) \/ Hang(p) \/ ReapOrphan(p)
  PROVE  TypeOK'
  <1> USE DEF TypeOK, CacheTypeOK, prepareVars, workDirs, solveVars, batchVars,
              historyVars, Steps, Quiet, workerVars, doubts
  <1>1. CASE CheckSpd(p)
    <2>1. pipe' \in Seq(Codes \cup {"PROGRESS"})
      BY <1>1, SayTypes DEF CheckSpd, Refuse, Codes
    <2>2. claim' \in [Procs -> Designs \cup {None}]
      BY <1>1 DEF CheckSpd
    <2>3. why' \in [Procs -> Codes \cup {""}]
      BY <1>1 DEF CheckSpd, Refuse, Codes
    <2> QED BY <1>1, <2>1, <2>2, <2>3 DEF CheckSpd, Refuse, Say
  <1>2. CASE PrepareRail(p)
    BY <1>2, PrepareTypes DEF PrepareRail, WorkerIsSound
  <1>3. CASE GuardMemory(p)
    <2>1. pipe' \in Seq(Codes \cup {"PROGRESS"})
      BY <1>3, SayTypes DEF GuardMemory, Refuse, Codes
    <2>2. why' \in [Procs -> Codes \cup {""}]
      BY <1>3 DEF GuardMemory, Refuse, Codes
    <2> QED BY <1>3, <2>1, <2>2 DEF GuardMemory, Refuse, Say
  <1>4. CASE Solve(p)
    BY <1>4, SayTypes DEF Solve, Say
  <1>5. CASE OpenResult(p)
    BY <1>5 DEF OpenResult
  <1>6. CASE WriteResult(p)
    <2>1. Result(p) \in SUBSET Receipts
      BY <1>6, ResultIsTyped DEF WriteResult, WorkerIsSound, ReadsWhatItHashed
    <2> QED BY <1>6, <2>1 DEF WriteResult
  <1>7. CASE Exit(p)
    BY <1>7, SayTypes DEF Exit, Say
  <1>8. CASE BreakPipe(p)
    BY <1>8 DEF BreakPipe
  <1>9. CASE Beat(p)
    BY <1>9, SayTypes DEF Beat, Say, cacheVars
  <1>10. CASE Die(p)
    BY <1>10 DEF Die
  <1>11. CASE Hang(p)
    <2>1. faults' \in 0..MaxFaults
      BY <1>11, OneFaultMore, Zenon DEF Hang
    <2>2. /\ Goto(p, "hung")
          /\ UNCHANGED <<spd, cached, port, prepareVars, doubts, workerVars, solveVars,
                         batchVars, lost>>
      BY <1>11 DEF Hang
    <2> QED BY <2>1, <2>2
  <1>12. CASE ReapOrphan(p)
    BY <1>12 DEF ReapOrphan, Nothing
  <1> QED BY <1>1, <1>2, <1>3, <1>4, <1>5, <1>6, <1>7, <1>8, <1>9, <1>10, <1>11,
             <1>12 DEF Work

LEMMA NextRailIsLeft ==
  ASSUME todo # {}
  PROVE  NextRail \in todo
  BY DEF NextRail

\* What is known of the worker that is waited for, as ChildIsAsked has it.
LEMMA ChildIsThere ==
  ASSUME TypeOK, ChildIsAsked, at \in {"wait", "reap"}
  PROVE  child \in Procs
  BY AdapterAssumption DEF TypeOK, ChildIsAsked

\* What Discard says of the types, and of the worker.
WorkersAreTyped ==
  /\ CacheTypeOK
  /\ claim \in [Procs -> Designs \cup {None}]
  /\ why \in [Procs -> Codes \cup {""}]
  /\ dir \in [Procs -> {"none", "no result", "torn", "whole", "left"}]
  /\ request \in [Procs -> Requests \cup {NoRequest}]
  /\ result \in [Procs -> SUBSET Receipts]

SolveIsTyped ==
  /\ child \in Procs \cup {NoProc}
  /\ pipe \in Seq(Codes \cup {"PROGRESS"})
  /\ lines \in Seq(Codes \cup {Eof})
  /\ seen \subseteq Codes

BatchIsTyped ==
  /\ at \in {"idle", "rail", "wait", "reap"}
  /\ asked \in {NoBatch} \cup [scenario : Scenarios, rails : SUBSET Ports]
  /\ todo \subseteq Ports
  /\ gathered \subseteq Receipts
  /\ cancelled \in BOOLEAN

HistoryIsTyped == lost \subseteq Procs /\ faults \in 0..MaxFaults

LEMMA TypesInParts ==
  ASSUME TypeOK
  PROVE  WorkersAreTyped /\ SolveIsTyped /\ BatchIsTyped /\ HistoryIsTyped
  BY DEF TypeOK, WorkersAreTyped, SolveIsTyped, BatchIsTyped, HistoryIsTyped

LEMMA TypesTogether ==
  ASSUME WorkersAreTyped', SolveIsTyped', BatchIsTyped', HistoryIsTyped'
  PROVE  TypeOK'
  BY DEF TypeOK, WorkersAreTyped, SolveIsTyped, BatchIsTyped, HistoryIsTyped

LEMMA SameWorkers ==
  ASSUME WorkersAreTyped, UNCHANGED <<cacheVars, workerVars>>
  PROVE  WorkersAreTyped'
  BY DEF WorkersAreTyped, CacheTypeOK, cacheVars, prepareVars, doubts, workerVars, workDirs

LEMMA SameSolve ==
  ASSUME SolveIsTyped, UNCHANGED solveVars
  PROVE  SolveIsTyped'
  BY DEF SolveIsTyped, solveVars

LEMMA SameHistory ==
  ASSUME HistoryIsTyped, UNCHANGED historyVars
  PROVE  HistoryIsTyped'
  BY DEF HistoryIsTyped, historyVars

LEMMA NewSolveTypes ==
  ASSUME NewSolve, child' \in Procs \cup {NoProc}
  PROVE  SolveIsTyped'
  BY EmptySeq DEF NewSolve, SolveIsTyped

LEMMA DiscardTypes ==
  ASSUME WorkersAreTyped, NEW p \in Procs, Discard(p)
  PROVE  WorkersAreTyped' /\ SolveIsTyped'
  <1>1. WorkersAreTyped'
    BY DEF WorkersAreTyped, CacheTypeOK, Discard, Nothing, Steps
  <1>2. SolveIsTyped'
    BY NewSolveTypes DEF Discard
  <1> QED BY <1>1, <1>2

LEMMA ReturnTypes ==
  ASSUME NEW a, Return(a)
  PROVE  BatchIsTyped'
  BY DEF Return, BatchIsTyped

\* What the batch was asked is a scenario while it is on.
LEMMA ScenarioIsAsked ==
  ASSUME GatheredIsOfScenario, at # "idle"
  PROVE  asked.scenario \in Scenarios /\ asked.rails \in SUBSET Ports
  BY DEF GatheredIsOfScenario

LEMMA BatchTypes ==
  ASSUME TypeOK, ChildIsAsked, GatheredIsOfScenario, Batch
  PROVE  TypeOK'
  <1> USE DEF historyVars
  <1>0. WorkersAreTyped /\ SolveIsTyped /\ BatchIsTyped /\ HistoryIsTyped
    BY TypesInParts
  <1>1. CASE Spawn
    <2>1. PICK p \in Procs :
            /\ At(p, "none")
            /\ Goto(p, "check")
            /\ port' = [port EXCEPT ![p] = NextRail]
            /\ dir' = [dir EXCEPT ![p] = "no result"]
            /\ request' = [request EXCEPT ![p] = Request(asked.scenario, NextRail)]
            /\ result' = [result EXCEPT ![p] = {}]
            /\ why' = [why EXCEPT ![p] = ""]
            /\ child' = p
            /\ lost' = lost \ {p}
      BY <1>1 DEF Spawn
    <2>2. NextRail \in Ports
      BY <1>0, <1>1, NextRailIsLeft DEF Spawn, BatchIsTyped
    <2>3. Request(asked.scenario, NextRail) \in Requests
      BY <1>1, <2>2, ScenarioIsAsked, RequestFacts DEF Spawn
    <2>4. WorkersAreTyped'
      BY <1>0, <1>1, <2>1, <2>2, <2>3
         DEF Spawn, Still, WorkersAreTyped, CacheTypeOK, prepareVars, doubts, Steps
    <2>5. SolveIsTyped'
      BY <1>1, <2>1, NewSolveTypes DEF Spawn
    <2>6. BatchIsTyped'
      BY <1>0, <1>1 DEF Spawn, BatchIsTyped
    <2>7. HistoryIsTyped'
      BY <1>0, <1>1, <2>1 DEF Spawn, HistoryIsTyped
    <2> QED BY <2>4, <2>5, <2>6, <2>7, TypesTogether
  <1>2. CASE FinishBatch
    BY <1>0, <1>2, SameWorkers, SameSolve, SameHistory, ReturnTypes, TypesTogether
       DEF FinishBatch
  <1>3. CASE TakeLine
    <2>1. SolveIsTyped'
      BY <1>0, <1>3, HeadTailProperties DEF TakeLine, SolveIsTyped
    <2>2. BatchIsTyped'
      BY <1>0, <1>3 DEF TakeLine, BatchIsTyped
    <2> QED BY <1>0, <1>3, <2>1, <2>2, SameWorkers, SameHistory, TypesTogether DEF TakeLine
  <1>4. CASE KillWorker
    BY <1>0, <1>4, ChildIsThere, DiscardTypes, ReturnTypes, SameHistory, TypesTogether
       DEF KillWorker
  <1>5. CASE FailSolve
    BY <1>0, <1>5, ChildIsThere, DiscardTypes, ReturnTypes, SameHistory, TypesTogether
       DEF FailSolve
  <1>6. CASE KeepReceipts
    <2>1. child \in Procs
      BY <1>6, ChildIsThere DEF KeepReceipts
    <2>2. WorkersAreTyped' /\ SolveIsTyped'
      BY <1>0, <1>6, <2>1, DiscardTypes DEF KeepReceipts
    <2>3. BatchIsTyped'
      BY <1>0, <1>6, <2>1 DEF KeepReceipts, BatchIsTyped, WorkersAreTyped
    <2> QED BY <1>0, <1>6, <2>2, <2>3, SameHistory, TypesTogether DEF KeepReceipts
  <1> QED BY <1>1, <1>2, <1>3, <1>4, <1>5, <1>6 DEF Batch

\* The window, the reader thread and the faults of the batch.
LEMMA RequestTypes ==
  ASSUME TypeOK, ChildIsAsked,
         \/ \E s \in Scenarios, A \in (SUBSET Ports) \ {{}} : Evaluate(s, A)
         \/ Cancel \/ Drain \/ FailSpawn \/ FailKeep \/ CrashApp
  PROVE  TypeOK'
  <1>0. WorkersAreTyped /\ SolveIsTyped /\ BatchIsTyped /\ HistoryIsTyped
    BY TypesInParts
  <1>1. CASE \E s \in Scenarios, A \in (SUBSET Ports) \ {{}} : Evaluate(s, A)
    <2>1. PICK s \in Scenarios, A \in (SUBSET Ports) \ {{}} : Evaluate(s, A)
      BY <1>1
    <2>2. BatchIsTyped'
      <3>1. CASE Preflight(s, A)
        BY <1>0, <2>1, <3>1 DEF Evaluate, BatchIsTyped
      <3>2. CASE ~Preflight(s, A)
        BY <2>1, <3>2, ReturnTypes DEF Evaluate
      <3> QED BY <3>1, <3>2
    <2> QED BY <1>0, <2>1, <2>2, SameWorkers, SameSolve, SameHistory, TypesTogether
            DEF Evaluate
  <1>2. CASE Cancel
    <2>1. BatchIsTyped'
      BY <1>0, <1>2 DEF Cancel, BatchIsTyped
    <2> QED BY <1>0, <1>2, <2>1, SameWorkers, SameSolve, SameHistory, TypesTogether
            DEF Cancel
  <1>3. CASE Drain
    <2>1. SolveIsTyped'
      <3>1. CASE pipe # <<>>
        <4>1. /\ Head(pipe) \in Codes \cup {"PROGRESS"}
              /\ Tail(pipe) \in Seq(Codes \cup {"PROGRESS"})
          BY <1>0, <3>1, HeadTailProperties DEF SolveIsTyped
        <4>2. Head(pipe) \in Codes => Append(lines, Head(pipe)) \in Seq(Codes \cup {Eof})
          BY <1>0, AppendProperties DEF SolveIsTyped
        <4> QED BY <1>0, <1>3, <3>1, <4>1, <4>2 DEF Drain, SolveIsTyped
      <3>2. CASE pipe = <<>>
        <4>1. Append(lines, Eof) \in Seq(Codes \cup {Eof})
          BY <1>0, AppendProperties DEF SolveIsTyped
        <4> QED BY <1>0, <1>3, <3>2, <4>1 DEF Drain, SolveIsTyped
      <3> QED BY <3>1, <3>2
    <2>2. BatchIsTyped'
      BY <1>0, <1>3 DEF Drain, BatchIsTyped, batchVars
    <2> QED BY <1>0, <1>3, <2>1, <2>2, SameWorkers, SameHistory, TypesTogether DEF Drain
  <1>4. CASE FailSpawn
    <2>1. WorkersAreTyped'
      BY <1>0, <1>4 DEF FailSpawn, WorkersAreTyped, CacheTypeOK, cacheVars, prepareVars,
                        doubts, workDirs
    <2>2. HistoryIsTyped'
      BY <1>0, <1>4 DEF FailSpawn, HistoryIsTyped
    <2> QED BY <1>0, <1>4, <2>1, <2>2, SameSolve, ReturnTypes, TypesTogether DEF FailSpawn
  <1>5. CASE FailKeep
    <2>1. child \in Procs
      BY <1>5, ChildIsThere DEF FailKeep
    <2>2. SolveIsTyped'
      BY <1>5, NewSolveTypes DEF FailKeep
    <2>3. HistoryIsTyped'
      BY <1>0, <1>5, <2>1 DEF FailKeep, HistoryIsTyped
    <2> QED BY <1>0, <1>5, <2>2, <2>3, SameWorkers, ReturnTypes, TypesTogether DEF FailKeep
  <1>6. CASE CrashApp
    <2>1. SolveIsTyped'
      BY <1>6, NewSolveTypes DEF CrashApp
    <2>2. lost' \subseteq Procs
      BY <1>0, <1>6 DEF CrashApp, HistoryIsTyped, SolveIsTyped
    <2>3. faults' \in 0..MaxFaults
      BY <1>0, <1>6, OneFaultMore, Zenon DEF CrashApp, HistoryIsTyped
    <2>4. HistoryIsTyped'
      BY <2>2, <2>3 DEF HistoryIsTyped
    <2> QED BY <1>0, <1>6, <2>1, <2>4, SameWorkers, ReturnTypes, TypesTogether DEF CrashApp
  <1> QED BY <1>1, <1>2, <1>3, <1>4, <1>5, <1>6

\* The user and the disk.
LEMMA EnvironmentTypes ==
  ASSUME TypeOK, ReplaceFile \/ SpoilEntry
  PROVE  TypeOK'
  <1>0. WorkersAreTyped /\ SolveIsTyped /\ BatchIsTyped /\ HistoryIsTyped
    BY TypesInParts
  <1>1. BatchIsTyped' /\ SolveIsTyped'
    BY <1>0, SameSolve DEF ReplaceFile, SpoilEntry, BatchIsTyped, batchVars
  <1>2. WorkersAreTyped'
    <2>1. CASE ReplaceFile
      <3>1. CacheTypeOK'
        BY <1>0, <2>1 DEF ReplaceFile, ReplaceSpd, WorkersAreTyped, CacheTypeOK,
                          prepareVars, Readers
      <3> QED BY <1>0, <2>1, <3>1 DEF ReplaceFile, WorkersAreTyped, workerVars, workDirs
    <2>2. CASE SpoilEntry
      <3>1. CacheTypeOK'
        BY <1>0, <2>2 DEF SpoilEntry, Spoil, WorkersAreTyped, CacheTypeOK, prepareVars
      <3> QED BY <1>0, <2>2, <3>1 DEF SpoilEntry, WorkersAreTyped, workerVars, workDirs
    <2> QED BY <2>1, <2>2
  <1>3. HistoryIsTyped'
    <2>1. CASE ReplaceFile
      <3>1. faults' \in 0..MaxFaults
        <4>1. CASE Readers = {}
          BY <1>0, <2>1, <4>1 DEF ReplaceFile, HistoryIsTyped
        <4>2. CASE Readers # {}
          BY <1>0, <2>1, <4>2, OneFaultMore, Zenon DEF ReplaceFile, HistoryIsTyped
        <4> QED BY <4>1, <4>2
      <3> QED BY <1>0, <2>1, <3>1 DEF ReplaceFile, HistoryIsTyped
    <2>2. CASE SpoilEntry
      <3>1. faults' \in 0..MaxFaults
        BY <1>0, <2>2, OneFaultMore, Zenon DEF SpoilEntry, HistoryIsTyped
      <3> QED BY <1>0, <2>2, <3>1 DEF SpoilEntry, HistoryIsTyped
    <2> QED BY <2>1, <2>2
  <1> QED BY <1>1, <1>2, <1>3, TypesTogether

LEMMA TypesAreKept ==
  ASSUME TypeOK, CacheInv, ChildIsAsked, GatheredIsOfScenario, [Next]_vars
  PROVE  TypeOK'
  <1>1. CASE Next
    <2>1. \A p \in Procs : WorkerIsSound(p)
      BY DEF CacheInv
    <2> QED BY <1>1, <2>1, WorkTypes, BatchTypes, RequestTypes, EnvironmentTypes DEF Next
  <1>2. CASE UNCHANGED vars
    BY <1>2 DEF vars, cacheVars, prepareVars, doubts, workerVars, workDirs, solveVars,
                batchVars, historyVars, TypeOK, CacheTypeOK
  <1> QED BY <1>1, <1>2

-----------------------------------------------------------------------------
(* The cache.                                                              *)

\* What a worker is known by does not change.
Same(q) ==
  /\ step'[q] = step[q] /\ port'[q] = port[q] /\ sha'[q] = sha[q] /\ got'[q] = got[q]
  /\ claim'[q] = claim[q] /\ request'[q] = request[q]
  /\ q \in misled' <=> q \in misled

LEMMA SameIsSound ==
  ASSUME NEW q, WorkerIsSound(q), Same(q), UNCHANGED spd
  PROVE  WorkerIsSound(q)'
  BY DEF WorkerIsSound, ReadsWhatItHashed, FileIsCurrent, InputsAreThere, Same, Expected

\* One worker moves and leaves the cache alone.
LEMMA OneMoves ==
  ASSUME CacheInv, NEW p \in Procs, \A q \in Procs \ {p} : Same(q),
         UNCHANGED <<spd, cached, doubtful>>, WorkerIsSound(p)'
  PROVE  CacheInv'
  <1>1. \A q \in Procs : WorkerIsSound(q)'
    BY SameIsSound DEF CacheInv
  <1>2. EntriesMatchTheirKey'
    BY DEF CacheInv, EntriesMatchTheirKey
  <1> QED BY <1>1, <1>2 DEF CacheInv

\* What a lookup returns is the design the worker hashed, or nothing, or it misleads.
LEMMA LookupFacts ==
  ASSUME CacheTypeOK, EntriesMatchTheirKey, NEW p \in Procs, sha[p] \in Designs,
         NEW i \in Items, NEW found \in Outcomes(p, i), Take(p, i, found)
  PROVE  /\ p \notin misled' => p \notin misled /\ found \in {sha[p], None}
         /\ \A q \in Procs \ {p} : q \in misled' <=> q \in misled
  <1>1. Key(p, i) \in Designs \X Items
    BY DEF Key
  <1> QED BY <1>1 DEF EntriesMatchTheirKey, Outcomes, Entry, Take, Key

\* A saved entry matches its key, or its worker was misled.
LEMMA SaveFacts ==
  ASSUME CacheTypeOK, EntriesMatchTheirKey, NEW p \in Procs, sha[p] \in Designs,
         ReadsWhatItHashed(p), NEW i \in Items, Save(p, i)
  PROVE  EntriesMatchTheirKey'
  <1>1. (p \notin misled => got[p][i] \in {sha[p], None}) /\ None \notin Designs
    BY EngineCacheAssumption DEF ReadsWhatItHashed
  <1>2. Key(p, i) = <<sha[p], i>> /\ Key(p, i) \in Designs \X Items
    BY DEF Key
  <1> QED BY <1>1, <1>2 DEF Save, CacheTypeOK, EntriesMatchTheirKey

\* What a step of prepare starts from.
Prepares(p) == step[p] \in Reading \cup {"keep"}

LEMMA PreparingFacts ==
  ASSUME CacheInv, NEW p \in Procs, Prepares(p)
  PROVE  /\ ReadsWhatItHashed(p) /\ InputsAreThere(p)
         /\ port[p] \in Ports /\ port[p] \in Items /\ request[p] \in Requests
         /\ sha[p] \in Designs /\ claim[p] = Expected(p)
         /\ p \notin misled =>
              /\ step[p] \in Reading => sha[p] = spd
              /\ claim[p] = sha[p]
              /\ \A i \in Items : got[p][i] \in {sha[p], None}
  BY ItemFacts DEF CacheInv, WorkerIsSound, ReadsWhatItHashed, FileIsCurrent, Prepares,
                   Reading, Hashed, Checked

LEMMA HashKeepsCache ==
  ASSUME CacheTypeOK, CacheInv, NEW p \in Procs, Hash(p), UNCHANGED workerVars
  PROVE  CacheInv'
  <1> USE DEF Hash, CacheTypeOK, workerVars, workDirs, doubts
  <1>1. /\ sha[p] = None /\ port[p] \in Ports /\ request[p] \in Requests
        /\ claim[p] = Expected(p)
        /\ p \notin misled => claim[p] = spd /\ \A i \in Items : got[p][i] = None
    BY DEF CacheInv, WorkerIsSound, ReadsWhatItHashed, FileIsCurrent, Checked
  <1>2. /\ sha'[p] = spd /\ step'[p] = "find" /\ port'[p] = port[p] /\ got'[p] = got[p]
        /\ claim'[p] = claim[p] /\ request'[p] = request[p] /\ spd' = spd
        /\ misled' = misled
    OBVIOUS
  <1>3. WorkerIsSound(p)'
    BY <1>1, <1>2 DEF WorkerIsSound, ReadsWhatItHashed, FileIsCurrent, InputsAreThere,
                      Hashed, Checked, Expected
  <1> QED BY <1>3, OneMoves DEF Same

\* A step of a worker that goes on with what it hashed.
LEMMA GoesOn ==
  ASSUME CacheInv, NEW p \in Procs, Prepares(p), UNCHANGED <<spd, port, sha, workerVars>>,
         step'[p] \in Reading \cup {"keep", "solve"},
         step'[p] \in Reading => step[p] \in Reading,
         p \notin misled' =>
           p \notin misled /\ \A i \in Items : got'[p][i] \in {sha[p], None},
         step'[p] \notin {"find", "extract"} => got'[p][port[p]] # None,
         step'[p] \in {"keep", "solve"} => \A l \in Need[port[p]] : got'[p][l] # None
  PROVE  WorkerIsSound(p)'
  BY PreparingFacts DEF WorkerIsSound, ReadsWhatItHashed, FileIsCurrent, InputsAreThere,
                        Reading, Hashed, Checked, Expected, workerVars, workDirs

LEMMA LoadExtractKeepsCache ==
  ASSUME CacheTypeOK, CacheInv, NEW p \in Procs, LoadExtract(p), UNCHANGED workerVars
  PROVE  CacheInv'
  <1> USE DEF LoadExtract, CacheTypeOK
  <1>0. Prepares(p) /\ step[p] \in Reading
    BY DEF Prepares, Reading
  <1>1. PICK found \in Outcomes(p, port[p]) :
          /\ Take(p, port[p], found)
          /\ Goto(p, IF found = None THEN "extract" ELSE "walk")
    OBVIOUS
  <1>2. /\ p \notin misled' => p \notin misled /\ found \in {sha[p], None}
        /\ \A q \in Procs \ {p} : q \in misled' <=> q \in misled
    BY <1>0, <1>1, PreparingFacts, LookupFacts DEF CacheInv
  <1>3. p \notin misled' =>
          p \notin misled /\ \A i \in Items : got'[p][i] \in {sha[p], None}
    BY <1>0, <1>1, <1>2, PreparingFacts DEF Take
  <1>4. /\ step'[p] = IF found = None THEN "extract" ELSE "walk"
        /\ got'[p][port[p]] = found
    BY <1>0, <1>1, PreparingFacts DEF Take
  <1>5. WorkerIsSound(p)'
    BY <1>0, <1>3, <1>4, GoesOn DEF Reading
  <1> QED BY <1>1, <1>2, <1>5, OneMoves DEF Same, Take, workerVars, workDirs

LEMMA ExtractKeepsCache ==
  ASSUME CacheTypeOK, CacheInv, NEW p \in Procs, Extract(p), UNCHANGED workerVars
  PROVE  CacheInv'
  <1> USE DEF Extract, CacheTypeOK, doubts
  <1>0. Prepares(p) /\ step[p] \in Reading
    BY DEF Prepares, Reading
  <1>1. p \notin misled => \A i \in Items : got'[p][i] \in {sha[p], None}
    BY <1>0, PreparingFacts
  <1>2. step'[p] = "save" /\ got'[p][port[p]] = spd /\ spd # None
    BY <1>0, PreparingFacts, EngineCacheAssumption
  <1>3. WorkerIsSound(p)'
    BY <1>0, <1>1, <1>2, GoesOn DEF Reading
  <1> QED BY <1>3, OneMoves DEF Same, workerVars, workDirs

\* A step of prepare that saves an entry.
LEMMA SavingKeepsCache ==
  ASSUME CacheTypeOK, CacheInv, NEW p \in Procs, UNCHANGED workerVars,
         SaveExtract(p) \/ SaveShapes(p)
  PROVE  CacheInv'
  <1> USE DEF SaveExtract, SaveShapes, CacheTypeOK
  <1>0. Prepares(p)
    BY DEF Prepares, Reading
  <1>1. PICK i \in Items : Save(p, i)
    BY <1>0, PreparingFacts DEF Items
  <1>2. EntriesMatchTheirKey'
    BY <1>0, <1>1, SaveFacts, PreparingFacts DEF CacheInv
  <1>3. /\ step'[p] \in {"walk", "keep", "solve"} /\ (At(p, "save") <=> step'[p] = "walk")
        /\ At(p, "save") \/ At(p, "keep")
    OBVIOUS
  <1>a. /\ UNCHANGED <<spd, port, sha, got, misled>>
        /\ step[p] \in Hashed \ {"find", "extract"} /\ (step'[p] \in Reading => At(p, "save"))
    BY <1>3 DEF Hashed, Reading
  <1>b. /\ got[p][port[p]] # None
        /\ step'[p] \in {"keep", "solve"} => \A l \in Need[port[p]] : got[p][l] # None
    BY <1>0, <1>3, <1>a, PreparingFacts DEF InputsAreThere, Hashed
  <1>c. p \notin misled => \A j \in Items : got[p][j] \in {sha[p], None}
    BY <1>0, PreparingFacts
  <1>4. WorkerIsSound(p)'
    BY <1>0, <1>3, <1>a, <1>b, <1>c, GoesOn DEF Reading
  <1>5. \A q \in Procs : WorkerIsSound(q)'
    BY <1>4, SameIsSound DEF Same, CacheInv, workerVars, workDirs
  <1> QED BY <1>2, <1>5 DEF CacheInv

LEMMA LoadShapesKeepsCache ==
  ASSUME CacheTypeOK, CacheInv, NEW p \in Procs, LoadShapes(p), UNCHANGED workerVars
  PROVE  CacheInv'
  <1> USE DEF LoadShapes, CacheTypeOK
  <1>0. Prepares(p) /\ step[p] \in Reading
    BY DEF Prepares, Reading
  <1>1. PICK l \in pending[p] : \E found \in Outcomes(p, l) : Take(p, l, found)
    OBVIOUS
  <1>2. PICK found \in Outcomes(p, l) : Take(p, l, found)
    BY <1>1
  <1>3. l \in Items /\ l # port[p]
    BY <1>0, PreparingFacts, EngineCacheAssumption DEF Items
  <1>4. /\ p \notin misled' => p \notin misled /\ found \in {sha[p], None}
        /\ \A q \in Procs \ {p} : q \in misled' <=> q \in misled
    BY <1>0, <1>2, <1>3, PreparingFacts, LookupFacts DEF CacheInv
  <1>5. p \notin misled' =>
          p \notin misled /\ \A i \in Items : got'[p][i] \in {sha[p], None}
    BY <1>0, <1>2, <1>4, PreparingFacts DEF Take
  <1>6. got'[p][port[p]] = got[p][port[p]] /\ got[p][port[p]] # None
    BY <1>0, <1>2, <1>3, PreparingFacts DEF Take, InputsAreThere, Hashed
  <1>7. WorkerIsSound(p)'
    BY <1>0, <1>5, <1>6, GoesOn
  <1> QED BY <1>2, <1>4, <1>7, OneMoves DEF Same, Take, workerVars, workDirs

LEMMA ReadShapesKeepsCache ==
  ASSUME CacheTypeOK, CacheInv, NEW p \in Procs, ReadShapes(p), UNCHANGED workerVars
  PROVE  CacheInv'
  <1> USE DEF ReadShapes, CacheTypeOK, doubts
  <1>0. Prepares(p) /\ step[p] \in Reading /\ spd # None
    BY EngineCacheAssumption DEF Prepares, Reading
  <1>1. \A i \in Items : got'[p][i] = IF i \in Missed(p) THEN spd ELSE got[p][i]
    OBVIOUS
  <1>2. p \notin misled => \A i \in Items : got'[p][i] \in {sha[p], None}
    BY <1>0, <1>1, PreparingFacts
  <1>3. got'[p][port[p]] # None
    BY <1>0, <1>1, PreparingFacts DEF InputsAreThere, Hashed
  <1>4. \A l \in Need[port[p]] : got'[p][l] # None
    <2>1. ASSUME NEW l \in Need[port[p]]
          PROVE  got'[p][l] # None
      <3>1. l \in Items
        BY <1>0, PreparingFacts, ItemFacts
      <3> QED BY <1>0, <1>1, <3>1 DEF Missed
    <2> QED BY <2>1
  <1>5. step'[p] \in {"keep", "solve"}
    OBVIOUS
  <1>6. WorkerIsSound(p)'
    BY <1>0, <1>2, <1>3, <1>4, <1>5, GoesOn
  <1> QED BY <1>6, OneMoves DEF Same, workerVars, workDirs

LEMMA PrepareKeepsCache ==
  ASSUME CacheTypeOK, CacheInv, NEW p \in Procs, PrepareRail(p)
  PROVE  CacheInv'
  BY HashKeepsCache, LoadExtractKeepsCache, ExtractKeepsCache, SavingKeepsCache,
     LoadShapesKeepsCache, ReadShapesKeepsCache DEF Prepare, PrepareRail

LEMMA CheckKeepsCache ==
  ASSUME TypeOK, CacheInv, NEW p \in Procs, CheckSpd(p)
  PROVE  CacheInv'
  <1> USE DEF CheckSpd, Refuse, prepareVars, doubts, workDirs
  <1>1. /\ step \in [Procs -> Steps] /\ claim \in [Procs -> Designs \cup {None}]
        /\ ReadsWhatItHashed(p)
    BY DEF TypeOK, CacheTypeOK, CacheInv, WorkerIsSound
  <1>2. \/ step'[p] = "hash" /\ claim'[p] = spd /\ spd = Expected(p)
        \/ step'[p] = "failed"
    BY <1>1
  <1>3. WorkerIsSound(p)'
    BY <1>1, <1>2 DEF WorkerIsSound, ReadsWhatItHashed, FileIsCurrent, InputsAreThere,
                      Reading, Hashed, Checked, Expected
  <1> QED BY <1>1, <1>3, OneMoves DEF Same

\* After prepare a worker reads neither the SPD nor the cache for its inputs.
LEMMA MovesOnKeepsCache ==
  ASSUME TypeOK, CacheInv, NEW p \in Procs,
         UNCHANGED <<spd, cached, port, prepareVars, doubts, claim, request>>,
         NEW next, Goto(p, next),
         \/ next \in {"failed", "hung"} /\ step[p] # "none"
         \/ step[p] = "solve" /\ next = "open"
         \/ step[p] = "open" /\ next = "write"
         \/ step[p] = "write" /\ next = "tell"
         \/ step[p] = "tell" /\ next = "exited"
  PROVE  CacheInv'
  <1>1. step'[p] = next /\ \A q \in Procs \ {p} : step'[q] = step[q]
    BY DEF TypeOK, CacheTypeOK
  <1>2. WorkerIsSound(p)
    BY DEF CacheInv
  <1>3. WorkerIsSound(p)'
    BY <1>1, <1>2 DEF WorkerIsSound, ReadsWhatItHashed, FileIsCurrent, InputsAreThere,
                      Reading, Hashed, Checked, Expected, prepareVars, doubts
  <1> QED BY <1>1, <1>3, OneMoves DEF Same, prepareVars, doubts

\* A worker that is over, or has not begun, holds nothing.
LEMMA EmptyIsSound ==
  ASSUME NEW p \in Procs, step'[p] \in {"none", "check"}, sha'[p] = None,
         p \notin misled',
         \A i \in Items : got'[p][i] = None,
         step'[p] = "check" => port'[p] \in Ports /\ request'[p] \in Requests
  PROVE  WorkerIsSound(p)'
  BY DEF WorkerIsSound, ReadsWhatItHashed, FileIsCurrent, InputsAreThere, Hashed, Checked,
         Reading

LEMMA DiscardKeepsCache ==
  ASSUME TypeOK, CacheInv, NEW p \in Procs, Discard(p) \/ ReapOrphan(p)
  PROVE  CacheInv'
  <1> USE DEF Discard, ReapOrphan, TypeOK, CacheTypeOK
  <1>1. step'[p] = "none" /\ sha'[p] = None /\ got'[p] = Nothing /\ p \notin misled'
    OBVIOUS
  <1>2. \A q \in Procs \ {p} : Same(q)
    BY DEF Same
  <1>3. UNCHANGED <<spd, cached, doubtful>>
    OBVIOUS
  <1>4. WorkerIsSound(p)'
    BY <1>1, EmptyIsSound DEF Nothing
  <1> QED BY <1>2, <1>3, <1>4, OneMoves

LEMMA SpawnKeepsCache ==
  ASSUME TypeOK, CacheInv, GatheredIsOfScenario, Spawn
  PROVE  CacheInv'
  <1>1. PICK p \in Procs :
          /\ At(p, "none")
          /\ Goto(p, "check")
          /\ port' = [port EXCEPT ![p] = NextRail]
          /\ request' = [request EXCEPT ![p] = Request(asked.scenario, NextRail)]
    BY DEF Spawn
  <1>2. NextRail \in Ports
    BY NextRailIsLeft DEF Spawn, TypeOK
  <1>3. Request(asked.scenario, NextRail) \in Requests
    BY <1>2, ScenarioIsAsked, RequestFacts DEF Spawn
  <1>4. UNCHANGED <<spd, cached, prepareVars, doubts, claim>>
    BY DEF Spawn, Still
  <1>5. /\ step'[p] = "check" /\ port'[p] = NextRail
        /\ request'[p] = Request(asked.scenario, NextRail)
        /\ \A q \in Procs \ {p} : Same(q)
    BY <1>1, <1>4 DEF TypeOK, CacheTypeOK, Same, prepareVars, doubts
  <1>6. sha'[p] = None /\ p \notin misled' /\ \A i \in Items : got'[p][i] = None
    BY <1>1, <1>4 DEF CacheInv, WorkerIsSound, ReadsWhatItHashed, prepareVars, doubts
  <1>7. WorkerIsSound(p)'
    BY <1>2, <1>3, <1>5, <1>6, EmptyIsSound
  <1> QED BY <1>4, <1>5, <1>7, OneMoves DEF doubts

LEMMA EnvironmentKeepsCache ==
  ASSUME TypeOK, CacheInv, ReplaceFile \/ SpoilEntry
  PROVE  CacheInv'
  <1> USE DEF prepareVars, workerVars, workDirs
  <1>1. CASE ReplaceFile
    <2>1. \A p \in Procs : WorkerIsSound(p)'
      BY <1>1 DEF ReplaceFile, ReplaceSpd, CacheInv, WorkerIsSound, ReadsWhatItHashed,
                  FileIsCurrent, InputsAreThere, Readers, Reading, Expected
    <2> QED BY <1>1, <2>1 DEF ReplaceFile, ReplaceSpd, CacheInv, EntriesMatchTheirKey
  <1>2. CASE SpoilEntry
    <2>1. \A p \in Procs : WorkerIsSound(p)'
      BY <1>2, SameIsSound DEF SpoilEntry, Spoil, CacheInv, Same
    <2>2. EntriesMatchTheirKey'
      BY <1>2, EngineCacheAssumption
         DEF SpoilEntry, Spoil, CacheInv, EntriesMatchTheirKey, TypeOK, CacheTypeOK
    <2> QED BY <2>1, <2>2 DEF CacheInv
  <1> QED BY <1>1, <1>2

LEMMA OthersKeepCache ==
  ASSUME CacheInv, UNCHANGED <<cacheVars, claim, request>>
  PROVE  CacheInv'
  <1>1. \A p \in Procs : WorkerIsSound(p)'
    BY SameIsSound DEF CacheInv, Same, cacheVars, prepareVars, doubts
  <1> QED BY <1>1 DEF CacheInv, EntriesMatchTheirKey, cacheVars, doubts

LEMMA WorkKeepsCache ==
  ASSUME TypeOK, CacheInv, NEW p \in Procs,
         Work(p) \/ Beat(p) \/ Die(p) \/ Hang(p)
  PROVE  CacheInv'
  <1> USE DEF workerVars, workDirs
  <1>1. CASE CheckSpd(p)
    BY <1>1, CheckKeepsCache
  <1>2. CASE PrepareRail(p)
    BY <1>2, PrepareKeepsCache DEF TypeOK
  <1>3. CASE GuardMemory(p)
    BY <1>3, MovesOnKeepsCache DEF GuardMemory, Refuse
  <1>4. CASE Solve(p)
    BY <1>4, MovesOnKeepsCache DEF Solve
  <1>5. CASE OpenResult(p)
    BY <1>5, MovesOnKeepsCache DEF OpenResult
  <1>6. CASE WriteResult(p)
    BY <1>6, MovesOnKeepsCache DEF WriteResult
  <1>7. CASE Exit(p)
    BY <1>7, MovesOnKeepsCache DEF Exit
  <1>8. CASE BreakPipe(p)
    BY <1>8, MovesOnKeepsCache DEF BreakPipe
  <1>9. CASE Beat(p)
    BY <1>9, OthersKeepCache DEF Beat
  <1>10. CASE Die(p)
    BY <1>10, MovesOnKeepsCache DEF Die, Runs
  <1>11. CASE Hang(p)
    BY <1>11, MovesOnKeepsCache DEF Hang, Runs
  <1> QED BY <1>1, <1>2, <1>3, <1>4, <1>5, <1>6, <1>7, <1>8, <1>9, <1>10, <1>11 DEF Work

LEMMA CacheIsKept ==
  ASSUME TypeOK, CacheInv, ChildIsAsked, GatheredIsOfScenario, [Next]_vars
  PROVE  CacheInv'
  <1> USE DEF workerVars, workDirs
  <1>1. CASE Batch
    <2>1. CASE Spawn
      BY <2>1, SpawnKeepsCache
    <2>2. CASE FinishBatch \/ TakeLine
      BY <2>2, OthersKeepCache DEF FinishBatch, TakeLine
    <2>3. CASE KillWorker \/ FailSolve \/ KeepReceipts
      BY <2>3, ChildIsThere, DiscardKeepsCache DEF KillWorker, FailSolve, KeepReceipts
    <2> QED BY <1>1, <2>1, <2>2, <2>3 DEF Batch
  <1>2. CASE \/ \E s \in Scenarios, A \in (SUBSET Ports) \ {{}} : Evaluate(s, A)
             \/ Cancel \/ Drain \/ FailSpawn \/ FailKeep \/ CrashApp
    <2>1. UNCHANGED <<cacheVars, claim, request>>
      BY <1>2 DEF Evaluate, Cancel, Drain, FailSpawn, FailKeep, CrashApp, workerVars,
                  workDirs
    <2> QED BY <2>1, OthersKeepCache
  <1>3. CASE UNCHANGED vars
    BY <1>3, OthersKeepCache DEF vars
  <1> QED BY <1>1, <1>2, <1>3, WorkKeepsCache, DiscardKeepsCache, EnvironmentKeepsCache
          DEF Next

-----------------------------------------------------------------------------
(* Who a worker belongs to.                                                *)

\* A step of a worker moves it alone, and neither starts nor removes it.
LEMMA WorkerMoves ==
  ASSUME TypeOK, NEW p \in Procs, Work(p) \/ Beat(p) \/ Die(p) \/ Hang(p)
  PROVE  /\ step[p] # "none" /\ step'[p] # "none"
         /\ \A q \in Procs \ {p} :
              Same(q) /\ dir'[q] = dir[q] /\ result'[q] = result[q] /\ why'[q] = why[q]
         /\ UNCHANGED <<port, request, child, lines, seen, batchVars, lost>>
  <1> USE DEF Same, prepareVars, doubts, TypeOK, CacheTypeOK, workerVars, workDirs,
              solveVars, batchVars, historyVars, Quiet, Say, Runs
  <1>1. CASE CheckSpd(p)
    BY <1>1 DEF CheckSpd, Refuse
  <1>2. CASE PrepareRail(p)
    <2>1. CASE Hash(p) \/ Extract(p) \/ ReadShapes(p)
      BY <1>2, <2>1 DEF PrepareRail, Hash, Extract, ReadShapes
    <2>2. CASE LoadExtract(p) \/ LoadShapes(p)
      BY <1>2, <2>2 DEF PrepareRail, LoadExtract, LoadShapes, Take
    <2>3. CASE SaveExtract(p) \/ SaveShapes(p)
      BY <1>2, <2>3 DEF PrepareRail, SaveExtract, SaveShapes
    <2> QED BY <1>2, <2>1, <2>2, <2>3 DEF PrepareRail, Prepare
  <1>3. CASE GuardMemory(p)
    BY <1>3 DEF GuardMemory, Refuse
  <1>4. CASE Solve(p)
    BY <1>4 DEF Solve
  <1>5. CASE OpenResult(p)
    BY <1>5 DEF OpenResult
  <1>6. CASE WriteResult(p)
    BY <1>6 DEF WriteResult
  <1>7. CASE Exit(p)
    BY <1>7 DEF Exit
  <1>8. CASE BreakPipe(p)
    BY <1>8 DEF BreakPipe
  <1>9. CASE Beat(p)
    BY <1>9 DEF Beat, cacheVars
  <1>10. CASE Die(p)
    BY <1>10 DEF Die
  <1>11. CASE Hang(p)
    BY <1>11 DEF Hang
  <1> QED BY <1>1, <1>2, <1>3, <1>4, <1>5, <1>6, <1>7, <1>8, <1>9, <1>10, <1>11 DEF Work

LEMMA DiscardFacts ==
  ASSUME TypeOK, NEW p \in Procs, Discard(p)
  PROVE  /\ step'[p] = "none" /\ dir'[p] = "none" /\ why'[p] = "" /\ child' = NoProc
         /\ \A q \in Procs \ {p} :
              step'[q] = step[q] /\ dir'[q] = dir[q] /\ why'[q] = why[q]
  BY DEF TypeOK, CacheTypeOK, Discard

LEMMA OwnersAreKept ==
  ASSUME TypeOK, EveryWorkerIsOwned, ChildIsAsked, [Next]_vars
  PROVE  EveryWorkerIsOwned'
  <1> USE DEF EveryWorkerIsOwned, workerVars, workDirs, solveVars, historyVars, cacheVars
  <1>0. step \in [Procs -> Steps] /\ DOMAIN dir = Procs
    BY DEF TypeOK, CacheTypeOK
  <1>1. CASE \E p \in Procs : Work(p) \/ Beat(p) \/ Die(p) \/ Hang(p)
    <2>1. PICK p \in Procs : Work(p) \/ Beat(p) \/ Die(p) \/ Hang(p)
      BY <1>1
    <2> QED BY <2>1, WorkerMoves DEF Same
  <1>2. CASE \E p \in Procs : ReapOrphan(p)
    <2>1. PICK p \in Procs : ReapOrphan(p)
      BY <1>2
    <2>2. step[p] # "none" /\ p # child
      BY <2>1 DEF ReapOrphan, Gone
    <2> QED BY <1>0, <2>1, <2>2 DEF ReapOrphan, Quiet
  <1>3. CASE Spawn
    <2>1. child = NoProc
      BY <1>3 DEF Spawn, ChildIsAsked
    <2>2. PICK p \in Procs : /\ Goto(p, "check")
                              /\ dir' = [dir EXCEPT ![p] = "no result"]
                              /\ child' = p
                              /\ lost' = lost \ {p}
      BY <1>3 DEF Spawn
    <2> QED BY <1>0, <2>1, <2>2, AdapterAssumption
  <1>4. CASE KillWorker \/ FailSolve \/ KeepReceipts
    BY <1>4, ChildIsThere, DiscardFacts DEF KillWorker, FailSolve, KeepReceipts
  <1>5. CASE FailKeep \/ CrashApp
    BY <1>5, AdapterAssumption DEF FailKeep, CrashApp
  <1>6. CASE FinishBatch \/ TakeLine \/ Cancel \/ Drain
    <2>1. UNCHANGED <<step, dir, lost, child>>
      BY <1>6 DEF FinishBatch, TakeLine, Cancel, Drain
    <2> QED BY <2>1
  <1>a. CASE FailSpawn
    BY <1>0, <1>a DEF FailSpawn
  <1>7. CASE \E s \in Scenarios, A \in (SUBSET Ports) \ {{}} : Evaluate(s, A)
    BY <1>7 DEF Evaluate
  <1>8. CASE ReplaceFile \/ SpoilEntry
    BY <1>8 DEF ReplaceFile, ReplaceSpd, SpoilEntry, Spoil
  <1>9. CASE UNCHANGED vars
    BY <1>9 DEF vars
  <1> QED BY <1>1, <1>2, <1>3, <1>4, <1>5, <1>6, <1>a, <1>7, <1>8, <1>9 DEF Next, Batch

-----------------------------------------------------------------------------
(* The result.                                                             *)

\* The result of a worker that is the same is the same.
LEMMA SameResult ==
  ASSUME NEW q, Same(q)
  PROVE  Result(q)' = Result(q)
  BY DEF Same, Result, Inputs, Wanted

LEMMA ResultOfOne ==
  ASSUME ResultIsOwn, NEW p \in Procs,
         \A q \in Procs \ {p} : Same(q) /\ dir'[q] = dir[q] /\ result'[q] = result[q],
         dir'[p] = "whole" =>
           step'[p] \in {"tell", "exited", "failed", "hung"} /\ result'[p] = Result(p)'
  PROVE  ResultIsOwn'
  <1>1. ASSUME NEW q \in Procs, dir'[q] = "whole"
        PROVE  step'[q] \in {"tell", "exited", "failed", "hung"} /\ result'[q] = Result(q)'
    <2>1. CASE q = p
      BY <1>1, <2>1
    <2>2. CASE q # p
      <3>1. Same(q) /\ dir'[q] = dir[q] /\ result'[q] = result[q]
        BY <2>2
      <3> QED BY <1>1, <3>1, SameResult DEF ResultIsOwn, Same
    <2> QED BY <2>1, <2>2
  <1> QED BY <1>1, Zenon DEF ResultIsOwn

LEMMA WorkKeepsResult ==
  ASSUME TypeOK, ResultIsOwn, NEW p \in Procs, Work(p) \/ Beat(p) \/ Die(p) \/ Hang(p)
  PROVE  ResultIsOwn'
  <1> DEFINE ends == {"tell", "exited", "failed", "hung"}
  <1>0. \A q \in Procs \ {p} : Same(q) /\ dir'[q] = dir[q] /\ result'[q] = result[q]
    BY WorkerMoves
  <1>1. step \in [Procs -> Steps] /\ DOMAIN dir = Procs /\ DOMAIN result = Procs
    BY DEF TypeOK, CacheTypeOK
  <1> USE DEF workerVars, workDirs, prepareVars, doubts, cacheVars
  <1>2. CASE step[p] \notin ends /\ dir'[p] = dir[p]
    BY <1>0, <1>2, ResultOfOne DEF ResultIsOwn
  <1>3. CASE OpenResult(p)
    <2>1. dir'[p] # "whole"
      BY <1>1, <1>3 DEF OpenResult
    <2> QED BY <1>0, <2>1, ResultOfOne
  <1>4. CASE WriteResult(p)
    <2>1. step'[p] = "tell" /\ result'[p] = Result(p)
      BY <1>1, <1>4 DEF WriteResult
    <2>2. UNCHANGED <<port, got, claim, request, misled>>
      BY <1>4 DEF WriteResult
    <2>3. Result(p)' = Result(p)
      BY <2>2 DEF Result, Inputs, Wanted
    <2> QED BY <1>0, <2>1, <2>3, ResultOfOne
  <1>5. CASE /\ step'[p] \in {step[p], "exited", "failed", "hung"}
             /\ UNCHANGED <<port, got, claim, request, misled, dir, result>>
    <2>1. Result(p)' = Result(p)
      BY <1>5 DEF Result, Inputs, Wanted
    <2>2. dir'[p] = "whole" =>
            step'[p] \in {"tell", "exited", "failed", "hung"} /\ result'[p] = Result(p)'
      BY <1>5, <2>1 DEF ResultIsOwn
    <2> QED BY <1>0, <2>2, ResultOfOne
  <1>6. CASE CheckSpd(p) \/ PrepareRail(p) \/ GuardMemory(p) \/ Solve(p)
    <2>1. step[p] \notin ends
      BY <1>6 DEF CheckSpd, PrepareRail, GuardMemory, Solve, Prepare, Hash, LoadExtract,
                  Extract, SaveExtract, LoadShapes, ReadShapes, SaveShapes
    <2>2. dir' = dir
      BY <1>6 DEF CheckSpd, PrepareRail, GuardMemory, Solve
    <2> QED BY <1>2, <2>1, <2>2
  <1>7. CASE Exit(p) \/ BreakPipe(p) \/ Beat(p) \/ Die(p) \/ Hang(p)
    <2>1. step'[p] \in {step[p], "exited", "failed", "hung"}
      <3>1. CASE Beat(p)
        BY <3>1 DEF Beat
      <3>2. CASE Exit(p) \/ BreakPipe(p) \/ Die(p) \/ Hang(p)
        <4>1. PICK next \in {"exited", "failed", "hung"} : Goto(p, next)
          BY <3>2 DEF Exit, BreakPipe, Die, Hang
        <4> QED BY <1>1, <4>1
      <3> QED BY <1>7, <3>1, <3>2
    <2>2. UNCHANGED <<port, got, claim, request, misled, dir, result>>
      BY <1>7 DEF Exit, BreakPipe, Beat, Die, Hang
    <2> QED BY <1>5, <2>1, <2>2
  <1> QED BY <1>3, <1>4, <1>6, <1>7 DEF Work

LEMMA ResultsAreKept ==
  ASSUME TypeOK, ResultIsOwn, ChildIsAsked, [Next]_vars
  PROVE  ResultIsOwn'
  <1> USE DEF workerVars, workDirs, prepareVars, doubts, cacheVars
  <1>0. /\ step \in [Procs -> Steps] /\ DOMAIN dir = Procs /\ DOMAIN result = Procs
        /\ DOMAIN port = Procs /\ DOMAIN got = Procs /\ DOMAIN sha = Procs
        /\ DOMAIN claim = Procs /\ DOMAIN request = Procs
    BY DEF TypeOK, CacheTypeOK
  <1>1. CASE \E p \in Procs : Work(p) \/ Beat(p) \/ Die(p) \/ Hang(p)
    BY <1>1, WorkKeepsResult
  <1>2. ASSUME NEW p \in Procs, Discard(p) \/ ReapOrphan(p)
        PROVE  ResultIsOwn'
    <2>1. \A q \in Procs \ {p} : Same(q) /\ dir'[q] = dir[q] /\ result'[q] = result[q]
      <3>1. CASE Discard(p)
        BY <1>0, <3>1 DEF Discard, Same
      <3>2. CASE ReapOrphan(p)
        BY <1>0, <3>2 DEF ReapOrphan, Same
      <3> QED BY <1>2, <3>1, <3>2
    <2>2. dir'[p] # "whole"
      BY <1>0, <1>2 DEF Discard, ReapOrphan
    <2> QED BY <2>1, <2>2, ResultOfOne
  <1>3. CASE KillWorker \/ FailSolve \/ KeepReceipts
    BY <1>2, <1>3, ChildIsThere DEF KillWorker, FailSolve, KeepReceipts
  <1>4. CASE Spawn
    <2>1. PICK p \in Procs :
            /\ Goto(p, "check")
            /\ port' = [port EXCEPT ![p] = NextRail]
            /\ dir' = [dir EXCEPT ![p] = "no result"]
            /\ request' = [request EXCEPT ![p] = Request(asked.scenario, NextRail)]
            /\ result' = [result EXCEPT ![p] = {}]
      BY <1>4 DEF Spawn
    <2>2. UNCHANGED <<sha, got, claim, misled>>
      BY <1>4 DEF Spawn, Still
    <2>3. \A q \in Procs \ {p} : Same(q) /\ dir'[q] = dir[q] /\ result'[q] = result[q]
      BY <1>0, <2>1, <2>2 DEF Same
    <2>4. dir'[p] # "whole"
      BY <1>0, <2>1
    <2> QED BY <2>3, <2>4, ResultOfOne
  <1>5. ASSUME UNCHANGED <<step, port, sha, got, misled, workerVars>>
        PROVE  ResultIsOwn'
    BY <1>5, SameResult DEF ResultIsOwn, Same
  <1>6. CASE FinishBatch \/ TakeLine \/ Cancel \/ Drain \/ FailKeep \/ CrashApp
    <2>1. UNCHANGED <<step, port, sha, got, misled, workerVars>>
      BY <1>6 DEF FinishBatch, TakeLine, Cancel, Drain, FailKeep, CrashApp
    <2> QED BY <1>5, <2>1
  <1>a. CASE FailSpawn
    <2>1. /\ UNCHANGED <<step, port, sha, got, misled, claim, request, result>>
          /\ \A p \in Procs : dir'[p] \in {dir[p], "left"}
      BY <1>0, <1>a DEF FailSpawn
    <2>2. \A p \in Procs : Result(p)' = Result(p)
      BY <2>1, SameResult DEF Same
    <2> QED BY <2>1, <2>2 DEF ResultIsOwn
  <1>7. CASE \E s \in Scenarios, A \in (SUBSET Ports) \ {{}} : Evaluate(s, A)
    BY <1>5, <1>7 DEF Evaluate
  <1>8. CASE SpoilEntry
    BY <1>5, <1>8 DEF SpoilEntry, Spoil
  <1>b. CASE ReplaceFile
    <2>1. UNCHANGED <<step, port, sha, got, workerVars>> /\ misled' = misled \cup Readers
      BY <1>b DEF ReplaceFile, ReplaceSpd
    <2>2. ASSUME NEW p \in Procs, dir[p] = "whole"
          PROVE  Result(p)' = Result(p)
      <3>1. p \notin Readers
        BY <2>2 DEF ResultIsOwn, Readers, Reading
      <3> QED BY <2>1, <3>1, SameResult DEF Same
    <2> QED BY <2>1, <2>2 DEF ResultIsOwn
  <1>9. CASE UNCHANGED vars
    BY <1>5, <1>9 DEF vars
  <1> QED BY <1>1, <1>2, <1>3, <1>4, <1>6, <1>a, <1>7, <1>8, <1>b, <1>9 DEF Next, Batch

-----------------------------------------------------------------------------
(* The batch.                                                              *)

\* A worker that is over has the numbers its request asked for.
LEMMA ResultDescribes ==
  ASSUME TypeOK, NEW p \in Procs, step[p] = "exited", WorkerIsSound(p),
         NEW s \in Scenarios, request[p] = Request(s, port[p]), CrossNet(s, port[p]) = {}
  PROVE  /\ \A r \in Result(p) : r.rail = port[p] /\ r.role \in Roles /\ Describes(r, s)
         /\ \A role \in Roles : \E r \in Result(p) : r.rail = port[p] /\ r.role = role
<1>1. /\ port[p] \in Ports /\ sha[p] \in Designs /\ claim[p] = Expected(p)
      /\ p \notin misled =>
           claim[p] = sha[p] /\ \A i \in Items : got[p][i] \in {sha[p], None}
      /\ got[p][port[p]] # None
      /\ \A l \in Need[port[p]] : got[p][l] # None
  BY DEF WorkerIsSound, ReadsWhatItHashed, InputsAreThere, Hashed, Checked
<1>2. claim[p] = s.source
  BY <1>1, RequestFacts DEF Expected
<1>3. p \notin misled => {got[p][i] : i \in Inputs(p)} = {s.source}
  <2>1. \A i \in Inputs(p) : i \in Items /\ got[p][i] # None
    BY <1>1, ItemFacts DEF Inputs
  <2>2. port[p] \in Inputs(p)
    BY DEF Inputs
  <2> QED
    BY <1>1, <1>2, <2>1, <2>2
<1>4. s.decaps \in [Refdes -> Decap]
  BY AdapterAssumption
<1>5. ASSUME NEW role \in Roles
      PROVE  MountedIn(SetDecaps(Wanted(p)[role], port[p])) =
               Populated(IF role = "baseline" THEN Original ELSE s.decaps, port[p])
  <2>1. CASE role = "baseline"
    <3>1. \A x \in Refdes : Original[x].rail = port[p] => Home[x] = port[p]
      BY DEF Original
    <3>2. Wanted(p)[role] = DecapConfig(Original, port[p])
      BY <1>1, <2>1, RequestFacts DEF Wanted
    <3> QED
      BY <2>1, <3>1, <3>2, OriginalIsTyped, MountsWhatIsPopulated
  <2>2. CASE role = "tuned"
    <3>1. \A x \in Refdes : s.decaps[x].rail = port[p] => Home[x] = port[p]
      BY DEF CrossNet
    <3>2. Wanted(p)[role] = DecapConfig(s.decaps, port[p])
      BY <1>1, <2>2, RequestFacts DEF Wanted
    <3> QED
      BY <1>4, <2>2, <3>1, <3>2, MountsWhatIsPopulated
  <2> QED
    BY <2>1, <2>2 DEF Roles
<1>6. ASSUME NEW r \in Result(p)
      PROVE  r.rail = port[p] /\ r.role \in Roles /\ Describes(r, s)
  <2>1. PICK role \in Roles :
          r = [rail |-> port[p], role |-> role, claim |-> claim[p],
               used |-> {got[p][i] : i \in Inputs(p)},
               config |-> SetDecaps(Wanted(p)[role], port[p]),
               trust |-> IF p \in misled THEN "misled" ELSE "sound"]
    BY DEF Result
  <2>2. /\ r.rail = port[p] /\ r.role = role /\ r.claim = s.source
        /\ r.trust = "sound" => r.used = {s.source}
        /\ r.config = SetDecaps(Wanted(p)[role], port[p])
    BY <1>2, <1>3, <2>1
  <2> QED
    BY <1>5, <2>2 DEF Describes
<1>7. ASSUME NEW role \in Roles
      PROVE  \E r \in Result(p) : r.rail = port[p] /\ r.role = role
  <2> DEFINE r == [rail |-> port[p], role |-> role, claim |-> claim[p],
                   used |-> {got[p][i] : i \in Inputs(p)},
                   config |-> SetDecaps(Wanted(p)[role], port[p]),
                   trust |-> IF p \in misled THEN "misled" ELSE "sound"]
  <2>1. r \in Result(p)
    BY DEF Result
  <2>2. r.rail = port[p] /\ r.role = role
    OBVIOUS
  <2> QED
    BY <2>1, <2>2
<1> QED
  BY <1>6, <1>7

\* Who is waited for, and what is done, are as they were.
LEMMA SameBatch ==
  ASSUME GatheredIsOfScenario, UNCHANGED <<asked, todo, gathered, child>>,
         at # "idle" <=> at' # "idle",
         child # NoProc => port'[child] = port[child]
  PROVE  GatheredIsOfScenario'
  <1>1. DoneRails' = DoneRails
    BY DEF DoneRails
  <1>2. \A a \in asked.rails : CrossNet(asked.scenario, a)' = CrossNet(asked.scenario, a)
    BY DEF CrossNet
  <1> QED BY <1>1, <1>2 DEF GatheredIsOfScenario

\* A batch that has not begun, and one that is over.
LEMMA IdleBatch ==
  ASSUME at' = "idle", gathered' = {}
  PROVE  GatheredIsOfScenario'
  BY DEF GatheredIsOfScenario

LEMMA EvaluateKeepsBatch ==
  ASSUME TypeOK, GatheredIsOfScenario, ChildIsAsked,
         NEW s \in Scenarios, NEW A \in (SUBSET Ports) \ {{}}, Evaluate(s, A)
  PROVE  GatheredIsOfScenario' /\ ChildIsAsked'
  <1>1. child = NoProc /\ child' = NoProc /\ gathered = {}
    BY DEF Evaluate, ChildIsAsked, GatheredIsOfScenario, solveVars
  <1>2. CASE Preflight(s, A)
    <2>1. /\ at' = "rail" /\ asked' = [scenario |-> s, rails |-> A] /\ todo' = A
          /\ gathered' = {}
      BY <1>1, <1>2 DEF Evaluate
    <2>2. DoneRails' = {}
      BY <2>1 DEF DoneRails
    <2>3. \A a \in A : CrossNet(s, a) = {}
      BY <1>2 DEF Preflight
    <2>4. asked'.scenario = s /\ asked'.rails = A
      BY <2>1
    <2>5. \A a \in A : CrossNet(asked.scenario, a)' = {}
      BY <2>3, <2>4 DEF CrossNet
    <2>6. Covers(gathered, DoneRails)'
      BY <2>1, <2>2 DEF Covers
    <2>7. asked' \in [scenario : Scenarios, rails : SUBSET Ports]
      BY <2>1
    <2>8. GatheredIsOfScenario'
      BY <2>1, <2>4, <2>5, <2>6, <2>7 DEF GatheredIsOfScenario
    <2> QED BY <1>1, <2>1, <2>8 DEF ChildIsAsked
  <1>3. CASE ~Preflight(s, A)
    BY <1>1, <1>3, IdleBatch DEF Evaluate, Return, ChildIsAsked
  <1> QED BY <1>2, <1>3

LEMMA SpawnKeepsBatch ==
  ASSUME TypeOK, GatheredIsOfScenario, ChildIsAsked, Spawn
  PROVE  GatheredIsOfScenario' /\ ChildIsAsked'
  <1>1. PICK p \in Procs :
          /\ Goto(p, "check")
          /\ port' = [port EXCEPT ![p] = NextRail]
          /\ request' = [request EXCEPT ![p] = Request(asked.scenario, NextRail)]
          /\ child' = p
    BY DEF Spawn
  <1>2. /\ at' = "wait" /\ todo' = todo \ {NextRail} /\ UNCHANGED <<asked, gathered>>
        /\ at = "rail" /\ child = NoProc /\ p # NoProc /\ NextRail \in todo
    BY NextRailIsLeft, AdapterAssumption DEF Spawn, ChildIsAsked
  <1>3. /\ step'[p] = "check" /\ port'[p] = NextRail
        /\ request'[p] = Request(asked.scenario, NextRail)
    BY <1>1 DEF TypeOK, CacheTypeOK
  <1>4. todo \subseteq asked.rails
    BY <1>2 DEF GatheredIsOfScenario
  <1>5. ChildIsAsked'
    <2>1. Request(asked.scenario, port[child])' = Request(asked.scenario, NextRail)
      BY <1>1, <1>2, <1>3
    <2> QED BY <1>1, <1>2, <1>3, <1>4, <2>1 DEF ChildIsAsked
  <1>6. DoneRails' = DoneRails
    BY <1>1, <1>2, <1>3, <1>4 DEF DoneRails
  <1>7. \A a \in asked.rails : CrossNet(asked.scenario, a)' = CrossNet(asked.scenario, a)
    BY <1>2 DEF CrossNet
  <1>8. GatheredIsOfScenario'
    BY <1>2, <1>4, <1>6, <1>7 DEF GatheredIsOfScenario
  <1> QED BY <1>5, <1>8

LEMMA KeepReceiptsKeepsBatch ==
  ASSUME TypeOK, CacheInv, ResultIsOwn, GatheredIsOfScenario, ChildIsAsked, KeepReceipts
  PROVE  GatheredIsOfScenario' /\ ChildIsAsked'
  <1> DEFINE s == asked.scenario
             a == port[child]
  <1>1. /\ at = "reap" /\ step[child] = "exited" /\ dir[child] = "whole"
        /\ gathered' = gathered \cup result[child]
        /\ at' = "rail" /\ child' = NoProc /\ UNCHANGED <<asked, todo>>
    BY DEF KeepReceipts, Succeeded, Discard
  <1>2. child \in Procs /\ child # NoProc
    BY <1>1, ChildIsThere, AdapterAssumption
  <1>3. s \in Scenarios /\ a \in asked.rails /\ a \notin todo /\ CrossNet(s, a) = {}
    BY <1>1 DEF ChildIsAsked, GatheredIsOfScenario
  <1>4. result[child] = Result(child) /\ request[child] = Request(s, a)
    BY <1>1, <1>2 DEF ResultIsOwn, ChildIsAsked
  <1>5. WorkerIsSound(child)
    BY <1>2 DEF CacheInv
  <1>6. /\ \A r \in result[child] : r.rail = a /\ r.role \in Roles /\ Describes(r, s)
        /\ \A role \in Roles : \E r \in result[child] : r.rail = a /\ r.role = role
    BY <1>1, <1>2, <1>3, <1>4, <1>5, ResultDescribes
  <1>7. DoneRails' = DoneRails \cup {a}
    BY <1>1, <1>2, <1>3 DEF DoneRails
  <1> HIDE DEF s, a
  <1>8. Covers(gathered, DoneRails)
    BY <1>1 DEF GatheredIsOfScenario
  <1>9. Covers(gathered', DoneRails')
    BY <1>1, <1>6, <1>7, <1>8 DEF Covers
  <1>10. \A r \in gathered' : Describes(r, s)
    BY <1>1, <1>6 DEF GatheredIsOfScenario, s
  <1>11. GatheredIsOfScenario'
    <2>1. \A b \in asked.rails : CrossNet(asked.scenario, b)' = CrossNet(asked.scenario, b)
      BY <1>1 DEF CrossNet
    <2>2. \A r \in gathered' : Describes(r, asked.scenario)'
      BY <1>1, <1>10 DEF s, Describes
    <2> QED BY <1>1, <1>9, <2>1, <2>2 DEF GatheredIsOfScenario, Covers
  <1> QED BY <1>1, <1>11 DEF ChildIsAsked

LEMMA BatchIsKept ==
  ASSUME TypeOK, CacheInv, ResultIsOwn, GatheredIsOfScenario, ChildIsAsked, [Next]_vars
  PROVE  GatheredIsOfScenario' /\ ChildIsAsked'
  <1>0. /\ step \in [Procs -> Steps] /\ DOMAIN port = Procs /\ DOMAIN request = Procs
        /\ child # NoProc => child \in Procs
    BY DEF TypeOK, CacheTypeOK
  <1>1. ASSUME at' = "idle", gathered' = {}, child' = NoProc
        PROVE  GatheredIsOfScenario' /\ ChildIsAsked'
    BY <1>1, IdleBatch DEF ChildIsAsked
  <1>2. ASSUME UNCHANGED <<asked, todo, gathered, child>>,
               at' = at \/ (at = "wait" /\ at' = "reap"),
               child # NoProc =>
                 /\ step'[child] # "none" /\ port'[child] = port[child]
                 /\ request'[child] = request[child]
        PROVE  GatheredIsOfScenario' /\ ChildIsAsked'
    <2>1. GatheredIsOfScenario'
      BY <1>2, SameBatch
    <2>2. CASE child # NoProc
      <3>1. Request(asked.scenario, port[child])' = Request(asked.scenario, port[child])
        BY <1>2, <2>2
      <3> QED BY <1>2, <2>1, <2>2, <3>1 DEF ChildIsAsked
    <2>3. CASE child = NoProc
      BY <1>2, <2>1, <2>3 DEF ChildIsAsked
    <2> QED BY <2>2, <2>3
  <1>3. CASE \E p \in Procs : Work(p) \/ Beat(p) \/ Die(p) \/ Hang(p)
    <2>1. PICK p \in Procs : Work(p) \/ Beat(p) \/ Die(p) \/ Hang(p)
      BY <1>3
    <2>2. /\ step'[p] # "none"
          /\ \A q \in Procs \ {p} : step'[q] = step[q]
          /\ UNCHANGED <<port, request, child, asked, todo, gathered, at>>
      BY <2>1, WorkerMoves DEF Same, batchVars
    <2>3. child # NoProc => step'[child] # "none"
      BY <1>0, <2>2 DEF ChildIsAsked
    <2> QED BY <1>2, <2>2, <2>3
  <1>4. CASE \E p \in Procs : ReapOrphan(p)
    <2>1. PICK p \in Procs : ReapOrphan(p)
      BY <1>4
    <2>2. UNCHANGED <<child, asked, todo, gathered, at>>
      BY <2>1 DEF ReapOrphan, Quiet, solveVars, batchVars
    <2>3. child # NoProc =>
            /\ step'[child] = step[child] /\ port'[child] = port[child]
            /\ request'[child] = request[child]
      BY <1>0, <2>1 DEF ReapOrphan
    <2> QED BY <1>2, <2>2, <2>3 DEF ChildIsAsked
  <1>5. CASE KillWorker \/ FailSolve \/ FailKeep \/ CrashApp
    <2>1. at' = "idle" /\ gathered' = {} /\ child' = NoProc
      BY <1>5 DEF KillWorker, FailSolve, FailKeep, CrashApp, Return, Discard
    <2> QED BY <1>1, <2>1
  <1>6. CASE FinishBatch \/ FailSpawn
    <2>1. at = "rail" /\ at' = "idle" /\ gathered' = {} /\ child' = child
      BY <1>6 DEF FinishBatch, FailSpawn, Return, solveVars
    <2> QED BY <1>1, <2>1 DEF ChildIsAsked
  <1>7. CASE TakeLine \/ Cancel \/ Drain
    <2>1. /\ UNCHANGED <<asked, todo, gathered, child, step, port, request>>
          /\ at' = at \/ (at = "wait" /\ at' = "reap")
      BY <1>7 DEF TakeLine, Cancel, Drain, cacheVars, workerVars, workDirs, solveVars,
                  batchVars
    <2> QED BY <1>2, <2>1 DEF ChildIsAsked
  <1>8. CASE ReplaceFile \/ SpoilEntry \/ UNCHANGED vars
    <2>1. UNCHANGED <<asked, todo, gathered, child, step, port, request, at>>
      BY <1>8 DEF ReplaceFile, ReplaceSpd, SpoilEntry, Spoil, vars, cacheVars, workerVars,
                  workDirs, solveVars, batchVars
    <2> QED BY <1>2, <2>1 DEF ChildIsAsked
  <1> QED BY <1>3, <1>4, <1>5, <1>6, <1>7, <1>8, EvaluateKeepsBatch, SpawnKeepsBatch,
             KeepReceiptsKeepsBatch DEF Next, Batch

LEMMA AnswerIsKept ==
  ASSUME TypeOK, GatheredIsOfScenario, ChildIsAsked, AnswerInv, [Next]_vars
  PROVE  AnswerInv'
  <1>1. ASSUME UNCHANGED answer
        PROVE  AnswerInv'
    BY <1>1 DEF AnswerInv, Covers, Describes
  <1>2. ASSUME answer'.kind # "done"
        PROVE  AnswerInv'
    BY <1>2 DEF AnswerInv
  <1>3. \A kind : Ended(kind).kind = kind
    BY DEF Ended, NoAnswer
  <1>4. CASE \E p \in Procs : Work(p) \/ Beat(p) \/ Die(p) \/ Hang(p)
    BY <1>1, <1>4, WorkerMoves DEF batchVars
  <1>5. CASE KillWorker \/ FailKeep \/ FailSpawn
    BY <1>2, <1>3, <1>5 DEF KillWorker, FailKeep, FailSpawn, Return
  <1>6. CASE FailSolve
    <2>1. [Ended("failed") EXCEPT !.code = CodeSeen].kind = "failed"
      BY DEF Ended, NoAnswer
    <2> QED BY <1>2, <1>6, <2>1 DEF FailSolve, Return
  <1>7. CASE CrashApp
    BY <1>2, <1>7 DEF CrashApp, Return, NoAnswer
  <1>8. CASE FinishBatch
    <2>1. CASE cancelled
      BY <1>2, <1>3, <1>8, <2>1 DEF FinishBatch, Return
    <2>2. CASE ~cancelled
      <3>1. /\ at = "rail" /\ todo = {}
            /\ answer' = [kind |-> "done", code |-> "", scenario |-> asked.scenario,
                          rails |-> asked.rails, receipts |-> gathered]
        BY <1>8, <2>2 DEF FinishBatch, Return
      <3>2. /\ answer'.scenario = asked.scenario /\ answer'.rails = asked.rails
            /\ answer'.receipts = gathered
        BY <3>1
      <3>3. DoneRails = asked.rails
        BY <3>1 DEF DoneRails, ChildIsAsked
      <3>4. Covers(gathered, asked.rails) /\ \A r \in gathered : Describes(r, asked.scenario)
        BY <3>1, <3>3 DEF GatheredIsOfScenario
      <3> QED BY <3>2, <3>4 DEF AnswerInv
    <2> QED BY <2>1, <2>2
  <1>9. CASE \E s \in Scenarios, A \in (SUBSET Ports) \ {{}} : Evaluate(s, A)
    <2>1. answer' \in {NoAnswer, Ended("blocked")}
      BY <1>9 DEF Evaluate, Return
    <2>2. NoAnswer.kind # "done"
      BY DEF NoAnswer
    <2> QED BY <1>2, <1>3, <2>1, <2>2
  <1>10. CASE \/ Spawn \/ TakeLine \/ KeepReceipts \/ Cancel \/ Drain \/ ReplaceFile
              \/ SpoilEntry \/ UNCHANGED vars
    <2>1. UNCHANGED answer
      BY <1>10 DEF Spawn, TakeLine, KeepReceipts, Cancel, Drain, ReplaceFile, SpoilEntry,
                   vars, batchVars
    <2> QED BY <1>1, <2>1
  <1>11. CASE \E p \in Procs : ReapOrphan(p)
    BY <1>1, <1>11 DEF ReapOrphan, Quiet, batchVars
  <1> QED BY <1>4, <1>5, <1>6, <1>7, <1>8, <1>9, <1>10, <1>11 DEF Next, Batch

-----------------------------------------------------------------------------
(* What the worker says.                                                   *)

LEMMA NothingInEmpty ==
  ASSUME NEW c
  PROVE  ~In(<<>>, c)
  BY EmptySeq DEF In

LEMMA NothingAtEmpty ==
  ASSUME NEW s, s = <<>>
  PROVE  \A i \in 1..Len(s) : FALSE
<1>1. Len(s) = 0
  BY EmptySeq
<1> QED
  BY <1>1

LEMMA AppendedFacts ==
  ASSUME NEW S, NEW s \in Seq(S), NEW e \in S
  PROVE  /\ Len(s) \in Nat /\ Len(Append(s, e)) = Len(s) + 1
         /\ \A i \in 1..Len(s) : Append(s, e)[i] = s[i]
         /\ Append(s, e)[Len(s) + 1] = e
  BY LenProperties, AppendProperties

LEMMA TakenFacts ==
  ASSUME NEW S, NEW s \in Seq(S), s # <<>>
  PROVE  /\ Len(s) \in Nat /\ Len(s) >= 1 /\ Len(Tail(s)) = Len(s) - 1
         /\ Head(s) = s[1]
         /\ \A i \in 1..Len(s) - 1 : Tail(s)[i] = s[i + 1]
         /\ Len(s) = 1 => Tail(s) = <<>>
<1>1. /\ Len(s) \in Nat /\ Len(s) >= 1 /\ Len(Tail(s)) = Len(s) - 1
      /\ Head(s) = s[1]
      /\ \A i \in 1..Len(s) - 1 : Tail(s)[i] = s[i + 1]
      /\ Tail(s) \in Seq(S)
  BY EmptySeq, LenProperties, HeadTailProperties
<1>2. Len(Tail(s)) = 0 => Tail(s) = <<>>
  BY <1>1, EmptySeq
<1> QED
  BY <1>1, <1>2

LEMMA InAppended ==
  ASSUME NEW S, NEW s \in Seq(S), NEW e \in S, NEW c
  PROVE  In(Append(s, e), c) <=> In(s, c) \/ c = e
<1>1. /\ Len(s) \in Nat /\ Len(Append(s, e)) = Len(s) + 1
      /\ \A i \in 1..Len(s) : Append(s, e)[i] = s[i]
      /\ Append(s, e)[Len(s) + 1] = e
  BY AppendedFacts
<1> DEFINE t == Append(s, e)
<1> HIDE DEF t
<1>2. In(t, c) <=> In(s, c) \/ c = e
  BY <1>1 DEF In, t
<1> QED
  BY <1>2 DEF t

LEMMA InTaken ==
  ASSUME NEW S, NEW s \in Seq(S), s # <<>>, NEW c
  PROVE  In(s, c) <=> c = Head(s) \/ In(Tail(s), c)
<1>1. /\ Len(s) \in Nat /\ Len(s) >= 1 /\ Len(Tail(s)) = Len(s) - 1
      /\ Head(s) = s[1]
      /\ \A i \in 1..Len(s) - 1 : Tail(s)[i] = s[i + 1]
  BY TakenFacts
<1>2. ASSUME In(s, c)
      PROVE  c = Head(s) \/ In(Tail(s), c)
  <2>1. PICK i \in 1..Len(s) : s[i] = c
    BY <1>2 DEF In
  <2>2. CASE i # 1
    <3>1. i - 1 \in 1..Len(Tail(s)) /\ Tail(s)[i - 1] = c
      BY <1>1, <2>1, <2>2
    <3> QED
      BY <3>1 DEF In
  <2> QED
    BY <1>1, <2>1, <2>2
<1>3. ASSUME c = Head(s)
      PROVE  In(s, c)
  BY <1>1, <1>3 DEF In
<1>4. ASSUME In(Tail(s), c)
      PROVE  In(s, c)
  <2>1. PICK i \in 1..Len(Tail(s)) : Tail(s)[i] = c
    BY <1>4 DEF In
  <2>2. i + 1 \in 1..Len(s) /\ s[i + 1] = c
    BY <1>1, <2>1
  <2> QED
    BY <2>2 DEF In
<1> QED
  BY <1>2, <1>3, <1>4

\* A worker that is gone says nothing more; a code is the last thing it says.
LEMMA WorkerSpeaks ==
  ASSUME TypeOK, NEW p \in Procs, Work(p) \/ Beat(p) \/ Die(p) \/ Hang(p)
  PROVE  /\ ~Gone(p)
         /\ \/ UNCHANGED <<pipe, why>>
            \/ p = child /\ pipe' = Append(pipe, "PROGRESS") /\ why' = why
            \/ \E code \in Codes :
                 /\ p = child /\ pipe' = Append(pipe, code)
                 /\ why'[p] = code /\ step'[p] = "failed"
  <1> USE DEF TypeOK, CacheTypeOK, workerVars, workDirs, solveVars, Quiet, Say, Runs, Gone
  <1>1. CASE CheckSpd(p)
    BY <1>1 DEF CheckSpd, Refuse, Codes
  <1>2. CASE PrepareRail(p)
    BY <1>2 DEF PrepareRail, Prepare, Hash, LoadExtract, Extract, SaveExtract, LoadShapes,
                ReadShapes, SaveShapes, Take
  <1>3. CASE GuardMemory(p)
    BY <1>3 DEF GuardMemory, Refuse, Codes
  <1>4. CASE Solve(p)
    BY <1>4 DEF Solve
  <1>5. CASE OpenResult(p)
    BY <1>5 DEF OpenResult
  <1>6. CASE WriteResult(p)
    BY <1>6 DEF WriteResult
  <1>7. CASE Exit(p)
    BY <1>7 DEF Exit
  <1>8. CASE BreakPipe(p)
    BY <1>8 DEF BreakPipe
  <1>9. CASE Beat(p)
    BY <1>9 DEF Beat
  <1>10. CASE Die(p)
    BY <1>10 DEF Die
  <1>11. CASE Hang(p)
    BY <1>11 DEF Hang
  <1> QED BY <1>1, <1>2, <1>3, <1>4, <1>5, <1>6, <1>7, <1>8, <1>9, <1>10, <1>11 DEF Work

LEMMA LineFacts ==
  ASSUME TypeOK
  PROVE  /\ pipe \in Seq(Codes \cup {"PROGRESS"}) /\ lines \in Seq(Codes \cup {Eof})
         /\ why \in [Procs -> Codes \cup {""}] /\ seen \subseteq Codes
         /\ "PROGRESS" \notin Codes /\ Eof \notin Codes /\ "" \notin Codes
  BY DEF TypeOK, Codes, Eof

LEMMA WorkKeepsOutput ==
  ASSUME TypeOK, OutputInv, ChildIsAsked, NEW p \in Procs,
         Work(p) \/ Beat(p) \/ Die(p) \/ Hang(p)
  PROVE  OutputInv'
  <1>1. /\ ~Gone(p)
        /\ \A q \in Procs \ {p} : step'[q] = step[q] /\ why'[q] = why[q]
        /\ UNCHANGED <<child, lines, seen, at>>
    BY WorkerSpeaks, WorkerMoves DEF Same, batchVars
  <1>2. why[p] = ""
    BY <1>1 DEF OutputInv, CodeMeansFailure, Gone
  <1>3. CASE UNCHANGED <<pipe, why>>
    <2>1. CodeMeansFailure'
      BY <1>1, <1>2, <1>3 DEF OutputInv, CodeMeansFailure
    <2>2. CodeIsOnItsWay'
      BY <1>1, <1>3 DEF OutputInv, CodeIsOnItsWay, Told
    <2>3. EndComesLast'
      <3>1. Gone(child) /\ child \in Procs => Gone(child)'
        BY <1>1 DEF Gone
      <3> QED BY <1>1, <1>3, <3>1, ChildIsThere DEF OutputInv, EndComesLast
    <2> QED BY <2>1, <2>2, <2>3 DEF OutputInv
  <1>4. ASSUME p = child, NEW line \in Codes \cup {"PROGRESS"}, pipe' = Append(pipe, line)
        PROVE  /\ \A c \in Codes : Told(c)' <=> Told(c) \/ c = line
               /\ EndComesLast'
    <2>0. pipe \in Seq(Codes \cup {"PROGRESS"})
      BY LineFacts
    <2>1. \A c : In(pipe', c) <=> In(pipe, c) \/ c = line
      BY <1>4, <2>0, InAppended
    <2>2. \A c \in Codes : Told(c)' <=> Told(c) \/ c = line
      BY <1>1, <2>1 DEF Told
    <2>3. ~In(lines, Eof) /\ at # "reap"
      BY <1>1, <1>4 DEF OutputInv, EndComesLast
    <2>4. EndComesLast'
      BY <1>1, <2>3 DEF OutputInv, EndComesLast
    <2> QED BY <2>2, <2>4
  <1>5. CASE p = child /\ pipe' = Append(pipe, "PROGRESS") /\ why' = why
    <2>1. (\A c \in Codes : Told(c)' <=> Told(c)) /\ EndComesLast'
      BY <1>4, <1>5, LineFacts
    <2>2. CodeIsOnItsWay'
      BY <1>1, <1>5, <2>1 DEF OutputInv, CodeIsOnItsWay
    <2>3. CodeMeansFailure'
      BY <1>1, <1>2, <1>5 DEF OutputInv, CodeMeansFailure
    <2> QED BY <2>1, <2>2, <2>3 DEF OutputInv
  <1>6. ASSUME NEW code \in Codes, p = child, pipe' = Append(pipe, code),
               why'[p] = code, step'[p] = "failed"
        PROVE  OutputInv'
    <2>1. (\A c \in Codes : Told(c)' <=> Told(c) \/ c = code) /\ EndComesLast'
      BY <1>4, <1>6
    <2>2. CodeIsOnItsWay'
      BY <1>1, <1>2, <1>6, <2>1, LineFacts DEF OutputInv, CodeIsOnItsWay
    <2>3. CodeMeansFailure'
      BY <1>1, <1>6 DEF OutputInv, CodeMeansFailure
    <2> QED BY <2>1, <2>2, <2>3 DEF OutputInv
  <1> QED BY <1>3, <1>5, <1>6, WorkerSpeaks

\* The queue after a line more.
LEMMA LineQueued ==
  ASSUME lines \in Seq(Codes \cup {Eof}), NEW e \in Codes \cup {Eof}
  PROVE  /\ Len(lines) \in Nat /\ Len(Append(lines, e)) = Len(lines) + 1
         /\ \A i \in 1..Len(lines) : Append(lines, e)[i] = lines[i]
         /\ \A c : In(Append(lines, e), c) <=> In(lines, c) \/ c = e
<1> DEFINE S == Codes \cup {Eof}
<1>1. lines \in Seq(S) /\ e \in S
  OBVIOUS
<1> HIDE DEF S
<1>2. /\ Len(lines) \in Nat /\ Len(Append(lines, e)) = Len(lines) + 1
      /\ \A i \in 1..Len(lines) : Append(lines, e)[i] = lines[i]
  BY <1>1, AppendedFacts
<1>3. ASSUME NEW c
      PROVE  In(Append(lines, e), c) <=> In(lines, c) \/ c = e
  BY <1>1, InAppended
<1> QED
  BY <1>2, <1>3

LEMMA DrainKeepsOutput ==
  ASSUME TypeOK, OutputInv, ChildIsAsked, Drain
  PROVE  OutputInv'
  <1>1. UNCHANGED <<child, seen, why, step, at>>
    BY DEF Drain, cacheVars, workerVars, batchVars
  <1>2. CodeMeansFailure'
    BY <1>1 DEF OutputInv, CodeMeansFailure
  <1>3. CASE pipe # <<>>
    <2>1. ~In(lines, Eof) /\ at # "reap"
      BY <1>3 DEF OutputInv, EndComesLast
    <2>2. /\ pipe' = Tail(pipe)
          /\ lines' = IF Head(pipe) \in Codes THEN Append(lines, Head(pipe)) ELSE lines
      BY <1>3 DEF Drain
    <2>3. \A c : In(pipe, c) <=> c = Head(pipe) \/ In(pipe', c)
      BY <1>3, <2>2, LineFacts, InTaken
    <2>4. \A c : In(lines', c) <=> In(lines, c) \/ (Head(pipe) \in Codes /\ c = Head(pipe))
      <3>1. CASE Head(pipe) \in Codes
        <4>1. \A c : In(Append(lines, Head(pipe)), c) <=> In(lines, c) \/ c = Head(pipe)
          BY <3>1, LineFacts, LineQueued
        <4> QED BY <2>2, <3>1, <4>1
      <3>2. CASE Head(pipe) \notin Codes
        BY <2>2, <3>2
      <3> QED BY <3>1, <3>2
    <2>5. \A c \in Codes : Told(c)' <=> Told(c)
      BY <1>1, <2>3, <2>4 DEF Told
    <2>6. ~In(lines', Eof)
      <3>1. Head(pipe) \in Codes => Head(pipe) # Eof
        BY LineFacts
      <3> QED BY <2>1, <2>4, <3>1
    <2>7. EndComesLast'
      BY <1>1, <2>1, <2>6 DEF EndComesLast, In
    <2>8. CodeIsOnItsWay'
      BY <1>1, <2>5 DEF OutputInv, CodeIsOnItsWay
    <2> QED BY <1>2, <2>7, <2>8 DEF OutputInv
  <1>4. CASE pipe = <<>>
    <2>1. /\ Gone(child) /\ at = "wait" /\ ~In(lines, Eof)
          /\ lines' = Append(lines, Eof) /\ pipe' = pipe
      <3>1. DOMAIN lines = 1..Len(lines)
        BY LineFacts, LenProperties
      <3> QED BY <1>4, <3>1 DEF Drain, In
    <2>2. \A c : In(lines', c) <=> In(lines, c) \/ c = Eof
      <3>1. \A c : In(Append(lines, Eof), c) <=> In(lines, c) \/ c = Eof
        BY LineFacts, LineQueued
      <3> QED BY <2>1, <3>1
    <2>3. \A c \in Codes : Told(c)' <=> Told(c)
      BY <1>1, <2>1, <2>2, LineFacts DEF Told
    <2>4. \A i \in 1..Len(lines') : lines'[i] = Eof => i = Len(lines')
      <3>1. /\ Len(lines) \in Nat /\ Len(lines') = Len(lines) + 1
            /\ \A i \in 1..Len(lines) : lines'[i] = lines[i]
        <4>1. /\ Len(lines) \in Nat /\ Len(Append(lines, Eof)) = Len(lines) + 1
              /\ \A i \in 1..Len(lines) : Append(lines, Eof)[i] = lines[i]
          BY LineFacts, LineQueued
        <4> QED BY <2>1, <4>1
      <3>2. \A i \in 1..Len(lines) : lines[i] # Eof
        BY <2>1 DEF In
      <3> QED BY <3>1, <3>2
    <2>5. Gone(child)'
      BY <1>1, <2>1 DEF Gone
    <2>6. EndComesLast'
      BY <1>1, <1>4, <2>1, <2>4, <2>5 DEF EndComesLast
    <2>7. CodeIsOnItsWay'
      BY <1>1, <2>3 DEF OutputInv, CodeIsOnItsWay
    <2> QED BY <1>2, <2>6, <2>7 DEF OutputInv
  <1> QED BY <1>3, <1>4

LEMMA TakeLineKeepsOutput ==
  ASSUME TypeOK, OutputInv, ChildIsAsked, TakeLine
  PROVE  OutputInv'
  <1>1. /\ UNCHANGED <<child, pipe, why, step>>
        /\ at = "wait" /\ lines # <<>> /\ lines' = Tail(lines)
    BY DEF TakeLine, cacheVars, workerVars
  <1>2. CodeMeansFailure'
    BY <1>1 DEF OutputInv, CodeMeansFailure
  <1>3. \A c : In(lines, c) <=> c = Head(lines) \/ In(lines', c)
    BY <1>1, LineFacts, InTaken
  <1>4. /\ Len(lines) \in Nat /\ Len(lines) >= 1 /\ Len(lines') = Len(lines) - 1
        /\ Head(lines) = lines[1]
        /\ \A i \in 1..Len(lines') : lines'[i] = lines[i + 1]
        /\ Len(lines) = 1 => lines' = <<>>
    <2>1. lines # <<>>
      BY <1>1
    <2>2. /\ Len(lines) \in Nat /\ Len(lines) >= 1 /\ Len(Tail(lines)) = Len(lines) - 1
          /\ Head(lines) = lines[1]
          /\ \A i \in 1..Len(lines) - 1 : Tail(lines)[i] = lines[i + 1]
          /\ Len(lines) = 1 => Tail(lines) = <<>>
      BY <2>1, LineFacts, TakenFacts
    <2> QED BY <1>1, <2>2
  <1>5. CASE Head(lines) = Eof
    <2>1. at' = "reap" /\ seen' = seen
      BY <1>5 DEF TakeLine
    <2>2. pipe = <<>> /\ Gone(child) /\ Len(lines) = 1
      BY <1>3, <1>4, <1>5 DEF OutputInv, EndComesLast
    <2>3. lines' = <<>>
      BY <1>4, <2>2
    <2>4. EndComesLast'
      <3>1. Gone(child)'
        BY <1>1, <2>2 DEF Gone
      <3>2. \A i \in 1..Len(lines') : FALSE
        BY <2>3, NothingAtEmpty
      <3>3. ~In(lines', Eof)
        BY <2>3, NothingInEmpty
      <3> QED BY <1>1, <2>1, <2>2, <2>3, <3>1, <3>2, <3>3 DEF EndComesLast
    <2>5. \A c \in Codes : Told(c)' <=> Told(c)
      BY <1>1, <1>3, <1>5, <2>1, LineFacts DEF Told
    <2>6. CodeIsOnItsWay'
      BY <1>1, <2>5 DEF OutputInv, CodeIsOnItsWay
    <2> QED BY <1>2, <2>4, <2>6 DEF OutputInv
  <1>6. CASE Head(lines) # Eof
    <2>1. at' = "wait" /\ seen' = seen \cup {Head(lines)}
      BY <1>1, <1>6 DEF TakeLine
    <2>2. \A c \in Codes : Told(c)' <=> Told(c)
      BY <1>1, <1>3, <2>1 DEF Told
    <2>3. EndComesLast'
      <3>1. Gone(child)' = Gone(child)
        BY <1>1 DEF Gone
      <3>2. In(lines', Eof) => In(lines, Eof)
        BY <1>3
      <3>3. \A i \in 1..Len(lines') : lines'[i] = Eof => i = Len(lines')
        BY <1>4 DEF OutputInv, EndComesLast
      <3> QED BY <1>1, <2>1, <3>1, <3>2, <3>3 DEF OutputInv, EndComesLast
    <2>4. CodeIsOnItsWay'
      BY <1>1, <2>1, <2>2 DEF OutputInv, CodeIsOnItsWay
    <2> QED BY <1>2, <2>3, <2>4 DEF OutputInv
  <1> QED BY <1>5, <1>6

\* The pipe and the queue of a new worker, or of none, are empty.
LEMMA NewSolveKeepsOutput ==
  ASSUME NewSolve, CodeMeansFailure', at' # "reap", at' = "wait" => why'[child'] = ""
  PROVE  OutputInv'
  <1>1. pipe' = <<>> /\ lines' = <<>> /\ seen' = {}
    BY DEF NewSolve
  <1>2. \A c : ~In(pipe', c) /\ ~In(lines', c)
    BY <1>1, NothingInEmpty
  <1>3. \A c : ~Told(c)'
    BY <1>1, <1>2 DEF Told
  <1>4. CodeIsOnItsWay'
    BY <1>3 DEF CodeIsOnItsWay, Codes
  <1>5. EndComesLast'
    <2>1. \A i \in 1..Len(lines') : FALSE
      BY <1>1, NothingAtEmpty
    <2> QED BY <1>2, <2>1 DEF EndComesLast
  <1> QED BY <1>4, <1>5 DEF OutputInv

\* Steps that touch neither the pipe nor the worker that is waited for.
LEMMA QuietKeepsOutput ==
  ASSUME TypeOK, OutputInv, ChildIsAsked, UNCHANGED solveVars, CodeMeansFailure',
         at' = at \/ (at \in {"idle", "rail"} /\ at' \in {"idle", "rail"}),
         child # NoProc => step'[child] = step[child] /\ why'[child] = why[child]
  PROVE  OutputInv'
  <1>1. UNCHANGED <<child, pipe, lines, seen>>
    BY DEF solveVars
  <1>2. \A c : Told(c)' <=> Told(c)
    BY <1>1 DEF Told, In
  <1>3. at' \in {"wait", "reap"} => /\ at' = at /\ child # NoProc
                                   /\ step'[child] = step[child]
                                   /\ why'[child] = why[child]
    BY DEF ChildIsAsked
  <1>4. CodeIsOnItsWay'
    BY <1>1, <1>2, <1>3 DEF OutputInv, CodeIsOnItsWay
  <1>5. EndComesLast'
    <2>1. In(lines, Eof) => at = "wait" /\ pipe = <<>> /\ Gone(child)
      BY DEF OutputInv, EndComesLast
    <2>2. at = "wait" => child # NoProc /\ at' = "wait"
      BY DEF ChildIsAsked
    <2>3. child # NoProc => (Gone(child)' <=> Gone(child))
      BY <1>1 DEF Gone
    <2>4. In(lines', Eof) => at' = "wait" /\ pipe' = <<>> /\ Gone(child)'
      BY <1>1, <2>1, <2>2, <2>3
    <2>5. at' = "reap" => pipe' = <<>> /\ lines' = <<>> /\ Gone(child)'
      BY <1>1, <1>3, <2>3 DEF OutputInv, EndComesLast
    <2>6. \A i \in 1..Len(lines') : lines'[i] = Eof => i = Len(lines')
      BY <1>1 DEF OutputInv, EndComesLast
    <2> QED BY <2>4, <2>5, <2>6 DEF EndComesLast
  <1> QED BY <1>4, <1>5 DEF OutputInv

LEMMA OutputIsKept ==
  ASSUME TypeOK, OutputInv, ChildIsAsked, [Next]_vars
  PROVE  OutputInv'
  <1>0. /\ step \in [Procs -> Steps] /\ why \in [Procs -> Codes \cup {""}]
        /\ child \in Procs \cup {NoProc}
        /\ \A p \in Procs : why[p] # "" => step[p] = "failed"
    BY DEF TypeOK, CacheTypeOK, OutputInv, CodeMeansFailure
  <1>1. CASE \E p \in Procs : Work(p) \/ Beat(p) \/ Die(p) \/ Hang(p)
    BY <1>1, WorkKeepsOutput
  <1>2. CASE \E p \in Procs : ReapOrphan(p)
    <2>1. PICK p \in Procs : ReapOrphan(p)
      BY <1>2
    <2>2. /\ p # child /\ UNCHANGED solveVars /\ at' = at
          /\ step' = [step EXCEPT ![p] = "none"]
          /\ why' = [why EXCEPT ![p] = ""]
      BY <2>1 DEF ReapOrphan, Quiet, batchVars
    <2>3. CodeMeansFailure'
      BY <1>0, <2>2 DEF CodeMeansFailure
    <2>4. child # NoProc => step'[child] = step[child] /\ why'[child] = why[child]
      BY <1>0, <2>2
    <2> QED BY <2>2, <2>3, <2>4, QuietKeepsOutput
  <1>3. CASE Spawn
    <2>1. PICK p \in Procs : /\ At(p, "none")
                             /\ step' = [step EXCEPT ![p] = "check"]
                             /\ why' = [why EXCEPT ![p] = ""]
                             /\ child' = p
      BY <1>3 DEF Spawn
    <2>2. NewSolve /\ at' = "wait"
      BY <1>3 DEF Spawn
    <2>3. CodeMeansFailure' /\ why'[child'] = ""
      BY <1>0, <2>1 DEF CodeMeansFailure
    <2> QED BY <2>2, <2>3, NewSolveKeepsOutput
  <1>4. CASE KillWorker \/ FailSolve \/ KeepReceipts
    <2>1. child \in Procs /\ Discard(child) /\ at' \in {"idle", "rail"}
      BY <1>4, ChildIsThere DEF KillWorker, FailSolve, KeepReceipts, Return
    <2>2. CodeMeansFailure'
      BY <1>0, <2>1, DiscardFacts DEF CodeMeansFailure
    <2> QED BY <2>1, <2>2, NewSolveKeepsOutput DEF Discard
  <1>5. CASE FailKeep \/ CrashApp
    <2>1. NewSolve /\ at' = "idle" /\ UNCHANGED <<step, why>>
      BY <1>5 DEF FailKeep, CrashApp, Return, cacheVars, workerVars
    <2>2. CodeMeansFailure'
      BY <1>0, <2>1 DEF CodeMeansFailure
    <2> QED BY <2>1, <2>2, NewSolveKeepsOutput
  <1>6. CASE \/ FinishBatch \/ FailSpawn \/ Cancel \/ ReplaceFile \/ SpoilEntry
             \/ UNCHANGED vars
             \/ \E s \in Scenarios, A \in (SUBSET Ports) \ {{}} : Evaluate(s, A)
    <2>1. UNCHANGED <<step, why, solveVars>>
      BY <1>6 DEF FinishBatch, FailSpawn, Cancel, ReplaceFile, ReplaceSpd, SpoilEntry,
                  Spoil, vars, Evaluate, cacheVars, workerVars, solveVars
    <2>2. at' = at \/ (at \in {"idle", "rail"} /\ at' \in {"idle", "rail"})
      BY <1>6 DEF FinishBatch, FailSpawn, Cancel, ReplaceFile, SpoilEntry, vars, Evaluate,
                  Return, batchVars
    <2>3. CodeMeansFailure'
      BY <1>0, <2>1 DEF CodeMeansFailure
    <2> QED BY <2>1, <2>2, <2>3, QuietKeepsOutput
  <1> QED BY <1>1, <1>2, <1>3, <1>4, <1>5, <1>6, DrainKeepsOutput, TakeLineKeepsOutput
          DEF Next, Batch

-----------------------------------------------------------------------------
(* The inductive invariant.                                                *)

LEMMA InitEstablishes == Init => AdapterInv
  <1> SUFFICES ASSUME Init PROVE AdapterInv
    OBVIOUS
  <1>1. CacheInv
    <2>1. EntriesMatchTheirKey
      BY EngineCacheAssumption DEF Init, CacheInit, EntriesMatchTheirKey
    <2>2. \A p \in Procs : /\ step[p] = "none" /\ sha[p] = None /\ p \notin misled
                           /\ \A i \in Items : got[p][i] = None
      BY DEF Init, CacheInit, Nothing
    <2> QED BY <2>1, <2>2 DEF CacheInv, WorkerIsSound, ReadsWhatItHashed, FileIsCurrent,
                              InputsAreThere, Reading, Hashed, Checked, At
  <1>2. EveryWorkerIsOwned /\ ResultIsOwn
    BY DEF Init, CacheInit, EveryWorkerIsOwned, ResultIsOwn
  <1>3. ChildIsAsked /\ GatheredIsOfScenario
    BY DEF Init, ChildIsAsked, GatheredIsOfScenario
  <1>4. AnswerInv
    BY DEF Init, AnswerInv, NoAnswer
  <1>5. OutputInv
    <2>1. lines = <<>> /\ at = "idle"
      BY DEF Init
    <2>2. ~In(lines, Eof) /\ \A i \in 1..Len(lines) : FALSE
      BY <2>1, NothingInEmpty, NothingAtEmpty
    <2>3. CodeMeansFailure
      BY DEF Init, CodeMeansFailure
    <2> QED BY <2>1, <2>2, <2>3 DEF OutputInv, CodeIsOnItsWay, EndComesLast
  <1> QED BY <1>1, <1>2, <1>3, <1>4, <1>5, InitTypes DEF AdapterInv

LEMMA NextPreserves == AdapterInv /\ [Next]_vars => AdapterInv'
  BY TypesAreKept, CacheIsKept, OwnersAreKept, ResultsAreKept, BatchIsKept, AnswerIsKept,
     OutputIsKept DEF AdapterInv

\* The inductive invariant holds throughout: a line the worker wrote is in the pipe, in
\* the queue or seen, the end comes after all of them, every worker and directory has
\* an owner, and what was gathered is of the rails that are done.
THEOREM AdapterInvariant == Spec => []AdapterInv
  <1> QED BY InitEstablishes, NextPreserves, PTL DEF Spec

\* The variables of the evaluation have their types.
THEOREM AdapterTypes == Spec => []TypeOK
  <1>1. AdapterInv => TypeOK
    BY DEF AdapterInv
  <1> QED BY <1>1, AdapterInvariant, PTL

\* engine_adapter.py ends the process and removes the directory of an evaluation on
\* every way out of solve but two: what still runs, or is still on disk, is of the
\* evaluation that waits for it, or was lost by a crash, by a worker that could not be
\* started or by a receipt that could not be kept.
THEOREM NothingStays == Spec => []NothingIsLeft
  <1>1. AdapterInv => NothingIsLeft
    BY DEF AdapterInv, EveryWorkerIsOwned, NothingIsLeft, Runs
  <1> QED BY <1>1, AdapterInvariant, PTL

\* An evaluation that is done has a receipt for each of its rails and both roles that
\* names the SPD and has the decaps of its scenario; its numbers are of that SPD alone,
\* whatever other processes write to the cache at the same time, unless the SPD was
\* replaced under a worker that has a part in them.
THEOREM AnswersAreOfTheirScenario == Spec => []AnswerIsOfScenario
  <1>1. ASSUME AnswerInv
        PROVE  AnswerIsOfScenario
    <2> SUFFICES ASSUME answer.kind = "done"
                 PROVE  {<<r.rail, r.role>> : r \in answer.receipts} = answer.rails \X Roles
      BY <1>1 DEF AnswerInv, AnswerIsOfScenario
    <2> DEFINE Pairs == {<<r.rail, r.role>> : r \in answer.receipts}
    <2>1. /\ \A r \in answer.receipts : r.rail \in answer.rails /\ r.role \in Roles
          /\ \A a \in answer.rails, role \in Roles :
               \E r \in answer.receipts : r.rail = a /\ r.role = role
      BY <1>1 DEF AnswerInv, Covers
    <2>2. Pairs \subseteq answer.rails \X Roles
      BY <2>1
    <2>3. ASSUME NEW a \in answer.rails, NEW role \in Roles
          PROVE  <<a, role>> \in Pairs
      <3>1. PICK r \in answer.receipts : r.rail = a /\ r.role = role
        BY <2>1
      <3> QED BY <3>1
    <2>4. answer.rails \X Roles \subseteq Pairs
      BY <2>3
    <2> QED BY <2>2, <2>4
  <1>2. AdapterInv => AnswerIsOfScenario
    BY <1>1 DEF AdapterInv
  <1> QED BY <1>2, AdapterInvariant, PTL

\* Every entry of the cache that can be used was made from the SPD its key names,
\* with the workers of the adapter and whatever is spoilt between them, unless the SPD
\* was replaced under a worker that has a part in it.
THEOREM AdapterCacheIsSound == Spec => []EntriesMatchTheirKey
  <1>1. AdapterInv => EntriesMatchTheirKey
    BY DEF AdapterInv, CacheInv
  <1> QED BY <1>1, AdapterInvariant, PTL

\* When the loop of solve is over, every code the worker wrote was seen, and no other.
LEMMA SeenIsTheReason ==
  ASSUME TypeOK, OutputInv, ChildIsAsked, at = "reap"
  PROVE  /\ child \in Procs
         /\ \A c \in Codes : c \in seen <=> c = why[child]
  <1>1. pipe = <<>> /\ lines = <<>>
    BY DEF OutputInv, EndComesLast
  <1>2. \A c : ~In(pipe, c) /\ ~In(lines, c)
    BY <1>1, NothingInEmpty
  <1>3. \A c \in Codes : Told(c) <=> c = why[child]
    BY DEF OutputInv, CodeIsOnItsWay
  <1> QED BY <1>2, <1>3, ChildIsThere DEF Told

\* The code a worker refused its rail with is the code the evaluation fails with:
\* no step of the batch reports another or none.
THEOREM RefusalsAreReported == Spec => RefusalIsReported
  <1> DEFINE Reported == answer'.kind = "failed" /\ answer.kind # "failed" =>
               answer'.code = IF why[child] = "" THEN "WORKER_FAILED" ELSE why[child]
  <1>1. ASSUME AdapterInv, [Next]_vars
        PROVE  Reported
    <2>1. SUFFICES ASSUME answer'.kind = "failed", answer.kind # "failed"
                   PROVE  answer'.code =
                            IF why[child] = "" THEN "WORKER_FAILED" ELSE why[child]
      OBVIOUS
    <2>2. FailSolve
      <3>1. NoAnswer.kind = "none" /\ \A kind : Ended(kind).kind = kind
        BY DEF Ended, NoAnswer
      <3>2. answer' # answer
        BY <2>1
      <3>3. ~(Spawn \/ TakeLine \/ KeepReceipts \/ Cancel \/ Drain \/ ReplaceFile
                \/ SpoilEntry \/ UNCHANGED vars)
        BY <3>2 DEF Spawn, TakeLine, KeepReceipts, Cancel, Drain, ReplaceFile, SpoilEntry,
                    vars, batchVars
      <3>4. ~\E p \in Procs : Work(p) \/ Beat(p) \/ Die(p) \/ Hang(p)
        BY <1>1, <3>2, WorkerMoves DEF AdapterInv, batchVars
      <3>5. ~\E p \in Procs : ReapOrphan(p)
        BY <3>2 DEF ReapOrphan, Quiet, batchVars
      <3>6. ~(KillWorker \/ FailKeep \/ FailSpawn)
        BY <2>1, <3>1 DEF KillWorker, FailKeep, FailSpawn, Return
      <3>7. ~(FinishBatch \/ CrashApp)
        <4>1. ~CrashApp
          BY <2>1, <3>1 DEF CrashApp, Return
        <4>2. ~FinishBatch
          <5>1. ASSUME FinishBatch
                PROVE  answer'.kind \in {"cancelled", "done"}
            <6>1. CASE cancelled
              BY <3>1, <5>1, <6>1 DEF FinishBatch, Return
            <6>2. CASE ~cancelled
              <7>1. answer' = [kind |-> "done", code |-> "", scenario |-> asked.scenario,
                               rails |-> asked.rails, receipts |-> gathered]
                BY <5>1, <6>2 DEF FinishBatch, Return
              <7> QED BY <7>1
            <6> QED BY <6>1, <6>2
          <5> QED BY <2>1, <5>1
        <4> QED BY <4>1, <4>2
      <3>8. ~\E s \in Scenarios, A \in (SUBSET Ports) \ {{}} : Evaluate(s, A)
        BY <2>1, <3>1 DEF Evaluate, Return
      <3> QED BY <1>1, <3>3, <3>4, <3>5, <3>6, <3>7, <3>8 DEF Next, Batch
    <2>3. answer'.code = CodeSeen
      BY <2>2 DEF FailSolve, Return, Ended, NoAnswer
    <2>4. /\ child \in Procs /\ seen \subseteq Codes /\ why[child] \in Codes \cup {""}
          /\ "" \notin Codes
          /\ \A c \in Codes : c \in seen <=> c = why[child]
      <3>1. TypeOK /\ OutputInv /\ ChildIsAsked /\ at = "reap"
        BY <1>1, <2>2 DEF AdapterInv, FailSolve
      <3> QED BY <3>1, SeenIsTheReason, LineFacts
    <2>5. CodeSeen = IF why[child] = "" THEN "WORKER_FAILED" ELSE why[child]
      <3>1. CASE why[child] = ""
        BY <2>4, <3>1 DEF CodeSeen
      <3>2. CASE why[child] # ""
        <4>1. why[child] \in seen
          BY <2>4, <3>2
        <4>2. (CHOOSE c \in Codes : c \in seen) = why[child]
          BY <2>4, <4>1
        <4> QED BY <3>2, <4>1, <4>2 DEF CodeSeen
      <3> QED BY <3>1, <3>2
    <2> QED BY <2>3, <2>5
  <1>2. AdapterInv /\ [Next]_vars => [Reported]_vars
    BY <1>1
  <1> QED BY <1>2, AdapterInvariant, PTL DEF Spec, RefusalIsReported
=============================================================================
