--------------------------- MODULE EngineSweepProofs ---------------------------
(***************************************************************************)
(* Proofs about EngineSweep, for any number of processes, SPDs, ports and  *)
(* layers.                                                                 *)
(***************************************************************************)
EXTENDS EngineSweep, TLAPS

\* What is left of a process that does not run.
Idle(p) == step[p] \in {"none", "hash", "exited", "failed"}

\* A process knows its port, and, unless it was misled, what it got comes from the
\* SPD it hashed.
ReadsWhatItHashed ==
  \A p \in Procs :
    /\ step[p] # "none" => port[p] \in Ports
    /\ IF Idle(p) THEN sha[p] = None ELSE sha[p] \in Designs
    /\ Idle(p) => p \notin misled /\ \A i \in Items : got[p][i] = None
    /\ p \notin misled => \A i \in Items : got[p][i] \in {sha[p], None}

Reads(p) == step[p] \in Reading \cup {"keep", "solve"}

\* The file a process reads is the one it hashed, unless it was misled.
HashIsCurrent == \A p \in Procs \ misled : Reads(p) => sha[p] = spd

CacheInv == ReadsWhatItHashed /\ HashIsCurrent /\ EntriesMatchTheirKey

\* When prepare is over, no input is missing; the receipt will name the SPD.
InputsAreThere ==
  \A p \in Procs :
    /\ step[p] \in {"save", "walk", "keep", "solve", "name", "open", "write"} =>
         got[p][port[p]] # None
    /\ step[p] \in {"keep", "solve", "name", "open", "write"} =>
         \A l \in Need[port[p]] : got[p][l] # None
    /\ step[p] \in {"name", "open", "write"} =>
         claim[p] \in Designs /\ (p \notin misled => claim[p] = sha[p])

OneDesignInv == InputsAreThere /\ ReceiptNamesItsDesign

\* A process the driver waits for has begun; without a driver nothing waits.
DriverOwns ==
  /\ ~on => queued = {} /\ Mine = {}
  /\ \A p \in Mine : step[p] # "none"

DriverInv == DriverOwns /\ EveryEntryOnce

BeforeOpen == {"hash", "find", "extract", "save", "walk", "keep", "solve", "name",
               "open"}

\* Without a solve by hand or a killed driver, every process belongs to the driver.
DriverIsAlone ==
  outside = 0 => \A p \in Procs : step[p] # "none" => p \in Mine

\* A name is chosen late and forgotten with the process.
NamesAreFresh ==
  \A p \in Procs : step[p] \notin {"open", "write"} => name[p] = Plain

\* While no two processes solve one port, the receipt of a port is where the
\* process of that port left it.
ReceiptsAreWhereLeft ==
  Undisturbed =>
    /\ \A p \in Procs : name[p] = Plain
    /\ \A i \in queued : receipts[<<list[i], Plain>>] = NoReceipt
    /\ \A p \in Procs :
         /\ step[p] \in BeforeOpen => receipts[<<port[p], Plain>>] = NoReceipt
         /\ step[p] = "write" => receipts[<<port[p], Plain>>] = Torn
         /\ step[p] = "exited" => Whole(<<port[p], Plain>>)
    /\ \A i \in ok : Whole(<<list[i], Plain>>)

SweepAlone == DriverIsAlone /\ NamesAreFresh /\ ReceiptsAreWhereLeft

SweepInv ==
  TypeOK /\ CacheInv /\ OneDesignInv /\ DriverInv /\ SweepAlone

USE DEF At, Goto

-----------------------------------------------------------------------------
(* Types.                                                                  *)

LEMMA ItemFacts ==
  /\ \A a \in Ports : a \in Items
  /\ \A a \in Ports : Need[a] \subseteq PlaneLayers
  /\ \A a \in Ports : \A l \in Need[a] : l \in Items
  BY EngineCacheAssumption DEF Items

LEMMA InitTypes == Init => TypeOK
  <1> SUFFICES ASSUME Init PROVE TypeOK
    OBVIOUS
  <1>1. CacheTypeOK
    BY DEF Init, CacheInit, CacheTypeOK, Nothing, Steps
  <1>2. name \in [Procs -> Names]
    BY DEF Init, Names
  <1>3. {outside, faults} \subseteq 0..MaxMishaps
    BY EngineSweepAssumption DEF Init
  <1>4. list \in Seq(Ports) /\ DOMAIN list = {}
    BY DEF Init
  <1> QED BY <1>1, <1>2, <1>3, <1>4 DEF Init, TypeOK

\* What a saved entry is.
LEMMA SaveTypes ==
  ASSUME CacheTypeOK, NEW p \in Procs, NEW i \in Items, sha[p] \in Designs, Save(p, i)
  PROVE  /\ cached' \in [Designs \X Items -> Designs \cup {None, Unusable}]
         /\ doubtful' \subseteq Designs \X Items
  <1>1. got[p][i] \in Designs \cup {None}
    BY DEF CacheTypeOK
  <1>2. Key(p, i) \in Designs \X Items
    BY DEF Key
  <1> QED BY <1>1, <1>2 DEF Save, CacheTypeOK

LEMMA PrepareTypes ==
  ASSUME TypeOK, ReadsWhatItHashed, NEW p \in Procs, PrepareStep(p)
  PROVE  TypeOK'
  <1> USE ItemFacts DEF TypeOK, CacheTypeOK, Steps, doubts
  <1>1. UNCHANGED <<solveVars, receipts, driverVars>> /\ Prepare(p)
    BY DEF PrepareStep
  <1>2. CacheTypeOK'
    <2>1. CASE Hash(p)
      BY <2>1 DEF Hash
    <2>2. CASE LoadExtract(p)
      BY <2>2 DEF LoadExtract, Take, Outcomes, Entry, ReadsWhatItHashed
    <2>3. CASE Extract(p)
      BY <2>3 DEF Extract, ReadsWhatItHashed
    <2>4. CASE SaveExtract(p)
      <3>1. port[p] \in Ports /\ sha[p] \in Designs
        BY <2>4 DEF SaveExtract, ReadsWhatItHashed, Idle
      <3>2. /\ cached' \in [Designs \X Items -> Designs \cup {None, Unusable}]
            /\ doubtful' \subseteq Designs \X Items
        BY <2>4, <3>1, SaveTypes DEF SaveExtract
      <3> QED BY <2>4, <3>1, <3>2 DEF SaveExtract
    <2>5. CASE LoadShapes(p)
      <3>0. PICK l \in pending[p] : \E found \in Outcomes(p, l) :
              Take(p, l, found) /\ pending' = [pending EXCEPT ![p] = @ \ {l}]
        BY <2>5 DEF LoadShapes
      <3>1. PICK found \in Outcomes(p, l) :
              Take(p, l, found) /\ pending' = [pending EXCEPT ![p] = @ \ {l}]
        BY <3>0
      <3>2. found \in Designs \cup {None}
        BY DEF Outcomes, Entry
      <3> QED BY <2>5, <3>1, <3>2 DEF LoadShapes, Take
    <2>6. CASE ReadShapes(p)
      <3>1. port[p] \in Ports
        BY <2>6 DEF ReadShapes, ReadsWhatItHashed
      <3>2. Missed(p) \subseteq PlaneLayers
        BY <3>1 DEF Missed
      <3>3. got' \in [Procs -> [Items -> Designs \cup {None}]]
        BY <2>6 DEF ReadShapes
      <3>4. pending' \in [Procs -> SUBSET PlaneLayers]
        BY <2>6, <3>2 DEF ReadShapes
      <3> QED BY <2>6, <3>3, <3>4 DEF ReadShapes
    <2>7. CASE SaveShapes(p)
      <3>1. PICK l \in pending[p] :
              Save(p, l) /\ pending' = [pending EXCEPT ![p] = @ \ {l}]
        BY <2>7 DEF SaveShapes
      <3>2. l \in Items /\ sha[p] \in Designs
        BY <2>7 DEF SaveShapes, ReadsWhatItHashed, Idle, Items
      <3>3. /\ cached' \in [Designs \X Items -> Designs \cup {None, Unusable}]
            /\ doubtful' \subseteq Designs \X Items
        BY <3>1, <3>2, SaveTypes
      <3> QED BY <2>7, <3>1, <3>3 DEF SaveShapes
    <2> QED BY <1>1, <2>1, <2>2, <2>3, <2>4, <2>5, <2>6, <2>7 DEF Prepare
  <1> QED BY <1>1, <1>2 DEF solveVars, driverVars, accounts

LEMMA UsedIsDesigns ==
  ASSUME TypeOK, ReadsWhatItHashed, InputsAreThere, NEW p \in Procs \ misled,
         At(p, "write")
  PROVE  /\ sha[p] \in Designs
         /\ {got[p][i] : i \in Inputs(p)} = {sha[p]}
  BY ItemFacts DEF ReadsWhatItHashed, InputsAreThere, Inputs, Idle

\* The inputs of a process that writes its receipt.
LEMMA InputFacts ==
  ASSUME TypeOK, ReadsWhatItHashed, InputsAreThere, NEW p \in Procs, At(p, "write")
  PROVE  {got[p][i] : i \in Inputs(p)} \subseteq Designs
  BY ItemFacts DEF ReadsWhatItHashed, InputsAreThere, Inputs, TypeOK, CacheTypeOK

-----------------------------------------------------------------------------
(* The cache.                                                              *)

\* What a lookup returns is the design the process hashed, or nothing, or it misleads.
LEMMA LookupFacts ==
  ASSUME CacheTypeOK, CacheInv, NEW p \in Procs, NEW i \in Items,
         ~Idle(p), NEW found \in Outcomes(p, i), Take(p, i, found)
  PROVE  /\ p \notin misled' => p \notin misled /\ found \in {sha[p], None}
         /\ \A q \in Procs \ {p} : q \in misled' <=> q \in misled
  <1>1. Key(p, i) \in Designs \X Items
    BY DEF Key, CacheInv, ReadsWhatItHashed
  <1> QED BY <1>1 DEF CacheInv, EntriesMatchTheirKey, Outcomes, Entry, Take, Key

\* A saved entry matches its key.
LEMMA SaveFacts ==
  ASSUME CacheTypeOK, CacheInv, None \notin Designs, NEW p \in Procs, NEW i \in Items,
         ~Idle(p), Save(p, i)
  PROVE  EntriesMatchTheirKey'
  <1>1. p \notin misled => got[p][i] \in {sha[p], None}
    BY DEF CacheInv, ReadsWhatItHashed
  <1>2. Key(p, i) = <<sha[p], i>> /\ Key(p, i) \in Designs \X Items
    BY DEF Key, CacheInv, ReadsWhatItHashed
  <1> QED BY <1>1, <1>2 DEF Save, CacheTypeOK, CacheInv, EntriesMatchTheirKey

\* A process that leaves the other processes and the SPD alone.
LEMMA OneProcessMoves ==
  ASSUME CacheTypeOK, CacheInv, NEW p \in Procs, UNCHANGED spd,
         \A q \in Procs \ {p} :
           /\ step'[q] = step[q] /\ port'[q] = port[q]
           /\ sha'[q] = sha[q] /\ got'[q] = got[q]
           /\ q \in misled' <=> q \in misled,
         step'[p] # "none" => port'[p] \in Ports,
         IF Idle(p)' THEN sha'[p] = None ELSE sha'[p] \in Designs,
         Idle(p)' => p \notin misled' /\ \A i \in Items : got'[p][i] = None,
         p \notin misled' => \A i \in Items : got'[p][i] \in {sha'[p], None},
         p \notin misled' /\ Reads(p)' => sha'[p] = spd
  PROVE  (ReadsWhatItHashed /\ HashIsCurrent)'
  <1>1. ReadsWhatItHashed'
    BY DEF CacheInv, ReadsWhatItHashed, Idle
  <1>2. HashIsCurrent'
    BY DEF CacheInv, HashIsCurrent, Reads
  <1> QED BY <1>1, <1>2

LEMMA HashKeepsCache ==
  ASSUME CacheTypeOK, CacheInv, NEW p \in Procs, Hash(p)
  PROVE  CacheInv'
  <1> USE DEF doubts
  <1>1. \A i \in Items : got[p][i] = None
    BY DEF Hash, CacheInv, ReadsWhatItHashed, Idle
  <1>2. sha'[p] = spd /\ step'[p] = "find" /\ port[p] \in Ports
    BY DEF Hash, CacheTypeOK, CacheInv, ReadsWhatItHashed
  <1>3. (ReadsWhatItHashed /\ HashIsCurrent)'
    BY <1>1, <1>2, OneProcessMoves DEF Hash, CacheTypeOK, Idle
  <1> QED BY <1>3 DEF CacheInv, EntriesMatchTheirKey, Hash

\* What is known of a process in prepare.
LEMMA PreparingFacts ==
  ASSUME CacheTypeOK, CacheInv, NEW p \in Procs,
         step[p] \in {"find", "extract", "save", "walk", "keep", "solve"}
  PROVE  /\ ~Idle(p) /\ Reads(p) /\ port[p] \in Ports /\ sha[p] \in Designs
         /\ p \notin misled =>
              /\ sha[p] = spd
              /\ \A i \in Items : got[p][i] \in {sha[p], None}
  BY DEF Idle, Reads, Reading, CacheTypeOK, CacheInv, ReadsWhatItHashed, HashIsCurrent

\* A step of a process that goes on with what it hashed.
LEMMA GoesOn ==
  ASSUME CacheTypeOK, CacheInv, NEW p \in Procs, UNCHANGED <<spd, port, sha>>,
         step[p] \in {"find", "extract", "save", "walk", "keep", "solve"},
         \A q \in Procs \ {p} :
           /\ step'[q] = step[q] /\ got'[q] = got[q]
           /\ q \in misled' <=> q \in misled,
         step'[p] \in {"find", "extract", "save", "walk", "keep", "solve", "name"},
         p \notin misled' => p \notin misled,
         p \notin misled' => \A i \in Items : got'[p][i] \in {sha[p], None}
  PROVE  (ReadsWhatItHashed /\ HashIsCurrent)'
  <1>1. ~Idle(p)'
    BY DEF Idle
  <1> QED BY <1>1, PreparingFacts, OneProcessMoves

LEMMA LoadExtractKeepsCache ==
  ASSUME CacheTypeOK, CacheInv, NEW p \in Procs, LoadExtract(p)
  PROVE  CacheInv'
  <1> USE DEF LoadExtract
  <1>1. PICK found \in Outcomes(p, port[p]) : Take(p, port[p], found)
    OBVIOUS
  <1>2. /\ p \notin misled' => p \notin misled /\ found \in {sha[p], None}
        /\ \A q \in Procs \ {p} : q \in misled' <=> q \in misled
    BY <1>1, LookupFacts, PreparingFacts, ItemFacts
  <1>3. /\ p \notin misled' => \A i \in Items : got'[p][i] \in {sha[p], None}
        /\ \A q \in Procs \ {p} : got'[q] = got[q]
    BY <1>1, <1>2 DEF CacheTypeOK, CacheInv, ReadsWhatItHashed, Take
  <1>4. (ReadsWhatItHashed /\ HashIsCurrent)'
    BY <1>2, <1>3, GoesOn DEF CacheTypeOK
  <1> QED BY <1>4 DEF CacheInv, EntriesMatchTheirKey

LEMMA ExtractKeepsCache ==
  ASSUME CacheTypeOK, CacheInv, NEW p \in Procs, Extract(p)
  PROVE  CacheInv'
  <1> USE DEF Extract, doubts
  <1>1. p \notin misled => \A i \in Items : got'[p][i] \in {sha[p], None}
    BY PreparingFacts DEF CacheTypeOK
  <1>2. (ReadsWhatItHashed /\ HashIsCurrent)'
    BY <1>1, GoesOn DEF CacheTypeOK
  <1> QED BY <1>2 DEF CacheInv, EntriesMatchTheirKey

LEMMA SaveExtractKeepsCache ==
  ASSUME CacheTypeOK, CacheInv, NEW p \in Procs, SaveExtract(p)
  PROVE  CacheInv'
  <1> USE DEF SaveExtract
  <1>1. ~Idle(p) /\ port[p] \in Ports
        /\ (p \notin misled => \A i \in Items : got[p][i] \in {sha[p], None})
    BY PreparingFacts
  <1>2. (ReadsWhatItHashed /\ HashIsCurrent)'
    BY <1>1, GoesOn DEF CacheTypeOK
  <1>3. EntriesMatchTheirKey'
    BY <1>1, SaveFacts, ItemFacts, EngineCacheAssumption
  <1> QED BY <1>2, <1>3 DEF CacheInv

LEMMA LoadShapesKeepsCache ==
  ASSUME CacheTypeOK, CacheInv, NEW p \in Procs, LoadShapes(p)
  PROVE  CacheInv'
  <1> USE DEF LoadShapes
  <1>1. PICK l \in pending[p] : \E found \in Outcomes(p, l) : Take(p, l, found)
    OBVIOUS
  <1>2. PICK found \in Outcomes(p, l) : Take(p, l, found)
    BY <1>1
  <1>3. l \in Items
    BY DEF CacheTypeOK, Items
  <1>4. /\ p \notin misled' => p \notin misled /\ found \in {sha[p], None}
        /\ \A q \in Procs \ {p} : q \in misled' <=> q \in misled
    BY <1>2, <1>3, LookupFacts, PreparingFacts
  <1>5. /\ p \notin misled' => \A i \in Items : got'[p][i] \in {sha[p], None}
        /\ \A q \in Procs \ {p} : got'[q] = got[q]
    BY <1>2, <1>4 DEF CacheTypeOK, CacheInv, ReadsWhatItHashed, Take
  <1>6. (ReadsWhatItHashed /\ HashIsCurrent)'
    BY <1>4, <1>5, GoesOn DEF CacheTypeOK
  <1> QED BY <1>6 DEF CacheInv, EntriesMatchTheirKey

LEMMA ReadShapesKeepsCache ==
  ASSUME CacheTypeOK, CacheInv, NEW p \in Procs, ReadShapes(p)
  PROVE  CacheInv'
  <1> USE DEF ReadShapes, doubts
  <1>1. \A i \in Items : got'[p][i] = IF i \in Missed(p) THEN spd ELSE got[p][i]
    BY DEF CacheTypeOK
  <1>2. p \notin misled => \A i \in Items : got'[p][i] \in {sha[p], None}
    BY <1>1, PreparingFacts
  <1>3. (ReadsWhatItHashed /\ HashIsCurrent)'
    BY <1>2, GoesOn DEF CacheTypeOK
  <1> QED BY <1>3 DEF CacheInv, EntriesMatchTheirKey

LEMMA SaveShapesKeepsCache ==
  ASSUME CacheTypeOK, CacheInv, NEW p \in Procs, SaveShapes(p)
  PROVE  CacheInv'
  <1> USE DEF SaveShapes
  <1>1. ~Idle(p) /\ (p \notin misled => \A i \in Items : got[p][i] \in {sha[p], None})
    BY PreparingFacts
  <1>2. (ReadsWhatItHashed /\ HashIsCurrent)'
    BY <1>1, GoesOn DEF CacheTypeOK
  <1>3. PICK l \in pending[p] : Save(p, l)
    OBVIOUS
  <1>4. l \in Items
    BY DEF CacheTypeOK, Items
  <1>5. EntriesMatchTheirKey'
    BY <1>1, <1>3, <1>4, SaveFacts, EngineCacheAssumption
  <1> QED BY <1>2, <1>5 DEF CacheInv

LEMMA PrepareKeepsCache ==
  ASSUME CacheTypeOK, CacheInv, NEW p \in Procs, Prepare(p)
  PROVE  CacheInv'
  BY HashKeepsCache, LoadExtractKeepsCache, ExtractKeepsCache, SaveExtractKeepsCache,
     LoadShapesKeepsCache, ReadShapesKeepsCache, SaveShapesKeepsCache DEF Prepare

\* cmd_solve after prepare reads neither the SPD nor the cache for its inputs.
LEMMA SolveKeepsCache ==
  ASSUME CacheTypeOK, CacheInv, NEW p \in Procs,
         Solve(p) \/ NameReceipt(p) \/ OpenReceipt(p)
  PROVE  CacheInv'
  <1> USE DEF Solve, NameReceipt, OpenReceipt, prepareVars, doubts
  <1>1. ~Idle(p) /\ ~Idle(p)' /\ ~Reads(p)' /\ port[p] \in Ports /\ sha[p] \in Designs
    BY DEF Idle, Reads, Reading, CacheTypeOK, CacheInv, ReadsWhatItHashed
  <1>2. p \notin misled => \A i \in Items : got[p][i] \in {sha[p], None}
    BY DEF CacheInv, ReadsWhatItHashed
  <1>3. (ReadsWhatItHashed /\ HashIsCurrent)'
    BY <1>1, <1>2, OneProcessMoves DEF CacheTypeOK
  <1> QED BY <1>3 DEF CacheInv, EntriesMatchTheirKey

LEMMA EndKeepsCache ==
  ASSUME CacheTypeOK, CacheInv, NEW p \in Procs, WriteReceipt(p) \/ Fail(p)
  PROVE  CacheInv'
  <1> USE DEF WriteReceipt, Fail
  <1>1. Idle(p)' /\ ~Reads(p)' /\ port[p] \in Ports
    BY DEF Idle, Reads, Reading, Running, CacheTypeOK, CacheInv, ReadsWhatItHashed
  <1>2. /\ sha'[p] = None /\ p \notin misled'
        /\ \A i \in Items : got'[p][i] = None
    BY DEF Forget, Nothing, CacheTypeOK
  <1>3. (ReadsWhatItHashed /\ HashIsCurrent)'
    BY <1>1, <1>2, OneProcessMoves DEF CacheTypeOK, Forget
  <1> QED BY <1>3 DEF CacheInv, EntriesMatchTheirKey

LEMMA StartKeepsCache ==
  ASSUME CacheTypeOK, CacheInv, NEW p \in Procs, NEW a \in Ports, Start(p, a)
  PROVE  CacheInv'
  <1> USE DEF Start, prepareVars, doubts
  <1>1. Idle(p) /\ Idle(p)' /\ ~Reads(p)' /\ port'[p] \in Ports
    BY DEF Idle, Reads, Reading, CacheTypeOK
  <1>2. sha[p] = None /\ p \notin misled /\ \A i \in Items : got[p][i] = None
    BY <1>1 DEF CacheInv, ReadsWhatItHashed
  <1>3. (ReadsWhatItHashed /\ HashIsCurrent)'
    BY <1>1, <1>2, OneProcessMoves DEF CacheTypeOK
  <1> QED BY <1>3 DEF CacheInv, EntriesMatchTheirKey

LEMMA GoneKeepsCache ==
  ASSUME CacheTypeOK, CacheInv, NEW p \in Procs, Gone(p)
  PROVE  CacheInv'
  <1> USE DEF Gone, prepareVars, doubts
  <1>1. Idle(p) /\ Idle(p)' /\ ~Reads(p)' /\ step'[p] = "none"
    BY DEF Idle, Reads, Reading, CacheTypeOK
  <1>2. sha[p] = None /\ p \notin misled /\ \A i \in Items : got[p][i] = None
    BY <1>1 DEF CacheInv, ReadsWhatItHashed
  <1>3. (ReadsWhatItHashed /\ HashIsCurrent)'
    BY <1>1, <1>2, OneProcessMoves DEF CacheTypeOK
  <1> QED BY <1>3 DEF CacheInv, EntriesMatchTheirKey

\* Who reads the SPD while it is replaced is misled.
LEMMA ReplaceKeepsCache ==
  ASSUME CacheTypeOK, CacheInv, ReplaceSpd(Readers)
  PROVE  CacheInv' /\ CacheTypeOK'
  <1> USE DEF ReplaceSpd, prepareVars
  <1>1. EntriesMatchTheirKey' /\ CacheTypeOK'
    BY DEF CacheInv, EntriesMatchTheirKey, CacheTypeOK, Readers
  <1>2. ReadsWhatItHashed'
    BY DEF CacheInv, ReadsWhatItHashed, Idle, Readers, Reading
  <1>3. HashIsCurrent'
    BY DEF CacheInv, HashIsCurrent, Readers, Reads
  <1> QED BY <1>1, <1>2, <1>3 DEF CacheInv

LEMMA SpoilKeepsCache ==
  ASSUME CacheTypeOK, CacheInv, Spoil
  PROVE  CacheInv' /\ CacheTypeOK'
  <1> USE DEF Spoil, prepareVars
  <1>1. (ReadsWhatItHashed /\ HashIsCurrent)'
    BY DEF CacheInv, ReadsWhatItHashed, Idle, HashIsCurrent, Reads
  <1>2. EntriesMatchTheirKey' /\ CacheTypeOK'
    BY EngineCacheAssumption DEF CacheInv, EntriesMatchTheirKey, CacheTypeOK
  <1> QED BY <1>1, <1>2 DEF CacheInv

-----------------------------------------------------------------------------
(* The inputs of a receipt.                                                *)

\* The inputs of the other processes are not touched.
LEMMA OneProcessInputs ==
  ASSUME TypeOK, InputsAreThere, NEW p \in Procs,
         \A q \in Procs \ {p} :
           /\ step'[q] = step[q] /\ port'[q] = port[q]
           /\ got'[q] = got[q] /\ claim'[q] = claim[q] /\ sha'[q] = sha[q],
         step'[p] \in {"save", "walk", "keep", "solve", "name", "open", "write"} =>
           got'[p][port'[p]] # None,
         step'[p] \in {"keep", "solve", "name", "open", "write"} =>
           \A l \in Need[port'[p]] : got'[p][l] # None,
         \A q \in Procs \ {p} : q \in misled' <=> q \in misled,
         step'[p] \in {"name", "open", "write"} =>
           claim'[p] \in Designs /\ (p \notin misled' => claim'[p] = sha'[p])
  PROVE  InputsAreThere'
  BY DEF InputsAreThere

LEMMA PrepareKeepsInputs ==
  ASSUME TypeOK, CacheInv, InputsAreThere, NEW p \in Procs, PrepareStep(p)
  PROVE  InputsAreThere'
  <1> USE DEF TypeOK, CacheTypeOK, doubts
  <1>0. Prepare(p) /\ UNCHANGED claim /\ None \notin Designs
    BY EngineCacheAssumption DEF PrepareStep, solveVars
  <1>a. step[p] # "none" => port[p] \in Ports /\ port[p] \in Items
    BY ItemFacts DEF CacheInv, ReadsWhatItHashed
  <1>1. CASE Hash(p)
    BY <1>0, <1>1, OneProcessInputs DEF Hash
  <1>2. CASE LoadExtract(p)
    <2>1. PICK found \in Outcomes(p, port[p]) :
            /\ Take(p, port[p], found)
            /\ step' = [step EXCEPT ![p] = IF found = None THEN "extract" ELSE "walk"]
      BY <1>2 DEF LoadExtract
    <2>2. step'[p] = "walk" => got'[p][port[p]] # None
      BY <1>2, <1>a, <2>1 DEF LoadExtract, Take
    <2>3. step'[p] \in {"extract", "walk"}
      BY <2>1
    <2> QED BY <1>0, <1>2, <2>1, <2>2, <2>3, OneProcessInputs DEF LoadExtract, Take
  <1>3. CASE Extract(p)
    <2>1. got'[p][port[p]] # None
      BY <1>0, <1>3, <1>a DEF Extract
    <2> QED BY <1>0, <1>3, <2>1, OneProcessInputs DEF Extract
  <1>4. CASE SaveExtract(p)
    BY <1>0, <1>4, OneProcessInputs DEF SaveExtract, InputsAreThere
  <1>5. CASE LoadShapes(p)
    <2>1. PICK l \in pending[p] : \E found \in Outcomes(p, l) : Take(p, l, found)
      BY <1>5 DEF LoadShapes
    <2>2. l \in PlaneLayers /\ l # port[p]
      BY <1>5, <1>a, EngineCacheAssumption DEF LoadShapes
    <2>3. got'[p][port[p]] # None
      BY <1>5, <2>1, <2>2 DEF LoadShapes, InputsAreThere, Take
    <2> QED BY <1>0, <1>5, <2>1, <2>3, OneProcessInputs DEF LoadShapes, Take
  <1>6. CASE ReadShapes(p)
    <2>1. \A i \in Items : got'[p][i] = IF i \in Missed(p) THEN spd ELSE got[p][i]
      BY <1>6 DEF ReadShapes
    <2>2. port[p] \in Ports /\ got[p][port[p]] # None
      BY <1>6, <1>a DEF ReadShapes, InputsAreThere
    <2>3. got'[p][port[p]] # None
      BY <1>0, <2>1, <2>2, ItemFacts
    <2>4. \A l \in Need[port[p]] : got'[p][l] # None
      BY <1>0, <2>1, <2>2, ItemFacts DEF Missed
    <2> QED BY <1>0, <1>6, <2>3, <2>4, OneProcessInputs DEF ReadShapes
  <1>7. CASE SaveShapes(p)
    BY <1>0, <1>7, OneProcessInputs DEF SaveShapes, InputsAreThere
  <1> QED BY <1>0, <1>1, <1>2, <1>3, <1>4, <1>5, <1>6, <1>7 DEF Prepare

-----------------------------------------------------------------------------
(* The driver.                                                             *)

\* A process that goes on leaves the driver's accounts alone.
LEMMA RunKeepsDriver ==
  ASSUME DriverInv, NEW p \in Procs, UNCHANGED <<port, driverVars>>,
         \A q \in Procs \ {p} : step'[q] = step[q],
         step'[p] # "none", TypeOK
  PROVE  DriverInv'
  <1>1. Mine' = Mine
    BY DEF Mine, driverVars, accounts
  <1>2. EveryEntryOnce'
    BY <1>1 DEF DriverInv, EveryEntryOnce, driverVars, accounts
  <1>3. \A q \in Mine : step'[q] # "none"
    BY DEF DriverInv, DriverOwns, Mine
  <1>4. DriverOwns'
    BY <1>1, <1>3 DEF DriverInv, DriverOwns, driverVars, accounts
  <1> QED BY <1>2, <1>4 DEF DriverInv

\* The step of a process that does not reach its receipt.
LEMMA RunKeepsAlone ==
  ASSUME SweepAlone, TypeOK, NEW p \in Procs,
         UNCHANGED <<port, name, receipts, driverVars>>,
         \A q \in Procs \ {p} : step'[q] = step[q],
         step[p] \in BeforeOpen \ {"open"}, step'[p] \in BeforeOpen
  PROVE  SweepAlone'
  <1>1. DriverIsAlone'
    BY DEF SweepAlone, DriverIsAlone, Mine, BeforeOpen, driverVars, accounts
  <1>2. NamesAreFresh'
    BY DEF SweepAlone, NamesAreFresh, BeforeOpen
  <1>3. ReceiptsAreWhereLeft'
    BY DEF SweepAlone, ReceiptsAreWhereLeft, Undisturbed, BeforeOpen, Whole, driverVars,
           accounts, TypeOK
  <1> QED BY <1>1, <1>2, <1>3 DEF SweepAlone

LEMMA PrepareKeeps ==
  ASSUME SweepInv, NEW p \in Procs, PrepareStep(p)
  PROVE  SweepInv'
  <1> USE DEF SweepInv
  <1>1. TypeOK' /\ CacheInv'
    BY PrepareTypes, PrepareKeepsCache DEF PrepareStep, CacheInv, TypeOK
  <1>2. OneDesignInv'
    BY PrepareKeepsInputs DEF OneDesignInv, ReceiptNamesItsDesign, PrepareStep, Whole
  <1>3. /\ UNCHANGED <<port, name, receipts, driverVars>>
        /\ \A q \in Procs \ {p} : step'[q] = step[q]
        /\ step[p] \in BeforeOpen \ {"open"} /\ step'[p] \in BeforeOpen
    BY DEF PrepareStep, Prepare, solveVars, Hash, LoadExtract, Extract, SaveExtract,
           LoadShapes, ReadShapes, SaveShapes, BeforeOpen, TypeOK, CacheTypeOK
  <1>4. DriverInv'
    BY <1>3, RunKeepsDriver DEF BeforeOpen
  <1>5. SweepAlone'
    BY <1>3, RunKeepsAlone
  <1> QED BY <1>1, <1>2, <1>4, <1>5

LEMMA SolveKeeps ==
  ASSUME SweepInv, NEW p \in Procs, Solve(p)
  PROVE  SweepInv'
  <1> USE DEF SweepInv, Solve, prepareVars, doubts
  <1>1. TypeOK'
    BY DEF TypeOK, CacheTypeOK, Steps, driverVars, accounts
  <1>2. CacheInv'
    BY SolveKeepsCache DEF TypeOK
  <1>3. InputsAreThere'
    <2>1. p \notin misled => sha[p] = spd
      BY DEF CacheInv, HashIsCurrent, Reads
    <2> QED BY <2>1, OneProcessInputs DEF TypeOK, CacheTypeOK, InputsAreThere, OneDesignInv
  <1>4. OneDesignInv'
    BY <1>3 DEF OneDesignInv, ReceiptNamesItsDesign, Whole
  <1>5. DriverInv'
    BY RunKeepsDriver DEF TypeOK, CacheTypeOK
  <1>6. SweepAlone'
    BY RunKeepsAlone DEF TypeOK, CacheTypeOK, BeforeOpen
  <1> QED BY <1>1, <1>2, <1>4, <1>5, <1>6

\* unique_path gives a sweep's process the plain name.
LEMMA UniquePathType ==
  ASSUME NEW a \in Ports, NEW n \in UniquePath(a)
  PROVE  /\ n \in Names
         /\ receipts[<<a, Plain>>] = NoReceipt => n = Plain
  BY DEF UniquePath, Names

LEMMA NameKeeps ==
  ASSUME SweepInv, NEW p \in Procs, NameReceipt(p)
  PROVE  SweepInv'
  <1> USE DEF SweepInv, NameReceipt, prepareVars, doubts
  <1>1. PICK n \in UniquePath(port[p]) : name' = [name EXCEPT ![p] = n]
    OBVIOUS
  <1>2. port[p] \in Ports
    BY DEF CacheInv, ReadsWhatItHashed
  <1>3. TypeOK'
    BY <1>1, <1>2, UniquePathType DEF TypeOK, CacheTypeOK, Steps, driverVars, accounts
  <1>4. CacheInv'
    BY SolveKeepsCache DEF TypeOK
  <1>5. InputsAreThere'
    BY OneProcessInputs DEF TypeOK, CacheTypeOK, InputsAreThere, OneDesignInv
  <1>6. OneDesignInv'
    BY <1>5 DEF OneDesignInv, ReceiptNamesItsDesign, Whole
  <1>7. DriverInv'
    BY RunKeepsDriver DEF TypeOK, CacheTypeOK
  <1>8. Undisturbed => name' = name
    <2> SUFFICES ASSUME Undisturbed PROVE name' = name
      OBVIOUS
    <2>1. n = Plain /\ name[p] = Plain
      BY <1>1, <1>2, UniquePathType DEF SweepAlone, ReceiptsAreWhereLeft, BeforeOpen
    <2> QED BY <1>1, <2>1 DEF TypeOK
  <1>9. DriverIsAlone'
    BY DEF SweepAlone, DriverIsAlone, Mine, driverVars, accounts, TypeOK, CacheTypeOK
  <1>10. NamesAreFresh'
    BY <1>1 DEF SweepAlone, NamesAreFresh, TypeOK, CacheTypeOK
  <1>11. ReceiptsAreWhereLeft'
    BY <1>8 DEF SweepAlone, ReceiptsAreWhereLeft, Undisturbed, BeforeOpen, Whole,
                driverVars, accounts, TypeOK, CacheTypeOK
  <1> QED BY <1>3, <1>4, <1>6, <1>7, <1>9, <1>10, <1>11 DEF SweepAlone

\* Undisturbed, a process writes the plain file of its port, which no other process
\* has.
LEMMA AloneFacts ==
  ASSUME SweepInv, Undisturbed, NEW p \in Procs, step[p] # "none"
  PROVE  /\ File(p) = <<port[p], Plain>>
         /\ port[p] \in Ports
         /\ \A q \in Procs \ {p} : step[q] # "none" => port[q] # port[p]
         /\ \A i \in queued \cup ok : list[i] # port[p]
  <1>1. File(p) = <<port[p], Plain>> /\ port[p] \in Ports
    BY DEF SweepInv, SweepAlone, ReceiptsAreWhereLeft, File, CacheInv, ReadsWhatItHashed
  <1>2. \A q \in Procs : step[q] # "none" => q \in Mine
    BY DEF SweepInv, SweepAlone, DriverIsAlone, Undisturbed
  <1>3. \A q \in Mine : future[q] \in todo /\ port[q] = list[future[q]]
    BY DEF SweepInv, DriverInv, EveryEntryOnce
  <1>4. \A i, j \in todo : list[i] = list[j] => i = j
    BY DEF Undisturbed
  <1>5. \A q \in Procs \ {p} : step[q] # "none" => port[q] # port[p]
    BY <1>2, <1>3, <1>4 DEF SweepInv, DriverInv, EveryEntryOnce
  <1>6. \A i \in queued \cup ok : i \in todo /\ i # future[p]
    BY <1>2 DEF SweepInv, DriverInv, EveryEntryOnce
  <1> QED BY <1>1, <1>2, <1>3, <1>4, <1>5, <1>6

\* A receipt that changes under its own process.
LEMMA FileKeepsAlone ==
  ASSUME SweepInv, NEW p \in Procs, step[p] # "none",
         UNCHANGED <<port, driverVars>>,
         \A q \in Procs \ {p} : step'[q] = step[q] /\ name'[q] = name[q],
         step'[p] \notin {"open", "write"} => name'[p] = Plain,
         Undisturbed => name' = name,
         NEW v, receipts' = [receipts EXCEPT ![File(p)] = v],
         step'[p] \notin BeforeOpen,
         step'[p] = "write" => v = Torn,
         (step'[p] = "exited" /\ Undisturbed) => v \notin {NoReceipt, Torn}
  PROVE  SweepAlone'
  <1>1. DriverIsAlone' /\ NamesAreFresh'
    BY DEF SweepInv, SweepAlone, DriverIsAlone, NamesAreFresh, Mine, driverVars, accounts
  <1>2. UNCHANGED <<list, todo, queued, ok, outside, port>> /\ Undisturbed' = Undisturbed
    BY DEF driverVars, accounts, Undisturbed
  <1> SUFFICES ASSUME Undisturbed PROVE ReceiptsAreWhereLeft'
    BY <1>1, <1>2 DEF SweepAlone, ReceiptsAreWhereLeft
  <1>3. /\ receipts' = [receipts EXCEPT ![<<port[p], Plain>>] = v]
        /\ name' = name /\ port[p] \in Ports
        /\ \A q \in Procs \ {p} : step[q] # "none" => port[q] # port[p]
        /\ \A i \in queued \cup ok : list[i] # port[p]
    BY AloneFacts
  <1>4. <<port[p], Plain>> \in Files
    BY <1>3 DEF Files, Names
  <1>5. \A a \in Ports : a # port[p] =>
          receipts'[<<a, Plain>>] = receipts[<<a, Plain>>]
    BY <1>3, <1>4 DEF SweepInv, TypeOK, Files, Names
  <1>a. /\ \A i \in queued \cup ok : list[i] \in Ports
        /\ \A q \in Procs : step[q] # "none" => port[q] \in Ports
    BY DEF SweepInv, TypeOK, CacheInv, ReadsWhatItHashed
  <1>6. receipts'[<<port[p], Plain>>] = v
    BY <1>3, <1>4 DEF SweepInv, TypeOK
  <1>7. /\ \A q \in Procs : name'[q] = Plain
        /\ \A i \in queued : receipts'[<<list[i], Plain>>] = NoReceipt
        /\ \A i \in ok : receipts'[<<list[i], Plain>>] \notin {NoReceipt, Torn}
    BY <1>3, <1>5, <1>a DEF SweepInv, SweepAlone, ReceiptsAreWhereLeft, Whole
  <1>8. ASSUME NEW q \in Procs
        PROVE  /\ step'[q] \in BeforeOpen => receipts'[<<port[q], Plain>>] = NoReceipt
               /\ step'[q] = "write" => receipts'[<<port[q], Plain>>] = Torn
               /\ step'[q] = "exited" =>
                    receipts'[<<port[q], Plain>>] \notin {NoReceipt, Torn}
    <2>1. CASE q = p
      BY <1>6, <2>1
    <2>2. CASE q # p
      BY <1>3, <1>5, <1>a, <2>2
         DEF SweepInv, SweepAlone, ReceiptsAreWhereLeft, Whole, BeforeOpen
    <2> QED BY <2>1, <2>2
  <1> QED BY <1>2, <1>7, <1>8 DEF ReceiptsAreWhereLeft, Whole

LEMMA OpenKeeps ==
  ASSUME SweepInv, NEW p \in Procs, OpenReceipt(p)
  PROVE  SweepInv'
  <1> USE DEF SweepInv, OpenReceipt, prepareVars, solveVars, doubts
  <1>1. File(p) \in Files
    BY DEF File, Files, TypeOK, CacheInv, ReadsWhatItHashed
  <1>2. TypeOK'
    BY <1>1 DEF TypeOK, CacheTypeOK, Steps, driverVars, accounts
  <1>3. CacheInv'
    BY SolveKeepsCache DEF TypeOK
  <1>4. InputsAreThere'
    BY OneProcessInputs DEF TypeOK, CacheTypeOK, InputsAreThere, OneDesignInv
  <1>5. OneDesignInv'
    BY <1>1, <1>4 DEF OneDesignInv, ReceiptNamesItsDesign, Whole, TypeOK
  <1>6. DriverInv'
    BY RunKeepsDriver DEF TypeOK, CacheTypeOK
  <1>7. SweepAlone'
    BY FileKeepsAlone DEF TypeOK, CacheTypeOK, BeforeOpen
  <1> QED BY <1>2, <1>3, <1>5, <1>6, <1>7

LEMMA ForgetFacts ==
  ASSUME TypeOK, NEW p \in Procs, Forget(p)
  PROVE  /\ sha' \in [Procs -> Designs \cup {None}]
         /\ got' \in [Procs -> [Items -> Designs \cup {None}]]
         /\ pending' \in [Procs -> SUBSET PlaneLayers]
         /\ claim' \in [Procs -> Designs \cup {None}]
         /\ name' \in [Procs -> Names]
         /\ misled' \subseteq Procs
         /\ \A q \in Procs \ {p} :
              /\ got'[q] = got[q] /\ claim'[q] = claim[q] /\ sha'[q] = sha[q]
              /\ name'[q] = name[q]
              /\ q \in misled' <=> q \in misled
         /\ name'[p] = Plain
         /\ (\A q \in Procs : name[q] = Plain) => name' = name
  <1>1. Nothing \in [Items -> Designs \cup {None}] /\ Plain \in Names
    BY DEF Nothing, Names
  <1> QED BY <1>1 DEF Forget, TypeOK, CacheTypeOK

LEMMA WriteKeeps ==
  ASSUME SweepInv, NEW p \in Procs, WriteReceipt(p)
  PROVE  SweepInv'
  <1> USE DEF SweepInv, WriteReceipt
  <1>1. File(p) \in Files
    BY DEF File, Files, TypeOK, CacheInv, ReadsWhatItHashed
  <1>2. Receipt(p) \in Receipts
    BY InputFacts DEF Receipt, Receipts, OneDesignInv, InputsAreThere, CacheInv
  <1>r. Receipt(p).trust = "sound" => Receipt(p).used = {Receipt(p).claim}
    BY UsedIsDesigns DEF Receipt, OneDesignInv, InputsAreThere, CacheInv
  <1>3. PICK v \in {Receipt(p), Torn} : receipts' = [receipts EXCEPT ![File(p)] = v]
    OBVIOUS
  <1>4. TypeOK'
    <2>1. receipts' \in [Files -> Receipts \cup {NoReceipt, Torn}]
      BY <1>1, <1>2, <1>3 DEF TypeOK
    <2> QED BY <2>1, ForgetFacts DEF TypeOK, CacheTypeOK, Steps, driverVars, accounts
  <1>5. CacheInv'
    BY EndKeepsCache DEF TypeOK
  <1>6. InputsAreThere'
    <2>1. /\ step'[p] = "exited" /\ UNCHANGED port
          /\ \A q \in Procs \ {p} : step'[q] = step[q]
      BY DEF TypeOK, CacheTypeOK
    <2> QED BY <2>1, ForgetFacts, OneProcessInputs DEF OneDesignInv
  <1>7. OneDesignInv'
    <2>1. ASSUME NEW f \in Files, Whole(f)', receipts'[f].trust = "sound"
          PROVE  receipts'[f].used = {receipts'[f].claim}
      <3>1. CASE f = File(p)
        BY <1>1, <1>r, <1>3, <2>1, <3>1 DEF Whole, TypeOK
      <3>2. CASE f # File(p)
        BY <1>3, <2>1, <3>2 DEF Whole, TypeOK, OneDesignInv, ReceiptNamesItsDesign
      <3> QED BY <3>1, <3>2
    <2> QED BY <1>6, <2>1 DEF OneDesignInv, ReceiptNamesItsDesign
  <1>8. DriverInv'
    BY RunKeepsDriver DEF TypeOK, CacheTypeOK
  <1>9. ASSUME Undisturbed PROVE v \notin {NoReceipt, Torn}
    <2>1. receipts' = [receipts EXCEPT ![File(p)] = Receipt(p)]
      BY <1>9, AloneFacts DEF File
    <2>2. Receipt(p) \notin {NoReceipt, Torn}
      BY <1>2, EngineSweepAssumption
    <2>3. v = Receipt(p)
      BY <1>1, <1>3, <2>1 DEF TypeOK
    <2> QED BY <2>2, <2>3
  <1>10. Undisturbed => name' = name
    BY ForgetFacts DEF SweepAlone, ReceiptsAreWhereLeft
  <1>11. SweepAlone'
    BY <1>3, <1>9, <1>10, ForgetFacts, FileKeepsAlone DEF TypeOK, CacheTypeOK, BeforeOpen
  <1> QED BY <1>4, <1>5, <1>7, <1>8, <1>11

LEMMA FailKeeps ==
  ASSUME SweepInv, NEW p \in Procs, Fail(p)
  PROVE  SweepInv'
  <1> USE DEF SweepInv, Fail
  <1>1. TypeOK'
    BY ForgetFacts DEF TypeOK, CacheTypeOK, Steps, driverVars, accounts
  <1>2. CacheInv'
    BY EndKeepsCache DEF TypeOK
  <1>3. InputsAreThere'
    BY ForgetFacts, OneProcessInputs DEF TypeOK, CacheTypeOK, OneDesignInv
  <1>4. OneDesignInv'
    BY <1>3 DEF OneDesignInv, ReceiptNamesItsDesign, Whole
  <1>5. DriverInv'
    BY RunKeepsDriver DEF TypeOK, CacheTypeOK
  <1>6. Undisturbed => name' = name
    BY ForgetFacts DEF SweepAlone, ReceiptsAreWhereLeft
  <1>7. DriverIsAlone'
    BY DEF SweepAlone, DriverIsAlone, Running, Mine, driverVars, accounts, TypeOK, CacheTypeOK
  <1>8. NamesAreFresh'
    BY ForgetFacts DEF SweepAlone, NamesAreFresh, TypeOK, CacheTypeOK
  <1>9. ReceiptsAreWhereLeft'
    BY <1>6 DEF SweepAlone, ReceiptsAreWhereLeft, Undisturbed, BeforeOpen, Whole,
                driverVars, accounts, TypeOK, CacheTypeOK
  <1> QED BY <1>1, <1>2, <1>4, <1>5, <1>7, <1>8, <1>9 DEF SweepAlone

\* A process begins or is gone: its inputs and the receipts are as before.
LEMMA StartOrGone ==
  ASSUME SweepInv, NEW p \in Procs,
         (\E a \in Ports : Start(p, a)) \/ Gone(p)
  PROVE  /\ CacheTypeOK' /\ CacheInv' /\ OneDesignInv'
         /\ UNCHANGED <<claim, name, receipts>>
  <1> USE DEF SweepInv, prepareVars, solveVars, doubts
  <1>1. CASE \E a \in Ports : Start(p, a)
    <2>1. CacheTypeOK' /\ UNCHANGED <<claim, name, receipts>>
      BY <1>1 DEF Start, TypeOK, CacheTypeOK, Steps
    <2>2. CacheInv'
      BY <1>1, StartKeepsCache DEF TypeOK
    <2>3. InputsAreThere'
      BY <1>1, OneProcessInputs DEF Start, TypeOK, CacheTypeOK, OneDesignInv
    <2> QED BY <2>1, <2>2, <2>3 DEF OneDesignInv, ReceiptNamesItsDesign, Whole
  <1>2. CASE Gone(p)
    <2>1. CacheTypeOK' /\ UNCHANGED <<claim, name, receipts>>
      BY <1>2 DEF Gone, TypeOK, CacheTypeOK, Steps
    <2>2. CacheInv'
      BY <1>2, GoneKeepsCache DEF TypeOK
    <2>3. InputsAreThere'
      BY <1>2, OneProcessInputs DEF Gone, TypeOK, CacheTypeOK, OneDesignInv
    <2> QED BY <2>1, <2>2, <2>3 DEF OneDesignInv, ReceiptNamesItsDesign, Whole
  <1> QED BY <1>1, <1>2

LEMMA SpawnKeeps ==
  ASSUME SweepInv, NEW p \in Procs, NEW i \in queued, Spawn(p, i)
  PROVE  SweepInv'
  <1> USE DEF SweepInv
  <1>a. i \in DOMAIN list /\ i \in Nat /\ i # 0 /\ list[i] \in Ports
    BY DEF TypeOK
  <1>1. /\ Start(p, list[i])
        /\ CacheTypeOK' /\ CacheInv' /\ OneDesignInv' /\ UNCHANGED <<claim, name, receipts>>
    BY <1>a, StartOrGone DEF Spawn
  <1>2. TypeOK'
    BY <1>1, <1>a DEF TypeOK, Spawn, Start
  <1>3. p \notin Mine
    BY DEF Spawn, Start, DriverInv, DriverOwns
  <1>4. /\ port'[p] = list[i] /\ step'[p] = "hash" /\ future'[p] = i
        /\ \A q \in Procs \ {p} :
             port'[q] = port[q] /\ step'[q] = step[q] /\ future'[q] = future[q]
    BY <1>1 DEF Spawn, Start, TypeOK, CacheTypeOK
  <1>5. Mine' = Mine \cup {p}
    BY <1>3, <1>4, <1>a DEF Mine
  <1>6. /\ UNCHANGED <<on, list, todo, ok, failed, outside>>
        /\ queued' = queued \ {i} /\ on
    BY DEF Spawn
  <1>7. DriverInv'
    <2>1. DriverOwns'
      BY <1>4, <1>5, <1>6 DEF DriverInv, DriverOwns, Mine
    <2>2. todo = queued \cup {future[q] : q \in Mine} \cup ok \cup failed
      BY DEF DriverInv, EveryEntryOnce
    <2>3. {future'[q] : q \in Mine'} = {future[q] : q \in Mine} \cup {i}
      BY <1>3, <1>4, <1>5 DEF Mine
    <2>4. todo' = queued' \cup {future'[q] : q \in Mine'} \cup ok' \cup failed'
      BY <1>6, <2>2, <2>3
    <2>5. \A q \in Mine :
            /\ q # p /\ future'[q] = future[q] /\ port'[q] = port[q]
            /\ future[q] # i /\ future[q] \notin queued \cup ok \cup failed
            /\ port[q] = list[future[q]]
      BY <1>3, <1>4 DEF DriverInv, EveryEntryOnce, Mine
    <2>6. i \notin ok \cup failed /\ future'[p] = i /\ port'[p] = list[i]
      BY <1>4 DEF DriverInv, EveryEntryOnce
    <2>7. EveryEntryOnce'
      BY <1>5, <1>6, <2>4, <2>5, <2>6 DEF DriverInv, EveryEntryOnce
    <2> QED BY <2>1, <2>7 DEF DriverInv
  <1>8. DriverIsAlone' /\ NamesAreFresh'
    BY <1>1, <1>4, <1>5, <1>6 DEF SweepAlone, DriverIsAlone, NamesAreFresh, Start
  <1>9. ReceiptsAreWhereLeft'
    BY <1>1, <1>4, <1>6
       DEF SweepAlone, ReceiptsAreWhereLeft, Undisturbed, BeforeOpen, Whole
  <1> QED BY <1>1, <1>2, <1>7, <1>8, <1>9 DEF SweepAlone

LEMMA ByHandKeeps ==
  ASSUME SweepInv, NEW p \in Procs, NEW a \in Ports, SolveByHand(p, a)
  PROVE  SweepInv'
  <1> USE DEF SweepInv
  <1>1. /\ Start(p, a)
        /\ CacheTypeOK' /\ CacheInv' /\ OneDesignInv' /\ UNCHANGED <<claim, name, receipts>>
    BY StartOrGone DEF SolveByHand
  <1>2. outside \in Nat /\ outside' \in 0..MaxMishaps /\ outside' # 0
    BY EngineSweepAssumption DEF TypeOK, SolveByHand, MoreMishaps
  <1>3. TypeOK' /\ UNCHANGED <<on, list, todo, queued, future, ok, failed>>
    BY <1>1, <1>2 DEF TypeOK, SolveByHand, Start, accounts
  <1>4. p \notin Mine
    BY DEF SolveByHand, Start, DriverInv, DriverOwns
  <1>5. \A q \in Procs \ {p} : port'[q] = port[q] /\ step'[q] = step[q]
    BY <1>1 DEF Start, TypeOK, CacheTypeOK
  <1>6. DriverInv'
    BY <1>3, <1>4, <1>5 DEF DriverInv, DriverOwns, EveryEntryOnce, Mine
  <1>7. NamesAreFresh'
    BY <1>1, <1>5 DEF SweepAlone, NamesAreFresh, Start
  <1> QED BY <1>1, <1>2, <1>3, <1>6, <1>7
          DEF SweepAlone, DriverIsAlone, ReceiptsAreWhereLeft, Undisturbed

LEMMA ReapKeeps ==
  ASSUME SweepInv, NEW p \in Procs, Reap(p)
  PROVE  SweepInv'
  <1> USE DEF SweepInv
  <1>1. /\ Gone(p) /\ p \in Mine
        /\ CacheTypeOK' /\ CacheInv' /\ OneDesignInv' /\ UNCHANGED <<claim, name, receipts>>
    BY StartOrGone DEF Reap
  <1>2. future[p] \in DOMAIN list
    BY <1>1 DEF TypeOK, Mine
  <1>3. TypeOK'
    BY <1>1, <1>2 DEF TypeOK, Reap, QueueAfter
  <1>4. /\ step'[p] = "none" /\ future'[p] = 0
        /\ \A q \in Procs \ {p} :
             port'[q] = port[q] /\ step'[q] = step[q] /\ future'[q] = future[q]
    BY <1>1 DEF Reap, Gone, TypeOK, CacheTypeOK
  <1>5. Mine' = Mine \ {p}
    BY <1>4 DEF Mine
  <1>6. /\ UNCHANGED <<on, list, todo, queued, outside>>
        /\ ok' = IF Succeeded(p) THEN ok \cup {future[p]} ELSE ok
        /\ failed' = IF Succeeded(p) THEN failed ELSE failed \cup {future[p]}
    BY DEF Reap, QueueAfter
  <1>7. DriverInv'
    <2>1. DriverOwns'
      BY <1>1, <1>4, <1>5, <1>6 DEF DriverInv, DriverOwns, Mine
    <2>2. todo = queued \cup {future[q] : q \in Mine} \cup ok \cup failed
      BY DEF DriverInv, EveryEntryOnce
    <2>3. {future[q] : q \in Mine} = {future'[q] : q \in Mine'} \cup {future[p]}
      BY <1>1, <1>4, <1>5 DEF Mine
    <2>4. ok' \cup failed' = ok \cup failed \cup {future[p]}
      BY <1>6
    <2>5. todo' = queued' \cup {future'[q] : q \in Mine'} \cup ok' \cup failed'
      BY <1>6, <2>2, <2>3, <2>4
    <2>6. \A q \in Mine' :
            /\ q \in Mine /\ q # p /\ future'[q] = future[q] /\ port'[q] = port[q]
            /\ future[q] # future[p]
      BY <1>1, <1>4, <1>5 DEF DriverInv, EveryEntryOnce, Mine
    <2>7. EveryEntryOnce'
      BY <1>1, <1>6, <2>4, <2>5, <2>6 DEF DriverInv, EveryEntryOnce
    <2> QED BY <2>1, <2>7 DEF DriverInv
  <1>8. DriverIsAlone' /\ NamesAreFresh'
    BY <1>1, <1>4, <1>5, <1>6 DEF SweepAlone, DriverIsAlone, NamesAreFresh, Gone
  <1>9. ReceiptsAreWhereLeft'
    <2> SUFFICES ASSUME Undisturbed PROVE ReceiptsAreWhereLeft'
      BY <1>6 DEF ReceiptsAreWhereLeft, Undisturbed
    <2>1. port[p] = list[future[p]]
      BY <1>1 DEF DriverInv, EveryEntryOnce
    <2>2. \A i \in ok' : Whole(<<list[i], Plain>>)
      BY <1>6, <2>1 DEF Succeeded, SweepAlone, ReceiptsAreWhereLeft
    <2> QED BY <1>1, <1>4, <1>6, <2>2
            DEF SweepAlone, ReceiptsAreWhereLeft, BeforeOpen, Whole
  <1> QED BY <1>1, <1>3, <1>7, <1>8, <1>9 DEF SweepAlone

LEMMA ReapOutsideKeeps ==
  ASSUME SweepInv, NEW p \in Procs, ReapOutside(p)
  PROVE  SweepInv'
  <1> USE DEF SweepInv
  <1>1. /\ Gone(p) /\ p \notin Mine /\ UNCHANGED driverVars
        /\ CacheTypeOK' /\ CacheInv' /\ OneDesignInv' /\ UNCHANGED <<claim, name, receipts>>
    BY StartOrGone DEF ReapOutside
  <1>2. TypeOK'
    BY <1>1 DEF TypeOK, driverVars, accounts
  <1>3. outside # 0 /\ outside' # 0
    BY <1>1 DEF Gone, SweepAlone, DriverIsAlone, driverVars
  <1>4. /\ step'[p] = "none"
        /\ \A q \in Procs \ {p} : port'[q] = port[q] /\ step'[q] = step[q]
    BY <1>1 DEF Gone, TypeOK, CacheTypeOK
  <1>5. DriverInv'
    BY <1>1, <1>4
       DEF driverVars, accounts, DriverInv, DriverOwns, EveryEntryOnce, Mine
  <1>6. NamesAreFresh'
    BY <1>1, <1>4 DEF SweepAlone, NamesAreFresh, Gone
  <1> QED BY <1>1, <1>2, <1>3, <1>5, <1>6
          DEF SweepAlone, DriverIsAlone, ReceiptsAreWhereLeft, Undisturbed

\* Nothing but the driver's accounts changes.
LEMMA ProcessesAlone ==
  ASSUME SweepInv, UNCHANGED <<cacheVars, solveVars, receipts>>
  PROVE  CacheTypeOK' /\ CacheInv' /\ OneDesignInv'
  <1> USE DEF cacheVars, prepareVars, doubts, solveVars, SweepInv
  <1>1. CacheTypeOK'
    BY DEF TypeOK, CacheTypeOK
  <1>2. CacheInv'
    BY DEF CacheInv, ReadsWhatItHashed, Idle, HashIsCurrent, Reads, EntriesMatchTheirKey
  <1>3. OneDesignInv'
    BY DEF OneDesignInv, ReceiptNamesItsDesign, InputsAreThere, Whole
  <1> QED BY <1>1, <1>2, <1>3

LEMMA StartSweepKeeps ==
  ASSUME SweepInv, StartSweep
  PROVE  SweepInv'
  <1> USE DEF SweepInv, StartSweep
  <1>1. CacheTypeOK' /\ CacheInv' /\ OneDesignInv'
    BY ProcessesAlone
  <1>2. UNCHANGED <<step, port, claim, name, receipts, future, outside, faults>>
    BY DEF cacheVars, solveVars
  <1>3. Mine = {} /\ Mine' = {}
    BY <1>2 DEF DriverInv, DriverOwns, Mine
  <1>4. PICK ports \in Lists : list' = ports /\ todo' = Todo(ports)
    OBVIOUS
  <1>5. /\ list' \in Seq(Ports) /\ todo' \subseteq DOMAIN list' /\ queued' = todo'
        /\ ok' = {} /\ failed' = {} /\ (on' <=> todo' # {}) /\ on' \in BOOLEAN
    BY <1>4, EngineSweepAssumption DEF Todo
  <1>6. future' \in [Procs -> DOMAIN list' \cup {0}]
    BY <1>2, <1>3 DEF TypeOK, Mine
  <1>7. TypeOK'
    BY <1>1, <1>2, <1>5, <1>6 DEF TypeOK
  <1>8. DriverInv'
    BY <1>2, <1>3, <1>5 DEF DriverInv, DriverOwns, EveryEntryOnce
  <1>9. DriverIsAlone' /\ NamesAreFresh'
    BY <1>2, <1>3 DEF SweepAlone, DriverIsAlone, NamesAreFresh
  <1>10. ReceiptsAreWhereLeft'
    <2> SUFFICES ASSUME outside = 0 PROVE ReceiptsAreWhereLeft'
      BY <1>2 DEF ReceiptsAreWhereLeft, Undisturbed
    <2>1. \A p \in Procs : step[p] = "none"
      BY <1>3 DEF SweepAlone, DriverIsAlone
    <2>2. \A p \in Procs : name[p] = Plain
      BY <2>1 DEF SweepAlone, NamesAreFresh
    <2>3. \A i \in queued' : receipts[<<list'[i], Plain>>] = NoReceipt
      BY <1>4, <1>5 DEF Todo
    <2> QED BY <1>2, <1>5, <2>1, <2>2, <2>3 DEF ReceiptsAreWhereLeft, BeforeOpen
  <1> QED BY <1>1, <1>7, <1>8, <1>9, <1>10 DEF SweepAlone

LEMMA EndSweepKeeps ==
  ASSUME SweepInv, EndSweep
  PROVE  SweepInv'
  <1> USE DEF SweepInv, EndSweep, cacheVars, solveVars
  <1>1. CacheTypeOK' /\ CacheInv' /\ OneDesignInv'
    BY ProcessesAlone
  <1>2. TypeOK'
    BY <1>1 DEF TypeOK
  <1>3. DriverInv'
    BY DEF DriverInv, DriverOwns, EveryEntryOnce, Mine
  <1>4. SweepAlone'
    BY DEF SweepAlone, DriverIsAlone, NamesAreFresh, ReceiptsAreWhereLeft, Undisturbed,
           Mine, Whole
  <1> QED BY <1>1, <1>2, <1>3, <1>4

LEMMA KillSweepKeeps ==
  ASSUME SweepInv, KillSweep
  PROVE  SweepInv'
  <1> USE DEF SweepInv, KillSweep, cacheVars, solveVars
  <1>1. CacheTypeOK' /\ CacheInv' /\ OneDesignInv'
    BY ProcessesAlone
  <1>2. outside' \in 0..MaxMishaps /\ outside' # 0
    BY EngineSweepAssumption DEF TypeOK, MoreMishaps
  <1>3. list' \in Seq(Ports) /\ Mine' = {}
    BY DEF Mine
  <1>4. TypeOK'
    BY <1>1, <1>2, <1>3 DEF TypeOK
  <1>5. DriverInv'
    BY <1>3 DEF DriverInv, DriverOwns, EveryEntryOnce
  <1>6. SweepAlone'
    BY <1>2 DEF SweepAlone, DriverIsAlone, NamesAreFresh, ReceiptsAreWhereLeft, Undisturbed
  <1> QED BY <1>1, <1>4, <1>5, <1>6

\* The processes stay where they are.
LEMMA MishapKeeps ==
  ASSUME SweepInv, MoveSpd \/ SpoilEntry
  PROVE  SweepInv'
  <1> USE DEF SweepInv, MoveSpd, SpoilEntry, solveVars, accounts
  <1>1. CacheInv' /\ CacheTypeOK'
    BY ReplaceKeepsCache, SpoilKeepsCache DEF TypeOK
  <1>2. UNCHANGED <<step, port, got, sha>>
    BY DEF ReplaceSpd, Spoil, prepareVars
  <1>3. faults' \in 0..MaxMishaps
    BY EngineSweepAssumption DEF TypeOK, MoreMishaps
  <1>4. TypeOK'
    BY <1>1, <1>3 DEF TypeOK
  <1>5. misled \subseteq misled'
    BY DEF ReplaceSpd, Spoil
  <1>6. OneDesignInv'
    BY <1>2, <1>5 DEF OneDesignInv, ReceiptNamesItsDesign, InputsAreThere, Whole
  <1>7. DriverInv'
    BY <1>2 DEF DriverInv, DriverOwns, EveryEntryOnce, Mine
  <1>8. SweepAlone'
    BY <1>2 DEF SweepAlone, DriverIsAlone, NamesAreFresh, ReceiptsAreWhereLeft,
                Undisturbed, Mine, BeforeOpen, Whole
  <1> QED BY <1>1, <1>4, <1>6, <1>7, <1>8

-----------------------------------------------------------------------------
(* The invariant.                                                          *)

LEMMA SweepInit == Init => SweepInv
  <1> SUFFICES ASSUME Init PROVE SweepInv
    OBVIOUS
  <1>1. TypeOK
    BY InitTypes
  <1>2. CacheInv
    BY EngineCacheAssumption
       DEF Init, CacheInit, CacheInv, ReadsWhatItHashed, Idle, Nothing, HashIsCurrent,
           Reads, Reading, EntriesMatchTheirKey
  <1>3. OneDesignInv
    BY DEF Init, CacheInit, OneDesignInv, ReceiptNamesItsDesign, InputsAreThere, Whole
  <1>4. DriverInv
    BY DEF Init, DriverInv, DriverOwns, EveryEntryOnce, Mine
  <1>5. SweepAlone
    BY DEF Init, CacheInit, SweepAlone, DriverIsAlone, NamesAreFresh, ReceiptsAreWhereLeft,
           BeforeOpen
  <1> QED BY <1>1, <1>2, <1>3, <1>4, <1>5 DEF SweepInv

LEMMA SweepNext ==
  ASSUME SweepInv, [Next]_vars
  PROVE  SweepInv'
  <1>1. CASE StartSweep \/ EndSweep \/ KillSweep
    BY <1>1, StartSweepKeeps, EndSweepKeeps, KillSweepKeeps
  <1>2. CASE \E p \in Procs : Work(p)
    BY <1>2, PrepareKeeps, SolveKeeps, NameKeeps, OpenKeeps, WriteKeeps DEF Work
  <1>3. CASE \E p \in Procs : Fail(p)
    BY <1>3, FailKeeps
  <1>4. CASE \E p \in Procs : Reap(p)
    BY <1>4, ReapKeeps
  <1>5. CASE \E p \in Procs : ReapOutside(p)
    BY <1>5, ReapOutsideKeeps
  <1>6. CASE \E p \in Procs, i \in queued : Spawn(p, i)
    BY <1>6, SpawnKeeps
  <1>7. CASE \E p \in Procs, a \in Ports : SolveByHand(p, a)
    BY <1>7, ByHandKeeps
  <1>8. CASE MoveSpd \/ SpoilEntry
    BY <1>8, MishapKeeps
  <1>9. CASE UNCHANGED vars
    <2>1. CacheTypeOK' /\ CacheInv' /\ OneDesignInv'
      BY <1>9, ProcessesAlone DEF vars
    <2>2. TypeOK' /\ DriverInv' /\ SweepAlone'
      BY <1>9, <2>1
         DEF vars, cacheVars, solveVars, driverVars, accounts, SweepInv, TypeOK, DriverInv,
             DriverOwns, EveryEntryOnce, Mine, SweepAlone, DriverIsAlone, NamesAreFresh,
             ReceiptsAreWhereLeft, Undisturbed, BeforeOpen, Whole
    <2> QED BY <2>1, <2>2 DEF SweepInv
  <1> QED BY <1>1, <1>2, <1>3, <1>4, <1>5, <1>6, <1>7, <1>8, <1>9 DEF Next

\* The whole of it.
THEOREM SweepInvariant == Spec => []SweepInv
  <1>1. SweepInv /\ [Next]_vars => SweepInv'
    BY SweepNext
  <1> QED BY <1>1, SweepInit, PTL DEF Spec

\* Every variable of the cache and the sweep has its type (cache.py, cli.py).
THEOREM SweepTypeCorrect == Spec => []TypeOK
  <1>1. SweepInv => TypeOK
    BY DEF SweepInv
  <1> QED BY <1>1, SweepInvariant, PTL

\* An entry that can be used was made from the SPD its key names (CacheDir), unless a
\* process under which the SPD was replaced has a part in it.
THEOREM EntriesAreRight == Spec => []EntriesMatchTheirKey
  <1>1. SweepInv => EntriesMatchTheirKey
    BY DEF SweepInv, CacheInv
  <1> QED BY <1>1, SweepInvariant, PTL

\* A receipt names the SPD its numbers come from, and no other (prepare, cmd_solve),
\* unless the SPD was replaced under a process that has a part in it.
THEOREM ReceiptsNameTheirDesign == Spec => []ReceiptNamesItsDesign
  <1>1. SweepInv => ReceiptNamesItsDesign
    BY DEF SweepInv, OneDesignInv
  <1> QED BY <1>1, SweepInvariant, PTL

\* The driver loses no entry of the list it was given, runs a process for each once
\* and counts each once, whatever the list names twice (cmd_sweep).
THEOREM EntriesOnce == Spec => []EveryEntryOnce
  <1>1. SweepInv => EveryEntryOnce
    BY DEF SweepInv, DriverInv
  <1> QED BY <1>1, SweepInvariant, PTL

\* A port counted OK has its receipt while every process is the driver's and no port
\* is solved twice (run_one).
THEOREM OkMeansWhole == Spec => []OkIsWhole
  <1>1. SweepInv => OkIsWhole
    BY DEF SweepInv, SweepAlone, ReceiptsAreWhereLeft, OkIsWhole
  <1> QED BY <1>1, SweepInvariant, PTL

\* What can happen to a file that holds a whole receipt.
LEMMA ReceiptsAreKept ==
  ASSUME SweepInv, [Next]_vars, Undisturbed, NEW f \in Files, Whole(f)
  PROVE  receipts'[f] = receipts[f]
  <1>1. CASE UNCHANGED receipts
    BY <1>1
  <1>2. CASE \E p \in Procs : OpenReceipt(p) \/ WriteReceipt(p)
    <2>1. PICK p \in Procs : OpenReceipt(p) \/ WriteReceipt(p)
      BY <1>2
    <2>3. /\ step[p] = "open" => receipts[File(p)] = NoReceipt
          /\ step[p] = "write" => receipts[File(p)] = Torn
      BY DEF SweepInv, SweepAlone, ReceiptsAreWhereLeft, BeforeOpen, File
    <2>4. f # File(p)
      BY <2>1, <2>3 DEF OpenReceipt, WriteReceipt, Whole
    <2> QED BY <2>1, <2>4 DEF OpenReceipt, WriteReceipt, SweepInv, TypeOK
  <1>3. UNCHANGED receipts \/ \E p \in Procs : OpenReceipt(p) \/ WriteReceipt(p)
    BY DEF Next, vars, StartSweep, EndSweep, KillSweep, Work, PrepareStep, Solve,
           NameReceipt, Fail, Reap, ReapOutside, Gone, Spawn, SolveByHand, Start,
           MoveSpd, SpoilEntry
  <1> QED BY <1>1, <1>2, <1>3

\* A sweep leaves the receipts of earlier sweeps alone, however often it is
\* started, while every process is the driver's and no port is solved twice
\* (cmd_sweep, unique_path).
THEOREM SweepsKeepReceipts == Spec => SweepKeepsReceipts
  <1>1. SweepInv /\ [Next]_vars =>
          [Undisturbed /\ outside' = 0 => \A f \in Files : Whole(f) => receipts'[f] = receipts[f]]_vars
    BY ReceiptsAreKept
  <1> QED BY <1>1, SweepInvariant, PTL DEF Spec, SweepKeepsReceipts
=============================================================================
