------------------------------ MODULE EngineCache ------------------------------
(***************************************************************************)
(* The cache directory of spd_pi_engine (cache.py) and prepare             *)
(* (spd_source.py), which several processes run at once: hash the SPD,     *)
(* take the extract of a port and the shapes of the layers around its rail *)
(* from the cache, and read the SPD again for what the cache has not.      *)
(*                                                                         *)
(* A temporary file belongs to one process and one entry, and no reader    *)
(* opens it, so a write is its os.replace.                                 *)
(***************************************************************************)
EXTENDS Naturals, FiniteSets

CONSTANTS
  Procs,        \* operating system processes
  Designs,      \* what the SPD file may contain; the sha256 of an SPD is itself
  Ports,
  PlaneLayers,
  Need,         \* the layers around the rail of each port
  None,         \* no entry, no value
  Unusable      \* a truncated entry, or one with the header of another engine

Items == Ports \cup PlaneLayers

ASSUME EngineCacheAssumption ==
  /\ Ports \cap PlaneLayers = {}
  /\ Need \in [Ports -> SUBSET PlaneLayers]
  /\ None \notin Designs
  /\ Unusable \notin Designs \cup {None}

VARIABLES
  spd,      \* content of the SPD file
  cached,   \* the entry of each file: its key is an SPD's sha256 and an item
  step,     \* where each process is
  port,     \* the port it was started for
  sha,      \* the sha256 it computed
  got,      \* the design each of its inputs was read from
  pending,  \* layers of the loop it is in
  misled,   \* history: processes under which the SPD was replaced, and those that
            \* took an entry such a process wrote
  doubtful  \* history: the entries misled processes wrote

prepareVars == <<sha, got, pending>>
doubts == <<misled, doubtful>>
cacheVars == <<spd, cached, step, port, prepareVars, doubts>>

Nothing == [i \in Items |-> None]

CacheInit ==
  /\ spd \in Designs
  /\ cached = [k \in Designs \X Items |-> None]
  /\ step = [p \in Procs |-> "none"]
  /\ port = [p \in Procs |-> None]
  /\ sha = [p \in Procs |-> None]
  /\ got = [p \in Procs |-> Nothing]
  /\ pending = [p \in Procs |-> {}]
  /\ misled = {}
  /\ doubtful = {}

At(p, s) == step[p] = s

Goto(p, s) == step' = [step EXCEPT ![p] = s]

-----------------------------------------------------------------------------
(* prepare.                                                                *)

Hash(p) ==
  /\ At(p, "hash")
  /\ sha' = [sha EXCEPT ![p] = spd]
  /\ Goto(p, "find")
  /\ UNCHANGED <<spd, cached, port, got, pending, doubts>>

\* Mutant: the shapes of a layer are taken from the file of any SPD.
EntryOfAny(p, i) == {cached[<<d, i>>] : d \in Designs} \cap Designs

\* CacheDir._read: what a lookup may return.  Everything but a readable entry
\* with the right header is a miss.
Entry(p, i) == {cached[<<sha[p], i>>]} \cap Designs

\* A file that another process replaces at the moment cannot be opened, which
\* is a miss too.
Outcomes(p, i) == Entry(p, i) \cup {None}

\* Mutant: the file is named after the board, whatever its SPD contains.
KeyOfBoard(p, i) == <<CHOOSE d \in Designs : TRUE, i>>

Key(p, i) == <<sha[p], i>>

Take(p, i, found) ==
  /\ got' = [got EXCEPT ![p][i] = found]
  /\ misled' = misled \cup {q \in {p} : found # None /\ Key(p, i) \in doubtful}

LoadExtract(p) ==
  /\ At(p, "find")
  /\ \E found \in Outcomes(p, port[p]) :
       /\ Take(p, port[p], found)
       /\ Goto(p, IF found = None THEN "extract" ELSE "walk")
       /\ pending' =
            [pending EXCEPT ![p] = IF found = None THEN {} ELSE Need[port[p]]]
  /\ UNCHANGED <<spd, cached, port, sha, doubtful>>

Extract(p) ==
  /\ At(p, "extract")
  /\ got' = [got EXCEPT ![p][port[p]] = spd]
  /\ Goto(p, "save")
  /\ UNCHANGED <<spd, cached, port, sha, pending, doubts>>

Save(p, i) ==
  /\ cached' = [cached EXCEPT ![Key(p, i)] = got[p][i]]
  /\ doubtful' = IF p \in misled THEN doubtful \cup {Key(p, i)} ELSE doubtful \ {Key(p, i)}

SaveExtract(p) ==
  /\ At(p, "save")
  /\ Save(p, port[p])
  /\ pending' = [pending EXCEPT ![p] = Need[port[p]]]
  /\ Goto(p, "walk")
  /\ UNCHANGED <<spd, port, sha, got, misled>>

LoadShapes(p) ==
  /\ At(p, "walk")
  /\ \E l \in pending[p] : \E found \in Outcomes(p, l) :
       /\ Take(p, l, found)
       /\ pending' = [pending EXCEPT ![p] = @ \ {l}]
  /\ UNCHANGED <<spd, cached, step, port, sha, doubtful>>

Missed(p) == {l \in Need[port[p]] : got[p][l] = None}

\* load_layer_shapes, if the cache missed a layer.
ReadShapes(p) ==
  /\ At(p, "walk")
  /\ pending[p] = {}
  /\ pending' = [pending EXCEPT ![p] = Missed(p)]
  /\ got' = [got EXCEPT ![p] = [i \in Items |-> IF i \in Missed(p) THEN spd ELSE @[i]]]
  /\ Goto(p, IF Missed(p) = {} THEN "solve" ELSE "keep")
  /\ UNCHANGED <<spd, cached, port, sha, doubts>>

SaveShapes(p) ==
  /\ At(p, "keep")
  /\ \E l \in pending[p] :
       /\ Save(p, l)
       /\ pending' = [pending EXCEPT ![p] = @ \ {l}]
  /\ Goto(p, IF pending'[p] = {} THEN "solve" ELSE "keep")
  /\ UNCHANGED <<spd, port, sha, got, misled>>

Prepare(p) ==
  \/ Hash(p)
  \/ LoadExtract(p)
  \/ Extract(p)
  \/ SaveExtract(p)
  \/ LoadShapes(p)
  \/ ReadShapes(p)
  \/ SaveShapes(p)

-----------------------------------------------------------------------------
(* The environment.                                                        *)

\* From its hash to its last read of the file.
Reading == {"find", "extract", "save", "walk"}

\* The user replaces the SPD.  The code compares no two of its reads, so nothing
\* keeps a process from reading one file and hashing another.
ReplaceSpd(readers) ==
  /\ \E d \in Designs \ {spd} : spd' = d
  /\ misled' = misled \cup readers
  /\ UNCHANGED <<cached, step, port, prepareVars, doubtful>>

\* A power loss tears an entry, for it is never synced, or an upgrade of the
\* engine or of numpy makes its header stale.  Torn in a place that unpickling does
\* not notice is not modelled: an entry has no checksum (cache.py:134-144).
Spoil ==
  /\ \E k \in Designs \X Items :
       /\ cached[k] \in Designs
       /\ cached' = [cached EXCEPT ![k] = Unusable]
       /\ doubtful' = doubtful \ {k}
  /\ UNCHANGED <<spd, step, port, prepareVars, misled>>

-----------------------------------------------------------------------------
(* Correctness.                                                            *)

Steps == {"none", "hash", "find", "extract", "save", "walk", "keep", "solve",
          "name", "open", "write", "exited", "failed", "check", "tell", "hung"}

CacheTypeOK ==
  /\ spd \in Designs
  /\ cached \in [Designs \X Items -> Designs \cup {None, Unusable}]
  /\ step \in [Procs -> Steps]
  /\ port \in [Procs -> Ports \cup {None}]
  /\ sha \in [Procs -> Designs \cup {None}]
  /\ got \in [Procs -> [Items -> Designs \cup {None}]]
  /\ pending \in [Procs -> SUBSET PlaneLayers]
  /\ misled \subseteq Procs
  /\ doubtful \subseteq Designs \X Items

\* An entry that can be used was made from the SPD its key names, whichever
\* processes raced to write it and whatever the file contains by now, unless the
\* last process to write it was misled: the SPD was replaced between its hash and
\* its last read, or it took an entry of such a process.
EntriesMatchTheirKey ==
  \A k \in (Designs \X Items) \ doubtful : cached[k] \in Designs => cached[k] = k[1]
=============================================================================
