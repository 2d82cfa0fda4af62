----------------------------- MODULE PadClusters -----------------------------
(***************************************************************************)
(* What the copper of a board says about its decaps (scenario.py): decaps  *)
(* whose pads touch form a shared-pad cluster, and removing a pad cell,    *)
(* an isolation gap, may cut the cluster into islands.                     *)
(*                                                                         *)
(* A board b is the connection analysis of a source SPD, which no edit     *)
(* changes.  It keeps the clusters that have a via; nothing reads the      *)
(* edges of the floating and unresolved ones.  A board that has not been   *)
(* analyzed has only DIRECT decaps.  d is what the scenario says of each   *)
(* decap: its current rail and model, whether it is enabled, and whether   *)
(* its pad cell is an isolation gap.                                       *)
(***************************************************************************)
EXTENDS FiniteSets

CONSTANTS
  Refdes,
  Rails,
  Nets,
  Models,
  NoModel,
  Vias,
  Clusters,
  NoCluster

ASSUME PadAssumption == NoModel \notin Models /\ NoCluster \notin Clusters

Kinds == {"DIRECT", "SHARED_ANCHOR", "SHARED_DUMMY",
          "FLOATING_DUMMY", "UNRESOLVED", "OUT_OF_SCOPE"}

Decap ==
  [rail : Rails, model : Models \cup {NoModel}, enabled : BOOLEAN, gap : BOOLEAN]

Board ==
  [analyzed : BOOLEAN,                    \* connection_analysis is not None
   oneGround : BOOLEAN,                   \* an analysis older than V5
   net : [Rails -> Nets],
   kind : [Refdes -> Kinds],
   cluster : [Refdes -> Clusters \cup {NoCluster}],
   powerEdges : SUBSET SUBSET Refdes,
   groundEdges : SUBSET SUBSET Refdes,
   powerVias : [Refdes -> SUBSET Vias],
   groundVias : [Refdes -> SUBSET Vias],
   viaRails : [Vias -> SUBSET Rails],     \* via_eligibility, where allowed
   ownRails : [Refdes -> SUBSET Rails],   \* eligibility of the decap itself
   gapCells : SUBSET Refdes,              \* isolation_gap_refdes
   fits : SUBSET (Models \X Refdes),      \* the footprints agree
   source : [Refdes -> Decap]]

-----------------------------------------------------------------------------
(* derive_shared_pad_current_components.                                   *)

Shared(b, x) == b.cluster[x] # NoCluster

Members(b, c) == {x \in Refdes : b.cluster[x] = c}

\* The pad cells that are still there; a disabled decap keeps its pads.
Cells(b, d, c) == {x \in Members(b, c) : ~d[x].gap}

Closed(edges, cells, S) ==
  \A e \in edges : e \subseteq cells /\ e \cap S # {} => e \subseteq S

\* The cells copper joins to x.
Segment(edges, cells, x) ==
  {y \in cells : \A S \in SUBSET cells : x \in S /\ Closed(edges, cells, S) => y \in S}

Segments(edges, cells) == {Segment(edges, cells, x) : x \in cells}

Islands(b, d, c) == Segments(b.powerEdges, Cells(b, d, c))

\* Before V5 the ground pads of a cluster count as one.
GroundIslands(b, d, c) ==
  IF b.oneGround THEN {Cells(b, d, c)} ELSE Segments(b.groundEdges, Cells(b, d, c))

Net(b, d, x) == b.net[d[x].rail]

\* SharedPadActiveShortError.
Shorted(b, d, c) ==
  \E e \in b.powerEdges :
    e \subseteq Cells(b, d, c) /\ \E x, y \in e : Net(b, d, x) # Net(b, d, y)

\* SharedPadRailAliasConflictError.
MixedRails(d, I) == \E x, y \in I : d[x].rail # d[y].rail

ViasOf(via, I) == UNION {via[x] : x \in I}

\* Mutant: only islands with the same vias are taken to share one.
SplitsEveryVia(via, islands) ==
  \E I, J \in islands : I # J /\ ViasOf(via, I) = ViasOf(via, J)

\* A via conflict: one via under two islands.
SplitsVia(via, islands) ==
  \E I, J \in islands : I # J /\ ViasOf(via, I) \cap ViasOf(via, J) # {}

-----------------------------------------------------------------------------
(* shared_pad_component_eligibility, with require_all_vias=False.          *)

\* Mutant: every via of the island has to offer the rail, or there is none.
OfferedByAll(b, I) ==
  {r \in Rails : \A v \in ViasOf(b.powerVias, I) : r \in b.viaRails[v]}

Offered(b, I) == UNION {b.viaRails[v] : v \in ViasOf(b.powerVias, I)}

\* Some via of the island offers its rail; an island of dummies has none.
Fed(b, d, I) == {d[x].rail : x \in I} \subseteq Offered(b, I)

-----------------------------------------------------------------------------
(* ScenarioSpec._validate_connection_analysis.                             *)

PowerSound(b, d, c) ==
  /\ ~Shorted(b, d, c)
  /\ \A I \in Islands(b, d, c) : ~MixedRails(d, I) /\ Fed(b, d, I)
  /\ ~SplitsVia(b.powerVias, Islands(b, d, c))

GroundSound(b, d, c) == ~SplitsVia(b.groundVias, GroundIslands(b, d, c))

GapsSound(b, d) == \A x \in Refdes : d[x].gap => x \in b.gapCells /\ ~d[x].enabled

Valid(b, d) ==
  /\ \A c \in Clusters : PowerSound(b, d, c) /\ GroundSound(b, d, c)
  /\ GapsSound(b, d)

\* What a connection and its vias may be.
SoundConnections(b) ==
  \A x \in Refdes :
    /\ Shared(b, x) <=> b.kind[x] \in {"SHARED_ANCHOR", "SHARED_DUMMY"}
    /\ b.analyzed /\ b.kind[x] = "DIRECT" =>
         b.powerVias[x] # {} /\ b.groundVias[x] # {}
    /\ b.kind[x] = "SHARED_ANCHOR" => b.powerVias[x] \cup b.groundVias[x] # {}
    /\ b.kind[x] \in {"SHARED_DUMMY", "FLOATING_DUMMY"} =>
         b.powerVias[x] \cup b.groundVias[x] = {}
    /\ ~b.analyzed => b.kind[x] = "DIRECT"

SameUnit(b, x, y) ==
  \/ x = y
  \/ Shared(b, x) /\ b.cluster[x] = b.cluster[y]
  \/ b.kind[x] = "UNRESOLVED" /\ b.kind[y] = "UNRESOLVED"

\* A via belongs to one terminal of one decap or cluster.
SoundVias(b) ==
  \A x, y \in Refdes :
    /\ b.powerVias[x] \cap b.groundVias[y] = {}
    /\ ~SameUnit(b, x, y) =>
         /\ b.powerVias[x] \cap b.powerVias[y] = {}
         /\ b.groundVias[x] \cap b.groundVias[y] = {}

Connects(edges, cells) == \A x \in cells : Segment(edges, cells, x) = cells

SoundClusters(b) ==
  /\ \A e \in b.powerEdges \cup b.groundEdges :
       \E x, y \in Refdes :
         x # y /\ e = {x, y} /\ Shared(b, x) /\ b.cluster[x] = b.cluster[y]
  /\ \A x \in b.gapCells : Shared(b, x)
  /\ \A c \in Clusters : Members(b, c) # {} =>
       /\ \E x, y \in Members(b, c) : x # y
       /\ \E x \in Members(b, c) : b.powerVias[x] # {}
       /\ \E x \in Members(b, c) : b.groundVias[x] # {}
       /\ Connects(b.powerEdges, Members(b, c))
       /\ b.oneGround => Connects(b.groundEdges, Members(b, c))
       /\ ~MixedRails(b.source, Members(b, c))

SoundSource(b) == Valid(b, b.source) /\ \A x \in Refdes : ~b.source[x].gap

SoundBoard(b) ==
  /\ b \in Board
  /\ SoundConnections(b)
  /\ SoundVias(b)
  /\ SoundClusters(b)
  /\ SoundSource(b)
=============================================================================
