----------------------------- MODULE Distribution -----------------------------
(***************************************************************************)
(* The optimizer of a decap distribution (distribution.py): it reads how   *)
(* many decaps of each model sit on each rail, takes the counts the user   *)
(* wants, and looks for the relabels and isolation gaps that come nearest  *)
(* to them.  It does so in stages: each solves one objective and then      *)
(* keeps its optimum as a row of the next.  What it answers is applied     *)
(* through the edits of ScenarioEdits, and other edits come in between.    *)
(*                                                                         *)
(* A solution gives every decap a rail or, for a pad cell that is removed, *)
(* Unused.  A solve is exact or ends at its time limit; what it then may   *)
(* hand on is any solution its stage accepts.  The integer program itself, *)
(* its decomposition into groups and its cuts, stands for the set of the   *)
(* solutions that satisfy its rows.  The canonical order of the last tie   *)
(* is left open.  The evidence for a destination is what the board says    *)
(* of its vias: the power projection and the filter of protected routes    *)
(* have been applied to it.                                                *)
(***************************************************************************)
EXTENDS ScenarioEdits, Integers, FiniteSetsExt

CONSTANTS
  Unused,       \* the label of an isolation gap
  Distance,     \* of a decap to the nearest bump of a rail
  Requests,     \* targets, tolerances and options of a calculation
  NoRequest,
  MaxRevision,  \* bound on the edits, applied plans included
  Selections    \* bound on what the user selects: the sets of decaps to edit

ASSUME DistributionAssumption ==
  /\ IsFiniteSet(Refdes)
  /\ Unused \notin Rails
  /\ Distance \in [Refdes -> [Rails -> Nat]]
  /\ \A q \in Requests :
       /\ \A c \in DOMAIN q.targets : q.targets[c] \in Nat
       /\ \A c \in DOMAIN q.tolerances : q.tolerances[c] \in 0..100
       /\ q.penalty \in Nat /\ (q.policy = "MIN_GAPS" => q.penalty = 0)
  /\ MaxRevision \in Nat
  /\ Selections \subseteq SUBSET Refdes

VARIABLES
  revision,
  stage,      \* of the calculation: "idle", "answered", or the solve that is next
  request,    \* with the counts it is about
  rows,       \* the solutions that satisfy the rows of the program so far
  gapTotal,   \* the gaps the gap stage has settled on; -1 before
  ordered,    \* joint_distance_applied
  found,      \* the solution at hand
  unproven,   \* the stages that fell back on what they had
  answer

solveVars == <<rows, gapTotal, ordered, found, unproven>>
planVars == <<vars, revision, stage, request, solveVars, answer>>

TableCells == Rails \X Models

NoSolution == [x \in {} |-> Unused]

PlanInit ==
  /\ Init
  /\ revision = 0
  /\ stage = "idle"
  /\ request = NoRequest
  /\ rows = {}
  /\ gapTotal = -1
  /\ ordered = FALSE
  /\ found = NoSolution
  /\ unproven = {}
  /\ answer = "none"

-----------------------------------------------------------------------------
(* What a request asks for.                                                *)

\* _distribution_inventory.
Physical(d) == {x \in Refdes : d[x].enabled /\ d[x].model # NoModel}

Assignable ==
  {x \in Physical(decaps) : board.kind[x] \in {"DIRECT", "SHARED_ANCHOR", "SHARED_DUMMY"}}

Cell(x) == <<decaps[x].rail, decaps[x].model>>

Count(d, c) == Cardinality({x \in Physical(d) : <<d[x].rail, d[x].model>> = c})

\* _canonical_targets, _canonical_tolerances and distribution_tolerance_count: a
\* cell the user left alone wants what is there.
Resolved(q) ==
  LET present == [c \in TableCells |-> Count(decaps, c)]
  IN  [present |-> present,
       target |-> [c \in TableCells |->
                     IF c \in DOMAIN q.targets THEN q.targets[c] ELSE present[c]],
       allowance |-> [c \in TableCells |->
                        IF c \in DOMAIN q.tolerances
                        THEN (present[c] * q.tolerances[c]) \div 100
                        ELSE 0],
       policy |-> q.policy, penalty |-> q.penalty, mode |-> q.mode]

Present(c) == request.present[c]
Target(c) == request.target[c]
Allowance(c) == request.allowance[c]

Donors == {c \in TableCells : Target(c) < Present(c)}
Receivers == {c \in TableCells : Target(c) > Present(c)}
Turnover == {c \in TableCells : Allowance(c) > 0}
Sources == Donors \cup Turnover
Destinations == Receivers \cup Turnover

Surplus(c) ==
  Min({Present(c) - Target(c), Cardinality({x \in Assignable : Cell(x) = c})})

\* _numeric_shortage_diagnostics.
Shortage ==
  \E m \in Models :
    MapThenSumSet(Surplus, {c \in Donors : c[2] = m})
      < MapThenSumSet(LAMBDA c : Target(c) - Present(c), {c \in Receivers : c[2] = m})

-----------------------------------------------------------------------------
(* Solutions.                                                              *)

\* A decap may take the rails that receive decaps of its model and that one of its
\* own vias, or a via of the pads it hangs together with, leads to.
Reaches(x, r) ==
  IF Shared(board, x)
  THEN r \in Offered(board, Segment(board.powerEdges, Cells(board, decaps, board.cluster[x]), x))
  ELSE r \in board.ownRails[x]

MayGo(x, r) ==
  /\ x \in Assignable
  /\ Cell(x) \in Sources
  /\ <<r, decaps[x].model>> \in Destinations
  /\ Reaches(x, r)

MayCut(x) == x \in Assignable /\ x \in board.gapCells /\ Cell(x) \in Sources

Labels(x) ==
  IF decaps[x].gap
  THEN {Unused}
  ELSE {decaps[x].rail} \cup {r \in Rails : MayGo(x, r)}
         \cup {l \in {Unused} : MayCut(x)}

Movers(L) == {x \in Refdes : L[x] \notin {decaps[x].rail, Unused}}

NewGaps(L) == {x \in Refdes : L[x] = Unused /\ ~decaps[x].gap}

After(L, c) == Cardinality({x \in Physical(decaps) : <<L[x], decaps[x].model>> = c})

Leaving(L, c) == {x \in Assignable : Cell(x) = c /\ L[x] # c[1]}

Entering(L, c) == {x \in Movers(L) : <<L[x], decaps[x].model>> = c}

CountRow(L, c) ==
  /\ c \in Donors => After(L, c) >= Target(c)
  /\ c \in Receivers => After(L, c) <= Target(c)
  /\ c \notin Donors \cup Receivers => After(L, c) = Present(c)

ToleranceRow(L, c) ==
  /\ c \notin Donors => Cardinality(Leaving(L, c)) <= Allowance(c)
  /\ c \notin Receivers => Cardinality(Entering(L, c)) <= Allowance(c)

CountRows(L) ==
  /\ \A c \in TableCells : CountRow(L, c)
  /\ \A c \in Turnover : ToleranceRow(L, c)

EdgeRows(L) ==
  \A e \in board.powerEdges : \A x, y \in e : L[x] = L[y] \/ Unused \in {L[x], L[y]}

\* The owners of a PWR via have one label, and that may be Unused.
ViaRows(L) ==
  \A x, y \in Refdes :
    /\ Shared(board, x) /\ Shared(board, y)
    /\ board.powerVias[x] \cap board.powerVias[y] # {}
    => L[x] = L[y]

\* Mutant: a via of the cluster is enough, on whatever island it is.
RootedByCluster(L) ==
  \A c \in Clusters :
    LET active == {x \in Members(board, c) : L[x] # Unused}
    IN  /\ {L[x] : x \in active} \subseteq Offered(board, active)
        /\ ~SplitsVia(board.powerVias, Segments(board.powerEdges, active))

\* Pads that hang together have a via that leads to their rail, and no via is under
\* two islands: the rows of clusters that are paths, and the cuts of all others.
Rooted(L) ==
  \A c \in Clusters :
    LET islands == Segments(board.powerEdges, {x \in Members(board, c) : L[x] # Unused})
    IN  /\ \A I \in islands : {L[x] : x \in I} \subseteq Offered(board, I)
        /\ ~SplitsVia(board.powerVias, islands)

Solutions ==
  {L \in [Refdes -> Rails \cup {Unused}] :
     /\ \A x \in Refdes : L[x] \in Labels(x)
     /\ CountRows(L)
     /\ EdgeRows(L)
     /\ ViaRows(L)
     /\ Rooted(L)}

\* The solutions of the flow of decaps that share no pad: it has no other rows.
Flows ==
  {L \in [Refdes -> Rails \cup {Unused}] :
     /\ \A x \in Refdes : L[x] \in Labels(x)
     /\ NewGaps(L) = {}
     /\ CountRows(L)}

DirectOnly ==
  \A x \in Refdes : Shared(board, x) => Labels(x) \subseteq {decaps[x].rail, Unused}

Selectable == {x \in Refdes : ~decaps[x].gap /\ MayCut(x)}

\* receiver_progress_by_variable.
Progress(L) ==
  Cardinality({x \in Movers(L) : <<L[x], decaps[x].model>> \in Receivers})
    - Cardinality({x \in Movers(L) \cup NewGaps(L) : Cell(x) \in Receivers})

Gaps(L) == Cardinality(NewGaps(L))

Moves(L) == Cardinality(Movers(L))

Length(L) ==
  LET sum == MapThenSumSet(LAMBDA x : Distance[x][L[x]], Movers(L))
  IN  IF request.mode = "NEAREST" THEN sum ELSE -sum

Cost(L) == Length(L) + request.penalty * Gaps(L)

Least(S, Value(_)) == {L \in S : \A K \in S : Value(L) <= Value(K)}

Most(S, Value(_)) == {L \in S : \A K \in S : Value(L) >= Value(K)}

-----------------------------------------------------------------------------
(* The calculation.                                                        *)

Answer(a) ==
  /\ stage' = "answered"
  /\ answer' = a
  /\ rows' = {}
  /\ gapTotal' = -1
  /\ ordered' = FALSE
  /\ found' = NoSolution
  /\ unproven' = {}

Calculate(q) ==
  /\ stage = "idle"
  /\ request' = Resolved(q)
  /\ IF board.analyzed
     THEN stage' = "build" /\ UNCHANGED <<solveVars, answer>>
     ELSE Answer("refused")
  /\ UNCHANGED <<vars, revision>>

\* A large board takes the flow without any turnover too.
Build ==
  /\ stage = "build"
  /\ \/ Shortage /\ Answer("shortage")
     \/ /\ ~Shortage
        /\ \/ DirectOnly /\ stage' = "flow" /\ UNCHANGED rows
           \/ ~(DirectOnly /\ Turnover # {}) /\ stage' = "fulfil" /\ rows' = Solutions
        /\ UNCHANGED <<gapTotal, ordered, found, unproven, answer>>
  /\ UNCHANGED <<vars, revision, request>>

\* The rows that hold in a solve, without the total of the gaps once that is open.
Candidates == {L \in rows : gapTotal = -1 \/ Gaps(L) = gapTotal}

Solving == {"flow", "fulfil", "gaps", "moves", "distance", "ties", "refine", "finish"}

\* A time limit without a solution to fall back on, or Cancel.
Stop ==
  /\ stage \in Solving
  /\ Answer("stopped")
  /\ UNCHANGED <<vars, revision, request>>

Solved(L, next) == found' = L /\ stage' = next

FellBack(s) == unproven' = unproven \cup {s}

\* _direct_exchange_selection.
Flow ==
  /\ stage = "flow"
  /\ LET best == Least(Most(Flows, Progress), Moves) IN
       \/ \E L \in Least(best, Length) : Solved(L, "refine") /\ UNCHANGED unproven
       \/ \E L \in best : Solved(L, "refine") /\ FellBack("distance")
  /\ ordered' = TRUE
  /\ rows' = Solutions
  /\ UNCHANGED <<vars, revision, request, gapTotal, answer>>

\* An incumbent counts if it fills every receiver, so it is an optimum too.
Fulfil ==
  /\ stage = "fulfil"
  /\ \/ rows = {} /\ Answer("failed")
     \/ \E L \in Most(rows, Progress) :
          /\ Solved(L, "gaps")
          /\ rows' = {K \in rows : Progress(K) = Progress(L)}
          /\ UNCHANGED <<gapTotal, ordered, unproven, answer>>
  /\ UNCHANGED <<vars, revision, request>>

FewestGaps ==
  /\ stage = "gaps"
  /\ \/ /\ request.policy = "MIN_GAPS" /\ Selectable # {}
        /\ \/ \E L \in Least(rows, Gaps) : Solved(L, "moves") /\ UNCHANGED unproven
           \/ \E L \in rows : Solved(L, "moves") /\ FellBack("gaps")
        /\ gapTotal' = Gaps(found')
     \/ /\ request.policy # "MIN_GAPS" \/ Selectable = {}
        /\ Solved(found, "moves")
        /\ UNCHANGED <<gapTotal, unproven>>
  /\ UNCHANGED <<vars, revision, request, rows, ordered, answer>>

FewestMoves ==
  /\ stage = "moves"
  /\ \E L \in Least(Candidates, Moves) :
       /\ Solved(L, "distance")
       /\ rows' = {K \in rows : Moves(K) = Moves(L)}
  /\ UNCHANGED <<vars, revision, request, gapTotal, ordered, unproven, answer>>

\* _direct_distance_selection, which picks moves and no gaps.
DirectDistance ==
  /\ stage = "distance"
  /\ DirectOnly
  /\ \/ \E L \in Least({K \in Flows : Moves(K) = Progress(found)}, Length) :
          Solved(L, "refine") /\ UNCHANGED unproven
     \/ /\ Solved([x \in Refdes |-> IF x \in NewGaps(found) THEN decaps[x].rail ELSE found[x]],
                  "refine")
        /\ FellBack("distance")
  /\ ordered' = TRUE
  /\ UNCHANGED <<vars, revision, request, rows, gapTotal, answer>>

\* Mutant: an incumbent of this stage is taken as it comes.
SharedDistanceOfIncumbent ==
  /\ stage = "distance"
  /\ ~DirectOnly
  /\ \E L \in Candidates : Solved(L, "ties") /\ rows' = {K \in rows : Cost(K) = Cost(L)}
  /\ ordered' = TRUE
  /\ UNCHANGED <<vars, revision, request, gapTotal, unproven, answer>>

\* The optimum, the better of an incumbent and the solution at hand, or neither;
\* MIN_GAPS alone has a later stage that orders the moves.
SharedDistance ==
  /\ stage = "distance"
  /\ ~DirectOnly
  /\ \/ \E L \in Least(Candidates, Cost) :
          /\ Solved(L, "ties")
          /\ rows' = {K \in rows : Cost(K) = Cost(L)}
          /\ ordered' = TRUE
          /\ UNCHANGED <<gapTotal, unproven, answer>>
     \/ \E L \in Candidates :
          /\ Cost(L) <= Cost(found)
          /\ Solved(L, "refine")
          /\ ordered' = TRUE
          /\ FellBack("distance")
          /\ UNCHANGED <<rows, gapTotal, answer>>
     \/ /\ Moves(found) = 0 \/ (request.policy = "MIN_GAPS" /\ Selectable # {})
        /\ Solved(found, "refine")
        /\ ordered' = (Moves(found) = 0)
        /\ FellBack("distance")
        /\ UNCHANGED <<rows, gapTotal, answer>>
     \/ /\ Moves(found) # 0
        /\ request.policy # "MIN_GAPS" \/ Selectable = {}
        /\ Answer("no distance")
  /\ UNCHANGED <<vars, revision, request>>

\* At the proven cost, fewer gaps where gaps were priced, then any of the ties.
Ties ==
  /\ stage = "ties"
  /\ LET fewest == IF request.policy = "MIN_GAPS" THEN Candidates
                   ELSE Least(Candidates, Gaps)
     IN  \/ \E L \in fewest : Solved(L, "refine") /\ UNCHANGED unproven
         \/ \E L \in Candidates :
              Gaps(L) <= Gaps(found) /\ Solved(L, "refine") /\ FellBack("ties")
  /\ UNCHANGED <<vars, revision, request, rows, gapTotal, ordered, answer>>

\* The moves stay, and the pads that do not move are cut or not.
SameMoves == {L \in rows : \A x \in Movers(L) \cup Movers(found) : L[x] = found[x]}

SameGaps(L) == {K \in rows : NewGaps(K) = NewGaps(L)}

\* MIN_GAPS again, with the moves fixed, and then the distance with the gaps fixed.
Refine ==
  /\ stage = "refine"
  /\ \/ /\ request.policy # "MIN_GAPS" \/ Selectable = {}
        /\ Solved(found, "finish")
        /\ UNCHANGED <<rows, gapTotal, ordered, unproven, answer>>
     \/ /\ request.policy = "MIN_GAPS" /\ Selectable # {}
        /\ \E L \in Least(SameMoves, Gaps) :
             \/ /\ DirectOnly
                /\ Solved(L, "finish")
                /\ UNCHANGED unproven
             \/ /\ ~DirectOnly
                /\ \/ \E K \in Least(SameGaps(L), Cost) :
                        Solved(K, "finish") /\ UNCHANGED unproven
                   \/ \E K \in SameGaps(L) :
                        Cost(K) <= Cost(L) /\ Solved(K, "finish") /\ FellBack("refine")
        /\ UNCHANGED <<rows, gapTotal, ordered, answer>>
     \/ /\ request.policy = "MIN_GAPS" /\ Selectable # {}
        /\ ordered \/ Moves(found) = 0
        /\ Solved(found, "finish")
        /\ FellBack("refine")
        /\ UNCHANGED <<rows, gapTotal, ordered, answer>>
     \/ /\ request.policy = "MIN_GAPS" /\ Selectable # {}
        /\ ~DirectOnly
        /\ Answer("no distance")
  /\ UNCHANGED <<vars, revision, request>>

-----------------------------------------------------------------------------
(* The answer.                                                             *)

Cut(L) == {x \in Refdes : L[x] = Unused}

\* Pads cut together, with the rail they had and the rails around them.
Around(L, x) ==
  LET group == Segment(board.powerEdges, Cut(L), x)
  IN  {decaps[y].rail : y \in group}
        \cup {L[y] : y \in {z \in Refdes \ Cut(L) :
                              \E e \in board.powerEdges : z \in e /\ e \cap group # {}}}

\* Mutant: gaps of any cell are put back.
RedundantAnywhere(L) ==
  {x \in NewGaps(L) :
     /\ Segment(board.powerEdges, Cut(L), x) \subseteq NewGaps(L)
     /\ Cardinality(Around(L, x)) = 1}

\* New gaps of donors with one rail around them.
Redundant(L) ==
  {x \in NewGaps(L) :
     LET group == Segment(board.powerEdges, Cut(L), x)
     IN  /\ group \subseteq NewGaps(L)
         /\ \A y \in group : Cell(y) \in Donors
         /\ Cardinality(Around(L, x)) = 1}

Pruned(L) == [x \in Refdes |-> IF x \in Redundant(L) THEN decaps[x].rail ELSE L[x]]

\* What assign_rails_and_isolation_gaps_atomic would leave.
Outcome(L) == Opened(Moved(decaps, Movers(L), L), NewGaps(L))

Takes(L) ==
  LET S == Movers(L) \cup NewGaps(L)
  IN  \/ S = {}
      \/ MayOpen(board, NewGaps(L)) /\ Accepts(board, Outcome(L), S)

\* A refused pruning is dropped; a scenario that does not validate is an exception
\* the calculation does not expect.
Finish ==
  /\ stage = "finish"
  /\ LET L == IF Takes(Pruned(found)) THEN Pruned(found) ELSE found IN
       \/ /\ Takes(L) /\ Valid(board, Outcome(L))
          /\ stage' = "answered"
          /\ answer' = "plan"
          /\ found' = L
          /\ rows' = {}
          /\ gapTotal' = -1
          /\ ordered' = FALSE
          /\ UNCHANGED unproven
       \/ Takes(L) /\ ~Valid(board, Outcome(L)) /\ Answer("rejected")
       \/ ~Takes(L) /\ Answer("invalid")
  /\ UNCHANGED <<vars, revision, request>>

Rest ==
  /\ stage' = "idle"
  /\ request' = NoRequest
  /\ answer' = "none"
  /\ found' = NoSolution
  /\ unproven' = {}

\* apply_distribution_plan.
Apply ==
  /\ stage = "answered"
  /\ answer = "plan"
  /\ revision < MaxRevision
  /\ AssignRailsAndGaps([x \in Movers(found) |-> found[x]], NewGaps(found))
  /\ revision' = revision + (IF decaps' = decaps THEN 0 ELSE 1)
  /\ Rest
  /\ UNCHANGED <<rows, gapTotal, ordered>>

Discard ==
  /\ stage = "answered"
  /\ Rest
  /\ UNCHANGED <<vars, revision, rows, gapTotal, ordered>>

Edit ==
  /\ stage = "idle"
  /\ revision < MaxRevision
  /\ \E S \in Selections :
       \/ \E r \in Rails : AssignRail(S, r)
       \/ \E m \in Models \cup {NoModel} : AssignModel(S, m)
       \/ \E on \in BOOLEAN : SetEnabled(S, on)
       \/ RestoreSource(S)
  /\ decaps' # decaps
  /\ revision' = revision + 1
  /\ UNCHANGED <<stage, request, solveVars, answer>>

PlanNext ==
  \/ \E q \in Requests : Calculate(q)
  \/ Build
  \/ Stop
  \/ Flow
  \/ Fulfil
  \/ FewestGaps
  \/ FewestMoves
  \/ DirectDistance
  \/ SharedDistance
  \/ Ties
  \/ Refine
  \/ Finish
  \/ Apply
  \/ Discard
  \/ Edit

PlanSpec == PlanInit /\ [][PlanNext]_planVars

-----------------------------------------------------------------------------
(* Correctness.                                                            *)

\* The pads over a PWR via are all there or all cut.  A plan leaves it so; an edit
\* that restores some of the pads it cut does not.
ViasWhole ==
  \A x, y \in Refdes :
    board.powerVias[x] \cap board.powerVias[y] # {} => decaps[x].gap = decaps[y].gap

\* "In this case the calculation is not stopped, and the greatest valid result that
\* is possible is returned as PARTIAL" (docs/DECAP_DISTRIBUTION_RULES.md:136): what
\* has been moved, cut and restored before leads to no calculation without a
\* solution, and what the rows allow passes the edit, unless a GND via joins two
\* decaps or a PWR via lost some of its pads.
AlwaysAPlan ==
  stage = "answered" /\ GroundViasApart(board) /\ ViasWhole =>
    answer \notin {"failed", "invalid", "rejected"}

\* What a plan may do to the counts (docs/DECAP_DISTRIBUTION_RULES.md, 2 and 3), but for
\* the tolerance of a donor or a receiver: that is as the code has it ("orthogonal to
\* the target relation", distribution.py:4351); see ToleranceIsForExchange.
KeepsTable(L, c) ==
  LET actual == Count(Outcome(L), c)
      sent == {x \in Movers(L) : Cell(x) = c}
      cut == {x \in NewGaps(L) : Cell(x) = c}
  IN  /\ actual = Present(c) - Cardinality(sent) - Cardinality(cut)
                     + Cardinality(Entering(L, c))
      /\ IF c \in Donors THEN actual >= Target(c)
         ELSE IF c \in Receivers THEN actual \in Present(c) - Allowance(c)..Target(c)
         ELSE actual = Present(c)
      /\ c \notin Donors => Cardinality(sent \cup cut) <= Allowance(c)
      /\ c \notin Receivers => Cardinality(Entering(L, c)) <= Allowance(c)

\* The counts of the scenario a plan leads to are those the table allows, and add up
\* from what was sent, cut and received, through every stage and fallback, and
\* through the pruning of gaps that comes after the last solve.
PlanKeepsTable ==
  answer = "plan" => \A c \in TableCells : KeepsTable(found, c)

\* Any edit of the decaps that can be moved or cut that keeps the table, whatever
\* the labels and the rows say, except for one that leaves a via half of its pads.
Alternatives ==
  {L \in [Refdes -> Rails \cup {Unused}] :
     /\ \A x \in Refdes : decaps[x].gap => L[x] = Unused
     /\ \A x \in Refdes \ Assignable : ~decaps[x].gap => L[x] = decaps[x].rail}

Rank(L) ==
  IF request.policy = "MIN_GAPS"
  THEN <<-Progress(L), Gaps(L), Moves(L), Length(L)>>
  ELSE <<-Progress(L), Moves(L), Cost(L), Gaps(L)>>

Precedes(r, s) ==
  \E i \in 1..4 : r[i] < s[i] /\ \A j \in 1..i - 1 : r[j] = s[j]

Better(L) ==
  \/ Progress(L) > Progress(found)
  \/ unproven = {} /\ Precedes(Rank(L), Rank(found))

\* No edit that keeps the table, leaves every via all of its pads or none, and is
\* accepted fills more of the receivers; if no stage fell back, none comes before the
\* plan in the order of its policy (docs/DECAP_DISTRIBUTION_RULES.md, 7).  An edit
\* that cuts some of the pads over a via may be better: the rows leave it out.
PlanIsBest ==
  answer = "plan" /\ ViasWhole =>
    \A L \in Alternatives :
      Better(L) /\ ViaRows(L) /\ (\A c \in TableCells : KeepsTable(L, c)) => ~Takes(L)

-----------------------------------------------------------------------------
(* What the documentation says of the program.                             *)

\* "Tolerance means something only in a cell with Target == Present", and in a donor or
\* a receiver "the tolerance that was entered is not used in the calculation"
\* (docs/DECAP_DISTRIBUTION_RULES.md:95, 115-116): with a tolerance of nothing, a donor
\* takes no decap and a receiver gives none.
ToleranceIsForExchange ==
  answer = "plan" =>
    /\ \A c \in Donors : Entering(found, c) = {}
    /\ \A c \in Receivers : Leaving(found, c) = {}
=============================================================================
