---------------------------- MODULE ScenarioEdits ----------------------------
(***************************************************************************)
(* The edits of a scenario (scenario_edits.py): each one looks at its      *)
(* whole selection first and either commits one scenario, that has to      *)
(* validate, or refuses and changes nothing.                               *)
(*                                                                         *)
(* Rails, models and decaps are those of the scenario: a name it does not  *)
(* know is refused before anything is read.  Which of the reasons of a     *)
(* ScenarioEditError is raised is left out.  An edit that commits adds one *)
(* to the revision.                                                        *)
(***************************************************************************)
EXTENDS PadClusters, Naturals

CONSTANTS
  Boards,
  MaxBatch   \* bound on the decaps of a batch edit

ASSUME EditsAssumption == \A b \in Boards : SoundBoard(b)

VARIABLES
  board,    \* the source analysis
  decaps,   \* the editable part of the scenario
  outcome   \* of the last edit

vars == <<board, decaps, outcome>>

\* "rejected": the preflight accepted what ScenarioSpec then refuses, an
\* exception that no caller expects.
Outcomes == {"kept", "edited", "rejected"}

Init ==
  /\ board \in Boards
  /\ decaps = board.source
  /\ outcome = "kept"

-----------------------------------------------------------------------------
(* The preflight.                                                          *)

Blocked == {"FLOATING_DUMMY", "UNRESOLVED", "OUT_OF_SCOPE"}

PwrEditable(b, S) ==
  /\ S # {}
  /\ b.analyzed
  /\ \A x \in S : b.kind[x] \notin Blocked

\* Mutant: only the cells of the selection are looked at, not their clusters.
SelectionPasses(b, new, S) ==
  \A x \in S :
    IF Shared(b, x)
    THEN new[x].gap \/ new[x].rail \in Offered(b, Cells(b, new, b.cluster[x]))
    ELSE new[x].rail \in b.ownRails[x]

\* _analyze_proposed_state: the clusters the selection touches, as they would
\* be, and its other decaps.  It has nothing on GND vias.
ProposalPasses(b, new, S) ==
  \A x \in S :
    IF Shared(b, x)
    THEN PowerSound(b, new, b.cluster[x])
    ELSE new[x].rail \in b.ownRails[x]

Accepts(b, new, S) == PwrEditable(b, S) /\ ProposalPasses(b, new, S)

-----------------------------------------------------------------------------
(* The edits.                                                              *)

Keep == decaps' = decaps /\ outcome' = "kept"

\* _replace_selected_decaps.
Commit(new) ==
  \/ new = decaps /\ Keep
  \/ new # decaps /\ Valid(board, new) /\ decaps' = new /\ outcome' = "edited"
  \/ new # decaps /\ ~Valid(board, new) /\ decaps' = decaps /\ outcome' = "rejected"

Try(new, S) == IF Accepts(board, new, S) THEN Commit(new) ELSE Keep

Replaced(d, new) == [x \in Refdes |-> IF x \in DOMAIN new THEN new[x] ELSE d[x]]

Moved(d, S, f) == Replaced(d, [x \in S |-> [d[x] EXCEPT !.rail = f[x]]])

AssignRail(S, r) ==
  /\ Try(Moved(decaps, S, [x \in S |-> r]), S)
  /\ UNCHANGED board

\* _batch_rail_replacements: decaps that are on their rail already drop out.
Assigned(d, f) == {x \in DOMAIN f : f[x] # d[x].rail}

Opened(d, G) ==
  Replaced(d, [x \in G |-> [d[x] EXCEPT !.gap = TRUE, !.enabled = FALSE]])

MayOpen(b, G) == G \subseteq b.gapCells

\* assign_rails_and_isolation_gaps_atomic, and with no gaps assign_rails_atomic.
AssignRailsAndGaps(f, G) ==
  LET S == Assigned(decaps, f)
  IN  /\ IF S \cap G = {} /\ MayOpen(board, G)
         THEN Try(Opened(Moved(decaps, S, f), G), S \cup G)
         ELSE Keep
      /\ UNCHANGED board

ModelFits(m, x) == m = NoModel \/ <<m, x>> \in board.fits

AssignModel(S, m) ==
  /\ IF S # {} /\ \A x \in S : ModelFits(m, x)
     THEN Commit(Replaced(decaps, [x \in S |-> [decaps[x] EXCEPT !.model = m]]))
     ELSE Keep
  /\ UNCHANGED board

\* _current_assignment_allowed.
CurrentAllowed(b, d, x) ==
  \/ b.kind[x] \in Blocked
  \/ b.kind[x] = "DIRECT" /\ d[x].rail \in b.ownRails[x]
  \/ /\ Shared(b, x)
     /\ ~d[x].gap
     /\ ~SplitsVia(b.powerVias, Islands(b, d, b.cluster[x]))
     /\ d[x].rail \in Offered(b, Segment(b.powerEdges, Cells(b, d, b.cluster[x]), x))

MayEnable(b, d, x) ==
  /\ ~d[x].gap
  /\ CurrentAllowed(b, d, x)
  /\ <<d[x].model, x>> \in b.fits

SetEnabled(S, on) ==
  /\ IF S # {} /\ (on => \A x \in S : MayEnable(board, decaps, x))
     THEN Commit(Replaced(decaps, [x \in S |-> [decaps[x] EXCEPT !.enabled = on]]))
     ELSE Keep
  /\ UNCHANGED board

\* Mutant: the pad state is left out of the restored fields.
RestoredButPads(d, b, S) ==
  Replaced(d, [x \in S |-> [b.source[x] EXCEPT !.gap = d[x].gap]])

\* _restore_replacements.
Restored(d, b, S) == Replaced(d, [x \in S |-> b.source[x]])

RestoreSource(S) ==
  /\ Try(Restored(decaps, board, S), S)
  /\ UNCHANGED board

-----------------------------------------------------------------------------

Batches ==
  {p \in (UNION {[S -> Rails] : S \in SUBSET Refdes}) \X SUBSET Refdes :
     Cardinality(DOMAIN p[1]) + Cardinality(p[2]) <= MaxBatch}

Next ==
  \/ \E S \in SUBSET Refdes, r \in Rails : AssignRail(S, r)
  \/ \E p \in Batches : AssignRailsAndGaps(p[1], p[2])
  \/ \E S \in SUBSET Refdes, m \in Models \cup {NoModel} : AssignModel(S, m)
  \/ \E S \in SUBSET Refdes, on \in BOOLEAN : SetEnabled(S, on)
  \/ \E S \in SUBSET Refdes : RestoreSource(S)

Spec == Init /\ [][Next]_vars

-----------------------------------------------------------------------------
(* Correctness.                                                            *)

TypeOK ==
  /\ board \in Boards
  /\ decaps \in [Refdes -> Decap]
  /\ outcome \in Outcomes

\* No via of a cluster serves the GND pads of two decaps.
GroundViasApart(b) ==
  \A x, y \in Refdes : x # y => b.groundVias[x] \cap b.groundVias[y] = {}

\* The preflight, which looks at the clusters it touches, accepts nothing that
\* the validation of the whole scenario refuses, unless a GND via joins two
\* decaps: neither looks at the other's rules (scenario_edits.py,
\* _analyze_proposed_state; scenario.py, _validate_connection_analysis).
PreflightSuffices == GroundViasApart(board) => outcome # "rejected"

\* Two pads at different rails never share copper or a physical PWR via,
\* whatever has been moved, cut and restored before (DECAP_DISTRIBUTION_RULES,
\* 6.3 and 6.4).
RailsNeverMeet ==
  \A x, y \in Refdes :
    /\ Shared(board, x) /\ Shared(board, y)
    /\ ~decaps[x].gap /\ ~decaps[y].gap
    /\ decaps[x].rail # decaps[y].rail
    => /\ {x, y} \notin board.powerEdges
       /\ board.powerVias[x] \cap board.powerVias[y] = {}

\* Copper leads from every pad to a via that offers its rail, without a gap
\* on the way: no cut around it leaves that via out (6.2).
EveryPadIsFed ==
  \A x \in Refdes : Shared(board, x) /\ ~decaps[x].gap =>
    LET cells == Cells(board, decaps, board.cluster[x])
    IN  \A S \in SUBSET cells :
          x \in S /\ Closed(board.powerEdges, cells, S) =>
            \E y \in S : \E v \in board.powerVias[y] : decaps[x].rail \in board.viaRails[v]

SourceAllowed(b) ==
  \A x \in Refdes : b.kind[x] = "DIRECT" => b.source[x].rail \in b.ownRails[x]

Editable(b) == {x \in Refdes : b.kind[x] \notin Blocked}

\* Whatever has been edited, restoring every decap that can be edited is never
\* refused, so there is a way back to the source (restore_source_atomic).
SourceIsReachable ==
  LET S == Editable(board)
      new == Restored(decaps, board, S)
  IN  board.analyzed /\ S # {} /\ SourceAllowed(board) =>
        /\ Accepts(board, new, S)
        /\ Valid(board, new)
        /\ \A x \in S : new[x] = board.source[x]
=============================================================================
