-------------------------- MODULE DistributionProofs --------------------------
(***************************************************************************)
(* Proofs about ScenarioEdits and about Distribution, which extends it,    *)
(* for every family of boards, every set of requests and every bound: what *)
(* an edit may do to the copper, what a plan may do to the copper and to   *)
(* the counts of the table, that a calculation never lacks a plan, and     *)
(* that no other edit is better than the plan.                             *)
(***************************************************************************)
EXTENDS Distribution, FiniteSetTheorems, WellFoundedInduction, TLAPS

-----------------------------------------------------------------------------
(* Segments.                                                               *)

\* A segment holds its cell, lies among the cells, and copper that touches it
\* lies in it (scenario.py, grouped_edges).
LEMMA SegmentIsClosed ==
  ASSUME NEW edges, NEW cells, NEW x \in cells
  PROVE  /\ x \in Segment(edges, cells, x)
         /\ Segment(edges, cells, x) \subseteq cells
         /\ Closed(edges, cells, Segment(edges, cells, x))
<1> DEFINE seg == Segment(edges, cells, x)
<1>1. x \in seg /\ seg \subseteq cells
  BY DEF Segment
<1>2. ASSUME NEW e \in edges, e \subseteq cells, NEW y \in e, y \in seg,
             NEW z \in e
      PROVE  z \in seg
  <2>1. ASSUME NEW S \in SUBSET cells, x \in S, Closed(edges, cells, S)
        PROVE  z \in S
    <3>1. y \in S
      BY <1>2, <2>1 DEF Segment
    <3>2. e \cap S # {}
      BY <3>1
    <3> QED
      BY <1>2, <2>1, <3>2 DEF Closed
  <2> QED
    BY <1>2, <2>1 DEF Segment
<1>3. Closed(edges, cells, seg)
  <2> SUFFICES ASSUME NEW e \in edges, e \subseteq cells, e \cap seg # {}
               PROVE  e \subseteq seg
    BY Zenon DEF Closed
  <2>1. PICK y \in e : y \in seg
    OBVIOUS
  <2> QED
    BY <1>2, <2>1
<1> QED
  BY <1>1, <1>3

\* A segment is in every closed set of cells that holds its cell.
LEMMA SegmentIsLeast ==
  ASSUME NEW edges, NEW cells, NEW x,
         NEW S \in SUBSET cells, x \in S, Closed(edges, cells, S)
  PROVE  Segment(edges, cells, x) \subseteq S
BY DEF Segment

\* Every cell of a segment has that segment.
LEMMA SegmentOfMember ==
  ASSUME NEW edges, NEW cells, NEW x \in cells, NEW y \in Segment(edges, cells, x)
  PROVE  Segment(edges, cells, y) = Segment(edges, cells, x)
<1> DEFINE sx == Segment(edges, cells, x)
           sy == Segment(edges, cells, y)
           rest == cells \ sy
<1>1. sx \subseteq cells /\ Closed(edges, cells, sx)
  BY SegmentIsClosed
<1>2. y \in cells /\ y \in sy /\ sy \subseteq cells /\ Closed(edges, cells, sy)
  BY <1>1, SegmentIsClosed
<1>3. sy \subseteq sx
  BY <1>1, SegmentIsLeast
<1>4. Closed(edges, cells, rest)
  <2> SUFFICES ASSUME NEW e \in edges, e \subseteq cells, e \cap rest # {}
               PROVE  e \subseteq rest
    BY Zenon DEF Closed
  <2>1. e \cap sy # {} => e \subseteq sy
    BY <1>2 DEF Closed
  <2> QED
    BY <2>1
<1>5. x \in sy
  <2> SUFFICES ASSUME x \notin sy PROVE FALSE
    OBVIOUS
  <2>1. x \in rest /\ rest \in SUBSET cells
    OBVIOUS
  <2>2. sx \subseteq rest
    BY <1>4, <2>1, SegmentIsLeast
  <2> QED
    BY <1>2, <2>2
<1>6. sx \subseteq sy
  BY <1>2, <1>5, SegmentIsLeast
<1> QED
  BY <1>3, <1>6

-----------------------------------------------------------------------------
(* Whether a cluster is sound depends on the rails and gaps of its members. *)

SamePads(d, e, X) == \A x \in X : d[x].rail = e[x].rail /\ d[x].gap = e[x].gap

\* Two scenarios that agree on the pads of a cluster have the same cells and
\* islands there.
LEMMA SameIslands ==
  ASSUME NEW b, NEW d, NEW e, NEW c, SamePads(d, e, Members(b, c))
  PROVE  /\ Cells(b, d, c) = Cells(b, e, c)
         /\ Islands(b, d, c) = Islands(b, e, c)
         /\ GroundIslands(b, d, c) = GroundIslands(b, e, c)
<1>1. Cells(b, d, c) = Cells(b, e, c)
  BY DEF SamePads, Cells
<1> QED
  BY <1>1 DEF Islands, GroundIslands

\* An edit cannot change what the power check says of a cluster it leaves alone.
LEMMA PowerSoundByMembers ==
  ASSUME NEW b, NEW d, NEW e, NEW c, SamePads(d, e, Members(b, c)),
         PowerSound(b, d, c)
  PROVE  PowerSound(b, e, c)
<1>1. Cells(b, d, c) = Cells(b, e, c) /\ Islands(b, d, c) = Islands(b, e, c)
  BY SameIslands
<1>2. ASSUME NEW x \in Cells(b, e, c) PROVE d[x].rail = e[x].rail
  BY DEF SamePads, Cells
<1>3. \A I \in Islands(b, e, c) : I \subseteq Cells(b, e, c)
  BY DEF Islands, Segments, Segment
<1>4. ~Shorted(b, e, c)
  <2> SUFFICES ASSUME NEW p \in b.powerEdges, p \subseteq Cells(b, e, c),
                      NEW x \in p, NEW y \in p, Net(b, e, x) # Net(b, e, y)
               PROVE  FALSE
    BY DEF Shorted
  <2>1. Net(b, d, x) = Net(b, e, x) /\ Net(b, d, y) = Net(b, e, y)
    BY <1>2 DEF Net
  <2>2. Shorted(b, d, c)
    BY <1>1, <2>1 DEF Shorted
  <2> QED
    BY <2>2 DEF PowerSound
<1>5. ASSUME NEW I \in Islands(b, e, c)
      PROVE  ~MixedRails(e, I) /\ Fed(b, e, I)
  <2>1. \A x \in I : d[x].rail = e[x].rail
    BY <1>2, <1>3
  <2>2. ~MixedRails(d, I) /\ Fed(b, d, I)
    BY <1>1 DEF PowerSound
  <2>3. ~MixedRails(e, I)
    BY <2>1, <2>2 DEF MixedRails
  <2>4. Fed(b, e, I)
    BY <2>1, <2>2 DEF Fed
  <2> QED
    BY <2>3, <2>4
<1>6. ~SplitsVia(b.powerVias, Islands(b, e, c))
  BY <1>1 DEF PowerSound
<1> QED
  BY <1>4, <1>5, <1>6 DEF PowerSound

\* The same of the GND check.
LEMMA GroundSoundByMembers ==
  ASSUME NEW b, NEW d, NEW e, NEW c, SamePads(d, e, Members(b, c)),
         GroundSound(b, d, c)
  PROVE  GroundSound(b, e, c)
BY SameIslands DEF GroundSound

\* No GND via is split where none lies under two decaps.
LEMMA GroundViasApartAreSound ==
  ASSUME NEW b, NEW d, NEW c, GroundViasApart(b)
  PROVE  GroundSound(b, d, c)
<1> SUFFICES ASSUME NEW I \in GroundIslands(b, d, c), NEW J \in GroundIslands(b, d, c),
                    NEW v \in ViasOf(b.groundVias, I), v \in ViasOf(b.groundVias, J)
             PROVE  I = J
  BY DEF GroundSound, SplitsVia
<1>1. CASE b.oneGround
  BY <1>1 DEF GroundIslands
<1>2. CASE ~b.oneGround
  <2> DEFINE cells == Cells(b, d, c)
  <2>1. PICK i \in cells, j \in cells :
          I = Segment(b.groundEdges, cells, i) /\ J = Segment(b.groundEdges, cells, j)
    BY <1>2 DEF GroundIslands, Segments
  <2>2. PICK x \in I, y \in J : v \in b.groundVias[x] /\ v \in b.groundVias[y]
    BY DEF ViasOf
  <2>3. x \in cells /\ y \in cells /\ x \in Refdes /\ y \in Refdes
    BY <2>1 DEF Segment, Cells, Members
  <2>4. x = y
    BY <2>2, <2>3 DEF GroundViasApart
  <2>5. Segment(b.groundEdges, cells, x) = I
    BY <2>1, SegmentOfMember
  <2>6. Segment(b.groundEdges, cells, y) = J
    BY <2>1, SegmentOfMember
  <2> QED
    BY <2>4, <2>5, <2>6
<1> QED
  BY <1>1, <1>2

-----------------------------------------------------------------------------
(* What the preflight has to know.                                         *)

\* A valid scenario stays valid under an edit that passes the preflight: the
\* clusters it does not touch are as they were (_analyze_proposed_state).
LEMMA ProposalIsValid ==
  ASSUME NEW b, NEW d, NEW new, NEW S \in SUBSET Refdes,
         Valid(b, d), SamePads(d, new, Refdes \ S), GapsSound(b, new),
         ProposalPasses(b, new, S), GroundViasApart(b)
  PROVE  Valid(b, new)
<1>1. ASSUME NEW c \in Clusters PROVE PowerSound(b, new, c)
  <2>1. CASE \E x \in S : b.cluster[x] = c
    <3>1. PICK x \in S : b.cluster[x] = c
      BY <2>1
    <3>2. Shared(b, x)
      BY <3>1, PadAssumption DEF Shared
    <3> QED
      BY <3>1, <3>2 DEF ProposalPasses
  <2>2. CASE \A x \in S : b.cluster[x] # c
    <3>1. SamePads(d, new, Members(b, c))
      BY <2>2 DEF SamePads, Members
    <3>2. PowerSound(b, d, c)
      BY DEF Valid
    <3> QED
      BY <3>1, <3>2, PowerSoundByMembers
  <2> QED
    BY <2>1, <2>2
<1>2. ASSUME NEW c \in Clusters PROVE GroundSound(b, new, c)
  BY GroundViasApartAreSound
<1> QED
  BY <1>1, <1>2 DEF Valid

\* An edit of models and population leaves every cluster sound.
LEMMA LocalEditIsValid ==
  ASSUME NEW b, NEW d, NEW new,
         Valid(b, d), SamePads(d, new, Refdes), GapsSound(b, new)
  PROVE  Valid(b, new)
<1>1. ASSUME NEW c \in Clusters
      PROVE  PowerSound(b, new, c) /\ GroundSound(b, new, c)
  <2>1. SamePads(d, new, Members(b, c))
    BY DEF SamePads, Members
  <2>2. PowerSound(b, d, c) /\ GroundSound(b, d, c)
    BY DEF Valid
  <2> QED
    BY <2>1, <2>2, PowerSoundByMembers, GroundSoundByMembers
<1> QED
  BY <1>1 DEF Valid

-----------------------------------------------------------------------------
(* Every edit keeps the invariant.                                         *)

EditsInv == TypeOK /\ Valid(board, decaps) /\ PreflightSuffices

\* The decaps of the scenario and of its source are typed.
LEMMA SourceIsTyped ==
  ASSUME NEW b \in Boards
  PROVE  /\ SoundBoard(b)
         /\ b.source \in [Refdes -> Decap]
         /\ \A x \in Refdes : b.source[x] \in Decap /\ ~b.source[x].gap
         /\ Valid(b, b.source)
<1>1. SoundBoard(b)
  BY EditsAssumption
<1>2. b.source \in [Refdes -> Decap]
  BY <1>1 DEF SoundBoard, Board
<1> QED
  BY <1>1, <1>2 DEF SoundBoard, SoundSource

LEMMA CommitKeepsInv ==
  ASSUME EditsInv, NEW new \in [Refdes -> Decap],
         GroundViasApart(board) => Valid(board, new),
         Commit(new), UNCHANGED board
  PROVE  EditsInv'
<1>1. CASE Keep
  BY <1>1 DEF EditsInv, TypeOK, PreflightSuffices, Keep, Outcomes
<1>2. CASE Valid(board, new) /\ decaps' = new /\ outcome' = "edited"
  BY <1>2 DEF EditsInv, TypeOK, PreflightSuffices, Outcomes
<1>3. CASE ~Valid(board, new) /\ decaps' = decaps /\ outcome' = "rejected"
  BY <1>3 DEF EditsInv, TypeOK, PreflightSuffices, Outcomes
<1> QED
  BY <1>1, <1>2, <1>3 DEF Commit

LEMMA KeepKeepsInv ==
  ASSUME EditsInv, Keep, UNCHANGED board
  PROVE  EditsInv'
BY DEF EditsInv, TypeOK, PreflightSuffices, Keep, Outcomes

LEMMA TryKeepsInv ==
  ASSUME EditsInv, NEW new \in [Refdes -> Decap], NEW S \in SUBSET Refdes,
         SamePads(decaps, new, Refdes \ S), GapsSound(board, new),
         Try(new, S), UNCHANGED board
  PROVE  EditsInv'
<1>1. CASE Accepts(board, new, S)
  <2>1. GroundViasApart(board) => Valid(board, new)
    BY <1>1, ProposalIsValid DEF Accepts, EditsInv
  <2> QED
    BY <1>1, <2>1, CommitKeepsInv DEF Try
<1>2. CASE ~Accepts(board, new, S)
  BY <1>2, KeepKeepsInv DEF Try
<1> QED
  BY <1>1, <1>2

LEMMA LocalCommitKeepsInv ==
  ASSUME EditsInv, NEW new \in [Refdes -> Decap],
         SamePads(decaps, new, Refdes), GapsSound(board, new),
         Commit(new), UNCHANGED board
  PROVE  EditsInv'
BY LocalEditIsValid, CommitKeepsInv DEF EditsInv

\* Pads that stay as they are stay sound.
LEMMA GapsSoundIfKept ==
  ASSUME NEW b, NEW d, NEW new, GapsSound(b, d),
         \A x \in Refdes : new[x].gap = d[x].gap /\ new[x].enabled = d[x].enabled
  PROVE  GapsSound(b, new)
<1> SUFFICES ASSUME NEW x \in Refdes, new[x].gap
             PROVE  x \in b.gapCells /\ ~new[x].enabled
  BY Zenon DEF GapsSound
<1>1. new[x].gap = d[x].gap
  OBVIOUS
<1>2. d[x].gap
  BY <1>1, Zenon
<1>3. x \in b.gapCells /\ ~d[x].enabled
  BY <1>2, Zenon DEF GapsSound
<1>4. new[x].enabled = d[x].enabled
  OBVIOUS
<1> QED
  BY <1>3, <1>4, Zenon

\* A decap with a new rail, and the gaps of the scenario.
LEMMA MovedIsTyped ==
  ASSUME NEW d \in [Refdes -> Decap], NEW S \in SUBSET Refdes, NEW f,
         \A x \in S : f[x] \in Rails
  PROVE  /\ Moved(d, S, f) \in [Refdes -> Decap]
         /\ \A x \in Refdes : /\ Moved(d, S, f)[x].gap = d[x].gap
                              /\ Moved(d, S, f)[x].enabled = d[x].enabled
                              /\ x \notin S => Moved(d, S, f)[x] = d[x]
<1> DEFINE m(x) == IF x \in S THEN [d[x] EXCEPT !.rail = f[x]] ELSE d[x]
<1>1. Moved(d, S, f) = [x \in Refdes |-> m(x)]
  BY DEF Moved, Replaced
<1>2. ASSUME NEW x \in Refdes
      PROVE  /\ m(x) \in Decap /\ m(x).gap = d[x].gap /\ m(x).enabled = d[x].enabled
             /\ x \notin S => m(x) = d[x]
  <2>1. d[x] \in Decap
    OBVIOUS
  <2> QED
    BY <2>1 DEF Decap
<1> QED
  BY <1>1, <1>2

LEMMA OpenedIsTyped ==
  ASSUME NEW d \in [Refdes -> Decap], NEW G \in SUBSET Refdes
  PROVE  /\ Opened(d, G) \in [Refdes -> Decap]
         /\ \A x \in G : Opened(d, G)[x].gap /\ ~Opened(d, G)[x].enabled
         /\ \A x \in Refdes \ G : Opened(d, G)[x] = d[x]
<1> DEFINE o(x) == IF x \in G THEN [d[x] EXCEPT !.gap = TRUE, !.enabled = FALSE] ELSE d[x]
<1>1. Opened(d, G) = [x \in Refdes |-> o(x)]
  BY DEF Opened, Replaced
<1>2. ASSUME NEW x \in Refdes
      PROVE  /\ o(x) \in Decap
             /\ x \in G => o(x).gap /\ ~o(x).enabled
             /\ x \notin G => o(x) = d[x]
  <2>1. d[x] \in Decap
    OBVIOUS
  <2> QED
    BY <2>1 DEF Decap
<1> QED
  BY <1>1, <1>2

LEMMA RestoredIsTyped ==
  ASSUME NEW b \in Boards, NEW d \in [Refdes -> Decap], NEW S \in SUBSET Refdes
  PROVE  /\ Restored(d, b, S) \in [Refdes -> Decap]
         /\ \A x \in S : Restored(d, b, S)[x] = b.source[x]
         /\ \A x \in Refdes \ S : Restored(d, b, S)[x] = d[x]
BY SourceIsTyped DEF Restored, Replaced

LEMMA AssignRailKeepsInv ==
  ASSUME EditsInv, NEW S \in SUBSET Refdes, NEW r \in Rails, AssignRail(S, r)
  PROVE  EditsInv'
<1> DEFINE new == Moved(decaps, S, [x \in S |-> r])
<1>1. decaps \in [Refdes -> Decap] /\ GapsSound(board, decaps)
  BY DEF EditsInv, TypeOK, Valid
<1>2. /\ new \in [Refdes -> Decap]
      /\ \A x \in Refdes : /\ new[x].gap = decaps[x].gap
                           /\ new[x].enabled = decaps[x].enabled
                           /\ x \notin S => new[x] = decaps[x]
  <2> DEFINE m(x) == IF x \in S THEN [decaps[x] EXCEPT !.rail = r] ELSE decaps[x]
  <2>1. new = [x \in Refdes |-> m(x)]
    BY DEF Moved, Replaced
  <2>2. ASSUME NEW x \in Refdes
        PROVE  /\ m(x) \in Decap
               /\ m(x).gap = decaps[x].gap /\ m(x).enabled = decaps[x].enabled
               /\ x \notin S => m(x) = decaps[x]
    <3>1. decaps[x] \in Decap
      BY <1>1
    <3> QED
      BY <3>1 DEF Decap
  <2> HIDE DEF new, m
  <2> QED
    BY <2>1, <2>2
<1>3. Try(new, S) /\ UNCHANGED board
  BY DEF AssignRail
<1> HIDE DEF new
<1>4. SamePads(decaps, new, Refdes \ S)
  BY <1>2 DEF SamePads
<1>5. GapsSound(board, new)
  BY <1>1, <1>2, GapsSoundIfKept
<1> QED
  BY <1>2, <1>3, <1>4, <1>5, TryKeepsInv

LEMMA AssignRailsAndGapsKeepsInv ==
  ASSUME EditsInv, NEW T \in SUBSET Refdes, NEW f \in [T -> Rails],
         NEW G \in SUBSET Refdes, AssignRailsAndGaps(f, G)
  PROVE  EditsInv'
<1> DEFINE S == Assigned(decaps, f)
           moved == Moved(decaps, S, f)
           new == Opened(moved, G)
<1>1. decaps \in [Refdes -> Decap] /\ GapsSound(board, decaps)
  BY DEF EditsInv, TypeOK, Valid
<1>2. S \in SUBSET Refdes /\ \A x \in S : f[x] \in Rails
  BY DEF Assigned
<1>3. /\ moved \in [Refdes -> Decap]
      /\ \A x \in Refdes : /\ moved[x].gap = decaps[x].gap
                           /\ moved[x].enabled = decaps[x].enabled
                           /\ x \notin S => moved[x] = decaps[x]
  <2> HIDE DEF S
  <2> QED
    BY <1>1, <1>2, MovedIsTyped
<1>4. /\ new \in [Refdes -> Decap]
      /\ \A x \in G : new[x].gap /\ ~new[x].enabled
      /\ \A x \in Refdes \ G : new[x] = moved[x]
  <2> HIDE DEF moved
  <2> QED
    BY <1>3, OpenedIsTyped
<1>5. CASE S \cap G = {} /\ MayOpen(board, G)
  <2>1. Try(new, S \cup G) /\ UNCHANGED board
    BY <1>5 DEF AssignRailsAndGaps
  <2> HIDE DEF S, moved, new
  <2>2. SamePads(decaps, new, Refdes \ (S \cup G))
    BY <1>3, <1>4 DEF SamePads
  <2>3. GapsSound(board, new)
    <3> SUFFICES ASSUME NEW x \in Refdes, new[x].gap
                 PROVE  x \in board.gapCells /\ ~new[x].enabled
      BY Zenon DEF GapsSound
    <3>1. CASE x \in G
      BY <1>4, <1>5, <3>1 DEF MayOpen
    <3>2. CASE x \notin G
      <4>1. GapsSound(board, moved)
        BY <1>1, <1>3, GapsSoundIfKept
      <4>2. new[x] = moved[x]
        BY <1>4, <3>2
      <4>3. moved[x].gap
        BY <4>2, Zenon
      <4>4. x \in board.gapCells /\ ~moved[x].enabled
        BY <4>1, <4>3, Zenon DEF GapsSound
      <4> QED
        BY <4>2, <4>4
    <3> QED
      BY <3>1, <3>2
  <2>4. S \cup G \in SUBSET Refdes
    BY <1>2
  <2> QED
    BY <1>4, <2>1, <2>2, <2>3, <2>4, TryKeepsInv
<1>6. CASE ~(S \cap G = {} /\ MayOpen(board, G))
  <2>1. Keep /\ UNCHANGED board
    BY <1>6 DEF AssignRailsAndGaps
  <2> QED
    BY <2>1, KeepKeepsInv
<1> QED
  BY <1>5, <1>6

\* Models and population: the rails and the pads are as they were.
LEMMA AssignModelKeepsInv ==
  ASSUME EditsInv, NEW S \in SUBSET Refdes, NEW m \in Models \cup {NoModel},
         AssignModel(S, m)
  PROVE  EditsInv'
<1> DEFINE new == Replaced(decaps, [x \in S |-> [decaps[x] EXCEPT !.model = m]])
<1>1. decaps \in [Refdes -> Decap] /\ GapsSound(board, decaps)
  BY DEF EditsInv, TypeOK, Valid
<1>2. /\ new \in [Refdes -> Decap]
      /\ \A x \in Refdes : /\ new[x].rail = decaps[x].rail
                           /\ new[x].gap = decaps[x].gap
                           /\ new[x].enabled = decaps[x].enabled
  <2> DEFINE n(x) == IF x \in S THEN [decaps[x] EXCEPT !.model = m] ELSE decaps[x]
  <2>1. new = [x \in Refdes |-> n(x)]
    BY DEF Replaced
  <2>2. ASSUME NEW x \in Refdes
        PROVE  /\ n(x) \in Decap /\ n(x).rail = decaps[x].rail
               /\ n(x).gap = decaps[x].gap /\ n(x).enabled = decaps[x].enabled
    <3>1. decaps[x] \in Decap
      BY <1>1
    <3> QED
      BY <3>1 DEF Decap
  <2> QED
    BY <2>1, <2>2
<1>3. (Commit(new) \/ Keep) /\ UNCHANGED board
  BY DEF AssignModel
<1> HIDE DEF new
<1>4. SamePads(decaps, new, Refdes)
  BY <1>2 DEF SamePads
<1>5. GapsSound(board, new)
  BY <1>1, <1>2, GapsSoundIfKept
<1> QED
  BY <1>2, <1>3, <1>4, <1>5, LocalCommitKeepsInv, KeepKeepsInv

LEMMA SetEnabledKeepsInv ==
  ASSUME EditsInv, NEW S \in SUBSET Refdes, NEW on \in BOOLEAN, SetEnabled(S, on)
  PROVE  EditsInv'
<1> DEFINE new == Replaced(decaps, [x \in S |-> [decaps[x] EXCEPT !.enabled = on]])
<1>1. decaps \in [Refdes -> Decap] /\ GapsSound(board, decaps)
  BY DEF EditsInv, TypeOK, Valid
<1>2. /\ new \in [Refdes -> Decap]
      /\ \A x \in Refdes : new[x].rail = decaps[x].rail /\ new[x].gap = decaps[x].gap
      /\ \A x \in S : new[x].enabled = on
      /\ \A x \in Refdes \ S : new[x] = decaps[x]
  <2> DEFINE n(x) == IF x \in S THEN [decaps[x] EXCEPT !.enabled = on] ELSE decaps[x]
  <2>1. new = [x \in Refdes |-> n(x)]
    BY DEF Replaced
  <2>2. ASSUME NEW x \in Refdes
        PROVE  /\ n(x) \in Decap
               /\ n(x).rail = decaps[x].rail /\ n(x).gap = decaps[x].gap
               /\ x \in S => n(x).enabled = on
               /\ x \notin S => n(x) = decaps[x]
    <3>1. decaps[x] \in Decap
      BY <1>1
    <3> QED
      BY <3>1 DEF Decap
  <2> QED
    BY <2>1, <2>2
<1>3. /\ UNCHANGED board
      /\ \/ Keep
         \/ Commit(new) /\ (on => \A x \in S : ~decaps[x].gap)
  BY DEF SetEnabled, MayEnable
<1> HIDE DEF new
<1>4. SamePads(decaps, new, Refdes)
  BY <1>2 DEF SamePads
<1>5. CASE Commit(new) /\ (on => \A x \in S : ~decaps[x].gap)
  <2>1. ASSUME NEW x \in Refdes, new[x].gap
        PROVE  x \in board.gapCells /\ ~new[x].enabled
    <3>1. new[x].gap = decaps[x].gap
      BY <1>2
    <3>2. decaps[x].gap
      BY <2>1, <3>1, Zenon
    <3>3. x \in board.gapCells /\ ~decaps[x].enabled
      BY <1>1, <3>2, Zenon DEF GapsSound
    <3>4. CASE x \in S
      <4>1. ~on
        BY <1>5, <3>2, <3>4, Zenon
      <4>2. new[x].enabled = on
        BY <1>2, <3>4
      <4> QED
        BY <3>3, <4>1, <4>2, Zenon
    <3>5. CASE x \notin S
      <4>1. new[x] = decaps[x]
        BY <1>2, <3>5
      <4> QED
        BY <3>3, <4>1
    <3> QED
      BY <3>4, <3>5
  <2>2. GapsSound(board, new)
    BY <2>1, Zenon DEF GapsSound
  <2> QED
    BY <1>2, <1>3, <1>4, <1>5, <2>2, LocalCommitKeepsInv
<1> QED
  BY <1>3, <1>5, KeepKeepsInv

LEMMA RestoreSourceKeepsInv ==
  ASSUME EditsInv, NEW S \in SUBSET Refdes, RestoreSource(S)
  PROVE  EditsInv'
<1> DEFINE new == Restored(decaps, board, S)
<1>1. decaps \in [Refdes -> Decap] /\ GapsSound(board, decaps) /\ board \in Boards
  BY DEF EditsInv, TypeOK, Valid
<1>2. /\ new \in [Refdes -> Decap]
      /\ \A x \in S : new[x] = board.source[x]
      /\ \A x \in Refdes \ S : new[x] = decaps[x]
  BY <1>1, RestoredIsTyped
<1>3. Try(new, S) /\ UNCHANGED board
  BY DEF RestoreSource
<1> HIDE DEF new
<1>4. SamePads(decaps, new, Refdes \ S)
  BY <1>2 DEF SamePads
<1>5. GapsSound(board, new)
  <2> SUFFICES ASSUME NEW x \in Refdes, new[x].gap
               PROVE  x \in board.gapCells /\ ~new[x].enabled
    BY Zenon DEF GapsSound
  <2>1. x \notin S
    BY <1>1, <1>2, SourceIsTyped
  <2>2. new[x] = decaps[x]
    BY <1>2, <2>1
  <2>3. decaps[x].gap
    BY <2>2
  <2>4. x \in board.gapCells /\ ~decaps[x].enabled
    BY <1>1, <2>3, Zenon DEF GapsSound
  <2> QED
    BY <2>2, <2>4
<1> QED
  BY <1>2, <1>3, <1>4, <1>5, TryKeepsInv

-----------------------------------------------------------------------------
(* The invariant and what follows from it.                                 *)

\* Whatever is edited, the scenario is valid, typed, and nothing the preflight
\* accepts is refused: the inductive invariant of scenario_edits.py.
THEOREM EditsInvariant == Spec => []EditsInv
<1>1. Init => EditsInv
  <2> SUFFICES ASSUME Init PROVE EditsInv
    OBVIOUS
  <2>1. board \in Boards /\ decaps = board.source /\ outcome = "kept"
    BY DEF Init
  <2> QED
    BY <2>1, SourceIsTyped DEF EditsInv, TypeOK, PreflightSuffices, Outcomes
<1>2. EditsInv /\ [Next]_vars => EditsInv'
  <2> SUFFICES ASSUME EditsInv, [Next]_vars PROVE EditsInv'
    OBVIOUS
  <2>1. ASSUME NEW S \in SUBSET Refdes, NEW r \in Rails, AssignRail(S, r)
        PROVE  EditsInv'
    BY <2>1, AssignRailKeepsInv
  <2>2. ASSUME NEW p \in Batches, AssignRailsAndGaps(p[1], p[2]) PROVE EditsInv'
    <3>1. PICK T \in SUBSET Refdes : p[1] \in [T -> Rails]
      BY DEF Batches
    <3>2. p[2] \in SUBSET Refdes
      BY DEF Batches
    <3> QED
      BY <2>2, <3>1, <3>2, AssignRailsAndGapsKeepsInv
  <2>3. ASSUME NEW S \in SUBSET Refdes, NEW m \in Models \cup {NoModel}, AssignModel(S, m)
        PROVE  EditsInv'
    BY <2>3, AssignModelKeepsInv
  <2>4. ASSUME NEW S \in SUBSET Refdes, NEW on \in BOOLEAN, SetEnabled(S, on)
        PROVE  EditsInv'
    BY <2>4, SetEnabledKeepsInv
  <2>5. ASSUME NEW S \in SUBSET Refdes, RestoreSource(S) PROVE EditsInv'
    BY <2>5, RestoreSourceKeepsInv
  <2>6. CASE UNCHANGED vars
    BY <2>6 DEF vars, EditsInv, TypeOK, PreflightSuffices, Valid, PowerSound,
      GroundSound, GapsSound
  <2> QED
    BY <2>1, <2>2, <2>3, <2>4, <2>5, <2>6 DEF Next
<1> QED
  BY <1>1, <1>2, PTL DEF Spec

\* The state of an edited scenario has its types.
THEOREM TypeCorrect == Spec => []TypeOK
<1>1. EditsInv => TypeOK
  BY DEF EditsInv
<1> QED
  BY <1>1, EditsInvariant, PTL

\* The preflight of the edits never lets through what ScenarioSpec refuses, on
\* boards where no GND via lies under two decaps.
THEOREM PreflightIsEnough == Spec => []PreflightSuffices
<1>1. EditsInv => PreflightSuffices
  BY DEF EditsInv
<1> QED
  BY <1>1, EditsInvariant, PTL

\* What the edits keep, keeps rails apart.
LEMMA InvKeepsRailsApart == EditsInv => RailsNeverMeet
<1> SUFFICES ASSUME EditsInv, NEW x \in Refdes, NEW y \in Refdes,
                    Shared(board, x), Shared(board, y),
                    ~decaps[x].gap, ~decaps[y].gap,
                    decaps[x].rail # decaps[y].rail
             PROVE  /\ {x, y} \notin board.powerEdges
                    /\ board.powerVias[x] \cap board.powerVias[y] = {}
  BY Zenon DEF RailsNeverMeet
<1> DEFINE c == board.cluster[x]
           cells == Cells(board, decaps, c)
<1>1. SoundBoard(board)
  BY EditsAssumption DEF EditsInv, TypeOK
<1>2. c \in Clusters
  BY <1>1 DEF SoundBoard, Board, Shared
<1>3. PowerSound(board, decaps, c)
  BY <1>2 DEF EditsInv, Valid
<1>4. x \in cells
  BY DEF Cells, Members
<1>5. ASSUME y \in cells
      PROVE  /\ {x, y} \notin board.powerEdges
             /\ board.powerVias[x] \cap board.powerVias[y] = {}
  <2> DEFINE I == Segment(board.powerEdges, cells, x)
             J == Segment(board.powerEdges, cells, y)
  <2>1. I \in Islands(board, decaps, c) /\ J \in Islands(board, decaps, c)
    BY <1>4, <1>5 DEF Islands, Segments
  <2>2. x \in I /\ Closed(board.powerEdges, cells, I)
    BY <1>4, SegmentIsClosed
  <2>3. y \in J
    BY <1>5, SegmentIsClosed
  <2>4. y \notin I
    BY <1>3, <2>1, <2>2 DEF PowerSound, MixedRails
  <2>5. {x, y} \notin board.powerEdges
    BY <1>4, <1>5, <2>2, <2>4 DEF Closed
  <2>6. I # J
    BY <2>3, <2>4
  <2>7. ViasOf(board.powerVias, I) \cap ViasOf(board.powerVias, J) = {}
    BY <1>3, <2>1, <2>6 DEF PowerSound, SplitsVia
  <2>8. board.powerVias[x] \subseteq ViasOf(board.powerVias, I)
    BY <2>2 DEF ViasOf
  <2>9. board.powerVias[y] \subseteq ViasOf(board.powerVias, J)
    BY <2>3 DEF ViasOf
  <2> QED
    BY <2>5, <2>7, <2>8, <2>9
<1>6. ASSUME y \notin cells
      PROVE  /\ {x, y} \notin board.powerEdges
             /\ board.powerVias[x] \cap board.powerVias[y] = {}
  <2>1. board.cluster[y] # c
    BY <1>6 DEF Cells, Members
  <2>2. x # y
    BY <2>1
  <2>3. ~SameUnit(board, x, y)
    <3>1. board.kind[x] # "UNRESOLVED"
      BY <1>1 DEF SoundBoard, SoundConnections
    <3> QED
      BY <2>1, <2>2, <3>1 DEF SameUnit
  <2>4. board.powerVias[x] \cap board.powerVias[y] = {}
    BY <1>1, <2>3 DEF SoundBoard, SoundVias
  <2>5. {x, y} \notin board.powerEdges
    <3> SUFFICES ASSUME {x, y} \in board.powerEdges PROVE FALSE
      OBVIOUS
    <3>1. PICK u \in Refdes, v \in Refdes :
            u # v /\ {x, y} = {u, v} /\ board.cluster[u] = board.cluster[v]
      BY <1>1 DEF SoundBoard, SoundClusters
    <3>2. board.cluster[x] = board.cluster[y]
      BY <3>1
    <3> QED
      BY <2>1, <3>2
  <2> QED
    BY <2>4, <2>5
<1> QED
  BY <1>5, <1>6

\* Two pads at different rails share neither copper nor a PWR via, on every
\* board and after any edits.
THEOREM RailsStayApart == Spec => []RailsNeverMeet
BY InvKeepsRailsApart, EditsInvariant, PTL

\* What the edits keep, feeds every pad.
LEMMA InvFeedsPads == EditsInv => EveryPadIsFed
<1> SUFFICES ASSUME EditsInv, NEW x \in Refdes,
                    Shared(board, x), ~decaps[x].gap,
                    NEW S \in SUBSET Cells(board, decaps, board.cluster[x]),
                    x \in S,
                    Closed(board.powerEdges, Cells(board, decaps, board.cluster[x]), S)
             PROVE  \E y \in S : \E v \in board.powerVias[y] :
                      decaps[x].rail \in board.viaRails[v]
  BY Zenon DEF EveryPadIsFed
<1> DEFINE c == board.cluster[x]
           cells == Cells(board, decaps, c)
           I == Segment(board.powerEdges, cells, x)
<1>1. c \in Clusters
  BY EditsAssumption DEF EditsInv, TypeOK, SoundBoard, Board, Shared
<1>2. PowerSound(board, decaps, c)
  BY <1>1 DEF EditsInv, Valid
<1>3. x \in cells
  BY DEF Cells, Members
<1>4. I \in Islands(board, decaps, c)
  BY <1>3 DEF Islands, Segments
<1>5. x \in I
  BY <1>3, SegmentIsClosed
<1>6. decaps[x].rail \in Offered(board, I)
  BY <1>2, <1>4, <1>5 DEF PowerSound, Fed
<1>7. I \subseteq S
  BY SegmentIsLeast
<1> QED
  BY <1>6, <1>7 DEF Offered, ViasOf

\* No cut of gaps and copper separates a pad from the vias that offer its rail.
THEOREM PadsAreFed == Spec => []EveryPadIsFed
BY InvFeedsPads, EditsInvariant, PTL

\* What the edits keep leaves a way back to the source.
LEMMA InvReachesSource == EditsInv => SourceIsReachable
<1> DEFINE S == Editable(board)
           new == Restored(decaps, board, S)
<1> SUFFICES ASSUME EditsInv, board.analyzed, S # {}, SourceAllowed(board)
             PROVE  /\ Accepts(board, new, S)
                    /\ Valid(board, new)
                    /\ \A x \in S : new[x] = board.source[x]
  BY Zenon DEF SourceIsReachable
<1>1. board \in Boards /\ decaps \in [Refdes -> Decap] /\ S \in SUBSET Refdes
  BY DEF EditsInv, TypeOK, Editable
<1>2. /\ \A x \in S : new[x] = board.source[x]
      /\ \A x \in Refdes \ S : new[x] = decaps[x]
  <2> HIDE DEF S
  <2> QED
    BY <1>1, RestoredIsTyped
<1>3. SoundBoard(board) /\ Valid(board, board.source)
  BY <1>1, SourceIsTyped
<1>4. \A x \in Refdes : Shared(board, x) => x \in S
  BY <1>3 DEF SoundBoard, SoundConnections, Editable, Blocked
<1>5. \A x \in Refdes : x \in S <=> board.kind[x] \notin Blocked
  BY DEF Editable
<1> HIDE DEF S, new
<1>6. ASSUME NEW c \in Clusters
      PROVE  PowerSound(board, new, c) /\ GroundSound(board, new, c)
  <2>1. Members(board, c) \subseteq S
    BY <1>4, PadAssumption DEF Members, Shared
  <2>2. SamePads(board.source, new, Members(board, c))
    BY <1>2, <2>1 DEF SamePads
  <2>3. PowerSound(board, board.source, c) /\ GroundSound(board, board.source, c)
    BY <1>3 DEF Valid
  <2> QED
    BY <2>2, <2>3, PowerSoundByMembers, GroundSoundByMembers
<1>7. GapsSound(board, new)
  <2> SUFFICES ASSUME NEW x \in Refdes, new[x].gap
               PROVE  x \in board.gapCells /\ ~new[x].enabled
    BY Zenon DEF GapsSound
  <2>1. x \notin S
    BY <1>1, <1>2, SourceIsTyped
  <2>2. new[x] = decaps[x]
    BY <1>2, <2>1
  <2>3. decaps[x].gap
    BY <2>2
  <2>4. x \in board.gapCells /\ ~decaps[x].enabled
    BY <2>3, Zenon DEF EditsInv, Valid, GapsSound
  <2> QED
    BY <2>2, <2>4
<1>8. Valid(board, new)
  BY <1>6, <1>7 DEF Valid
<1>9. ProposalPasses(board, new, S)
  <2> SUFFICES ASSUME NEW x \in S
               PROVE  IF Shared(board, x) THEN PowerSound(board, new, board.cluster[x])
                      ELSE new[x].rail \in board.ownRails[x]
    BY Zenon DEF ProposalPasses
  <2>1. x \in Refdes
    BY <1>1
  <2>2. CASE Shared(board, x)
    <3>1. board.cluster[x] \in Clusters
      BY <1>3, <2>1, <2>2 DEF SoundBoard, Board, Shared
    <3> QED
      BY <1>6, <2>2, <3>1
  <2>3. CASE ~Shared(board, x)
    <3>1. board.kind[x] \in Kinds /\ board.kind[x] \notin Blocked
      BY <1>3, <1>5, <2>1 DEF SoundBoard, Board
    <3>2. board.kind[x] \notin {"SHARED_ANCHOR", "SHARED_DUMMY"}
      BY <1>3, <2>1, <2>3 DEF SoundBoard, SoundConnections
    <3>3. board.kind[x] = "DIRECT"
      BY <3>1, <3>2 DEF Kinds, Blocked
    <3>4. board.source[x].rail \in board.ownRails[x]
      BY <2>1, <3>3 DEF SourceAllowed
    <3> QED
      BY <1>2, <2>3, <3>4
  <2> QED
    BY <2>2, <2>3
<1>10. Accepts(board, new, S)
  BY <1>1, <1>5, <1>9 DEF Accepts, PwrEditable
<1> QED
  BY <1>2, <1>8, <1>10

\* From every state the edits reach, restoring all that can be edited is
\* accepted and gives the source again.
THEOREM SourceStaysReachable == Spec => []SourceIsReachable
BY InvReachesSource, EditsInvariant, PTL

-----------------------------------------------------------------------------
(* What is known of a plan.                                                *)

\* What the program knows of the counts while a calculation is on: those of the
\* scenario it was started with, and numbers for all others.
RequestFits ==
  /\ request.present = [c \in TableCells |-> Count(decaps, c)]
  /\ \A c \in TableCells :
       Present(c) \in Nat /\ Target(c) \in Nat /\ Allowance(c) \in Nat
  /\ request.penalty \in Nat /\ (request.policy = "MIN_GAPS" => request.penalty = 0)

\* What an edit of rails and gaps may ask for: a gap stays one.
Relabels(L) ==
  /\ L \in [Refdes -> Rails \cup {Unused}]
  /\ \A x \in Refdes : decaps[x].gap => L[x] = Unused

\* The part of the rows that the counts depend on.
Keeps(L) ==
  /\ L \in [Refdes -> Rails \cup {Unused}]
  /\ \A x \in Refdes : L[x] \in Labels(x)
  /\ CountRows(L)

\* L, with some of the pads it cuts put back.
Mended(L, R) == [x \in Refdes |-> IF x \in R THEN decaps[x].rail ELSE L[x]]

-----------------------------------------------------------------------------
(* The table.                                                              *)

\* A set of decaps is finite, and so is its count.
LEMMA DecapsAreCounted ==
  ASSUME NEW S \in SUBSET Refdes
  PROVE  IsFiniteSet(S) /\ Cardinality(S) \in Nat
BY FS_Subset, FS_CardinalityType, DistributionAssumption

\* The count of a subset is not greater.
LEMMA FewerDecaps ==
  ASSUME NEW S \in SUBSET Refdes, NEW T \in SUBSET S
  PROVE  Cardinality(T) <= Cardinality(S)
BY DecapsAreCounted, FS_Subset

\* What is left, when A and B leave P and D comes in.
LEMMA CountOfChange ==
  ASSUME NEW P \in SUBSET Refdes, NEW A \in SUBSET P, NEW B \in SUBSET P,
         NEW D \in SUBSET Refdes, A \cap B = {}, D \cap P = {}
  PROVE  /\ Cardinality((P \ (A \cup B)) \cup D)
              = Cardinality(P) - Cardinality(A) - Cardinality(B) + Cardinality(D)
         /\ Cardinality(A \cup B) = Cardinality(A) + Cardinality(B)
<1> DEFINE left == P \ (A \cup B)
<1>1. /\ IsFiniteSet(P) /\ IsFiniteSet(A) /\ IsFiniteSet(B) /\ IsFiniteSet(D)
      /\ IsFiniteSet(left)
      /\ Cardinality(P) \in Nat /\ Cardinality(A) \in Nat /\ Cardinality(B) \in Nat
      /\ Cardinality(D) \in Nat
  BY DecapsAreCounted
<1>2. Cardinality({}) = 0
  BY FS_EmptySet
<1>3. Cardinality(A \cup B) = Cardinality(A) + Cardinality(B)
  BY <1>1, <1>2, FS_Union
<1>4. Cardinality(left) = Cardinality(P) - Cardinality(A \cup B)
  <2>1. P \cap (A \cup B) = A \cup B
    OBVIOUS
  <2> QED
    BY <2>1, <1>1, FS_Difference
<1>5. Cardinality(left \cup D) = Cardinality(left) + Cardinality(D)
  <2>1. left \cap D = {}
    OBVIOUS
  <2>2. Cardinality(left \cup D)
          = Cardinality(left) + Cardinality(D) - Cardinality(left \cap D)
    <3> HIDE DEF left
    <3> QED
      BY <1>1, FS_Union
  <2>3. Cardinality(left) \in Nat
    BY DecapsAreCounted
  <2> QED
    BY <2>1, <2>2, <2>3, <1>1, <1>2
<1> QED
  BY <1>1, <1>3, <1>4, <1>5

\* No cell both gives and receives.
LEMMA DonorsDoNotReceive ==
  ASSUME RequestFits
  PROVE  Donors \cap Receivers = {}
BY DEF RequestFits, Donors, Receivers

\* Who does not move and is not cut keeps what it has.
LEMMA WhoStays ==
  ASSUME EditsInv, NEW L, Relabels(L), NEW x \in Refdes
  PROVE  /\ x \in Movers(L) => L[x] \in Rails /\ ~decaps[x].gap
         /\ x \notin Movers(L) \cup NewGaps(L) =>
              L[x] = IF decaps[x].gap THEN Unused ELSE decaps[x].rail
         /\ x \in Physical(decaps) => ~decaps[x].gap
         /\ decaps[x].rail \in Rails /\ decaps[x].rail # Unused
<1>1. L[x] \in Rails \cup {Unused} /\ (decaps[x].gap => L[x] = Unused) /\ Unused \notin Rails
  BY DistributionAssumption DEF Relabels
<1>2. decaps[x].rail \in Rails /\ decaps[x].rail # Unused
  BY <1>1 DEF EditsInv, TypeOK, Decap
<1>3. x \in Physical(decaps) => ~decaps[x].gap
  BY DEF EditsInv, Valid, GapsSound, Physical
<1>4. x \in Movers(L) => L[x] \in Rails /\ ~decaps[x].gap
  BY <1>1 DEF Movers
<1>5. x \notin Movers(L) \cup NewGaps(L) =>
        L[x] = IF decaps[x].gap THEN Unused ELSE decaps[x].rail
  BY <1>1, <1>2 DEF NewGaps, Movers
<1> QED
  BY <1>2, <1>3, <1>4, <1>5

\* What has labels is such an edit.
LEMMA KeepsRelabels ==
  ASSUME NEW L, Keeps(L)
  PROVE  Relabels(L)
BY DEF Keeps, Relabels, Labels

\* Whoever moves or is cut is a decap of a source that is there, and whoever moves
\* goes to a destination.
LEMMA WhoChanges ==
  ASSUME EditsInv, NEW L, Keeps(L), NEW x \in Refdes
  PROVE  /\ x \in Movers(L) =>
              /\ x \in Assignable /\ Cell(x) \in Sources
              /\ L[x] \in Rails /\ <<L[x], decaps[x].model>> \in Destinations
         /\ x \in NewGaps(L) =>
              x \in Assignable /\ Cell(x) \in Sources /\ x \in board.gapCells
         /\ x \notin Movers(L) \cup NewGaps(L) =>
              L[x] = IF decaps[x].gap THEN Unused ELSE decaps[x].rail
         /\ x \in Physical(decaps) => ~decaps[x].gap
         /\ decaps[x].rail \in Rails /\ decaps[x].rail # Unused
<1>1. L[x] \in Labels(x) /\ Unused \notin Rails
  BY DistributionAssumption DEF Keeps
<1>2. /\ x \notin Movers(L) \cup NewGaps(L) =>
           L[x] = IF decaps[x].gap THEN Unused ELSE decaps[x].rail
      /\ x \in Physical(decaps) => ~decaps[x].gap
      /\ decaps[x].rail \in Rails /\ decaps[x].rail # Unused
  BY KeepsRelabels, WhoStays
<1>3. x \in Movers(L) =>
        /\ x \in Assignable /\ Cell(x) \in Sources
        /\ L[x] \in Rails /\ <<L[x], decaps[x].model>> \in Destinations
  BY <1>1, <1>2 DEF Labels, Movers, MayGo, MayCut
<1>4. x \in NewGaps(L) =>
        x \in Assignable /\ Cell(x) \in Sources /\ x \in board.gapCells
  BY <1>1, <1>2 DEF Labels, NewGaps, MayGo, MayCut
<1> QED
  BY <1>2, <1>3, <1>4

\* The outcome of the edit has the counts of the rows.
LEMMA OutcomeHasCounts ==
  ASSUME EditsInv, NEW L, Relabels(L), NEW c \in TableCells
  PROVE  Count(Outcome(L), c) = After(L, c)
<1> DEFINE moved == Moved(decaps, Movers(L), L)
           new == Outcome(L)
<1>1. decaps \in [Refdes -> Decap]
  BY DEF EditsInv, TypeOK
<1>2. Movers(L) \subseteq Refdes /\ NewGaps(L) \subseteq Refdes
  BY DEF Movers, NewGaps
<1>3. ASSUME NEW x \in Refdes, x \in Movers(L)
      PROVE  moved[x] = [decaps[x] EXCEPT !.rail = L[x]]
  BY <1>2, <1>3 DEF Moved, Replaced
<1>4. ASSUME NEW x \in Refdes, x \notin Movers(L)
      PROVE  moved[x] = decaps[x]
  BY <1>2, <1>4 DEF Moved, Replaced
<1>5. ASSUME NEW x \in Refdes, x \in NewGaps(L)
      PROVE  new[x] = [moved[x] EXCEPT !.gap = TRUE, !.enabled = FALSE]
  BY <1>2, <1>5 DEF Outcome, Opened, Replaced
<1>6. ASSUME NEW x \in Refdes, x \notin NewGaps(L)
      PROVE  new[x] = moved[x]
  BY <1>2, <1>6 DEF Outcome, Opened, Replaced
<1>7. ASSUME NEW x \in Refdes
      PROVE  (x \in Physical(new) /\ <<new[x].rail, new[x].model>> = c)
               <=> (x \in Physical(decaps) /\ <<L[x], decaps[x].model>> = c)
  <2>1. decaps[x] \in Decap /\ c[1] \in Rails /\ Unused \notin Rails
    BY <1>1, DistributionAssumption DEF TableCells
  <2>2. CASE x \in NewGaps(L)
    <3>1. L[x] = Unused /\ x \notin Movers(L)
      BY <2>2 DEF NewGaps, Movers
    <3>2. new[x] = [decaps[x] EXCEPT !.gap = TRUE, !.enabled = FALSE]
      BY <2>2, <3>1, <1>4, <1>5
    <3>3. ~new[x].enabled
      BY <3>2, <2>1 DEF Decap
    <3> QED
      BY <2>1, <3>1, <3>3 DEF Physical, TableCells
  <2>3. CASE x \in Movers(L)
    <3>1. x \notin NewGaps(L)
      BY <2>3 DEF NewGaps, Movers
    <3>2. new[x] = [decaps[x] EXCEPT !.rail = L[x]]
      BY <2>3, <3>1, <1>3, <1>6
    <3>3. /\ new[x].rail = L[x] /\ new[x].model = decaps[x].model
          /\ new[x].enabled = decaps[x].enabled
      BY <3>2, <2>1 DEF Decap
    <3> QED
      BY <3>3 DEF Physical
  <2>4. CASE x \notin Movers(L) \cup NewGaps(L)
    <3>1. new[x] = decaps[x]
      BY <2>4, <1>4, <1>6
    <3>2. x \in Physical(decaps) => L[x] = decaps[x].rail
      BY <2>4, WhoStays
    <3> QED
      BY <3>1, <3>2 DEF Physical
  <2> QED
    BY <2>2, <2>3, <2>4
<1>8. {x \in Physical(new) : <<new[x].rail, new[x].model>> = c}
        = {x \in Physical(decaps) : <<L[x], decaps[x].model>> = c}
  BY <1>7 DEF Physical
<1> QED
  BY <1>8 DEF Count, After

\* Who leaves a cell is moved or cut.
LEMMA LeavingIsSentOrCut ==
  ASSUME EditsInv, NEW L, Relabels(L), Movers(L) \cup NewGaps(L) \subseteq Assignable,
         NEW c \in TableCells
  PROVE  Leaving(L, c) = {x \in Movers(L) : Cell(x) = c} \cup {x \in NewGaps(L) : Cell(x) = c}
<1> SUFFICES ASSUME NEW x \in Assignable
             PROVE  (Cell(x) = c /\ L[x] # c[1])
                      <=> (x \in Movers(L) \cup NewGaps(L) /\ Cell(x) = c)
  BY DEF Leaving
<1>1. x \in Refdes /\ c[1] \in Rails /\ Unused \notin Rails /\ x \in Physical(decaps)
  BY DistributionAssumption DEF TableCells, Assignable, Physical
<1>2. CASE x \in Movers(L) \cup NewGaps(L)
  BY <1>1, <1>2 DEF Cell, Movers, NewGaps
<1>3. CASE x \notin Movers(L) \cup NewGaps(L)
  <2>1. L[x] = decaps[x].rail
    BY <1>1, <1>3, WhoStays
  <2> QED
    BY <1>3, <2>1 DEF Cell
<1> QED
  BY <1>2, <1>3

\* A solution that keeps the rows of the counts keeps the table.
LEMMA KeepsItsTable ==
  ASSUME EditsInv, RequestFits, NEW L, Keeps(L), NEW c \in TableCells
  PROVE  KeepsTable(L, c)
<1> DEFINE here == {x \in Physical(decaps) : <<decaps[x].rail, decaps[x].model>> = c}
           sent == {x \in Movers(L) : Cell(x) = c}
           cut == {x \in NewGaps(L) : Cell(x) = c}
           come == Entering(L, c)
<1>1. /\ Present(c) = Cardinality(here)
      /\ Present(c) \in Nat /\ Target(c) \in Nat /\ Allowance(c) \in Nat
  BY DEF RequestFits, Present, Count
<1>2. Assignable \subseteq Physical(decaps) /\ Physical(decaps) \subseteq Refdes
  BY DEF Assignable, Physical
<1>3. Movers(L) \subseteq Assignable /\ NewGaps(L) \subseteq Assignable
  BY WhoChanges DEF Movers, NewGaps
<1>4. /\ here \in SUBSET Refdes /\ sent \in SUBSET here /\ cut \in SUBSET here
      /\ come \in SUBSET Refdes /\ sent \cap cut = {} /\ come \cap here = {}
  <2>1. sent \in SUBSET here /\ cut \in SUBSET here
    BY <1>2, <1>3 DEF Cell
  <2>2. sent \cap cut = {}
    BY DEF Movers, NewGaps
  <2>3. come \cap here = {}
    BY DEF Entering, Movers
  <2> QED
    BY <2>1, <2>2, <2>3, <1>2 DEF Entering, Movers
<1>5. {x \in Physical(decaps) : <<L[x], decaps[x].model>> = c}
        = (here \ (sent \cup cut)) \cup come
  <2> SUFFICES ASSUME NEW x \in Physical(decaps)
               PROVE  <<L[x], decaps[x].model>> = c
                        <=> x \in (here \ (sent \cup cut)) \cup come
    BY <1>2, <1>3, <1>4 DEF Entering
  <2>1. x \in Refdes /\ c[1] \in Rails /\ Unused \notin Rails
    BY <1>2, DistributionAssumption DEF TableCells
  <2>2. CASE x \in Movers(L)
    <3>1. ~(x \in here /\ x \notin sent)
      BY <2>2 DEF Cell
    <3> QED
      BY <2>2, <3>1 DEF Entering
  <2>3. CASE x \in NewGaps(L)
    <3>1. L[x] = Unused /\ x \notin come
      BY <2>3 DEF NewGaps, Entering, Movers
    <3>2. ~(x \in here /\ x \notin cut)
      BY <2>3 DEF Cell
    <3> QED
      BY <2>1, <3>1, <3>2 DEF TableCells
  <2>4. CASE x \notin Movers(L) \cup NewGaps(L)
    <3>1. L[x] = decaps[x].rail
      BY <2>1, <2>4, WhoChanges
    <3> QED
      BY <2>4, <3>1 DEF Entering
  <2> QED
    BY <2>2, <2>3, <2>4
<1>6. /\ After(L, c) = Present(c) - Cardinality(sent) - Cardinality(cut) + Cardinality(come)
      /\ Cardinality(sent \cup cut) = Cardinality(sent) + Cardinality(cut)
  <2>1. /\ Cardinality((here \ (sent \cup cut)) \cup come)
             = Cardinality(here) - Cardinality(sent) - Cardinality(cut) + Cardinality(come)
        /\ Cardinality(sent \cup cut) = Cardinality(sent) + Cardinality(cut)
    <3> HIDE DEF here, sent, cut, come
    <3>1. \A A \in SUBSET here, B \in SUBSET here, D \in SUBSET Refdes :
            A \cap B = {} /\ D \cap here = {} =>
              /\ Cardinality((here \ (A \cup B)) \cup D)
                   = Cardinality(here) - Cardinality(A) - Cardinality(B) + Cardinality(D)
              /\ Cardinality(A \cup B) = Cardinality(A) + Cardinality(B)
      BY <1>4, CountOfChange
    <3>2. \A D \in SUBSET Refdes :
            D \cap here = {} =>
              /\ Cardinality((here \ (sent \cup cut)) \cup D)
                   = Cardinality(here) - Cardinality(sent) - Cardinality(cut) + Cardinality(D)
              /\ Cardinality(sent \cup cut) = Cardinality(sent) + Cardinality(cut)
      BY <1>4, <3>1, Zenon
    <3> QED
      BY <1>4, <3>2, Zenon
  <2> QED
    BY <2>1, <1>1, <1>5 DEF After
<1>7. /\ Cardinality(sent) \in Nat /\ Cardinality(cut) \in Nat /\ Cardinality(come) \in Nat
      /\ Cardinality({}) = 0
  <2>1. sent \in SUBSET Refdes /\ cut \in SUBSET Refdes /\ come \in SUBSET Refdes
    BY <1>4
  <2>2. Cardinality({}) = 0
    BY FS_EmptySet
  <2> QED
    BY <2>1, <2>2, DecapsAreCounted
<1>8. Leaving(L, c) = sent \cup cut
  BY <1>3, KeepsRelabels, LeavingIsSentOrCut
<1>9. c \notin Donors => Cardinality(sent \cup cut) <= Allowance(c)
  <2> SUFFICES ASSUME c \notin Donors PROVE Cardinality(sent \cup cut) <= Allowance(c)
    OBVIOUS
  <2>1. CASE c \in Turnover
    BY <2>1, <1>8 DEF Keeps, CountRows, ToleranceRow
  <2>2. CASE c \notin Turnover
    <3>1. sent \cup cut = {}
      BY <2>2, <1>2, <1>3, WhoChanges DEF Sources
    <3> QED
      BY <3>1, <1>1, <1>7
  <2> QED
    BY <2>1, <2>2
<1>10. c \notin Receivers => Cardinality(come) <= Allowance(c)
  <2> SUFFICES ASSUME c \notin Receivers PROVE Cardinality(come) <= Allowance(c)
    OBVIOUS
  <2>1. CASE c \in Turnover
    BY <2>1 DEF Keeps, CountRows, ToleranceRow
  <2>2. CASE c \notin Turnover
    <3>1. come = {}
      BY <2>2, <1>2, <1>3, WhoChanges DEF Destinations, Entering
    <3> QED
      BY <3>1, <1>1, <1>7
  <2> QED
    BY <2>1, <2>2
<1>11. IF c \in Donors THEN After(L, c) >= Target(c)
       ELSE IF c \in Receivers THEN After(L, c) \in Present(c) - Allowance(c)..Target(c)
       ELSE After(L, c) = Present(c)
  <2>1. CountRow(L, c)
    BY DEF Keeps, CountRows
  <2>2. CASE c \in Donors
    BY <2>1, <2>2 DEF CountRow
  <2>3. CASE c \in Receivers
    <3>1. After(L, c) <= Target(c) /\ c \notin Donors
      BY <2>1, <2>3, DonorsDoNotReceive DEF CountRow
    <3> QED
      BY <2>3, <3>1, <1>1, <1>6, <1>7, <1>9
  <2>4. CASE c \notin Donors \cup Receivers
    BY <2>1, <2>4 DEF CountRow
  <2> QED
    BY <2>2, <2>3, <2>4
<1>12. Count(Outcome(L), c) = After(L, c)
  BY KeepsRelabels, OutcomeHasCounts
<1> QED
  BY <1>6, <1>9, <1>10, <1>11, <1>12 DEF KeepsTable

\* Putting back pads of donors keeps the rows of the counts.
LEMMA MendedKeeps ==
  ASSUME EditsInv, RequestFits, NEW L, Keeps(L), NEW R \in SUBSET NewGaps(L),
         \A x \in R : Cell(x) \in Donors
  PROVE  Keeps(Mended(L, R))
<1> DEFINE K == Mended(L, R)
<1>1. /\ R \subseteq Refdes /\ Unused \notin Rails
      /\ \A x \in Refdes : K[x] = IF x \in R THEN decaps[x].rail ELSE L[x]
      /\ \A x \in Refdes : decaps[x].rail \in Rails
  BY DistributionAssumption, WhoChanges DEF NewGaps, Mended
<1>2. K \in [Refdes -> Rails \cup {Unused}]
  BY <1>1 DEF Mended, Keeps
<1>3. ASSUME NEW x \in Refdes PROVE K[x] \in Labels(x)
  <2>1. CASE x \in R
    BY <2>1, <1>1 DEF Labels, NewGaps
  <2>2. CASE x \notin R
    BY <2>2, <1>1 DEF Keeps
  <2> QED
    BY <2>1, <2>2
<1>4. Movers(K) = Movers(L)
  BY <1>1 DEF Movers, NewGaps
<1>5. ASSUME NEW c \in TableCells
      PROVE  /\ After(K, c) >= After(L, c)
             /\ c \notin Donors => After(K, c) = After(L, c)
  <2> DEFINE before == {x \in Physical(decaps) : <<L[x], decaps[x].model>> = c}
             now == {x \in Physical(decaps) : <<K[x], decaps[x].model>> = c}
  <2>1. Physical(decaps) \subseteq Refdes /\ c[1] \in Rails
    BY DEF Physical, TableCells
  <2>2. \A x \in R : L[x] = Unused /\ <<decaps[x].rail, decaps[x].model>> \in Donors
    BY DEF NewGaps, Cell
  <2>3. before \in SUBSET now
    <3> SUFFICES ASSUME NEW x \in Physical(decaps), <<L[x], decaps[x].model>> = c
                 PROVE  K[x] = L[x]
      OBVIOUS
    <3>1. L[x] = c[1]
      BY DEF TableCells
    <3> QED
      BY <3>1, <2>1, <2>2, <1>1
  <2>4. c \notin Donors => now = before
    BY <2>1, <2>2, <2>3, <1>1 DEF TableCells
  <2>5. now \in SUBSET Refdes
    BY <2>1
  <2>6. Cardinality(now) >= Cardinality(before)
    <3> HIDE DEF now, before
    <3> QED
      BY <2>3, <2>5, FewerDecaps, DecapsAreCounted
  <2> QED
    BY <2>4, <2>6 DEF After
<1>6. ASSUME NEW c \in TableCells PROVE CountRow(K, c)
  <2>1. CountRow(L, c)
    BY DEF Keeps, CountRows
  <2>2. CASE c \in Donors
    <3>1. After(L, c) >= Target(c) /\ After(K, c) >= After(L, c) /\ c \notin Receivers
      BY <2>1, <2>2, <1>5, DonorsDoNotReceive DEF CountRow
    <3>2. After(L, c) \in Nat /\ After(K, c) \in Nat /\ Target(c) \in Nat
      BY DecapsAreCounted DEF After, RequestFits, Physical
    <3> QED
      BY <2>2, <3>1, <3>2 DEF CountRow
  <2>3. CASE c \notin Donors
    BY <2>1, <2>3, <1>5 DEF CountRow
  <2> QED
    BY <2>2, <2>3
<1>7. ASSUME NEW c \in Turnover PROVE ToleranceRow(K, c)
  <2>1. ToleranceRow(L, c) /\ c \in TableCells
    BY DEF Keeps, CountRows, Turnover
  <2>2. Entering(K, c) = Entering(L, c)
    <3>1. \A x \in Movers(L) : K[x] = L[x]
      BY <1>1 DEF Movers, NewGaps
    <3> QED
      BY <3>1, <1>4 DEF Entering
  <2>3. Leaving(K, c) \in SUBSET Leaving(L, c)
    <3>1. Assignable \subseteq Refdes
      BY DEF Assignable, Physical
    <3>2. c[1] # Unused
      BY <2>1, <1>1 DEF TableCells
    <3> QED
      BY <3>1, <3>2, <1>1 DEF Leaving, NewGaps
  <2>4. Leaving(L, c) \in SUBSET Refdes
    BY DEF Leaving, Assignable, Physical
  <2>5. /\ Cardinality(Leaving(K, c)) <= Cardinality(Leaving(L, c))
        /\ Cardinality(Leaving(K, c)) \in Nat /\ Cardinality(Leaving(L, c)) \in Nat
    BY <2>3, <2>4, FewerDecaps, DecapsAreCounted
  <2>6. Allowance(c) \in Nat
    BY <2>1 DEF RequestFits
  <2> QED
    BY <2>1, <2>2, <2>5, <2>6 DEF ToleranceRow
<1> QED
  BY <1>2, <1>3, <1>6, <1>7 DEF Keeps, CountRows

\* The gaps that are pruned are new ones, of donors.
LEMMA PrunedKeeps ==
  ASSUME EditsInv, RequestFits, NEW L, Keeps(L)
  PROVE  Keeps(Pruned(L))
<1>1. ASSUME NEW x \in Redundant(L) PROVE x \in NewGaps(L) /\ Cell(x) \in Donors
  <2>1. x \in NewGaps(L) /\ x \in Cut(L)
    BY DEF Redundant, NewGaps, Cut
  <2>2. x \in Segment(board.powerEdges, Cut(L), x)
    BY <2>1, SegmentIsClosed
  <2> QED
    BY <2>1, <2>2 DEF Redundant
<1>2. Pruned(L) = Mended(L, Redundant(L))
  BY DEF Pruned, Mended
<1> QED
  BY <1>1, <1>2, MendedKeeps

\* Without any turnover only donors lose pads, and all they lose may be put back.
LEMMA UncutKeeps ==
  ASSUME EditsInv, RequestFits, NEW L, Keeps(L), Turnover = {}
  PROVE  Keeps(Mended(L, NewGaps(L)))
<1>1. ASSUME NEW x \in NewGaps(L) PROVE Cell(x) \in Donors
  BY WhoChanges DEF Sources, NewGaps
<1> QED
  BY <1>1, MendedKeeps

-----------------------------------------------------------------------------
(* The stages.                                                             *)

WithRows == Solving \ {"flow"}

WithSolution == {"gaps", "moves", "distance", "ties", "refine", "finish"}

\* The rows only ever shrink from those of the program, and what a stage hands on is
\* one of its solutions; the stage that cuts nothing comes only where no turnover is
\* allowed.
PlanInv ==
  /\ EditsInv
  /\ stage # "idle" => RequestFits
  /\ stage \in WithRows => \A L \in rows : Keeps(L)
  /\ stage \in WithSolution => Keeps(found)
  /\ answer = "plan" => stage = "answered" /\ Keeps(found)
  /\ stage \in {"fulfil", "gaps", "moves", "distance"} /\ DirectOnly => Turnover = {}

\* What the counts, the rows and the labels are made of stays during a calculation.
LEMMA TableStays ==
  ASSUME UNCHANGED <<board, decaps, request>>
  PROVE  /\ \A L : Keeps(L)' <=> Keeps(L)
         /\ RequestFits' <=> RequestFits
         /\ DirectOnly' <=> DirectOnly
         /\ Turnover' = Turnover
<1>1. /\ Donors' = Donors /\ Receivers' = Receivers /\ Turnover' = Turnover
      /\ \A c : Present(c)' = Present(c) /\ Target(c)' = Target(c)
                /\ Allowance(c)' = Allowance(c)
  BY DEF Donors, Receivers, Turnover, Present, Target, Allowance
<1>2. RequestFits' <=> RequestFits
  BY <1>1 DEF RequestFits
<1>3. /\ Assignable' = Assignable
      /\ \A x : Cell(x)' = Cell(x)
      /\ Sources' = Sources /\ Destinations' = Destinations
  BY <1>1 DEF Assignable, Cell, Sources, Destinations
<1>4. \A x : Labels(x)' = Labels(x)
  <2>1. \A x, r : Reaches(x, r)' <=> Reaches(x, r)
    BY DEF Reaches
  <2>2. \A x, r : MayGo(x, r)' <=> MayGo(x, r)
    BY <1>3, <2>1 DEF MayGo
  <2>3. \A x : MayCut(x)' <=> MayCut(x)
    BY <1>3 DEF MayCut
  <2> QED
    BY <2>2, <2>3 DEF Labels
<1>5. \A L, c : /\ After(L, c)' = After(L, c)
               /\ Leaving(L, c)' = Leaving(L, c)
               /\ Entering(L, c)' = Entering(L, c)
  BY <1>3 DEF After, Leaving, Entering, Movers
<1>6. ASSUME NEW L, NEW c
      PROVE  /\ CountRow(L, c)' <=> CountRow(L, c)
             /\ ToleranceRow(L, c)' <=> ToleranceRow(L, c)
  BY <1>1, <1>5 DEF CountRow, ToleranceRow
<1>7. ASSUME NEW L PROVE CountRows(L)' <=> CountRows(L)
  <2>1. ASSUME NEW c PROVE CountRow(L, c)' <=> CountRow(L, c)
    BY <1>6
  <2>2. ASSUME NEW c PROVE ToleranceRow(L, c)' <=> ToleranceRow(L, c)
    BY <1>6
  <2> QED
    BY <1>1, <2>1, <2>2 DEF CountRows, TableCells
<1>8. \A L : Keeps(L)' <=> Keeps(L)
  BY <1>4, <1>7 DEF Keeps
<1>9. DirectOnly' <=> DirectOnly
  BY <1>4 DEF DirectOnly
<1> QED
  BY <1>1, <1>2, <1>8, <1>9

\* So does what the edits keep.
LEMMA EditsInvStays ==
  ASSUME EditsInv, UNCHANGED vars
  PROVE  EditsInv'
BY DEF EditsInv, TypeOK, Valid, PreflightSuffices, vars

\* Every solution of the program, and of the flow, keeps the rows of the counts.
LEMMA SolutionsKeep ==
  (\A L \in Solutions : Keeps(L)) /\ (\A L \in Flows : Keeps(L))
BY DEF Solutions, Flows, Keeps

\* Every step of a calculation, every applied plan and every edit keeps it.
LEMMA StepKeepsPlanInv == PlanInv /\ [PlanNext]_planVars => PlanInv'
<1> SUFFICES ASSUME PlanInv, [PlanNext]_planVars PROVE PlanInv'
  OBVIOUS
<1> USE DEF WithRows, WithSolution, Solving
<1>1. ASSUME UNCHANGED vars
      PROVE  EditsInv'
  BY <1>1, EditsInvStays DEF PlanInv
<1>2. ASSUME UNCHANGED <<vars, request>>
      PROVE  /\ \A L : Keeps(L)' <=> Keeps(L)
             /\ RequestFits' <=> RequestFits
             /\ DirectOnly' <=> DirectOnly
             /\ Turnover' = Turnover
  BY <1>2, TableStays DEF vars
<1>3. ASSUME UNCHANGED <<vars, request>>, NEW a, Answer(a), a # "plan", stage # "idle"
      PROVE  PlanInv'
  BY <1>1, <1>2, <1>3 DEF PlanInv, Answer
<1>4. ASSUME NEW q \in Requests, Calculate(q) PROVE PlanInv'
  <2>1. UNCHANGED vars /\ request' = Resolved(q) /\ stage = "idle" /\ answer # "plan"
    BY <1>4 DEF Calculate, PlanInv
  <2>2. RequestFits'
    <3>1. /\ request'.present = [c \in TableCells |-> Count(decaps, c)]
          /\ \A c \in TableCells :
               request'.present[c] \in Nat /\ request'.target[c] \in Nat
                 /\ request'.allowance[c] \in Nat
      <4>1. ASSUME NEW c \in TableCells PROVE Count(decaps, c) \in Nat
        BY DecapsAreCounted DEF Count, Physical
      <4>2. ASSUME NEW c \in TableCells, c \in DOMAIN q.targets PROVE q.targets[c] \in Nat
        BY <4>2, DistributionAssumption
      <4>3. ASSUME NEW n \in Nat, NEW t \in 0..100 PROVE (n * t) \div 100 \in Nat
        <5>1. n * t \in Nat
          OBVIOUS
        <5> QED
          BY <5>1
      <4>4. ASSUME NEW c \in TableCells, c \in DOMAIN q.tolerances
            PROVE  q.tolerances[c] \in 0..100
        BY <4>4, DistributionAssumption
      <4> QED
        BY <2>1, <4>1, <4>2, <4>3, <4>4 DEF Resolved
    <3>3. request'.penalty \in Nat /\ (request'.policy = "MIN_GAPS" => request'.penalty = 0)
      BY <2>1, DistributionAssumption DEF Resolved
    <3>2. decaps' = decaps
      BY <2>1 DEF vars
    <3> QED
      BY <3>1, <3>2, <3>3 DEF RequestFits, Present, Target, Allowance, TableCells
  <2>3. CASE stage' = "build" /\ UNCHANGED <<solveVars, answer>>
    BY <2>1, <2>2, <2>3, <1>1 DEF PlanInv
  <2>4. CASE Answer("refused")
    BY <2>1, <2>2, <2>4, <1>1 DEF PlanInv, Answer
  <2> QED
    BY <2>3, <2>4, <1>4 DEF Calculate
<1>5. CASE Build
  <2>1. UNCHANGED <<vars, request>> /\ stage = "build" /\ answer # "plan" /\ RequestFits
    BY <1>5 DEF Build, PlanInv
  <2>2. CASE Answer("shortage")
    BY <2>1, <2>2, <1>3
  <2>3. CASE DirectOnly /\ stage' = "flow" /\ UNCHANGED <<rows, answer>>
    BY <2>1, <2>3, <1>1, <1>2 DEF PlanInv
  <2>4. CASE /\ ~(DirectOnly /\ Turnover # {}) /\ stage' = "fulfil"
             /\ rows' = Solutions /\ UNCHANGED answer
    BY <2>1, <2>4, <1>1, <1>2, SolutionsKeep DEF PlanInv
  <2> QED
    BY <2>2, <2>3, <2>4, <1>5 DEF Build
<1>6. CASE Stop
  BY <1>6, <1>3 DEF Stop
<1>7. CASE Flow
  <2>1. UNCHANGED <<vars, request, answer>> /\ stage = "flow" /\ stage' = "refine"
        /\ rows' = Solutions /\ answer # "plan" /\ RequestFits
    BY <1>7 DEF Flow, PlanInv, Solved
  <2>2. found' \in Flows
    BY <1>7 DEF Flow, Least, Most, Solved
  <2> QED
    BY <2>1, <2>2, <1>1, <1>2, SolutionsKeep DEF PlanInv
<1>8. CASE Fulfil
  <2>1. UNCHANGED <<vars, request>> /\ stage = "fulfil" /\ answer # "plan"
    BY <1>8 DEF Fulfil, PlanInv
  <2>2. CASE Answer("failed")
    BY <2>1, <2>2, <1>3
  <2>3. CASE stage' = "gaps" /\ found' \in rows /\ rows' \subseteq rows /\ UNCHANGED answer
    BY <2>1, <2>3, <1>1, <1>2 DEF PlanInv
  <2> QED
    BY <2>2, <2>3, <1>8 DEF Fulfil, Most, Solved
<1>9. CASE FewestGaps
  <2>1. UNCHANGED <<vars, request, rows, answer>> /\ stage = "gaps" /\ stage' = "moves"
        /\ answer # "plan"
    BY <1>9 DEF FewestGaps, PlanInv, Solved
  <2>2. found' \in rows \/ found' = found
    BY <1>9 DEF FewestGaps, Least, Solved
  <2> QED
    BY <2>1, <2>2, <1>1, <1>2 DEF PlanInv
<1>10. CASE FewestMoves
  <2>1. UNCHANGED <<vars, request, answer>> /\ stage = "moves" /\ stage' = "distance"
        /\ answer # "plan" /\ rows' \subseteq rows /\ found' \in rows
    BY <1>10 DEF FewestMoves, PlanInv, Solved, Least, Candidates
  <2> QED
    BY <2>1, <1>1, <1>2 DEF PlanInv
<1>11. CASE DirectDistance
  <2>1. UNCHANGED <<vars, request, rows, answer>> /\ stage = "distance" /\ stage' = "refine"
        /\ answer # "plan" /\ DirectOnly
    BY <1>11 DEF DirectDistance, PlanInv, Solved
  <2>2. Keeps(found')
    <3>1. CASE found' \in Flows
      BY <3>1, SolutionsKeep
    <3>2. CASE found' = Mended(found, NewGaps(found))
      <4>1. EditsInv /\ RequestFits /\ Keeps(found) /\ Turnover = {}
        BY <2>1 DEF PlanInv
      <4> QED
        BY <3>2, <4>1, UncutKeeps
    <3> QED
      BY <3>1, <3>2, <1>11 DEF DirectDistance, Solved, Least, Mended
  <2> QED
    BY <2>1, <2>2, <1>1, <1>2 DEF PlanInv
<1>12. CASE SharedDistance
  <2>1. UNCHANGED <<vars, request>> /\ stage = "distance" /\ answer # "plan"
    BY <1>12 DEF SharedDistance, PlanInv
  <2>2. CASE Answer("no distance")
    BY <2>1, <2>2, <1>3
  <2>3. CASE /\ stage' \in {"ties", "refine"} /\ found' \in rows \cup {found}
             /\ rows' \subseteq rows /\ UNCHANGED answer
    BY <2>1, <2>3, <1>1, <1>2 DEF PlanInv
  <2> QED
    BY <2>2, <2>3, <1>12 DEF SharedDistance, Least, Candidates, Solved
<1>13. CASE Ties
  <2>1. UNCHANGED <<vars, request, rows, answer>> /\ stage = "ties" /\ stage' = "refine"
        /\ answer # "plan"
    BY <1>13 DEF Ties, PlanInv, Solved
  <2>2. found' \in rows
    BY <1>13 DEF Ties, Least, Candidates, Solved
  <2> QED
    BY <2>1, <2>2, <1>1, <1>2 DEF PlanInv
<1>14. CASE Refine
  <2>1. UNCHANGED <<vars, request>> /\ stage = "refine" /\ answer # "plan"
    BY <1>14 DEF Refine, PlanInv
  <2>2. CASE Answer("no distance")
    BY <2>1, <2>2, <1>3
  <2>3. CASE /\ stage' = "finish" /\ found' \in rows \cup {found}
             /\ UNCHANGED <<rows, answer>>
    BY <2>1, <2>3, <1>1, <1>2 DEF PlanInv
  <2> QED
    BY <2>2, <2>3, <1>14 DEF Refine, Least, SameMoves, SameGaps, Solved
<1>15. CASE Finish
  <2>1. UNCHANGED <<vars, request>> /\ stage = "finish" /\ answer # "plan"
        /\ Keeps(found) /\ Keeps(Pruned(found))
    BY <1>15, PrunedKeeps DEF Finish, PlanInv
  <2>2. CASE /\ stage' = "answered" /\ found' \in {found, Pruned(found)}
    BY <2>1, <2>2, <1>1, <1>2 DEF PlanInv
  <2>3. CASE Answer("rejected") \/ Answer("invalid")
    BY <2>1, <2>3, <1>3
  <2> QED
    BY <2>2, <2>3, <1>15 DEF Finish
<1>16. CASE Apply
  <2>1. stage' = "idle" /\ answer' = "none"
    BY <1>16 DEF Apply, Rest
  <2>2. EditsInv'
    <3> DEFINE f == [x \in Movers(found) |-> found[x]]
    <3>1. EditsInv /\ Keeps(found)
      BY <1>16 DEF Apply, PlanInv
    <3>2. /\ Movers(found) \in SUBSET Refdes /\ NewGaps(found) \in SUBSET Refdes
          /\ f \in [Movers(found) -> Rails]
      BY <3>1, WhoChanges DEF Movers, NewGaps
    <3>3. AssignRailsAndGaps(f, NewGaps(found))
      BY <1>16 DEF Apply
    <3> HIDE DEF f
    <3> QED
      BY <3>1, <3>2, <3>3, AssignRailsAndGapsKeepsInv
  <2> QED
    BY <2>1, <2>2 DEF PlanInv
<1>17. CASE Discard
  BY <1>17, <1>1 DEF Discard, Rest, PlanInv
<1>18. CASE Edit
  <2>1. stage' = "idle" /\ answer' # "plan"
    BY <1>18 DEF Edit, PlanInv
  <2>2. EditsInv'
    <3>1. PICK S \in SUBSET Refdes :
            \/ \E r \in Rails : AssignRail(S, r)
            \/ \E m \in Models \cup {NoModel} : AssignModel(S, m)
            \/ \E on \in BOOLEAN : SetEnabled(S, on)
            \/ RestoreSource(S)
      BY <1>18, DistributionAssumption DEF Edit
    <3> QED
      BY <3>1, AssignRailKeepsInv, AssignModelKeepsInv, SetEnabledKeepsInv,
         RestoreSourceKeepsInv DEF PlanInv
  <2> QED
    BY <2>1, <2>2 DEF PlanInv
<1>19. CASE UNCHANGED planVars
  <2>1. UNCHANGED <<vars, request, stage, rows, found, answer>>
    BY <1>19 DEF planVars, solveVars
  <2> QED
    BY <2>1, <1>1, <1>2 DEF PlanInv
<1> QED
  BY <1>4, <1>5, <1>6, <1>7, <1>8, <1>9, <1>10, <1>11, <1>12, <1>13, <1>14, <1>15,
     <1>16, <1>17, <1>18, <1>19 DEF PlanNext

\* The invariant behind the theorems on plans.
THEOREM PlanInvariant == PlanSpec => []PlanInv
<1>1. PlanInit => PlanInv
  <2> SUFFICES ASSUME PlanInit PROVE PlanInv
    OBVIOUS
  <2>1. board \in Boards /\ decaps = board.source /\ outcome = "kept"
    BY DEF PlanInit, Init
  <2>2. EditsInv
    BY <2>1, SourceIsTyped DEF EditsInv, TypeOK, PreflightSuffices, Outcomes
  <2> QED
    BY <2>2 DEF PlanInit, PlanInv, WithRows, WithSolution, Solving
<1> QED
  BY <1>1, StepKeepsPlanInv, PTL DEF PlanSpec

\* The counts of the scenario a plan leads to are those its table allows, whatever
\* stages fell back and whatever gaps were pruned after the last solve.
THEOREM PlansKeepTheTable == PlanSpec => []PlanKeepsTable
<1>1. PlanInv => PlanKeepsTable
  BY KeepsItsTable DEF PlanInv, PlanKeepsTable
<1> QED
  BY <1>1, PlanInvariant, PTL

\* Whatever plans have been applied, with edits in between: pads at different rails
\* share neither copper nor a PWR via, every pad is fed, and the source can be
\* restored.
THEOREM PlansKeepTheBoard ==
  PlanSpec => [](TypeOK /\ RailsNeverMeet /\ EveryPadIsFed /\ SourceIsReachable)
<1>1. PlanInv => TypeOK /\ RailsNeverMeet /\ EveryPadIsFed /\ SourceIsReachable
  BY InvKeepsRailsApart, InvFeedsPads, InvReachesSource DEF PlanInv, EditsInv
<1> QED
  BY <1>1, PlanInvariant, PTL

-----------------------------------------------------------------------------
(* What the rows promise the edits.                                        *)

\* A label is what the edit of a plan makes of its decap.
LEMMA OutcomeOf ==
  ASSUME EditsInv, NEW L, Relabels(L), NEW x \in Refdes
  PROVE  /\ Outcome(L)[x].gap <=> L[x] = Unused
         /\ L[x] # Unused => Outcome(L)[x].rail = L[x]
         /\ x \in NewGaps(L) => ~Outcome(L)[x].enabled
         /\ x \notin NewGaps(L) => /\ Outcome(L)[x].gap <=> decaps[x].gap
                                   /\ Outcome(L)[x].enabled <=> decaps[x].enabled
         /\ x \notin Movers(L) \cup NewGaps(L) => Outcome(L)[x] = decaps[x]
<1> DEFINE M == Movers(L)
           moved == Moved(decaps, M, L)
           new == Outcome(L)
<1>1. /\ decaps \in [Refdes -> Decap] /\ M \in SUBSET Refdes
      /\ NewGaps(L) \in SUBSET Refdes /\ \A y \in M : L[y] \in Rails
  BY WhoStays DEF EditsInv, TypeOK, Movers, NewGaps
<1>2. /\ moved \in [Refdes -> Decap]
      /\ \A y \in Refdes : /\ moved[y].gap = decaps[y].gap
                           /\ moved[y].enabled = decaps[y].enabled
                           /\ y \notin M => moved[y] = decaps[y]
  <2> HIDE DEF M
  <2> QED
    BY <1>1, MovedIsTyped
<1>3. x \in M => moved[x].rail = L[x]
  <2> SUFFICES ASSUME x \in M PROVE moved[x].rail = L[x]
    OBVIOUS
  <2>1. moved[x] = [decaps[x] EXCEPT !.rail = L[x]]
    BY <1>1 DEF Moved, Replaced
  <2>2. decaps[x] \in Decap
    BY <1>1
  <2> QED
    BY <2>1, <2>2 DEF Decap
<1>4. /\ new \in [Refdes -> Decap]
      /\ \A y \in NewGaps(L) : new[y].gap /\ ~new[y].enabled
      /\ \A y \in Refdes \ NewGaps(L) : new[y] = moved[y]
  <2> HIDE DEF moved
  <2>1. new = Opened(moved, NewGaps(L))
    BY DEF Outcome, moved
  <2> QED
    BY <1>1, <1>2, <2>1, OpenedIsTyped
<1>5. decaps[x].rail \in Rails /\ decaps[x].rail # Unused
  BY WhoStays
<1> HIDE DEF moved, new
<1>6. CASE x \in NewGaps(L)
  <2>1. L[x] = Unused
    BY <1>6 DEF NewGaps
  <2> QED
    BY <1>4, <1>6, <2>1, Zenon DEF new
<1>7. CASE x \in M
  <2>1. x \notin NewGaps(L) /\ L[x] # Unused /\ ~decaps[x].gap
    BY <1>7, WhoStays DEF NewGaps, Movers
  <2>2. new[x] = moved[x]
    BY <1>4, <2>1
  <2>3. new[x].gap = decaps[x].gap /\ new[x].enabled = decaps[x].enabled
    BY <1>2, <2>2
  <2>4. ~new[x].gap
    BY <2>1, <2>3, Zenon
  <2>5. new[x].rail = L[x]
    BY <1>3, <1>7, <2>2
  <2> QED
    BY <1>7, <2>1, <2>3, <2>4, <2>5, Zenon DEF new
<1>8. CASE x \notin M \cup NewGaps(L)
  <2>1. new[x] = decaps[x]
    BY <1>2, <1>4, <1>8
  <2>2. L[x] = IF decaps[x].gap THEN Unused ELSE decaps[x].rail
    BY <1>8, WhoStays
  <2>3. CASE decaps[x].gap
    BY <1>8, <2>1, <2>2, <2>3, Zenon DEF new
  <2>4. CASE ~decaps[x].gap
    BY <1>5, <1>8, <2>1, <2>2, <2>4, Zenon DEF new
  <2> QED
    BY <2>3, <2>4
<1> QED
  BY <1>6, <1>7, <1>8

\* The edit accepts a plan that leaves the clusters it touches sound: who is moved
\* or cut may be, and a decap that shares no pad goes to a rail of its own vias.
LEMMA SoundIsTaken ==
  ASSUME EditsInv, board.analyzed, NEW L, Keeps(L),
         \A x \in Movers(L) \cup NewGaps(L) :
           Shared(board, x) => PowerSound(board, Outcome(L), board.cluster[x])
  PROVE  Takes(L)
<1> DEFINE S == Movers(L) \cup NewGaps(L)
<1> SUFFICES ASSUME S # {} PROVE MayOpen(board, NewGaps(L)) /\ Accepts(board, Outcome(L), S)
  BY DEF Takes
<1>1. MayOpen(board, NewGaps(L))
  BY WhoChanges DEF MayOpen, NewGaps
<1>2. S \subseteq Refdes
  BY DEF Movers, NewGaps
<1>3. ASSUME NEW x \in S PROVE board.kind[x] \notin Blocked
  <2>1. x \in Assignable
    BY <1>2, WhoChanges
  <2> QED
    BY <2>1 DEF Assignable, Blocked
<1>4. ASSUME NEW x \in S, ~Shared(board, x)
      PROVE  Outcome(L)[x].rail \in board.ownRails[x]
  <2>1. \A y \in board.gapCells : Shared(board, y)
    BY EditsAssumption DEF EditsInv, TypeOK, SoundBoard, SoundClusters
  <2>2. x \in Refdes /\ x \notin NewGaps(L) /\ x \in Movers(L)
    BY <1>1, <1>2, <1>4, <2>1 DEF MayOpen
  <2>3. L[x] \in Labels(x) /\ L[x] # Unused /\ L[x] # decaps[x].rail
    BY <2>2 DEF Keeps, Movers
  <2>4. L[x] \in board.ownRails[x]
    BY <1>4, <2>3 DEF Labels, MayGo, Reaches
  <2>5. Outcome(L)[x].rail = L[x]
    BY <2>2, <2>3, KeepsRelabels, OutcomeOf
  <2> QED
    BY <2>4, <2>5
<1>5. ProposalPasses(board, Outcome(L), S)
  BY <1>4 DEF ProposalPasses
<1> QED
  BY <1>1, <1>3, <1>5 DEF Accepts, PwrEditable

\* The rows of the program leave every cluster sound: copper joins only pads of one
\* label, and the label of an island is offered by one of its vias.
LEMMA SolutionIsSound ==
  ASSUME EditsInv, NEW L \in Solutions, NEW c \in Clusters
  PROVE  PowerSound(board, Outcome(L), c)
<1> DEFINE new == Outcome(L)
           edges == board.powerEdges
           cells == {x \in Members(board, c) : L[x] # Unused}
           islands == Segments(edges, cells)
<1>1. Keeps(L) /\ EdgeRows(L) /\ Rooted(L)
  BY SolutionsKeep DEF Solutions
<1>2. /\ \A I \in islands : {L[x] : x \in I} \subseteq Offered(board, I)
      /\ ~SplitsVia(board.powerVias, islands)
  BY <1>1 DEF Rooted
<1>3. \A x \in Refdes : (new[x].gap <=> L[x] = Unused) /\ (L[x] # Unused => new[x].rail = L[x])
  BY <1>1, KeepsRelabels, OutcomeOf
<1> HIDE DEF new
<1>4. Cells(board, new, c) = cells
  BY <1>3 DEF Cells, Members
<1>5. \A x \in cells : x \in Refdes /\ L[x] # Unused /\ new[x].rail = L[x]
  BY <1>3 DEF Members
<1>6. ~Shorted(board, new, c)
  <2> SUFFICES ASSUME NEW e \in edges, e \subseteq cells, NEW x \in e, NEW y \in e,
                      Net(board, new, x) # Net(board, new, y)
               PROVE  FALSE
    BY <1>4 DEF Shorted
  <2>1. L[x] = L[y]
    BY <1>1, <1>5 DEF EdgeRows
  <2>2. new[x].rail = new[y].rail
    BY <1>5, <2>1
  <2> QED
    BY <2>2 DEF Net
<1>7. ASSUME NEW I \in islands PROVE ~MixedRails(new, I) /\ Fed(board, new, I)
  <2>1. PICK x \in cells : I = Segment(edges, cells, x)
    BY DEF Segments
  <2> DEFINE same == {y \in cells : L[y] = L[x]}
  <2>2. Closed(edges, cells, same)
    <3> SUFFICES ASSUME NEW e \in edges, e \subseteq cells, NEW y \in e, y \in same,
                        NEW z \in e
                 PROVE  z \in same
      BY DEF Closed
    <3>1. L[y] = L[z]
      BY <1>1, <1>5 DEF EdgeRows
    <3> QED
      BY <3>1
  <2>3. I \subseteq same
    <3>1. x \in same /\ same \in SUBSET cells
      OBVIOUS
    <3> HIDE DEF same, cells
    <3> QED
      BY <2>1, <2>2, <3>1, SegmentIsLeast
  <2>4. \A y \in I : new[y].rail = L[x] /\ L[y] = L[x]
    BY <1>5, <2>3
  <2>5. ~MixedRails(new, I)
    BY <2>4 DEF MixedRails
  <2>6. Fed(board, new, I)
    BY <1>2, <2>4 DEF Fed
  <2> QED
    BY <2>5, <2>6
<1>8. Islands(board, new, c) = islands
  BY <1>4 DEF Islands
<1> QED
  BY <1>2, <1>6, <1>7, <1>8 DEF PowerSound, new

\* Every solution of the program passes the preflight of the edit.
LEMMA SolutionIsTaken ==
  ASSUME EditsInv, board.analyzed, NEW L \in Solutions
  PROVE  Takes(L)
<1>1. Keeps(L)
  BY SolutionsKeep
<1>2. ASSUME NEW x \in Movers(L) \cup NewGaps(L), Shared(board, x)
      PROVE  board.cluster[x] \in Clusters
  BY <1>2, EditsAssumption DEF EditsInv, TypeOK, SoundBoard, Board, Shared, Movers, NewGaps
<1> QED
  BY <1>1, <1>2, SolutionIsSound, SoundIsTaken

\* So does every choice of rails without a gap, where no pad of a cluster can move.
LEMMA FlowIsTaken ==
  ASSUME EditsInv, board.analyzed, DirectOnly, NEW L, Keeps(L), NewGaps(L) = {}
  PROVE  Takes(L)
<1>1. ASSUME NEW x \in Movers(L) \cup NewGaps(L), Shared(board, x)
      PROVE  FALSE
  <2>1. x \in Refdes /\ x \in Movers(L)
    BY DEF Movers
  <2>2. L[x] \in {decaps[x].rail, Unused}
    BY <1>1, <2>1 DEF Keeps, DirectOnly
  <2> QED
    BY <2>1, <2>2 DEF Movers
<1> QED
  BY <1>1, SoundIsTaken

\* What the edit accepts is a scenario that validates.
LEMMA TakenIsValid ==
  ASSUME EditsInv, GroundViasApart(board), NEW L, Keeps(L), Takes(L)
  PROVE  Valid(board, Outcome(L))
<1> DEFINE S == Movers(L) \cup NewGaps(L)
           new == Outcome(L)
<1>1. S \in SUBSET Refdes
  BY DEF Movers, NewGaps
<1>2. SamePads(decaps, new, Refdes \ S)
  BY KeepsRelabels, OutcomeOf DEF SamePads
<1>3. GapsSound(board, new)
  <2> SUFFICES ASSUME NEW x \in Refdes, new[x].gap
               PROVE  x \in board.gapCells /\ ~new[x].enabled
    BY Zenon DEF GapsSound
  <2>1. CASE x \in NewGaps(L)
    BY <2>1, KeepsRelabels, WhoChanges, OutcomeOf
  <2>2. CASE x \notin NewGaps(L)
    <3>1. (new[x].gap <=> decaps[x].gap) /\ (new[x].enabled <=> decaps[x].enabled)
      BY <2>2, KeepsRelabels, OutcomeOf
    <3>2. decaps[x].gap
      BY <3>1, Zenon
    <3>3. x \in board.gapCells /\ ~decaps[x].enabled
      BY <3>2, Zenon DEF EditsInv, Valid, GapsSound
    <3> QED
      BY <3>1, <3>3, Zenon
  <2> QED
    BY <2>1, <2>2
<1>4. ProposalPasses(board, new, S)
  BY DEF Takes, Accepts, ProposalPasses
<1>5. Valid(board, decaps)
  BY DEF EditsInv
<1> HIDE DEF S, new
<1> QED
  BY <1>1, <1>2, <1>3, <1>4, <1>5, ProposalIsValid DEF new

\* Pads of clusters that stay as they are satisfy the rows of the copper, unless an
\* edit has put back only some of the pads over a via.
LEMMA UnmovedPadsAreSound ==
  ASSUME EditsInv, ViasWhole, NEW L,
         \A x \in Refdes :
           Shared(board, x) => L[x] = IF decaps[x].gap THEN Unused ELSE decaps[x].rail
  PROVE  EdgeRows(L) /\ ViaRows(L) /\ Rooted(L)
<1>1. ASSUME NEW x \in Refdes PROVE decaps[x].rail \in Rails /\ decaps[x].rail # Unused
  BY DistributionAssumption DEF EditsInv, TypeOK, Decap
<1>2. \A x \in Refdes :
        Shared(board, x) => L[x] = IF decaps[x].gap THEN Unused ELSE decaps[x].rail
  OBVIOUS
<1>3. SoundBoard(board) /\ RailsNeverMeet
  BY EditsAssumption, InvKeepsRailsApart DEF EditsInv, TypeOK
<1>4. EdgeRows(L)
  <2> SUFFICES ASSUME NEW e \in board.powerEdges, NEW x \in e, NEW y \in e,
                      L[x] # L[y], L[x] # Unused, L[y] # Unused
               PROVE  FALSE
    BY DEF EdgeRows
  <2>1. PICK u \in Refdes, v \in Refdes :
          e = {u, v} /\ Shared(board, u) /\ board.cluster[u] = board.cluster[v]
    BY <1>3 DEF SoundBoard, SoundClusters
  <2>2. /\ x \in Refdes /\ y \in Refdes /\ e = {x, y}
        /\ Shared(board, x) /\ Shared(board, y)
    BY <2>1 DEF Shared
  <2>3. ~decaps[x].gap /\ ~decaps[y].gap /\ decaps[x].rail # decaps[y].rail
    BY <2>2, <1>2
  <2> QED
    BY <2>2, <2>3, <1>3, Zenon DEF RailsNeverMeet
<1>5. ViaRows(L)
  <2> SUFFICES ASSUME NEW x \in Refdes, NEW y \in Refdes,
                      Shared(board, x), Shared(board, y),
                      board.powerVias[x] \cap board.powerVias[y] # {}
               PROVE  L[x] = L[y]
    BY Zenon DEF ViaRows
  <2>1. decaps[x].gap = decaps[y].gap
    BY DEF ViasWhole
  <2>2. CASE decaps[x].gap
    <3>1. decaps[y].gap
      BY <2>1, <2>2, Zenon
    <3> QED
      BY <2>2, <3>1, <1>2
  <2>3. CASE ~decaps[x].gap
    <3>1. ~decaps[y].gap
      BY <2>1, <2>3, Zenon
    <3>2. decaps[x].rail = decaps[y].rail
      BY <2>3, <3>1, <1>3, Zenon DEF RailsNeverMeet
    <3> QED
      BY <2>3, <3>1, <3>2, <1>2
  <2> QED
    BY <2>2, <2>3
<1>6. Rooted(L)
  <2> SUFFICES ASSUME NEW c \in Clusters
               PROVE  LET islands == Segments(board.powerEdges,
                                              {x \in Members(board, c) : L[x] # Unused})
                      IN  /\ \A I \in islands : {L[x] : x \in I} \subseteq Offered(board, I)
                          /\ ~SplitsVia(board.powerVias, islands)
    BY DEF Rooted
  <2>0. \A x \in Members(board, c) :
          x \in Refdes /\ L[x] = IF decaps[x].gap THEN Unused ELSE decaps[x].rail
    BY <1>2, PadAssumption DEF Members, Shared
  <2>1. {x \in Members(board, c) : L[x] # Unused} = Cells(board, decaps, c)
    BY <1>1, <2>0 DEF Cells, Members
  <2>2. PowerSound(board, decaps, c)
    BY DEF EditsInv, Valid
  <2>3. \A I \in Islands(board, decaps, c) : \A x \in I : L[x] = decaps[x].rail
    BY <2>0 DEF Islands, Segments, Segment, Cells
  <2> QED
    BY <2>1, <2>2, <2>3 DEF PowerSound, Fed, Islands
<1> QED
  BY <1>4, <1>5, <1>6

\* Leaving every pad as it is satisfies all rows, unless an edit has put back only
\* some of the pads over a via: a solve of the program is never without a solution.
LEMMA UnmovedIsASolution ==
  ASSUME EditsInv, RequestFits, ViasWhole
  PROVE  Solutions # {}
<1> DEFINE L == [x \in Refdes |-> IF decaps[x].gap THEN Unused ELSE decaps[x].rail]
<1>1. ASSUME NEW x \in Refdes PROVE decaps[x].rail \in Rails /\ decaps[x].rail # Unused
  BY DistributionAssumption DEF EditsInv, TypeOK, Decap
<1>2. /\ L \in [Refdes -> Rails \cup {Unused}]
      /\ \A x \in Refdes : L[x] = IF decaps[x].gap THEN Unused ELSE decaps[x].rail
  BY <1>1
<1> HIDE DEF L
<1>3. \A x \in Refdes : L[x] \in Labels(x)
  BY <1>2 DEF Labels
<1>4. Movers(L) = {} /\ NewGaps(L) = {}
  BY <1>1, <1>2 DEF Movers, NewGaps
<1>5. ASSUME NEW x \in Physical(decaps) PROVE x \in Refdes /\ L[x] = decaps[x].rail
  <2>1. x \in Refdes /\ decaps[x].enabled
    BY DEF Physical
  <2>2. ~decaps[x].gap
    BY <2>1, Zenon DEF EditsInv, Valid, GapsSound
  <2> QED
    BY <1>2, <2>1, <2>2
<1>6. ASSUME NEW c \in TableCells PROVE CountRow(L, c)
  <2>1. After(L, c) = Present(c)
    <3>1. {x \in Physical(decaps) : <<L[x], decaps[x].model>> = c}
            = {x \in Physical(decaps) : <<decaps[x].rail, decaps[x].model>> = c}
      BY <1>5
    <3> QED
      BY <3>1 DEF After, RequestFits, Present, Count
  <2>2. Present(c) \in Nat /\ Target(c) \in Nat
    BY DEF RequestFits
  <2> QED
    BY <2>1, <2>2 DEF CountRow, Donors, Receivers
<1>7. ASSUME NEW c \in Turnover PROVE ToleranceRow(L, c)
  <2>1. c \in TableCells /\ Allowance(c) \in Nat /\ Cardinality({}) = 0
    BY FS_EmptySet DEF Turnover, RequestFits
  <2>2. Leaving(L, c) = {}
    BY <1>5 DEF Leaving, Assignable, Cell
  <2>3. Entering(L, c) = {}
    BY <1>4 DEF Entering
  <2> QED
    BY <2>1, <2>2, <2>3 DEF ToleranceRow
<1>8. CountRows(L)
  BY <1>6, <1>7 DEF CountRows
<1>9. EdgeRows(L) /\ ViaRows(L) /\ Rooted(L)
  BY <1>2, UnmovedPadsAreSound
<1> QED
  BY <1>2, <1>3, <1>8, <1>9 DEF Solutions

-----------------------------------------------------------------------------
(* A calculation always has a plan.                                        *)

\* The solve of the first rows has them all, and every solution at hand, a fallback
\* as well, is one the edit takes.
Ready ==
  /\ stage \in Solving \cup {"build"} => board.analyzed
  /\ stage = "flow" => DirectOnly
  /\ stage = "fulfil" => rows = Solutions
  /\ stage \in {"gaps", "moves", "distance", "ties", "refine"} => rows \subseteq Solutions
  /\ stage \in {"gaps", "moves", "distance", "ties"} => found \in Solutions
  /\ stage \in {"refine", "finish"} => Takes(found)
  /\ AlwaysAPlan

\* The program and what the edits take stay during a calculation.
LEMMA ProgramStays ==
  ASSUME UNCHANGED <<vars, request>>
  PROVE  /\ Solutions' = Solutions
         /\ \A L : Takes(L)' <=> Takes(L)
         /\ GroundViasApart(board)' <=> GroundViasApart(board)
         /\ ViasWhole' <=> ViasWhole
<1> USE DEF vars
<1>1. ASSUME NEW L PROVE Keeps(L)' <=> Keeps(L)
  BY TableStays
<1>2. ASSUME NEW L
      PROVE  /\ EdgeRows(L)' <=> EdgeRows(L)
             /\ ViaRows(L)' <=> ViaRows(L)
             /\ Rooted(L)' <=> Rooted(L)
  BY DEF EdgeRows, ViaRows, Rooted
<1>3. ASSUME NEW L PROVE (L \in Solutions)' <=> L \in Solutions
  <2>1. L \in Solutions <=> Keeps(L) /\ EdgeRows(L) /\ ViaRows(L) /\ Rooted(L)
    BY DEF Solutions, Keeps
  <2>2. (L \in Solutions)' <=> Keeps(L)' /\ EdgeRows(L)' /\ ViaRows(L)' /\ Rooted(L)'
    BY DEF Solutions, Keeps
  <2> QED
    BY <2>1, <2>2, <1>1, <1>2
<1>4. ASSUME NEW L PROVE Takes(L)' <=> Takes(L)
  <2>1. Movers(L)' = Movers(L) /\ NewGaps(L)' = NewGaps(L)
    BY DEF Movers, NewGaps
  <2>2. Outcome(L)' = Outcome(L)
    BY <2>1 DEF Outcome
  <2> QED
    BY <2>1, <2>2 DEF Takes
<1>5. Solutions' = Solutions
  BY <1>3
<1> QED
  BY <1>4, <1>5 DEF GroundViasApart, ViasWhole

\* Every stage hands on what the edit takes, and no answer is without a plan but
\* for a shortage, a time limit or Cancel.
LEMMA StepKeepsReady == PlanInv /\ Ready /\ [PlanNext]_planVars => Ready'
<1> SUFFICES ASSUME PlanInv, Ready, [PlanNext]_planVars PROVE Ready'
  OBVIOUS
<1> USE DEF Solving
<1>1. ASSUME UNCHANGED <<vars, request>>
      PROVE  /\ Solutions' = Solutions
             /\ \A L : Takes(L)' <=> Takes(L)
             /\ GroundViasApart(board)' <=> GroundViasApart(board)
             /\ ViasWhole' <=> ViasWhole
             /\ board' = board
  BY <1>1, ProgramStays DEF vars
<1>2. ASSUME UNCHANGED <<vars, request>>, NEW a, Answer(a),
             GroundViasApart(board) /\ ViasWhole => a \notin {"failed", "invalid", "rejected"}
      PROVE  Ready'
  BY <1>1, <1>2 DEF Ready, Answer, AlwaysAPlan
<1>3. ASSUME stage' = "idle" PROVE Ready'
  BY <1>3 DEF Ready, AlwaysAPlan
<1>4. /\ EditsInv
      /\ board.analyzed => \A L \in Solutions : Takes(L)
  BY SolutionIsTaken DEF PlanInv
<1>5. ASSUME NEW q \in Requests, Calculate(q) PROVE Ready'
  <2>1. UNCHANGED vars /\ board' = board
    BY <1>5 DEF Calculate, vars
  <2>2. CASE board.analyzed /\ stage' = "build"
    BY <2>1, <2>2 DEF Ready, AlwaysAPlan
  <2>3. CASE Answer("refused")
    BY <2>1, <2>3 DEF Ready, Answer, AlwaysAPlan
  <2> QED
    BY <2>2, <2>3, <1>5 DEF Calculate
<1>6. CASE Build
  <2>1. UNCHANGED <<vars, request>> /\ stage = "build" /\ board.analyzed
    BY <1>6 DEF Build, Ready
  <2>2. CASE Answer("shortage")
    BY <2>1, <2>2, <1>2
  <2>3. CASE DirectOnly /\ stage' = "flow"
    BY <2>1, <2>3, <1>1, TableStays DEF Ready, AlwaysAPlan, vars
  <2>4. CASE stage' = "fulfil" /\ rows' = Solutions
    BY <2>1, <2>4, <1>1 DEF Ready, AlwaysAPlan
  <2> QED
    BY <2>2, <2>3, <2>4, <1>6 DEF Build
<1>7. CASE Stop
  BY <1>7, <1>2 DEF Stop
<1>8. CASE Flow
  <2>1. /\ UNCHANGED <<vars, request>> /\ stage = "flow" /\ stage' = "refine"
        /\ rows' = Solutions /\ board.analyzed
    BY <1>8 DEF Flow, Ready, Solved
  <2>2. found' \in Flows
    BY <1>8 DEF Flow, Least, Most, Solved
  <2>3. Keeps(found') /\ NewGaps(found') = {}
    BY <2>2, SolutionsKeep DEF Flows
  <2>4. DirectOnly
    BY <2>1 DEF Ready
  <2>5. Takes(found')
    BY <2>1, <2>3, <2>4, <1>4, FlowIsTaken
  <2> QED
    BY <2>1, <2>5, <1>1 DEF Ready, AlwaysAPlan
<1>9. CASE Fulfil
  <2>1. UNCHANGED <<vars, request>> /\ stage = "fulfil" /\ board.analyzed /\ rows = Solutions
    BY <1>9 DEF Fulfil, Ready
  <2>2. CASE rows = {} /\ Answer("failed")
    <3>1. ~ViasWhole
      BY <2>1, <2>2, UnmovedIsASolution DEF PlanInv
    <3> QED
      BY <2>1, <2>2, <3>1, <1>2
  <2>3. CASE stage' = "gaps" /\ found' \in rows /\ rows' \subseteq rows
    BY <2>1, <2>3, <1>1 DEF Ready, AlwaysAPlan
  <2> QED
    BY <2>2, <2>3, <1>9 DEF Fulfil, Most, Solved
<1>10. CASE FewestGaps
  <2>1. /\ UNCHANGED <<vars, request, rows>> /\ stage = "gaps" /\ stage' = "moves"
        /\ board.analyzed /\ rows \subseteq Solutions
    BY <1>10 DEF FewestGaps, Ready, Solved
  <2>2. found' \in Solutions
    BY <1>10, <2>1 DEF FewestGaps, Least, Solved, Ready
  <2> QED
    BY <2>1, <2>2, <1>1 DEF Ready, AlwaysAPlan
<1>11. CASE FewestMoves
  <2>1. /\ UNCHANGED <<vars, request>> /\ stage = "moves" /\ stage' = "distance"
        /\ board.analyzed /\ rows \subseteq Solutions
    BY <1>11 DEF FewestMoves, Ready, Solved
  <2>2. rows' \subseteq rows /\ found' \in rows
    BY <1>11 DEF FewestMoves, Solved, Least, Candidates
  <2> QED
    BY <2>1, <2>2, <1>1 DEF Ready, AlwaysAPlan
<1>12. CASE DirectDistance
  <2>1. /\ UNCHANGED <<vars, request, rows>> /\ stage = "distance" /\ stage' = "refine"
        /\ board.analyzed /\ rows \subseteq Solutions /\ DirectOnly
        /\ RequestFits /\ Keeps(found) /\ Turnover = {}
    BY <1>12 DEF DirectDistance, Ready, PlanInv, WithSolution, Solved
  <2>2. Keeps(found') /\ NewGaps(found') = {}
    <3>1. CASE found' \in Flows
      BY <3>1, SolutionsKeep DEF Flows
    <3>2. CASE found' = Mended(found, NewGaps(found))
      <4>1. Keeps(found')
        BY <2>1, <3>2, <1>4, UncutKeeps
      <4>2. NewGaps(found') = {}
        BY <3>2, <2>1, <1>4, WhoChanges DEF Mended, NewGaps
      <4> QED
        BY <4>1, <4>2
    <3> QED
      BY <3>1, <3>2, <1>12 DEF DirectDistance, Solved, Least, Mended
  <2>3. Takes(found')
    BY <2>1, <2>2, <1>4, FlowIsTaken
  <2> QED
    BY <2>1, <2>3, <1>1 DEF Ready, AlwaysAPlan
<1>13. CASE SharedDistance
  <2>1. /\ UNCHANGED <<vars, request>> /\ stage = "distance" /\ board.analyzed
        /\ rows \subseteq Solutions /\ found \in Solutions
    BY <1>13 DEF SharedDistance, Ready
  <2>2. CASE Answer("no distance")
    BY <2>1, <2>2, <1>2
  <2>3. CASE /\ stage' \in {"ties", "refine"} /\ found' \in rows \cup {found}
             /\ rows' \subseteq rows
    <3>1. found' \in Solutions /\ Takes(found')
      BY <2>1, <2>3, <1>4
    <3> QED
      BY <2>1, <2>3, <3>1, <1>1 DEF Ready, AlwaysAPlan
  <2> QED
    BY <2>2, <2>3, <1>13 DEF SharedDistance, Least, Candidates, Solved
<1>14. CASE Ties
  <2>1. /\ UNCHANGED <<vars, request, rows>> /\ stage = "ties" /\ stage' = "refine"
        /\ board.analyzed /\ rows \subseteq Solutions
    BY <1>14 DEF Ties, Ready, Solved
  <2>2. found' \in rows
    BY <1>14 DEF Ties, Least, Candidates, Solved
  <2>3. Takes(found')
    BY <2>1, <2>2, <1>4
  <2> QED
    BY <2>1, <2>3, <1>1 DEF Ready, AlwaysAPlan
<1>15. CASE Refine
  <2>1. /\ UNCHANGED <<vars, request>> /\ stage = "refine" /\ board.analyzed
        /\ rows \subseteq Solutions /\ Takes(found)
    BY <1>15 DEF Refine, Ready
  <2>2. CASE Answer("no distance")
    BY <2>1, <2>2, <1>2
  <2>3. CASE stage' = "finish" /\ found' \in rows \cup {found}
    <3>1. Takes(found')
      BY <2>1, <2>3, <1>4
    <3> QED
      BY <2>1, <2>3, <3>1, <1>1 DEF Ready, AlwaysAPlan
  <2> QED
    BY <2>2, <2>3, <1>15 DEF Refine, Least, SameMoves, SameGaps, Solved
<1>16. CASE Finish
  <2> DEFINE L == IF Takes(Pruned(found)) THEN Pruned(found) ELSE found
  <2>1. UNCHANGED <<vars, request>> /\ Takes(L)
    BY <1>16 DEF Finish, Ready
  <2>2. Keeps(L)
    BY <1>16, <1>4, PrunedKeeps DEF Finish, PlanInv, WithSolution
  <2>3. CASE stage' = "answered" /\ answer' = "plan"
    BY <2>3 DEF Ready, AlwaysAPlan
  <2>4. CASE ~Valid(board, Outcome(L)) /\ Answer("rejected")
    <3> HIDE DEF L
    <3>1. ~GroundViasApart(board)
      BY <2>1, <2>2, <2>4, <1>4, TakenIsValid
    <3> QED
      BY <2>1, <2>4, <3>1, <1>2
  <2> QED
    BY <2>1, <2>3, <2>4, <1>16 DEF Finish
<1>17. CASE Apply
  BY <1>17, <1>3 DEF Apply, Rest
<1>18. CASE Discard
  BY <1>18, <1>3 DEF Discard, Rest
<1>19. CASE Edit
  BY <1>19, <1>3 DEF Edit
<1>20. CASE UNCHANGED planVars
  <2>1. UNCHANGED <<vars, request, stage, rows, found, answer>>
    BY <1>20 DEF planVars, solveVars
  <2>2. DirectOnly' <=> DirectOnly
    BY <2>1, TableStays DEF vars
  <2> QED
    BY <2>1, <2>2, <1>1 DEF Ready, AlwaysAPlan
<1> QED
  BY <1>5, <1>6, <1>7, <1>8, <1>9, <1>10, <1>11, <1>12, <1>13, <1>14, <1>15, <1>16,
     <1>17, <1>18, <1>19, <1>20 DEF PlanNext

\* Whatever has been moved, cut and restored before, no calculation ends without a
\* solution, and no plan is refused by the edit that applies it, unless a GND via
\* joins two decaps or an edit has put back only some of the pads over a via
\* (docs/DECAP_DISTRIBUTION_RULES.md, 6).
THEOREM CalculationsHaveAPlan == PlanSpec => []AlwaysAPlan
<1>1. PlanInit => Ready
  BY DEF PlanInit, Ready, AlwaysAPlan, Solving
<1>2. Ready => AlwaysAPlan
  BY DEF Ready
<1> QED
  BY <1>1, <1>2, StepKeepsReady, PlanInvariant, PTL DEF PlanSpec

-----------------------------------------------------------------------------
(* Nothing else is possible: what keeps the table and is taken is a solution. *)

\* Fewer pads reach fewer.
LEMMA SegmentShrinks ==
  ASSUME NEW edges, NEW cells, NEW fewer \in SUBSET cells, NEW x \in fewer
  PROVE  Segment(edges, fewer, x) \subseteq Segment(edges, cells, x)
<1> DEFINE seg == Segment(edges, cells, x)
           S == seg \cap fewer
<1>1. x \in seg /\ seg \subseteq cells /\ Closed(edges, cells, seg)
  BY SegmentIsClosed
<1> HIDE DEF seg
<1>2. Closed(edges, fewer, S)
  <2> SUFFICES ASSUME NEW e \in edges, e \subseteq fewer, e \cap S # {}
               PROVE  e \subseteq S
    BY Zenon DEF Closed
  <2>1. e \subseteq cells /\ e \cap seg # {}
    OBVIOUS
  <2>2. e \subseteq seg
    BY <1>1, <2>1 DEF Closed
  <2> QED
    BY <2>2
<1>3. S \in SUBSET fewer /\ x \in S
  BY <1>1
<1>4. Segment(edges, fewer, x) \subseteq S
  <2> HIDE DEF S
  <2> QED
    BY <1>2, <1>3, SegmentIsLeast
<1> QED
  BY <1>4 DEF seg

\* What the labels leave of a cluster: its cells and islands, as the edit sees them.
LEMMA OutcomeOfCluster ==
  ASSUME EditsInv, NEW L, Relabels(L), NEW c
  PROVE  /\ Cells(board, Outcome(L), c) = {x \in Members(board, c) : L[x] # Unused}
         /\ Islands(board, Outcome(L), c)
              = Segments(board.powerEdges, {x \in Members(board, c) : L[x] # Unused})
         /\ Cells(board, Outcome(L), c) \subseteq Cells(board, decaps, c)
<1>1. \A x \in Refdes : Outcome(L)[x].gap <=> L[x] = Unused
  BY OutcomeOf
<1>2. \A x \in Refdes : decaps[x].gap => L[x] = Unused
  BY DEF Relabels
<1>3. Cells(board, Outcome(L), c) = {x \in Members(board, c) : L[x] # Unused}
  BY <1>1 DEF Cells, Members
<1> QED
  BY <1>2, <1>3 DEF Islands, Cells, Members

\* An edit that is taken leaves every cluster sound: it looks at those it touches.
LEMMA TakenIsSound ==
  ASSUME EditsInv, NEW L, Relabels(L), Takes(L), NEW c \in Clusters
  PROVE  PowerSound(board, Outcome(L), c)
<1> DEFINE S == Movers(L) \cup NewGaps(L)
<1>1. CASE \E x \in S : board.cluster[x] = c
  <2>1. PICK x \in S : board.cluster[x] = c
    BY <1>1
  <2>2. Shared(board, x)
    BY <2>1, PadAssumption DEF Shared
  <2>3. ProposalPasses(board, Outcome(L), S)
    BY <2>1 DEF Takes, Accepts
  <2> QED
    BY <2>1, <2>2, <2>3 DEF ProposalPasses
<1>2. CASE \A x \in S : board.cluster[x] # c
  <2>1. SamePads(decaps, Outcome(L), Members(board, c))
    <3>1. \A x \in Refdes \ S : Outcome(L)[x] = decaps[x]
      BY OutcomeOf
    <3> QED
      BY <1>2, <3>1 DEF SamePads, Members
  <2>2. PowerSound(board, decaps, c)
    BY DEF EditsInv, Valid
  <2> QED
    BY <2>1, <2>2, PowerSoundByMembers
<1> QED
  BY <1>1, <1>2

\* Clusters that are sound satisfy the rows of the copper.
LEMMA SoundSatisfiesRows ==
  ASSUME EditsInv, NEW L, Relabels(L),
         \A c \in Clusters : PowerSound(board, Outcome(L), c)
  PROVE  EdgeRows(L) /\ Rooted(L)
<1> DEFINE new == Outcome(L)
           cells(c) == {x \in Members(board, c) : L[x] # Unused}
<1>1. \A c : /\ Cells(board, new, c) = cells(c)
             /\ Islands(board, new, c) = Segments(board.powerEdges, cells(c))
  BY OutcomeOfCluster
<1>2. \A x \in Refdes : L[x] # Unused => new[x].rail = L[x]
  BY OutcomeOf
<1>3. SoundBoard(board)
  BY EditsAssumption DEF EditsInv, TypeOK
<1> HIDE DEF new
<1>4. \A c \in Clusters : PowerSound(board, new, c)
  BY DEF new
<1>5. EdgeRows(L)
  <2> SUFFICES ASSUME NEW e \in board.powerEdges, NEW x \in e, NEW y \in e,
                      L[x] # L[y], L[x] # Unused, L[y] # Unused
               PROVE  FALSE
    BY DEF EdgeRows
  <2>1. PICK u \in Refdes, v \in Refdes :
          e = {u, v} /\ Shared(board, u) /\ board.cluster[u] = board.cluster[v]
    BY <1>3 DEF SoundBoard, SoundClusters
  <2> DEFINE c == board.cluster[u]
             I == Segment(board.powerEdges, cells(c), x)
  <2>2. /\ x \in Refdes /\ y \in Refdes /\ e = {x, y}
        /\ board.cluster[x] = c /\ board.cluster[y] = c /\ c \in Clusters
    BY <2>1, <1>3 DEF Shared, SoundBoard, Board
  <2>3. x \in cells(c) /\ y \in cells(c) /\ e \subseteq cells(c)
    BY <2>2 DEF Members
  <2>4. I \in Islands(board, new, c) /\ x \in I /\ y \in I
    <3>1. I \in Segments(board.powerEdges, cells(c))
      BY <2>3 DEF Segments
    <3>2. x \in I /\ Closed(board.powerEdges, cells(c), I)
      <4> HIDE DEF cells
      <4> QED
        BY <2>3, SegmentIsClosed
    <3>3. e \subseteq I
      BY <2>2, <2>3, <3>2 DEF Closed
    <3> QED
      BY <1>1, <3>1, <3>2, <3>3
  <2>5. new[x].rail = new[y].rail
    BY <1>4, <2>2, <2>4 DEF PowerSound, MixedRails
  <2> QED
    BY <1>2, <2>2, <2>5
<1>6. Rooted(L)
  <2> SUFFICES ASSUME NEW c \in Clusters
               PROVE  LET islands == Segments(board.powerEdges, cells(c))
                      IN  /\ \A I \in islands : {L[x] : x \in I} \subseteq Offered(board, I)
                          /\ ~SplitsVia(board.powerVias, islands)
    BY DEF Rooted
  <2>1. ASSUME NEW I \in Segments(board.powerEdges, cells(c))
        PROVE  {L[x] : x \in I} \subseteq Offered(board, I)
    <3>1. Fed(board, new, I)
      BY <1>1, <1>4 DEF PowerSound
    <3>2. I \subseteq cells(c)
      BY DEF Segments, Segment
    <3>3. \A x \in I : new[x].rail = L[x]
      BY <1>2, <3>2 DEF Members
    <3> QED
      BY <3>1, <3>3 DEF Fed
  <2>2. ~SplitsVia(board.powerVias, Segments(board.powerEdges, cells(c)))
    BY <1>1, <1>4 DEF PowerSound
  <2> QED
    BY <2>1, <2>2
<1> QED
  BY <1>5, <1>6

\* Who has a new label may have it: the table says which cells give and receive, and
\* the edit that a via of the decap, or of the pads it hangs together with, is there.
LEMMA TakenIsLabelled ==
  ASSUME EditsInv, RequestFits, NEW L \in Alternatives, Takes(L),
         \A c \in TableCells : KeepsTable(L, c), NEW x \in Refdes
  PROVE  L[x] \in Labels(x)
<1>0. Relabels(L) /\ Unused \notin Rails
  BY DistributionAssumption DEF Alternatives, Relabels
<1>1. /\ x \in Movers(L) => L[x] \in Rails /\ ~decaps[x].gap
      /\ x \notin Movers(L) \cup NewGaps(L) =>
           L[x] = IF decaps[x].gap THEN Unused ELSE decaps[x].rail
      /\ decaps[x].rail \in Rails /\ decaps[x].rail # Unused
  BY <1>0, WhoStays
<1>2. CASE x \notin Movers(L) \cup NewGaps(L)
  BY <1>1, <1>2 DEF Labels
<1>3. ASSUME x \in Movers(L) \cup NewGaps(L)
      PROVE  /\ x \in Assignable /\ Cell(x) \in Sources /\ ~decaps[x].gap
             /\ x \in Movers(L) => <<L[x], decaps[x].model>> \in Destinations
             /\ MayOpen(board, NewGaps(L))
             /\ Accepts(board, Outcome(L), Movers(L) \cup NewGaps(L))
  <2>1. ~decaps[x].gap /\ L[x] # decaps[x].rail
    BY <1>1, <1>3 DEF NewGaps, Movers
  <2>2. x \in Assignable
    BY <2>1 DEF Alternatives
  <2>3. decaps[x].model \in Models
    BY <2>2 DEF Assignable, Physical, EditsInv, TypeOK, Decap
  <2>4. ASSUME NEW S \in SUBSET Refdes, x \in S, NEW n \in Nat, Cardinality(S) <= n
        PROVE  n > 0
    <3>1. S # {} /\ IsFiniteSet(S) /\ Cardinality(S) \in Nat
      BY <2>4, DecapsAreCounted
    <3>2. Cardinality(S) # 0
      BY <3>1, FS_EmptySet
    <3> QED
      BY <2>4, <3>1, <3>2
  <2>5. Cell(x) \in Sources
    <3> DEFINE c == Cell(x)
               S == {y \in Movers(L) : Cell(y) = c} \cup {y \in NewGaps(L) : Cell(y) = c}
    <3>1. c \in TableCells
      BY <1>1, <2>3 DEF Cell, TableCells
    <3>2. c \notin Donors => Cardinality(S) <= Allowance(c)
      BY <3>1 DEF KeepsTable
    <3>3. x \in S /\ S \in SUBSET Refdes /\ Allowance(c) \in Nat
      BY <1>3, <3>1 DEF Movers, NewGaps, RequestFits
    <3>4. c \notin Donors => Allowance(c) > 0
      <4> HIDE DEF S
      <4> QED
        BY <3>2, <3>3, <2>4
    <3> QED
      BY <3>1, <3>4 DEF Sources, Turnover
  <2>6. ASSUME x \in Movers(L) PROVE <<L[x], decaps[x].model>> \in Destinations
    <3> DEFINE c == <<L[x], decaps[x].model>>
               S == Entering(L, c)
    <3>1. c \in TableCells
      BY <1>1, <2>3, <2>6 DEF TableCells
    <3>2. c \notin Receivers => Cardinality(S) <= Allowance(c)
      BY <3>1 DEF KeepsTable
    <3>3. x \in S /\ S \in SUBSET Refdes /\ Allowance(c) \in Nat
      BY <2>6, <3>1 DEF Movers, Entering, RequestFits
    <3>4. c \notin Receivers => Allowance(c) > 0
      <4> HIDE DEF S
      <4> QED
        BY <3>2, <3>3, <2>4
    <3> QED
      BY <3>1, <3>4 DEF Destinations, Turnover
  <2> QED
    BY <1>3, <2>1, <2>2, <2>5, <2>6 DEF Takes
<1>4. CASE x \in NewGaps(L)
  <2>1. x \in Assignable /\ x \in board.gapCells /\ Cell(x) \in Sources /\ ~decaps[x].gap
    BY <1>3, <1>4 DEF MayOpen
  <2> QED
    BY <1>4, <2>1 DEF Labels, MayCut, NewGaps
<1>5. CASE x \in Movers(L)
  <2>1. L[x] # Unused /\ L[x] \in Rails /\ x \notin NewGaps(L)
    BY <1>0, <1>1, <1>5 DEF NewGaps
  <2>2. Outcome(L)[x].rail = L[x]
    BY <1>0, <2>1, OutcomeOf
  <2>3. ProposalPasses(board, Outcome(L), Movers(L) \cup NewGaps(L))
    BY <1>3, <1>5 DEF Accepts
  <2>4. Reaches(x, L[x])
    <3>1. CASE ~Shared(board, x)
      BY <3>1, <1>5, <2>2, <2>3 DEF ProposalPasses, Reaches
    <3>2. CASE Shared(board, x)
      <4> DEFINE c == board.cluster[x]
                 now == Cells(board, Outcome(L), c)
                 I == Segment(board.powerEdges, now, x)
      <4>1. PowerSound(board, Outcome(L), c)
        BY <3>2, <1>5, <2>3 DEF ProposalPasses
      <4>2. x \in now
        BY <1>0, <2>1, OutcomeOfCluster DEF Members
      <4>3. I \in Islands(board, Outcome(L), c) /\ x \in I
        BY <4>2, SegmentIsClosed DEF Islands, Segments
      <4>4. L[x] \in Offered(board, I)
        BY <4>1, <4>3, <2>2 DEF PowerSound, Fed
      <4>5. I \subseteq Segment(board.powerEdges, Cells(board, decaps, c), x)
        <5>1. now \in SUBSET Cells(board, decaps, c)
          BY <1>0, OutcomeOfCluster
        <5> HIDE DEF now
        <5> QED
          BY <4>2, <5>1, SegmentShrinks
      <4> QED
        BY <3>2, <4>4, <4>5 DEF Reaches, Offered, ViasOf
    <3> QED
      BY <3>1, <3>2
  <2> QED
    BY <1>3, <1>5, <2>1, <2>4 DEF Labels, MayGo
<1> QED
  BY <1>2, <1>4, <1>5

\* The table is what the rows of the counts say.
LEMMA TableIsRows ==
  ASSUME EditsInv, RequestFits, NEW L, Relabels(L),
         Movers(L) \cup NewGaps(L) \subseteq Assignable,
         \A c \in TableCells : KeepsTable(L, c)
  PROVE  CountRows(L)
<1>1. ASSUME NEW c \in TableCells PROVE CountRow(L, c)
  <2>1. After(L, c) = Count(Outcome(L), c)
    BY OutcomeHasCounts
  <2>2. IF c \in Donors THEN After(L, c) >= Target(c)
        ELSE IF c \in Receivers THEN After(L, c) \in Present(c) - Allowance(c)..Target(c)
        ELSE After(L, c) = Present(c)
    BY <2>1 DEF KeepsTable
  <2>3. c \in Donors => c \notin Receivers
    BY DonorsDoNotReceive
  <2>4. Present(c) \in Nat /\ Target(c) \in Nat /\ Allowance(c) \in Nat
    BY DEF RequestFits
  <2> QED
    BY <2>2, <2>3, <2>4 DEF CountRow
<1>2. ASSUME NEW c \in Turnover PROVE ToleranceRow(L, c)
  <2>1. c \in TableCells
    BY DEF Turnover
  <2>2. Leaving(L, c) = {x \in Movers(L) : Cell(x) = c} \cup {x \in NewGaps(L) : Cell(x) = c}
    BY <2>1, LeavingIsSentOrCut
  <2> QED
    BY <2>1, <2>2 DEF ToleranceRow, KeepsTable
<1> QED
  BY <1>1, <1>2 DEF CountRows

\* The rows leave nothing out: an edit that keeps the table and is taken, and that
\* keeps the pads over each via together, is a solution of the program.
LEMMA TakenIsASolution ==
  ASSUME EditsInv, RequestFits, NEW L \in Alternatives, ViaRows(L), Takes(L),
         \A c \in TableCells : KeepsTable(L, c)
  PROVE  L \in Solutions
<1>1. Relabels(L)
  BY DEF Alternatives, Relabels
<1>2. \A x \in Refdes : L[x] \in Labels(x)
  BY TakenIsLabelled
<1>3. Movers(L) \cup NewGaps(L) \subseteq Assignable
  <2>1. \A x \in Movers(L) \cup NewGaps(L) : x \in Refdes /\ ~decaps[x].gap /\ L[x] # decaps[x].rail
    BY <1>1, WhoStays DEF Movers, NewGaps
  <2> QED
    BY <2>1 DEF Alternatives
<1>4. CountRows(L)
  BY <1>1, <1>3, TableIsRows
<1>5. EdgeRows(L) /\ Rooted(L)
  BY <1>1, TakenIsSound, SoundSatisfiesRows
<1> QED
  BY <1>2, <1>4, <1>5 DEF Solutions, Alternatives

-----------------------------------------------------------------------------
(* The distance of a plan is the number of its units taken one by one; that *)
(* the fold computes this number follows from a least set for which it      *)
(* would not.                                                               *)

\* What holds of a set when it holds of all smaller ones has no least exception.
LEMMA LeastSet ==
  ASSUME NEW S, IsFiniteSet(S), NEW Bad \in SUBSET SUBSET S, Bad # {}
  PROVE  \E T \in Bad : \A U \in Bad : ~(U \subseteq T /\ U # T)
<1> DEFINE R == StrictSubsetOrdering(S)
<1>1. IsWellFoundedOn(R, FiniteSubsetsOf(S))
  BY FS_StrictSubsetOrderingWellFounded
<1>2. Bad \subseteq FiniteSubsetsOf(S)
  BY FS_Subset DEF FiniteSubsetsOf
<1>3. \E T \in Bad : \A U \in Bad : <<U, T>> \notin R
  <2> HIDE DEF R
  <2> QED
    BY <1>1, <1>2, WFMin
<1>4. PICK T \in Bad : \A U \in Bad : <<U, T>> \notin R
  BY <1>3
<1>5. \A U \in Bad : ~(U \subseteq T /\ U # T)
  BY <1>4 DEF StrictSubsetOrdering
<1> QED
  BY <1>5

\* The units the decaps of S move, one by one.
UnitsOf(L, S) == {e \in S \X Nat : e[2] < Distance[e[1]][L[e[1]]]}

LEMMA UnitsOfOne ==
  ASSUME NEW L, NEW x, Distance[x][L[x]] \in Nat
  PROVE  IsFiniteSet(UnitsOf(L, {x})) /\ Cardinality(UnitsOf(L, {x})) = Distance[x][L[x]]
<1> DEFINE n == Distance[x][L[x]]
           I == 0..n - 1
           b == [k \in I |-> <<x, k>>]
<1>1. b \in Bijection(I, UnitsOf(L, {x}))
  <2>1. b \in [I -> UnitsOf(L, {x})]
    BY DEF UnitsOf
  <2>2. \A j, k \in I : b[j] = b[k] => j = k
    OBVIOUS
  <2>3. \A e \in UnitsOf(L, {x}) : \E k \in I : b[k] = e
    BY DEF UnitsOf
  <2> QED
    BY <2>1, <2>2, <2>3 DEF Bijection, Injection, Surjection, IsInjective
<1>2. IsFiniteSet(I) /\ Cardinality(I) = n
  <2>1. ASSUME NEW m \in Nat
        PROVE  IsFiniteSet(0..m - 1) /\ Cardinality(0..m - 1) = m
    <3>1. /\ IsFiniteSet(0..m - 1)
          /\ Cardinality(0..m - 1) = IF 0 > m - 1 THEN 0 ELSE (m - 1) - 0 + 1
      BY FS_Interval
    <3> QED
      BY <3>1
  <2> QED
    BY <2>1
<1>3. ExistsBijection(I, UnitsOf(L, {x}))
  BY <1>1 DEF ExistsBijection
<1> QED
  BY <1>2, <1>3, FS_Bijection

\* Whose labels are rails.
Goes(L, S) == S \in SUBSET Refdes /\ \A x \in S : L[x] \in Rails

\* Any decap may be counted first.
LEMMA UnitsSplit ==
  ASSUME NEW L, NEW S, Goes(L, S), NEW x \in S
  PROVE  /\ UnitsOf(L, S) = UnitsOf(L, S \ {x}) \cup UnitsOf(L, {x})
         /\ UnitsOf(L, S \ {x}) \cap UnitsOf(L, {x}) = {}
         /\ Distance[x][L[x]] \in Nat
         /\ IsFiniteSet(UnitsOf(L, {x}))
         /\ Cardinality(UnitsOf(L, {x})) = Distance[x][L[x]]
<1>1. Distance[x][L[x]] \in Nat
  BY DistributionAssumption DEF Goes
<1> QED
  BY <1>1, UnitsOfOne DEF UnitsOf

LEMMA UnitsAreFinite ==
  ASSUME NEW L, NEW S, Goes(L, S)
  PROVE  IsFiniteSet(UnitsOf(L, S))
<1> DEFINE Bad == {T \in SUBSET S : ~IsFiniteSet(UnitsOf(L, T))}
<1> SUFFICES ASSUME Bad # {} PROVE FALSE
  OBVIOUS
<1>1. PICK T \in Bad : \A U \in Bad : ~(U \subseteq T /\ U # T)
  <2>1. IsFiniteSet(S) /\ Bad \in SUBSET SUBSET S
    BY DecapsAreCounted DEF Goes
  <2> HIDE DEF Bad
  <2> QED
    BY <2>1, LeastSet
<1>2. T # {}
  <2>1. UnitsOf(L, {}) = {}
    BY DEF UnitsOf
  <2> QED
    BY <2>1, FS_EmptySet
<1>3. PICK x \in T : TRUE
  BY <1>2
<1>4. IsFiniteSet(UnitsOf(L, T \ {x}))
  BY <1>1, <1>3
<1>5. /\ UnitsOf(L, T) = UnitsOf(L, T \ {x}) \cup UnitsOf(L, {x})
      /\ IsFiniteSet(UnitsOf(L, {x}))
  <2>1. Goes(L, T)
    BY DEF Goes
  <2> QED
    BY <2>1, <1>3, UnitsSplit
<1>6. IsFiniteSet(UnitsOf(L, T))
  BY <1>4, <1>5, FS_Union
<1> QED
  BY <1>6

LEMMA UnitsAdd ==
  ASSUME NEW L, NEW S, Goes(L, S), NEW x \in S
  PROVE  Cardinality(UnitsOf(L, S)) = Distance[x][L[x]] + Cardinality(UnitsOf(L, S \ {x}))
<1> DEFINE A == UnitsOf(L, S \ {x})
           B == UnitsOf(L, {x})
           n == Distance[x][L[x]]
<1>1. UnitsOf(L, S) = A \cup B /\ A \cap B = {} /\ n \in Nat
      /\ IsFiniteSet(B) /\ Cardinality(B) = n
  BY UnitsSplit
<1>2. IsFiniteSet(A)
  <2>1. Goes(L, S \ {x})
    BY DEF Goes
  <2> QED
    BY <2>1, UnitsAreFinite
<1> HIDE DEF A, B, n
<1>3. Cardinality(A \cup B) = Cardinality(A) + Cardinality(B) - Cardinality(A \cap B)
  BY <1>1, <1>2, FS_Union
<1>4. Cardinality(A) \in Nat /\ Cardinality({}) = 0
  BY <1>2, FS_CardinalityType, FS_EmptySet
<1>5. Cardinality(UnitsOf(L, S)) = Cardinality(A) + Cardinality(B) - Cardinality({})
  BY <1>1, <1>3
<1>6. Cardinality(UnitsOf(L, S)) = n + Cardinality(A)
  BY <1>1, <1>4, <1>5
<1> QED
  BY <1>6 DEF A, n

\* The sum of the community modules is that number.
LEMMA SumIsUnits ==
  ASSUME NEW L, NEW S, Goes(L, S)
  PROVE  MapThenSumSet(LAMBDA x : Distance[x][L[x]], S) = Cardinality(UnitsOf(L, S))
<1> DEFINE First(T) == CHOOSE x \in T : TRUE
           Far(x) == Distance[x][L[x]]
           Units(T) == Cardinality(UnitsOf(L, T))
           Sums(f) == f = [T \in SUBSET S |->
                             IF T = {} THEN 0 ELSE Far(First(T)) + f[T \ {First(T)}]]
           f == CHOOSE f : Sums(f)
           g == [T \in SUBSET S |-> Units(T)]
<1>1. MapThenSumSet(LAMBDA x : Distance[x][L[x]], S) = f[S]
  BY DEF MapThenSumSet, MapThenFoldSet
<1>2. ASSUME NEW T \in SUBSET S, T # {}
      PROVE  /\ First(T) \in T /\ T \ {First(T)} \in SUBSET S
             /\ Units(T) = Far(First(T)) + Units(T \ {First(T)})
  <2>1. First(T) \in T /\ Goes(L, T)
    BY <1>2 DEF Goes
  <2> HIDE DEF First
  <2> QED
    BY <1>2, <2>1, UnitsAdd
<1>3. Units({}) = 0
  <2>1. UnitsOf(L, {}) = {}
    BY DEF UnitsOf
  <2> QED
    BY <2>1, FS_EmptySet
<1> HIDE DEF First, Far, Units
<1>4. Sums(g)
  <2>1. ASSUME NEW T \in SUBSET S
        PROVE  g[T] = IF T = {} THEN 0 ELSE Far(First(T)) + g[T \ {First(T)}]
    BY <1>2, <1>3
  <2> QED
    BY <2>1
<1>5. Sums(f)
  <2> HIDE DEF g
  <2>1. \E h : Sums(h)
    BY <1>4
  <2> HIDE DEF Sums
  <2> QED
    BY <2>1
<1> HIDE DEF f, g
<1>6. ASSUME NEW T \in SUBSET S
      PROVE  f[T] = IF T = {} THEN 0 ELSE Far(First(T)) + f[T \ {First(T)}]
  BY <1>5
<1> DEFINE Bad == {T \in SUBSET S : f[T] # Units(T)}
<1>7. Bad = {}
  <2> SUFFICES ASSUME Bad # {} PROVE FALSE
    OBVIOUS
  <2>1. IsFiniteSet(S) /\ Bad \in SUBSET SUBSET S
    BY DecapsAreCounted DEF Goes
  <2>2. PICK T \in Bad : \A U \in Bad : ~(U \subseteq T /\ U # T)
    <3> HIDE DEF Bad
    <3> QED
      BY <2>1, LeastSet
  <2>3. T # {}
    BY <1>3, <1>6
  <2>4. First(T) \in T /\ T \ {First(T)} \in SUBSET S
    BY <1>2, <2>3
  <2>5. f[T \ {First(T)}] = Units(T \ {First(T)})
    BY <2>2, <2>4
  <2>6. f[T] = Units(T)
    BY <1>2, <1>6, <2>3, <2>5
  <2> QED
    BY <2>6
<1>8. f[S] = Units(S)
  BY <1>7
<1> QED
  BY <1>1, <1>8 DEF Units

-----------------------------------------------------------------------------
(* What the objectives depend on.                                          *)

\* The objectives are numbers.
LEMMA ObjectivesAreNumbers ==
  ASSUME EditsInv, RequestFits, NEW L, Relabels(L)
  PROVE  /\ Progress(L) \in Int /\ Gaps(L) \in Nat /\ Moves(L) \in Nat
         /\ Length(L) \in Int /\ Cost(L) \in Int /\ request.penalty * Gaps(L) \in Nat
<1>1. Movers(L) \in SUBSET Refdes /\ NewGaps(L) \in SUBSET Refdes
  BY DEF Movers, NewGaps
<1>2. Progress(L) \in Int
  <2> DEFINE A == {x \in Movers(L) : <<L[x], decaps[x].model>> \in Receivers}
             B == {x \in Movers(L) \cup NewGaps(L) : Cell(x) \in Receivers}
  <2>1. A \in SUBSET Refdes /\ B \in SUBSET Refdes
    BY <1>1
  <2>2. Cardinality(A) \in Nat /\ Cardinality(B) \in Nat
    <3> HIDE DEF A, B
    <3> QED
      BY <2>1, DecapsAreCounted
  <2> QED
    BY <2>2 DEF Progress
<1>3. Gaps(L) \in Nat /\ Moves(L) \in Nat
  BY <1>1, DecapsAreCounted DEF Gaps, Moves
<1>4. Length(L) \in Int
  <2>1. Goes(L, Movers(L))
    BY <1>1, WhoStays DEF Goes
  <2>2. MapThenSumSet(LAMBDA x : Distance[x][L[x]], Movers(L))
          = Cardinality(UnitsOf(L, Movers(L)))
    BY <2>1, SumIsUnits
  <2> DEFINE n == MapThenSumSet(LAMBDA x : Distance[x][L[x]], Movers(L))
  <2>3. Length(L) = IF request.mode = "NEAREST" THEN n ELSE -n
    BY DEF Length
  <2>4. n = Cardinality(UnitsOf(L, Movers(L)))
    BY <2>2
  <2> HIDE DEF n
  <2>5. n \in Nat
    BY <2>1, <2>4, UnitsAreFinite, FS_CardinalityType
  <2> QED
    BY <2>3, <2>5
<1>5. request.penalty * Gaps(L) \in Nat
  <2>1. ASSUME NEW p \in Nat, NEW n \in Nat PROVE p * n \in Nat
    OBVIOUS
  <2> QED
    BY <1>3, <2>1 DEF RequestFits
<1> QED
  BY <1>2, <1>3, <1>4, <1>5 DEF Cost

\* Solutions with the same moves have the same distance.
LEMMA SameMovesSameLength ==
  ASSUME EditsInv, NEW K, NEW L, Relabels(K), Relabels(L),
         Movers(K) = Movers(L), \A x \in Movers(L) : K[x] = L[x]
  PROVE  Moves(K) = Moves(L) /\ Length(K) = Length(L)
<1>1. Goes(K, Movers(K)) /\ Goes(L, Movers(L))
  BY WhoStays DEF Goes, Movers
<1>2. UnitsOf(K, Movers(K)) = UnitsOf(L, Movers(L))
  BY DEF UnitsOf
<1> DEFINE m == MapThenSumSet(LAMBDA x : Distance[x][K[x]], Movers(K))
           n == MapThenSumSet(LAMBDA x : Distance[x][L[x]], Movers(L))
<1>3. m = n
  BY <1>1, <1>2, SumIsUnits
<1>4. /\ Length(K) = IF request.mode = "NEAREST" THEN m ELSE -m
      /\ Length(L) = IF request.mode = "NEAREST" THEN n ELSE -n
  BY DEF Length
<1> HIDE DEF m, n
<1> QED
  BY <1>3, <1>4 DEF Moves

\* Fewer gaps never cost more.
LEMMA FewerGapsCostLess ==
  ASSUME EditsInv, RequestFits, NEW K, NEW L, Relabels(K), Relabels(L),
         Length(K) = Length(L), Gaps(K) <= Gaps(L)
  PROVE  Cost(K) <= Cost(L)
<1>1. /\ Gaps(K) \in Nat /\ Gaps(L) \in Nat
      /\ Length(K) \in Int /\ Length(L) \in Int /\ request.penalty \in Nat
  BY ObjectivesAreNumbers DEF RequestFits
<1>2. ASSUME NEW p \in Nat, NEW m \in Nat, NEW n \in Nat, m <= n
      PROVE  p * m \in Nat /\ p * n \in Nat /\ p * m <= p * n
  <2>1. n - m \in Nat
    BY <1>2
  <2>2. p * (n - m) \in Nat /\ p * n = p * m + p * (n - m)
    BY <2>1
  <2>3. p * m \in Nat /\ p * n \in Nat
    OBVIOUS
  <2> QED
    BY <2>2, <2>3
<1>3. request.penalty * Gaps(K) <= request.penalty * Gaps(L)
      /\ request.penalty * Gaps(K) \in Nat /\ request.penalty * Gaps(L) \in Nat
  BY <1>1, <1>2
<1> QED
  BY <1>1, <1>3 DEF Cost

-----------------------------------------------------------------------------
(* The flow of decaps that share no pad cuts nothing, and loses nothing by   *)
(* it.                                                                       *)

\* The decaps of P that f puts in the cells C.
PutIn(P, f, C) == {x \in P : f[x] \in C}

LEMMA PutInIsCounted ==
  ASSUME NEW P, IsFiniteSet(P), NEW f, NEW C
  PROVE  IsFiniteSet(PutIn(P, f, C)) /\ Cardinality(PutIn(P, f, C)) \in Nat
<1>1. PutIn(P, f, C) \in SUBSET P
  BY DEF PutIn
<1> QED
  BY <1>1, FS_Subset, FS_CardinalityType

\* One cell may be counted first.
LEMMA PutInSplits ==
  ASSUME NEW P, IsFiniteSet(P), NEW f, NEW C, NEW c \in C
  PROVE  Cardinality(PutIn(P, f, C))
           = Cardinality(PutIn(P, f, C \ {c})) + Cardinality(PutIn(P, f, {c}))
<1> DEFINE A == PutIn(P, f, C \ {c})
           B == PutIn(P, f, {c})
<1>1. PutIn(P, f, C) = A \cup B /\ A \cap B = {}
  BY DEF PutIn
<1>2. /\ IsFiniteSet(A) /\ IsFiniteSet(B)
      /\ Cardinality(A) \in Nat /\ Cardinality(B) \in Nat /\ Cardinality({}) = 0
  BY PutInIsCounted, FS_EmptySet
<1> HIDE DEF A, B
<1>3. Cardinality(A \cup B) = Cardinality(A) + Cardinality(B) - Cardinality(A \cap B)
  BY <1>2, FS_Union
<1>4. Cardinality(PutIn(P, f, C)) = Cardinality(A) + Cardinality(B) - Cardinality({})
  BY <1>1, <1>3
<1>5. Cardinality(PutIn(P, f, C)) = Cardinality(A) + Cardinality(B)
  BY <1>2, <1>4
<1> QED
  BY <1>5 DEF A, B

\* If each of some cells has as many decaps, so have all of them together.
LEMMA MoreInEveryCell ==
  ASSUME NEW P, IsFiniteSet(P), NEW f, NEW g, NEW C,
         \A c \in C : Cardinality(PutIn(P, f, {c})) <= Cardinality(PutIn(P, g, {c}))
  PROVE  Cardinality(PutIn(P, f, C)) <= Cardinality(PutIn(P, g, C))
<1> DEFINE I == {f[x] : x \in P} \cap C
           Less(D) == Cardinality(PutIn(P, f, D)) <= Cardinality(PutIn(P, g, D))
           Bad == {D \in SUBSET I : ~Less(D)}
<1>1. IsFiniteSet(I)
  <2> DEFINE h == [x \in P |-> f[x]]
  <2>1. h \in Surjection(P, {f[x] : x \in P})
    BY DEF Surjection
  <2>2. IsFiniteSet({f[x] : x \in P})
    <3> HIDE DEF h
    <3> QED
      BY <2>1, FS_Surjection
  <2> QED
    BY <2>2, FS_Intersection
<1>2. Bad = {}
  <2> SUFFICES ASSUME Bad # {} PROVE FALSE
    OBVIOUS
  <2>1. PICK D \in Bad : \A U \in Bad : ~(U \subseteq D /\ U # D)
    <3>1. Bad \in SUBSET SUBSET I
      OBVIOUS
    <3> HIDE DEF Bad, I
    <3> QED
      BY <1>1, <3>1, LeastSet
  <2>2. D \in SUBSET I /\ ~Less(D)
    OBVIOUS
  <2>3. D # {}
    <3>1. PutIn(P, f, {}) = {} /\ PutIn(P, g, {}) = {} /\ Cardinality({}) = 0
      BY FS_EmptySet DEF PutIn
    <3> QED
      BY <2>2, <3>1
  <2>4. PICK d \in D : TRUE
    BY <2>3
  <2>5. Less(D \ {d})
    <3> HIDE DEF Less
    <3> QED
      BY <2>1, <2>4
  <2>6. Less({d})
    BY <2>2, <2>4
  <2>7. /\ Cardinality(PutIn(P, f, D))
             = Cardinality(PutIn(P, f, D \ {d})) + Cardinality(PutIn(P, f, {d}))
        /\ Cardinality(PutIn(P, g, D))
             = Cardinality(PutIn(P, g, D \ {d})) + Cardinality(PutIn(P, g, {d}))
    BY <2>4, PutInSplits
  <2>8. \A h, E : Cardinality(PutIn(P, h, E)) \in Nat
    BY PutInIsCounted
  <2>9. Less(D)
    BY <2>5, <2>6, <2>7, <2>8
  <2> QED
    BY <2>2, <2>9
<1>3. Less(I)
  <2> HIDE DEF Less
  <2> QED
    BY <1>2
<1>4. PutIn(P, f, C) = PutIn(P, f, I) /\ PutIn(P, g, I) \in SUBSET PutIn(P, g, C)
  BY DEF PutIn
<1> HIDE DEF I
<1>5. Cardinality(PutIn(P, g, I)) <= Cardinality(PutIn(P, g, C))
  BY <1>4, PutInIsCounted, FS_Subset
<1>6. \A h, E : Cardinality(PutIn(P, h, E)) \in Nat
  BY PutInIsCounted
<1> QED
  BY <1>3, <1>4, <1>5, <1>6

\* What a solution adds to the receivers.
LEMMA ProgressIsGain ==
  ASSUME EditsInv, NEW L, Relabels(L), Movers(L) \cup NewGaps(L) \subseteq Assignable
  PROVE  Progress(L) = Cardinality({x \in Physical(decaps) : <<L[x], decaps[x].model>> \in Receivers})
                         - Cardinality({x \in Physical(decaps) : Cell(x) \in Receivers})
<1> DEFINE new == {x \in Physical(decaps) : <<L[x], decaps[x].model>> \in Receivers}
           old == {x \in Physical(decaps) : Cell(x) \in Receivers}
           come == {x \in Movers(L) : <<L[x], decaps[x].model>> \in Receivers}
           leave == {x \in Movers(L) \cup NewGaps(L) : Cell(x) \in Receivers}
<1>1. Assignable \subseteq Physical(decaps) /\ Physical(decaps) \subseteq Refdes
  BY DEF Assignable, Physical
<1>2. /\ new = (old \ leave) \cup come /\ (old \ leave) \cap come = {}
      /\ leave \subseteq old
  <2>1. ASSUME NEW x \in Physical(decaps)
        PROVE  x \in new <=> x \in (old \ leave) \cup come
    <3>1. CASE x \in Movers(L)
      BY <3>1
    <3>2. CASE x \in NewGaps(L)
      <4>1. L[x] = Unused /\ x \notin Movers(L)
        BY <3>2 DEF NewGaps, Movers
      <4>2. <<L[x], decaps[x].model>> \notin Receivers
        BY <4>1, DistributionAssumption DEF Receivers, TableCells
      <4> QED
        BY <3>2, <4>1, <4>2
    <3>3. CASE x \notin Movers(L) \cup NewGaps(L)
      <4>1. <<L[x], decaps[x].model>> = Cell(x)
        BY <1>1, <3>3, WhoStays DEF Cell
      <4> QED
        BY <3>3, <4>1
    <3> QED
      BY <3>1, <3>2, <3>3
  <2>2. new \subseteq Physical(decaps) /\ old \subseteq Physical(decaps)
        /\ come \subseteq Physical(decaps)
    BY <1>1
  <2>3. new = (old \ leave) \cup come
    <3> HIDE DEF new, old, come, leave
    <3> QED
      BY <2>1, <2>2
  <2> QED
    BY <2>3, <1>1
<1>3. old \in SUBSET Refdes /\ leave \in SUBSET Refdes /\ come \in SUBSET Refdes
  BY <1>1 DEF Movers, NewGaps
<1>4. Progress(L) = Cardinality(come) - Cardinality(leave)
  BY DEF Progress
<1> HIDE DEF new, old, come, leave
<1>5. /\ IsFiniteSet(old) /\ IsFiniteSet(leave) /\ IsFiniteSet(come) /\ IsFiniteSet(old \ leave)
      /\ Cardinality(old) \in Nat /\ Cardinality(leave) \in Nat /\ Cardinality(come) \in Nat
      /\ Cardinality(old \ leave) \in Nat /\ Cardinality({}) = 0
  <2>1. old \ leave \in SUBSET Refdes
    BY <1>3
  <2> QED
    BY <1>3, <2>1, DecapsAreCounted, FS_EmptySet
<1>6. Cardinality(old \ leave) = Cardinality(old) - Cardinality(leave)
  <2>1. old \cap leave = leave
    BY <1>2
  <2>2. Cardinality(old \ leave) = Cardinality(old) - Cardinality(old \cap leave)
    BY <1>5, FS_Difference
  <2> QED
    BY <2>1, <2>2
<1>7. Cardinality(new) = Cardinality(old \ leave) + Cardinality(come)
  <2>1. Cardinality((old \ leave) \cup come)
          = Cardinality(old \ leave) + Cardinality(come) - Cardinality((old \ leave) \cap come)
    BY <1>5, FS_Union
  <2>2. Cardinality(new) = Cardinality(old \ leave) + Cardinality(come) - Cardinality({})
    BY <1>2, <2>1
  <2> QED
    BY <1>5, <2>2
<1>8. Progress(L) = Cardinality(new) - Cardinality(old)
  BY <1>4, <1>5, <1>6, <1>7
<1> QED
  BY <1>8 DEF new, old

\* The moves of some of the decaps that L moves, and nothing else.
Only(L, U) ==
  [x \in Refdes |-> IF x \in U THEN L[x]
                    ELSE IF decaps[x].gap THEN Unused ELSE decaps[x].rail]

LEMMA OnlyMovesThem ==
  ASSUME EditsInv, NEW L, Keeps(L), NEW U \in SUBSET Movers(L)
  PROVE  /\ Relabels(Only(L, U))
         /\ \A x \in Refdes : Only(L, U)[x] \in Labels(x)
         /\ Movers(Only(L, U)) = U
         /\ NewGaps(Only(L, U)) = {}
         /\ \A x \in U : Only(L, U)[x] = L[x]
<1> DEFINE K == Only(L, U)
<1>1. /\ \A x \in U : x \in Refdes /\ L[x] \in Rails /\ L[x] # Unused /\ L[x] # decaps[x].rail
                      /\ ~decaps[x].gap
      /\ \A x \in Refdes : decaps[x].rail \in Rails /\ decaps[x].rail # Unused
  BY KeepsRelabels, WhoStays DEF Movers
<1>2. \A x \in Refdes : K[x] = IF x \in U THEN L[x]
                               ELSE IF decaps[x].gap THEN Unused ELSE decaps[x].rail
  BY DEF Only
<1>3. K \in [Refdes -> Rails \cup {Unused}]
  BY <1>1 DEF Only
<1> HIDE DEF K
<1>4. Relabels(K)
  BY <1>1, <1>2, <1>3 DEF Relabels
<1>5. \A x \in Refdes : K[x] \in Labels(x)
  <2> TAKE x \in Refdes
  <2>1. CASE x \in U
    BY <2>1, <1>2 DEF Keeps
  <2>2. CASE x \notin U
    BY <2>2, <1>2 DEF Labels
  <2> QED
    BY <2>1, <2>2
<1>6. Movers(K) = U /\ NewGaps(K) = {}
  BY <1>1, <1>2 DEF Movers, NewGaps
<1>7. \A x \in U : K[x] = L[x]
  BY <1>1, <1>2
<1> QED
  BY <1>4, <1>5, <1>6, <1>7 DEF K

\* The count of a cell after L.
LEMMA AfterIsPutIn ==
  ASSUME NEW L, NEW c
  PROVE  /\ After(L, c) = Cardinality(PutIn(Physical(decaps),
                                           [x \in Refdes |-> <<L[x], decaps[x].model>>], {c}))
         /\ After(L, c) \in Nat
<1>1. Physical(decaps) \subseteq Refdes
  BY DEF Physical
<1>2. {x \in Physical(decaps) : <<L[x], decaps[x].model>> = c}
        = PutIn(Physical(decaps), [x \in Refdes |-> <<L[x], decaps[x].model>>], {c})
  BY <1>1 DEF PutIn
<1>3. IsFiniteSet(Physical(decaps))
  BY <1>1, DecapsAreCounted
<1> QED
  BY <1>2, <1>3, PutInIsCounted DEF After

\* Who fills every cell as far gains as much.
LEMMA FullerGainsMore ==
  ASSUME EditsInv, NEW K, NEW L, Relabels(K), Relabels(L),
         Movers(K) \cup NewGaps(K) \subseteq Assignable,
         Movers(L) \cup NewGaps(L) \subseteq Assignable,
         \A c \in TableCells : After(K, c) >= After(L, c)
  PROVE  Progress(K) >= Progress(L)
<1> DEFINE P == Physical(decaps)
           f == [x \in Refdes |-> <<L[x], decaps[x].model>>]
           g == [x \in Refdes |-> <<K[x], decaps[x].model>>]
           old == {x \in P : Cell(x) \in Receivers}
<1>1. P \subseteq Refdes /\ IsFiniteSet(P) /\ old \in SUBSET Refdes
  <2>1. P \in SUBSET Refdes
    BY DEF Physical
  <2> QED
    BY <2>1, DecapsAreCounted
<1>2. \A c \in Receivers : Cardinality(PutIn(P, f, {c})) <= Cardinality(PutIn(P, g, {c}))
  <2> TAKE c \in Receivers
  <2>1. /\ After(K, c) >= After(L, c)
        /\ After(L, c) = Cardinality(PutIn(P, f, {c})) /\ After(L, c) \in Nat
        /\ After(K, c) = Cardinality(PutIn(P, g, {c})) /\ After(K, c) \in Nat
    BY AfterIsPutIn DEF Receivers
  <2> HIDE DEF P, f, g
  <2> QED
    BY <2>1
<1>3. /\ {x \in P : <<L[x], decaps[x].model>> \in Receivers} = PutIn(P, f, Receivers)
      /\ {x \in P : <<K[x], decaps[x].model>> \in Receivers} = PutIn(P, g, Receivers)
  BY <1>1 DEF PutIn
<1>4. /\ Progress(L) = Cardinality({x \in P : <<L[x], decaps[x].model>> \in Receivers})
                         - Cardinality(old)
      /\ Progress(K) = Cardinality({x \in P : <<K[x], decaps[x].model>> \in Receivers})
                         - Cardinality(old)
  BY ProgressIsGain
<1>5. Cardinality(old) \in Nat
  BY <1>1, DecapsAreCounted
<1> HIDE DEF P, f, g, old
<1>6. /\ Progress(L) = Cardinality(PutIn(P, f, Receivers)) - Cardinality(old)
      /\ Progress(K) = Cardinality(PutIn(P, g, Receivers)) - Cardinality(old)
  BY <1>3, <1>4
<1>7. Cardinality(PutIn(P, f, Receivers)) <= Cardinality(PutIn(P, g, Receivers))
  BY <1>1, <1>2, MoreInEveryCell
<1>8. /\ Cardinality(PutIn(P, f, Receivers)) \in Nat
      /\ Cardinality(PutIn(P, g, Receivers)) \in Nat
  BY <1>1, PutInIsCounted
<1> QED
  BY <1>5, <1>6, <1>7, <1>8

\* One move less leaves one decap less where it went, and no cell loses another.
LEMMA OneMoveLess ==
  ASSUME EditsInv, NEW L, Keeps(L), NEW U \in SUBSET Movers(L), NEW x \in U,
         x \in Physical(decaps), NEW c \in TableCells
  PROVE  IF <<L[x], decaps[x].model>> = c
         THEN After(Only(L, U \ {x}), c) = After(Only(L, U), c) - 1
         ELSE After(Only(L, U \ {x}), c) >= After(Only(L, U), c)
<1> DEFINE K == Only(L, U)
           M == Only(L, U \ {x})
           before == {y \in Physical(decaps) : <<K[y], decaps[y].model>> = c}
           now == {y \in Physical(decaps) : <<M[y], decaps[y].model>> = c}
<1>1. /\ \A y \in Refdes \ {x} : M[y] = K[y]
      /\ K[x] = L[x] /\ L[x] # decaps[x].rail /\ M[x] = decaps[x].rail /\ x \in Refdes
  <2>1. x \in Refdes /\ L[x] # decaps[x].rail /\ ~decaps[x].gap
    BY KeepsRelabels, WhoStays DEF Movers
  <2> QED
    BY <2>1 DEF Only
<1>2. Physical(decaps) \subseteq Refdes
  BY DEF Physical
<1>3. before \in SUBSET Refdes /\ now \in SUBSET Refdes
  BY <1>2
<1>4. After(K, c) = Cardinality(before) /\ After(M, c) = Cardinality(now)
  BY DEF After
<1>5. CASE <<L[x], decaps[x].model>> = c
  <2>1. x \in before /\ now = before \ {x}
    BY <1>1, <1>2, <1>5
  <2> HIDE DEF before, now, K, M
  <2>2. Cardinality(now) = Cardinality(before) - 1
    BY <1>3, <2>1, DecapsAreCounted, FS_RemoveElement
  <2> QED
    BY <1>4, <1>5, <2>2 DEF K, M
<1>6. CASE <<L[x], decaps[x].model>> # c
  <2>1. before \in SUBSET now
    BY <1>1, <1>2, <1>6
  <2> HIDE DEF before, now, K, M
  <2>2. Cardinality(before) <= Cardinality(now)
    BY <1>3, <2>1, FewerDecaps
  <2>3. Cardinality(before) \in Nat /\ Cardinality(now) \in Nat
    BY <1>3, DecapsAreCounted
  <2> QED
    BY <1>4, <1>6, <2>2, <2>3 DEF K, M
<1> QED
  BY <1>5, <1>6

\* What a cell is not to have more of.
Bound(c) == IF c \in Receivers THEN Target(c) ELSE Present(c)

\* Where there is too much, somebody has come.
LEMMA TooManyHaveCome ==
  ASSUME EditsInv, RequestFits, NEW L, Keeps(L), NEW U \in SUBSET Movers(L),
         NEW c \in TableCells, After(Only(L, U), c) > Bound(c)
  PROVE  \E x \in U : <<L[x], decaps[x].model>> = c
<1> DEFINE K == Only(L, U)
           here == {y \in Physical(decaps) : <<decaps[y].rail, decaps[y].model>> = c}
           now == {y \in Physical(decaps) : <<K[y], decaps[y].model>> = c}
<1> SUFFICES ASSUME \A x \in U : <<L[x], decaps[x].model>> # c PROVE FALSE
  OBVIOUS
<1>1. Physical(decaps) \subseteq Refdes
  BY DEF Physical
<1>2. now \in SUBSET here
  <2> SUFFICES ASSUME NEW y \in Physical(decaps), <<K[y], decaps[y].model>> = c
               PROVE  K[y] = decaps[y].rail
    OBVIOUS
  <2>1. y \in Refdes /\ ~decaps[y].gap
    BY <1>1, KeepsRelabels, WhoStays
  <2>2. y \notin U
    BY <2>1 DEF Only
  <2> QED
    BY <2>1, <2>2 DEF Only
<1>3. here \in SUBSET Refdes
  BY <1>1
<1>4. After(K, c) = Cardinality(now) /\ Present(c) = Cardinality(here)
  BY DEF After, RequestFits, Present, Count
<1>5. Bound(c) >= Present(c) /\ Present(c) \in Nat /\ Bound(c) \in Nat
  BY DEF Bound, Receivers, RequestFits
<1>6. Cardinality(now) <= Cardinality(here) /\ Cardinality(now) \in Nat
  <2> HIDE DEF now, here
  <2> QED
    BY <1>2, <1>3, FewerDecaps, DecapsAreCounted
<1> HIDE DEF now, here, K
<1>7. After(K, c) <= Bound(c) /\ After(K, c) \in Nat
  BY <1>4, <1>5, <1>6
<1>8. After(K, c) > Bound(c)
  BY DEF K
<1> QED
  BY <1>5, <1>7, <1>8

\* A solution may be had without its gaps, and with as much gain, if some of its
\* moves are dropped: the least that leaves as many decaps in every cell is one of
\* the flow.
LEMMA FlowsLoseNothing ==
  ASSUME EditsInv, RequestFits, NEW L, Keeps(L)
  PROVE  \E U \in SUBSET Movers(L) :
           Only(L, U) \in Flows /\ Progress(Only(L, U)) >= Progress(L)
<1> DEFINE Full(U) == \A c \in TableCells : After(Only(L, U), c) >= After(L, c)
           Bad == {U \in SUBSET Movers(L) : Full(U)}
<1>1. Movers(L) \in SUBSET Refdes /\ Movers(L) \cup NewGaps(L) \subseteq Assignable
      /\ Relabels(L) /\ Assignable \subseteq Physical(decaps) /\ Physical(decaps) \subseteq Refdes
  BY WhoChanges, KeepsRelabels DEF Movers, NewGaps, Assignable, Physical
<1>2. Full(Movers(L))
  <2> SUFFICES ASSUME NEW c \in TableCells
               PROVE  After(Only(L, Movers(L)), c) >= After(L, c)
    OBVIOUS
  <2> DEFINE before == {x \in Physical(decaps) : <<L[x], decaps[x].model>> = c}
             now == {x \in Physical(decaps) : <<Only(L, Movers(L))[x], decaps[x].model>> = c}
  <2>1. before \in SUBSET now
    <3> SUFFICES ASSUME NEW x \in Physical(decaps), <<L[x], decaps[x].model>> = c
                 PROVE  Only(L, Movers(L))[x] = L[x]
      OBVIOUS
    <3>1. x \in Refdes /\ L[x] # Unused
      BY <1>1, DistributionAssumption DEF TableCells
    <3>2. x \notin Movers(L) => L[x] = IF decaps[x].gap THEN Unused ELSE decaps[x].rail
      BY <1>1, <3>1, WhoStays DEF NewGaps
    <3> QED
      BY <3>1, <3>2 DEF Only
  <2>2. now \in SUBSET Refdes
    BY <1>1
  <2>3. After(L, c) = Cardinality(before) /\ After(Only(L, Movers(L)), c) = Cardinality(now)
    BY DEF After
  <2> HIDE DEF before, now
  <2>4. Cardinality(before) <= Cardinality(now)
    BY <2>1, <2>2, FewerDecaps
  <2>5. Cardinality(before) \in Nat /\ Cardinality(now) \in Nat
    BY <2>1, <2>2, DecapsAreCounted
  <2> QED
    BY <2>3, <2>4, <2>5
<1>3. PICK U \in Bad : \A V \in Bad : ~(V \subseteq U /\ V # U)
  <2>1. IsFiniteSet(Movers(L)) /\ Bad \in SUBSET SUBSET Movers(L) /\ Bad # {}
    BY <1>1, <1>2, DecapsAreCounted
  <2> HIDE DEF Bad
  <2> QED
    BY <2>1, LeastSet
<1>4. U \in SUBSET Movers(L) /\ Full(U) /\ \A x \in U : ~Full(U \ {x})
  BY <1>3
<1> DEFINE K == Only(L, U)
<1>5. /\ Relabels(K) /\ \A x \in Refdes : K[x] \in Labels(x)
      /\ Movers(K) = U /\ NewGaps(K) = {} /\ \A x \in U : K[x] = L[x]
  BY <1>4, OnlyMovesThem
<1>6. ASSUME NEW c \in TableCells
      PROVE  After(L, c) \in Nat /\ After(K, c) \in Nat /\ After(K, c) >= After(L, c)
             /\ CountRow(L, c) /\ Present(c) \in Nat /\ Target(c) \in Nat
  BY <1>4, AfterIsPutIn DEF Keeps, CountRows, RequestFits
<1>7. ASSUME NEW c \in TableCells, c \notin Donors
      PROVE  After(K, c) <= Bound(c)
  <2> SUFFICES ASSUME After(K, c) > Bound(c) PROVE FALSE
    <3>1. Bound(c) \in Nat
      BY <1>6 DEF Bound
    <3> QED
      BY <1>6, <3>1
  <2>1. PICK x \in U : <<L[x], decaps[x].model>> = c
    BY <1>4, TooManyHaveCome
  <2>2. After(L, c) <= Bound(c)
    BY <1>6, <1>7 DEF CountRow, Bound
  <2>3. ASSUME NEW d \in TableCells
        PROVE  After(Only(L, U \ {x}), d) >= After(L, d)
    <3>1. IF d = c THEN After(Only(L, U \ {x}), d) = After(K, d) - 1
          ELSE After(Only(L, U \ {x}), d) >= After(K, d)
      BY <1>1, <1>4, <2>1, OneMoveLess
    <3>2. After(Only(L, U \ {x}), d) \in Nat
      BY AfterIsPutIn
    <3>3. Bound(c) \in Nat /\ After(L, d) \in Nat /\ After(K, d) \in Nat
          /\ After(K, d) >= After(L, d)
      BY <1>6 DEF Bound
    <3> HIDE DEF K
    <3> QED
      BY <2>2, <3>1, <3>2, <3>3
  <2> QED
    BY <1>4, <2>1, <2>3
<1>8. ASSUME NEW c \in TableCells PROVE CountRow(K, c)
  <2>1. c \in Donors => After(K, c) >= Target(c) /\ c \notin Receivers
    <3>1. c \in Donors => After(L, c) >= Target(c) /\ c \notin Receivers
      BY <1>6, DonorsDoNotReceive DEF CountRow
    <3> HIDE DEF K
    <3> QED
      BY <1>6, <3>1
  <2>2. c \in Receivers => After(K, c) <= Target(c)
    BY <1>7, DonorsDoNotReceive DEF Bound
  <2>3. c \notin Donors \cup Receivers => After(K, c) = Present(c)
    <3>1. c \notin Donors \cup Receivers => After(L, c) = Present(c) /\ After(K, c) <= Present(c)
      BY <1>6, <1>7 DEF CountRow, Bound
    <3> HIDE DEF K
    <3> QED
      BY <1>6, <3>1
  <2> HIDE DEF K
  <2> QED
    BY <2>1, <2>2, <2>3 DEF CountRow
<1>9. ASSUME NEW c \in Turnover PROVE ToleranceRow(K, c)
  <2>1. ToleranceRow(L, c) /\ c \in TableCells
    BY DEF Keeps, CountRows, Turnover
  <2>2. Leaving(K, c) \in SUBSET Leaving(L, c)
    <3> SUFFICES ASSUME NEW x \in Assignable, Cell(x) = c, K[x] # c[1]
                 PROVE  L[x] # c[1]
      BY DEF Leaving
    <3>1. x \in Refdes /\ ~decaps[x].gap /\ decaps[x].rail = c[1]
      BY <1>1, WhoStays DEF Cell
    <3>2. x \in U
      BY <3>1 DEF Only
    <3> QED
      BY <1>5, <3>2
  <2>3. Entering(K, c) \in SUBSET Entering(L, c)
    BY <1>4, <1>5 DEF Entering
  <2>4. Leaving(L, c) \in SUBSET Refdes /\ Entering(L, c) \in SUBSET Refdes
    BY DEF Leaving, Entering, Movers, Assignable, Physical
  <2>5. /\ Cardinality(Leaving(K, c)) <= Cardinality(Leaving(L, c))
        /\ Cardinality(Leaving(K, c)) \in Nat /\ Cardinality(Leaving(L, c)) \in Nat
        /\ Cardinality(Entering(K, c)) <= Cardinality(Entering(L, c))
        /\ Cardinality(Entering(K, c)) \in Nat /\ Cardinality(Entering(L, c)) \in Nat
    BY <2>2, <2>3, <2>4, FewerDecaps, DecapsAreCounted
  <2>6. Allowance(c) \in Nat
    BY <2>1 DEF RequestFits
  <2> QED
    BY <2>1, <2>5, <2>6 DEF ToleranceRow
<1>10. K \in Flows
  BY <1>5, <1>8, <1>9 DEF Flows, CountRows, Relabels
<1>11. Progress(K) >= Progress(L)
  <2>1. Movers(K) \cup NewGaps(K) \subseteq Assignable
    BY <1>1, <1>4, <1>5
  <2> QED
    BY <1>1, <1>5, <1>6, <2>1, FullerGainsMore
<1> QED
  BY <1>4, <1>10, <1>11

\* The flow that is at hand for a solution.
LEMMA FlowForASolution ==
  ASSUME EditsInv, RequestFits, NEW K, Keeps(K)
  PROVE  \E F \in Flows :
           /\ Progress(F) >= Progress(K)
           /\ Moves(F) <= Moves(K)
           /\ Moves(F) = Moves(K) => Length(F) = Length(K)
<1>1. PICK U \in SUBSET Movers(K) :
        Only(K, U) \in Flows /\ Progress(Only(K, U)) >= Progress(K)
  BY FlowsLoseNothing
<1> DEFINE F == Only(K, U)
<1>2. Relabels(F) /\ Movers(F) = U /\ \A x \in U : F[x] = K[x]
  BY OnlyMovesThem
<1>3. Relabels(K) /\ Movers(K) \in SUBSET Refdes
  BY KeepsRelabels DEF Movers
<1>4. IsFiniteSet(Movers(K))
  BY <1>3, DecapsAreCounted
<1>5. /\ Cardinality(U) <= Cardinality(Movers(K))
      /\ Cardinality(U) = Cardinality(Movers(K)) => U = Movers(K)
  BY <1>4, FS_Subset
<1>6. Moves(F) = Cardinality(U) /\ Moves(K) = Cardinality(Movers(K))
  BY <1>2 DEF Moves
<1>7. Moves(F) = Moves(K) => Length(F) = Length(K)
  <2> SUFFICES ASSUME Moves(F) = Moves(K) PROVE Length(F) = Length(K)
    OBVIOUS
  <2>1. Movers(K) = Movers(F)
    BY <1>2, <1>5, <1>6
  <2> QED
    BY <1>2, <1>3, <2>1, SameMovesSameLength
<1> QED
  BY <1>1, <1>5, <1>6, <1>7

\* A choice of rails without a gap costs its distance.
LEMMA FlowsCutNothing ==
  ASSUME EditsInv, RequestFits, NEW F \in Flows
  PROVE  Keeps(F) /\ Gaps(F) = 0 /\ Cost(F) = Length(F)
<1>1. Keeps(F) /\ NewGaps(F) = {}
  BY SolutionsKeep DEF Flows
<1>2. Gaps(F) = 0
  BY <1>1, FS_EmptySet DEF Gaps
<1>3. Length(F) \in Int /\ request.penalty \in Nat
  BY <1>1, KeepsRelabels, ObjectivesAreNumbers DEF RequestFits
<1> QED
  BY <1>1, <1>2, <1>3 DEF Cost

LEMMA CostIsNotLess ==
  ASSUME EditsInv, RequestFits, NEW L, Keeps(L)
  PROVE  /\ Cost(L) >= Length(L)
         /\ request.policy = "MIN_GAPS" => Cost(L) = Length(L)
<1>1. Length(L) \in Int /\ request.penalty * Gaps(L) \in Nat /\ Gaps(L) \in Nat
  BY KeepsRelabels, ObjectivesAreNumbers
<1>2. request.policy = "MIN_GAPS" => request.penalty * Gaps(L) = 0
  BY <1>1 DEF RequestFits
<1> QED
  BY <1>1, <1>2 DEF Cost

\* Where no pad of a cluster can move, the flow is a solution of the program.
LEMMA FlowIsASolution ==
  ASSUME EditsInv, ViasWhole, DirectOnly, NEW F \in Flows
  PROVE  F \in Solutions
<1>1. Keeps(F) /\ NewGaps(F) = {}
  BY SolutionsKeep DEF Flows
<1>2. ASSUME NEW x \in Refdes, Shared(board, x)
      PROVE  F[x] = IF decaps[x].gap THEN Unused ELSE decaps[x].rail
  <2>1. x \notin Movers(F)
    BY <1>1, <1>2 DEF Keeps, DirectOnly, Movers
  <2> QED
    BY <1>1, <2>1, WhoChanges
<1>3. EdgeRows(F) /\ ViaRows(F) /\ Rooted(F)
  BY <1>2, UnmovedPadsAreSound
<1> QED
  BY <1>1, <1>3 DEF Solutions, Keeps

\* Without any turnover a solution gains as much as it moves.
LEMMA ProgressIsMoves ==
  ASSUME EditsInv, RequestFits, Turnover = {}, NEW L, Keeps(L)
  PROVE  Progress(L) = Moves(L)
<1> DEFINE come == {x \in Movers(L) : <<L[x], decaps[x].model>> \in Receivers}
           leave == {x \in Movers(L) \cup NewGaps(L) : Cell(x) \in Receivers}
<1>1. come = Movers(L)
  <2>1. \A x \in Movers(L) : <<L[x], decaps[x].model>> \in Receivers
    BY WhoChanges DEF Movers, Destinations
  <2> QED
    BY <2>1
<1>2. leave = {}
  <2>1. \A x \in Movers(L) \cup NewGaps(L) : Cell(x) \in Donors
    BY WhoChanges DEF Movers, NewGaps, Sources
  <2> QED
    BY <2>1, DonorsDoNotReceive
<1>3. Moves(L) \in Nat /\ Cardinality({}) = 0
  BY KeepsRelabels, ObjectivesAreNumbers, FS_EmptySet
<1>4. Progress(L) = Cardinality(come) - Cardinality(leave) /\ Moves(L) = Cardinality(Movers(L))
  BY DEF Progress, Moves
<1> HIDE DEF come, leave
<1> QED
  BY <1>1, <1>2, <1>3, <1>4

\* Nor does it lose by putting back the pads it cuts.
LEMMA UncutIsAFlow ==
  ASSUME EditsInv, RequestFits, Turnover = {}, NEW L, Keeps(L)
  PROVE  LET K == Mended(L, NewGaps(L))
         IN  /\ K \in Flows /\ Moves(K) = Moves(L) /\ Length(K) = Length(L)
<1> DEFINE K == Mended(L, NewGaps(L))
<1>1. Keeps(K)
  BY UncutKeeps
<1>2. \A x \in Refdes : K[x] = IF x \in NewGaps(L) THEN decaps[x].rail ELSE L[x]
  BY DEF Mended
<1>3. \A x \in Refdes : decaps[x].rail # Unused
  BY WhoChanges
<1>4. NewGaps(K) = {}
  BY <1>2, <1>3 DEF NewGaps
<1>5. Movers(K) = Movers(L) /\ \A x \in Movers(L) : K[x] = L[x]
  BY <1>2, <1>3 DEF NewGaps, Movers
<1>6. Moves(K) = Moves(L) /\ Length(K) = Length(L)
  <2>1. Relabels(K) /\ Relabels(L)
    BY <1>1, KeepsRelabels
  <2> HIDE DEF K
  <2> QED
    BY <2>1, <1>5, SameMovesSameLength
<1>7. K \in Flows
  BY <1>1, <1>4 DEF Keeps, Flows
<1> QED
  BY <1>6, <1>7

-----------------------------------------------------------------------------
(* What comes first.                                                       *)

\* K comes before L, at the same progress, in the order of the policy.
Before(K, L) ==
  IF request.policy = "MIN_GAPS"
  THEN \/ Gaps(K) < Gaps(L)
       \/ Gaps(K) = Gaps(L) /\ Moves(K) < Moves(L)
       \/ Gaps(K) = Gaps(L) /\ Moves(K) = Moves(L) /\ Length(K) < Length(L)
  ELSE \/ Moves(K) < Moves(L)
       \/ Moves(K) = Moves(L) /\ Cost(K) < Cost(L)
       \/ Moves(K) = Moves(L) /\ Cost(K) = Cost(L) /\ Gaps(K) < Gaps(L)

Fullest(L) == \A K \in Solutions : Progress(K) <= Progress(L)

Unbeaten(L) == \A K \in Solutions : Progress(K) = Progress(L) => ~Before(K, L)

LEMMA PrecedesMeans ==
  ASSUME NEW k1 \in Int, NEW k2 \in Int, NEW k3 \in Int, NEW k4 \in Int,
         NEW l1 \in Int, NEW l2 \in Int, NEW l3 \in Int, NEW l4 \in Int,
         Precedes(<<k1, k2, k3, k4>>, <<l1, l2, l3, l4>>)
  PROVE  \/ k1 < l1
         \/ k1 = l1 /\ k2 < l2
         \/ k1 = l1 /\ k2 = l2 /\ k3 < l3
         \/ k1 = l1 /\ k2 = l2 /\ k3 = l3 /\ k4 < l4
<1> DEFINE r == <<k1, k2, k3, k4>>
           s == <<l1, l2, l3, l4>>
<1>1. PICK i \in 1..4 : r[i] < s[i] /\ \A j \in 1..i - 1 : r[j] = s[j]
  BY DEF Precedes
<1>2. CASE i = 1
  BY <1>1, <1>2
<1>3. CASE i = 2
  <2>1. 1 \in 1..i - 1
    BY <1>3
  <2> QED
    BY <1>1, <1>3, <2>1
<1>4. CASE i = 3
  <2>1. 1 \in 1..i - 1 /\ 2 \in 1..i - 1
    BY <1>4
  <2> QED
    BY <1>1, <1>4, <2>1
<1>5. CASE i = 4
  <2>1. 1 \in 1..i - 1 /\ 2 \in 1..i - 1 /\ 3 \in 1..i - 1
    BY <1>5
  <2> QED
    BY <1>1, <1>5, <2>1
<1> QED
  BY <1>2, <1>3, <1>4, <1>5

\* The ranks say no more.
LEMMA RanksMean ==
  ASSUME EditsInv, RequestFits, NEW K, NEW L, Keeps(K), Keeps(L),
         Progress(K) <= Progress(L), Precedes(Rank(K), Rank(L))
  PROVE  Progress(K) = Progress(L) /\ Before(K, L)
<1>1. /\ Progress(K) \in Int /\ Gaps(K) \in Int /\ Moves(K) \in Int
      /\ Length(K) \in Int /\ Cost(K) \in Int
      /\ Progress(L) \in Int /\ Gaps(L) \in Int /\ Moves(L) \in Int
      /\ Length(L) \in Int /\ Cost(L) \in Int
  BY KeepsRelabels, ObjectivesAreNumbers
<1>2. PICK k \in Int, l \in Int : k = -Progress(K) /\ l = -Progress(L)
  BY <1>1
<1>3. k >= l /\ (k = l => Progress(K) = Progress(L))
  BY <1>1, <1>2
<1>4. CASE request.policy = "MIN_GAPS"
  <2>1. Precedes(<<k, Gaps(K), Moves(K), Length(K)>>,
                 <<l, Gaps(L), Moves(L), Length(L)>>)
    BY <1>2, <1>4 DEF Rank
  <2>2. \/ k < l
        \/ k = l /\ Gaps(K) < Gaps(L)
        \/ k = l /\ Gaps(K) = Gaps(L) /\ Moves(K) < Moves(L)
        \/ /\ k = l /\ Gaps(K) = Gaps(L) /\ Moves(K) = Moves(L)
           /\ Length(K) < Length(L)
    BY <1>1, <2>1, PrecedesMeans
  <2>3. Progress(K) = Progress(L)
    BY <1>3, <2>2
  <2> QED
    BY <1>1, <1>3, <1>4, <2>2, <2>3 DEF Before
<1>5. CASE request.policy # "MIN_GAPS"
  <2>1. Precedes(<<k, Moves(K), Cost(K), Gaps(K)>>,
                 <<l, Moves(L), Cost(L), Gaps(L)>>)
    BY <1>2, <1>5 DEF Rank
  <2>2. \/ k < l
        \/ k = l /\ Moves(K) < Moves(L)
        \/ k = l /\ Moves(K) = Moves(L) /\ Cost(K) < Cost(L)
        \/ /\ k = l /\ Moves(K) = Moves(L) /\ Cost(K) = Cost(L)
           /\ Gaps(K) < Gaps(L)
    BY <1>1, <2>1, PrecedesMeans
  <2>3. Progress(K) = Progress(L)
    BY <1>3, <2>2
  <2> QED
    BY <1>1, <1>3, <1>5, <2>2, <2>3 DEF Before
<1> QED
  BY <1>4, <1>5

\* What is as full and, with as many moves, has no more gaps and no more cost, is
\* not beaten either.
LEMMA NoWorse ==
  ASSUME EditsInv, RequestFits, NEW L, NEW M, Keeps(L), Keeps(M),
         Progress(M) = Progress(L), Moves(M) = Moves(L),
         Gaps(M) <= Gaps(L), Cost(M) <= Cost(L)
  PROVE  /\ Fullest(L) => Fullest(M)
         /\ Unbeaten(L) => Unbeaten(M)
<1>1. Fullest(L) => Fullest(M)
  BY DEF Fullest
<1>2. ASSUME Unbeaten(L), NEW K \in Solutions, Progress(K) = Progress(M), Before(K, M)
      PROVE  FALSE
  <2>1. ~Before(K, L) /\ Keeps(K)
    BY <1>2, SolutionsKeep DEF Unbeaten
  <2>2. /\ Gaps(K) \in Nat /\ Moves(K) \in Nat /\ Length(K) \in Int /\ Cost(K) \in Int
        /\ Gaps(L) \in Nat /\ Moves(L) \in Nat /\ Length(L) \in Int /\ Cost(L) \in Int
        /\ Gaps(M) \in Nat /\ Moves(M) \in Nat /\ Length(M) \in Int /\ Cost(M) \in Int
    BY <2>1, KeepsRelabels, ObjectivesAreNumbers
  <2>3. request.policy = "MIN_GAPS" => Length(M) <= Length(L)
    BY CostIsNotLess
  <2> QED
    BY <1>2, <2>1, <2>2, <2>3 DEF Before
<1> QED
  BY <1>1, <1>2 DEF Unbeaten

\* The flow of most progress is as full as can be: the stage "flow" looks no further.
LEMMA FlowIsFullest ==
  ASSUME EditsInv, RequestFits, NEW L \in Most(Flows, Progress)
  PROVE  Fullest(L)
<1> SUFFICES ASSUME NEW K \in Solutions PROVE Progress(K) <= Progress(L)
  BY DEF Fullest
<1>1. PICK F \in Flows : Progress(F) >= Progress(K)
  BY SolutionsKeep, FlowForASolution
<1>2. Progress(L) >= Progress(F)
  BY DEF Most
<1>3. Keeps(L) /\ Keeps(F) /\ Keeps(K)
  BY SolutionsKeep DEF Most
<1>4. Progress(L) \in Int /\ Progress(F) \in Int /\ Progress(K) \in Int
  BY <1>3, KeepsRelabels, ObjectivesAreNumbers
<1> QED
  BY <1>1, <1>2, <1>4

\* With the fewest moves and the best distance it is not beaten.
LEMMA FlowIsUnbeaten ==
  ASSUME EditsInv, RequestFits, NEW L \in Least(Least(Most(Flows, Progress), Moves), Length)
  PROVE  Unbeaten(L)
<1> SUFFICES ASSUME NEW K \in Solutions, Progress(K) = Progress(L), Before(K, L)
             PROVE  FALSE
  BY DEF Unbeaten
<1>1. /\ L \in Flows
      /\ \A F \in Flows : Progress(L) >= Progress(F)
      /\ \A F \in Most(Flows, Progress) : Moves(L) <= Moves(F)
      /\ \A F \in Least(Most(Flows, Progress), Moves) : Length(L) <= Length(F)
  BY DEF Least, Most
<1>2. PICK F \in Flows :
        /\ Progress(F) >= Progress(K)
        /\ Moves(F) <= Moves(K)
        /\ Moves(F) = Moves(K) => Length(F) = Length(K)
  BY SolutionsKeep, FlowForASolution
<1>3. Keeps(K) /\ Keeps(L) /\ Keeps(F)
  BY <1>1, SolutionsKeep
<1>4. /\ Progress(K) \in Int /\ Gaps(K) \in Nat /\ Moves(K) \in Nat
      /\ Length(K) \in Int /\ Cost(K) \in Int
      /\ Progress(L) \in Int /\ Gaps(L) = 0 /\ Moves(L) \in Nat
      /\ Length(L) \in Int /\ Cost(L) = Length(L)
      /\ Progress(F) \in Int /\ Moves(F) \in Nat /\ Length(F) \in Int
  BY <1>1, <1>3, KeepsRelabels, ObjectivesAreNumbers, FlowsCutNothing
<1>5. Cost(K) >= Length(K)
  BY <1>3, CostIsNotLess
<1>6. F \in Most(Flows, Progress)
  <2>1. \A G \in Flows : Progress(L) >= Progress(G) /\ Progress(G) \in Int
    BY <1>1, SolutionsKeep, KeepsRelabels, ObjectivesAreNumbers
  <2>2. Progress(F) >= Progress(L)
    BY <1>2
  <2>3. \A G \in Flows : Progress(F) >= Progress(G)
    BY <2>1, <2>2, <1>4
  <2> QED
    BY <2>3 DEF Most
<1>7. Moves(L) <= Moves(F)
  BY <1>1, <1>6
<1>8. Moves(F) = Moves(L) => Length(L) <= Length(F)
  <2> SUFFICES ASSUME Moves(F) = Moves(L) PROVE Length(L) <= Length(F)
    OBVIOUS
  <2>1. F \in Least(Most(Flows, Progress), Moves)
    BY <1>1, <1>6 DEF Least
  <2> QED
    BY <1>1, <2>1
<1>9. Moves(L) <= Moves(K) /\ (Moves(K) = Moves(L) => Length(L) <= Length(K))
  BY <1>2, <1>4, <1>7, <1>8
<1> QED
  BY <1>4, <1>5, <1>9 DEF Before

-----------------------------------------------------------------------------
(* What each stage has settled.                                            *)

Top == Most(Solutions, Progress)

Priced == request.policy = "MIN_GAPS" /\ Selectable # {}

Within(g, L) == g = -1 \/ Gaps(L) = g

\* The total of the gaps is the least, where it counts.
GapsSettled(g, L, u) ==
  /\ L \in Top
  /\ Within(g, L)
  /\ g = -1 <=> ~Priced
  /\ u = {} /\ g # -1 => \A K \in Top : g <= Gaps(K)

MovesSettled(g, L) == \A K \in Top : Within(g, K) => Moves(L) <= Moves(K)

CostSettled(g, L) ==
  \A K \in Top : Within(g, K) /\ Moves(K) = Moves(L) => Cost(L) <= Cost(K)

IsBest(L, u) == Fullest(L) /\ (u = {} => Unbeaten(L))

\* What the stage "refine" has to choose from.
Refinable(R, L) ==
  /\ L \in R
  /\ DirectOnly => NewGaps(L) = {}
  /\ ~DirectOnly => \A K \in R : K \in Top /\ Moves(K) = Moves(L)

\* What is full and what has the most progress.
LEMMA TopIsFullest ==
  ASSUME EditsInv, RequestFits
  PROVE  /\ \A L \in Top : L \in Solutions /\ Keeps(L) /\ Fullest(L)
         /\ \A K, L \in Top : Progress(K) = Progress(L)
         /\ \A L \in Top, K \in Solutions : Progress(K) = Progress(L) => K \in Top
<1>1. \A L \in Solutions : Keeps(L) /\ Progress(L) \in Int
  BY SolutionsKeep, KeepsRelabels, ObjectivesAreNumbers
<1>2. \A L : L \in Top <=> L \in Solutions /\ \A K \in Solutions : Progress(L) >= Progress(K)
  BY DEF Top, Most
<1>3. \A L \in Top : L \in Solutions /\ Keeps(L) /\ Fullest(L)
  BY <1>1, <1>2 DEF Fullest
<1>4. ASSUME NEW K \in Top, NEW L \in Top PROVE Progress(K) = Progress(L)
  <2>1. Progress(K) >= Progress(L) /\ Progress(L) >= Progress(K)
    BY <1>2
  <2>2. Progress(K) \in Int /\ Progress(L) \in Int
    BY <1>1, <1>2
  <2> QED
    BY <2>1, <2>2
<1>5. ASSUME NEW L \in Top, NEW K \in Solutions, Progress(K) = Progress(L) PROVE K \in Top
  BY <1>2, <1>5
<1> QED
  BY <1>3, <1>4, <1>5

\* Nothing is cut where nothing can be.
LEMMA GapsNeedCells ==
  ASSUME EditsInv, NEW L, Keeps(L), Selectable = {}
  PROVE  Gaps(L) = 0
<1>1. NewGaps(L) = {}
  <2> SUFFICES ASSUME NEW x \in NewGaps(L) PROVE FALSE
    OBVIOUS
  <2>1. x \in Refdes /\ ~decaps[x].gap
    BY DEF NewGaps
  <2>2. MayCut(x)
    BY <2>1, WhoChanges DEF MayCut
  <2> QED
    BY <2>1, <2>2 DEF Selectable
<1> QED
  BY <1>1, FS_EmptySet DEF Gaps

\* Any of the ties, with the fewest gaps where they were priced, is the best.
LEMMA TiesAreBest ==
  ASSUME EditsInv, RequestFits, NEW g, NEW L,
         GapsSettled(g, L, {}), MovesSettled(g, L), CostSettled(g, L),
         request.policy # "MIN_GAPS" =>
           \A K \in Top : Moves(K) = Moves(L) /\ Cost(K) = Cost(L) => Gaps(L) <= Gaps(K)
  PROVE  Unbeaten(L)
<1> SUFFICES ASSUME NEW K \in Solutions, Progress(K) = Progress(L), Before(K, L)
             PROVE  FALSE
  BY DEF Unbeaten
<1>1. L \in Top /\ K \in Top /\ Keeps(K) /\ Keeps(L)
  BY TopIsFullest DEF GapsSettled
<1>2. /\ Gaps(K) \in Nat /\ Moves(K) \in Nat /\ Length(K) \in Int /\ Cost(K) \in Int
      /\ Gaps(L) \in Nat /\ Moves(L) \in Nat /\ Length(L) \in Int /\ Cost(L) \in Int
  BY <1>1, KeepsRelabels, ObjectivesAreNumbers
<1>3. Within(g, K) =>
        Moves(L) <= Moves(K) /\ (Moves(K) = Moves(L) => Cost(L) <= Cost(K))
  BY <1>1 DEF MovesSettled, CostSettled
<1>4. CASE request.policy # "MIN_GAPS"
  <2>1. Within(g, K)
    BY <1>4 DEF GapsSettled, Priced, Within
  <2>2. Moves(K) = Moves(L) /\ Cost(K) = Cost(L) => Gaps(L) <= Gaps(K)
    BY <1>1, <1>4
  <2> QED
    BY <1>2, <1>3, <1>4, <2>1, <2>2 DEF Before
<1>5. CASE request.policy = "MIN_GAPS"
  <2>1. Cost(K) = Length(K) /\ Cost(L) = Length(L)
    BY <1>1, <1>5, CostIsNotLess
  <2>2. CASE Selectable = {}
    <3>1. Within(g, K) /\ Gaps(K) = 0 /\ Gaps(L) = 0
      BY <1>1, <2>2, GapsNeedCells DEF GapsSettled, Priced, Within
    <3> QED
      BY <1>2, <1>3, <1>5, <2>1, <3>1 DEF Before
  <2>3. CASE Selectable # {}
    <3>1. g # -1 /\ Gaps(L) = g /\ g <= Gaps(K)
      BY <1>1, <1>5, <2>3 DEF GapsSettled, Priced, Within
    <3>2. Gaps(K) = Gaps(L) => Within(g, K)
      BY <3>1 DEF Within
    <3> QED
      BY <1>2, <1>3, <1>5, <2>1, <3>1, <3>2 DEF Before
  <2> QED
    BY <2>2, <2>3
<1> QED
  BY <1>4, <1>5

\* Putting back pads of donors loses nothing.
LEMMA MendedIsNoWorse ==
  ASSUME EditsInv, RequestFits, NEW L, Keeps(L), NEW R \in SUBSET NewGaps(L),
         \A x \in R : Cell(x) \in Donors
  PROVE  LET K == Mended(L, R)
         IN  /\ Keeps(K)
             /\ Progress(K) = Progress(L) /\ Moves(K) = Moves(L)
             /\ Gaps(K) <= Gaps(L) /\ Cost(K) <= Cost(L)
<1> DEFINE K == Mended(L, R)
<1>1. Keeps(K) /\ Relabels(K) /\ Relabels(L)
  BY MendedKeeps, KeepsRelabels
<1>2. \A x \in Refdes : K[x] = IF x \in R THEN decaps[x].rail ELSE L[x]
  BY DEF Mended
<1>3. \A x \in Refdes : decaps[x].rail # Unused
  BY WhoChanges
<1>4. /\ Movers(K) = Movers(L) /\ \A x \in Movers(L) : K[x] = L[x]
      /\ NewGaps(K) = NewGaps(L) \ R
  BY <1>2, <1>3 DEF NewGaps, Movers
<1>5. Progress(K) = Progress(L)
  <2>1. {x \in Movers(K) : <<K[x], decaps[x].model>> \in Receivers}
          = {x \in Movers(L) : <<L[x], decaps[x].model>> \in Receivers}
    BY <1>4
  <2>2. {x \in Movers(K) \cup NewGaps(K) : Cell(x) \in Receivers}
          = {x \in Movers(L) \cup NewGaps(L) : Cell(x) \in Receivers}
    BY <1>4, DonorsDoNotReceive
  <2> QED
    BY <2>1, <2>2 DEF Progress
<1>6. Moves(K) = Moves(L) /\ Length(K) = Length(L)
  <2> HIDE DEF K
  <2> QED
    BY <1>1, <1>4, SameMovesSameLength
<1>7. Gaps(K) <= Gaps(L)
  <2>1. NewGaps(L) \in SUBSET Refdes /\ NewGaps(K) \in SUBSET NewGaps(L)
    BY <1>4 DEF NewGaps
  <2> HIDE DEF K
  <2> QED
    BY <2>1, FewerDecaps DEF Gaps
<1>8. Cost(K) <= Cost(L)
  <2> HIDE DEF K
  <2> QED
    BY <1>1, <1>6, <1>7, FewerGapsCostLess
<1> QED
  BY <1>1, <1>5, <1>6, <1>7, <1>8

\* What is at hand stays the best when gaps are pruned.
LEMMA PrunedIsBest ==
  ASSUME EditsInv, RequestFits, NEW L, Keeps(L), NEW u, IsBest(L, u)
  PROVE  IsBest(Pruned(L), u)
<1>1. ASSUME NEW x \in Redundant(L) PROVE x \in NewGaps(L) /\ Cell(x) \in Donors
  <2>1. x \in NewGaps(L) /\ x \in Cut(L)
    BY DEF Redundant, NewGaps, Cut
  <2>2. x \in Segment(board.powerEdges, Cut(L), x)
    BY <2>1, SegmentIsClosed
  <2> QED
    BY <2>1, <2>2 DEF Redundant
<1>2. Pruned(L) = Mended(L, Redundant(L))
  BY DEF Pruned, Mended
<1> DEFINE K == Mended(L, Redundant(L))
<1>3. /\ Keeps(K) /\ Progress(K) = Progress(L) /\ Moves(K) = Moves(L)
      /\ Gaps(K) <= Gaps(L) /\ Cost(K) <= Cost(L)
  BY <1>1, MendedIsNoWorse
<1> HIDE DEF K
<1>4. IsBest(K, u)
  BY <1>3, NoWorse DEF IsBest
<1> QED
  BY <1>2, <1>4 DEF K

\* Solutions with the same moves and no gaps are one.
LEMMA UncutIsTheSame ==
  ASSUME EditsInv, NEW K, NEW L, Keeps(K), Keeps(L),
         \A x \in Movers(K) \cup Movers(L) : K[x] = L[x],
         NewGaps(K) = {}, NewGaps(L) = {}
  PROVE  K = L
<1>1. \A x \in Refdes : K[x] = L[x]
  <2> TAKE x \in Refdes
  <2>1. x \notin Movers(K) \cup Movers(L) => K[x] = L[x]
    BY WhoChanges
  <2> QED
    BY <2>1
<1> QED
  BY <1>1 DEF Keeps

\* Decaps that share no pad: of the flows with as many moves as there can be, the one
\* with the best distance is the best.
LEMMA DirectIsBest ==
  ASSUME EditsInv, RequestFits, Turnover = {}, NEW L \in Top,
         NEW F \in Flows, Moves(F) = Progress(L)
  PROVE  /\ Fullest(F)
         /\ F \in Least({K \in Flows : Moves(K) = Progress(L)}, Length) => Unbeaten(F)
<1>1. Keeps(F) /\ Keeps(L) /\ L \in Solutions
  BY SolutionsKeep, TopIsFullest
<1>2. Progress(F) = Progress(L)
  BY <1>1, ProgressIsMoves
<1>3. Fullest(F)
  BY <1>2, TopIsFullest DEF Fullest
<1>4. ASSUME F \in Least({K \in Flows : Moves(K) = Progress(L)}, Length),
             NEW K \in Solutions, Progress(K) = Progress(F), Before(K, F)
      PROVE  FALSE
  <2> DEFINE G == Mended(K, NewGaps(K))
  <2>1. Keeps(K) /\ Moves(K) = Progress(L)
    BY <1>2, <1>4, SolutionsKeep, ProgressIsMoves
  <2>2. G \in Flows /\ Moves(G) = Moves(K) /\ Length(G) = Length(K)
    BY <2>1, UncutIsAFlow
  <2> HIDE DEF G
  <2>3. Length(F) <= Length(K) /\ Moves(K) = Moves(F)
    BY <1>4, <2>1, <2>2 DEF Least
  <2>4. /\ Gaps(K) \in Nat /\ Moves(K) \in Nat /\ Length(K) \in Int /\ Cost(K) \in Int
        /\ Gaps(F) = 0 /\ Length(F) \in Int /\ Cost(F) = Length(F)
    BY <1>1, <2>1, KeepsRelabels, ObjectivesAreNumbers, FlowsCutNothing
  <2>5. Cost(K) >= Length(K)
    BY <2>1, CostIsNotLess
  <2> QED
    BY <1>4, <2>3, <2>4, <2>5 DEF Before
<1> QED
  BY <1>3, <1>4 DEF Unbeaten

-----------------------------------------------------------------------------
(* A plan is the best.                                                     *)

\* The total of the gaps is open until it is settled, and until the first solve no
\* stage has fallen back.
Fresh ==
  /\ stage \in {"idle", "answered", "build", "flow", "fulfil", "gaps"} => gapTotal = -1
  /\ stage \in {"idle", "build", "flow", "fulfil", "gaps"} => unproven = {}

\* What each stage hands to the next: its optimum, among all solutions of the
\* program that reach the optima before it.
Settled ==
  /\ stage = "gaps" => rows = Top /\ found \in Top
  /\ stage = "moves" => rows = Top /\ GapsSettled(gapTotal, found, unproven)
  /\ stage = "distance" =>
       /\ rows = {K \in Top : Moves(K) = Moves(found)}
       /\ GapsSettled(gapTotal, found, unproven)
       /\ MovesSettled(gapTotal, found)
  /\ stage = "ties" =>
       /\ ~DirectOnly
       /\ rows = {K \in Top : Moves(K) = Moves(found) /\ Cost(K) = Cost(found)}
       /\ GapsSettled(gapTotal, found, unproven)
       /\ MovesSettled(gapTotal, found)
       /\ CostSettled(gapTotal, found)
  /\ stage = "refine" => Refinable(rows, found) /\ IsBest(found, unproven)
  /\ stage = "finish" => IsBest(found, unproven)
  /\ answer = "plan" => IsBest(found, unproven)

BestInv == Fresh /\ (ViasWhole => Settled)

\* The objectives of a solution stay during a calculation.
LEMMA ObjectivesStay ==
  ASSUME UNCHANGED <<vars, request>>, NEW L
  PROVE  /\ Progress(L)' = Progress(L)
         /\ NewGaps(L)' = NewGaps(L) /\ Gaps(L)' = Gaps(L)
         /\ Moves(L)' = Moves(L)
         /\ Length(L)' = Length(L)
         /\ Cost(L)' = Cost(L)
<1> USE DEF vars
<1>1. Movers(L)' = Movers(L) /\ NewGaps(L)' = NewGaps(L)
  BY DEF Movers, NewGaps
<1>2. Receivers' = Receivers /\ \A x : Cell(x)' = Cell(x)
  BY DEF Receivers, Present, Target, Cell
<1>3. Progress(L)' = Progress(L)
  BY <1>1, <1>2 DEF Progress
<1>4. Gaps(L)' = Gaps(L) /\ Moves(L)' = Moves(L)
  BY <1>1 DEF Gaps, Moves
<1>5. Length(L)' = Length(L)
  <2> DEFINE sum(S) == MapThenSumSet(LAMBDA x : Distance[x][L[x]], S)
  <2>1. /\ Length(L) = IF request.mode = "NEAREST" THEN sum(Movers(L)) ELSE -sum(Movers(L))
        /\ Length(L)' = IF request'.mode = "NEAREST" THEN sum(Movers(L)') ELSE -sum(Movers(L)')
    BY DEF Length, MapThenSumSet, MapThenFoldSet
  <2> HIDE DEF sum
  <2> QED
    BY <1>1, <2>1
<1> QED
  BY <1>1, <1>3, <1>4, <1>5 DEF Cost

\* And so does what has been settled about them.
LEMMA SettledStays ==
  ASSUME UNCHANGED <<vars, request>>
  PROVE  /\ Top' = Top
         /\ \A L : Moves(L)' = Moves(L) /\ Cost(L)' = Cost(L)
         /\ \A g, L, u : GapsSettled(g, L, u)' <=> GapsSettled(g, L, u)
         /\ \A g, L : MovesSettled(g, L)' <=> MovesSettled(g, L)
         /\ \A g, L : CostSettled(g, L)' <=> CostSettled(g, L)
         /\ \A R, L : Refinable(R, L)' <=> Refinable(R, L)
         /\ \A L, u : IsBest(L, u)' <=> IsBest(L, u)
         /\ ViasWhole' <=> ViasWhole
         /\ DirectOnly' <=> DirectOnly
<1>1. /\ Solutions' = Solutions
      /\ ViasWhole' <=> ViasWhole
      /\ DirectOnly' <=> DirectOnly
  BY ProgramStays, TableStays DEF vars
<1>2. \A L : /\ Progress(L)' = Progress(L)
             /\ NewGaps(L)' = NewGaps(L) /\ Gaps(L)' = Gaps(L)
             /\ Moves(L)' = Moves(L)
             /\ Length(L)' = Length(L)
             /\ Cost(L)' = Cost(L)
  BY ObjectivesStay
<1>3. Top' = Top
  BY <1>1, <1>2 DEF Top, Most
<1>4. Selectable' = Selectable
  <2>1. Assignable' = Assignable /\ Sources' = Sources /\ \A x : Cell(x)' = Cell(x)
    BY DEF Assignable, Sources, Donors, Turnover, Present, Target, Allowance, Cell, vars
  <2>2. \A x : MayCut(x)' <=> MayCut(x)
    BY <2>1 DEF MayCut, vars
  <2> QED
    BY <2>2 DEF Selectable, vars
<1>5. /\ Priced' <=> Priced
      /\ \A g, L : Within(g, L)' <=> Within(g, L)
  BY <1>2, <1>4 DEF Priced, Within
<1>6. ASSUME NEW g, NEW L, NEW u
      PROVE  /\ GapsSettled(g, L, u)' <=> GapsSettled(g, L, u)
             /\ MovesSettled(g, L)' <=> MovesSettled(g, L)
             /\ CostSettled(g, L)' <=> CostSettled(g, L)
  BY <1>2, <1>3, <1>5 DEF GapsSettled, MovesSettled, CostSettled
<1>7. ASSUME NEW L, NEW R PROVE Refinable(R, L)' <=> Refinable(R, L)
  BY <1>1, <1>2, <1>3 DEF Refinable
<1>8. ASSUME NEW L, NEW u PROVE IsBest(L, u)' <=> IsBest(L, u)
  <2>1. ASSUME NEW K PROVE Before(K, L)' <=> Before(K, L)
    BY <1>2 DEF Before
  <2>2. Fullest(L)' <=> Fullest(L)
    BY <1>1, <1>2 DEF Fullest
  <2>3. Unbeaten(L)' <=> Unbeaten(L)
    BY <1>1, <1>2, <2>1 DEF Unbeaten
  <2> QED
    BY <2>2, <2>3 DEF IsBest
<1> QED
  BY <1>1, <1>2, <1>3, <1>6, <1>7, <1>8

\* The order of the stages is that of the policy, and a stage that falls back says
\* so and keeps what was settled before it.
LEMMA StepKeepsBest ==
  PlanInv /\ Ready /\ BestInv /\ [PlanNext]_planVars => BestInv'
<1> SUFFICES ASSUME PlanInv, Ready, BestInv, [PlanNext]_planVars PROVE BestInv'
  OBVIOUS
<1> USE DEF WithRows, WithSolution, Solving
<1>1. ASSUME UNCHANGED <<vars, request>>
      PROVE  /\ Top' = Top
             /\ \A L : Moves(L)' = Moves(L) /\ Cost(L)' = Cost(L)
             /\ \A g, L, u : GapsSettled(g, L, u)' <=> GapsSettled(g, L, u)
             /\ \A g, L : MovesSettled(g, L)' <=> MovesSettled(g, L)
             /\ \A g, L : CostSettled(g, L)' <=> CostSettled(g, L)
             /\ \A R, L : Refinable(R, L)' <=> Refinable(R, L)
             /\ \A L, u : IsBest(L, u)' <=> IsBest(L, u)
             /\ ViasWhole' <=> ViasWhole
             /\ DirectOnly' <=> DirectOnly
  BY <1>1, SettledStays
<1>2. ASSUME NEW a, Answer(a), a # "plan" PROVE BestInv'
  BY <1>2 DEF Answer, BestInv, Fresh, Settled
<1>3. EditsInv /\ Fresh /\ (ViasWhole => Settled)
  BY DEF PlanInv, BestInv
<1>4. ASSUME NEW q \in Requests, Calculate(q) PROVE BestInv'
  <2>1. CASE stage' = "build" /\ UNCHANGED solveVars /\ answer' # "plan"
    BY <2>1, <1>3, <1>4 DEF Calculate, BestInv, Fresh, Settled, solveVars
  <2>2. CASE stage' = "build" /\ UNCHANGED <<solveVars, answer>>
    <3>1. answer # "plan"
      BY <1>4 DEF Calculate, PlanInv
    <3> QED
      BY <2>1, <2>2, <3>1
  <2> QED
    BY <1>2, <1>4, <2>2 DEF Calculate
<1>5. CASE Build
  <2>1. stage = "build" /\ answer # "plan"
    BY <1>5 DEF Build, PlanInv
  <2>2. CASE stage' \in {"flow", "fulfil"} /\ UNCHANGED <<gapTotal, unproven, answer>>
    BY <2>1, <2>2, <1>3 DEF BestInv, Fresh, Settled
  <2> QED
    BY <2>2, <1>2, <1>5 DEF Build
<1>6. CASE Stop
  BY <1>6, <1>2 DEF Stop
<1>7. CASE Flow
  <2>1. /\ UNCHANGED <<vars, request, gapTotal, answer>>
        /\ stage = "flow" /\ stage' = "refine" /\ rows' = Solutions
        /\ answer # "plan" /\ RequestFits /\ DirectOnly /\ unproven = {}
    BY <1>7, <1>3 DEF Flow, PlanInv, Ready, Solved, Fresh
  <2>2. /\ found' \in Most(Flows, Progress) /\ found' \in Flows
        /\ \/ /\ found' \in Least(Least(Most(Flows, Progress), Moves), Length)
              /\ unproven' = {}
           \/ unproven' # {}
    BY <2>1, <1>7 DEF Flow, Least, Most, Solved, FellBack
  <2>3. IsBest(found', unproven')
    BY <2>1, <2>2, <1>3, FlowIsFullest, FlowIsUnbeaten DEF IsBest
  <2>4. ViasWhole => Refinable(rows', found')
    BY <2>1, <2>2, <1>3, FlowIsASolution DEF Refinable, Flows
  <2> QED
    BY <2>1, <2>3, <2>4, <1>1 DEF BestInv, Fresh, Settled
<1>8. CASE Fulfil
  <2>1. /\ UNCHANGED <<vars, request>> /\ stage = "fulfil" /\ answer # "plan"
        /\ rows = Solutions /\ RequestFits
    BY <1>8 DEF Fulfil, PlanInv, Ready
  <2>2. ASSUME NEW L \in Most(rows, Progress), Solved(L, "gaps"),
               rows' = {K \in rows : Progress(K) = Progress(L)},
               UNCHANGED <<gapTotal, unproven, answer>>
        PROVE  BestInv'
    <3>1. L \in Top
      BY <2>1, <2>2 DEF Top
    <3>2. rows' = Top
      <4>1. \A K \in Solutions : Progress(K) = Progress(L) <=> K \in Top
        BY <3>1, <2>1, <1>3, TopIsFullest
      <4>2. Top \subseteq Solutions
        BY <2>1, <1>3, TopIsFullest
      <4> QED
        BY <4>1, <4>2, <2>1, <2>2
    <3> QED
      BY <2>1, <2>2, <3>1, <3>2, <1>1, <1>3 DEF BestInv, Fresh, Settled, Solved
  <2> QED
    BY <2>2, <1>2, <1>8 DEF Fulfil
<1>9. CASE FewestGaps
  <2>1. /\ UNCHANGED <<vars, request, rows, answer>>
        /\ stage = "gaps" /\ stage' = "moves" /\ answer # "plan" /\ RequestFits
        /\ unproven = {} /\ gapTotal = -1
        /\ ViasWhole => rows = Top /\ found \in Top
    BY <1>9, <1>3 DEF FewestGaps, PlanInv, Solved, Fresh, Settled
  <2>2. ASSUME ViasWhole PROVE GapsSettled(gapTotal', found', unproven')
    <3>1. \A K \in Top : Gaps(K) \in Nat
      BY <2>1, <1>3, TopIsFullest, KeepsRelabels, ObjectivesAreNumbers
    <3>2. CASE /\ Priced /\ found' \in Top /\ gapTotal' = Gaps(found')
               /\ unproven' = {} => \A K \in Top : Gaps(found') <= Gaps(K)
      <4>1. gapTotal' # -1
        BY <3>1, <3>2
      <4> QED
        BY <3>2, <4>1 DEF GapsSettled, Within
    <3>3. CASE ~Priced /\ found' = found /\ UNCHANGED <<gapTotal, unproven>>
      BY <2>1, <2>2, <3>3 DEF GapsSettled, Within
    <3> QED
      BY <2>1, <2>2, <3>2, <3>3, <1>9 DEF FewestGaps, Priced, Least, Solved, FellBack
  <2> QED
    BY <2>1, <2>2, <1>1 DEF BestInv, Fresh, Settled
<1>10. CASE FewestMoves
  <2>1. /\ UNCHANGED <<vars, request, gapTotal, unproven, answer>>
        /\ stage = "moves" /\ stage' = "distance" /\ answer # "plan"
    BY <1>10 DEF FewestMoves, PlanInv, Solved
  <2>2. PICK L \in Least(Candidates, Moves) :
          found' = L /\ rows' = {K \in rows : Moves(K) = Moves(L)}
    BY <1>10 DEF FewestMoves, Solved
  <2>3. ASSUME ViasWhole
        PROVE  /\ rows' = {K \in Top : Moves(K) = Moves(L)}
               /\ GapsSettled(gapTotal, L, unproven)
               /\ MovesSettled(gapTotal, L)
    <3>1. rows = Top /\ GapsSettled(gapTotal, found, unproven)
      BY <2>1, <2>3, <1>3 DEF Settled
    <3>2. Candidates = {K \in Top : Within(gapTotal, K)}
      BY <3>1 DEF Candidates, Within
    <3>3. L \in Candidates /\ \A K \in Candidates : Moves(L) <= Moves(K)
      BY <2>2 DEF Least
    <3> QED
      BY <2>2, <3>1, <3>2, <3>3 DEF GapsSettled, MovesSettled
  <2> QED
    BY <2>1, <2>2, <2>3, <1>1 DEF BestInv, Fresh, Settled
<1>11. CASE DirectDistance
  <2>1. /\ UNCHANGED <<vars, request, rows, gapTotal, answer>>
        /\ stage = "distance" /\ stage' = "refine" /\ DirectOnly
        /\ answer # "plan" /\ RequestFits /\ Keeps(found) /\ Turnover = {}
    BY <1>11 DEF DirectDistance, PlanInv, Solved
  <2>2. ASSUME ViasWhole
        PROVE  Refinable(rows', found') /\ IsBest(found', unproven')
    <3> DEFINE flows == {K \in Flows : Moves(K) = Progress(found)}
    <3>1. /\ rows = {K \in Top : Moves(K) = Moves(found)} /\ found \in Top
      BY <2>1, <2>2, <1>3 DEF Settled, GapsSettled
    <3>2. Progress(found) = Moves(found)
      BY <2>1, <1>3, ProgressIsMoves
    <3>3. /\ found' \in flows
          /\ unproven' = {} => found' \in Least(flows, Length)
      <4>1. Mended(found, NewGaps(found)) \in flows
        BY <2>1, <3>2, <1>3, UncutIsAFlow
      <4> QED
        BY <4>1, <1>11 DEF DirectDistance, Solved, FellBack, Mended, Least
    <3>4. IsBest(found', unproven')
      BY <2>1, <3>1, <3>3, <1>3, DirectIsBest DEF IsBest
    <3>5. found' \in Solutions /\ Keeps(found') /\ NewGaps(found') = {}
      BY <2>1, <2>2, <3>3, <1>3, FlowIsASolution, SolutionsKeep DEF Flows
    <3>6. Progress(found') = Progress(found)
      BY <2>1, <3>3, <3>5, <1>3, ProgressIsMoves
    <3>7. found' \in rows
      BY <2>1, <3>1, <3>2, <3>3, <3>5, <3>6, <1>3, TopIsFullest
    <3> QED
      BY <2>1, <3>4, <3>5, <3>7 DEF Refinable
  <2> QED
    BY <2>1, <2>2, <1>1 DEF BestInv, Fresh, Settled
<1>12. CASE SharedDistance
  <2>1. /\ UNCHANGED <<vars, request>> /\ stage = "distance" /\ ~DirectOnly
        /\ answer # "plan" /\ RequestFits
    BY <1>12 DEF SharedDistance, PlanInv
  <2>2. ASSUME ViasWhole
        PROVE  /\ rows = {K \in Top : Moves(K) = Moves(found)}
               /\ GapsSettled(gapTotal, found, unproven)
               /\ MovesSettled(gapTotal, found)
               /\ found \in rows
               /\ Candidates = {K \in rows : Within(gapTotal, K)}
               /\ \A K \in rows : Fullest(K)
               /\ \A L \in rows : Refinable(rows, L)
    <3>1. /\ rows = {K \in Top : Moves(K) = Moves(found)}
          /\ GapsSettled(gapTotal, found, unproven)
          /\ MovesSettled(gapTotal, found)
      BY <2>1, <2>2, <1>3 DEF Settled
    <3>2. Candidates = {K \in rows : Within(gapTotal, K)}
      BY DEF Candidates, Within
    <3>3. \A L \in rows : Refinable(rows, L)
      BY <2>1, <3>1 DEF Refinable
    <3> QED
      BY <2>1, <3>1, <3>2, <3>3, <1>3, TopIsFullest DEF GapsSettled
  <2>3. ASSUME NEW L \in Least(Candidates, Cost), Solved(L, "ties"),
               rows' = {K \in rows : Cost(K) = Cost(L)},
               UNCHANGED <<gapTotal, unproven, answer>>
        PROVE  BestInv'
    <3>1. ASSUME ViasWhole
          PROVE  /\ rows' = {K \in Top : Moves(K) = Moves(L) /\ Cost(K) = Cost(L)}
                 /\ GapsSettled(gapTotal, L, unproven)
                 /\ MovesSettled(gapTotal, L)
                 /\ CostSettled(gapTotal, L)
      <4>1. L \in Candidates /\ \A K \in Candidates : Cost(L) <= Cost(K)
        BY <2>3 DEF Least
      <4>2. L \in Top /\ Within(gapTotal, L) /\ Moves(L) = Moves(found)
        BY <4>1, <2>2, <3>1
      <4>3. \A K \in Top : Within(gapTotal, K) /\ Moves(K) = Moves(L) => K \in Candidates
        BY <4>2, <2>2, <3>1
      <4> QED
        BY <2>2, <2>3, <3>1, <4>1, <4>2, <4>3 DEF GapsSettled, MovesSettled, CostSettled
    <3> QED
      BY <2>1, <2>3, <3>1, <1>1 DEF BestInv, Fresh, Settled, Solved
  <2>4. ASSUME NEW L \in rows \cup {found}, Solved(L, "refine"), FellBack("distance"),
               UNCHANGED <<rows, gapTotal, answer>>
        PROVE  BestInv'
    <3>1. unproven' # {} /\ stage' = "refine" /\ found' = L
      BY <2>4 DEF FellBack, Solved
    <3>2. ViasWhole => Refinable(rows', L) /\ IsBest(L, unproven')
      BY <2>2, <2>4, <3>1 DEF IsBest
    <3> QED
      BY <2>1, <2>4, <3>1, <3>2, <1>1 DEF BestInv, Fresh, Settled
  <2> QED
    BY <2>3, <2>4, <1>2, <1>12 DEF SharedDistance, Candidates
<1>13. CASE Ties
  <2>1. /\ UNCHANGED <<vars, request, rows, gapTotal, answer>>
        /\ stage = "ties" /\ stage' = "refine" /\ answer # "plan" /\ RequestFits
    BY <1>13 DEF Ties, PlanInv, Solved
  <2>2. ASSUME ViasWhole
        PROVE  Refinable(rows', found') /\ IsBest(found', unproven')
    <3>1. /\ ~DirectOnly
          /\ rows = {K \in Top : Moves(K) = Moves(found) /\ Cost(K) = Cost(found)}
          /\ GapsSettled(gapTotal, found, unproven)
          /\ MovesSettled(gapTotal, found)
          /\ CostSettled(gapTotal, found)
      BY <2>1, <2>2, <1>3 DEF Settled
    <3>2. Candidates = {K \in rows : Within(gapTotal, K)}
      BY DEF Candidates, Within
    <3>3. /\ found' \in Candidates
          /\ unproven' = {} =>
               /\ unproven = {}
               /\ request.policy # "MIN_GAPS" => found' \in Least(Candidates, Gaps)
      BY <1>13 DEF Ties, Solved, FellBack, Least
    <3>4. /\ found' \in Top /\ found' \in rows /\ Within(gapTotal, found')
          /\ Moves(found') = Moves(found) /\ Cost(found') = Cost(found)
      BY <3>1, <3>2, <3>3
    <3>5. Refinable(rows', found')
      BY <2>1, <3>1, <3>4 DEF Refinable
    <3>6. Fullest(found')
      BY <2>1, <3>4, <1>3, TopIsFullest
    <3>7. ASSUME unproven' = {} PROVE Unbeaten(found')
      <4>1. GapsSettled(gapTotal, found', {})
        BY <3>1, <3>3, <3>4, <3>7 DEF GapsSettled
      <4>2. MovesSettled(gapTotal, found') /\ CostSettled(gapTotal, found')
        BY <3>1, <3>4 DEF MovesSettled, CostSettled
      <4>3. ASSUME request.policy # "MIN_GAPS",
                   NEW K \in Top, Moves(K) = Moves(found'), Cost(K) = Cost(found')
            PROVE  Gaps(found') <= Gaps(K)
        <5>1. gapTotal = -1
          BY <3>1, <4>3 DEF GapsSettled, Priced
        <5>2. K \in Candidates
          BY <3>1, <3>2, <3>4, <4>3, <5>1 DEF Within
        <5> QED
          BY <3>3, <3>7, <4>3, <5>2 DEF Least
      <4> QED
        BY <2>1, <4>1, <4>2, <4>3, <1>3, TiesAreBest
    <3> QED
      BY <3>5, <3>6, <3>7 DEF IsBest
  <2> QED
    BY <2>1, <2>2, <1>1 DEF BestInv, Fresh, Settled
<1>14. CASE Refine
  <2>1. /\ UNCHANGED <<vars, request>> /\ stage = "refine" /\ answer # "plan"
        /\ RequestFits /\ Keeps(found) /\ \A K \in rows : Keeps(K)
    BY <1>14 DEF Refine, PlanInv
  <2>2. ASSUME ViasWhole PROVE Refinable(rows, found) /\ IsBest(found, unproven)
    BY <2>1, <2>2, <1>3 DEF Settled
  <2>3. ASSUME stage' = "finish", UNCHANGED answer, ViasWhole => IsBest(found', unproven')
        PROVE  BestInv'
    BY <2>1, <2>3, <1>1 DEF BestInv, Fresh, Settled
  <2>4. CASE found' = found /\ stage' = "finish" /\ UNCHANGED <<unproven, answer>>
    BY <2>2, <2>3, <2>4
  <2>5. CASE found' = found /\ stage' = "finish" /\ FellBack("refine") /\ UNCHANGED answer
    <3>1. unproven' # {}
      BY <2>5 DEF FellBack
    <3> QED
      BY <2>2, <2>3, <2>5, <3>1 DEF IsBest
  <2>6. ASSUME DirectOnly, NEW L \in Least(SameMoves, Gaps), Solved(L, "finish"),
               UNCHANGED <<unproven, answer>>
        PROVE  BestInv'
    <3>1. ASSUME ViasWhole PROVE L = found
      <4>1. found \in SameMoves /\ NewGaps(found) = {}
        BY <2>2, <2>6, <3>1 DEF SameMoves, Refinable
      <4>2. /\ L \in rows /\ Gaps(L) <= Gaps(found)
            /\ \A x \in Movers(L) \cup Movers(found) : L[x] = found[x]
        BY <2>6, <4>1 DEF Least, SameMoves
      <4>3. NewGaps(L) = {}
        <5>1. NewGaps(L) \in SUBSET Refdes /\ Gaps(L) = Cardinality(NewGaps(L))
          BY DEF NewGaps, Gaps
        <5>2. Gaps(found) = 0
          BY <4>1, FS_EmptySet DEF Gaps
        <5>3. IsFiniteSet(NewGaps(L)) /\ Cardinality(NewGaps(L)) = 0
          BY <4>2, <5>1, <5>2, DecapsAreCounted
        <5> QED
          BY <5>3, FS_EmptySet
      <4> QED
        BY <2>1, <4>1, <4>2, <4>3, <1>3, UncutIsTheSame
    <3> QED
      BY <2>2, <2>3, <2>6, <3>1 DEF Solved
  <2>7. ASSUME ~DirectOnly, request.policy = "MIN_GAPS",
               NEW L \in Least(SameMoves, Gaps), NEW K \in SameGaps(L),
               Cost(K) <= Cost(L), Solved(K, "finish"),
               UNCHANGED unproven \/ FellBack("refine"), UNCHANGED answer
        PROVE  BestInv'
    <3>1. ASSUME ViasWhole PROVE IsBest(K, unproven')
      <4>1. /\ found \in rows /\ found \in SameMoves
            /\ \A M \in rows : M \in Top /\ Moves(M) = Moves(found)
        BY <2>2, <2>7, <3>1 DEF SameMoves, Refinable
      <4>2. /\ L \in rows /\ Gaps(L) <= Gaps(found)
            /\ \A x \in Movers(L) \cup Movers(found) : L[x] = found[x]
        BY <2>7, <4>1 DEF Least, SameMoves
      <4>3. K \in rows /\ Gaps(K) <= Gaps(found)
        BY <2>7, <4>2 DEF SameGaps, Gaps
      <4>4. Keeps(K) /\ Keeps(L) /\ Relabels(L) /\ Relabels(found)
        BY <2>1, <4>2, <4>3, KeepsRelabels
      <4>5. Cost(L) = Cost(found)
        <5>1. Movers(L) = Movers(found)
          BY <4>2 DEF Movers
        <5>2. Length(L) = Length(found)
          BY <4>2, <4>4, <5>1, <1>3, SameMovesSameLength
        <5> QED
          BY <2>1, <2>7, <4>4, <5>2, <1>3, CostIsNotLess
      <4>6. Progress(K) = Progress(found) /\ Moves(K) = Moves(found)
        BY <2>1, <4>1, <4>3, <1>3, TopIsFullest
      <4>7. /\ Fullest(found) => Fullest(K)
            /\ Unbeaten(found) => Unbeaten(K)
        BY <2>1, <2>7, <4>3, <4>4, <4>5, <4>6, <1>3, NoWorse
      <4>8. unproven' = {} => unproven = {}
        BY <2>7 DEF FellBack
      <4> QED
        BY <2>2, <3>1, <4>7, <4>8 DEF IsBest
    <3> QED
      BY <2>3, <2>7, <3>1 DEF Solved
  <2>8. ASSUME ~DirectOnly, request.policy = "MIN_GAPS",
               NEW L \in Least(SameMoves, Gaps), NEW K \in Least(SameGaps(L), Cost),
               Solved(K, "finish"), UNCHANGED <<unproven, answer>>
        PROVE  BestInv'
    <3>1. K \in SameGaps(L) /\ Cost(K) <= Cost(L)
      BY <2>8 DEF Least, SameGaps, SameMoves
    <3> QED
      BY <2>7, <2>8, <3>1
  <2> QED
    BY <2>4, <2>5, <2>6, <2>7, <2>8, <1>2, <1>14 DEF Refine, Solved
<1>15. CASE Finish
  <2>1. UNCHANGED <<vars, request>> /\ stage = "finish" /\ answer # "plan"
        /\ RequestFits /\ Keeps(found)
    BY <1>15 DEF Finish, PlanInv
  <2>2. ASSUME NEW L \in {found, Pruned(found)},
               stage' = "answered", answer' = "plan", found' = L, gapTotal' = -1,
               UNCHANGED unproven
        PROVE  BestInv'
    <3>1. ViasWhole => IsBest(L, unproven)
      BY <2>1, <2>2, <1>3, PrunedIsBest DEF Settled
    <3> QED
      BY <2>1, <2>2, <3>1, <1>1 DEF BestInv, Fresh, Settled
  <2> QED
    BY <2>2, <1>2, <1>15 DEF Finish
<1>16. ASSUME stage = "answered", Rest, UNCHANGED gapTotal PROVE BestInv'
  BY <1>16, <1>3 DEF Rest, BestInv, Fresh, Settled
<1>17. CASE Apply
  BY <1>17, <1>16 DEF Apply
<1>18. CASE Discard
  BY <1>18, <1>16 DEF Discard
<1>19. CASE Edit
  <2>1. stage = "idle" /\ UNCHANGED <<stage, gapTotal, unproven, answer>> /\ answer # "plan"
    BY <1>19 DEF Edit, solveVars, PlanInv
  <2> QED
    BY <2>1, <1>3 DEF BestInv, Fresh, Settled
<1>20. CASE UNCHANGED planVars
  <2>1. UNCHANGED <<vars, request, stage, rows, gapTotal, found, unproven, answer>>
    BY <1>20 DEF planVars, solveVars
  <2>2. Fresh'
    BY <2>1, <1>3 DEF Fresh
  <2>3. ViasWhole => Settled'
    BY <2>1, <1>1, <1>3 DEF Settled
  <2> QED
    BY <2>1, <2>2, <2>3, <1>1 DEF BestInv
<1> QED
  BY <1>4, <1>5, <1>6, <1>7, <1>8, <1>9, <1>10, <1>11, <1>12, <1>13, <1>14, <1>15,
     <1>17, <1>18, <1>19, <1>20 DEF PlanNext

\* No edit that keeps the table, leaves every PWR via all of its pads or none, and is
\* taken fills more of the receivers than a plan, and if no stage fell back none of
\* these comes before it in the order of its policy (docs/DECAP_DISTRIBUTION_RULES.md,
\* 7), on a board where no edit has put back only some of the pads over a PWR via.
\* Edits that cut some of the pads over a via are not compared with.
THEOREM PlansAreBest == PlanSpec => []PlanIsBest
<1>1. PlanInit => Ready /\ BestInv
  BY DEF PlanInit, Ready, AlwaysAPlan, Solving, BestInv, Fresh, Settled
<1>2. ASSUME PlanInv, BestInv PROVE PlanIsBest
  <2> SUFFICES ASSUME answer = "plan", ViasWhole, NEW L \in Alternatives,
                      Better(L), ViaRows(L), \A c \in TableCells : KeepsTable(L, c),
                      Takes(L)
               PROVE  FALSE
    BY DEF PlanIsBest
  <2>1. /\ EditsInv /\ RequestFits /\ Keeps(found) /\ IsBest(found, unproven)
    BY <1>2 DEF PlanInv, BestInv, Settled
  <2>2. L \in Solutions /\ Keeps(L)
    BY <2>1, TakenIsASolution, SolutionsKeep
  <2>3. Progress(L) <= Progress(found)
    BY <2>1, <2>2 DEF IsBest, Fullest
  <2>4. Progress(L) \in Int /\ Progress(found) \in Int
    BY <2>1, <2>2, KeepsRelabels, ObjectivesAreNumbers
  <2>5. unproven = {} /\ Precedes(Rank(L), Rank(found))
    BY <2>3, <2>4 DEF Better
  <2>6. Progress(L) = Progress(found) /\ Before(L, found)
    BY <2>1, <2>2, <2>3, <2>5, RanksMean
  <2> QED
    BY <2>1, <2>2, <2>5, <2>6 DEF IsBest, Unbeaten
<1> QED
  BY <1>1, <1>2, StepKeepsReady, StepKeepsBest, PlanInvariant, PTL DEF PlanSpec
=============================================================================
