--------------------------- MODULE MC_ScenarioEdits ---------------------------
(* ScenarioEdits for TLC, over boards of four decaps: a row of pads that can  *)
(* be cut, a via under two of its pads, one GND via under two of them, the    *)
(* same board under an older analysis, a board of every other kind of decap   *)
(* and one that has not been analyzed.  Rails r1 and r3 are of one net.       *)
EXTENDS ScenarioEdits, TLC

CONSTANTS a, b, c, d, r1, r2, r3, n1, n2, m1, v1, v2, v3, g1, g2, g3, k1

MCRefdes == {a, b, c, d}
MCRails == {r1, r2, r3}
MCNets == {n1, n2}
MCModels == {m1}
MCVias == {v1, v2, v3, g1, g2, g3}
MCClusters == {k1}

NetOf == r1 :> n1 @@ r2 :> n2 @@ r3 :> n1

Source ==
  [x \in MCRefdes |->
     [rail |-> r1, model |-> IF x = a THEN m1 ELSE NoModel,
      enabled |-> x \in {a, d}, gap |-> FALSE]]

At(f) == [x \in MCRefdes |-> IF x \in DOMAIN f THEN f[x] ELSE {}]

Rail(f) == [v \in MCVias |-> IF v \in DOMAIN f THEN f[v] ELSE {}]

Row == {{a, b}, {b, c}}
LongRow == Row \cup {{c, d}}

\* a - b - c, with vias under a and c, and d on vias of its own.
Cut ==
  [analyzed |-> TRUE, oneGround |-> FALSE, net |-> NetOf,
   kind |-> a :> "SHARED_ANCHOR" @@ b :> "SHARED_DUMMY" @@ c :> "SHARED_ANCHOR"
            @@ d :> "DIRECT",
   cluster |-> a :> k1 @@ b :> k1 @@ c :> k1 @@ d :> NoCluster,
   powerEdges |-> Row, groundEdges |-> Row,
   powerVias |-> At(a :> {v1} @@ c :> {v2} @@ d :> {v3}),
   groundVias |-> At(a :> {g1} @@ c :> {g2} @@ d :> {g3}),
   viaRails |-> Rail(v1 :> {r1, r2, r3} @@ v2 :> {r1, r2}),
   ownRails |-> At(d :> {r1, r2}),
   gapCells |-> {a, b}, fits |-> {<<m1, a>>}, source |-> Source]

\* a - b - c - d, with one PWR via under a and c and one under d.
Shares ==
  [Cut EXCEPT
     !.kind[b] = "SHARED_DUMMY", !.kind[d] = "SHARED_ANCHOR",
     !.cluster[d] = k1,
     !.powerEdges = LongRow, !.groundEdges = {{a, b}},
     !.powerVias = At(a :> {v1} @@ c :> {v1} @@ d :> {v2}),
     !.gapCells = {b, c}]

\* Cut with one GND via under a and c; cutting b leaves it under two islands.
Grounded ==
  [Cut EXCEPT !.groundVias = At(a :> {g1} @@ c :> {g1} @@ d :> {g3})]

Older == [Grounded EXCEPT !.oneGround = TRUE]

\* A pair, a decap nothing can be said of and one without vias.
Mixed ==
  [Cut EXCEPT
     !.kind = a :> "SHARED_ANCHOR" @@ b :> "SHARED_ANCHOR" @@ c :> "FLOATING_DUMMY"
              @@ d :> "UNRESOLVED",
     !.cluster = a :> k1 @@ b :> k1 @@ c :> NoCluster @@ d :> NoCluster,
     !.powerEdges = {{a, b}}, !.groundEdges = {},
     !.powerVias = At(a :> {v1}),
     !.groundVias = At(b :> {g1}),
     !.gapCells = {a, b}]

Unread ==
  [Cut EXCEPT
     !.analyzed = FALSE,
     !.kind = [x \in MCRefdes |-> "DIRECT"],
     !.cluster = [x \in MCRefdes |-> NoCluster],
     !.powerEdges = {}, !.groundEdges = {},
     !.powerVias = At(<<>>), !.groundVias = At(<<>>), !.gapCells = {},
     !.ownRails = [x \in MCRefdes |-> {r1}]]

MCBoards == {Cut, Shares, Grounded, Older, Mixed, Unread}
=============================================================================
