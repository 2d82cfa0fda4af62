---------------------------- MODULE MC_Distribution ----------------------------
(* Distribution for TLC, over boards of four decaps: rows of pads with a via     *)
(* under the ends, with one via under two pads and with a GND via under two, a   *)
(* pair of pads beside two decaps, decaps that share no pad and decaps that have *)
(* not been analyzed.  Every pad of a row or a pair can be cut.                  *)
EXTENDS Distribution, TLC

CONSTANTS a, b, c, d, r1, r2, r3, m1, v1, v2, v3, v4, g1, g2, g3, g4, k1

MCRefdes == {a, b, c, d}
MCRails == {r1, r2, r3}
MCNets == MCRails
MCModels == {m1}
MCVias == {v1, v2, v3, v4, g1, g2, g3, g4}
MCClusters == {k1}

Source ==
  [x \in MCRefdes |-> [rail |-> r1, model |-> m1, enabled |-> TRUE, gap |-> FALSE]]

At(f) == [x \in MCRefdes |-> IF x \in DOMAIN f THEN f[x] ELSE {}]

Rail(f) == [v \in MCVias |-> IF v \in DOMAIN f THEN f[v] ELSE {}]

Both == {r1, r2}

\* a - b - c, with vias under a and c, and d on a via of its own.
Row ==
  [analyzed |-> TRUE, oneGround |-> FALSE, net |-> [r \in MCRails |-> r],
   kind |-> a :> "SHARED_ANCHOR" @@ b :> "SHARED_DUMMY" @@ c :> "SHARED_ANCHOR"
            @@ d :> "DIRECT",
   cluster |-> a :> k1 @@ b :> k1 @@ c :> k1 @@ d :> NoCluster,
   powerEdges |-> {{a, b}, {b, c}}, groundEdges |-> {{a, b}, {b, c}},
   powerVias |-> At(a :> {v1} @@ c :> {v2} @@ d :> {v3}),
   groundVias |-> At(a :> {g1} @@ c :> {g2} @@ d :> {g3}),
   viaRails |-> Rail(v1 :> {r1} @@ v2 :> Both),
   ownRails |-> At(d :> {r1, r2, r3}),
   gapCells |-> {a, b, c}, fits |-> {<<m1, x>> : x \in MCRefdes}, source |-> Source]

\* a - b, with a via under each, and two decaps that share no pad on other rails.
Swap ==
  [Row EXCEPT
     !.kind[b] = "SHARED_ANCHOR", !.kind[c] = "DIRECT", !.cluster[c] = NoCluster,
     !.powerEdges = {{a, b}}, !.groundEdges = {{a, b}},
     !.powerVias[b] = {v2}, !.powerVias[c] = {v4}, !.groundVias[b] = {g4},
     !.viaRails = Rail(v1 :> Both @@ v2 :> Both),
     !.ownRails[c] = Both, !.gapCells = {a, b},
     !.source[c].rail = r2, !.source[d].rail = r3]

\* a - b - c - d, with one via under b and c.
Joint ==
  [Row EXCEPT
     !.kind = a :> "SHARED_ANCHOR" @@ b :> "SHARED_ANCHOR" @@ c :> "SHARED_ANCHOR"
              @@ d :> "SHARED_ANCHOR",
     !.cluster[d] = k1,
     !.powerEdges = {{a, b}, {b, c}, {c, d}}, !.groundEdges = {{a, b}, {b, c}, {c, d}},
     !.powerVias = At(a :> {v1} @@ b :> {v2} @@ c :> {v2} @@ d :> {v3}),
     !.viaRails = Rail(v1 :> Both @@ v2 :> {r1, r2, r3} @@ v3 :> {r1, r2}),
     !.gapCells = MCRefdes]

\* Joint with a via of its own under each pad, and one GND via under a and d.
Ground ==
  [Joint EXCEPT
     !.powerVias = At(a :> {v1} @@ b :> {v2} @@ c :> {v4} @@ d :> {v3}),
     !.viaRails = Rail(v1 :> {r1} @@ v2 :> {r1} @@ v4 :> Both @@ v3 :> Both),
     !.groundVias = At(a :> {g1} @@ d :> {g1})]

\* No pad touches another; two of the decaps are on the second rail.
Apart ==
  [Row EXCEPT
     !.kind = [x \in MCRefdes |-> "DIRECT"],
     !.cluster = [x \in MCRefdes |-> NoCluster],
     !.powerEdges = {}, !.groundEdges = {},
     !.powerVias = At(a :> {v1} @@ b :> {v2} @@ c :> {v3} @@ d :> {v4}),
     !.groundVias = At(a :> {g1} @@ b :> {g2} @@ c :> {g3} @@ d :> {g4}),
     !.ownRails = At(a :> Both @@ b :> {r1} @@ c :> {r2, r3} @@ d :> {r1, r2, r3}),
     !.gapCells = {},
     !.source = [x \in MCRefdes |-> [Source[x] EXCEPT !.rail = IF x \in {a, b} THEN r1 ELSE r2]]]

Unread ==
  [Apart EXCEPT
     !.analyzed = FALSE, !.powerVias = At(<<>>), !.groundVias = At(<<>>),
     !.ownRails = [x \in MCRefdes |-> {r1}], !.source = Source]

MCBoards == {Row, Swap, Joint, Ground, Apart, Unread}

MCDistance ==
  [x \in MCRefdes |->
     [r \in MCRails |-> CASE x = a -> 3 [] x = b -> 1 [] x = c -> 2 [] x = d -> 1]]

\* Target counts and tolerances of the rails.
Wanted(t, l, p, n, o) ==
  [targets |-> [x \in {<<r, m1>> : r \in DOMAIN t} |-> t[x[1]]],
   tolerances |-> [x \in {<<r, m1>> : r \in DOMAIN l} |-> l[x[1]]],
   policy |-> p, penalty |-> n, mode |-> o]

MCRequests ==
  {Wanted(r1 :> 2 @@ r2 :> 1, <<>>, "BALANCED", 2, "NEAREST"),
   Wanted(r1 :> 2 @@ r2 :> 1, <<>>, "MIN_GAPS", 0, "FARTHEST"),
   Wanted(r1 :> 1 @@ r2 :> 2, <<>>, "BALANCED", 0, "FARTHEST"),
   Wanted(r1 :> 1 @@ r2 :> 2, <<>>, "MIN_GAPS", 0, "NEAREST"),
   Wanted(r1 :> 1 @@ r2 :> 1, <<>>, "MIN_GAPS", 0, "FARTHEST"),
   Wanted(r3 :> 0, r1 :> 50 @@ r2 :> 100, "MIN_GAPS", 0, "NEAREST"),
   Wanted(r1 :> 1 @@ r2 :> 1, r1 :> 50, "BALANCED", 1, "NEAREST"),
   Wanted(r1 :> 1 @@ r3 :> 1, r2 :> 50, "BALANCED", 1, "NEAREST"),
   Wanted(r1 :> 1 @@ r3 :> 1, r2 :> 50, "MIN_GAPS", 0, "NEAREST"),
   Wanted(r1 :> 3 @@ r2 :> 1, r2 :> 100, "BALANCED", 2, "FARTHEST")}

\* The third rail gets two decaps only if the second, which may give one, takes one of
\* the first.
MCHandOver == {Wanted(r1 :> 1 @@ r2 :> 1 @@ r3 :> 2, r2 :> 50, "BALANCED", 0, "NEAREST")}

MCSelections == {{b}, {a, d}, MCRefdes}
=============================================================================
