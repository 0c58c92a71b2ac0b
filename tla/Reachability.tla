---------------------------- MODULE Reachability ----------------------------
(***************************************************************************)
(* The graph quantities the tactics are built on (strategy/reachability):  *)
(* true distances, connected regions and what a belief expects of them.    *)
(*                                                                         *)
(* A belief is a function from cells to weights (parts of Whole).  Every   *)
(* expectation is a Ratio <<numerator, denominator>>, so that comparing    *)
(* two of them is exact.                                                   *)
(***************************************************************************)
EXTENDS OwnState, FiniteSetsExt

Whole == 10000    \* a probability of one

CellCount == Size * Size

Ratio(n, d) == <<n, d>>

AtLeast(a, b) == a[1] * b[2] >= b[1] * a[2]

WeightOf(belief, cells) == MapThenSumSet(LAMBDA c : belief[c], cells)

\* Breadth first: what is new after k rounds is k steps away.
DistanceMap(origin, walls) ==
    LET spread[k \in 0 .. CellCount] ==
            IF k = 0 THEN [c \in {origin} \ walls |-> 0]
            ELSE LET known == spread[k - 1]
                     edge == {c \in DOMAIN known : known[c] = k - 1}
                     new == (UNION {Neighbors(c, walls) : c \in edge}) \ DOMAIN known
                 IN  [c \in DOMAIN known \cup new |->
                         IF c \in new THEN k ELSE known[c]]
    IN  spread[CellCount]

\* distances.get(cell, unreachable)
StepsTo(distances, c, unreachable) ==
    IF c \in DOMAIN distances THEN distances[c] ELSE unreachable

RegionSize(origin, walls) == Cardinality(Reachable(origin, walls))

\* The room the believed opponent has left; nothing when every cell it might
\* be on is sealed, the whole board when nothing is believed.
ExpectedRegion(belief, walls) ==
    LET open == {c \in Cell \ walls : belief[c] > 0}
    IN  IF \A c \in Cell : belief[c] = 0 THEN Ratio(CellCount, 1)
        ELSE IF open = {} THEN Ratio(0, 1)
        ELSE Ratio(MapThenSumSet(LAMBDA c : belief[c] * RegionSize(c, walls), open),
                   WeightOf(belief, open))

ExpectedDistance(distances, belief) ==
    LET believed == {c \in Cell : belief[c] > 0}
    IN  IF believed = {} THEN Ratio(CellCount, 1)
        ELSE Ratio(MapThenSumSet(
                       LAMBDA c : belief[c] * StepsTo(distances, c, CellCount), believed),
                   WeightOf(belief, believed))

Exits(c, walls) == Cardinality(Neighbors(c, walls))

\* Would sealing c split what surrounds it?
IsCutVertex(c, walls) ==
    LET around == Neighbors(c, walls)
    IN  /\ c \notin walls
        /\ \E a \in around : ~(around \subseteq Reachable(a, walls \cup {c}))
=============================================================================
