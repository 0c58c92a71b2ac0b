------------------------------ MODULE Barriers ------------------------------
(***************************************************************************)
(* The officer's wall planner (strategy/barriers): what one wall would     *)
(* buy, the three vetoes, and when to spend it.  Worths and thresholds are *)
(* in thousandths; the weights are the documented defaults.                *)
(***************************************************************************)
EXTENDS Reachability

AnchorBonus == 1200
EdgeAnchor == 250       \* of one wall anchor
CutBonus == 6000
OccupancyBonus == 12000
WallThreshold == 2500
OwnRegionFloor == 4     \* the own region is at least a quarter of the board

CONSTANT BarrierReserve    \* walls held back for the endgame

ASSUME ReserveAssumption == BarrierReserve \in Nat

Thousandths(r) == (1000 * r[1]) \div r[2]

\* How strongly a cell continues an existing structure.
Anchors(c, walls) ==
    LET sides == {Toward(c, d) : d \in Moves}
    IN  1000 * Cardinality(sides \cap walls) + EdgeAnchor * Cardinality(sides \ Cell)

\* The belief mass the officer at `at` can still get to, the sealed cell
\* counted as reached.
ReachableMass(at, walls, belief, c) ==
    WeightOf(belief, DOMAIN DistanceMap(at, walls \cup {c}) \cup {c})

\* Mutated form of Viable: the officer may wall itself away from the thief.
ViableAlone(at, walls, belief, c, before) ==
    /\ AtLeast(before, ExpectedRegion(belief, walls \cup {c, at}))
    /\ OwnRegionFloor * RegionSize(at, walls \cup {c}) >= CellCount

\* The vetoes: never give the thief room, never lose touch with most of the
\* belief, never wall oneself into a pocket.
Viable(at, walls, belief, c, before) ==
    /\ AtLeast(before, ExpectedRegion(belief, walls \cup {c, at}))
    /\ 2 * ReachableMass(at, walls, belief, c) > Whole
    /\ OwnRegionFloor * RegionSize(at, walls \cup {c}) >= CellCount

\* The case for sealing c from `at`, whose room is `before` until then.
Evaluate(at, walls, belief, c, before) ==
    [cell   |-> c,
     viable |-> Viable(at, walls, belief, c, before),
     value  |-> Thousandths(before) - Thousandths(ExpectedRegion(belief, walls \cup {c, at}))
                + (AnchorBonus * Anchors(c, walls)) \div 1000
                + (IF IsCutVertex(c, walls) THEN CutBonus ELSE 0)
                + (OccupancyBonus * belief[c]) \div Whole]

Baseline(at, walls, belief) == ExpectedRegion(belief, walls \cup {at})

\* evaluate_wall: price one named wall; nothing when it is not legal from here.
EvaluateWall(at, walls, belief, c) ==
    IF c \notin Neighbors(at, walls) THEN {}
    ELSE {Evaluate(at, walls, belief, c, Baseline(at, walls, belief))}

\* plan_barrier: the most valuable viable walls; the code takes the first of
\* them in the order of the move set.
PlanBarrier(at, walls, belief) ==
    LET before == Baseline(at, walls, belief)
        plans == {Evaluate(at, walls, belief, c, before) : c \in Neighbors(at, walls)}
        viable == {p \in plans : p.viable}
    IN  {p \in viable : \A q \in viable : q.value <= p.value}

\* Near enough, and worth more than a bar that falls with the clock and is
\* doubled for a raid on the reserve.
ShouldSpend(plan, left, stepsLeft, total, distance) ==
    LET remaining == IF stepsLeft >= total THEN 1000 ELSE (1000 * stepsLeft) \div total
        bar == (WallThreshold * (700 + (700 * remaining) \div 1000)) \div 1000
        early == left <= BarrierReserve /\ remaining > 400
    IN  /\ left > 0 /\ plan.viable
        /\ 10 * distance[1] <= 6 * Size * distance[2]
        /\ plan.value >= (IF early THEN 2 * bar ELSE bar)
=============================================================================
