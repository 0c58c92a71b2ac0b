------------------------------- MODULE Brains -------------------------------
(***************************************************************************)
(* What each brain may decide: the decision methods of strategy/*_brain,   *)
(* safe_thief, pincher_police and baselines.  A brain is a set of choices, *)
(* because the floating-point positional score and the random tie-breaks   *)
(* only order moves the rules below already allow.                         *)
(*                                                                         *)
(* s is the brain's own OwnState, `belief` its weights on the opponent.    *)
(***************************************************************************)
EXTENDS Barriers, Pursuit

CONSTANT SafetyHorizon    \* pursuit.DEFAULT_HORIZON, or the tuned safety_horizon

ASSUME HorizonAssumption == SafetyHorizon \in Nat \ {0}

SealConfidence == 5000
CaptureConfidence == 1800
PinchConfidence == 1200
VetoConfidence == 5000
ThreatFloor == 200
MaxThreats == 12
PinchExits == 3

Choice(move, dir, cell) == [move |-> move, dir |-> dir, cell |-> cell]

Before(c, x) == c[1] < x[1] \/ (c[1] = x[1] /\ c[2] < x[2])

\* Cells in the order of BeliefGrid.top_cells: hottest first, then cell order.
Hotter(belief, c, x) == belief[c] > belief[x] \/ (belief[c] = belief[x] /\ Before(c, x))

MostLikely(belief) == CHOOSE c \in Cell : \A x \in Cell \ {c} : Hotter(belief, c, x)

TopCells(belief, count) ==
    {c \in Cell : Cardinality({x \in Cell : Hotter(belief, x, c)}) < count}

\* Every step open to a piece, with its target.
LegalMoves(s) == {Choice("MOVE", d, Toward(s.at, d)) :
                     d \in {e \in Moves : StepFrom(s.at, e, s.walls) # {}}}

\* candidate_moves: standing still included.
CandidateMoves(s) ==
    LegalMoves(s) \cup (IF CanStay THEN {Choice("HOLD", "-", s.at)} ELSE {})

SealedInHold(s) == Choice("HOLD", "-", s.at)

-----------------------------------------------------------------------------
(* The thieves.                                                            *)

\* Farthest from the believed officer.
GreedyThief(s, belief) ==
    LET gap(m) == Distance(m.cell, MostLikely(belief))
    IN  IF LegalMoves(s) = {} THEN {SealedInHold(s)}
        ELSE {m \in LegalMoves(s) : \A o \in LegalMoves(s) : gap(o) <= gap(m)}

\* Any move but those that end within a step of an officer it is sure of; all
\* of them when nothing else is left.
OpenSpaceThief(s, belief) ==
    LET threat == MostLikely(belief)
        reach == DistanceMap(threat, s.walls)
        kept == IF belief[threat] < VetoConfidence THEN {}
                ELSE {m \in LegalMoves(s) : StepsTo(reach, m.cell, CellCount) >= 2}
    IN  IF LegalMoves(s) = {} THEN {SealedInHold(s)}
        ELSE IF kept = {} THEN LegalMoves(s) ELSE kept

\* One table per wall set the game can reach, one wall ahead included.
Solved == [walls \in {w \in SUBSET Cell : Cardinality(w) <= BarriersMax + 1} |->
              Solve(walls, SafetyHorizon)]

\* Everywhere the officer plausibly is.
Threats(belief) ==
    LET support == {c \in TopCells(belief, MaxThreats) : belief[c] >= ThreatFloor}
    IN  IF support = {} THEN {MostLikely(belief)} ELSE support

Horizon(stepsLeft) ==
    LET remaining == IF stepsLeft < 1 THEN 1 ELSE stepsLeft
    IN  IF remaining < SafetyHorizon THEN remaining ELSE SafetyHorizon

\* Plies survived against one officer and the wall it might build at once.
Against(s, target, officer, depth) ==
    LET base == PliesAfterMove(Solved[s.walls], target, officer, depth)
        buildable == Neighbors(officer, s.walls)
        built(w) == PliesAfterMove(Solved[s.walls \cup {w}], target, officer, depth)
    IN  IF BarriersMax <= Cardinality(s.walls) \/ base = 0 THEN base
        ELSE IF target = officer \/ target \in buildable THEN 0
        ELSE Min({base} \cup {built(w) : w \in buildable})

\* Mutated form of Safety: room is looked at before danger.
RoomBeforeSafety(s, belief, target, stepsLeft) ==
    LET plies == [o \in Threats(belief) |-> Against(s, target, o, Horizon(stepsLeft))]
    IN  <<Exits(target, s.walls), Min({plies[o] : o \in Threats(belief)}), 0, 0>>

\* The tuple a destination is ranked by: the worst case, the exits once that
\* is as deep as was solved, how many officers it survives, and their sum.
Safety(s, belief, target, stepsLeft) ==
    LET depth == Horizon(stepsLeft)
        plies == [o \in Threats(belief) |-> Against(s, target, o, depth)]
        worst == Min({plies[o] : o \in Threats(belief)})
    IN  <<worst,
          IF worst >= depth THEN Exits(target, s.walls) ELSE 0,
          Cardinality({o \in Threats(belief) : plies[o] > 0}),
          MapThenSumSet(LAMBDA o : plies[o], Threats(belief))>>

\* Python's order on tuples.
SafeAs(a, b) ==
    \/ a = b
    \/ \E i \in 1 .. 4 : a[i] > b[i] /\ \A j \in 1 .. i - 1 : a[j] = b[j]

\* Every option with its rank.
Ranked(s, belief, stepsLeft) ==
    {<<Safety(s, belief, m.cell, stepsLeft), m>> : m \in CandidateMoves(s)}

SafeThief(s, belief, stepsLeft) ==
    LET ranked == Ranked(s, belief, stepsLeft)
        moves == {r[2] : r \in {x \in ranked : \A y \in ranked : SafeAs(x[1], y[1])}}
    IN  IF ranked = {} THEN {SealedInHold(s)} ELSE moves

-----------------------------------------------------------------------------
(* The officers.                                                           *)

WallsLeft(s) == IF s.built >= BarriersMax THEN 0 ELSE BarriersMax - s.built

\* Seal the neighbouring cell the thief is almost surely standing on.
AdjacentSeal(s, belief) ==
    {Choice("BARRIER", m.dir, m.cell) :
        m \in {x \in LegalMoves(s) : /\ s.built < BarriersMax
                                     /\ x.cell = MostLikely(belief)
                                     /\ belief[x.cell] >= SealConfidence}}

\* Step onto the hottest neighbour when it is hot enough; the last of equals.
CaptureShot(s, belief) ==
    {m \in LegalMoves(s) :
        /\ belief[m.cell] >= CaptureConfidence
        /\ \A o \in LegalMoves(s) \ {m} :
              \/ belief[o.cell] < belief[m.cell]
              \/ belief[o.cell] = belief[m.cell] /\ Before(o.cell, m.cell)}

\* Walls worth their turn.
StructuralWalls(s, belief, stepsLeft) ==
    LET total == s.step + (IF stepsLeft < 1 THEN 1 ELSE stepsLeft)
        distance == ExpectedDistance(DistanceMap(s.at, s.walls), belief)
        plans == {p \in PlanBarrier(s.at, s.walls, belief) :
                     ShouldSpend(p, WallsLeft(s), stepsLeft, total, distance)}
    IN  {Choice("BARRIER", m.dir, m.cell) :
            m \in {x \in LegalMoves(s) : \E p \in plans : p.cell = x.cell}}

\* Viable walls on an exit of a cramped cell the thief is credibly on, as long
\* as the reserve is untouched.
PinchWalls(s, belief) ==
    LET quarry == MostLikely(belief)
        exits == Neighbors(quarry, s.walls)
        worth(c) == \E p \in EvaluateWall(s.at, s.walls, belief, c) : p.viable
    IN  IF \/ WallsLeft(s) <= BarrierReserve
           \/ belief[quarry] < PinchConfidence
           \/ Cardinality(exits) > PinchExits THEN {}
        ELSE {Choice("BARRIER", m.dir, m.cell) :
                 m \in {x \in LegalMoves(s) : x.cell \in exits \ {quarry} /\ worth(x.cell)}}

\* The order of ArchitectPolice._decide_move: seal, strike, build, walk.
Officer(s, belief, walls) ==
    IF AdjacentSeal(s, belief) # {} THEN AdjacentSeal(s, belief)
    ELSE IF CaptureShot(s, belief) # {} THEN CaptureShot(s, belief)
    ELSE IF WallsLeft(s) > 0 /\ walls # {} THEN walls
    ELSE IF LegalMoves(s) = {} THEN {SealedInHold(s)}
    ELSE LegalMoves(s)

ArchitectPolice(s, belief, stepsLeft) == Officer(s, belief, StructuralWalls(s, belief, stepsLeft))

PincherPolice(s, belief, stepsLeft) ==
    Officer(s, belief,
            IF PinchWalls(s, belief) # {} THEN PinchWalls(s, belief)
            ELSE StructuralWalls(s, belief, stepsLeft))

\* Mutated form of GreedyPolice: it goes on walling when the quota is spent.
GreedyWaller(s, belief) ==
    LET step == {m \in LegalMoves(s) : \A o \in LegalMoves(s) :
                     Distance(m.cell, MostLikely(belief)) <= Distance(o.cell, MostLikely(belief))}
    IN  IF LegalMoves(s) = {} THEN {SealedInHold(s)}
        ELSE step \cup {Choice("BARRIER", m.dir, m.cell) : m \in step}

\* Straight at the peak; sometimes a wall where it would have stepped.
GreedyPolice(s, belief) ==
    LET gap(m) == Distance(m.cell, MostLikely(belief))
        nearest(m) == \A o \in LegalMoves(s) \ {m} :
                         gap(m) < gap(o) \/ (gap(m) = gap(o) /\ Before(m.cell, o.cell))
        step == {m \in LegalMoves(s) : nearest(m)}
    IN  IF LegalMoves(s) = {} THEN {SealedInHold(s)}
        ELSE step \cup (IF s.built >= BarriersMax THEN {}
                        ELSE {Choice("BARRIER", m.dir, m.cell) : m \in step})
=============================================================================
