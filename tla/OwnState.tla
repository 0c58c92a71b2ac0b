------------------------------ MODULE OwnState ------------------------------
(***************************************************************************)
(* One peer's private truth (OwnGameState) and the end-of-game conditions  *)
(* each peer evaluates on it (GameRules), as operators on a record:        *)
(*                                                                         *)
(*   at     its own cell                                                   *)
(*   walls  its own barriers and every barrier the opponent declared       *)
(*   built  how many of them it built itself                               *)
(*   step   its step counter                                               *)
(*   last   the cell sealed by the newest log entry, as a set of <= 1 cell *)
(***************************************************************************)
EXTENDS Board

CONSTANTS
    BarriersMax,         \* rules.barriers_max
    SurvivalThreshold    \* rules.survival_threshold

ASSUME RulesAssumption ==
    /\ BarriersMax \in Nat
    /\ SurvivalThreshold \in Nat \ {0}

\* Whether the agreed move set permits standing still; no move set does.
CanStay == MoveSet = {} \/ MoveSet \cap StayToken # {}

Role == {"thief", "police"}

Opponent(r) == IF r = "thief" THEN "police" ELSE "thief"

State == [at : Cell, walls : SUBSET Cell, built : Nat, step : Nat, last : SUBSET Cell]

FreshState(start) == [at |-> start, walls |-> {}, built |-> 0, step |-> 0, last |-> {}]

\* What a brain may ask for; "-" is a missing direction.
Decision == [move : {"MOVE", "BARRIER", "HOLD"}, dir : Direction \cup {"-"}]

\* Mutated form of WallTarget: the quota is not checked.
WallWithoutQuota(r, s, d) ==
    IF r # "police" THEN {}
    ELSE (IF d.dir = "-" THEN {s.at} ELSE StepFrom(s.at, d.dir, s.walls)) \ s.walls

\* The cell a BARRIER decision would seal, if the rules let it.
WallTarget(r, s, d) ==
    IF r # "police" \/ s.built >= BarriersMax THEN {}
    ELSE (IF d.dir = "-" THEN {s.at} ELSE StepFrom(s.at, d.dir, s.walls)) \ s.walls

IsLegal(r, s, d) ==
    CASE d.move = "MOVE"    -> StepFrom(s.at, d.dir, s.walls) # {}
      [] d.move = "BARRIER" -> WallTarget(r, s, d) # {}
      [] d.move = "HOLD"    -> CanStay

\* Mutated form of ApplyMove: standing still is not counted as a step.
HoldIsNotAStep(r, s, d) ==
    IF ~IsLegal(r, s, d) \/ d.move = "HOLD" THEN s
    ELSE LET wall == IF d.move = "BARRIER" THEN WallTarget(r, s, d) ELSE {}
         IN  [at    |-> IF d.move = "MOVE" THEN Toward(s.at, d.dir) ELSE s.at,
              walls |-> s.walls \cup wall,
              built |-> s.built + (IF wall = {} THEN 0 ELSE 1),
              step  |-> s.step + 1,
              last  |-> wall]

\* apply_move: an illegal action changes nothing, a legal one is counted and
\* logged.
ApplyMove(r, s, d) ==
    IF ~IsLegal(r, s, d) THEN s
    ELSE LET wall == IF d.move = "BARRIER" THEN WallTarget(r, s, d) ELSE {}
         IN  [at    |-> IF d.move = "MOVE" THEN Toward(s.at, d.dir) ELSE s.at,
              walls |-> s.walls \cup wall,
              built |-> s.built + (IF wall = {} THEN 0 ELSE 1),
              step  |-> s.step + 1,
              last  |-> wall]

Hold == [move |-> "HOLD", dir |-> "-"]

\* Mutated form of NoteBarrier: the declaration is not recorded.
ForgetBarrier(s, wall) == s

\* A barrier the opponent declared is impassable for both.
NoteBarrier(s, wall) == [s EXCEPT !.walls = @ \cup wall]

IsImmobilised(s) == Neighbors(s.at, s.walls) = {}

\* Mutated form of IsSealedIn: rule 46 only, an immobilised thief plays on.
OnSealedCell(r, s) == r = "thief" /\ s.at \in s.walls

\* Rules 46 and 47: taken by a wall rather than by a step.
IsSealedIn(r, s) == r = "thief" /\ (s.at \in s.walls \/ IsImmobilised(s))

ThiefSurvives(r, s) == r = "thief" /\ s.step >= SurvivalThreshold

\* Mutated form of IsCaptured: only the rows are compared.
SameRow(s, claim) == \E c \in claim : c[1] = s.at[1]

IsCaptured(s, claim) == s.at \in claim
=============================================================================
