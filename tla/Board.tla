------------------------------- MODULE Board -------------------------------
(***************************************************************************)
(* Geometry of the chase: an N x N grid, the step directions the two teams *)
(* agreed on, and what a set of sealed cells does to both.  Nothing here   *)
(* is state: who stands where belongs to OwnState and SubGame.             *)
(*                                                                         *)
(* "Maybe a cell" (None in the code) is a set of at most one cell.         *)
(***************************************************************************)
EXTENDS Integers, FiniteSets

CONSTANTS
    Size,      \* board.size: the grid is Size x Size
    MoveSet    \* the agreed rules.move_set, a set of tokens

Direction == {"N", "NE", "E", "SE", "S", "SW", "W", "NW"}

Orthogonal == {"N", "S", "E", "W"}

StayToken == {"STAY", "HOLD"}

ASSUME BoardAssumption == Size \in Nat /\ Size >= 2

\* The agreed step directions: unknown tokens are dropped, and a set with no
\* direction in it falls back to the four orthogonals.
Moves == IF MoveSet \cap Direction = {} THEN Orthogonal ELSE MoveSet \cap Direction

Cell == (0 .. Size - 1) \X (0 .. Size - 1)

\* Rows grow southwards, columns eastwards.
RowDelta(d) == CASE d \in {"N", "NE", "NW"} -> -1
                 [] d \in {"S", "SE", "SW"} -> 1
                 [] OTHER -> 0

ColDelta(d) == CASE d \in {"E", "NE", "SE"} -> 1
                 [] d \in {"W", "NW", "SW"} -> -1
                 [] OTHER -> 0

Toward(c, d) == <<c[1] + RowDelta(d), c[2] + ColDelta(d)>>

\* Mutated form of StepFrom: the bounds check is missing.
StepOffBoard(c, d, walls) == IF d \in Moves THEN {Toward(c, d)} \ walls ELSE {}

\* Where one step leads: nowhere when the direction was not agreed, leaves
\* the board, or runs into a sealed cell.
StepFrom(c, d, walls) ==
    IF d \in Moves THEN {Toward(c, d)} \cap (Cell \ walls) ELSE {}

Neighbors(c, walls) == UNION {StepFrom(c, d, walls) : d \in Moves}

Diagonal == \E d \in Moves : RowDelta(d) # 0 /\ ColDelta(d) # 0

Gap(x, y) == IF x >= y THEN x - y ELSE y - x

\* Steps needed on an empty board: Chebyshev with diagonals, else Manhattan.
Distance(a, b) ==
    LET rows == Gap(a[1], b[1])
        cols == Gap(a[2], b[2])
    IN  IF ~Diagonal THEN rows + cols
        ELSE IF rows >= cols THEN rows ELSE cols

\* The flood fill after k rounds of the frontier.
Flood(c, walls) ==
    LET fill[k \in Nat] ==
            IF k = 0 THEN {c} \ walls
            ELSE LET seen == fill[k - 1]
                 IN  seen \cup UNION {Neighbors(x, walls) : x \in seen}
    IN  fill

\* Cells within `limit` steps of c, and the whole connected region.
ReachableWithin(c, walls, limit) == Flood(c, walls)[limit]

Reachable(c, walls) == ReachableWithin(c, walls, Size * Size)

\* Walking distance around the walls; -1 stands for the code's None (a sealed
\* end, or no way round).
PathLength(origin, target, walls) ==
    LET within(k) == target \in ReachableWithin(origin, walls, k)
        hits == {k \in 0 .. Size * Size : within(k)}
    IN  IF origin = target THEN 0
        ELSE IF hits = {} THEN -1
        ELSE CHOOSE k \in hits : \A j \in hits : k <= j
-----------------------------------------------------------------------------
(* What some theorems ask of the agreed move set.                          *)

Opposite == [N |-> "S", S |-> "N", E |-> "W", W |-> "E",
             NE |-> "SW", SW |-> "NE", NW |-> "SE", SE |-> "NW"]

\* Every step can be taken back.
Reversible == \A d \in Moves : Opposite[d] \in Moves
=============================================================================
