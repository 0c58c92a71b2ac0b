------------------------------- MODULE Chase -------------------------------
(***************************************************************************)
(* What a sub-game promises: the chase as it would be with a referee and   *)
(* one shared board.  Turns alternate, the thief first; a turn is one      *)
(* atomic step; every wall is known at once; the thief's turn decides      *)
(* whether it is taken and whether it has lasted long enough.  No          *)
(* mailboxes, retries, clocks or private views.                            *)
(***************************************************************************)
EXTENDS OwnState

CONSTANT Start

VARIABLES
    turn,      \* whose turn it is
    thief,     \* the thief's cell
    police,    \* the officer's cell
    walls,     \* the sealed cells
    claim,     \* the cell the officer named on its last turn
    clock,     \* turns the thief has taken
    verdict    \* "open", "capture" or "survival"

board == <<turn, thief, police, walls, claim, clock, verdict>>

Init ==
    /\ turn = "thief"
    /\ thief = Start["thief"]
    /\ police = Start["police"]
    /\ walls = {}
    /\ claim = {}
    /\ clock = 0
    /\ verdict = "open"

\* Named by the officer, inside a wall, or with no step left.
Taken == thief \in claim \/ thief \in walls \/ Neighbors(thief, walls) = {}

ThiefRuns ==
    /\ turn = "thief" /\ verdict = "open" /\ ~Taken
    /\ thief' \in {thief} \cup Neighbors(thief, walls)
    /\ clock' = clock + 1
    /\ verdict' = IF clock' >= SurvivalThreshold THEN "survival" ELSE "open"
    /\ turn' = "police"
    /\ UNCHANGED <<police, walls, claim>>

ThiefIsTaken ==
    /\ turn = "thief" /\ verdict = "open" /\ Taken
    /\ verdict' = "capture"
    /\ clock' = clock + 1
    /\ turn' = "police"
    /\ UNCHANGED <<thief, police, walls, claim>>

\* The officer steps, stays or builds, and names a cell.  It may still act
\* once after a capture by enclosure, which nobody has told it about yet.
OfficerActs ==
    /\ turn = "police" /\ verdict # "survival"
    /\ \/ /\ police' \in {police} \cup Neighbors(police, walls)
          /\ claim' = {police'}
          /\ UNCHANGED walls
       \/ /\ Cardinality(walls) < BarriersMax
          /\ \E c \in ({police} \cup Neighbors(police, walls)) \ walls :
                /\ walls' = walls \cup {c}
                /\ claim' = {c}
          /\ UNCHANGED police
    /\ turn' = "thief"
    /\ UNCHANGED <<thief, clock, verdict>>

Next == ThiefRuns \/ ThiefIsTaken \/ OfficerActs

Spec == Init /\ [][Next]_board
=============================================================================
