------------------------------- MODULE Arena -------------------------------
(***************************************************************************)
(* One benchmark sub-game between two brains (scripts/arena.py, play and   *)
(* _exchange), which the code requires to be the game the live peers play. *)
(* Each side keeps its own truth; the thief decides on the officer's       *)
(* declared cell, the officer on the decoded scent.                        *)
(***************************************************************************)
EXTENDS Brains

CONSTANTS
    Brain,        \* [Role -> the brains that may play it]
    Starts        \* the opening pairs [Role -> Cell]

ASSUME ArenaAssumption ==
    /\ Brain["thief"] \subseteq {"safe", "openspace", "greedythief"}
    /\ Brain["police"] \subseteq {"architect", "pincher", "greedy", "stranger"}
    /\ \A start \in Starts : start["thief"] \in Cell /\ start["police"] \in Cell

VARIABLES
    brain,       \* who plays each role
    own,         \* each side's OwnState
    sighting,    \* the cell the thief's belief is collapsed to
    turn,        \* whose turn it is
    verdict,     \* "open", "capture" or "survival"
    how,         \* how it ended
    promised,    \* plies the safe thief was proved on its last move
    due,         \* of them, officer turns still to come on an unchanging board
    slipped      \* whether a brain ever chose an illegal action

vars == <<brain, own, sighting, turn, verdict, how, promised, due, slipped>>

thief == own["thief"]
police == own["police"]

StepsLeft == IF thief.step >= SurvivalThreshold THEN 0 ELSE SurvivalThreshold - thief.step

Init ==
    /\ brain \in [Role -> Brain["thief"] \cup Brain["police"]]
    /\ \A r \in Role : brain[r] \in Brain[r]
    /\ \E start \in Starts :
          /\ own = [r \in Role |-> FreshState(start[r])]
          /\ sighting = start["police"]
    /\ turn = "thief"
    /\ verdict = "open"
    /\ how = "-"
    /\ promised = 0
    /\ due = 0
    /\ slipped = FALSE

\* collapse_to: almost everything on one cell, dust everywhere else.
Collapsed(c) == [x \in Cell |-> IF x = c THEN 9700 ELSE 300 \div (CellCount - 1)]

Uniform == [x \in Cell |-> Whole \div CellCount]

\* What the sharpened scent update leaves: most of the mass on the peak, the
\* rest on a cell beside it, nothing on the reader's own cell or in a wall, and
\* ignorance again when that rules everything out.
Decoded(peak, beside, s) ==
    LET raw == [x \in Cell |-> IF peak = beside /\ x = peak THEN Whole
                               ELSE IF x = peak THEN 8800
                               ELSE IF x = beside THEN 1200 ELSE 0]
        kept == [x \in Cell |-> IF x = s.at \/ x \in s.walls THEN 0 ELSE raw[x]]
        total == WeightOf(kept, Cell)
    IN  IF total = 0 THEN Uniform ELSE [x \in Cell |-> (Whole * kept[x]) \div total]

OfficerBeliefs ==
    {Decoded(thief.at, b, police) : b \in {thief.at} \cup Neighbors(thief.at, thief.walls)}

\* An opponent that is none of our brains: anything the rules allow it.
AnyLegal(s) ==
    LegalMoves(s) \cup {Choice("HOLD", "-", s.at)}
    \cup (IF s.built >= BarriersMax THEN {}
          ELSE {Choice("BARRIER", m.dir, m.cell) : m \in LegalMoves(s)}
               \cup (IF s.at \in s.walls THEN {} ELSE {Choice("BARRIER", "-", s.at)}))

ThiefChoices ==
    CASE brain["thief"] = "safe"        -> SafeThief(thief, Collapsed(sighting), StepsLeft)
      [] brain["thief"] = "openspace"   -> OpenSpaceThief(thief, Collapsed(sighting))
      [] brain["thief"] = "greedythief" -> GreedyThief(thief, Collapsed(sighting))

OfficerChoices(belief) ==
    CASE brain["police"] = "architect" -> ArchitectPolice(police, belief, StepsLeft)
      [] brain["police"] = "pincher"   -> PincherPolice(police, belief, StepsLeft)
      [] brain["police"] = "greedy"    -> GreedyPolice(police, belief)
      [] brain["police"] = "stranger"  -> AnyLegal(police)

\* apply_move, and a hold in place of an illegal action.
Act(r, m) ==
    LET d == [move |-> m.move, dir |-> m.dir]
    IN  IF IsLegal(r, own[r], d) THEN ApplyMove(r, own[r], d) ELSE ApplyMove(r, own[r], Hold)

Slip(r, m) == slipped' = (slipped \/ ~IsLegal(r, own[r], [move |-> m.move, dir |-> m.dir]))

Ends(result, why) == verdict' = result /\ how' = why

ThiefIsEnclosed ==
    /\ verdict = "open" /\ turn = "thief"
    /\ IsImmobilised(thief)
    /\ Ends("capture", "enclosure")
    /\ UNCHANGED <<brain, own, sighting, turn, promised, due, slipped>>

ThiefPlays ==
    /\ verdict = "open" /\ turn = "thief"
    /\ ~IsImmobilised(thief)
    /\ \E m \in ThiefChoices :
          LET mine == Act("thief", m)
              worst == IF brain["thief"] # "safe" THEN 0
                       ELSE Safety(thief, Collapsed(sighting), m.cell, StepsLeft)[1]
          IN  /\ Slip("thief", m)
              /\ own' = [own EXCEPT !["thief"] = mine]
              /\ promised' = worst
              /\ due' = IF Cardinality(thief.walls) < BarriersMax THEN 0 ELSE Max({due, worst})
              /\ IF ThiefSurvives("thief", mine) THEN Ends("survival", "clock")
                 ELSE UNCHANGED <<verdict, how>>
    /\ turn' = "police"
    /\ UNCHANGED <<brain, sighting>>

OfficerPlays ==
    /\ verdict = "open" /\ turn = "police"
    /\ \E belief \in OfficerBeliefs : \E m \in OfficerChoices(belief) :
          LET mine == Act("police", m)
          IN  /\ Slip("police", m)
              /\ own' = [own EXCEPT !["police"] = mine,
                                    !["thief"] = NoteBarrier(thief, mine.last)]
              /\ sighting' = mine.at
              /\ IF thief.at \in mine.last THEN Ends("capture", "sealed")
                 ELSE IF thief.at = mine.at THEN Ends("capture", "stepped")
                 ELSE UNCHANGED <<verdict, how>>
    /\ due' = IF due = 0 THEN 0 ELSE due - 1
    /\ turn' = "thief"
    /\ UNCHANGED <<brain, promised>>

Next == ThiefIsEnclosed \/ ThiefPlays \/ OfficerPlays

Spec == Init /\ [][Next]_vars
-----------------------------------------------------------------------------
(* Properties.                                                             *)

\* Types, and both private wall sets are the officer's walls.
TypeOK ==
    /\ own \in [Role -> State]
    /\ sighting \in Cell
    /\ turn \in Role
    /\ verdict \in {"open", "capture", "survival"}
    /\ promised \in 0 .. SafetyHorizon /\ due \in 0 .. SafetyHorizon
    /\ slipped \in {TRUE, FALSE}
    /\ thief.walls = police.walls

\* No brain ever asks for an action its own rules refuse.
BrainsActLegally == ~slipped

\* What the officer standing at `officer` can do to a thief at c in one turn:
\* step on it, seal it, or seal its last exit.
InReach(c, officer, walls) ==
    \/ c \in Options(officer, walls)
    \/ Neighbors(c, walls) = {}
    \/ /\ Cardinality(walls) < BarriersMax
       /\ \E w \in Neighbors(officer, walls) : Neighbors(c, walls \cup {w}) = {}

\* The guarantee of SafeThief._safety: a destination worth at least one ply
\* is not taken by whatever the officer does next.  An officer that has sealed
\* its own cell is left out: the solver has no row for one that stands in a wall.
GuaranteeHolds ==
    (turn = "thief" /\ promised >= 1 /\ police.at \notin police.walls)
        => verdict # "capture" /\ ~IsImmobilised(thief)

\* The solver is exact on a board that no longer changes: a thief that follows
\* it is not caught before the plies it was promised have been played.
PromiseKept == verdict = "capture" => due = 0

\* The wall vetoes: an officer of ours that reads the scent never walls itself
\* away from the thief.
NeverWalledApart ==
    (brain["police"] \in {"architect", "pincher"} /\ verdict = "open")
        => thief.at \in Reachable(police.at, police.walls)

\* A safe thief that knows where the officer stands ends within its reach only
\* when every destination is.  (The solver has no row for an officer standing
\* inside a wall of its own.)
NoNeedlessRisk ==
    [][(turn = "thief" /\ turn' = "police" /\ brain["thief"] = "safe"
            /\ police.at \notin police.walls
            /\ InReach(own'["thief"].at, police.at, police.walls))
        => \A m \in CandidateMoves(thief) : InReach(m.cell, police.at, police.walls)]_vars

\* The refereed chase, read off this state: the officer's declaration is what
\* its last turn put on the wire, and a capture on the officer's own turn is
\* one the chase decides on the thief's next.
Refereed == INSTANCE Chase WITH
    Start   <- CHOOSE start \in Starts : TRUE,
    turn    <- IF how = "enclosure" THEN "police" ELSE turn,
    thief   <- thief.at,
    police  <- police.at,
    walls   <- police.walls,
    claim   <- IF police.step = 0 THEN {}
               ELSE IF police.last # {} THEN police.last ELSE {police.at},
    clock   <- thief.step + (IF how = "enclosure" THEN 1 ELSE 0),
    verdict <- IF how \in {"sealed", "stepped"} THEN "open" ELSE verdict

\* The benchmark plays the game of the live peers: each of its steps is a step
\* of the refereed chase that SubGame implements.
PlaysTheChase == [][Refereed!Next]_(Refereed!board)
=============================================================================
