------------------------------ MODULE Scoring ------------------------------
(***************************************************************************)
(* League scoring (domain/scoring): an outcome and the roles give the      *)
(* points of a sub-game, all sub-games together the result of a series.    *)
(***************************************************************************)
EXTENDS Integers, FiniteSets, FiniteSetsExt

CONSTANT Points    \* the scoring table of the agreed file

ASSUME ScoringAssumption ==
    Points \in [{"capture_cop", "capture_thief", "survival_cop", "survival_thief",
                 "tie_score", "technical_loss"} -> Nat]

NoGroup == "none"

\* What each group earns; roles says which role each played.
ScoreSubGame(result, roles) ==
    [g \in DOMAIN roles |->
        CASE result = "capture" ->
                Points[IF roles[g] = "police" THEN "capture_cop" ELSE "capture_thief"]
          [] result = "survival" ->
                Points[IF roles[g] = "police" THEN "survival_cop" ELSE "survival_thief"]
          [] OTHER -> Points["technical_loss"]]

\* The group that has more than everybody else, if there is one.
Leader(score) ==
    LET ahead == {g \in DOMAIN score : \A h \in DOMAIN score \ {g} : score[g] > score[h]}
    IN  IF ahead = {} THEN NoGroup ELSE CHOOSE g \in ahead : TRUE

\* The result of a series between two groups, scores being one score a
\* sub-game.  Level totals are a tie that both are credited for.
Aggregate(groups, scores) ==
    LET sum(g)    == MapThenSumSet(LAMBDA n : scores[n][g], DOMAIN scores)
        totals    == [g \in groups |-> sum(g)]
        level     == Leader(totals) = NoGroup
    IN  [total_score   |-> [g \in groups |->
                              totals[g] + (IF level THEN Points["tie_score"] ELSE 0)],
         sub_games_won |-> [g \in groups |->
                              Cardinality({n \in DOMAIN scores : Leader(scores[n]) = g})],
         ties          |-> Cardinality({n \in DOMAIN scores : Leader(scores[n]) = NoGroup}),
         winner_group  |-> Leader(totals)]
=============================================================================
