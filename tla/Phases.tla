------------------------------- MODULE Phases -------------------------------
(***************************************************************************)
(* The turn state machine of one peer: which phase may follow which.  A    *)
(* move the table does not list raises PhaseError in the code; a caller    *)
(* here asks for a whole path of phases and must find every edge in it.    *)
(***************************************************************************)
EXTENDS Naturals, Sequences

Phase == {"WAITING", "COMPUTING", "COMMITTING", "AWAITING_REVEAL", "VERIFYING",
          "AUDITING", "GAME_OVER", "TECHNICAL_LOSS"}

Terminal == {"GAME_OVER", "TECHNICAL_LOSS"}

\* Mutated form of Transitions: no edge for a move of our own that ends the game.
NoOwnEnding ==
    [WAITING         |-> {"COMPUTING", "AUDITING", "TECHNICAL_LOSS"},
     COMPUTING       |-> {"COMMITTING", "TECHNICAL_LOSS"},
     COMMITTING      |-> {"AWAITING_REVEAL", "TECHNICAL_LOSS"},
     AWAITING_REVEAL |-> {"VERIFYING", "AUDITING", "TECHNICAL_LOSS"},
     VERIFYING       |-> {"WAITING", "AUDITING", "TECHNICAL_LOSS"},
     AUDITING        |-> {"GAME_OVER", "TECHNICAL_LOSS"},
     GAME_OVER       |-> {},
     TECHNICAL_LOSS  |-> {}]

Transitions ==
    [WAITING         |-> {"COMPUTING", "AUDITING", "TECHNICAL_LOSS"},
     COMPUTING       |-> {"COMMITTING", "TECHNICAL_LOSS"},
     COMMITTING      |-> {"AWAITING_REVEAL", "AUDITING", "TECHNICAL_LOSS"},
     AWAITING_REVEAL |-> {"VERIFYING", "AUDITING", "TECHNICAL_LOSS"},
     VERIFYING       |-> {"WAITING", "AUDITING", "TECHNICAL_LOSS"},
     AUDITING        |-> {"GAME_OVER", "TECHNICAL_LOSS"},
     GAME_OVER       |-> {},
     TECHNICAL_LOSS  |-> {}]

Can(from, to) == to \in Transitions[from]

\* to(path[1]); to(path[2]); ... raises nowhere.
LegalPath(from, path) ==
    \A i \in 1 .. Len(path) : Can(IF i = 1 THEN from ELSE path[i - 1], path[i])

PathEnd(from, path) == IF path = <<>> THEN from ELSE path[Len(path)]

\* fail(): the emergency exit, a no-op once finished.
Failed(from) == IF from \in Terminal THEN from ELSE "TECHNICAL_LOSS"
=============================================================================
