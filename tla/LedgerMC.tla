----------------------------- MODULE LedgerMC -----------------------------
(* A small instance of Ledger for TLC: the scores of the agreed file.      *)
EXTENDS Ledger

Table == [capture_cop |-> 20, capture_thief |-> 5, survival_cop |-> 5,
          survival_thief |-> 10, tie_score |-> 2, technical_loss |-> 0]

Counts == [g \in Group |-> IF g = "home" THEN 3 ELSE 1]
=============================================================================
