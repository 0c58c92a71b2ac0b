----------------------------- MODULE SubGameMC -----------------------------
(* Small boards for TLC: opposite corners, and the thief in the middle.    *)
EXTENDS SubGameInv

Corners == [p \in Role |-> IF p = "thief" THEN <<Size - 1, Size - 1>> ELSE <<0, 0>>]
=============================================================================
