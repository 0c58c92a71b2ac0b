------------------------------ MODULE ArenaMC ------------------------------
(* Small arenas for TLC: every pair of brains, one opening far, one near.    *)
EXTENDS Arena

AllBrains == [r \in Role |->
    IF r = "thief" THEN {"safe", "openspace", "greedythief"}
    ELSE {"architect", "pincher", "greedy", "stranger"}]

Openings == {[r \in Role |-> IF r = "thief" THEN <<2, 2>> ELSE <<0, 0>>],
             [r \in Role |-> IF r = "thief" THEN <<3, 3>> ELSE <<2, 2>>]}
=============================================================================
