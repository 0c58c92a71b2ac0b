------------------------------ MODULE SenseMC ------------------------------
(* Small instances of Sense for TLC.                                       *)
EXTENDS Sense

Starts == [r \in Role |-> IF r = "thief" THEN <<1, 1>> ELSE <<0, 0>>]

Park == [name \in {"park"} |-> <<0, 2>>]

Talk == {<<"moved", "E">>, <<"not", "park">>, <<"N", "corner">>}

Silent == {<<>>}
=============================================================================
