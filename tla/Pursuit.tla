------------------------------ MODULE Pursuit ------------------------------
(***************************************************************************)
(* The exact pursuit solver (strategy/pursuit): backward induction over    *)
(* the joint (thief, officer) state on a board whose walls do not change.  *)
(* The code keeps one bit mask of officer cells per thief cell; here it is *)
(* one set of pairs.                                                       *)
(***************************************************************************)
EXTENDS OwnState

\* Where one action without a wall can leave a piece.
Options(c, walls) == Neighbors(c, walls) \cup (IF CanStay THEN {c} ELSE {})

\* A layer is the set of pairs <<thief, officer>> the thief survives.
Joint == Cell \X Cell

\* Depth 0: not in one cell, and the thief has a step (rule 47).
Alive(walls) ==
    {p \in Joint : p[1] # p[2] /\ p[1] \notin walls /\ Neighbors(p[1], walls) # {}}

\* Mutated form of OfficerReply: one harmless reply is taken for safety.
SomeReplyIsHarmless(walls, alive) ==
    {p \in Joint : /\ p[1] # p[2] /\ p[1] \notin walls /\ p[2] \notin walls
                   /\ \E c \in Options(p[2], walls) : c # p[1] /\ <<p[1], c>> \in alive}

\* The thief has settled: it is safe where no reply of the officer hurts.
OfficerReply(walls, alive) ==
    {p \in Joint : /\ p[1] # p[2] /\ p[1] \notin walls /\ p[2] \notin walls
                   /\ \A c \in Options(p[2], walls) : c # p[1] /\ <<p[1], c>> \in alive}

\* The thief needs one destination that survives the reply.
ThiefMove(walls, safe) ==
    {p \in Joint : /\ p[1] \notin walls
                   /\ \E c \in Options(p[1], walls) : <<c, p[2]>> \in safe}

\* The layers of depth 0 .. horizon, each built on the one before.
Solve(walls, horizon) ==
    LET layer[d \in 0 .. horizon] ==
            IF d = 0 THEN [masks |-> Alive(walls), replies |-> Alive(walls)]
            ELSE LET reply == OfficerReply(walls, layer[d - 1].masks)
                 IN  [masks |-> ThiefMove(walls, reply), replies |-> reply]
    IN  layer

\* Mutated form of PliesAfterMove: reads the row of a thief that is to move.
PliesBeforeMove(table, target, officer, depth) ==
    LET proved == {d \in 1 .. depth : <<target, officer>> \in table[d].masks}
    IN  IF proved = {} THEN 0 ELSE CHOOSE d \in proved : \A e \in proved : e <= d

\* Having moved to `target`: the plies it is proved to survive, `depth` at most.
PliesAfterMove(table, target, officer, depth) ==
    LET proved == {d \in 1 .. depth : <<target, officer>> \in table[d].replies}
    IN  IF proved = {} THEN 0 ELSE CHOOSE d \in proved : \A e \in proved : e <= d
=============================================================================
