------------------------------- MODULE Scent -------------------------------
(***************************************************************************)
(* The trail a peer must send with every turn (domain/smell), and how the  *)
(* other peer reads a position out of it (strategy/decode): the peak of    *)
(* the field, checked against the signed start, one step per turn and the  *)
(* public walls, and a tracker that stops believing a field that keeps     *)
(* contradicting them.                                                     *)
(*                                                                         *)
(* Intensities are whole units; a cell the code's dictionary does not hold *)
(* reads zero.  The falloff is the linear one and the decay subtractive,   *)
(* the modes the league plays.                                             *)
(***************************************************************************)
EXTENDS Board

CONSTANTS
    Half,     \* smell_grid_size \div 2
    Slope,    \* what a deposit loses from one ring to the next
    Decay     \* decay_per_step

\* intensity / (half + 1) is the slope, and a deposit that outlives the decay
\* of its own turn: the ranges of the agreement do not demand the second.
ASSUME ScentAssumption ==
    /\ Half \in Nat /\ Slope \in Nat \ {0} /\ Decay \in Nat \ {0}
    /\ Decay < Slope * (Half + 1)

Emit == Slope * (Half + 1)

Field == [Cell -> 0 .. Emit]

NoScent == [c \in Cell |-> 0]

Ring(c, x) ==
    LET rows == Gap(c[1], x[1])
        cols == Gap(c[2], x[2])
    IN  IF rows >= cols THEN rows ELSE cols

\* The window laid around `center`.
Emission(center) ==
    [x \in Cell |-> IF Ring(center, x) <= Half THEN Emit - Slope * Ring(center, x) ELSE 0]

Louder(f, g) == [c \in Cell |-> IF f[c] >= g[c] THEN f[c] ELSE g[c]]

\* Mutated form of Deposit: intensities add up instead of merging.
PileUp(field, center) ==
    [c \in Cell |-> IF field[c] + Emission(center)[c] <= Emit
                    THEN field[c] + Emission(center)[c] ELSE Emit]

Deposit(field, center) == Louder(field, Emission(center))

\* Mutated form of Absorb: the received field is added to the known one.
AbsorbTwice(field, received) ==
    [c \in Cell |-> IF field[c] = 0 THEN received[c] ELSE Emit]

Absorb(field, received) == Louder(field, received)

DecayAll(field) == [c \in Cell |-> IF field[c] >= Decay THEN field[c] - Decay ELSE 0]

-----------------------------------------------------------------------------
EarlierCell(c, x) == c[1] < x[1] \/ (c[1] = x[1] /\ c[2] < x[2])

\* The hottest cell, the first of equals; none in a field without scent.
PeakCell(field) ==
    {c \in Cell : /\ field[c] > 0
                  /\ \A x \in Cell \ {c} : \/ field[x] < field[c]
                                           \/ field[x] = field[c] /\ EarlierCell(c, x)}

\* Mutated form of WithinOneStep: standing still is not a step.
MustHaveMoved(cell, origin, walls) == cell \in Neighbors(origin, walls)

WithinOneStep(cell, origin, walls) == cell = origin \/ cell \in Neighbors(origin, walls)

\* What one reading says; `previous` is where the opponent was last tracked,
\* or its signed start.
DecodePosition(field, walls, previous) ==
    LET peak == PeakCell(field)
    IN  [cell    |-> peak,
         trusted |-> \A c \in peak : c \notin walls /\ WithinOneStep(c, previous, walls)]

StrikesToLatch == 2
StrikesToClear == 2

\* The tracked cell is the signed start until a field has been accepted.
FreshTracker(start) == [cell |-> start, trusted |-> TRUE, strikes |-> 0, clean |-> 0]

Contradiction(t) ==
    LET struck == [t EXCEPT !.strikes = @ + 1, !.clean = 0]
    IN  IF struck.strikes >= StrikesToLatch THEN [struck EXCEPT !.trusted = FALSE] ELSE struck

Credit(t) ==
    LET counted == [t EXCEPT !.clean = @ + 1]
    IN  IF t.trusted THEN [t EXCEPT !.strikes = 0]
        ELSE IF counted.clean >= StrikesToClear
             THEN [counted EXCEPT !.trusted = TRUE, !.strikes = 0]
             ELSE counted

\* update: a refused reading does not move the tracked cell, an accepted one
\* does even while the field is distrusted.
Update(t, decoded) ==
    IF ~decoded.trusted THEN Contradiction(t)
    ELSE Credit(IF decoded.cell = {} THEN t
                ELSE [t EXCEPT !.cell = CHOOSE c \in decoded.cell : TRUE])

\* Whether the belief may take the shape of the field at face value.
IsAccepted(t, decoded) == decoded.trusted /\ decoded.cell # {} /\ Update(t, decoded).trusted
=============================================================================
