------------------------------- MODULE Belief -------------------------------
(***************************************************************************)
(* What a peer holds possible (domain/belief): the set of cells its        *)
(* probability grid gives a weight.  Every update multiplies weights, so   *)
(* what an update does to the set is decided by which factors are zero;    *)
(* the code's 1e-12 cut on vanishing weights is not modelled.              *)
(*                                                                         *)
(* Words reach the belief as a named region (domain/hint_parser) and an    *)
(* estimate of the speaker's honesty (domain/trust), in thousandths.       *)
(***************************************************************************)
EXTENDS OwnState, Sequences

CONSTANT Landmarks    \* the agreed places: a function from names to cells

ASSUME LandmarksAssumption == \A name \in DOMAIN Landmarks : Landmarks[name] \in Cell

SmellTrust == 4

\* Mutated form of Normalise: a belief may come out empty.
NoFallback(support) == support

\* Everything ruled out: back to ignorance.
Normalise(support) == IF support = {} THEN Cell ELSE support

\* The opponent moved, or stayed, along what is open to it.
Predict(support, walls) ==
    LET next(c) == Neighbors(c, walls)
                   \cup (IF CanStay \/ Neighbors(c, walls) = {} THEN {c} ELSE {})
    IN  Normalise(UNION {next(c) : c \in support \ walls})

\* The gentle weighting: the factor is 1 + w * intensity.
ObserveSmell(support, field) == {c \in support : 1 + SmellTrust * field[c] > 0}

\* The sharp weighting: (intensity / peak) ** 16, zero where nothing is read.
ObserveScentPeak(support, field) ==
    IF \A c \in Cell : field[c] = 0 THEN support
    ELSE Normalise({c \in support : field[c] > 0})

ExcludeAll(support, cells) == Normalise(support \ cells)

\* collapse_to: most of the weight on one cell, some on every other.
Collapse == Cell

-----------------------------------------------------------------------------
TrustFloor == 50
TrustCeiling == 950

\* Mutated form of Clamped: a known liar is never right.
Certain(raw) == raw

\* The posterior mean, never certain about a stranger.
Clamped(raw) ==
    IF raw < TrustFloor THEN TrustFloor ELSE IF raw > TrustCeiling THEN TrustCeiling ELSE raw

\* What a denial makes of it.
ClaimTrust(raw, negated) == IF negated THEN 1000 - Clamped(raw) ELSE Clamped(raw)

\* A claimed region is weighed by 2 * trust, the rest of the board by what is
\* left to 2 or an epsilon; at one half nothing moves.
ObserveRegion(support, region, trust) ==
    IF region = {} \/ trust = 500 THEN support
    ELSE Normalise({c \in support : c \in region => 2 * trust > 0})

-----------------------------------------------------------------------------
Span == IF Size \div 4 >= 1 THEN Size \div 4 ELSE 1

Centre == {c \in Cell : /\ Gap(2 * c[1], Size - 1) <= 2 * Span
                        /\ Gap(2 * c[2], Size - 1) <= 2 * Span}

Edge == {c \in Cell : c[1] \in {0, Size - 1} \/ c[2] \in {0, Size - 1}}

Disc(centre, radius) == {c \in Cell : Distance(c, centre) <= radius}

Corners ==
    LET radius == (IF Size \div 3 >= 1 THEN Size \div 3 ELSE 1) - 1
    IN  UNION {Disc(k, radius) : k \in {0, Size - 1} \X {0, Size - 1}}

\* The half a bearing points into, the middle band excluded.
HalfBoard(d) ==
    {c \in Cell : RowDelta(d) * (2 * c[1] - Size + 1) + ColDelta(d) * (2 * c[2] - Size + 1) > 0}

\* The i-th word of a hint: a bearing straight after a verb of travel names a
\* heading, not a place.
Named(text, i) ==
    (IF text[i] \in DOMAIN Landmarks THEN Disc(Landmarks[text[i]], 1) ELSE {})
    \cup CASE text[i] = "centre" -> Centre
           [] text[i] = "corner" -> Corners
           [] text[i] = "edge"   -> Edge
           [] text[i] \in Orthogonal ->
                 IF i > 1 /\ text[i - 1] = "moved" THEN {} ELSE HalfBoard(text[i])
           [] OTHER -> {}

ParseHint(text) ==
    [cells   |-> UNION {Named(text, i) : i \in DOMAIN text},
     negated |-> \E i \in DOMAIN text : text[i] = "not"]
=============================================================================
