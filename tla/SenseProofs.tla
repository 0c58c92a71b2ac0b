---------------------------- MODULE SenseProofs ----------------------------
(***************************************************************************)
(* For every board, falloff and decay of Sense: the field a peer sends     *)
(* peaks on its own cell, the copy the other peer keeps does not pile up,  *)
(* and an honest peer is tracked to the cell.                              *)
(***************************************************************************)
EXTENDS Sense, TLAPS

LEMMA EmitFacts ==
    /\ Emit \in Nat /\ Decay \in Nat /\ Decay > 0 /\ Decay < Emit
    /\ Half \in Nat /\ Slope \in Nat /\ Slope > 0
<1>1. Half \in Nat /\ Slope \in Nat \ {0} /\ Decay \in Nat \ {0} /\ Decay < Slope * (Half + 1)
  BY ScentAssumption
<1>2. Slope * (Half + 1) \in Nat
  BY <1>1
<1> QED
  BY <1>1, <1>2 DEF Emit

LEMMA RingFacts ==
    ASSUME NEW c \in Cell, NEW x \in Cell
    PROVE  /\ Ring(c, x) \in Nat
           /\ Ring(c, c) = 0
           /\ x # c => Ring(c, x) >= 1
<1>1. /\ c[1] \in Int /\ c[2] \in Int /\ x[1] \in Int /\ x[2] \in Int
      /\ c = <<c[1], c[2]>> /\ x = <<x[1], x[2]>>
  BY BoardAssumption DEF Cell
<1>2. Gap(c[1], x[1]) \in Nat /\ Gap(c[2], x[2]) \in Nat
  BY <1>1 DEF Gap
<1>3. x # c => Gap(c[1], x[1]) >= 1 \/ Gap(c[2], x[2]) >= 1
  BY <1>1 DEF Gap
<1>4. Gap(c[1], c[1]) = 0 /\ Gap(c[2], c[2]) = 0
  BY <1>1 DEF Gap
<1> QED
  BY <1>2, <1>3, <1>4 DEF Ring

\* A product of positive integers is positive, and grows with its factors.
LEMMA Products ==
    ASSUME NEW s \in Nat, s > 0, NEW h \in Nat, NEW k \in Nat, k <= h
    PROVE  /\ s * k \in Nat /\ s * (h + 1) \in Nat
           /\ s * k <= s * (h + 1)
           /\ k >= 1 => s * k >= 1
OBVIOUS

\* The window: loudest in the middle.
LEMMA EmissionFacts ==
    ASSUME NEW center \in Cell
    PROVE  /\ Emission(center) \in Field
           /\ Emission(center)[center] = Emit
           /\ \A x \in Cell \ {center} : Emission(center)[x] < Emit
<1>1. ASSUME NEW x \in Cell
      PROVE  /\ Emission(center)[x] \in 0 .. Emit
             /\ x = center => Emission(center)[x] = Emit
             /\ x # center => Emission(center)[x] < Emit
  <2>1. /\ Ring(center, x) \in Nat
        /\ x = center => Ring(center, x) = 0
        /\ x # center => Ring(center, x) >= 1
    BY RingFacts
  <2>2. CASE Ring(center, x) <= Half
    <3>1. Emission(center)[x] = Emit - Slope * Ring(center, x)
      BY <2>2 DEF Emission
    <3> DEFINE k == Ring(center, x)
               p == Slope * k
    <3>2. /\ p \in Nat /\ p <= Emit
          /\ k >= 1 => p >= 1
          /\ k = 0 => p = 0
      BY <2>1, <2>2, EmitFacts, Products DEF Emit
    <3>3. Emission(center)[x] = Emit - p
      BY <3>1
    <3>4. k \in Nat /\ (x = center => k = 0) /\ (x # center => k >= 1)
      BY <2>1
    <3> HIDE DEF k, p
    <3> QED
      BY <3>2, <3>3, <3>4, EmitFacts
  <2>3. CASE ~(Ring(center, x) <= Half)
    <3>1. Emission(center)[x] = 0
      BY <2>3 DEF Emission
    <3>2. x # center
      BY <2>1, <2>3, EmitFacts
    <3> QED
      BY <3>1, <3>2, EmitFacts
  <2> QED
    BY <2>2, <2>3
<1>2. Emission(center) = [x \in Cell |-> Emission(center)[x]]
  BY DEF Emission
<1>3. Emission(center) \in Field
  BY <1>1, <1>2 DEF Field
<1> QED
  BY <1>1, <1>3

LEMMA LouderFacts ==
    ASSUME NEW f \in Field, NEW g \in Field
    PROVE  /\ Louder(f, g) \in Field
           /\ \A c \in Cell : /\ Louder(f, g)[c] >= f[c] /\ Louder(f, g)[c] >= g[c]
                              /\ Louder(f, g)[c] \in {f[c], g[c]}
BY EmitFacts DEF Louder, Field

LEMMA DecayFacts ==
    ASSUME NEW f \in Field
    PROVE  /\ DecayAll(f) \in Field
           /\ \A c \in Cell : /\ f[c] >= Decay => DecayAll(f)[c] = f[c] - Decay
                              /\ f[c] < Decay => DecayAll(f)[c] = 0
BY EmitFacts DEF DecayAll, Field

\* A field that is being sent: no cell is louder than a decayed deposit.
Faded(f) == f \in Field /\ \A c \in Cell : f[c] <= Emit - Decay

PeaksOn(f, at) == f[at] = Emit - Decay /\ \A c \in Cell \ {at} : f[c] < f[at]

LEMMA TrailPeaks ==
    ASSUME NEW f, Faded(f), NEW at \in Cell
    PROVE  /\ Faded(DecayAll(Deposit(f, at)))
           /\ PeaksOn(DecayAll(Deposit(f, at)), at)
<1> DEFINE e == Emission(at)
           m == Louder(f, e)
           g == DecayAll(m)
<1>1. f \in Field /\ \A c \in Cell : f[c] \in Nat /\ f[c] <= Emit - Decay
  BY DEF Faded, Field
<1>2. /\ e \in Field /\ e[at] = Emit
      /\ \A c \in Cell \ {at} : e[c] < Emit
  BY EmissionFacts
<1>3. m \in Field
  BY <1>1, <1>2, LouderFacts
<1>4. /\ \A c \in Cell : m[c] \in Nat /\ m[c] <= Emit
      /\ m[at] = Emit
      /\ \A c \in Cell \ {at} : m[c] < Emit
  <2>1. \A c \in Cell : /\ m[c] >= e[c] /\ m[c] \in {f[c], e[c]}
    BY <1>1, <1>2, LouderFacts
  <2>2. \A c \in Cell : m[c] \in Nat /\ m[c] <= Emit /\ e[c] \in Nat
    BY <1>3, <1>2, EmitFacts DEF Field
  <2> HIDE DEF e, m
  <2> QED
    BY <2>1, <2>2, <1>1, <1>2, EmitFacts
<1>5. g \in Field /\ \A c \in Cell : /\ m[c] >= Decay => g[c] = m[c] - Decay
                                     /\ m[c] < Decay => g[c] = 0
  BY <1>3, DecayFacts
<1>6. Faded(g) /\ PeaksOn(g, at)
  <2> HIDE DEF e, m, g
  <2> QED
    BY <1>4, <1>5, EmitFacts DEF Faded, PeaksOn, Field
<1> QED
  BY <1>6 DEF Deposit

\* The peak of such a field is read as the cell it is on.
LEMMA PeakIsRead ==
    ASSUME NEW f, Faded(f), NEW at \in Cell, PeaksOn(f, at)
    PROVE  PeakCell(f) = {at}
<1>1. /\ \A c \in Cell : f[c] \in Nat
      /\ f[at] > 0
      /\ \A c \in Cell \ {at} : f[c] < f[at]
  BY EmitFacts DEF Faded, PeaksOn, Field
<1>2. at \in PeakCell(f)
  BY <1>1 DEF PeakCell
<1>3. ASSUME NEW c \in PeakCell(f), c # at
      PROVE  FALSE
  <2>1. c \in Cell /\ (f[at] < f[c] \/ f[at] = f[c])
    BY <1>3 DEF PeakCell
  <2> QED
    BY <2>1, <1>1, <1>3
<1> QED
  BY <1>2, <1>3

\* What is sent next is at least what was sent, one decay older.
LEMMA TrailKeepsUp ==
    ASSUME NEW f \in Field, NEW at \in Cell
    PROVE  Louder(DecayAll(f), DecayAll(Deposit(f, at))) = DecayAll(Deposit(f, at))
<1> DEFINE m == Louder(f, Emission(at))
           g == DecayAll(m)
           h == DecayAll(f)
<1>1. Emission(at) \in Field
  BY EmissionFacts
<1>2. m \in Field /\ \A c \in Cell : m[c] >= f[c]
  BY <1>1, LouderFacts
<1>3. /\ g \in Field /\ h \in Field
      /\ \A c \in Cell : /\ f[c] \in Nat /\ m[c] \in Nat
                         /\ m[c] >= Decay => g[c] = m[c] - Decay
                         /\ m[c] < Decay => g[c] = 0
                         /\ f[c] >= Decay => h[c] = f[c] - Decay
                         /\ f[c] < Decay => h[c] = 0
  BY <1>2, DecayFacts, EmitFacts DEF Field
<1>4. \A c \in Cell : g[c] \in Nat /\ h[c] \in Nat /\ g[c] >= h[c]
  <2> HIDE DEF m, g, h
  <2> QED
    BY <1>2, <1>3, EmitFacts DEF Field
<1>5. \A c \in Cell : Louder(h, g)[c] = g[c]
  <2> HIDE DEF m, g, h
  <2> QED
    BY <1>4 DEF Louder
<1>6. Louder(h, g) = g
  <2>1. Louder(h, g) \in Field
    BY <1>3, LouderFacts
  <2> HIDE DEF m, g, h
  <2> QED
    BY <2>1, <1>3, <1>5 DEF Field
<1> QED
  BY <1>6 DEF Deposit
-----------------------------------------------------------------------------
(* What the steps do to the pieces and to the tracker.                     *)

LEMMA OpponentRole ==
    ASSUME NEW r \in Role
    PROVE  /\ Opponent(r) \in Role /\ Opponent(r) # r
           /\ Opponent(Opponent(r)) = r
           /\ \A q \in Role : q = r \/ q = Opponent(r)
BY DEF Role, Opponent

LEMMA StepFromCell ==
    ASSUME NEW c, NEW d, NEW walls
    PROVE  StepFrom(c, d, walls) \subseteq Cell
           /\ StepFrom(c, d, walls) \subseteq {Toward(c, d)}
           /\ StepFrom(c, d, walls) \subseteq Neighbors(c, walls)
BY DEF StepFrom, Neighbors

\* A legal action: a step along an open side, or no step at all.
LEMMA ApplyMoveFacts ==
    ASSUME NEW r \in Role, NEW s \in State, NEW d \in Decision, IsLegal(r, s, d)
    PROVE  LET m == ApplyMove(r, s, d)
           IN  /\ m \in State
               /\ m.walls = s.walls \cup m.last
               /\ m.step = s.step + 1
               /\ \/ m.at = s.at
                  \/ m.at \in Neighbors(s.at, s.walls) /\ m.last = {}
<1> DEFINE wall == IF d.move = "BARRIER" THEN WallTarget(r, s, d) ELSE {}
           m == ApplyMove(r, s, d)
<1>1. wall \subseteq Cell
  BY StepFromCell DEF WallTarget, State
<1>2. m = [at    |-> IF d.move = "MOVE" THEN Toward(s.at, d.dir) ELSE s.at,
           walls |-> s.walls \cup wall,
           built |-> s.built + (IF wall = {} THEN 0 ELSE 1),
           step  |-> s.step + 1,
           last  |-> wall]
  BY DEF ApplyMove
<1>3. d.move = "MOVE" => /\ Toward(s.at, d.dir) \in Neighbors(s.at, s.walls)
                         /\ Toward(s.at, d.dir) \in Cell
  BY StepFromCell DEF IsLegal
<1>4. d.move = "MOVE" => wall = {}
  OBVIOUS
<1> HIDE DEF wall
<1>5. m \in State
  BY <1>1, <1>2, <1>3 DEF State
<1> QED
  BY <1>2, <1>3, <1>4, <1>5

LEMMA NoteBarrierFacts ==
    ASSUME NEW s \in State, NEW wall \in SUBSET Cell
    PROVE  /\ NoteBarrier(s, wall) \in State
           /\ NoteBarrier(s, wall).at = s.at
           /\ NoteBarrier(s, wall).step = s.step
           /\ NoteBarrier(s, wall).walls = s.walls \cup wall
BY DEF NoteBarrier, State

LEMMA DecodeType ==
    ASSUME NEW f, NEW walls, NEW previous
    PROVE  /\ DecodePosition(f, walls, previous).cell = PeakCell(f)
           /\ PeakCell(f) \subseteq Cell
BY DEF DecodePosition, PeakCell

LEMMA CreditType ==
    ASSUME NEW t \in Tracker
    PROVE  Credit(t) \in Tracker
<1> DEFINE counted == [t EXCEPT !.clean = @ + 1]
<1>1. counted \in Tracker
  BY DEF Tracker
<1>2. ASSUME NEW u \in Tracker
      PROVE  [u EXCEPT !.strikes = 0] \in Tracker
  BY DEF Tracker
<1>3. ASSUME NEW u \in Tracker
      PROVE  [u EXCEPT !.trusted = TRUE, !.strikes = 0] \in Tracker
  BY DEF Tracker
<1>4. Credit(t) \in {[t EXCEPT !.strikes = 0], counted,
                     [counted EXCEPT !.trusted = TRUE, !.strikes = 0]}
  BY DEF Credit
<1> QED
  BY <1>1, <1>2, <1>3, <1>4

LEMMA UpdateType ==
    ASSUME NEW t \in Tracker, NEW f, NEW walls, NEW previous
    PROVE  Update(t, DecodePosition(f, walls, previous)) \in Tracker
<1> DEFINE z == DecodePosition(f, walls, previous)
<1>1. z.cell \subseteq Cell
  BY DecodeType
<1>2. Contradiction(t) \in Tracker
  <2> DEFINE struck == [t EXCEPT !.strikes = @ + 1, !.clean = 0]
  <2>1. struck \in Tracker
    <3> DEFINE u == [t EXCEPT !.strikes = @ + 1]
    <3>1. u \in Tracker
      BY DEF Tracker
    <3>2. ASSUME NEW v \in Tracker PROVE [v EXCEPT !.clean = 0] \in Tracker
      BY DEF Tracker
    <3>3. struck = [u EXCEPT !.clean = 0]
      OBVIOUS
    <3> QED
      BY <3>1, <3>2, <3>3
  <2>2. ASSUME NEW v \in Tracker PROVE [v EXCEPT !.trusted = FALSE] \in Tracker
    BY DEF Tracker
  <2>4. [struck EXCEPT !.trusted = FALSE] \in Tracker
    BY <2>1, <2>2
  <2>3. Contradiction(t) \in {struck, [struck EXCEPT !.trusted = FALSE]}
    BY DEF Contradiction
  <2> QED
    BY <2>1, <2>3, <2>4
<1>3. (IF z.cell = {} THEN t ELSE [t EXCEPT !.cell = CHOOSE c \in z.cell : TRUE]) \in Tracker
  BY <1>1 DEF Tracker
<1>4. Update(t, z) \in Tracker
  <2> HIDE DEF z
  <2> QED
    BY <1>2, <1>3, CreditType DEF Update
<1> QED
  BY <1>4

\* An honest field one step on: credited, and tracked.
LEMMA UpdateTracks ==
    ASSUME NEW t \in Tracker, t.trusted, t.strikes = 0, NEW f, NEW walls,
           NEW at \in Cell, at \notin walls, PeakCell(f) = {at},
           WithinOneStep(at, t.cell, walls)
    PROVE  LET u == Update(t, DecodePosition(f, walls, t.cell))
           IN  u.trusted /\ u.strikes = 0 /\ u.cell = at
<1> DEFINE z == DecodePosition(f, walls, t.cell)
           v == [t EXCEPT !.cell = at]
<1>1. z.cell = {at} /\ z.trusted
  BY DEF DecodePosition
<1>2. v.trusted /\ v.strikes = 0 /\ v.cell = at /\ v \in Tracker
  BY DEF Tracker
<1>3. (CHOOSE c \in {at} : TRUE) = at
  OBVIOUS
<1>4. Update(t, z) = Credit(v)
  <2> HIDE DEF z
  <2> QED
    BY <1>1, <1>3 DEF Update
<1>5. Credit(v) = [v EXCEPT !.strikes = 0]
  <2> HIDE DEF v
  <2> QED
    BY <1>2 DEF Credit
<1> HIDE DEF z, v
<1> QED
  BY <1>2, <1>4, <1>5 DEF z, Tracker
-----------------------------------------------------------------------------
(* Type correctness.                                                       *)

LEMMA CellInhabited == Cell # {}
<1>1. <<0, 0>> \in Cell
  BY BoardAssumption DEF Cell
<1> QED
  BY <1>1

LEMMA NormaliseType ==
    ASSUME NEW set \in SUBSET Cell
    PROVE  Normalise(set) \in (SUBSET Cell) \ {{}}
BY CellInhabited DEF Normalise

LEMMA PredictType ==
    ASSUME NEW set \in SUBSET Cell, NEW walls
    PROVE  Predict(set, walls) \in SUBSET Cell
<1> DEFINE next(c) == Neighbors(c, walls)
                      \cup (IF CanStay \/ Neighbors(c, walls) = {} THEN {c} ELSE {})
<1>1. ASSUME NEW c \in set \ walls
      PROVE  next(c) \subseteq Cell
  BY StepFromCell DEF Neighbors
<1>2. UNION {next(c) : c \in set \ walls} \in SUBSET Cell
  BY <1>1
<1>3. Predict(set, walls) = Normalise(UNION {next(c) : c \in set \ walls})
  BY DEF Predict
<1> QED
  BY <1>2, <1>3, NormaliseType

LEMMA ObserveType ==
    ASSUME NEW set \in SUBSET Cell, NEW f, NEW t, NEW z
    PROVE  ObserveScent(set, f, t, z) \in SUBSET Cell
<1>1. {c \in set : f[c] > 0} \in SUBSET Cell
  OBVIOUS
<1>2. ObserveScentPeak(set, f) \in SUBSET Cell
  BY <1>1, NormaliseType DEF ObserveScentPeak
<1>3. ObserveSmell(set, f) \in SUBSET Cell
  BY DEF ObserveSmell
<1> QED
  BY <1>2, <1>3 DEF ObserveScent

LEMMA WordsType ==
    ASSUME NEW set \in SUBSET Cell, NEW text, NEW told \in WeighWords(set, text)
    PROVE  told \in SUBSET Cell
<1>1. ASSUME NEW region, NEW trust
      PROVE  ObserveRegion(set, region, trust) \in SUBSET Cell
  <2>1. {c \in set : c \in region => 2 * trust > 0} \in SUBSET Cell
    OBVIOUS
  <2> QED
    BY <2>1, NormaliseType DEF ObserveRegion
<1> QED
  BY <1>1 DEF WeighWords

LEMMA RuleOutType ==
    ASSUME NEW set \in SUBSET Cell, NEW s
    PROVE  RuleOutImpossible(s, set) \in (SUBSET Cell) \ {{}}
BY NormaliseType DEF RuleOutImpossible, ExcludeAll

LEMMA FreshTypes ==
    /\ NoScent \in Field
    /\ \A c \in Cell : FreshState(c) \in State /\ FreshTracker(c) \in Tracker
<1>1. NoScent \in Field
  BY EmitFacts DEF NoScent, Field
<1>2. ASSUME NEW c \in Cell PROVE FreshState(c) \in State
  BY DEF FreshState, State
<1>3. ASSUME NEW c \in Cell PROVE FreshTracker(c) \in Tracker
  BY DEF FreshTracker, Tracker
<1> QED
  BY <1>1, <1>2, <1>3

LEMMA SendableType ==
    ASSUME NEW r \in Role, NEW honest \in Field, NEW field \in Sendable(r, honest)
    PROVE  /\ field \in Field
           /\ field # honest => bad["thief"] + bad["police"] < MaxBad
<1>1. ASSUME NEW x \in Cell
      PROVE  [c \in Cell |-> IF c = x THEN Emit ELSE 0] \in Field
  BY EmitFacts DEF Field
<1>2. Doctored \subseteq Field
  BY <1>1, FreshTypes DEF Doctored
<1> QED
  BY <1>2 DEF Sendable

LEMMA TypeInit == Init => TypeOK
<1> SUFFICES ASSUME Init PROVE TypeOK
  OBVIOUS
<1>1. \A r \in Role : Start[r] \in Cell /\ Opponent(r) \in Role
  BY SenseAssumption, OpponentRole
<1>2. /\ own \in [Role -> State]
      /\ scent \in [Role -> Field] /\ heard \in [Role -> Field]
      /\ tracker \in [Role -> Tracker]
  BY <1>1, FreshTypes DEF Init
<1>3. support \in [Role -> (SUBSET Cell) \ {{}}]
  BY CellInhabited DEF Init, Collapse
<1>4. turn \in Role
  BY DEF Init, Role
<1>5. bad \in [Role -> Nat] /\ bad["thief"] + bad["police"] <= MaxBad
  BY SenseAssumption DEF Init, Role
<1>6. excuse \in [Role -> SUBSET Excuse]
  BY DEF Init
<1> QED
  BY <1>2, <1>3, <1>4, <1>5, <1>6 DEF TypeOK

\* What one turn does, with its choices named.
Listens(r, d, field) ==
    LET q == Opponent(r)
        mine == ApplyMove(r, own[r], d)
        s == NoteBarrier(own[q], mine.last)
        spread == Predict(support[q], s.walls)
        declared == Declares(r, mine)
        decoded == DecodePosition(field, s.walls, tracker[q].cell)
        seen == ObserveScent(spread, field, tracker[q], decoded)
    IN  \E text \in Hints : \E told \in WeighWords(seen, text) :
            support' = [support EXCEPT ![q] =
                IF declared # {} /\ ~IsCaptured(s, declared) THEN Collapse
                ELSE RuleOutImpossible(s, told)]

Plays(r, d, field) ==
    LET q == Opponent(r)
        mine == ApplyMove(r, own[r], d)
        s == NoteBarrier(own[q], mine.last)
        honest == Trail(r, mine.at)
        decoded == DecodePosition(field, s.walls, tracker[q].cell)
    IN  /\ IsLegal(r, own[r], d)
        /\ field \in Sendable(r, honest)
        /\ own' = [own EXCEPT ![r] = mine, ![q] = s]
        /\ scent' = [scent EXCEPT ![r] = honest]
        /\ tracker' = [tracker EXCEPT ![q] = Update(@, decoded)]
        /\ heard' = [heard EXCEPT ![q] = DecayAll(Absorb(@, field))]
        /\ bad' = [bad EXCEPT ![r] = IF field = honest THEN @ ELSE @ + 1]
        /\ excuse' = [excuse EXCEPT ![q] = @ \cup Blames(q, s, mine, honest, field, decoded)]
        /\ turn' = q

LEMMA TurnPlays ==
    ASSUME NEW r \in Role, Turn(r)
    PROVE  \E d \in Decision : \E field : Plays(r, d, field) /\ Listens(r, d, field)
BY DEF Turn, Plays, Listens

LEMMA ListensType ==
    ASSUME TypeOK, NEW r \in Role, NEW d, NEW field, Listens(r, d, field)
    PROVE  support' \in [Role -> (SUBSET Cell) \ {{}}]
<1> DEFINE q == Opponent(r)
           mine == ApplyMove(r, own[r], d)
           s == NoteBarrier(own[q], mine.last)
           spread == Predict(support[q], s.walls)
           declared == Declares(r, mine)
           decoded == DecodePosition(field, s.walls, tracker[q].cell)
           seen == ObserveScent(spread, field, tracker[q], decoded)
<1>1. PICK text \in Hints : \E told \in WeighWords(seen, text) :
          support' = [support EXCEPT ![q] = IF declared # {} /\ ~IsCaptured(s, declared)
                                            THEN Collapse ELSE RuleOutImpossible(s, told)]
  BY DEF Listens
<1>0. PICK told \in WeighWords(seen, text) :
          support' = [support EXCEPT ![q] = IF declared # {} /\ ~IsCaptured(s, declared)
                                            THEN Collapse ELSE RuleOutImpossible(s, told)]
  BY <1>1
<1>2. q \in Role /\ support \in [Role -> (SUBSET Cell) \ {{}}]
  BY OpponentRole DEF TypeOK
<1>3. spread \in SUBSET Cell
  BY <1>2, PredictType
<1>4. told \in SUBSET Cell
  <2>1. seen \in SUBSET Cell
    BY <1>3, ObserveType
  <2> QED
    BY <2>1, WordsType
<1>5. RuleOutImpossible(s, told) \in (SUBSET Cell) \ {{}}
  BY <1>4, RuleOutType
<1>6. Collapse \in (SUBSET Cell) \ {{}}
  BY CellInhabited DEF Collapse
<1> HIDE DEF q, mine, s, declared
<1> QED
  BY <1>0, <1>2, <1>5, <1>6
\* The names of one turn, with their types.
LEMMA PlaysTypes ==
    ASSUME TypeOK, NEW r \in Role, NEW d \in Decision, NEW field, Plays(r, d, field),
           \A p \in Role : scent[p] \in Field
    PROVE  LET q == Opponent(r)
               mine == ApplyMove(r, own[r], d)
               s == NoteBarrier(own[q], mine.last)
           IN  /\ own[r] \in State /\ own[q] \in State
               /\ mine \in State /\ s \in State
               /\ Trail(r, mine.at) \in Field
               /\ field \in Field
<1> DEFINE q == Opponent(r)
           mine == ApplyMove(r, own[r], d)
           s == NoteBarrier(own[q], mine.last)
<1>1. q \in Role /\ own[r] \in State /\ own[q] \in State
  BY OpponentRole DEF TypeOK
<1>2. IsLegal(r, own[r], d) /\ field \in Sendable(r, Trail(r, mine.at))
  BY DEF Plays
<1>3. mine \in State
  BY <1>1, <1>2, ApplyMoveFacts
<1>4. mine.last \in SUBSET Cell /\ mine.at \in Cell
  BY <1>3 DEF State
<1>5. s \in State
  BY <1>1, <1>4, NoteBarrierFacts
<1>6. Trail(r, mine.at) \in Field
  <2>1. Deposit(scent[r], mine.at) \in Field
    BY <1>4, EmissionFacts, LouderFacts DEF Deposit
  <2> QED
    BY <2>1, DecayFacts DEF Trail
<1> QED
  BY <1>1, <1>2, <1>3, <1>5, <1>6, SendableType

LEMMA TypeStep == TypeOK /\ [Next]_vars => TypeOK'
<1> SUFFICES ASSUME TypeOK, [Next]_vars PROVE TypeOK'
  OBVIOUS
<1>1. CASE UNCHANGED vars
  BY <1>1 DEF TypeOK, vars
<1>2. ASSUME NEW r \in Role, Turn(r)
      PROVE  TypeOK'
  <2> DEFINE q == Opponent(r)
  <2>1. PICK d, field : d \in Decision /\ Plays(r, d, field) /\ Listens(r, d, field)
    BY <1>2, TurnPlays
  <2> DEFINE mine == ApplyMove(r, own[r], d)
             s == NoteBarrier(own[q], mine.last)
             honest == Trail(r, mine.at)
             decoded == DecodePosition(field, s.walls, tracker[q].cell)
  <2>2. \A p \in Role : scent[p] \in Field /\ heard[p] \in Field /\ tracker[p] \in Tracker
    BY DEF TypeOK
  <2>3. /\ mine \in State /\ s \in State /\ honest \in Field /\ field \in Field
    BY <2>1, <2>2, PlaysTypes
  <2>4. /\ q \in Role /\ q # r
    BY OpponentRole
  <2>5. own' \in [Role -> State] /\ scent' \in [Role -> Field]
    <3>1. own' = [own EXCEPT ![r] = mine, ![q] = s] /\ scent' = [scent EXCEPT ![r] = honest]
      BY <2>1 DEF Plays
    <3> HIDE DEF mine, s, honest, q
    <3> QED
      BY <2>3, <3>1 DEF TypeOK
  <2>6. heard' \in [Role -> Field]
    <3>1. DecayAll(Absorb(heard[q], field)) \in Field
      BY <2>2, <2>3, <2>4, LouderFacts, DecayFacts DEF Absorb
    <3>2. heard' = [heard EXCEPT ![q] = DecayAll(Absorb(@, field))]
      BY <2>1 DEF Plays
    <3> QED
      BY <3>1, <3>2 DEF TypeOK
  <2>7. tracker' \in [Role -> Tracker]
    <3>1. Update(tracker[q], decoded) \in Tracker
      BY <2>2, <2>4, UpdateType
    <3>2. tracker' = [tracker EXCEPT ![q] = Update(@, decoded)]
      BY <2>1 DEF Plays
    <3> HIDE DEF decoded, q
    <3> QED
      BY <3>1, <3>2 DEF TypeOK
  <2>8. support' \in [Role -> (SUBSET Cell) \ {{}}]
    BY <2>1, ListensType
  <2>9. bad' \in [Role -> Nat] /\ (bad["thief"] + bad["police"] <= MaxBad)'
    <3>1. bad' = [bad EXCEPT ![r] = IF field = honest THEN @ ELSE @ + 1]
      BY <2>1 DEF Plays
    <3>2. field # honest => bad["thief"] + bad["police"] < MaxBad
      BY <2>1, <2>3, SendableType DEF Plays
    <3>3. bad \in [Role -> Nat] /\ bad["thief"] + bad["police"] <= MaxBad /\ MaxBad \in Nat
      BY SenseAssumption DEF TypeOK
    <3>4. r = "thief" \/ r = "police"
      BY DEF Role
    <3> HIDE DEF honest
    <3> QED
      BY <3>1, <3>2, <3>3, <3>4 DEF Role
  <2>10. excuse' \in [Role -> SUBSET Excuse]
    <3>1. Blames(q, s, mine, honest, field, decoded) \subseteq Excuse
      BY DEF Blames, Excuse
    <3>2. excuse' = [excuse EXCEPT ![q] = @ \cup Blames(q, s, mine, honest, field, decoded)]
      BY <2>1 DEF Plays
    <3> HIDE DEF q, s, mine, honest, decoded
    <3> QED
      BY <3>1, <3>2 DEF TypeOK
  <2>11. turn' \in Role
    BY <2>1, <2>4 DEF Plays
  <2> QED
    BY <2>5, <2>6, <2>7, <2>8, <2>9, <2>10, <2>11 DEF TypeOK
<1> QED
  BY <1>1, <1>2 DEF Next

\* Every variable of Sense keeps its type, and no belief is ever empty.
THEOREM TypeCorrect == Spec => []TypeOK
<1>1. TypeOK /\ [Next]_vars => TypeOK'
  BY TypeStep
<1> QED
  BY TypeInit, <1>1, PTL DEF Spec
-----------------------------------------------------------------------------
(* What is sent, what is copied, who is tracked.                           *)

WallsAgree == own["thief"].walls = own["police"].walls

\* PeakIsSender is inductive once no cell of a sent field outshines a deposit
\* one decay old; HonestIsTracked once both peers know the same walls.
IInv ==
    /\ WallsAgree
    /\ \A r \in Role : Faded(scent[r]) /\ own[r].step \in Nat
    /\ PeakIsSender
    /\ ReplicaIsOneTurnOld
    /\ HonestIsTracked

LEMMA InvInit == Init => IInv
<1> SUFFICES ASSUME Init PROVE IInv
  OBVIOUS
<1>1. \A r \in Role : Start[r] \in Cell /\ Opponent(r) \in Role /\ Opponent(Opponent(r)) = r
  BY SenseAssumption, OpponentRole
<1>2. \A r \in Role : /\ own[r] = FreshState(Start[r]) /\ scent[r] = NoScent
                       /\ heard[r] = NoScent
                       /\ tracker[r] = FreshTracker(Start[Opponent(r)])
  BY DEF Init
<1>3. WallsAgree
  BY <1>2 DEF WallsAgree, FreshState, Role
<1>4. \A r \in Role : Faded(scent[r])
  <2>1. \A c \in Cell : NoScent[c] = 0
    BY DEF NoScent
  <2> QED
    BY <1>2, <2>1, FreshTypes, EmitFacts DEF Faded
<1>5. \A r \in Role : own[r].step = 0 /\ own[r].at = Start[r]
  <2> SUFFICES ASSUME NEW r \in Role PROVE own[r].step = 0 /\ own[r].at = Start[r]
    OBVIOUS
  <2>1. own[r] = FreshState(Start[r])
    BY <1>2
  <2> QED
    BY <2>1 DEF FreshState
<1>6. PeakIsSender
  BY <1>5 DEF PeakIsSender, Played
<1>7. ReplicaIsOneTurnOld
  <2>1. DecayAll(NoScent) = NoScent
    BY EmitFacts DEF DecayAll, NoScent
  <2> QED
    BY <1>1, <1>2, <2>1 DEF ReplicaIsOneTurnOld
<1>8. HonestIsTracked
  <2>1. \A r \in Role : tracker[Opponent(r)] = FreshTracker(Start[r])
    BY <1>1, <1>2
  <2>2. \A c : FreshTracker(c).trusted /\ FreshTracker(c).strikes = 0 /\ FreshTracker(c).cell = c
    BY DEF FreshTracker
  <2> QED
    BY <1>5, <2>1, <2>2 DEF HonestIsTracked
<1> QED
  BY <1>3, <1>4, <1>5, <1>6, <1>7, <1>8 DEF IInv

LEMMA InvTurn ==
    ASSUME TypeOK, IInv, NEW r \in Role, Turn(r)
    PROVE  IInv'
<1> DEFINE q == Opponent(r)
<1>1. PICK d, field : d \in Decision /\ Plays(r, d, field)
  BY TurnPlays
<1> DEFINE mine == ApplyMove(r, own[r], d)
           s == NoteBarrier(own[q], mine.last)
           honest == Trail(r, mine.at)
           decoded == DecodePosition(field, s.walls, tracker[q].cell)
<1>2. /\ q \in Role /\ q # r /\ Opponent(q) = r
      /\ \A p \in Role : p = r \/ p = q
  BY OpponentRole
<1>3. \A p \in Role : /\ scent[p] \in Field /\ heard[p] \in Field
                       /\ tracker[p] \in Tracker /\ own[p] \in State /\ bad[p] \in Nat
  BY DEF TypeOK
<1>4. /\ mine \in State /\ s \in State /\ honest \in Field /\ field \in Field
  BY <1>1, <1>3, PlaysTypes
<1>5. /\ mine.walls = own[r].walls \cup mine.last
      /\ mine.step = own[r].step + 1
      /\ mine.at = own[r].at \/ (mine.at \in Neighbors(own[r].at, own[r].walls) /\ mine.last = {})
  BY <1>1, <1>3, ApplyMoveFacts DEF Plays
<1>6. /\ s.at = own[q].at /\ s.step = own[q].step
      /\ s.walls = own[q].walls \cup mine.last
  <2>1. mine.last \in SUBSET Cell
    BY <1>4 DEF State
  <2> QED
    BY <1>2, <1>3, <2>1, NoteBarrierFacts
<1>7. own[q].walls = own[r].walls
  BY <1>2 DEF IInv, WallsAgree, Role
<1>8. /\ own'[r] = mine /\ own'[q] = s
      /\ scent'[r] = honest /\ scent'[q] = scent[q]
      /\ tracker'[q] = Update(tracker[q], decoded) /\ tracker'[r] = tracker[r]
      /\ heard'[q] = DecayAll(Absorb(heard[q], field)) /\ heard'[r] = heard[r]
      /\ bad'[r] = (IF field = honest THEN bad[r] ELSE bad[r] + 1) /\ bad'[q] = bad[q]
      /\ excuse'[q] = excuse[q] \cup Blames(q, s, mine, honest, field, decoded)
      /\ excuse'[r] = excuse[r]
  <2>1. /\ own' = [own EXCEPT ![r] = mine, ![q] = s]
        /\ scent' = [scent EXCEPT ![r] = honest]
        /\ tracker' = [tracker EXCEPT ![q] = Update(@, decoded)]
        /\ heard' = [heard EXCEPT ![q] = DecayAll(Absorb(@, field))]
        /\ bad' = [bad EXCEPT ![r] = IF field = honest THEN @ ELSE @ + 1]
        /\ excuse' = [excuse EXCEPT ![q] = @ \cup Blames(q, s, mine, honest, field, decoded)]
    BY <1>1 DEF Plays
  <2>2. /\ own \in [Role -> State] /\ scent \in [Role -> Field] /\ heard \in [Role -> Field]
        /\ tracker \in [Role -> Tracker] /\ bad \in [Role -> Nat]
        /\ excuse \in [Role -> SUBSET Excuse]
    BY DEF TypeOK
  <2> HIDE DEF mine, s, honest, decoded, q
  <2> QED
    BY <1>2, <2>1, <2>2
<1>9. Faded(honest) /\ PeaksOn(honest, mine.at)
  <2>1. mine.at \in Cell /\ Faded(scent[r])
    BY <1>4 DEF State, IInv
  <2> QED
    BY <2>1, TrailPeaks DEF Trail
<1>10. WallsAgree'
  <2>1. own'[r].walls = own'[q].walls
    BY <1>5, <1>6, <1>7, <1>8
  <2> QED
    BY <1>2, <2>1 DEF WallsAgree, Role
<1>11. \A p \in Role : (Faded(scent[p]) /\ own[p].step \in Nat)'
  <2>1. Faded(scent'[r]) /\ Faded(scent'[q])
    BY <1>2, <1>8, <1>9 DEF IInv
  <2>2. own'[r].step \in Nat /\ own'[q].step \in Nat
    BY <1>4, <1>8 DEF State
  <2> QED
    BY <1>2, <2>1, <2>2
<1>12. PeakIsSender'
  <2>1. \A c \in Cell \ {own'[r].at} : scent'[r][c] < scent'[r][own'[r].at]
    BY <1>8, <1>9 DEF PeaksOn
  <2>2. own'[q].step > 0 => \A c \in Cell \ {own'[q].at} : scent'[q][c] < scent'[q][own'[q].at]
    BY <1>2, <1>6, <1>8 DEF IInv, PeakIsSender, Played
  <2> QED
    BY <1>2, <2>1, <2>2 DEF PeakIsSender, Played
<1>13. ReplicaIsOneTurnOld'
  <2>1. bad'[r] = 0 => heard'[q] = DecayAll(scent'[r])
    <3> SUFFICES ASSUME bad'[r] = 0 PROVE heard'[q] = DecayAll(honest)
      BY <1>8
    <3>1. field = honest /\ bad[r] = 0
      BY <1>3, <1>8
    <3>2. heard[q] = DecayAll(scent[r])
      BY <3>1 DEF IInv, ReplicaIsOneTurnOld
    <3>3. Louder(DecayAll(scent[r]), honest) = honest
      <4>1. mine.at \in Cell
        BY <1>4 DEF State
      <4> QED
        BY <1>3, <4>1, TrailKeepsUp DEF Trail
    <3> QED
      BY <1>8, <3>1, <3>2, <3>3 DEF Absorb
  <2>2. bad'[q] = 0 => heard'[r] = DecayAll(scent'[q])
    BY <1>2, <1>8 DEF IInv, ReplicaIsOneTurnOld
  <2> QED
    BY <1>2, <2>1, <2>2 DEF ReplicaIsOneTurnOld
<1>14. HonestIsTracked'
  <2>1. ASSUME bad'[r] = 0, "sealed" \notin excuse'[q]
        PROVE  /\ tracker'[q].trusted /\ tracker'[q].strikes = 0
               /\ tracker'[q].cell = own'[r].at
    <3>1. field = honest /\ bad[r] = 0
      BY <1>3, <1>8, <2>1
    <3>2. "sealed" \notin excuse[q] /\ mine.at \notin s.walls
      BY <1>8, <2>1 DEF Blames
    <3>3. tracker[q].trusted /\ tracker[q].strikes = 0 /\ tracker[q].cell = own[r].at
      BY <3>1, <3>2 DEF IInv, HonestIsTracked
    <3>4. mine.at \in Cell
      BY <1>4 DEF State
    <3>5. PeakCell(honest) = {mine.at}
      BY <1>9, <3>4, PeakIsRead
    <3>6. WithinOneStep(mine.at, tracker[q].cell, s.walls)
      <4>1. CASE mine.at = own[r].at
        BY <3>3, <4>1 DEF WithinOneStep
      <4>2. CASE mine.at \in Neighbors(own[r].at, own[r].walls) /\ mine.last = {}
        <5>1. s.walls = own[r].walls
          BY <1>6, <1>7, <4>2
        <5> QED
          BY <3>3, <4>2, <5>1 DEF WithinOneStep
      <4> QED
        BY <1>5, <4>1, <4>2
    <3>7. LET u == Update(tracker[q], DecodePosition(honest, s.walls, tracker[q].cell))
          IN  u.trusted /\ u.strikes = 0 /\ u.cell = mine.at
      BY <1>2, <1>3, <3>2, <3>3, <3>4, <3>5, <3>6, UpdateTracks
    <3>8. tracker'[q] = Update(tracker[q], DecodePosition(honest, s.walls, tracker[q].cell))
      BY <1>8, <3>1
    <3> HIDE DEF mine, s, honest, q
    <3> QED
      BY <1>8, <3>7, <3>8
  <2>2. ASSUME bad'[q] = 0, "sealed" \notin excuse'[r]
        PROVE  /\ tracker'[r].trusted /\ tracker'[r].strikes = 0
               /\ tracker'[r].cell = own'[q].at
    <3>1. /\ tracker[r].trusted /\ tracker[r].strikes = 0 /\ tracker[r].cell = own[q].at
      BY <1>2, <1>8, <2>2 DEF IInv, HonestIsTracked
    <3> HIDE DEF q, s
    <3> QED
      BY <1>6, <1>8, <3>1
  <2>3. Opponent(r) = q /\ Opponent(q) = r
    BY <1>2
  <2> HIDE DEF q
  <2>4. ASSUME NEW p \in Role, bad'[p] = 0, "sealed" \notin excuse'[Opponent(p)]
        PROVE  /\ tracker'[Opponent(p)].trusted /\ tracker'[Opponent(p)].strikes = 0
               /\ tracker'[Opponent(p)].cell = own'[p].at
    <3>1. CASE p = r
      BY <2>1, <2>3, <2>4, <3>1
    <3>2. CASE p = q
      BY <2>2, <2>3, <2>4, <3>2
    <3> QED
      BY <1>2, <3>1, <3>2
  <2> QED
    BY <2>4 DEF HonestIsTracked
<1> QED
  BY <1>10, <1>11, <1>12, <1>13, <1>14 DEF IInv

LEMMA InvStep == TypeOK /\ IInv /\ [Next]_vars => IInv'
<1> SUFFICES ASSUME TypeOK, IInv, [Next]_vars PROVE IInv'
  OBVIOUS
<1>1. CASE UNCHANGED vars
  BY <1>1 DEF vars, IInv, WallsAgree, Faded, PeakIsSender, Played, ReplicaIsOneTurnOld,
              HonestIsTracked
<1>2. CASE Next
  BY <1>2, InvTurn DEF Next
<1> QED
  BY <1>1, <1>2

LEMMA Invariance == Spec => []IInv
<1>1. TypeOK /\ IInv /\ [Next]_vars => IInv'
  BY InvStep
<1> QED
  BY TypeCorrect, InvInit, <1>1, PTL DEF Spec

\* On every board, with every falloff and decay the agreement can name, the
\* field a peer sends is loudest on the cell it stands on and nowhere else.
THEOREM FieldNamesSender == Spec => []PeakIsSender
<1>1. IInv => PeakIsSender
  BY DEF IInv
<1> QED
  BY Invariance, <1>1, PTL

\* The reader's copy of an honest trail never piles up.
THEOREM ReplicaFollows == Spec => []ReplicaIsOneTurnOld
<1>1. IInv => ReplicaIsOneTurnOld
  BY DEF IInv
<1> QED
  BY Invariance, <1>1, PTL

\* An honest peer that stays out of its own walls is never disbelieved and is
\* tracked to the cell.
THEOREM HonestyIsBelieved == Spec => []HonestIsTracked
<1>1. IInv => HonestIsTracked
  BY DEF IInv
<1> QED
  BY Invariance, <1>1, PTL
-----------------------------------------------------------------------------
(* The truth is not ruled out.                                             *)

LEMMA ThiefStep ==
    ASSUME NEW s \in State, NEW d \in Decision, IsLegal("thief", s, d)
    PROVE  LET m == ApplyMove("thief", s, d)
           IN  /\ m.last = {}
               /\ \/ m.at = s.at /\ CanStay
                  \/ m.at \in Neighbors(s.at, s.walls)
<1>1. WallTarget("thief", s, d) = {}
  BY DEF WallTarget
<1>2. d.move = "MOVE" \/ (d.move = "HOLD" /\ CanStay)
  BY <1>1 DEF IsLegal, Decision
<1>3. d.move = "MOVE" => Toward(s.at, d.dir) \in Neighbors(s.at, s.walls)
  BY StepFromCell DEF IsLegal
<1> QED
  BY <1>2, <1>3 DEF ApplyMove

LEMMA NormaliseKeeps ==
    ASSUME NEW set, NEW c, c \in set
    PROVE  c \in Normalise(set)
BY DEF Normalise

LEMMA PredictKeeps ==
    ASSUME NEW set, NEW walls, NEW a \in set, a \notin walls, NEW c,
           (c = a /\ CanStay) \/ c \in Neighbors(a, walls)
    PROVE  c \in Predict(set, walls)
<1> DEFINE next(x) == Neighbors(x, walls)
                      \cup (IF CanStay \/ Neighbors(x, walls) = {} THEN {x} ELSE {})
<1>1. c \in next(a) /\ a \in set \ walls
  OBVIOUS
<1>2. c \in UNION {next(x) : x \in set \ walls}
  BY <1>1
<1>3. Predict(set, walls) = Normalise(UNION {next(x) : x \in set \ walls})
  BY DEF Predict
<1> QED
  BY <1>2, <1>3, NormaliseKeeps

LEMMA ObserveKeeps ==
    ASSUME NEW set, NEW c \in Cell, c \in set, NEW f \in Field, NEW t, NEW z,
           IsAccepted(t, z) => f[c] > 0
    PROVE  c \in ObserveScent(set, f, t, z)
<1>1. f[c] \in Nat
  BY EmitFacts DEF Field
<1>2. 1 + SmellTrust * f[c] > 0
  BY <1>1 DEF SmellTrust
<1>3. c \in ObserveSmell(set, f)
  BY <1>2 DEF ObserveSmell
<1>4. f[c] > 0 => c \in ObserveScentPeak(set, f)
  <2>1. f[c] > 0 => c \in {x \in set : f[x] > 0}
    OBVIOUS
  <2> QED
    BY <2>1, NormaliseKeeps DEF ObserveScentPeak
<1> QED
  BY <1>3, <1>4 DEF ObserveScent

\* However little a speaker is believed, it is believed a little.
LEMMA WordsKeep ==
    ASSUME NEW set, NEW c, c \in set, NEW text, NEW told \in WeighWords(set, text)
    PROVE  c \in told
<1>1. ASSUME NEW raw \in {0, 1000}
      PROVE  Clamped(raw) \in {TrustFloor, TrustCeiling}
  BY DEF Clamped, TrustFloor, TrustCeiling
<1>2. ASSUME NEW raw \in {0, 1000}, NEW negated
      PROVE  2 * ClaimTrust(raw, negated) > 0
  BY <1>1 DEF ClaimTrust, TrustFloor, TrustCeiling
<1>3. ASSUME NEW region, NEW trust, 2 * trust > 0
      PROVE  c \in ObserveRegion(set, region, trust)
  <2>1. c \in {x \in set : x \in region => 2 * trust > 0}
    BY <1>3
  <2> QED
    BY <2>1, NormaliseKeeps DEF ObserveRegion
<1>4. PICK raw \in {0, 1000} :
         told = ObserveRegion(set, ParseHint(text).cells, ClaimTrust(raw, ParseHint(text).negated))
  BY DEF WeighWords
<1> QED
  BY <1>2, <1>3, <1>4

LEMMA KeptInit == Init => TrueCellKept
<1> SUFFICES ASSUME Init, NEW r \in Role PROVE own[r].at \in support[Opponent(r)]
  BY DEF TrueCellKept
<1>1. own[r] = FreshState(Start[r]) /\ support[Opponent(r)] = Cell /\ Start[r] \in Cell
  BY SenseAssumption, OpponentRole DEF Init, Collapse
<1> QED
  BY <1>1 DEF FreshState

\* The thief's turn: the officer's belief follows it.
LEMMA KeptByOfficer ==
    ASSUME TypeOK, IInv, TrueCellKept, Turn("thief"),
           ~over', excuse'["police"] = {}
    PROVE  own'["thief"].at \in support'["police"]
<1>1. /\ "thief" \in Role /\ "police" \in Role
      /\ Opponent("thief") = "police" /\ Opponent("police") = "thief"
  BY DEF Role, Opponent
<1>2. PICK d, field :
        /\ d \in Decision
        /\ Plays("thief", d, field) /\ Listens("thief", d, field)
  BY <1>1, TurnPlays
<1> DEFINE old == own["thief"]
           mine == ApplyMove("thief", old, d)
           s == NoteBarrier(own["police"], mine.last)
           honest == Trail("thief", mine.at)
           t == tracker["police"]
           decoded == DecodePosition(field, s.walls, t.cell)
           spread == Predict(support["police"], s.walls)
           seen == ObserveScent(spread, field, t, decoded)
<1>3. /\ old \in State /\ own["police"] \in State
      /\ mine \in State /\ s \in State /\ field \in Field
  BY <1>1, <1>2, PlaysTypes DEF TypeOK
<1>4. /\ mine.last = {}
      /\ \/ mine.at = old.at /\ CanStay
         \/ mine.at \in Neighbors(old.at, old.walls)
  BY <1>2, <1>3, ThiefStep DEF Plays
<1>5. s.walls = old.walls
  <2>1. s.walls = own["police"].walls \cup mine.last
    BY <1>3, <1>4, NoteBarrierFacts
  <2> QED
    BY <1>4, <2>1 DEF IInv, WallsAgree
<1>6. excuse["police"] = {} /\ Blames("police", s, mine, honest, field, decoded) = {}
  <2>1. excuse' = [excuse EXCEPT !["police"] =
                      @ \cup Blames("police", s, mine, honest, field, decoded)]
    BY <1>1, <1>2 DEF Plays
  <2>2. excuse \in [Role -> SUBSET Excuse]
    BY DEF TypeOK
  <2> HIDE DEF s, mine, honest, decoded
  <2> QED
    BY <1>1, <2>1, <2>2
<1>7. /\ old.at \in support["police"]
      /\ old.at \notin old.walls
  <2>1. ~over /\ ~IsSealedIn("thief", old)
    BY DEF Turn
  <2> QED
    BY <1>1, <1>6, <2>1 DEF TrueCellKept, IsSealedIn
<1>8. mine.at \in spread
  BY <1>4, <1>5, <1>7, PredictKeeps
<1>9. mine.at \in seen
  <2>1. mine.at \in Cell
    BY <1>3 DEF State
  <2>2. IsAccepted(t, decoded) => field[mine.at] > 0
    <3>1. IsAccepted(t, decoded) => field = honest
      BY <1>6 DEF Blames
    <3>2. Faded(honest) /\ PeaksOn(honest, mine.at)
      BY <1>1, <2>1, TrailPeaks DEF Trail, IInv
    <3> QED
      BY <3>1, <3>2, EmitFacts DEF PeaksOn
  <2> QED
    BY <1>3, <1>8, <2>1, <2>2, ObserveKeeps
<1>10. PICK text \in Hints : \E told \in WeighWords(seen, text) :
          support' = [support EXCEPT !["police"] = RuleOutImpossible(s, told)]
  <2>1. Declares("thief", mine) = {}
    BY DEF Declares
  <2> QED
    BY <1>1, <1>2, <2>1 DEF Listens
<1>11. PICK told \in WeighWords(seen, text) :
          support' = [support EXCEPT !["police"] = RuleOutImpossible(s, told)]
  BY <1>10
<1>12. mine.at \in RuleOutImpossible(s, told)
  <2>1. mine.at \in told
    BY <1>9, WordsKeep
  <2>2. mine.at # s.at /\ mine.at \notin s.walls
    BY <1>6 DEF Blames
  <2> QED
    BY <2>1, <2>2, NormaliseKeeps DEF RuleOutImpossible, ExcludeAll
<1>13. own'["thief"] = mine
  <2>1. own' = [own EXCEPT !["thief"] = mine, !["police"] = s] /\ own \in [Role -> State]
    BY <1>1, <1>2 DEF Plays, TypeOK
  <2> HIDE DEF mine, s
  <2> QED
    BY <1>1, <2>1
<1>14. support'["police"] = RuleOutImpossible(s, told)
  BY <1>1, <1>11 DEF TypeOK
<1> QED
  BY <1>12, <1>13, <1>14

\* The officer's turn: what it declares resets the thief's belief.
LEMMA KeptByThief ==
    ASSUME TypeOK, Turn("police"), ~over'
    PROVE  own'["police"].at \in support'["thief"]
<1>1. /\ "thief" \in Role /\ "police" \in Role
      /\ Opponent("thief") = "police" /\ Opponent("police") = "thief"
  BY DEF Role, Opponent
<1>2. own'["police"].at \in Cell
  BY <1>1, TypeStep DEF Next, TypeOK, State
<1>3. support'["thief"] = Cell
  <2>1. PICK d \in {e \in Decision : e.move = "HOLD" => e = Hold} :
           LET mine == ApplyMove("police", own["police"], d)
               s == NoteBarrier(own["thief"], mine.last)
               declared == Declares("police", mine)
           IN  /\ over' = \/ declared # {} /\ IsCaptured(s, declared)
                          \/ ThiefSurvives("police", mine)
               /\ \E set : support' = [support EXCEPT !["thief"] =
                     IF declared # {} /\ ~IsCaptured(s, declared) THEN Collapse ELSE set]
    BY <1>1 DEF Turn
  <2> DEFINE mine == ApplyMove("police", own["police"], d)
             s == NoteBarrier(own["thief"], mine.last)
             declared == Declares("police", mine)
  <2>2. declared # {}
    BY DEF Declares
  <2>3. ~IsCaptured(s, declared)
    BY <2>1, <2>2
  <2>4. support' = [support EXCEPT !["thief"] = Collapse]
    BY <2>1, <2>2, <2>3
  <2> QED
    BY <1>1, <2>4 DEF TypeOK, Collapse
<1> QED
  BY <1>2, <1>3

LEMMA KeptStep == TypeOK /\ IInv /\ TrueCellKept /\ [Next]_vars => TrueCellKept'
<1> SUFFICES ASSUME TypeOK, IInv, TrueCellKept, [Next]_vars PROVE TrueCellKept'
  OBVIOUS
<1>1. /\ "thief" \in Role /\ "police" \in Role
      /\ Opponent("thief") = "police" /\ Opponent("police") = "thief"
      /\ \A r \in Role : r = "thief" \/ r = "police"
  BY DEF Role, Opponent
<1>2. CASE UNCHANGED vars
  BY <1>2 DEF vars, TrueCellKept
<1>3. ASSUME NEW r \in Role, Turn(r)
      PROVE  /\ ~over
             /\ own'[Opponent(r)].at = own[Opponent(r)].at
             /\ support'[r] = support[r] /\ excuse'[r] = excuse[r]
  <2>1. PICK d, field : d \in Decision /\ Plays(r, d, field) /\ Listens(r, d, field)
    BY <1>3, TurnPlays
  <2> DEFINE q == Opponent(r)
             mine == ApplyMove(r, own[r], d)
             s == NoteBarrier(own[q], mine.last)
  <2>2. q \in Role /\ q # r
    BY OpponentRole
  <2>3. /\ own \in [Role -> State] /\ support \in [Role -> (SUBSET Cell) \ {{}}]
        /\ excuse \in [Role -> SUBSET Excuse] /\ \A p \in Role : scent[p] \in Field
    BY DEF TypeOK
  <2>4. mine \in State /\ own[q] \in State
    BY <2>1, <2>3, PlaysTypes
  <2>5. s.at = own[q].at
    BY <2>4, NoteBarrierFacts DEF State
  <2>6. own'[q] = s
    <3>1. own' = [own EXCEPT ![r] = mine, ![q] = s]
      BY <2>1 DEF Plays
    <3> HIDE DEF mine, s, q
    <3> QED
      BY <2>2, <2>3, <3>1
  <2>7. support'[r] = support[r]
    <3>1. \E set : support' = [support EXCEPT ![q] = set]
      BY <2>1 DEF Listens
    <3> HIDE DEF q
    <3> QED
      BY <2>2, <2>3, <3>1
  <2>8. excuse'[r] = excuse[r]
    <3>1. \E set : excuse' = [excuse EXCEPT ![q] = set]
      BY <2>1 DEF Plays
    <3> HIDE DEF q
    <3> QED
      BY <2>2, <2>3, <3>1
  <2>9. ~over
    BY <1>3 DEF Turn
  <2> QED
    BY <2>5, <2>6, <2>7, <2>8, <2>9
<1>4. CASE Turn("thief")
  <2>1. (~over' /\ excuse'["police"] = {}) => own'["thief"].at \in support'["police"]
    BY <1>4, KeptByOfficer
  <2>2. excuse'["thief"] = {} => own'["police"].at \in support'["thief"]
    BY <1>1, <1>3, <1>4 DEF TrueCellKept
  <2> QED
    BY <1>1, <2>1, <2>2 DEF TrueCellKept
<1>5. CASE Turn("police")
  <2>1. ~over' => own'["police"].at \in support'["thief"]
    BY <1>5, KeptByThief
  <2>2. excuse'["police"] = {} => own'["thief"].at \in support'["police"]
    BY <1>1, <1>3, <1>5 DEF TrueCellKept
  <2> QED
    BY <1>1, <2>1, <2>2 DEF TrueCellKept
<1> QED
  BY <1>1, <1>2, <1>4, <1>5 DEF Next

\* No word and no refused field ever makes a peer rule out the cell its
\* opponent is on.
THEOREM TruthIsKept == Spec => []TrueCellKept
<1>1. TypeOK /\ IInv /\ TrueCellKept /\ [Next]_vars => TrueCellKept'
  BY KeptStep
<1> QED
  BY TypeCorrect, Invariance, KeptInit, <1>1, PTL DEF Spec
=============================================================================
