---------------------------- MODULE ArenaProofs ----------------------------
(***************************************************************************)
(* Theorems about Arena, for every board, quota, threshold, horizon and    *)
(* opening: no brain acts illegally, the pursuit solver keeps what it      *)
(* promises, our officers stay in touch with the thief, and the benchmark  *)
(* plays the refereed chase.  Where the rules let a piece stand still      *)
(* (CanStay), as every agreed move set does.                               *)
(***************************************************************************)
EXTENDS Arena, FiniteSetTheorems, TLAPS

-----------------------------------------------------------------------------
(* Numbers.                                                                *)

\* The least-number principle, from the well-foundedness of < on Nat.
LEMMA Least ==
    ASSUME NEW S \in SUBSET Nat, S # {}
    PROVE  \E n \in S : \A m \in S : n <= m
<1>. DEFINE R == {x \in Nat \X Nat : x[1] < x[2]}
<1>1. IsWellFoundedOn(R, Nat)
  BY NatLessThanWellFounded DEF OpToRel
<1>2. \A y, x \in Nat : (<<y, x>> \in R) <=> y < x
  OBVIOUS
<1>. HIDE DEF R
<1>3. PICK n \in S : \A m \in S : ~ (<<m, n>> \in R)
  BY <1>1, WFMin
<1>4. \A m \in S : n <= m
  <2>1. n \in Nat /\ \A m \in S : m \in Nat /\ ~(m < n)
    BY <1>2, <1>3
  <2>. QED
    BY <2>1
<1>. QED
  BY <1>4

\* Induction over the numbers, for a property that is given as a set.
LEMMA Induction ==
    ASSUME NEW S, 0 \in S, \A n \in Nat : n \in S => n + 1 \in S
    PROVE  Nat \subseteq S
<1>. DEFINE T == {n \in Nat : n \notin S}
<1>. SUFFICES ASSUME T # {} PROVE FALSE
  OBVIOUS
<1>1. T \in SUBSET Nat
  OBVIOUS
<1>. HIDE DEF T
<1>2. PICK n \in T : \A m \in T : n <= m
  BY <1>1, Least
<1>3. n \in Nat /\ n \notin S /\ n # 0
  BY <1>2 DEF T
<1>4. n - 1 \in Nat /\ n - 1 \notin T /\ (n - 1) + 1 = n
  BY <1>1, <1>2, <1>3
<1>5. n - 1 \in S
  BY <1>4 DEF T
<1>. QED
  BY <1>3, <1>4, <1>5

\* A non-empty set of numbers has a least one.
LEMMA MinIsLeast ==
    ASSUME NEW S \in SUBSET Nat, S # {}
    PROVE  Min(S) \in S /\ \A m \in S : Min(S) <= m
BY Least DEF Min

\* The greatest number of a bounded set.
LEMMA Greatest ==
    ASSUME NEW bound \in Nat, NEW S \in SUBSET (0 .. bound), S # {}
    PROVE  \E n \in S : \A m \in S : m <= n
<1>. DEFINE T == {bound - n : n \in S}
<1>1. T \in SUBSET Nat /\ T # {}
  <2>1. \A n \in S : n \in Nat /\ n <= bound /\ bound - n \in Nat
    OBVIOUS
  <2>2. PICK n \in S : TRUE
    OBVIOUS
  <2>3. bound - n \in T
    BY <2>2
  <2>. QED BY <2>1, <2>3
<1>. HIDE DEF T
<1>2. PICK t \in T : \A u \in T : t <= u
  BY <1>1, Least
<1>3. PICK n \in S : t = bound - n
  BY <1>2 DEF T
<1>4. ASSUME NEW m \in S PROVE m <= n
  <2>1. bound - m \in T
    BY DEF T
  <2>2. bound - n <= bound - m
    BY <1>2, <1>3, <2>1
  <2>3. m \in Nat /\ n \in Nat
    OBVIOUS
  <2>. QED BY <2>2, <2>3
<1>. QED
  BY <1>4


\* A recursion over the numbers has a solution.
LEMMA Recursion ==
    ASSUME NEW S, NEW a \in S, NEW g \in [S -> S]
    PROVE  \E f \in [Nat -> S] : f[0] = a /\ \A n \in Nat : f[n + 1] = g[f[n]]
<1>. DEFINE Start(f, n) == f \in [0 .. n -> S] /\ f[0] = a
                           /\ \A k \in 0 .. n - 1 : f[k + 1] = g[f[k]]
            E == {n \in Nat : \E f : Start(f, n)}
<1>1. 0 \in E
  <2>. DEFINE f == [k \in 0 .. 0 |-> a]
  <2>1. Start(f, 0)
    OBVIOUS
  <2>. HIDE DEF Start, f
  <2>. QED BY <2>1
<1>2. ASSUME NEW n \in Nat, n \in E PROVE n + 1 \in E
  <2>1. PICK f : Start(f, n)
    BY <1>2
  <2>. DEFINE h == [k \in 0 .. n + 1 |-> IF k <= n THEN f[k] ELSE g[f[n]]]
  <2>2. n \in 0 .. n /\ 0 \in 0 .. n /\ f[n] \in S
    BY <2>1
  <2>3. h \in [0 .. n + 1 -> S]
    <3>1. \A k \in 0 .. n + 1 : k <= n => k \in 0 .. n
      OBVIOUS
    <3>. QED BY <2>1, <2>2, <3>1
  <2>4. h[0] = a
    BY <2>1
  <2>5. ASSUME NEW k \in 0 .. n PROVE h[k + 1] = g[h[k]]
    <3>1. k \in 0 .. n + 1 /\ k + 1 \in 0 .. n + 1 /\ k <= n /\ k \in Nat
      OBVIOUS
    <3>2. h[k] = f[k]
      BY <3>1
    <3>3. CASE k + 1 <= n
      <4>1. h[k + 1] = f[k + 1] /\ k \in 0 .. n - 1
        BY <3>1, <3>3
      <4>. QED BY <2>1, <3>2, <4>1
    <3>4. CASE k = n
      <4>1. h[k + 1] = g[f[n]]
        BY <3>1, <3>4
      <4>. QED BY <3>2, <3>4, <4>1
    <3>. QED BY <3>1, <3>3, <3>4
  <2>. HIDE DEF h
  <2>6. (n + 1) - 1 = n
    OBVIOUS
  <2>7. Start(h, n + 1)
    BY <2>3, <2>4, <2>5, <2>6
  <2>. QED BY <2>7
<1>. DEFINE T == [n \in Nat |-> CHOOSE f : Start(f, n)]
<1>3. \A n \in Nat : Start(T[n], n)
  <2>. HIDE DEF E, Start
  <2>1. \A n \in Nat : n \in E
    BY <1>1, <1>2, Induction
  <2>2. \A n \in Nat : \E f : Start(f, n)
    BY <2>1 DEF E
  <2>. QED BY <2>2
<1>. HIDE DEF T
\* Two beginnings agree where both are defined.
<1>4. ASSUME NEW n \in Nat PROVE \A k \in 0 .. n : T[n][k] = T[n + 1][k]
  <2>. DEFINE U == {k \in Nat : k <= n => T[n][k] = T[n + 1][k]}
  <2>1. Start(T[n], n) /\ Start(T[n + 1], n + 1)
    BY <1>3
  <2>2. 0 \in U
    BY <2>1
  <2>3. ASSUME NEW k \in Nat, k \in U PROVE k + 1 \in U
    <3>1. SUFFICES ASSUME k + 1 <= n PROVE T[n][k + 1] = T[n + 1][k + 1]
      OBVIOUS
    <3>2. k \in 0 .. n - 1 /\ k \in 0 .. (n + 1) - 1 /\ k <= n
      BY <3>1
    <3>3. T[n][k + 1] = g[T[n][k]] /\ T[n + 1][k + 1] = g[T[n + 1][k]]
      BY <2>1, <3>2
    <3>. QED BY <2>3, <3>2, <3>3
  <2>. HIDE DEF U
  <2>4. \A k \in Nat : k \in U
    BY <2>2, <2>3, Induction
  <2>. QED BY <2>4 DEF U
<1>. DEFINE F == [n \in Nat |-> T[n][n]]
<1>5. F \in [Nat -> S]
  <2>1. ASSUME NEW n \in Nat PROVE T[n][n] \in S
    <3>1. n \in 0 .. n
      OBVIOUS
    <3>. QED BY <1>3, <3>1
  <2>. QED BY <2>1
<1>6. F[0] = a
  <2>1. T[0][0] = a
    BY <1>3
  <2>. QED BY <2>1
<1>7. ASSUME NEW n \in Nat PROVE F[n + 1] = g[F[n]]
  <2>1. n \in 0 .. n /\ n \in 0 .. (n + 1) - 1 /\ n + 1 \in Nat
    OBVIOUS
  <2>2. T[n + 1][n + 1] = g[T[n + 1][n]]
    BY <1>3, <2>1
  <2>3. T[n][n] = T[n + 1][n]
    BY <1>4, <2>1
  <2>. QED BY <2>1, <2>2, <2>3
<1>. HIDE DEF F
<1>. QED
  BY <1>5, <1>6, <1>7
-----------------------------------------------------------------------------
(* The solver.                                                             *)

\* One more ply on top of a layer.
NextLayer(walls, layer) ==
    [masks   |-> ThiefMove(walls, OfficerReply(walls, layer.masks)),
     replies |-> OfficerReply(walls, layer.masks)]

\* The recursion of Solve is well defined: every layer is the one before with
\* one more ply.
LEMMA SolveLayers ==
    ASSUME NEW walls, NEW horizon \in Nat
    PROVE  LET t == Solve(walls, horizon)
           IN  /\ t[0].masks = Alive(walls)
               /\ \A d \in 1 .. horizon : t[d] = NextLayer(walls, t[d - 1])
<1>. DEFINE First == [masks |-> Alive(walls), replies |-> Alive(walls)]
            S == [masks : SUBSET Joint, replies : SUBSET Joint]
            g == [layer \in S |-> NextLayer(walls, layer)]
            Table(f, n) == f = [d \in 0 .. n |-> IF d = 0 THEN First
                                                 ELSE NextLayer(walls, f[d - 1])]
<1>1. First \in S /\ g \in [S -> S]
  BY DEF Alive, NextLayer, ThiefMove, OfficerReply
<1>. HIDE DEF S, g, First
<1>2. PICK f \in [Nat -> S] : f[0] = First /\ \A n \in Nat : f[n + 1] = g[f[n]]
  BY <1>1, Recursion
<1>3. \E h : Table(h, horizon)
  <2>. DEFINE h == [d \in 0 .. horizon |-> f[d]]
              i == [d \in 0 .. horizon |-> IF d = 0 THEN First ELSE NextLayer(walls, h[d - 1])]
  <2>1. \A n \in Nat : f[n + 1] = NextLayer(walls, f[n])
    BY <1>2 DEF g
  <2>2. ASSUME NEW d \in 0 .. horizon PROVE h[d] = i[d]
    <3>1. CASE d = 0
      BY <1>2, <3>1
    <3>2. CASE d # 0
      <4>1. d - 1 \in 0 .. horizon /\ d - 1 \in Nat /\ (d - 1) + 1 = d
        BY <3>2
      <4>2. f[d] = NextLayer(walls, f[d - 1])
        BY <2>1, <4>1
      <4>. QED BY <3>2, <4>1, <4>2
    <3>. QED BY <3>1, <3>2
  <2>3. h = i
    BY <2>2
  <2>4. Table(h, horizon)
    BY <2>3
  <2>. HIDE DEF h, Table
  <2>. QED BY <2>4
<1>4. Solve(walls, horizon) = CHOOSE table : Table(table, horizon)
  BY DEF Solve, NextLayer, First
<1>5. Table(Solve(walls, horizon), horizon)
  <2>. HIDE DEF Table
  <2>. QED BY <1>3, <1>4
<1>6. 0 \in 0 .. horizon /\ \A d \in 1 .. horizon : d \in 0 .. horizon /\ d # 0
  OBVIOUS
<1>. DEFINE t == Solve(walls, horizon)
<1>. HIDE DEF t
<1>7. t = [d \in 0 .. horizon |-> IF d = 0 THEN First ELSE NextLayer(walls, t[d - 1])]
  BY <1>5 DEF t
<1>8. t[0] = First /\ \A d \in 1 .. horizon : t[d] = NextLayer(walls, t[d - 1])
  <2>1. \A d \in 0 .. horizon : t[d] = IF d = 0 THEN First ELSE NextLayer(walls, t[d - 1])
    BY <1>7
  <2>. QED BY <1>6, <2>1
<1>. QED
  BY <1>8 DEF t, First

\* What a row of the table says about one joint position: the layer below for
\* every reply, the layer itself for one destination.
LEMMA LayerFacts ==
    ASSUME NEW walls, NEW horizon \in Nat, NEW d \in 1 .. horizon
    PROVE  LET t == Solve(walls, horizon)
           IN  /\ t[d].replies = OfficerReply(walls, t[d - 1].masks)
               /\ t[d].masks = ThiefMove(walls, t[d].replies)
<1>1. Solve(walls, horizon)[d] = NextLayer(walls, Solve(walls, horizon)[d - 1])
  BY SolveLayers
<1>. QED
  BY <1>1 DEF NextLayer

\* A thief that survives any number of plies can still move (rule 47): standing
\* still is no rescue, because the officer may stand still too.
LEMMA SurvivorsMove ==
    ASSUME CanStay, NEW walls, NEW horizon \in Nat, NEW d \in 0 .. horizon,
           NEW t, NEW o, <<t, o>> \in Solve(walls, horizon)[d].masks
    PROVE  Neighbors(t, walls) # {}
<1>. DEFINE table == Solve(walls, horizon)
            S == {n \in Nat : n <= horizon =>
                     \A x, y : <<x, y>> \in table[n].masks => Neighbors(x, walls) # {}}
<1>1. 0 \in S
  <2>1. table[0].masks = Alive(walls)
    BY SolveLayers
  <2>. HIDE DEF table
  <2>2. \A x, y : <<x, y>> \in Alive(walls) => Neighbors(x, walls) # {}
    BY DEF Alive
  <2>. QED BY <2>1, <2>2
<1>2. ASSUME NEW n \in Nat, n \in S PROVE n + 1 \in S
  <2>. SUFFICES ASSUME n + 1 <= horizon, NEW x, NEW y, <<x, y>> \in table[n + 1].masks,
                       Neighbors(x, walls) = {}
                PROVE  FALSE
    OBVIOUS
  <2>1. n + 1 \in 1 .. horizon /\ n <= horizon /\ (n + 1) - 1 = n
    OBVIOUS
  <2>2. /\ table[n + 1].replies = OfficerReply(walls, table[n].masks)
        /\ table[n + 1].masks = ThiefMove(walls, table[n + 1].replies)
    BY <2>1, LayerFacts
  <2>. HIDE DEF table
  <2>3. PICK c \in Options(x, walls) : <<c, y>> \in table[n + 1].replies
    BY <2>2 DEF ThiefMove
  <2>4. c = x
    BY <2>3 DEF Options
  <2>5. <<x, y>> \in OfficerReply(walls, table[n].masks) /\ y \in Options(y, walls)
    BY <2>2, <2>3, <2>4 DEF Options
  <2>6. <<x, y>> \in table[n].masks
    BY <2>5 DEF OfficerReply
  <2>. QED BY <1>2, <2>1, <2>6
<1>3. d \in S
  <2>. HIDE DEF S
  <2>. QED BY <1>1, <1>2, Induction
<1>. QED
  BY <1>3

\* What one more reply cannot do to a thief that survives it.
LEMMA RepliesAreSafe ==
    ASSUME CanStay, NEW walls, NEW horizon \in Nat, NEW d \in 1 .. horizon,
           NEW t, NEW o, <<t, o>> \in Solve(walls, horizon)[d].replies
    PROVE  /\ t \in Cell /\ o \in Cell /\ t # o /\ t \notin walls /\ o \notin walls
           /\ t \notin Options(o, walls)
           /\ Neighbors(t, walls) # {}
           /\ \A c \in Options(o, walls) : <<t, c>> \in Solve(walls, horizon)[d - 1].masks
<1>. DEFINE table == Solve(walls, horizon)
<1>1. table[d].replies = OfficerReply(walls, table[d - 1].masks)
  BY LayerFacts
<1>2. d - 1 \in 0 .. horizon
  OBVIOUS
<1>3. \A x, y : <<x, y>> \in table[d - 1].masks => Neighbors(x, walls) # {}
  BY <1>2, SurvivorsMove
<1>. HIDE DEF table
<1>4. /\ t \in Cell /\ o \in Cell /\ t # o /\ t \notin walls /\ o \notin walls
      /\ \A c \in Options(o, walls) : c # t /\ <<t, c>> \in table[d - 1].masks
  BY <1>1 DEF OfficerReply, Joint, table
<1>5. o \in Options(o, walls)
  BY DEF Options
<1>. QED
  BY <1>3, <1>4, <1>5 DEF table

\* One ply is survived exactly where the officer has nothing to do at once.
LEMMA OnePly ==
    ASSUME CanStay, NEW walls, NEW horizon \in Nat, horizon >= 1,
           NEW t \in Cell, NEW o \in Cell, t \notin walls, o \notin walls,
           t \notin Options(o, walls), Neighbors(t, walls) # {}
    PROVE  <<t, o>> \in Solve(walls, horizon)[1].replies
<1>. DEFINE table == Solve(walls, horizon)
<1>1. 1 \in 1 .. horizon /\ 1 - 1 = 0
  OBVIOUS
<1>2. table[1].replies = OfficerReply(walls, table[0].masks) /\ table[0].masks = Alive(walls)
  BY <1>1, LayerFacts, SolveLayers
<1>. HIDE DEF table
<1>3. Options(o, walls) \subseteq Cell /\ o \in Options(o, walls)
  BY DEF Options, Neighbors, StepFrom
<1>4. \A c \in Options(o, walls) : c # t /\ <<t, c>> \in Alive(walls)
  BY <1>3 DEF Alive, Joint
<1>5. <<t, o>> \in OfficerReply(walls, table[0].masks)
  BY <1>2, <1>3, <1>4 DEF OfficerReply, Joint
<1>. QED
  BY <1>2, <1>5 DEF table

\* The plies a destination is worth: the deepest row that has it.
LEMMA PliesFacts ==
    ASSUME NEW table, NEW t, NEW o, NEW depth \in Nat
    PROVE  LET n == PliesAfterMove(table, t, o, depth)
           IN  /\ n \in 0 .. depth
               /\ n >= 1 => <<t, o>> \in table[n].replies
               /\ \A d \in 1 .. depth : <<t, o>> \in table[d].replies => d <= n
<1>. DEFINE proved == {d \in 1 .. depth : <<t, o>> \in table[d].replies}
            n == PliesAfterMove(table, t, o, depth)
<1>1. n = IF proved = {} THEN 0 ELSE CHOOSE d \in proved : \A e \in proved : e <= d
  BY DEF PliesAfterMove
<1>2. CASE proved = {}
  BY <1>1, <1>2
<1>3. CASE proved # {}
  <2>1. proved \in SUBSET (0 .. depth)
    OBVIOUS
  <2>. HIDE DEF proved, n
  <2>2. \E d \in proved : \A e \in proved : e <= d
    BY <1>3, <2>1, Greatest
  <2>3. n \in proved /\ \A e \in proved : e <= n
    BY <1>1, <1>3, <2>2
  <2>. QED BY <2>3 DEF proved, n
<1>. QED
  BY <1>2, <1>3

-----------------------------------------------------------------------------
(* Moves, and what the brains choose.                                      *)

\* A step is nothing, or the one cell an agreed direction leads to.
LEMMA StepFromCell ==
    ASSUME NEW c, NEW d, NEW walls
    PROVE  /\ StepFrom(c, d, walls) \subseteq Cell \ walls
           /\ StepFrom(c, d, walls) # {} =>
                 d \in Moves /\ StepFrom(c, d, walls) = {Toward(c, d)} /\ Toward(c, d) \in Cell \ walls
BY DEF StepFrom

\* Neighbours are on the board and outside every wall.
LEMMA NeighborsOpen ==
    ASSUME NEW c, NEW walls
    PROVE  Neighbors(c, walls) \subseteq Cell \ walls
BY StepFromCell DEF Neighbors

\* No direction stands still.
LEMMA NoSelfStep ==
    ASSUME NEW c \in Cell, NEW walls
    PROVE  c \notin Neighbors(c, walls)
<1>. SUFFICES ASSUME NEW d \in Moves, c \in StepFrom(c, d, walls) PROVE FALSE
  BY DEF Neighbors
<1>1. c = Toward(c, d) /\ c[1] \in Int /\ c[2] \in Int
  BY StepFromCell, BoardAssumption DEF Cell
<1>2. RowDelta(d) # 0 \/ ColDelta(d) # 0
  <2>1. d \in {"N", "NE", "E", "SE", "S", "SW", "W", "NW"}
    BY DEF Moves, Direction, Orthogonal
  <2>. QED BY <2>1 DEF RowDelta, ColDelta
<1>3. RowDelta(d) \in {-1, 0, 1} /\ ColDelta(d) \in {-1, 0, 1}
  BY DEF RowDelta, ColDelta
<1>4. c[1] = c[1] + RowDelta(d) /\ c[2] = c[2] + ColDelta(d)
  BY <1>1 DEF Toward
<1>. QED
  BY <1>1, <1>2, <1>3, <1>4

\* More walls leave fewer ways out.
LEMMA FewerWaysOut ==
    ASSUME NEW c, NEW walls, NEW more, walls \subseteq more
    PROVE  Neighbors(c, more) \subseteq Neighbors(c, walls)
<1>1. \A d : StepFrom(c, d, more) \subseteq StepFrom(c, d, walls)
  BY DEF StepFrom
<1>. QED
  BY <1>1 DEF Neighbors

\* A move that may be chosen, and the neighbour it leads to.
LEMMA LegalMoveFacts ==
    ASSUME NEW s, NEW m \in LegalMoves(s)
    PROVE  /\ m = Choice("MOVE", m.dir, m.cell) /\ m.cell = Toward(s.at, m.dir)
           /\ m.dir \in Moves /\ StepFrom(s.at, m.dir, s.walls) = {m.cell}
           /\ m.cell \in Neighbors(s.at, s.walls)
<1>1. PICK d \in Moves : StepFrom(s.at, d, s.walls) # {} /\ m = Choice("MOVE", d, Toward(s.at, d))
  BY DEF LegalMoves
<1>2. m.dir = d /\ m.cell = Toward(s.at, d)
  BY <1>1 DEF Choice
<1>. QED
  BY <1>1, <1>2, StepFromCell DEF Neighbors

\* Every neighbour is the end of a legal move.
LEMMA NeighborIsMove ==
    ASSUME NEW s, NEW c \in Neighbors(s.at, s.walls)
    PROVE  \E m \in LegalMoves(s) : m.cell = c
<1>1. PICK d \in Moves : c \in StepFrom(s.at, d, s.walls)
  BY DEF Neighbors
<1>2. c = Toward(s.at, d) /\ StepFrom(s.at, d, s.walls) # {}
  BY <1>1, StepFromCell
<1>3. Choice("MOVE", d, c) \in LegalMoves(s)
  BY <1>2 DEF LegalMoves
<1>. QED
  BY <1>3 DEF Choice

\* The candidates are the moves that lead to where a piece may be next.
LEMMA Candidates ==
    ASSUME NEW s
    PROVE  /\ \A m \in CandidateMoves(s) : m.cell \in Options(s.at, s.walls)
           /\ \A c \in Options(s.at, s.walls) : \E m \in CandidateMoves(s) : m.cell = c
           /\ CanStay => SealedInHold(s) \in CandidateMoves(s)
<1>1. Choice("HOLD", "-", s.at).cell = s.at
  BY DEF Choice
<1>. QED
  BY <1>1, LegalMoveFacts, NeighborIsMove DEF CandidateMoves, Options, SealedInHold

\* A move is legal and ends on its cell.
LEMMA MoveApplied ==
    ASSUME CanStay, NEW r \in Role, NEW s \in State, NEW m \in CandidateMoves(s)
    PROVE  LET d == [move |-> m.move, dir |-> m.dir]
               t == ApplyMove(r, s, d)
           IN  /\ IsLegal(r, s, d)
               /\ t.at = m.cell /\ t.walls = s.walls /\ t.built = s.built
               /\ t.step = s.step + 1 /\ t.last = {} /\ t \in State
<1>. DEFINE d == [move |-> m.move, dir |-> m.dir]
            t == ApplyMove(r, s, d)
<1>1. CASE m \in LegalMoves(s)
  <2>1. d.move = "MOVE" /\ StepFrom(s.at, d.dir, s.walls) # {} /\ m.cell = Toward(s.at, d.dir)
        /\ m.cell \in Cell
    BY <1>1, LegalMoveFacts, NeighborsOpen DEF Choice
  <2>2. IsLegal(r, s, d)
    BY <2>1 DEF IsLegal
  <2>. QED BY <2>1, <2>2 DEF ApplyMove, State
<1>2. CASE m = Choice("HOLD", "-", s.at)
  <2>1. d.move = "HOLD" /\ m.cell = s.at /\ s.at \in Cell
    BY <1>2 DEF Choice, State
  <2>2. IsLegal(r, s, d)
    BY <2>1 DEF IsLegal
  <2>. QED BY <2>1, <2>2 DEF ApplyMove, State
<1>. QED
  BY <1>1, <1>2 DEF CandidateMoves

\* What a wall may be built on.
Buildable(s) == (Neighbors(s.at, s.walls) \cup {s.at}) \ s.walls

\* Every choice the rules allow an officer is legal, and either moves it or
\* builds one wall.
LEMMA OfficerApplied ==
    ASSUME CanStay, NEW s \in State, NEW m \in AnyLegal(s)
    PROVE  LET d == [move |-> m.move, dir |-> m.dir]
               t == ApplyMove("police", s, d)
           IN  /\ IsLegal("police", s, d) /\ t \in State /\ t.step = s.step + 1
               /\ \/ /\ t.at \in Options(s.at, s.walls)
                     /\ t.walls = s.walls /\ t.built = s.built /\ t.last = {}
                  \/ \E w \in Buildable(s) :
                        /\ s.built < BarriersMax /\ t.at = s.at
                        /\ t.walls = s.walls \cup {w} /\ t.built = s.built + 1 /\ t.last = {w}
<1>. DEFINE d == [move |-> m.move, dir |-> m.dir]
            t == ApplyMove("police", s, d)
<1>1. CASE m \in LegalMoves(s) \cup {Choice("HOLD", "-", s.at)}
  <2>1. m \in CandidateMoves(s)
    BY <1>1 DEF CandidateMoves
  <2>. QED BY <2>1, MoveApplied, Candidates DEF Role
<1>2. ASSUME NEW w \in Buildable(s), s.built < BarriersMax, m.move = "BARRIER",
             WallTarget("police", s, d) = {w}
      PROVE  /\ IsLegal("police", s, d) /\ t \in State /\ t.step = s.step + 1
             /\ t.at = s.at
             /\ t.walls = s.walls \cup {w} /\ t.built = s.built + 1 /\ t.last = {w}
  <2>1. IsLegal("police", s, d)
    BY <1>2 DEF IsLegal
  <2>2. w \in Cell
    BY NeighborsOpen DEF Buildable, State
  <2>. QED BY <1>2, <2>1, <2>2 DEF ApplyMove, State
<1>3. CASE /\ s.built < BarriersMax
           /\ \E n \in LegalMoves(s) : m = Choice("BARRIER", n.dir, n.cell)
  <2>1. PICK n \in LegalMoves(s) : m = Choice("BARRIER", n.dir, n.cell)
    BY <1>3
  <2>2. n.dir # "-" /\ StepFrom(s.at, n.dir, s.walls) = {n.cell} /\ n.cell \in Buildable(s)
        /\ n.cell \notin s.walls
    <3>1. n.dir \in Moves /\ "-" \notin Moves
      BY LegalMoveFacts DEF Moves, Direction, Orthogonal
    <3>. QED BY <3>1, LegalMoveFacts, NeighborsOpen DEF Buildable
  <2>3. m.move = "BARRIER" /\ d.dir = n.dir /\ ~(s.built >= BarriersMax)
    BY <1>3, <2>1, RulesAssumption DEF Choice, State
  <2>4. WallTarget("police", s, d) = {n.cell}
    BY <2>2, <2>3 DEF WallTarget
  <2>. QED BY <1>2, <1>3, <2>2, <2>3, <2>4
<1>4. CASE s.built < BarriersMax /\ s.at \notin s.walls /\ m = Choice("BARRIER", "-", s.at)
  <2>1. m.move = "BARRIER" /\ d.dir = "-" /\ ~(s.built >= BarriersMax) /\ s.at \in Buildable(s)
    BY <1>4, RulesAssumption DEF Choice, State, Buildable
  <2>2. WallTarget("police", s, d) = {s.at}
    BY <1>4, <2>1 DEF WallTarget
  <2>. QED BY <1>2, <1>4, <2>1, <2>2
<1>5. \/ m \in LegalMoves(s) \cup {Choice("HOLD", "-", s.at)}
      \/ /\ s.built < BarriersMax
         /\ \/ \E n \in LegalMoves(s) : m = Choice("BARRIER", n.dir, n.cell)
            \/ s.at \notin s.walls /\ m = Choice("BARRIER", "-", s.at)
  BY RulesAssumption DEF AnyLegal, State
<1>. QED
  BY <1>1, <1>3, <1>4, <1>5

\* No thief brain leaves the candidate moves.
LEMMA ThiefCandidates ==
    ASSUME CanStay, brain["thief"] \in {"safe", "openspace", "greedythief"},
           NEW m \in ThiefChoices
    PROVE  m \in CandidateMoves(thief)
<1>1. LegalMoves(thief) \cup {SealedInHold(thief)} \subseteq CandidateMoves(thief)
  BY Candidates DEF CandidateMoves
<1>2. CASE brain["thief"] = "safe"
  <2>1. m \in SafeThief(thief, Collapsed(sighting), StepsLeft)
    BY <1>2 DEF ThiefChoices
  <2>2. \A r \in Ranked(thief, Collapsed(sighting), StepsLeft) : r[2] \in CandidateMoves(thief)
    BY DEF Ranked
  <2>. QED BY <1>1, <2>1, <2>2 DEF SafeThief
<1>3. CASE brain["thief"] = "openspace"
  <2>1. m \in OpenSpaceThief(thief, Collapsed(sighting))
    BY <1>3 DEF ThiefChoices
  <2>. QED BY <1>1, <2>1 DEF OpenSpaceThief
<1>4. CASE brain["thief"] = "greedythief"
  <2>1. m \in GreedyThief(thief, Collapsed(sighting))
    BY <1>4 DEF ThiefChoices
  <2>. QED BY <1>1, <2>1 DEF GreedyThief
<1>. QED
  BY <1>2, <1>3, <1>4

\* However the officer decides, it does something legal, if its walls are legal.
LEMMA OfficerWithin ==
    ASSUME NEW s \in State, NEW belief, NEW walls, NEW m \in Officer(s, belief, walls),
           \A w \in walls : \E n \in LegalMoves(s) : w = Choice("BARRIER", n.dir, n.cell)
    PROVE  m \in AnyLegal(s)
<1>1. s.built \in Nat /\ BarriersMax \in Nat
  BY RulesAssumption DEF State
<1>2. LegalMoves(s) \cup {SealedInHold(s)} \subseteq AnyLegal(s)
  BY DEF AnyLegal, SealedInHold
<1>3. AdjacentSeal(s, belief) \subseteq AnyLegal(s)
  <2>1. \A x \in AdjacentSeal(s, belief) :
           s.built < BarriersMax /\ \E n \in LegalMoves(s) : x = Choice("BARRIER", n.dir, n.cell)
    BY DEF AdjacentSeal
  <2>. QED BY <1>1, <2>1 DEF AnyLegal
<1>4. CaptureShot(s, belief) \subseteq AnyLegal(s)
  BY <1>2 DEF CaptureShot
<1>5. WallsLeft(s) > 0 => walls \subseteq AnyLegal(s)
  BY <1>1 DEF WallsLeft, AnyLegal
<1>. QED
  BY <1>2, <1>3, <1>4, <1>5 DEF Officer

\* No officer brain leaves what the rules allow.
LEMMA OfficerChoosesLegally ==
    ASSUME brain["police"] \in {"architect", "pincher", "greedy", "stranger"},
           police \in State, NEW belief, NEW m \in OfficerChoices(belief)
    PROVE  m \in AnyLegal(police)
<1>1. \A w \in StructuralWalls(police, belief, StepsLeft) :
         \E n \in LegalMoves(police) : w = Choice("BARRIER", n.dir, n.cell)
  BY DEF StructuralWalls
<1>2. \A w \in PinchWalls(police, belief) :
         \E n \in LegalMoves(police) : w = Choice("BARRIER", n.dir, n.cell)
  BY DEF PinchWalls
<1>3. CASE brain["police"] = "architect"
  <2>1. m \in ArchitectPolice(police, belief, StepsLeft)
    BY <1>3 DEF OfficerChoices
  <2>. QED BY <1>1, <2>1, OfficerWithin DEF ArchitectPolice
<1>4. CASE brain["police"] = "pincher"
  <2>1. m \in PincherPolice(police, belief, StepsLeft)
    BY <1>4 DEF OfficerChoices
  <2>. QED BY <1>1, <1>2, <2>1, OfficerWithin DEF PincherPolice
<1>5. CASE brain["police"] = "greedy"
  <2>1. m \in GreedyPolice(police, belief)
    BY <1>5 DEF OfficerChoices
  <2>. QED BY <2>1 DEF GreedyPolice, AnyLegal, SealedInHold
<1>6. CASE brain["police"] = "stranger"
  BY <1>6 DEF OfficerChoices
<1>. QED
  BY <1>3, <1>4, <1>5, <1>6

-----------------------------------------------------------------------------
(* What the safe thief's rank of a destination means.                      *)

\* The board and every set of walls on it can be counted.
LEMMA BoardIsFinite ==
    /\ IsFiniteSet(Cell)
    /\ \A walls \in SUBSET Cell : IsFiniteSet(walls) /\ Cardinality(walls) \in Nat
    /\ Cardinality({}) = 0
<1>1. IsFiniteSet(0 .. Size - 1)
  BY BoardAssumption, FS_Interval
<1>2. IsFiniteSet(Cell)
  BY <1>1, FS_Product DEF Cell
<1>3. \A walls \in SUBSET Cell : IsFiniteSet(walls)
  BY <1>2, FS_Subset
<1>. QED
  BY <1>2, <1>3, FS_CardinalityType, FS_EmptySet

\* The solver has a table for the walls that stand, and for those and one more.
LEMMA TablesAtHand ==
    ASSUME NEW walls \in SUBSET Cell, Cardinality(walls) <= BarriersMax
    PROVE  /\ Solved[walls] = Solve(walls, SafetyHorizon)
           /\ \A w \in Cell : Solved[walls \cup {w}] = Solve(walls \cup {w}, SafetyHorizon)
<1>1. IsFiniteSet(walls) /\ Cardinality(walls) \in Nat /\ BarriersMax \in Nat
  BY BoardIsFinite, RulesAssumption
<1>2. Cardinality(walls) <= BarriersMax + 1
  BY <1>1
<1>3. ASSUME NEW w \in Cell PROVE Cardinality(walls \cup {w}) <= BarriersMax + 1
  <2>1. Cardinality(walls \cup {w}) = IF w \in walls THEN Cardinality(walls) ELSE Cardinality(walls) + 1
    BY <1>1, FS_AddElement
  <2>. QED BY <1>1, <2>1
<1>. QED
  BY <1>2, <1>3 DEF Solved

\* A destination is never credited with more plies than were asked for or than
\* the table holds.
LEMMA AgainstRange ==
    ASSUME NEW s, NEW target, NEW officer, NEW depth \in Nat
    PROVE  /\ Against(s, target, officer, depth) \in 0 .. depth
           /\ Against(s, target, officer, depth)
                 <= PliesAfterMove(Solved[s.walls], target, officer, depth)
<1>. DEFINE base == PliesAfterMove(Solved[s.walls], target, officer, depth)
            built(w) == PliesAfterMove(Solved[s.walls \cup {w}], target, officer, depth)
            all == {base} \cup {built(w) : w \in Neighbors(officer, s.walls)}
<1>1. base \in 0 .. depth /\ \A w : built(w) \in 0 .. depth
  BY PliesFacts
<1>. HIDE DEF base, built
<1>2. all \in SUBSET Nat /\ all # {} /\ base \in all /\ \A x \in all : x \in 0 .. depth
  BY <1>1
<1>3. Min(all) \in 0 .. depth /\ Min(all) <= base
  <2>. HIDE DEF all
  <2>. QED BY <1>2, MinIsLeast
<1>4. Against(s, target, officer, depth) \in {base, 0, Min(all)}
  BY DEF Against, base, built
<1>. QED
  BY <1>1, <1>3, <1>4 DEF base

\* A destination worth at least one ply is out of the officer's reach.
LEMMA WorthMeansSafe ==
    ASSUME CanStay, NEW s \in State, Cardinality(s.walls) <= BarriersMax,
           NEW target, NEW officer, NEW depth \in 1 .. SafetyHorizon,
           Against(s, target, officer, depth) >= 1
    PROVE  ~InReach(target, officer, s.walls) /\ officer \notin s.walls
<1>. DEFINE walls == s.walls
            base == PliesAfterMove(Solved[walls], target, officer, depth)
            built(w) == PliesAfterMove(Solved[walls \cup {w}], target, officer, depth)
            all == {base} \cup {built(w) : w \in Neighbors(officer, walls)}
            worth == Against(s, target, officer, depth)
<1>0. walls \in SUBSET Cell /\ SafetyHorizon \in Nat /\ depth \in Nat /\ depth <= SafetyHorizon
  BY HorizonAssumption DEF State
<1>1. base \in 0 .. depth /\ base >= 1
  <2>1. base \in 0 .. depth /\ worth \in 0 .. depth /\ worth <= base
    BY <1>0, AgainstRange, PliesFacts
  <2>2. worth >= 1
    OBVIOUS
  <2>. HIDE DEF base, worth
  <2>. QED BY <1>0, <2>1, <2>2
<1>2. <<target, officer>> \in Solve(walls, SafetyHorizon)[base].replies
  BY <1>0, <1>1, PliesFacts, TablesAtHand
<1>3. /\ officer \notin walls /\ target \notin Options(officer, walls)
      /\ Neighbors(target, walls) # {}
  <2>1. base \in 1 .. SafetyHorizon
    BY <1>0, <1>1
  <2>. HIDE DEF base, walls
  <2>. QED BY <1>0, <1>2, <2>1, RepliesAreSafe
<1>4. ASSUME Cardinality(walls) < BarriersMax, NEW w \in Neighbors(officer, walls)
      PROVE  Neighbors(target, walls \cup {w}) # {}
  <2>1. w \in Cell
    BY NeighborsOpen
  <2>2. all \in SUBSET Nat /\ all # {} /\ built(w) \in all
    <3>1. base \in 0 .. depth /\ \A x : built(x) \in 0 .. depth
      BY <1>0, PliesFacts
    <3>. HIDE DEF base, built
    <3>. QED BY <1>0, <3>1
  <2>3. ~(BarriersMax <= Cardinality(walls)) /\ base # 0
    BY <1>0, <1>1, <1>4, BoardIsFinite, RulesAssumption
  <2>4. Against(s, target, officer, depth) = Min(all)
    <3>1. Against(s, target, officer, depth) # 0
      BY <1>0, AgainstRange
    <3>. QED BY <2>3, <3>1 DEF Against
  <2>5. built(w) >= 1 /\ built(w) \in 0 .. depth
    <3>1. built(w) \in 0 .. depth
      BY <1>0, PliesFacts
    <3>2. Min(all) <= built(w) /\ Min(all) \in all
      <4>. HIDE DEF all, built
      <4>. QED BY <2>2, MinIsLeast
    <3>. HIDE DEF built, all
    <3>3. Min(all) >= 1 /\ Min(all) \in Nat
      BY <2>2, <2>4, <3>2
    <3>. QED BY <1>0, <3>1, <3>2, <3>3
  <2>6. <<target, officer>> \in Solve(walls \cup {w}, SafetyHorizon)[built(w)].replies
    BY <1>0, <2>1, <2>5, PliesFacts, TablesAtHand
  <2>7. built(w) \in 1 .. SafetyHorizon
    BY <1>0, <2>5
  <2>. HIDE DEF built, walls
  <2>. QED BY <1>0, <2>6, <2>7, RepliesAreSafe
<1>. QED
  BY <1>3, <1>4 DEF InReach

\* And a destination out of its reach is worth at least one.
LEMMA SafeMeansWorth ==
    ASSUME CanStay, NEW s \in State, Cardinality(s.walls) <= BarriersMax,
           NEW target \in Cell, NEW officer \in Cell, NEW depth \in 1 .. SafetyHorizon,
           target \notin s.walls, officer \notin s.walls, ~InReach(target, officer, s.walls)
    PROVE  Against(s, target, officer, depth) >= 1
<1>. DEFINE walls == s.walls
            base == PliesAfterMove(Solved[walls], target, officer, depth)
            built(w) == PliesAfterMove(Solved[walls \cup {w}], target, officer, depth)
            all == {base} \cup {built(w) : w \in Neighbors(officer, walls)}
<1>0. /\ walls \in SUBSET Cell /\ SafetyHorizon \in Nat /\ SafetyHorizon >= 1
      /\ depth \in Nat /\ depth <= SafetyHorizon /\ 1 \in 1 .. depth
  BY HorizonAssumption DEF State
<1>1. /\ target \notin Options(officer, walls) /\ Neighbors(target, walls) # {}
      /\ officer \in Options(officer, walls) /\ Neighbors(officer, walls) \subseteq Options(officer, walls)
  BY DEF InReach, Options
<1>2. base \in Nat /\ base >= 1
  <2>1. <<target, officer>> \in Solve(walls, SafetyHorizon)[1].replies
    <3>. HIDE DEF walls
    <3>. QED BY <1>0, <1>1, OnePly DEF walls
  <2>. QED BY <1>0, <2>1, PliesFacts, TablesAtHand
<1>3. ASSUME Cardinality(walls) < BarriersMax, NEW w \in Neighbors(officer, walls)
      PROVE  built(w) \in Nat /\ built(w) >= 1
  <2>0. w \in Cell /\ w \notin walls /\ w # target
    BY <1>1, NeighborsOpen
  <2>1. Neighbors(target, walls \cup {w}) # {}
    BY <1>3 DEF InReach
  <2>2. target \notin walls \cup {w}
    BY <2>0
  <2>3. target \notin Options(officer, walls \cup {w})
    BY <1>1, FewerWaysOut DEF Options
  <2>4. officer \notin walls \cup {w}
    BY <2>0, <1>3, NoSelfStep
  <2>5. <<target, officer>> \in Solve(walls \cup {w}, SafetyHorizon)[1].replies
    <3>. HIDE DEF walls
    <3>. QED BY <1>0, <2>1, <2>2, <2>3, <2>4, OnePly
  <2>6. Solved[walls \cup {w}] = Solve(walls \cup {w}, SafetyHorizon)
    BY <1>0, <2>0, TablesAtHand
  <2>7. <<target, officer>> \in Solved[walls \cup {w}][1].replies
    BY <2>5, <2>6
  <2>. HIDE DEF walls
  <2>8. built(w) \in 0 .. depth /\ 1 <= built(w)
    BY <1>0, <2>7, PliesFacts
  <2>. HIDE DEF built
  <2>. QED BY <1>0, <2>8
<1>4. CASE BarriersMax <= Cardinality(walls)
  BY <1>2, <1>4 DEF Against
<1>5. CASE ~(BarriersMax <= Cardinality(walls))
  <2>0. Cardinality(walls) < BarriersMax
    BY <1>0, <1>5, BoardIsFinite, RulesAssumption
  <2>1. all \in SUBSET Nat /\ all # {} /\ \A x \in all : x >= 1
    BY <1>2, <1>3, <2>0
  <2>2. Min(all) >= 1
    <3>. HIDE DEF all
    <3>. QED BY <2>1, MinIsLeast
  <2>3. base # 0 /\ target # officer /\ target \notin Neighbors(officer, walls)
    BY <1>1, <1>2
  <2>. QED BY <1>5, <2>2, <2>3 DEF Against
<1>. QED BY <1>4, <1>5

\* A thief that has just been told a cell fears one officer: the one there.
LEMMA ThreatIsKnown ==
    ASSUME NEW c \in Cell
    PROVE  Threats(Collapsed(c)) = {c}
<1>. DEFINE b == Collapsed(c)
            dust == 300 \div (CellCount - 1)
<1>1. CellCount - 1 \in Nat /\ CellCount - 1 >= 3
  <2>1. Size \in Nat /\ Size >= 2
    BY BoardAssumption
  <2>2. Size * Size \in Nat /\ Size * Size >= 4
    <3>1. \A n \in Nat : n >= 2 => n * n \in Nat /\ n * n >= 4
      OBVIOUS
    <3>. QED BY <2>1, <3>1
  <2>. QED BY <2>2 DEF CellCount
<1>2. dust \in Nat /\ dust < 200
  <2>1. \A n \in Nat : n >= 3 => 300 \div n \in Nat /\ 300 \div n < 200
    OBVIOUS
  <2>. HIDE DEF dust
  <2>. QED BY <1>1, <2>1 DEF dust
<1>3. b[c] = 9700 /\ \A x \in Cell : x # c => b[x] = dust
  BY DEF Collapsed
<1>. HIDE DEF b, dust
<1>4. \A x \in Cell : ~Hotter(b, x, c)
  <2>1. \A x \in Cell : x # c => ~(b[x] > b[c]) /\ b[x] # b[c]
    BY <1>2, <1>3
  <2>2. ~(b[c] > b[c]) /\ ~Before(c, c)
    <3>1. c[1] \in Int /\ c[2] \in Int
      BY BoardAssumption DEF Cell
    <3>. QED BY <1>3, <3>1 DEF Before
  <2>. QED BY <2>1, <2>2 DEF Hotter
<1>5. c \in TopCells(b, MaxThreats)
  <2>1. {x \in Cell : Hotter(b, x, c)} = {}
    BY <1>4
  <2>. QED BY <2>1, BoardIsFinite DEF TopCells, MaxThreats
<1>6. {x \in TopCells(b, MaxThreats) : b[x] >= ThreatFloor} = {c}
  <2>1. \A x \in TopCells(b, MaxThreats) : x \in Cell
    BY DEF TopCells
  <2>2. \A x \in Cell : x # c => ~(b[x] >= ThreatFloor)
    BY <1>2, <1>3 DEF ThreatFloor
  <2>3. b[c] >= ThreatFloor
    BY <1>3 DEF ThreatFloor
  <2>. QED BY <1>5, <2>1, <2>2, <2>3
<1>. QED
  BY <1>6 DEF Threats, b

\* Against an officer whose cell is known, the worst case is that cell.
LEMMA WorstIsKnown ==
    ASSUME NEW s, NEW c \in Cell, NEW target, NEW left \in Nat
    PROVE  Safety(s, Collapsed(c), target, left)[1] = Against(s, target, c, Horizon(left))
<1>. DEFINE b == Collapsed(c)
            plies == [o \in Threats(b) |-> Against(s, target, o, Horizon(left))]
<1>1. Safety(s, b, target, left)[1] = Min({plies[o] : o \in Threats(b)})
  BY DEF Safety
<1>2. {plies[o] : o \in Threats(b)} = {Against(s, target, c, Horizon(left))}
  BY ThreatIsKnown
<1>3. \A x : Min({x}) = x \/ ~(x <= x)
  BY DEF Min
<1>4. Horizon(left) \in Nat
  BY HorizonAssumption DEF Horizon
<1>5. Against(s, target, c, Horizon(left)) \in Nat
  BY <1>4, AgainstRange
<1>. QED
  BY <1>1, <1>2, <1>3, <1>5

\* The solver looks as far as it may and the game still goes, at least one ply.
LEMMA HorizonFacts ==
    ASSUME NEW left \in Nat
    PROVE  /\ Horizon(left) \in 1 .. SafetyHorizon
           /\ left >= 1 => Horizon(left) <= left
           /\ \A d \in Nat : d <= left /\ d <= SafetyHorizon => d <= Horizon(left)
BY HorizonAssumption DEF Horizon

\* No candidate is worth more than the one a safe thief takes.
LEMMA BestIsTaken ==
    ASSUME CanStay, NEW s, NEW c \in Cell, NEW left \in Nat,
           NEW m \in SafeThief(s, Collapsed(c), left), NEW x \in CandidateMoves(s)
    PROVE  Against(s, x.cell, c, Horizon(left)) <= Against(s, m.cell, c, Horizon(left))
<1>. DEFINE ranked == Ranked(s, Collapsed(c), left)
            rank(y) == Safety(s, Collapsed(c), y.cell, left)
<1>1. ranked = {<<rank(y), y>> : y \in CandidateMoves(s)}
  BY DEF Ranked
<1>2. \A y : rank(y)[1] = Against(s, y.cell, c, Horizon(left))
  BY WorstIsKnown
<1>3. \A y : rank(y)[1] \in Nat
  BY <1>2, HorizonFacts, AgainstRange
<1>. HIDE DEF rank
<1>4. <<rank(x), x>> \in ranked
  BY <1>1
<1>5. m \in {r[2] : r \in {y \in ranked : \A z \in ranked : SafeAs(y[1], z[1])}}
  BY <1>4 DEF SafeThief
<1>6. PICK r \in ranked : r[2] = m /\ \A z \in ranked : SafeAs(r[1], z[1])
  BY <1>5
<1>7. r[1] = rank(m)
  BY <1>1, <1>6
<1>8. SafeAs(rank(m), rank(x))
  BY <1>4, <1>6, <1>7
<1>9. rank(x)[1] <= rank(m)[1]
  <2>1. CASE rank(m) = rank(x)
    BY <1>3, <2>1
  <2>2. CASE \E i \in 1 .. 4 : rank(m)[i] > rank(x)[i] /\ \A j \in 1 .. i - 1 : rank(m)[j] = rank(x)[j]
    <3>1. PICK i \in 1 .. 4 : rank(m)[i] > rank(x)[i] /\ \A j \in 1 .. i - 1 : rank(m)[j] = rank(x)[j]
      BY <2>2
    <3>2. CASE i = 1
      BY <1>3, <3>1, <3>2
    <3>3. CASE i # 1
      <4>1. 1 \in 1 .. i - 1
        BY <3>3
      <4>. QED BY <1>3, <3>1, <4>1
    <3>. QED BY <3>2, <3>3
  <2>. QED BY <1>8, <2>1, <2>2 DEF SafeAs
<1>. QED
  BY <1>2, <1>9


-----------------------------------------------------------------------------
(* Connected regions.                                                      *)

\* The rounds of the flood fill.
LEMMA FloodRounds ==
    ASSUME NEW c \in Cell, NEW walls
    PROVE  /\ Flood(c, walls)[0] = {c} \ walls
           /\ \A n \in Nat :
                 /\ Flood(c, walls)[n] \subseteq Cell \ walls
                 /\ Flood(c, walls)[n + 1]
                      = Flood(c, walls)[n] \cup UNION {Neighbors(x, walls) : x \in Flood(c, walls)[n]}
<1>. DEFINE Grown(X) == X \cup UNION {Neighbors(x, walls) : x \in X}
            S == SUBSET (Cell \ walls)
            g == [X \in S |-> Grown(X)]
<1>1. g \in [S -> S]
  BY NeighborsOpen
<1>2. {c} \ walls \in S
  OBVIOUS
<1>. HIDE DEF S, g
<1>3. PICK f \in [Nat -> S] : f[0] = {c} \ walls /\ \A n \in Nat : f[n + 1] = g[f[n]]
  BY <1>1, <1>2, Recursion
<1>4. \A n \in Nat : f[n + 1] = Grown(f[n])
  BY <1>3 DEF g
<1>. HIDE DEF Grown
<1>. DEFINE Fill(h) == h = [k \in Nat |-> IF k = 0 THEN {c} \ walls ELSE Grown(h[k - 1])]
<1>5. Fill(f)
  <2>. DEFINE h == [k \in Nat |-> IF k = 0 THEN {c} \ walls ELSE Grown(f[k - 1])]
  <2>1. ASSUME NEW k \in Nat PROVE f[k] = h[k]
    <3>1. CASE k = 0
      BY <1>3, <3>1
    <3>2. CASE k # 0
      <4>1. k - 1 \in Nat /\ (k - 1) + 1 = k
        BY <3>2
      <4>2. f[k] = Grown(f[k - 1])
        BY <1>4, <4>1
      <4>. QED BY <3>2, <4>2
    <3>. QED BY <3>1, <3>2
  <2>2. f = [k \in Nat |-> f[k]]
    BY <1>3
  <2>. QED BY <2>1, <2>2
<1>6. Flood(c, walls) = CHOOSE h : Fill(h)
  BY DEF Flood, Grown
<1>. DEFINE h == Flood(c, walls)
<1>7. Fill(h)
  <2>. HIDE DEF Fill
  <2>. QED BY <1>5, <1>6
<1>. HIDE DEF h
<1>8. h[0] = {c} \ walls /\ \A n \in Nat : h[n + 1] = Grown(h[n])
  <2>1. \A k \in Nat : h[k] = IF k = 0 THEN {c} \ walls ELSE Grown(h[k - 1])
    BY <1>7
  <2>2. \A n \in Nat : n + 1 \in Nat /\ n + 1 # 0 /\ (n + 1) - 1 = n
    OBVIOUS
  <2>. QED BY <2>1, <2>2
<1>9. \A n \in Nat : h[n] \in S
  <2>. DEFINE U == {n \in Nat : h[n] \in S}
  <2>1. 0 \in U
    BY <1>2, <1>8
  <2>2. \A n \in Nat : n \in U => n + 1 \in U
    BY <1>1, <1>8 DEF g
  <2>. HIDE DEF U
  <2>3. \A n \in Nat : n \in U
    BY <2>1, <2>2, Induction
  <2>. QED BY <2>3 DEF U
<1>. QED
  BY <1>8, <1>9 DEF h, Grown, S

\* A set that holds the origin and every way on from its cells holds the region.
LEMMA RegionIsLeast ==
    ASSUME NEW c \in Cell, NEW walls, NEW X, {c} \ walls \subseteq X,
           \A x \in X : Neighbors(x, walls) \subseteq X
    PROVE  \A n \in Nat : Flood(c, walls)[n] \subseteq X
<1>. DEFINE U == {n \in Nat : Flood(c, walls)[n] \subseteq X}
<1>1. 0 \in U
  BY FloodRounds
<1>2. ASSUME NEW n \in Nat, n \in U PROVE n + 1 \in U
  <2>1. Flood(c, walls)[n + 1]
          = Flood(c, walls)[n] \cup UNION {Neighbors(x, walls) : x \in Flood(c, walls)[n]}
    BY FloodRounds
  <2>. QED BY <1>2, <2>1
<1>. HIDE DEF U
<1>3. \A n \in Nat : n \in U
  BY <1>1, <1>2, Induction
<1>. QED
  BY <1>3 DEF U

\* The code's number of cells is the number of cells.
LEMMA BoardCount == CellCount \in Nat /\ CellCount = Size * Size /\ Cardinality(Cell) = CellCount
<1>1. Size \in Nat /\ Size >= 2 /\ Size - 1 \in Int
  BY BoardAssumption
<1>2. IsFiniteSet(0 .. Size - 1) /\ Cardinality(0 .. Size - 1) = Size
  <2>1. /\ IsFiniteSet(0 .. Size - 1)
        /\ Cardinality(0 .. Size - 1) = IF 0 > Size - 1 THEN 0 ELSE (Size - 1) - 0 + 1
    BY <1>1, FS_Interval
  <2>. QED BY <1>1, <2>1
<1>3. Cardinality(Cell) = Size * Size
  BY <1>2, FS_Product DEF Cell
<1>4. Size * Size \in Nat
  <2>1. \A n \in Nat : n * n \in Nat
    OBVIOUS
  <2>. QED BY <1>1, <2>1
<1>. QED
  BY <1>3, <1>4 DEF CellCount

\* The region is closed: a round that adds nothing is the last, and there are
\* no more rounds that add something than cells.
LEMMA RegionIsClosed ==
    ASSUME NEW c \in Cell, NEW walls, NEW x \in Reachable(c, walls)
    PROVE  Neighbors(x, walls) \subseteq Reachable(c, walls)
<1>. DEFINE fill == Flood(c, walls)
            Grown(X) == X \cup UNION {Neighbors(y, walls) : y \in X}
            U == {n \in Nat : fill[n] = fill[n + 1] \/ Cardinality(fill[n]) >= n + 1}
<1>1. /\ fill[0] = {c} \ walls
      /\ \A n \in Nat : /\ fill[n] \subseteq Cell
                        /\ fill[n + 1] = Grown(fill[n]) /\ fill[n] \subseteq fill[n + 1]
  BY FloodRounds
<1>0. Grown({}) = {}
  OBVIOUS
<1>. HIDE DEF fill, Grown
<1>2. \A n \in Nat : IsFiniteSet(fill[n]) /\ Cardinality(fill[n]) \in Nat
                     /\ Cardinality(fill[n]) <= CellCount
  BY <1>1, BoardIsFinite, BoardCount, FS_Subset
<1>3. 0 \in U
  <2>1. CASE c \in walls
    <3>1. fill[0] = {} /\ fill[0 + 1] = Grown(fill[0])
      BY <1>1, <2>1
    <3>. QED BY <1>0, <3>1
  <2>2. CASE c \notin walls
    <3>1. fill[0] = {c}
      BY <1>1, <2>2
    <3>. QED BY <3>1, FS_Singleton
  <2>. QED BY <2>1, <2>2
<1>4. ASSUME NEW n \in Nat, n \in U PROVE n + 1 \in U
  <2>1. CASE fill[n] = fill[n + 1]
    <3>1. n + 1 \in Nat
      OBVIOUS
    <3>2. fill[n + 1] = Grown(fill[n]) /\ fill[(n + 1) + 1] = Grown(fill[n + 1])
      BY <1>1, <3>1
    <3>3. fill[n + 1] = fill[(n + 1) + 1]
      BY <2>1, <3>2
    <3>. QED BY <3>1, <3>3
  <2>2. CASE fill[n] # fill[n + 1] /\ Cardinality(fill[n]) >= n + 1
    <3>1. fill[n] \subseteq fill[n + 1] /\ n + 1 \in Nat
      BY <1>1
    <3>2. /\ Cardinality(fill[n]) <= Cardinality(fill[n + 1])
          /\ Cardinality(fill[n]) # Cardinality(fill[n + 1])
      BY <1>2, <2>2, <3>1, FS_Subset
    <3>3. Cardinality(fill[n]) \in Nat /\ Cardinality(fill[n + 1]) \in Nat
      BY <1>2, <3>1
    <3>4. Cardinality(fill[n + 1]) >= (n + 1) + 1
      BY <2>2, <3>2, <3>3
    <3>. QED BY <3>4
  <2>. QED BY <1>4, <2>1, <2>2
<1>. HIDE DEF U
<1>5. CellCount \in U
  BY <1>3, <1>4, BoardCount, Induction
<1>6. fill[CellCount] = fill[CellCount + 1]
  <2>1. CellCount \in Nat /\ Cardinality(fill[CellCount]) \in Nat
        /\ Cardinality(fill[CellCount]) <= CellCount
    BY <1>2, BoardCount
  <2>. QED BY <1>5, <2>1 DEF U
<1>7. Reachable(c, walls) = fill[CellCount]
  BY BoardCount DEF Reachable, ReachableWithin, fill
<1>. QED
  BY <1>1, <1>6, <1>7, BoardCount DEF Grown

\* A region is made of open cells, holds its open origin and every round of the
\* search.
LEMMA RegionFacts ==
    ASSUME NEW c \in Cell, NEW walls
    PROVE  /\ Reachable(c, walls) \subseteq Cell \ walls
           /\ c \notin walls => c \in Reachable(c, walls)
           /\ c \in walls => Reachable(c, walls) = {}
           /\ \A n \in Nat : Flood(c, walls)[n] \subseteq Reachable(c, walls)
<1>1. Reachable(c, walls) = Flood(c, walls)[CellCount] /\ CellCount \in Nat
  BY BoardCount DEF Reachable, ReachableWithin
<1>2. {c} \ walls \subseteq Reachable(c, walls)
  <2>. DEFINE U == {n \in Nat : {c} \ walls \subseteq Flood(c, walls)[n]}
  <2>1. 0 \in U /\ \A n \in Nat : n \in U => n + 1 \in U
    BY FloodRounds
  <2>. HIDE DEF U
  <2>2. CellCount \in U
    BY <1>1, <2>1, Induction
  <2>. QED BY <1>1, <2>2 DEF U
<1>3. c \in walls => Reachable(c, walls) = {}
  <2>1. SUFFICES ASSUME c \in walls PROVE Reachable(c, walls) \subseteq {}
    OBVIOUS
  <2>2. {c} \ walls \subseteq {} /\ \A x \in {} : Neighbors(x, walls) \subseteq {}
    BY <2>1
  <2>3. \A n \in Nat : Flood(c, walls)[n] \subseteq {}
    BY <2>2, RegionIsLeast
  <2>. QED BY <1>1, <2>3
<1>4. Reachable(c, walls) \subseteq Cell \ walls
  BY <1>1, FloodRounds
<1>5. \A n \in Nat : Flood(c, walls)[n] \subseteq Reachable(c, walls)
  BY <1>2, RegionIsClosed, RegionIsLeast
<1>. QED
  BY <1>2, <1>3, <1>4, <1>5

\* A region has no way in from outside when every step can be taken back.
LEMMA StepBack ==
    ASSUME Reversible, NEW c \in Cell, NEW walls, c \notin walls,
           NEW x \in Neighbors(c, walls)
    PROVE  c \in Neighbors(x, walls)
<1>1. PICK d \in Moves : x \in StepFrom(c, d, walls)
  BY DEF Neighbors
<1>2. x = Toward(c, d) /\ x \in Cell \ walls
  BY <1>1, StepFromCell
<1>3. d \in Direction /\ Opposite[d] \in Moves
  BY DEF Moves, Orthogonal, Direction, Reversible
<1>4. RowDelta(Opposite[d]) = 0 - RowDelta(d) /\ ColDelta(Opposite[d]) = 0 - ColDelta(d)
      /\ RowDelta(d) \in Int /\ ColDelta(d) \in Int
  BY <1>3 DEF Direction, Opposite, RowDelta, ColDelta
<1>5. c[1] \in Int /\ c[2] \in Int /\ c = <<c[1], c[2]>>
  BY BoardAssumption DEF Cell
<1>6. Toward(x, Opposite[d]) = c
  BY <1>2, <1>4, <1>5 DEF Toward
<1>7. c \in StepFrom(x, Opposite[d], walls)
  BY <1>3, <1>6 DEF StepFrom
<1>. QED
  BY <1>3, <1>7 DEF Neighbors

\* Whoever steps stays in its region, and so does what it could reach.
LEMMA SameRegion ==
    ASSUME Reversible, NEW c \in Cell, NEW walls, c \notin walls,
           NEW x \in Neighbors(c, walls)
    PROVE  Reachable(c, walls) \subseteq Reachable(x, walls)
<1>1. x \in Cell /\ x \notin walls
  BY NeighborsOpen
<1>2. c \in Reachable(x, walls)
  BY <1>1, StepBack, RegionFacts, RegionIsClosed
<1>3. CellCount \in Nat /\ Reachable(c, walls) = Flood(c, walls)[CellCount]
  BY BoardCount DEF Reachable, ReachableWithin
<1>. QED
  BY <1>1, <1>2, <1>3, RegionIsClosed, RegionIsLeast

\* An empty board is one region when the four orthogonal steps are agreed.
LEMMA EmptyBoardIsConnected ==
    ASSUME Orthogonal \subseteq Moves, NEW c \in Cell
    PROVE  Reachable(c, {}) = Cell
<1>. DEFINE R == Reachable(c, {})
            far(x) == Gap(x[1], c[1]) + Gap(x[2], c[2])
            U == {n \in Nat : \A x \in Cell : far(x) = n => x \in R}
<1>1. Size \in Nat /\ \A x \in Cell : /\ x[1] \in 0 .. Size - 1 /\ x[2] \in 0 .. Size - 1
                                      /\ x = <<x[1], x[2]>>
  BY BoardAssumption DEF Cell
<1>2. \A x \in Cell : far(x) \in Nat
  BY <1>1 DEF Gap
<1>3. 0 \in U
  <2>1. \A x \in Cell : far(x) = 0 => x[1] = c[1] /\ x[2] = c[2]
    BY <1>1 DEF Gap
  <2>2. \A x \in Cell : far(x) = 0 => x = c
    BY <1>1, <2>1
  <2>. QED BY <2>2, RegionFacts
<1>4. ASSUME NEW n \in Nat, n \in U PROVE n + 1 \in U
  <2>. SUFFICES ASSUME NEW x \in Cell, far(x) = n + 1 PROVE x \in R
    OBVIOUS
  <2>1. ASSUME NEW y \in Cell, NEW d \in Orthogonal, far(y) = n, Toward(y, d) = x
        PROVE  x \in R
    <3>1. y \in R
      BY <1>4, <2>1
    <3>2. x \in StepFrom(y, d, {}) /\ d \in Moves
      BY <2>1 DEF StepFrom
    <3>3. x \in Neighbors(y, {})
      BY <3>2 DEF Neighbors
    <3>. QED BY <3>1, <3>3, RegionIsClosed
  <2>2. \A d \in Orthogonal :
          /\ RowDelta(d) = IF d = "N" THEN -1 ELSE IF d = "S" THEN 1 ELSE 0
          /\ ColDelta(d) = IF d = "W" THEN -1 ELSE IF d = "E" THEN 1 ELSE 0
    BY DEF Orthogonal, RowDelta, ColDelta
  <2>3. x[1] \in 0 .. Size - 1 /\ x[2] \in 0 .. Size - 1 /\ c[1] \in 0 .. Size - 1
        /\ c[2] \in 0 .. Size - 1 /\ x = <<x[1], x[2]>>
    BY <1>1
  <2>4. CASE x[1] > c[1]
    <3>. DEFINE y == <<x[1] - 1, x[2]>>
    <3>1. y \in Cell /\ far(y) = n
      <4>0. x[1] - 1 \in 0 .. Size - 1
        BY <1>1, <2>3, <2>4
      <4>1. y[1] = x[1] - 1 /\ y[2] = x[2] /\ y \in Cell
        BY <2>3, <4>0 DEF Cell
      <4>2. Gap(y[1], c[1]) + 1 = Gap(x[1], c[1]) /\ Gap(y[1], c[1]) \in Nat
        BY <2>3, <2>4, <4>1 DEF Gap
      <4>3. Gap(y[2], c[2]) = Gap(x[2], c[2]) /\ Gap(x[2], c[2]) \in Nat
        BY <2>3, <4>1 DEF Gap
      <4>. HIDE DEF y
      <4>. QED BY <4>1, <4>2, <4>3
    <3>2. Toward(y, "S") = x /\ "S" \in Orthogonal
      BY <2>2, <2>3 DEF Toward, Orthogonal
    <3>. QED BY <2>1, <3>1, <3>2
  <2>5. CASE x[1] < c[1]
    <3>. DEFINE y == <<x[1] + 1, x[2]>>
    <3>1. y \in Cell /\ far(y) = n
      <4>0. x[1] + 1 \in 0 .. Size - 1
        BY <1>1, <2>3, <2>5
      <4>1. y[1] = x[1] + 1 /\ y[2] = x[2] /\ y \in Cell
        BY <2>3, <4>0 DEF Cell
      <4>2. Gap(y[1], c[1]) + 1 = Gap(x[1], c[1]) /\ Gap(y[1], c[1]) \in Nat
        BY <2>3, <2>5, <4>1 DEF Gap
      <4>3. Gap(y[2], c[2]) = Gap(x[2], c[2]) /\ Gap(x[2], c[2]) \in Nat
        BY <2>3, <4>1 DEF Gap
      <4>. HIDE DEF y
      <4>. QED BY <4>1, <4>2, <4>3
    <3>2. Toward(y, "N") = x /\ "N" \in Orthogonal
      BY <2>2, <2>3 DEF Toward, Orthogonal
    <3>. QED BY <2>1, <3>1, <3>2
  <2>6. CASE x[2] > c[2]
    <3>. DEFINE y == <<x[1], x[2] - 1>>
    <3>1. y \in Cell /\ far(y) = n
      <4>0. x[2] - 1 \in 0 .. Size - 1
        BY <1>1, <2>3, <2>6
      <4>1. y[1] = x[1] /\ y[2] = x[2] - 1 /\ y \in Cell
        BY <2>3, <4>0 DEF Cell
      <4>2. Gap(y[2], c[2]) + 1 = Gap(x[2], c[2]) /\ Gap(y[2], c[2]) \in Nat
        BY <2>3, <2>6, <4>1 DEF Gap
      <4>3. Gap(y[1], c[1]) = Gap(x[1], c[1]) /\ Gap(x[1], c[1]) \in Nat
        BY <2>3, <4>1 DEF Gap
      <4>. HIDE DEF y
      <4>. QED BY <4>1, <4>2, <4>3
    <3>2. Toward(y, "E") = x /\ "E" \in Orthogonal
      BY <2>2, <2>3 DEF Toward, Orthogonal
    <3>. QED BY <2>1, <3>1, <3>2
  <2>7. CASE x[2] < c[2]
    <3>. DEFINE y == <<x[1], x[2] + 1>>
    <3>1. y \in Cell /\ far(y) = n
      <4>0. x[2] + 1 \in 0 .. Size - 1
        BY <1>1, <2>3, <2>7
      <4>1. y[1] = x[1] /\ y[2] = x[2] + 1 /\ y \in Cell
        BY <2>3, <4>0 DEF Cell
      <4>2. Gap(y[2], c[2]) + 1 = Gap(x[2], c[2]) /\ Gap(y[2], c[2]) \in Nat
        BY <2>3, <2>7, <4>1 DEF Gap
      <4>3. Gap(y[1], c[1]) = Gap(x[1], c[1]) /\ Gap(x[1], c[1]) \in Nat
        BY <2>3, <4>1 DEF Gap
      <4>. HIDE DEF y
      <4>. QED BY <4>1, <4>2, <4>3
    <3>2. Toward(y, "W") = x /\ "W" \in Orthogonal
      BY <2>2, <2>3 DEF Toward, Orthogonal
    <3>. QED BY <2>1, <3>1, <3>2
  <2>. QED BY <2>3, <2>4, <2>5, <2>6, <2>7 DEF Gap
<1>. HIDE DEF U
<1>5. \A n \in Nat : n \in U
  BY <1>3, <1>4, Induction
<1>. HIDE DEF far, R
<1>6. \A x \in Cell : x \in R
  BY <1>2, <1>5 DEF U
<1>. QED
  BY <1>6, RegionFacts DEF R

\* A cell with a distance is in the region.
LEMMA DistancesStayInside ==
    ASSUME NEW c \in Cell, NEW walls
    PROVE  DOMAIN DistanceMap(c, walls) \subseteq Reachable(c, walls)
<1>. DEFINE fill == Flood(c, walls)
            Edge(m, k) == {x \in DOMAIN m : m[x] = k - 1}
            New(m, k) == (UNION {Neighbors(x, walls) : x \in Edge(m, k)}) \ DOMAIN m
            Round(m, k) == [x \in DOMAIN m \cup New(m, k) |-> IF x \in New(m, k) THEN k ELSE m[x]]
            First == [x \in {c} \ walls |-> 0]
            Map(f) == f = [k \in 0 .. CellCount |-> IF k = 0 THEN First ELSE Round(f[k - 1], k)]
<1>1. CellCount \in Nat
  BY BoardCount
<1>2. DistanceMap(c, walls) = (CHOOSE f : Map(f))[CellCount]
  BY DEF DistanceMap
<1>3. \A m, k : DOMAIN Round(m, k) = DOMAIN m \cup New(m, k)
  OBVIOUS
<1>4. \E f : Map(f)
  <2>. DEFINE Maps == UNION {[D -> Nat] : D \in SUBSET Cell}
              S == Nat \X Maps
              g == [s \in S |-> <<s[1] + 1, Round(s[2], s[1] + 1)>>]
              start == <<0, First>>
  <2>1. First \in Maps
    <3>1. First \in [({c} \ walls) -> Nat] /\ {c} \ walls \in SUBSET Cell
      OBVIOUS
    <3>. HIDE DEF First
    <3>. QED BY <3>1
  <2>2. ASSUME NEW m \in Maps, NEW k \in Nat PROVE Round(m, k) \in Maps
    <3>1. PICK D \in SUBSET Cell : m \in [D -> Nat]
      OBVIOUS
    <3>2. New(m, k) \subseteq Cell
      BY NeighborsOpen
    <3>. DEFINE Q == DOMAIN m \cup New(m, k)
    <3>. HIDE DEF New
    <3>3. Q \in SUBSET Cell /\ Round(m, k) \in [Q -> Nat]
      BY <3>1, <3>2
    <3>. HIDE DEF Q, Round
    <3>. QED BY <3>3
  <2>. HIDE DEF Maps, Round, First
  <2>3. g \in [S -> S] /\ start \in S
    BY <2>1, <2>2
  <2>. HIDE DEF S, g, start
  <2>4. PICK f \in [Nat -> S] : f[0] = start /\ \A n \in Nat : f[n + 1] = g[f[n]]
    <3>1. \A R : \A a \in R : \A h \in [R -> R] :
             \E f \in [Nat -> R] : f[0] = a /\ \A n \in Nat : f[n + 1] = h[f[n]]
      BY Recursion
    <3>2. \A a \in S : \A h \in [S -> S] :
             \E f \in [Nat -> S] : f[0] = a /\ \A n \in Nat : f[n + 1] = h[f[n]]
      BY <3>1
    <3>3. \A h \in [S -> S] :
             \E f \in [Nat -> S] : f[0] = start /\ \A n \in Nat : f[n + 1] = h[f[n]]
      BY <2>3, <3>2
    <3>. QED BY <2>3, <3>3
  <2>5. \A n \in Nat : f[n + 1] = <<f[n][1] + 1, Round(f[n][2], f[n][1] + 1)>>
    BY <2>4 DEF g
  <2>. DEFINE U == {n \in Nat : f[n][1] = n}
  <2>6. 0 \in U /\ \A n \in Nat : n \in U => n + 1 \in U
    BY <2>4, <2>5 DEF start
  <2>. HIDE DEF U
  <2>7. \A n \in Nat : n \in U
    BY <2>6, Induction
  <2>8. \A n \in Nat : f[n + 1][2] = Round(f[n][2], n + 1)
    BY <2>5, <2>7 DEF U
  <2>. DEFINE h == [k \in 0 .. CellCount |-> f[k][2]]
  <2>9. ASSUME NEW k \in 0 .. CellCount
        PROVE  h[k] = IF k = 0 THEN First ELSE Round(h[k - 1], k)
    <3>1. CASE k = 0
      BY <2>4, <3>1 DEF start
    <3>2. CASE k # 0
      <4>1. k - 1 \in 0 .. CellCount /\ k - 1 \in Nat /\ (k - 1) + 1 = k
        BY <1>1, <3>2
      <4>2. f[k][2] = Round(f[k - 1][2], k)
        BY <2>8, <4>1
      <4>. QED BY <3>2, <4>1, <4>2
    <3>. QED BY <3>1, <3>2
  <2>. DEFINE i == [k \in 0 .. CellCount |-> IF k = 0 THEN First ELSE Round(h[k - 1], k)]
  <2>10. h = i
    BY <2>9
  <2>11. Map(h)
    BY <2>10 DEF Map
  <2>. HIDE DEF h, Map
  <2>. QED BY <2>11
<1>5. PICK f : Map(f) /\ DistanceMap(c, walls) = f[CellCount]
  <2>. HIDE DEF Map
  <2>. QED BY <1>2, <1>4
<1>6. /\ DOMAIN f[0] = {c} \ walls
      /\ \A k \in Nat : k + 1 <= CellCount => DOMAIN f[k + 1] = DOMAIN f[k] \cup New(f[k], k + 1)
  <2>. HIDE DEF First, New, Round
  <2>1. \A k \in 0 .. CellCount : f[k] = IF k = 0 THEN First ELSE Round(f[k - 1], k)
    BY <1>5
  <2>2. f[0] = First /\ DOMAIN First = {c} \ walls
    BY <1>1, <2>1 DEF First
  <2>3. ASSUME NEW k \in Nat, k + 1 <= CellCount PROVE f[k + 1] = Round(f[k], k + 1)
    <3>1. k + 1 \in 0 .. CellCount /\ k + 1 # 0 /\ (k + 1) - 1 = k
      BY <1>1, <2>3
    <3>. QED BY <2>1, <3>1
  <2>. QED BY <1>3, <2>2, <2>3
<1>. DEFINE U == {k \in Nat : k <= CellCount => DOMAIN f[k] \subseteq fill[k]}
<1>7. 0 \in U
  BY <1>6, FloodRounds
<1>8. ASSUME NEW k \in Nat, k \in U PROVE k + 1 \in U
  <2>. SUFFICES ASSUME k + 1 <= CellCount PROVE DOMAIN f[k + 1] \subseteq fill[k + 1]
    OBVIOUS
  <2>1. DOMAIN f[k] \subseteq fill[k] /\ DOMAIN f[k + 1] = DOMAIN f[k] \cup New(f[k], k + 1)
    BY <1>1, <1>6, <1>8
  <2>2. New(f[k], k + 1) \subseteq UNION {Neighbors(x, walls) : x \in DOMAIN f[k]}
    OBVIOUS
  <2>3. fill[k + 1] = fill[k] \cup UNION {Neighbors(x, walls) : x \in fill[k]}
    BY FloodRounds
  <2>. HIDE DEF fill, New
  <2>. QED BY <2>1, <2>2, <2>3
<1>. HIDE DEF U
<1>9. CellCount \in U
  BY <1>1, <1>7, <1>8, Induction
<1>10. DOMAIN f[CellCount] \subseteq fill[CellCount]
  BY <1>1, <1>9 DEF U
<1>. QED
  BY <1>1, <1>5, <1>10, RegionFacts

-----------------------------------------------------------------------------
(* What the officer believes.                                              *)

\* Adding up a weight that only two cells have.
LEMMA TwoCells ==
    ASSUME NEW S, IsFiniteSet(S), NEW w, NEW a, NEW b, a # b,
           w[a] \in Nat, w[b] \in Nat,
           \A x \in S : x # a /\ x # b => w[x] = 0
    PROVE  WeightOf(w, S) = (IF a \in S THEN w[a] ELSE 0) + (IF b \in S THEN w[b] ELSE 0)
<1>. DEFINE Pick(s) == CHOOSE x \in s : TRUE
            Sum(f) == f = [s \in SUBSET S |->
                             IF s = {} THEN 0 ELSE w[Pick(s)] + f[s \ {Pick(s)}]]
            both(s) == (IF a \in s THEN w[a] ELSE 0) + (IF b \in s THEN w[b] ELSE 0)
<1>1. WeightOf(w, S) = (CHOOSE f : Sum(f))[S]
  BY DEF WeightOf, MapThenSumSet, MapThenFoldSet
<1>2. \A s \in SUBSET S : s # {} => Pick(s) \in s
  OBVIOUS
<1>. HIDE DEF Pick
<1>3. ASSUME NEW s \in SUBSET S, s # {}
      PROVE  both(s) = w[Pick(s)] + both(s \ {Pick(s)})
  <2>. DEFINE x == Pick(s)
  <2>1. x \in s
    BY <1>2, <1>3
  <2>. HIDE DEF x
  <2>2. CASE x = a
    BY <2>1, <2>2 DEF x
  <2>3. CASE x = b
    BY <2>1, <2>3 DEF x
  <2>4. CASE x # a /\ x # b
    <3>1. w[x] = 0 /\ both(s \ {x}) = both(s) /\ both(s) \in Nat
      BY <2>1, <2>4
    <3>. QED BY <3>1 DEF x
  <2>. QED BY <2>2, <2>3, <2>4
<1>4. both({}) = 0
  OBVIOUS
<1>. HIDE DEF both
<1>5. \E f : Sum(f)
  <2>. DEFINE f == [s \in SUBSET S |-> both(s)]
              g == [s \in SUBSET S |-> IF s = {} THEN 0 ELSE w[Pick(s)] + f[s \ {Pick(s)}]]
  <2>1. \A s \in SUBSET S : f[s] = g[s]
    BY <1>3, <1>4
  <2>2. f = g
    BY <2>1
  <2>3. Sum(f)
    BY <2>2
  <2>. HIDE DEF f, Sum
  <2>. QED BY <2>3
<1>6. PICK f : Sum(f) /\ WeightOf(w, S) = f[S]
  <2>. HIDE DEF Sum
  <2>. QED BY <1>1, <1>5
<1>7. \A s \in SUBSET S : f[s] = IF s = {} THEN 0 ELSE w[Pick(s)] + f[s \ {Pick(s)}]
  BY <1>6
\* By the size of the set: all solutions of the recursion agree.
<1>. DEFINE U == {n \in Nat : \A s \in SUBSET S : Cardinality(s) = n => f[s] = both(s)}
<1>8. 0 \in U
  <2>1. \A s \in SUBSET S : Cardinality(s) = 0 => s = {}
    BY FS_Subset, FS_EmptySet
  <2>. QED BY <1>4, <1>7, <2>1
<1>9. ASSUME NEW n \in Nat, n \in U PROVE n + 1 \in U
  <2>. SUFFICES ASSUME NEW s \in SUBSET S, Cardinality(s) = n + 1 PROVE f[s] = both(s)
    OBVIOUS
  <2>1. IsFiniteSet(s) /\ s # {}
    BY FS_Subset, FS_EmptySet
  <2>2. Cardinality(s \ {Pick(s)}) = n
    <3>1. Cardinality(s \ {Pick(s)}) = Cardinality(s) - 1
      BY <1>2, <2>1, FS_RemoveElement
    <3>. QED BY <3>1
  <2>3. f[s \ {Pick(s)}] = both(s \ {Pick(s)})
    BY <1>9, <2>2
  <2>. QED BY <1>3, <1>7, <2>1, <2>3
<1>. HIDE DEF U
<1>10. Cardinality(S) \in U
  BY <1>8, <1>9, FS_CardinalityType, Induction
<1>11. f[S] = both(S)
  BY <1>10 DEF U
<1>. QED
  BY <1>6, <1>11 DEF both

\* Most of the belief is on t, and what is not is on b.
Peaked(belief, t, b) ==
    /\ belief[t] \in 8800 .. 10000
    /\ b # t => belief[b] \in 0 .. 1200
    /\ \A x \in Cell : x # t /\ x # b => belief[x] = 0

\* Arithmetic of the two shares the scent leaves of a belief.
LEMMA SmallShare == \A w \in 0 .. 1200 : w \in Nat /\ w <= 1200
  OBVIOUS

\* Likewise.
LEMMA LargeShare == \A w \in 8800 .. 10000 : w \in Nat /\ w >= 8800
  OBVIOUS

\* So does the scent leave the officer's belief, with the thief on t.
LEMMA BeliefPeaks ==
    ASSUME NEW t \in Cell, NEW b \in Cell, NEW s \in State, t # s.at, t \notin s.walls
    PROVE  Peaked(Decoded(t, b, s), t, b)
<1>. DEFINE raw == [x \in Cell |-> IF t = b /\ x = t THEN Whole
                                   ELSE IF x = t THEN 8800
                                   ELSE IF x = b THEN 1200 ELSE 0]
            kept == [x \in Cell |-> IF x = s.at \/ x \in s.walls THEN 0 ELSE raw[x]]
            total == WeightOf(kept, Cell)
            belief == Decoded(t, b, s)
<1>1. belief = IF total = 0 THEN Uniform ELSE [x \in Cell |-> (Whole * kept[x]) \div total]
  BY DEF Decoded
<1>2. /\ kept[t] = IF t = b THEN 10000 ELSE 8800
      /\ b # t => kept[b] = 0 \/ kept[b] = 1200
      /\ \A x \in Cell : x # t /\ x # b => kept[x] = 0
  BY DEF Whole
<1>. HIDE DEF kept
<1>3. CASE b = t
  <2>1. PICK y \in Cell : y # t
    <3>1. Size \in Nat /\ 0 \in 0 .. Size - 1 /\ 1 \in 0 .. Size - 1
      BY BoardAssumption
    <3>2. <<0, 0>> \in Cell /\ <<0, 1>> \in Cell /\ <<0, 0>> # <<0, 1>>
      BY <3>1 DEF Cell
    <3>. QED BY <3>2
  <2>2. total = 10000
    <3>1. kept[t] = 10000 /\ kept[y] = 0 /\ \A x \in Cell : x # t /\ x # y => kept[x] = 0
      BY <1>2, <1>3, <2>1
    <3>2. WeightOf(kept, Cell) = (IF t \in Cell THEN kept[t] ELSE 0) + (IF y \in Cell THEN kept[y] ELSE 0)
      BY <2>1, <3>1, BoardIsFinite, TwoCells
    <3>. QED BY <3>1, <3>2
  <2>. HIDE DEF total
  <2>3. \A x \in Cell : belief[x] = (10000 * kept[x]) \div 10000
    BY <1>1, <2>2 DEF Whole
  <2>4. (10000 * 10000) \div 10000 = 10000 /\ (10000 * 0) \div 10000 = 0
    OBVIOUS
  <2>. QED BY <1>2, <1>3, <2>3, <2>4 DEF Peaked
<1>4. CASE b # t
  <2>1. total = 8800 + kept[b] /\ (kept[b] = 0 \/ kept[b] = 1200) /\ kept[t] = 8800
    <3>1. kept[t] = 8800 /\ kept[b] \in Nat
      BY <1>2, <1>4
    <3>2. WeightOf(kept, Cell) = (IF t \in Cell THEN kept[t] ELSE 0) + (IF b \in Cell THEN kept[b] ELSE 0)
      BY <1>2, <1>4, <3>1, BoardIsFinite, TwoCells
    <3>. QED BY <1>2, <1>4, <3>1, <3>2
  <2>. HIDE DEF total
  <2>2. \A x \in Cell : belief[x] = (10000 * kept[x]) \div total
    BY <1>1, <2>1 DEF Whole
  <2>3. /\ (10000 * 8800) \div 8800 = 10000 /\ (10000 * 0) \div 8800 = 0
        /\ (10000 * 8800) \div 10000 = 8800 /\ (10000 * 1200) \div 10000 = 1200
        /\ (10000 * 0) \div 10000 = 0
    OBVIOUS
  <2>4. CASE kept[b] = 0
    <3>1. total = 8800
      BY <2>1, <2>4
    <3>. QED BY <1>2, <1>4, <2>1, <2>2, <2>3, <2>4, <3>1 DEF Peaked
  <2>5. CASE kept[b] = 1200
    <3>1. total = 10000
      BY <2>1, <2>5
    <3>. QED BY <1>2, <1>4, <2>1, <2>2, <2>3, <2>5, <3>1 DEF Peaked
  <2>. QED BY <2>1, <2>4, <2>5
<1>5. Peaked(belief, t, b)
  BY <1>3, <1>4 DEF Peaked
<1>. QED
  BY <1>5
-----------------------------------------------------------------------------
(* The inductive invariants.                                               *)

Known ==
    /\ brain["thief"] \in {"safe", "openspace", "greedythief"}
    /\ brain["police"] \in {"architect", "pincher", "greedy", "stranger"}

\* The cell the officer named last.
Declared == IF police.step = 0 THEN {}
            ELSE IF police.last # {} THEN police.last ELSE {police.at}

\* The thief knows where the officer is; the quota is kept; the game goes on
\* only while the thief is in no wall and on no declared cell.
Kept ==
    /\ TypeOK /\ Known
    /\ police.built = Cardinality(police.walls) /\ police.built <= BarriersMax
    /\ sighting = police.at
    /\ verdict = "open" <=> how = "-"
    /\ verdict = "open" => thief.at \notin police.walls /\ thief.step < SurvivalThreshold
    /\ verdict = "open" /\ turn = "thief" => thief.at \notin Declared

\* With a ply promised the officer, about to move, can do nothing at once.
Guarded ==
    /\ GuaranteeHolds
    /\ verdict = "open" /\ turn = "police" /\ promised >= 1 =>
         ~InReach(thief.at, police.at, police.walls) /\ police.at \notin police.walls

\* What is due is in the table of the walls that stand, and fits the clock.
Owed ==
    /\ PromiseKept
    /\ verdict = "open" /\ due >= 1 =>
         LET table == Solve(police.walls, SafetyHorizon)
         IN  /\ BarriersMax <= Cardinality(police.walls)
             /\ brain["thief"] = "safe"
             /\ turn = "thief" => <<thief.at, police.at>> \in table[due].masks /\ due <= StepsLeft
             /\ turn = "police" => <<thief.at, police.at>> \in table[due].replies
                                   /\ due <= StepsLeft + 1

-----------------------------------------------------------------------------
(* What the two kinds of turn do to the state.                             *)

\* What Kept says of each piece of the state.
LEMMA KeptTypes ==
    ASSUME Kept
    PROVE  /\ own \in [Role -> State] /\ thief \in State /\ police \in State
           /\ thief.walls = police.walls /\ police.walls \in SUBSET Cell
           /\ thief.at \in Cell /\ police.at \in Cell /\ sighting = police.at
           /\ thief.step \in Nat /\ police.step \in Nat
           /\ Cardinality(police.walls) \in Nat /\ Cardinality(police.walls) <= BarriersMax
           /\ Cardinality(police.walls) = police.built
           /\ BarriersMax \in Nat /\ SafetyHorizon \in Nat /\ SafetyHorizon >= 1
           /\ SurvivalThreshold \in Nat /\ SurvivalThreshold >= 1
           /\ promised \in Nat /\ due \in Nat /\ promised <= SafetyHorizon /\ due <= SafetyHorizon
           /\ StepsLeft \in Nat
           /\ verdict = "open" => StepsLeft = SurvivalThreshold - thief.step /\ StepsLeft >= 1
<1>1. own \in [Role -> State] /\ thief \in State /\ police \in State
  BY DEF Kept, TypeOK, Role, thief, police
<1>2. thief.step \in Nat /\ SurvivalThreshold \in Nat /\ SurvivalThreshold >= 1
  BY <1>1, RulesAssumption DEF State
<1>3. /\ StepsLeft \in Nat
      /\ verdict = "open" => StepsLeft = SurvivalThreshold - thief.step /\ StepsLeft >= 1
  BY <1>2 DEF Kept, StepsLeft
<1>4. SafetyHorizon \in Nat /\ SafetyHorizon >= 1 /\ BarriersMax \in Nat
  BY HorizonAssumption, RulesAssumption
<1>5. thief.walls = police.walls
  BY DEF Kept, TypeOK
<1>6. promised \in Nat /\ due \in Nat /\ promised <= SafetyHorizon /\ due <= SafetyHorizon
  BY <1>4 DEF Kept, TypeOK
<1>7. /\ police.walls \in SUBSET Cell /\ thief.at \in Cell /\ police.at \in Cell
      /\ police.step \in Nat /\ police.built \in Nat
  BY <1>1 DEF State
<1>8. sighting = police.at /\ Cardinality(police.walls) = police.built /\ police.built <= BarriersMax
  BY DEF Kept
<1>. QED
  BY <1>1, <1>2, <1>3, <1>4, <1>5, <1>6, <1>7, <1>8

\* The thief's half-turn: one of its brain's choices, carried out as chosen.
LEMMA ThiefTurn ==
    ASSUME CanStay, Kept, ThiefPlays
    PROVE  \E m \in ThiefChoices :
             /\ m \in CandidateMoves(thief)
             /\ police' = police /\ own' \in [Role -> State] /\ thief'.at = m.cell
             /\ thief'.walls = thief.walls /\ thief'.step = thief.step + 1
             /\ slipped' = slipped
             /\ promised' = IF brain["thief"] # "safe" THEN 0
                            ELSE Safety(thief, Collapsed(sighting), m.cell, StepsLeft)[1]
             /\ due' = IF Cardinality(thief.walls) < BarriersMax THEN 0
                       ELSE Max({due, promised'})
             /\ IF thief.step + 1 >= SurvivalThreshold THEN verdict' = "survival" /\ how' = "clock"
                ELSE verdict' = verdict /\ how' = how
<1>1. thief \in State /\ brain["thief"] \in {"safe", "openspace", "greedythief"}
      /\ own \in [Role -> State]
  BY KeptTypes DEF Kept, Known
<1>. DEFINE worst(m) == IF brain["thief"] # "safe" THEN 0
                        ELSE Safety(thief, Collapsed(sighting), m.cell, StepsLeft)[1]
<1>2. PICK m \in ThiefChoices :
             /\ Slip("thief", m)
             /\ own' = [own EXCEPT !["thief"] = Act("thief", m)]
             /\ promised' = worst(m)
             /\ due' = IF Cardinality(thief.walls) < BarriersMax THEN 0 ELSE Max({due, worst(m)})
             /\ IF ThiefSurvives("thief", Act("thief", m)) THEN Ends("survival", "clock")
                ELSE UNCHANGED <<verdict, how>>
  BY DEF ThiefPlays
<1>3. m \in CandidateMoves(thief)
  BY <1>1, ThiefCandidates
<1>. DEFINE d == [move |-> m.move, dir |-> m.dir]
            t == ApplyMove("thief", thief, d)
<1>4. /\ IsLegal("thief", thief, d) /\ t.at = m.cell /\ t.walls = thief.walls
      /\ t.step = thief.step + 1 /\ t \in State
  BY <1>1, <1>3, MoveApplied DEF Role
<1>. HIDE DEF d, t
<1>5. Act("thief", m) = t
  BY <1>4 DEF Act, d, t, thief
<1>6. own'["thief"] = t /\ own'["police"] = own["police"] /\ own' \in [Role -> State]
  BY <1>1, <1>2, <1>4, <1>5 DEF Role
<1>7. slipped' = slipped
  <2>1. slipped \in {TRUE, FALSE}
    BY DEF Kept, TypeOK
  <2>. QED BY <1>2, <1>4, <2>1 DEF Slip, d, thief
<1>8. ThiefSurvives("thief", t) <=> thief.step + 1 >= SurvivalThreshold
  BY <1>4 DEF ThiefSurvives
<1>. HIDE DEF worst
<1>9. IF thief.step + 1 >= SurvivalThreshold THEN verdict' = "survival" /\ how' = "clock"
      ELSE verdict' = verdict /\ how' = how
  BY <1>2, <1>5, <1>8 DEF Ends
<1>10. /\ police' = police /\ thief'.at = m.cell /\ thief'.walls = thief.walls
       /\ thief'.step = thief.step + 1
  BY <1>4, <1>6 DEF police, thief
<1>. QED
  BY <1>2, <1>3, <1>6, <1>7, <1>9, <1>10 DEF worst

\* The officer's half-turn: a step, a hold, or one wall of its quota.
LEMMA OfficerTurn ==
    ASSUME CanStay, Kept, OfficerPlays
    PROVE  /\ own' \in [Role -> State] /\ police'.step = police.step + 1
           /\ thief'.at = thief.at /\ thief'.step = thief.step
           /\ thief'.walls = thief.walls \cup police'.last
           /\ sighting' = police'.at /\ slipped' = slipped
           /\ \/ /\ police'.at \in Options(police.at, police.walls)
                 /\ police'.walls = police.walls /\ police'.built = police.built
                 /\ police'.last = {}
              \/ \E w \in Buildable(police) :
                    /\ police.built < BarriersMax /\ police'.at = police.at
                    /\ police'.walls = police.walls \cup {w}
                    /\ police'.built = police.built + 1 /\ police'.last = {w}
           /\ IF thief.at \in police'.last THEN verdict' = "capture" /\ how' = "sealed"
              ELSE IF thief.at = police'.at THEN verdict' = "capture" /\ how' = "stepped"
              ELSE verdict' = verdict /\ how' = how
<1>1. thief \in State /\ police \in State /\ own \in [Role -> State]
      /\ brain["police"] \in {"architect", "pincher", "greedy", "stranger"}
  BY KeptTypes DEF Kept, Known
<1>2. PICK belief \in OfficerBeliefs : \E m \in OfficerChoices(belief) :
          LET mine == Act("police", m)
          IN  /\ Slip("police", m)
              /\ own' = [own EXCEPT !["police"] = mine,
                                    !["thief"] = NoteBarrier(thief, mine.last)]
              /\ sighting' = mine.at
              /\ IF thief.at \in mine.last THEN Ends("capture", "sealed")
                 ELSE IF thief.at = mine.at THEN Ends("capture", "stepped")
                 ELSE UNCHANGED <<verdict, how>>
  BY DEF OfficerPlays
<1>3. PICK m \in OfficerChoices(belief) :
          LET mine == Act("police", m)
          IN  /\ Slip("police", m)
              /\ own' = [own EXCEPT !["police"] = mine,
                                    !["thief"] = NoteBarrier(thief, mine.last)]
              /\ sighting' = mine.at
              /\ IF thief.at \in mine.last THEN Ends("capture", "sealed")
                 ELSE IF thief.at = mine.at THEN Ends("capture", "stepped")
                 ELSE UNCHANGED <<verdict, how>>
  BY <1>2
<1>4. m \in AnyLegal(police)
  BY <1>1, OfficerChoosesLegally
<1>. DEFINE d == [move |-> m.move, dir |-> m.dir]
            t == ApplyMove("police", police, d)
<1>5. /\ IsLegal("police", police, d) /\ t \in State /\ t.step = police.step + 1
      /\ \/ /\ t.at \in Options(police.at, police.walls)
            /\ t.walls = police.walls /\ t.built = police.built /\ t.last = {}
         \/ \E w \in Buildable(police) :
               /\ police.built < BarriersMax /\ t.at = police.at
               /\ t.walls = police.walls \cup {w} /\ t.built = police.built + 1 /\ t.last = {w}
  BY <1>1, <1>4, OfficerApplied
<1>. HIDE DEF d, t
<1>6. Act("police", m) = t
  BY <1>5 DEF Act, d, t, police
<1>7. NoteBarrier(thief, t.last) \in State
      /\ NoteBarrier(thief, t.last).at = thief.at /\ NoteBarrier(thief, t.last).step = thief.step
      /\ NoteBarrier(thief, t.last).walls = thief.walls \cup t.last
  BY <1>1, <1>5 DEF NoteBarrier, State
<1>8. own'["police"] = t /\ own'["thief"] = NoteBarrier(thief, t.last)
      /\ own' \in [Role -> State]
  BY <1>1, <1>3, <1>5, <1>6, <1>7 DEF Role
<1>9. slipped' = slipped
  <2>1. slipped \in {TRUE, FALSE}
    BY DEF Kept, TypeOK
  <2>. QED BY <1>3, <1>5, <2>1 DEF Slip, d, police
<1>10. police' = t /\ thief' = NoteBarrier(thief, t.last)
  BY <1>8 DEF police, thief
<1>11. /\ sighting' = t.at
       /\ IF thief.at \in t.last THEN verdict' = "capture" /\ how' = "sealed"
          ELSE IF thief.at = t.at THEN verdict' = "capture" /\ how' = "stepped"
          ELSE verdict' = verdict /\ how' = how
  BY <1>3, <1>6 DEF Ends
<1>. QED
  BY <1>5, <1>7, <1>8, <1>9, <1>10, <1>11

\* What a destination is worth to a thief that knows where the officer stands.
LEMMA PromisedRange ==
    ASSUME Kept, NEW m
    PROVE  LET worst == Safety(thief, Collapsed(sighting), m.cell, StepsLeft)[1]
           IN  /\ worst = Against(thief, m.cell, police.at, Horizon(StepsLeft))
               /\ worst \in 0 .. Horizon(StepsLeft) /\ worst \in 0 .. SafetyHorizon
<1>1. sighting = police.at /\ police.at \in Cell /\ StepsLeft \in Nat /\ SafetyHorizon \in Nat
  BY KeptTypes
<1>2. Safety(thief, Collapsed(sighting), m.cell, StepsLeft)[1]
        = Against(thief, m.cell, police.at, Horizon(StepsLeft))
  BY <1>1, WorstIsKnown
<1>3. Horizon(StepsLeft) \in 1 .. SafetyHorizon
  BY <1>1, HorizonFacts
<1>4. Horizon(StepsLeft) \in Nat
  BY <1>1, <1>3
<1>5. Against(thief, m.cell, police.at, Horizon(StepsLeft)) \in 0 .. Horizon(StepsLeft)
  BY <1>4, AgainstRange
<1>. QED
  BY <1>1, <1>2, <1>3, <1>5

\* The greater of two numbers.
LEMMA MaxOfTwo ==
    ASSUME NEW a \in Nat, NEW b \in Nat
    PROVE  Max({a, b}) = IF a >= b THEN a ELSE b
<1>1. \E x \in {a, b} : \A y \in {a, b} : x >= y
  OBVIOUS
<1>. DEFINE x == Max({a, b})
<1>2. x \in {a, b} /\ \A y \in {a, b} : x >= y
  BY <1>1 DEF Max
<1>. HIDE DEF x
<1>3. (x = a \/ x = b) /\ x >= a /\ x >= b
  BY <1>2
<1>. QED
  BY <1>3 DEF x

\* A game opens in Kept.
LEMMA KeptInit == Init => Kept
<1>. SUFFICES ASSUME Init PROVE Kept
  OBVIOUS
<1>1. PICK start \in Starts : /\ own = [r \in Role |-> FreshState(start[r])]
                              /\ sighting = start["police"]
  BY DEF Init
<1>2. start["thief"] \in Cell /\ start["police"] \in Cell
  BY ArenaAssumption
<1>3. \A r \in Role : FreshState(start[r]) \in State
  BY <1>2 DEF FreshState, State, Role
<1>4. /\ thief = FreshState(start["thief"]) /\ police = FreshState(start["police"])
      /\ own \in [Role -> State]
  BY <1>1, <1>3 DEF Role, thief, police
<1>5. Known
  BY ArenaAssumption DEF Init, Known, Role
<1>6. TypeOK
  <2>1. thief.walls = police.walls
    BY <1>4 DEF FreshState
  <2>2. sighting \in Cell /\ turn \in Role
    BY <1>1, <1>2 DEF Init, Role
  <2>3. promised \in 0 .. SafetyHorizon /\ due \in 0 .. SafetyHorizon
    BY HorizonAssumption DEF Init
  <2>4. verdict \in {"open", "capture", "survival"} /\ slipped \in {TRUE, FALSE}
    BY DEF Init
  <2>. QED BY <1>4, <2>1, <2>2, <2>3, <2>4 DEF TypeOK
<1>7. police.built = Cardinality(police.walls) /\ police.built <= BarriersMax /\ sighting = police.at
  BY <1>1, <1>4, BoardIsFinite, RulesAssumption DEF FreshState
<1>8. thief.at \notin police.walls /\ thief.step < SurvivalThreshold /\ Declared = {}
  BY <1>4, RulesAssumption DEF FreshState, Declared
<1>. QED
  BY <1>5, <1>6, <1>7, <1>8 DEF Init, Kept

\* Each half-turn keeps Kept, and no brain slips.
LEMMA KeptStep ==
    ASSUME CanStay, Kept, [Next]_vars
    PROVE  Kept' /\ slipped' = slipped
<1>1. CASE UNCHANGED vars
  <2>1. thief' = thief /\ police' = police /\ Declared' = Declared
    BY <1>1 DEF vars, thief, police, Declared
  <2>. QED BY <1>1, <2>1 DEF vars, Kept, Known, TypeOK
<1>2. CASE ThiefIsEnclosed
  <2>1. thief' = thief /\ police' = police
    BY <1>2 DEF ThiefIsEnclosed, thief, police
  <2>2. verdict' = "capture" /\ how' = "enclosure"
    BY <1>2 DEF ThiefIsEnclosed, Ends
  <2>. QED BY <1>2, <2>1, <2>2 DEF ThiefIsEnclosed, Kept, Known, TypeOK
<1>3. CASE ThiefPlays
  <2>1. PICK m \in ThiefChoices :
             /\ m \in CandidateMoves(thief)
             /\ police' = police /\ own' \in [Role -> State] /\ thief'.at = m.cell
             /\ thief'.walls = thief.walls /\ thief'.step = thief.step + 1
             /\ slipped' = slipped
             /\ promised' = IF brain["thief"] # "safe" THEN 0
                            ELSE Safety(thief, Collapsed(sighting), m.cell, StepsLeft)[1]
             /\ due' = IF Cardinality(thief.walls) < BarriersMax THEN 0
                       ELSE Max({due, promised'})
             /\ IF thief.step + 1 >= SurvivalThreshold THEN verdict' = "survival" /\ how' = "clock"
                ELSE verdict' = verdict /\ how' = how
    BY <1>3, ThiefTurn
  <2>2. /\ turn' = "police" /\ brain' = brain /\ sighting' = sighting /\ verdict = "open"
        /\ how = "-"
    BY <1>3 DEF ThiefPlays, Kept
  <2>3. promised' \in Nat /\ promised' <= SafetyHorizon
    BY <2>1, PromisedRange, KeptTypes
  <2>4. due' \in Nat /\ due' <= SafetyHorizon
    <3>1. due \in Nat /\ due <= SafetyHorizon
      BY KeptTypes
    <3>2. Max({due, promised'}) = IF due >= promised' THEN due ELSE promised'
      BY <2>3, <3>1, MaxOfTwo
    <3>3. due' = 0 \/ due' = Max({due, promised'})
      BY <2>1
    <3>. QED BY <2>3, <3>1, <3>2, <3>3, KeptTypes
  <2>5. TypeOK'
    <3>1. promised' \in 0 .. SafetyHorizon /\ due' \in 0 .. SafetyHorizon
      BY <2>3, <2>4, KeptTypes
    <3>2. thief'.walls = police'.walls
      BY <2>1, KeptTypes
    <3>3. slipped' \in {TRUE, FALSE} /\ sighting' \in Cell /\ turn' \in Role
      BY <2>1, <2>2 DEF Kept, TypeOK, Role
    <3>4. verdict' \in {"open", "capture", "survival"}
      BY <2>1, <2>2
    <3>. QED BY <2>1, <3>1, <3>2, <3>3, <3>4 DEF TypeOK
  <2>6. thief'.at \notin police'.walls
    <3>1. m.cell \in Options(thief.at, thief.walls)
      BY <2>1, Candidates
    <3>. QED BY <2>1, <2>2, <3>1, KeptTypes, NeighborsOpen DEF Kept, Options
  <2>7. verdict' = "open" => thief'.step < SurvivalThreshold
    BY <2>1, KeptTypes
  <2>8. verdict' = "open" <=> how' = "-"
    BY <2>1, <2>2
  <2>9. Known' /\ sighting' = police'.at
    BY <2>1, <2>2 DEF Kept, Known
  <2>10. police'.built = Cardinality(police'.walls) /\ police'.built <= BarriersMax
    BY <2>1 DEF Kept
  <2>. QED BY <2>1, <2>2, <2>5, <2>6, <2>7, <2>8, <2>9, <2>10 DEF Kept
<1>4. CASE OfficerPlays
  <2>1. /\ own' \in [Role -> State] /\ police'.step = police.step + 1
        /\ thief'.at = thief.at /\ thief'.step = thief.step
        /\ thief'.walls = thief.walls \cup police'.last
        /\ sighting' = police'.at /\ slipped' = slipped
        /\ \/ /\ police'.at \in Options(police.at, police.walls)
              /\ police'.walls = police.walls /\ police'.built = police.built
              /\ police'.last = {}
           \/ \E w \in Buildable(police) :
                 /\ police.built < BarriersMax /\ police'.at = police.at
                 /\ police'.walls = police.walls \cup {w}
                 /\ police'.built = police.built + 1 /\ police'.last = {w}
        /\ IF thief.at \in police'.last THEN verdict' = "capture" /\ how' = "sealed"
           ELSE IF thief.at = police'.at THEN verdict' = "capture" /\ how' = "stepped"
           ELSE verdict' = verdict /\ how' = how
    BY <1>4, OfficerTurn
  <2>2. /\ turn' = "thief" /\ brain' = brain /\ promised' = promised /\ verdict = "open"
        /\ how = "-" /\ due' = IF due = 0 THEN 0 ELSE due - 1
    BY <1>4 DEF OfficerPlays, Kept
  <2>3. police'.walls = police.walls \cup police'.last
    BY <2>1
  <2>4. police'.built = Cardinality(police'.walls) /\ police'.built <= BarriersMax
    <3>1. ASSUME NEW w \in Buildable(police)
          PROVE  Cardinality(police.walls \cup {w}) = Cardinality(police.walls) + 1
      <4>1. w \notin police.walls
        BY DEF Buildable
      <4>2. IsFiniteSet(police.walls)
        BY KeptTypes, BoardIsFinite
      <4>. QED BY <4>1, <4>2, FS_AddElement
    <3>. QED BY <2>1, <3>1, KeptTypes
  <2>5. due' \in 0 .. SafetyHorizon /\ promised' \in 0 .. SafetyHorizon
    BY <2>2, KeptTypes
  <2>6. police'.at \in Cell
    <3>1. police' \in State
      BY <2>1 DEF police, Role
    <3>. QED BY <3>1 DEF State
  <2>7. TypeOK'
    <3>1. thief'.walls = police'.walls
      BY <2>1, <2>3, KeptTypes
    <3>2. slipped' \in {TRUE, FALSE} /\ sighting' \in Cell /\ turn' \in Role
      BY <2>1, <2>2, <2>6 DEF Kept, TypeOK, Role
    <3>3. verdict' \in {"open", "capture", "survival"}
      BY <2>1, <2>2
    <3>. QED BY <2>1, <2>5, <3>1, <3>2, <3>3 DEF TypeOK
  <2>8. verdict' = "open" <=> how' = "-"
    BY <2>1, <2>2
  <2>9. verdict' = "open" => thief'.at \notin police'.walls /\ thief'.step < SurvivalThreshold
    BY <2>1, <2>2, <2>3 DEF Kept
  <2>10. verdict' = "open" => thief'.at \notin Declared'
    <3>1. police'.step # 0
      BY <2>1, KeptTypes
    <3>. QED BY <2>1, <3>1 DEF Declared
  <2>. QED BY <2>1, <2>2, <2>4, <2>7, <2>8, <2>9, <2>10 DEF Kept, Known
<1>. QED
  BY <1>1, <1>2, <1>3, <1>4 DEF Next, ThiefIsEnclosed, vars


-----------------------------------------------------------------------------
(* What a promise is worth.                                                *)

\* A ply promised to the thief is a ply the officer cannot take away.
LEMMA GuardedStep ==
    ASSUME CanStay, Kept, Guarded, [Next]_vars
    PROVE  Guarded'
<1>1. CASE UNCHANGED vars
  BY <1>1 DEF vars, Guarded, GuaranteeHolds, InReach, IsImmobilised, thief, police
<1>2. CASE ThiefIsEnclosed
  <2>1. thief' = thief /\ police' = police
    BY <1>2 DEF ThiefIsEnclosed, thief, police
  <2>2. turn = "thief" /\ turn' = turn /\ promised' = promised /\ IsImmobilised(thief)
    BY <1>2 DEF ThiefIsEnclosed
  <2>3. ~(promised >= 1 /\ police.at \notin police.walls)
    BY <2>2 DEF Guarded, GuaranteeHolds
  <2>. QED BY <2>1, <2>2, <2>3 DEF Guarded, GuaranteeHolds
<1>3. CASE ThiefPlays
  <2>1. PICK m \in ThiefChoices :
             /\ police' = police /\ thief'.at = m.cell /\ thief'.walls = thief.walls
             /\ promised' = IF brain["thief"] # "safe" THEN 0
                            ELSE Safety(thief, Collapsed(sighting), m.cell, StepsLeft)[1]
    BY <1>3, ThiefTurn
  <2>2. turn' = "police"
    BY <1>3 DEF ThiefPlays
  <2>3. ASSUME promised' >= 1
        PROVE  ~InReach(m.cell, police.at, police.walls) /\ police.at \notin police.walls
    <3>1. promised' = Against(thief, m.cell, police.at, Horizon(StepsLeft))
      BY <2>1, <2>3, PromisedRange
    <3>2. Horizon(StepsLeft) \in 1 .. SafetyHorizon
      BY KeptTypes, HorizonFacts
    <3>3. thief \in State /\ Cardinality(thief.walls) <= BarriersMax /\ thief.walls = police.walls
      BY KeptTypes
    <3>. QED BY <2>3, <3>1, <3>2, <3>3, WorthMeansSafe
  <2>. QED BY <2>1, <2>2, <2>3 DEF Guarded, GuaranteeHolds
<1>4. CASE OfficerPlays
  <2>1. /\ verdict = "open" /\ turn = "police" /\ turn' = "thief" /\ promised' = promised
    BY <1>4 DEF OfficerPlays
  <2>2. SUFFICES ASSUME promised >= 1, police'.at \notin police'.walls
                 PROVE  verdict' # "capture" /\ ~IsImmobilised(thief')
    BY <2>1 DEF Guarded, GuaranteeHolds
  <2>3. ~InReach(thief.at, police.at, police.walls)
    BY <2>1, <2>2 DEF Guarded
  <2>4. /\ thief'.at = thief.at /\ thief'.walls = police.walls \cup police'.last
        /\ \/ /\ police'.at \in Options(police.at, police.walls)
              /\ police'.last = {}
           \/ \E w \in Buildable(police) :
                 /\ police.built < BarriersMax /\ police'.at = police.at
                 /\ police'.walls = police.walls \cup {w} /\ police'.last = {w}
        /\ IF thief.at \in police'.last THEN verdict' = "capture" /\ how' = "sealed"
           ELSE IF thief.at = police'.at THEN verdict' = "capture" /\ how' = "stepped"
           ELSE verdict' = verdict /\ how' = how
    BY <1>4, OfficerTurn, KeptTypes
  <2>5. CASE police'.at \in Options(police.at, police.walls) /\ police'.last = {}
    <3>1. thief.at # police'.at /\ Neighbors(thief.at, police.walls) # {}
      BY <2>3, <2>5 DEF InReach
    <3>. QED BY <2>1, <2>4, <2>5, <3>1 DEF IsImmobilised
  <2>6. CASE \E w \in Buildable(police) :
                 /\ police.built < BarriersMax /\ police'.at = police.at
                 /\ police'.walls = police.walls \cup {w} /\ police'.last = {w}
    <3>1. PICK w \in Buildable(police) :
                 /\ police.built < BarriersMax /\ police'.at = police.at
                 /\ police'.walls = police.walls \cup {w} /\ police'.last = {w}
      BY <2>6
    <3>2. w # police.at
      BY <2>2, <3>1
    <3>3. w \in Neighbors(police.at, police.walls)
      BY <3>2 DEF Buildable
    <3>4. Cardinality(police.walls) < BarriersMax
      BY <3>1, KeptTypes
    <3>5. thief.at # w /\ thief.at # police.at /\ Neighbors(thief.at, police.walls \cup {w}) # {}
      BY <2>3, <3>3, <3>4 DEF InReach, Options
    <3>. QED BY <2>1, <2>4, <3>1, <3>5 DEF IsImmobilised
  <2>. QED BY <2>4, <2>5, <2>6
<1>. QED
  BY <1>1, <1>2, <1>3, <1>4 DEF Next

\* What is due goes down one layer of the table with every turn of the thief.
LEMMA OwedStep ==
    ASSUME CanStay, Kept, Kept', Owed, [Next]_vars
    PROVE  Owed'
<1>. DEFINE table == Solve(police.walls, SafetyHorizon)
<1>0. due \in Nat /\ due <= SafetyHorizon /\ SafetyHorizon \in Nat /\ StepsLeft \in Nat
      /\ police.walls = thief.walls
  BY KeptTypes
<1>1. CASE UNCHANGED vars
  <2>1. thief' = thief /\ police' = police /\ StepsLeft' = StepsLeft
    BY <1>1 DEF vars, thief, police, StepsLeft
  <2>. QED BY <1>1, <2>1 DEF vars, Owed, PromiseKept
<1>2. CASE ThiefIsEnclosed
  <2>1. /\ verdict = "open" /\ turn = "thief" /\ due' = due /\ verdict' = "capture"
        /\ Neighbors(thief.at, police.walls) = {}
    BY <1>0, <1>2 DEF ThiefIsEnclosed, Ends, IsImmobilised
  <2>2. due = 0
    <3>1. SUFFICES ASSUME due >= 1 PROVE FALSE
      BY <1>0
    <3>2. <<thief.at, police.at>> \in table[due].masks
      BY <2>1, <3>1 DEF Owed
    <3>3. due \in 0 .. SafetyHorizon
      BY <1>0
    <3>. QED BY <1>0, <2>1, <3>2, <3>3, SurvivorsMove
  <2>. QED BY <2>1, <2>2 DEF Owed, PromiseKept
<1>3. CASE ThiefPlays
  <2>1. PICK m \in ThiefChoices :
             /\ m \in CandidateMoves(thief)
             /\ police' = police /\ thief'.at = m.cell
             /\ thief'.step = thief.step + 1
             /\ promised' = IF brain["thief"] # "safe" THEN 0
                            ELSE Safety(thief, Collapsed(sighting), m.cell, StepsLeft)[1]
             /\ due' = IF Cardinality(thief.walls) < BarriersMax THEN 0
                       ELSE Max({due, promised'})
             /\ IF thief.step + 1 >= SurvivalThreshold THEN verdict' = "survival" /\ how' = "clock"
                ELSE verdict' = verdict /\ how' = how
    BY <1>3, ThiefTurn
  <2>2. /\ turn' = "police" /\ brain' = brain /\ verdict = "open" /\ turn = "thief"
    BY <1>3 DEF ThiefPlays
  <2>3. verdict' # "capture"
    BY <2>1, <2>2
  <2>4. ASSUME verdict' = "open", due' >= 1
        PROVE  /\ BarriersMax <= Cardinality(police.walls)
               /\ brain["thief"] = "safe"
               /\ <<m.cell, police.at>> \in table[due'].replies
               /\ due' <= StepsLeft' + 1
    <3>1. BarriersMax <= Cardinality(police.walls) /\ due' = Max({due, promised'})
      BY <1>0, <2>1, <2>4, KeptTypes
    <3>2. promised' \in Nat
      BY <2>1, PromisedRange, KeptTypes
    <3>3. due' = IF due >= promised' THEN due ELSE promised'
      BY <1>0, <3>1, <3>2, MaxOfTwo
    <3>4. brain["thief"] = "safe"
      <4>1. SUFFICES ASSUME brain["thief"] # "safe" PROVE FALSE
        OBVIOUS
      <4>2. promised' = 0
        BY <2>1, <4>1
      <4>3. due >= 1
        BY <1>0, <2>4, <3>3, <4>2
      <4>. QED BY <2>2, <4>1, <4>3 DEF Owed
    <3>. DEFINE deep == Horizon(StepsLeft)
                worth(c) == Against(thief, c, police.at, deep)
    <3>5. deep \in 1 .. SafetyHorizon /\ deep \in Nat /\ deep <= StepsLeft
      BY <1>0, <2>2, HorizonFacts, KeptTypes
    <3>6. promised' = worth(m.cell) /\ promised' \in 0 .. deep
      BY <2>1, <3>4, PromisedRange
    <3>7. Solved[thief.walls] = table
      BY <1>0, KeptTypes, TablesAtHand
    <3>8. \A c : worth(c) = PliesAfterMove(table, c, police.at, deep)
      BY <1>0, <3>1, <3>7 DEF Against
    <3>. HIDE DEF worth, deep, table
    <3>9. due <= promised'
      <4>1. CASE due = 0
        BY <4>1, <3>2
      <4>2. CASE due >= 1
        <5>1. <<thief.at, police.at>> \in table[due].masks /\ due <= StepsLeft
          BY <2>2, <4>2 DEF Owed, table
        <5>2. due \in 1 .. SafetyHorizon
          BY <1>0, <4>2
        <5>3. table[due].masks = ThiefMove(police.walls, table[due].replies)
          BY <1>0, <5>2, LayerFacts DEF table
        <5>4. PICK c \in Options(thief.at, thief.walls) : <<c, police.at>> \in table[due].replies
          BY <1>0, <5>1, <5>3 DEF ThiefMove
        <5>5. PICK x \in CandidateMoves(thief) : x.cell = c
          BY Candidates
        <5>6. due \in 1 .. deep
          <6>1. due <= deep
            BY <1>0, <5>1, HorizonFacts DEF deep
          <6>. QED BY <1>0, <3>5, <4>2, <6>1
        <5>7. due <= worth(x.cell)
          BY <3>5, <3>8, <5>4, <5>5, <5>6, PliesFacts
        <5>8. m \in SafeThief(thief, Collapsed(police.at), StepsLeft)
          BY <2>1, <3>4, KeptTypes DEF ThiefChoices
        <5>9. worth(x.cell) <= worth(m.cell)
          BY <1>0, <5>8, BestIsTaken, KeptTypes DEF worth, deep
        <5>10. worth(x.cell) \in Nat /\ worth(m.cell) \in Nat
          <6>1. \A c1 : PliesAfterMove(table, c1, police.at, deep) \in 0 .. deep
            BY <3>5, PliesFacts
          <6>. QED BY <3>5, <3>8, <6>1
        <5>. QED BY <1>0, <3>6, <5>7, <5>9, <5>10
      <4>. QED BY <1>0, <4>1, <4>2
    <3>10. due' = promised' /\ promised' \in Nat /\ promised' <= deep
      BY <1>0, <3>2, <3>3, <3>5, <3>6, <3>9
    <3>11. <<m.cell, police.at>> \in table[due'].replies
      BY <2>4, <3>5, <3>6, <3>8, <3>10, PliesFacts
    <3>12. StepsLeft' + 1 = StepsLeft
      BY <2>1, <2>2, <2>4, KeptTypes DEF StepsLeft
    <3>13. due' <= StepsLeft' + 1
      BY <1>0, <3>5, <3>10, <3>12
    <3>. QED BY <3>1, <3>4, <3>11, <3>13
  <2>5. PromiseKept'
    BY <2>3 DEF PromiseKept
  <2>. QED BY <2>1, <2>2, <2>4, <2>5 DEF Owed
<1>4. CASE OfficerPlays
  <2>1. /\ verdict = "open" /\ turn = "police" /\ turn' = "thief" /\ brain' = brain
        /\ due' = IF due = 0 THEN 0 ELSE due - 1
    BY <1>4 DEF OfficerPlays
  <2>2. CASE due = 0
    BY <2>1, <2>2 DEF Owed, PromiseKept
  <2>3. CASE due >= 1
    <3>1. /\ BarriersMax <= Cardinality(police.walls) /\ brain["thief"] = "safe"
          /\ <<thief.at, police.at>> \in table[due].replies /\ due <= StepsLeft + 1
      BY <2>1, <2>3 DEF Owed
    <3>2. ~(police.built < BarriersMax)
      BY <3>1, KeptTypes
    <3>3. /\ police'.at \in Options(police.at, police.walls)
          /\ police'.walls = police.walls /\ police'.last = {}
          /\ thief'.at = thief.at /\ thief'.step = thief.step
          /\ IF thief.at \in police'.last THEN verdict' = "capture" /\ how' = "sealed"
             ELSE IF thief.at = police'.at THEN verdict' = "capture" /\ how' = "stepped"
             ELSE verdict' = verdict /\ how' = how
      BY <1>4, <3>2, OfficerTurn
    <3>4. due \in 1 .. SafetyHorizon
      BY <1>0, <2>3
    <3>5. /\ thief.at \notin Options(police.at, police.walls)
          /\ <<thief.at, police'.at>> \in table[due - 1].masks
      BY <1>0, <3>1, <3>3, <3>4, RepliesAreSafe
    <3>6. verdict' = "open"
      BY <2>1, <3>3, <3>5
    <3>7. StepsLeft' = StepsLeft
      BY <3>3 DEF StepsLeft
    <3>8. due' = due - 1 /\ due' <= StepsLeft'
      BY <1>0, <2>1, <2>3, <3>1, <3>7
    <3>. HIDE DEF table
    <3>9. Solve(police'.walls, SafetyHorizon) = table
      BY <3>3 DEF table
    <3>10. <<thief'.at, police'.at>> \in table[due'].masks
      BY <3>3, <3>5, <3>8
    <3>. QED BY <2>1, <3>1, <3>3, <3>6, <3>8, <3>9, <3>10 DEF Owed, PromiseKept
  <2>. QED BY <1>0, <2>2, <2>3
<1>. QED
  BY <1>1, <1>2, <1>3, <1>4 DEF Next

\* The inductive invariant, together.
LEMMA Invariance ==
    CanStay => (Spec => [](Kept /\ Guarded /\ Owed /\ ~slipped))
<1>. SUFFICES ASSUME CanStay PROVE Spec => [](Kept /\ Guarded /\ Owed /\ ~slipped)
  OBVIOUS
<1>1. Init => Kept /\ Guarded /\ Owed /\ ~slipped
  <2>1. Init => Kept
    BY KeptInit
  <2>2. Init => Guarded
    BY DEF Init, Guarded, GuaranteeHolds
  <2>3. Init => Owed /\ ~slipped
    BY DEF Init, Owed, PromiseKept
  <2>. QED BY <2>1, <2>2, <2>3
<1>2. Kept /\ Guarded /\ Owed /\ ~slipped /\ [Next]_vars
        => (Kept /\ Guarded /\ Owed /\ ~slipped)'
  BY KeptStep, GuardedStep, OwedStep
<1>. QED
  BY <1>1, <1>2, PTL DEF Spec

\* The cells, the rosters, the walls and the clock keep their types, and the
\* thief's copy of the walls is the officer's.
THEOREM ArenaTypeOK == CanStay => (Spec => []TypeOK)
<1>. SUFFICES ASSUME CanStay PROVE Spec => []TypeOK
  OBVIOUS
<1>1. Spec => []Kept
  BY Invariance, PTL
<1>2. Kept => TypeOK
  BY DEF Kept
<1>. QED
  BY <1>1, <1>2, PTL

\* No brain ever asks for an action that validate_move refuses.
THEOREM BrainsKeepTheRules == CanStay => (Spec => []BrainsActLegally)
<1>. SUFFICES ASSUME CanStay PROVE Spec => []BrainsActLegally
  OBVIOUS
<1>1. Spec => []~slipped
  BY Invariance, PTL
<1>2. ~slipped => BrainsActLegally
  BY DEF BrainsActLegally
<1>. QED
  BY <1>1, <1>2, PTL

\* A destination SafeThief._safety credits with a ply survives whatever the
\* officer does on its next turn, walls included.
THEOREM PromisedPlyIsSafe == CanStay => (Spec => []GuaranteeHolds)
<1>. SUFFICES ASSUME CanStay PROVE Spec => []GuaranteeHolds
  OBVIOUS
<1>1. Spec => []Guarded
  BY Invariance, PTL
<1>2. Guarded => GuaranteeHolds
  BY DEF Guarded
<1>. QED
  BY <1>1, <1>2, PTL

\* Once the officer can build no more, a thief that follows PursuitSolver is not
\* caught before the plies it was promised have been played.
THEOREM PromisesAreKept == CanStay => (Spec => []PromiseKept)
<1>. SUFFICES ASSUME CanStay PROVE Spec => []PromiseKept
  OBVIOUS
<1>1. Spec => []Owed
  BY Invariance, PTL
<1>2. Owed => PromiseKept
  BY DEF Owed
<1>. QED
  BY <1>1, <1>2, PTL

\* SafeThief moves into the officer's reach only when every option lies in it:
\* a cell out of reach is worth a ply, and none worth more than the chosen one.
THEOREM RiskOnlyWhenForced == CanStay => (Spec => NoNeedlessRisk)
<1>. SUFFICES ASSUME CanStay PROVE Spec => NoNeedlessRisk
  OBVIOUS
<1>1. Spec => []Kept
  BY Invariance, PTL
<1>2. Kept /\ [Next]_vars => [(turn = "thief" /\ turn' = "police" /\ brain["thief"] = "safe"
                  /\ police.at \notin police.walls
                  /\ InReach(own'["thief"].at, police.at, police.walls))
                => \A m \in CandidateMoves(thief) :
                      InReach(m.cell, police.at, police.walls)]_vars
  <2>. SUFFICES ASSUME Kept, Next,
                       turn = "thief", turn' = "police", brain["thief"] = "safe",
                       police.at \notin police.walls,
                       InReach(own'["thief"].at, police.at, police.walls),
                       NEW x \in CandidateMoves(thief),
                       ~InReach(x.cell, police.at, police.walls)
                PROVE  FALSE
    OBVIOUS
  <2>1. ThiefPlays
    BY DEF Next, ThiefIsEnclosed, OfficerPlays
  <2>2. PICK m \in ThiefChoices :
             /\ thief'.at = m.cell
             /\ promised' = IF brain["thief"] # "safe" THEN 0
                            ELSE Safety(thief, Collapsed(sighting), m.cell, StepsLeft)[1]
    BY <2>1, ThiefTurn
  <2>. DEFINE deep == Horizon(StepsLeft)
              worth(c) == Against(thief, c, police.at, deep)
  <2>3. /\ thief \in State /\ Cardinality(thief.walls) <= BarriersMax
        /\ thief.walls = police.walls /\ police.at \in Cell /\ StepsLeft \in Nat
        /\ sighting = police.at /\ thief.at \in Cell \ police.walls
    BY <2>1, KeptTypes DEF Kept, ThiefPlays
  <2>4. deep \in 1 .. SafetyHorizon /\ deep \in Nat
    BY <2>3, HorizonFacts, HorizonAssumption
  <2>5. m \in SafeThief(thief, Collapsed(police.at), StepsLeft)
    BY <2>2, <2>3 DEF ThiefChoices
  <2>6. worth(x.cell) <= worth(m.cell)
    BY <2>3, <2>5, BestIsTaken
  <2>7. x.cell \in Cell \ thief.walls
    BY <2>3, Candidates, NeighborsOpen DEF Options
  <2>8. worth(x.cell) >= 1
    BY <2>3, <2>4, <2>7, SafeMeansWorth
  <2>9. worth(x.cell) \in 0 .. deep /\ worth(m.cell) \in 0 .. deep
    BY <2>4, AgainstRange
  <2>10. worth(m.cell) >= 1
    <3>. HIDE DEF worth, deep
    <3>. QED BY <2>4, <2>6, <2>8, <2>9
  <2>11. ~InReach(m.cell, police.at, police.walls)
    BY <2>3, <2>4, <2>10, WorthMeansSafe
  <2>. QED
    BY <2>2, <2>11 DEF thief
<1>. QED
  BY <1>1, <1>2, PTL DEF Spec, NoNeedlessRisk

-----------------------------------------------------------------------------
(* The refereed chase.                                                     *)

\* The instance's board is this one.
LEMMA SameBoard ==
    /\ \A c, w : Refereed!Neighbors(c, w) = Neighbors(c, w)
    /\ \A w : Refereed!Cardinality(w) = Cardinality(w)
<1>1. \A c, w : Refereed!Neighbors(c, w) = Neighbors(c, w)
  BY DEF Refereed!Neighbors, Refereed!StepFrom, Refereed!Toward, Refereed!Moves, Refereed!Cell,
         Refereed!Direction, Refereed!Orthogonal, Refereed!RowDelta, Refereed!ColDelta,
         Neighbors, StepFrom, Toward, Moves, Cell, Direction, Orthogonal, RowDelta, ColDelta
<1>2. \A w : Refereed!Cardinality(w) = Cardinality(w)
  BY DEF Refereed!Cardinality, Cardinality
<1>. QED
  BY <1>1, <1>2

\* The thief that gives up is one the referee takes.
LEMMA EnclosedIsTaken ==
    ASSUME CanStay, Kept, Kept', ThiefIsEnclosed
    PROVE  Refereed!ThiefIsTaken
<1>1. /\ verdict = "open" /\ how = "-" /\ turn = "thief" /\ turn' = "thief"
      /\ verdict' = "capture" /\ how' = "enclosure"
      /\ thief' = thief /\ police' = police
  BY DEF ThiefIsEnclosed, Ends, Kept, thief, police
<1>2. Refereed!Taken
  <2>1. Neighbors(thief.at, police.walls) = {}
    BY KeptTypes DEF ThiefIsEnclosed, IsImmobilised
  <2>. QED BY <2>1, SameBoard DEF Refereed!Taken
<1>3. thief.step \in Nat
  BY KeptTypes
<1>. QED
  BY <1>1, <1>2, <1>3 DEF Refereed!ThiefIsTaken

\* A thief that plays is one the referee lets run.
LEMMA PlayingIsRunning ==
    ASSUME CanStay, Kept, Kept', ThiefPlays
    PROVE  Refereed!ThiefRuns
<1>1. PICK m \in ThiefChoices :
             /\ m \in CandidateMoves(thief)
             /\ police' = police /\ thief'.at = m.cell
             /\ thief'.step = thief.step + 1
             /\ IF thief.step + 1 >= SurvivalThreshold THEN verdict' = "survival" /\ how' = "clock"
                ELSE verdict' = verdict /\ how' = how
  BY ThiefTurn
<1>2. /\ verdict = "open" /\ how = "-" /\ turn = "thief" /\ turn' = "police"
      /\ ~IsImmobilised(thief)
  BY DEF ThiefPlays, Kept
<1>3. thief.step \in Nat /\ thief.walls = police.walls /\ SurvivalThreshold \in Nat
  BY KeptTypes
<1>4. ~Refereed!Taken
  BY <1>2, <1>3, SameBoard DEF Refereed!Taken, Kept, Declared, IsImmobilised
<1>5. thief'.at \in {thief.at} \cup Refereed!Neighbors(thief.at, police.walls)
  BY <1>1, <1>3, Candidates, SameBoard DEF Options
<1>6. thief.step + 0 = thief.step /\ thief'.step + 0 = thief.step + 1
  BY <1>1, <1>3
<1>. QED
  BY <1>1, <1>2, <1>4, <1>5, <1>6 DEF Refereed!ThiefRuns

\* An officer that plays is one the referee lets act: it steps, stays or builds,
\* and its declaration names the cell.
LEMMA PlayingIsActing ==
    ASSUME CanStay, Kept, Kept', OfficerPlays
    PROVE  Refereed!OfficerActs
<1>. DEFINE claim == IF police.step = 0 THEN {}
                     ELSE IF police.last # {} THEN police.last ELSE {police.at}
<1>1. /\ police'.step = police.step + 1 /\ thief'.at = thief.at /\ thief'.step = thief.step
      /\ \/ /\ police'.at \in Options(police.at, police.walls)
            /\ police'.walls = police.walls /\ police'.last = {}
         \/ \E w \in Buildable(police) :
               /\ police.built < BarriersMax /\ police'.at = police.at
               /\ police'.walls = police.walls \cup {w} /\ police'.last = {w}
      /\ IF thief.at \in police'.last THEN verdict' = "capture" /\ how' = "sealed"
         ELSE IF thief.at = police'.at THEN verdict' = "capture" /\ how' = "stepped"
         ELSE verdict' = verdict /\ how' = how
  BY OfficerTurn
<1>2. verdict = "open" /\ how = "-" /\ turn = "police" /\ turn' = "thief"
  BY DEF OfficerPlays, Kept
<1>3. police'.step # 0
  BY <1>1, KeptTypes
<1>4. claim' = IF police'.last # {} THEN police'.last ELSE {police'.at}
  BY <1>3
<1>. HIDE DEF claim
<1>5. \/ /\ police'.at \in {police.at} \cup Refereed!Neighbors(police.at, police.walls)
         /\ claim' = {police'.at}
         /\ police'.walls = police.walls
      \/ /\ Refereed!Cardinality(police.walls) < BarriersMax
         /\ \E c \in ({police.at} \cup Refereed!Neighbors(police.at, police.walls)) \ police.walls :
               /\ police'.walls = police.walls \cup {c}
               /\ claim' = {c}
         /\ police'.at = police.at
  <2>1. CASE police'.at \in Options(police.at, police.walls)
             /\ police'.walls = police.walls /\ police'.last = {}
    BY <1>4, <2>1, SameBoard DEF Options
  <2>2. CASE \E w \in Buildable(police) :
               /\ police.built < BarriersMax /\ police'.at = police.at
               /\ police'.walls = police.walls \cup {w} /\ police'.last = {w}
    <3>1. PICK w \in Buildable(police) :
               /\ police.built < BarriersMax /\ police'.at = police.at
               /\ police'.walls = police.walls \cup {w} /\ police'.last = {w}
      BY <2>2
    <3>2. w \in ({police.at} \cup Refereed!Neighbors(police.at, police.walls)) \ police.walls
      BY SameBoard DEF Buildable
    <3>3. Refereed!Cardinality(police.walls) < BarriersMax
      BY <3>1, KeptTypes, SameBoard
    <3>. QED BY <1>4, <3>1, <3>2, <3>3
  <2>. QED BY <1>1, <2>1, <2>2
<1>6. /\ (IF how = "enclosure" THEN "police" ELSE turn) = "police"
      /\ (IF how' = "enclosure" THEN "police" ELSE turn') = "thief"
      /\ (IF how \in {"sealed", "stepped"} THEN "open" ELSE verdict) = "open"
      /\ (IF how' \in {"sealed", "stepped"} THEN "open" ELSE verdict') = "open"
  BY <1>1, <1>2
<1>7. thief'.step + (IF how' = "enclosure" THEN 1 ELSE 0)
        = thief.step + (IF how = "enclosure" THEN 1 ELSE 0)
  BY <1>1, <1>2
<1>. QED
  BY <1>1, <1>5, <1>6, <1>7 DEF Refereed!OfficerActs, claim

\* The benchmark plays the game of the live peers: each of its steps is a step
\* of the refereed chase, which the referee's walls, quota and clock allow.
THEOREM ArenaPlaysTheChase == CanStay => (Spec => PlaysTheChase)
<1>. SUFFICES ASSUME CanStay PROVE Spec => PlaysTheChase
  OBVIOUS
<1>1. Spec => []Kept
  BY Invariance, PTL
<1>2. Kept /\ Kept' /\ [Next]_vars => [Refereed!Next]_(Refereed!board)
  <2>. SUFFICES ASSUME Kept, Kept', [Next]_vars
                PROVE  Refereed!Next \/ UNCHANGED Refereed!board
    OBVIOUS
  <2>1. CASE UNCHANGED vars
    BY <2>1 DEF vars, thief, police, Refereed!board
  <2>2. CASE ThiefIsEnclosed
    BY <2>2, EnclosedIsTaken DEF Refereed!Next
  <2>3. CASE ThiefPlays
    BY <2>3, PlayingIsRunning DEF Refereed!Next
  <2>4. CASE OfficerPlays
    BY <2>4, PlayingIsActing DEF Refereed!Next
  <2>. QED
    BY <2>1, <2>2, <2>3, <2>4 DEF Next
<1>. QED
  BY <1>1, <1>2, PTL DEF Spec, PlaysTheChase

-----------------------------------------------------------------------------
(* The officer never walls itself away.                                    *)

\* The veto on losing touch: most of the belief stays reachable.
InTouch(at, walls, belief, c) == 2 * ReachableMass(at, walls, belief, c) > Whole

\* A wall that leaves most of the belief within reach leaves the thief there.
LEMMA QuarryWithinReach ==
    ASSUME NEW t \in Cell, NEW b \in Cell, NEW belief,
           Peaked(belief, t, b),
           NEW at \in Cell, NEW walls, NEW c \in Cell, t # c,
           InTouch(at, walls, belief, c)
    PROVE  t \in Reachable(at, walls \cup {c})
<1>. DEFINE S == DOMAIN DistanceMap(at, walls \cup {c}) \cup {c}
<1>1. S \in SUBSET Cell
  BY DistancesStayInside, RegionFacts
<1>3. ReachableMass(at, walls, belief, c) = WeightOf(belief, S)
  BY DEF ReachableMass
<1>. HIDE DEF S
<1>2. IsFiniteSet(S)
  BY <1>1, BoardIsFinite
<1>4. t \in S
  <2>1. SUFFICES ASSUME t \notin S PROVE FALSE
    OBVIOUS
  <2>2. PICK y \in Cell : y # t /\ (b # t => y = b)
    <3>1. CASE b # t
      BY <3>1
    <3>2. CASE b = t
      <4>1. Size \in Nat /\ 0 \in 0 .. Size - 1 /\ 1 \in 0 .. Size - 1
        BY BoardAssumption
      <4>2. <<0, 0>> \in Cell /\ <<0, 1>> \in Cell /\ <<0, 0>> # <<0, 1>>
        BY <4>1 DEF Cell
      <4>. QED BY <3>2, <4>2
    <3>. QED BY <3>1, <3>2
  <2>3. /\ belief[t] \in Nat /\ belief[y] \in Nat /\ belief[y] <= 1200
        /\ \A x \in S : x # t /\ x # y => belief[x] = 0
    <3>1. belief[t] \in Nat
      BY DEF Peaked
    <3>2. belief[y] \in 0 .. 1200
      BY <2>2 DEF Peaked
    <3>3. \A x \in Cell : x # t /\ x # y => belief[x] = 0
      BY <2>2 DEF Peaked
    <3>4. belief[y] \in Nat /\ belief[y] <= 1200
      <4>. DEFINE w == belief[y]
      <4>1. w \in 0 .. 1200
        BY <3>2
      <4>2. w \in Nat /\ w <= 1200
        <5>. HIDE DEF w
        <5>. QED BY <4>1, SmallShare
      <4>. QED BY <4>2
    <3>. QED BY <1>1, <3>1, <3>3, <3>4
  <2>4. WeightOf(belief, S) = (IF t \in S THEN belief[t] ELSE 0) + (IF y \in S THEN belief[y] ELSE 0)
    <3>1. IsFiniteSet(S) /\ t # y /\ belief[t] \in Nat /\ belief[y] \in Nat
          /\ \A x \in S : x # t /\ x # y => belief[x] = 0
      BY <1>2, <2>2, <2>3
    <3>. QED BY <3>1, TwoCells
  <2>5. WeightOf(belief, S) \in Nat /\ WeightOf(belief, S) <= 1200
    BY <2>1, <2>3, <2>4
  <2>. QED BY <1>3, <2>5 DEF Whole, InTouch
<1>. QED
  BY <1>4, DistancesStayInside DEF S

\* The cell with most of the weight is the likeliest.
LEMMA PeakIsLikeliest ==
    ASSUME NEW t \in Cell, NEW b \in Cell, NEW belief,
           Peaked(belief, t, b)
    PROVE  MostLikely(belief) = t
<1>1. ASSUME NEW x \in Cell, x # t PROVE belief[x] \in Nat /\ belief[x] <= 1200
  <2>1. CASE x = b
    <3>. DEFINE w == belief[x]
    <3>1. w \in 0 .. 1200
      BY <1>1, <2>1 DEF Peaked
    <3>2. w \in Nat /\ w <= 1200
      <4>. HIDE DEF w
      <4>. QED BY <3>1, SmallShare
    <3>. QED BY <3>2
  <2>2. CASE x # b
    <3>1. belief[x] = 0
      BY <1>1, <2>2 DEF Peaked
    <3>. QED BY <3>1
  <2>. QED BY <2>1, <2>2
<1>2. belief[t] \in Nat /\ belief[t] >= 8800
  <2>. DEFINE w == belief[t]
  <2>1. w \in 8800 .. 10000
    BY DEF Peaked
  <2>2. w \in Nat /\ w >= 8800
    <3>. HIDE DEF w
    <3>. QED BY <2>1, LargeShare
  <2>. QED BY <2>2
<1>3. \A x \in Cell \ {t} : Hotter(belief, t, x) /\ ~Hotter(belief, x, t)
  BY <1>1, <1>2 DEF Hotter
<1>. QED
  BY <1>3 DEF MostLikely

\* What our officers wall: the cell they are almost sure the thief is on, or one
\* that passed the vetoes.
LEMMA WallsAreVetted ==
    ASSUME NEW s \in State, NEW belief, NEW left,
           NEW m \in ArchitectPolice(s, belief, left) \cup PincherPolice(s, belief, left),
           m.move = "BARRIER"
    PROVE  /\ \E n \in LegalMoves(s) : m = Choice("BARRIER", n.dir, n.cell)
           /\ \/ m.cell = MostLikely(belief)
              \/ InTouch(s.at, s.walls, belief, m.cell)
<1>. DEFINE built == StructuralWalls(s, belief, left) \cup PinchWalls(s, belief)
<1>1. m \in AdjacentSeal(s, belief) \cup built
  <2>1. \A x \in LegalMoves(s) : x.move = "MOVE"
    BY LegalMoveFacts DEF Choice
  <2>2. SealedInHold(s).move = "HOLD"
    BY DEF SealedInHold, Choice
  <2>3. m \in AdjacentSeal(s, belief) \cup CaptureShot(s, belief) \cup built
              \cup {SealedInHold(s)} \cup LegalMoves(s)
    BY DEF ArchitectPolice, PincherPolice, Officer
  <2>4. CaptureShot(s, belief) \subseteq LegalMoves(s)
    BY DEF CaptureShot
  <2>. QED BY <2>1, <2>2, <2>3, <2>4
<1>2. CASE m \in AdjacentSeal(s, belief)
  BY <1>2 DEF AdjacentSeal, Choice
<1>3. CASE m \in StructuralWalls(s, belief, left)
  <2>1. PICK n \in LegalMoves(s), p \in PlanBarrier(s.at, s.walls, belief) :
          m = Choice("BARRIER", n.dir, n.cell) /\ p.cell = n.cell /\ p.viable
    BY <1>3 DEF StructuralWalls, ShouldSpend
  <2>2. PICK c : p = Evaluate(s.at, s.walls, belief, c, Baseline(s.at, s.walls, belief))
    BY DEF PlanBarrier
  <2>3. c = n.cell /\ Viable(s.at, s.walls, belief, c, Baseline(s.at, s.walls, belief))
    BY <2>1, <2>2 DEF Evaluate
  <2>4. m.cell = n.cell
    BY <2>1 DEF Choice
  <2>. QED BY <2>1, <2>3, <2>4 DEF Viable, InTouch
<1>4. CASE m \in PinchWalls(s, belief)
  <2>1. PICK n \in LegalMoves(s) :
          /\ m = Choice("BARRIER", n.dir, n.cell)
          /\ \E p \in EvaluateWall(s.at, s.walls, belief, n.cell) : p.viable
    BY <1>4 DEF PinchWalls
  <2>2. Viable(s.at, s.walls, belief, n.cell, Baseline(s.at, s.walls, belief))
    BY <2>1 DEF EvaluateWall, Evaluate
  <2>3. m.cell = n.cell
    BY <2>1 DEF Choice
  <2>. QED BY <2>1, <2>2, <2>3 DEF Viable, InTouch
<1>. QED
  BY <1>1, <1>2, <1>3, <1>4

\* After a wall of our officers the thief is still within reach.
LEMMA WallKeepsQuarry ==
    ASSUME CanStay, Kept, OfficerPlays, brain["police"] \in {"architect", "pincher"},
           verdict' = "open", police'.last # {}
    PROVE  thief.at \in Reachable(police'.at, police'.walls)
<1>1. /\ thief \in State /\ police \in State /\ thief.walls = police.walls
      /\ thief.at \in Cell /\ police.at \in Cell /\ thief.at \notin police.walls
  BY KeptTypes DEF Kept, OfficerPlays
<1>2. PICK w : /\ police'.at = police.at /\ police'.walls = police.walls \cup {w}
               /\ police'.last = {w} /\ w \in Buildable(police)
               /\ thief.at # w /\ thief.at # police.at
  BY OfficerTurn
<1>0. PICK belief \in OfficerBeliefs : \E m \in OfficerChoices(belief) :
          own' = [own EXCEPT !["police"] = Act("police", m),
                             !["thief"] = NoteBarrier(thief, Act("police", m).last)]
  BY DEF OfficerPlays
<1>3. PICK m \in OfficerChoices(belief) :
          own' = [own EXCEPT !["police"] = Act("police", m),
                             !["thief"] = NoteBarrier(thief, Act("police", m).last)]
  BY <1>0
<1>. DEFINE d == [move |-> m.move, dir |-> m.dir]
<1>4. IsLegal("police", police, d)
  <2>1. m \in AnyLegal(police)
    BY <1>1, OfficerChoosesLegally
  <2>. QED BY <1>1, <2>1, OfficerApplied
<1>5. police' = ApplyMove("police", police, d)
  <2>. HIDE DEF d
  <2>1. own'["police"] = Act("police", m)
    BY <1>3, KeptTypes DEF Role
  <2>. QED BY <1>4, <2>1 DEF Act, d, police
<1>6. m.move = "BARRIER" /\ WallTarget("police", police, d) = {w}
  BY <1>2, <1>4, <1>5 DEF ApplyMove
<1>7. m \in ArchitectPolice(police, belief, StepsLeft) \cup PincherPolice(police, belief, StepsLeft)
  BY DEF OfficerChoices
<1>8. /\ \E n \in LegalMoves(police) : m = Choice("BARRIER", n.dir, n.cell)
      /\ \/ m.cell = MostLikely(belief)
         \/ InTouch(police.at, police.walls, belief, m.cell)
  BY <1>1, <1>6, <1>7, WallsAreVetted
<1>9. m.cell = w
  <2>1. PICK n \in LegalMoves(police) : m = Choice("BARRIER", n.dir, n.cell)
    BY <1>8
  <2>2. StepFrom(police.at, n.dir, police.walls) = {n.cell} /\ n.dir # "-"
    BY LegalMoveFacts DEF Moves, Orthogonal, Direction
  <2>3. m.cell = n.cell /\ d.dir = n.dir
    BY <2>1 DEF Choice
  <2>4. w \in {n.cell}
    BY <1>6, <2>2, <2>3 DEF WallTarget
  <2>. QED BY <2>3, <2>4
<1>10. PICK b \in Cell : belief = Decoded(thief.at, b, police)
  BY <1>1, NeighborsOpen DEF OfficerBeliefs
<1>11. Peaked(belief, thief.at, b)
  BY <1>1, <1>2, <1>10, BeliefPeaks
<1>12. MostLikely(belief) = thief.at
  BY <1>1, <1>11, PeakIsLikeliest
<1>13. InTouch(police.at, police.walls, belief, w)
  BY <1>2, <1>8, <1>9, <1>12
<1>14. w \in Cell
  BY <1>1, <1>2, NeighborsOpen DEF Buildable
<1>. HIDE DEF d
<1>15. thief.at \in Reachable(police.at, police.walls \cup {w})
  BY <1>1, <1>2, <1>11, <1>13, <1>14, QuarryWithinReach
<1>. QED
  BY <1>2, <1>15

\* A wall not vetoed and a step within the region leave the thief in reach.
LEMMA WalledStep ==
    ASSUME CanStay, Reversible, Kept, NeverWalledApart, [Next]_vars
    PROVE  NeverWalledApart'
<1>. SUFFICES ASSUME brain'["police"] \in {"architect", "pincher"}, verdict' = "open"
              PROVE  thief'.at \in Reachable(police'.at, police'.walls)
  BY DEF NeverWalledApart
<1>1. thief.at \in Cell /\ police.at \in Cell /\ thief.walls = police.walls
  BY KeptTypes
<1>2. CASE UNCHANGED vars
  BY <1>2 DEF vars, NeverWalledApart, thief, police
<1>3. CASE ThiefIsEnclosed
  BY <1>3 DEF ThiefIsEnclosed, Ends
<1>4. CASE ThiefPlays
  <2>1. PICK m \in CandidateMoves(thief) : police' = police /\ thief'.at = m.cell
    BY <1>4, ThiefTurn
  <2>2. thief.at \in Reachable(police.at, police.walls)
    BY <1>4 DEF ThiefPlays, NeverWalledApart
  <2>3. m.cell \in Options(thief.at, police.walls)
    BY <1>1, Candidates
  <2>. QED BY <1>1, <2>1, <2>2, <2>3, RegionIsClosed DEF Options
<1>5. CASE OfficerPlays
  <2>1. /\ thief'.at = thief.at
        /\ thief.at \in Reachable(police.at, police.walls)
        /\ brain["police"] \in {"architect", "pincher"}
    BY <1>5, OfficerTurn DEF OfficerPlays, NeverWalledApart
  <2>2. CASE police'.last # {}
    BY <1>5, <2>1, <2>2, WallKeepsQuarry
  <2>3. CASE police'.last = {}
    <3>1. police'.at \in Options(police.at, police.walls) /\ police'.walls = police.walls
      BY <1>5, <2>3, OfficerTurn
    <3>2. police.at \notin police.walls
      BY <1>1, <2>1, RegionFacts
    <3>. QED BY <1>1, <2>1, <3>1, <3>2, SameRegion DEF Options
  <2>. QED BY <2>2, <2>3
<1>. QED
  BY <1>2, <1>3, <1>4, <1>5 DEF Next

\* Where the four orthogonal steps are agreed and every step can be taken back,
\* the vetoes of _evaluate keep the thief within the officer's reach: from one
\* region to begin with, a wall stands only if most of the belief, hence the
\* thief, stays reachable, and moving never changes a region.
THEOREM OfficerStaysInTouch ==
    CanStay /\ Reversible /\ Orthogonal \subseteq Moves => (Spec => []NeverWalledApart)
<1>. SUFFICES ASSUME CanStay, Reversible, Orthogonal \subseteq Moves
              PROVE  Spec => []NeverWalledApart
  OBVIOUS
<1>1. Init => NeverWalledApart
  <2>. SUFFICES ASSUME Init PROVE thief.at \in Reachable(police.at, police.walls)
    BY DEF NeverWalledApart
  <2>1. PICK start \in Starts : own = [r \in Role |-> FreshState(start[r])]
    BY DEF Init
  <2>2. police.walls = {} /\ police.at \in Cell /\ thief.at \in Cell
    BY <2>1, ArenaAssumption DEF FreshState, Role, thief, police
  <2>. QED BY <2>2, EmptyBoardIsConnected
<1>2. Kept /\ NeverWalledApart /\ [Next]_vars => NeverWalledApart'
  BY WalledStep
<1>3. Spec => []Kept
  BY Invariance, PTL
<1>. QED
  BY <1>1, <1>2, <1>3, PTL DEF Spec
=============================================================================
