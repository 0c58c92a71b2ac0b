--------------------------- MODULE RefereeProofs ---------------------------
(***************************************************************************)
(* Two private truths and an unreliable network are one refereed chase:    *)
(* endings tell the truth, and every step of SubGame is a step of Chase or *)
(* none, for every board, quota, threshold and number of faults.           *)
(***************************************************************************)
EXTENDS SubGameProofs, FiniteSetTheorems

-----------------------------------------------------------------------------
(* What one decision does to a peer's own state.                           *)

\* A move ends on the cell itself or on a free neighbour.
LEMMA ApplyMovePlace ==
    ASSUME NEW r \in Role, NEW s \in State, NEW d
    PROVE  LET t == ApplyMove(r, s, d)
           IN  /\ t.at \in {s.at} \cup Neighbors(s.at, s.walls)
               /\ d = Hold => t.at = s.at
               /\ s.at \notin s.walls => t.at \notin s.walls
<1>. DEFINE t == ApplyMove(r, s, d)
<1>1. CASE ~IsLegal(r, s, d)
  BY <1>1 DEF ApplyMove
<1>2. CASE IsLegal(r, s, d) /\ d.move = "MOVE"
  <2>1. t.at = Toward(s.at, d.dir) /\ d # Hold
    BY <1>2 DEF ApplyMove, Hold
  <2>2. /\ StepFrom(s.at, d.dir, s.walls) # {}
        /\ d.dir \in Moves
        /\ Toward(s.at, d.dir) \in StepFrom(s.at, d.dir, s.walls)
        /\ Toward(s.at, d.dir) \notin s.walls
    BY <1>2 DEF IsLegal, StepFrom
  <2>. QED
    BY <2>1, <2>2 DEF Neighbors
<1>3. CASE IsLegal(r, s, d) /\ d.move # "MOVE"
  BY <1>3 DEF ApplyMove
<1>. QED
  BY <1>1, <1>2, <1>3

\* A legal decision is one step; so is standing still where the rules allow it.
LEMMA ApplyMoveStep ==
    ASSUME NEW r \in Role, NEW s \in State, NEW d
    PROVE  LET t == ApplyMove(r, s, d)
           IN  /\ IsLegal(r, s, d) => t.step = s.step + 1
               /\ ~IsLegal(r, s, d) => t = s
               /\ CanStay => IsLegal(r, s, Hold) /\ ApplyMove(r, s, Hold).last = {}
BY DEF ApplyMove, IsLegal, Hold

\* More walls leave fewer ways out.
LEMMA FewerWaysOut ==
    ASSUME NEW c, NEW walls, NEW more, walls \subseteq more
    PROVE  Neighbors(c, more) \subseteq Neighbors(c, walls)
<1>1. \A d : StepFrom(c, d, more) \subseteq StepFrom(c, d, walls)
  BY DEF StepFrom
<1>. QED
  BY <1>1 DEF Neighbors

\* A thief's turn names no cell and only a thief is sealed in or survives.
LEMMA OnlyTheThief ==
    ASSUME NEW s, NEW d
    PROVE  /\ CaptureClaim("thief", s, d) = {}
           /\ ~IsSealedIn("police", s)
           /\ ~ThiefSurvives("police", s)
           /\ ThiefSurvives("thief", s) <=> s.step >= SurvivalThreshold
<1>1. "thief" # "police"
  OBVIOUS
<1>2. CaptureClaim("thief", s, d) = {}
  BY <1>1 DEF CaptureClaim
<1>3. ~IsSealedIn("police", s)
  BY DEF IsSealedIn
<1>4. ~ThiefSurvives("police", s)
  BY DEF ThiefSurvives
<1>5. ThiefSurvives("thief", s) <=> s.step >= SurvivalThreshold
  BY DEF ThiefSurvives
<1>. QED
  BY <1>2, <1>3, <1>4, <1>5

\* The turn a peer takes from its inbox is the newest of the other's, and the
\* other is not deciding.
LEMMA NewestRead ==
    ASSUME TypeOK, MailInv, NEW p \in Role, Receive(p)
    PROVE  /\ Head(turns[p]) = out[Opponent(p)]
           /\ OnMove(p) /\ ~CaughtUp(p)
           /\ pc[Opponent(p)] # "act"
           /\ Opponent(p) \in Role /\ Opponent(p) # p
<1>1. Head(turns[p]) = out[Opponent(p)] /\ OnMove(p) /\ Behind(p)
  BY QueuedTail, FreshIsNewest DEF Receive
<1>2. Opponent(p) \in Role /\ Opponent(p) # p
  BY OpponentRole
<1>. QED
  BY <1>1, <1>2, OneOnMove DEF MailInv, PeerMailInv

-----------------------------------------------------------------------------
(* TurnInv, MoveInv and EndInv, action by action.                          *)

EndsInv == TurnInv /\ MoveInv /\ EndInv

\* A peer that decides is alone in doing so, and knows every wall.
LEMMA Deciding ==
    ASSUME TypeOK, MailInv, WallInv, NEW p \in Role, pc[p] = "act"
    PROVE  /\ OnMove(p) /\ CaughtUp(p) /\ pc[Opponent(p)] # "act"
           /\ own["thief"].walls = own["police"].walls
           /\ own[p] \in State
<1>1. OnMove(p) /\ CaughtUp(p)
  BY DEF MailInv, PeerMailInv
<1>2. Opponent(p) \in Role
  BY OpponentRole
<1>3. ~OnMove(Opponent(p)) /\ CaughtUp(Opponent(p)) /\ pc[Opponent(p)] # "act"
  BY <1>1, <1>2, OneOnMove DEF MailInv, PeerMailInv
<1>4. CaughtUp("thief")
  BY <1>1, <1>3 DEF Role, Opponent
<1>. QED
  BY <1>1, <1>3, <1>4 DEF WallInv, TypeOK

\* The thief's turn: it plays on, survives or concedes.
LEMMA ThiefTurnEnds ==
    ASSUME TypeOK, MailInv, WallInv, EndsInv, TakeTurn("thief")
    PROVE  EndsInv'
<1>. DEFINE s0 == own["thief"]
            walls == own["police"].walls
<1>1. /\ pc["thief"] = "act" /\ pc["police"] # "act" /\ s0.walls = walls /\ s0 \in State
      /\ result' = result
  BY Deciding DEF TakeTurn, Role, Opponent, endVars
<1>2. kind["thief"] \in {"none", "turn"} /\ s0.at \notin out["police"].claim
  BY <1>1 DEF EndsInv, MoveInv
<1>3. "thief" \in Role /\ "police" \in Role \ {"thief"}
  BY DEF Role
<1>4. CASE Play("thief")
  <2>1. PICK d \in Decision :
          LET s   == IF IsLegal("thief", s0, d) THEN ApplyMove("thief", s0, d)
                     ELSE ApplyMove("thief", s0, Hold)
              win == ThiefSurvives("thief", s)
          IN  Seal("thief", s, IF win THEN "survival" ELSE "turn",
                   CaptureClaim("thief", s, d), owed["thief"], win)
    BY <1>4 DEF Play
  <2>. DEFINE s   == IF IsLegal("thief", s0, d) THEN ApplyMove("thief", s0, d)
                     ELSE ApplyMove("thief", s0, Hold)
              win == ThiefSurvives("thief", s)
  <2>2. Seal("thief", s, IF win THEN "survival" ELSE "turn", {}, owed["thief"], win)
    <3>1. CaptureClaim("thief", s, d) = {}
      BY OnlyTheThief
    <3>2. Seal("thief", s, IF win THEN "survival" ELSE "turn",
               CaptureClaim("thief", s, d), owed["thief"], win)
      BY <2>1
    <3>. HIDE DEF s, win
    <3>. QED
      BY <3>1, <3>2
  <2>3. s0.at \notin walls
    BY <1>1, <1>4 DEF Play, IsSealedIn
  <2>4. s.at \notin walls
    BY <1>1, <1>3, <2>3, ApplyMovePlace
  <2>. win <=> s.step >= SurvivalThreshold
    BY OnlyTheThief
  <2>. HIDE DEF s, win
  <2>5. /\ own'["thief"] = s /\ kind'["thief"] = (IF win THEN "survival" ELSE "turn")
        /\ pc'["thief"] = "send" /\ out'["thief"].claim = {}
        /\ out'["thief"].answer = owed["thief"] /\ out'["thief"].win = win
        /\ owed'["thief"] = "none"
        /\ own'["police"] = own["police"] /\ kind'["police"] = kind["police"]
        /\ pc'["police"] = pc["police"] /\ out'["police"] = out["police"]
        /\ owed'["police"] = owed["police"]
    BY <1>3, <2>2 DEF Seal, Goto, TypeOK
  <2>6. TurnInv'
    BY <2>5 DEF EndsInv, TurnInv
  <2>7. MoveInv'
    BY <1>1, <2>5 DEF MoveInv
  <2>8. EndInv'
    BY <1>1, <1>2, <2>4, <2>5 DEF EndsInv, EndInv
  <2>. QED
    BY <2>6, <2>7, <2>8 DEF EndsInv
<1>5. CASE Concede("thief")
  <2>. DEFINE s == ApplyMove("thief", s0, Hold)
              a == IF owed["thief"] = "none" THEN "caught" ELSE owed["thief"]
  <2>1. Seal("thief", s, "concession", {}, a, FALSE) /\ IsSealedIn("thief", s0)
    BY <1>5 DEF Concede
  <2>2. s.at = s0.at
    BY <1>1, <1>3, ApplyMovePlace
  <2>3. s0.at \in walls \/ Neighbors(s0.at, walls) = {}
    BY <1>1, <2>1 DEF IsSealedIn, IsImmobilised
  <2>. HIDE DEF s, a
  <2>4. /\ own'["thief"] = s /\ kind'["thief"] = "concession"
        /\ pc'["thief"] = "send" /\ out'["thief"].claim = {}
        /\ out'["thief"].answer = a /\ out'["thief"].win = FALSE
        /\ owed'["thief"] = "none"
        /\ own'["police"] = own["police"] /\ kind'["police"] = kind["police"]
        /\ pc'["police"] = pc["police"] /\ out'["police"] = out["police"]
        /\ owed'["police"] = owed["police"]
    BY <1>3, <2>1 DEF Seal, Goto, TypeOK
  <2>5. TurnInv'
    BY <2>4 DEF EndsInv, TurnInv
  <2>6. MoveInv'
    BY <1>1, <2>4 DEF MoveInv
  <2>7. EndInv'
    BY <1>1, <1>2, <2>2, <2>3, <2>4 DEF EndsInv, EndInv
  <2>. QED
    BY <2>5, <2>6, <2>7 DEF EndsInv
<1>. QED
  BY <1>4, <1>5 DEF TakeTurn

\* The officer's turn: it has not been told that the chase is over, and what
\* ended it by a wall still stands.
LEMMA OfficerTurnEnds ==
    ASSUME TypeOK, MailInv, WallInv, EndsInv, TakeTurn("police")
    PROVE  EndsInv'
<1>. DEFINE s0 == own["police"]
<1>1. /\ pc["police"] = "act" /\ pc["thief"] # "act" /\ s0 \in State
      /\ result' = result
  BY Deciding DEF TakeTurn, Role, Opponent, endVars
<1>2. kind["thief"] \notin {"survival", "caught"}
  BY <1>1 DEF EndsInv, MoveInv, TurnInv
<1>3. "police" \in Role /\ "thief" \in Role \ {"police"}
  BY DEF Role
<1>4. PICK d \in Decision :
        LET s   == IF IsLegal("police", s0, d) THEN ApplyMove("police", s0, d)
                   ELSE ApplyMove("police", s0, Hold)
            win == ThiefSurvives("police", s)
        IN  Seal("police", s, IF win THEN "survival" ELSE "turn",
                 CaptureClaim("police", s, d), owed["police"], win)
  <2>1. Play("police")
    BY OnlyTheThief DEF TakeTurn, Concede
  <2>. QED
    BY <2>1 DEF Play
<1>. DEFINE s == IF IsLegal("police", s0, d) THEN ApplyMove("police", s0, d)
                 ELSE ApplyMove("police", s0, Hold)
<1>5. Seal("police", s, "turn", CaptureClaim("police", s, d), owed["police"], FALSE)
  <2>1. ~ThiefSurvives("police", s)
    BY OnlyTheThief
  <2>2. LET win == ThiefSurvives("police", s)
        IN  Seal("police", s, IF win THEN "survival" ELSE "turn",
                 CaptureClaim("police", s, d), owed["police"], win)
    BY <1>4
  <2>3. ThiefSurvives("police", s) = FALSE
    BY <2>1 DEF ThiefSurvives
  <2>. HIDE DEF s
  <2>. QED
    BY <2>2, <2>3
<1>6. s0.walls \subseteq s.walls
  BY <1>1, <1>3, ApplyMoveWalls
<1>. HIDE DEF s
<1>7. /\ own'["police"] = s /\ kind'["police"] = "turn" /\ pc'["police"] = "send"
      /\ out'["police"].answer = owed["police"] /\ out'["police"].win = FALSE
      /\ owed'["police"] = "none"
      /\ own'["thief"] = own["thief"] /\ kind'["thief"] = kind["thief"]
      /\ pc'["thief"] = pc["thief"] /\ out'["thief"] = out["thief"]
      /\ owed'["thief"] = owed["thief"]
  BY <1>3, <1>5 DEF Seal, Goto, TypeOK
<1>8. TurnInv'
  BY <1>7 DEF EndsInv, TurnInv
<1>9. MoveInv'
  BY <1>1, <1>7 DEF EndsInv, MoveInv
<1>10. EndInv'
  <2>1. Neighbors(own["thief"].at, s.walls) \subseteq Neighbors(own["thief"].at, s0.walls)
    BY <1>6, FewerWaysOut
  <2>. QED
    BY <1>1, <1>2, <1>6, <1>7, <2>1 DEF EndsInv, EndInv
<1>. QED
  BY <1>8, <1>9, <1>10 DEF EndsInv

\* The thief reads the officer's turn: it admits being caught, or plays on.
LEMMA ThiefReads ==
    ASSUME TypeOK, MailInv, EndsInv, Receive("thief")
    PROVE  EndsInv'
<1>. DEFINE m == Head(turns["thief"])
            noted == NoteBarrier(own["thief"], m.wall)
<1>1. "thief" \in Role /\ "police" \in Role \ {"thief"} /\ Opponent("thief") = "police"
  BY DEF Role, Opponent
<1>2. m = out["police"] /\ pc["police"] # "act" /\ pc["thief"] = "wait"
  BY <1>1, NewestRead DEF Receive
<1>3. m.answer # "caught" /\ ~m.win /\ kind["thief"] \in {"none", "turn"}
  BY <1>2 DEF EndsInv, TurnInv, MoveInv
<1>4. noted \in State /\ noted.at = own["thief"].at
  BY <1>1, <1>2 DEF NoteBarrier, TypeOK, State, Message
<1>5. \A r \in Role : result[r] \notin {"capture", "survival"}
  BY <1>3 DEF EndsInv, EndInv
<1>6. CASE Reading("thief", m) = "i_am_caught" /\ SendFinal("thief", noted)
  <2>. DEFINE s == ApplyMove("thief", noted, Hold)
  <2>1. s.at = own["thief"].at
    BY <1>1, <1>4, ApplyMovePlace
  <2>2. own["thief"].at \in out["police"].claim
    BY <1>2, <1>6 DEF Reading, IsCaptured
  <2>3. Seal("thief", s, "caught", {}, "caught", FALSE) /\ result' = result
    BY <1>6 DEF SendFinal
  <2>. HIDE DEF s
  <2>4. /\ own'["thief"] = s /\ kind'["thief"] = "caught"
        /\ pc'["thief"] = "send" /\ out'["thief"].claim = {}
        /\ out'["thief"].answer = "caught" /\ out'["thief"].win = FALSE
        /\ owed'["thief"] = "none"
        /\ own'["police"] = own["police"] /\ kind'["police"] = kind["police"]
        /\ pc'["police"] = pc["police"] /\ out'["police"] = out["police"]
        /\ owed'["police"] = owed["police"]
    BY <1>1, <2>3 DEF Seal, Goto, TypeOK
  <2>5. TurnInv'
    BY <2>4 DEF EndsInv, TurnInv
  <2>6. MoveInv'
    BY <1>2, <2>4 DEF MoveInv
  <2>7. EndInv'
    BY <1>5, <2>1, <2>2, <2>3, <2>4 DEF EndInv
  <2>. QED
    BY <2>5, <2>6, <2>7 DEF EndsInv
<1>7. CASE Reading("thief", m) = "my_turn" /\ MyTurn("thief", noted, m)
  <2>1. own["thief"].at \notin out["police"].claim
    BY <1>2, <1>7 DEF Reading, IsCaptured
  <2>2. /\ own'["thief"] = noted /\ own'["police"] = own["police"]
        /\ owed'["thief"] \in {"none", "denied"} /\ owed'["police"] = owed["police"]
        /\ pc'["thief"] = "act" /\ pc'["police"] = pc["police"]
        /\ UNCHANGED <<kind, out, result>>
    BY <1>1, <1>7 DEF MyTurn, Goto, TypeOK
  <2>3. TurnInv'
    BY <2>2 DEF EndsInv, TurnInv
  <2>. HIDE DEF noted
  <2>4. MoveInv'
    BY <1>2, <1>3, <1>4, <2>1, <2>2 DEF EndsInv, MoveInv
  <2>5. EndInv'
    BY <1>3, <2>2 DEF EndsInv, EndInv
  <2>. QED
    BY <2>3, <2>4, <2>5 DEF EndsInv
<1>8. Reading("thief", m) \notin {"i_won", "opponent_won"}
  BY <1>3 DEF Reading
<1>. QED
  BY <1>6, <1>7, <1>8 DEF Receive

\* The officer reads the thief's turn: it records the end, or plays on.
LEMMA OfficerReads ==
    ASSUME TypeOK, MailInv, WallInv, EndsInv, Receive("police")
    PROVE  EndsInv'
<1>. DEFINE m == Head(turns["police"])
            noted == NoteBarrier(own["police"], m.wall)
<1>1. "police" \in Role /\ "thief" \in Role \ {"police"} /\ Opponent("police") = "thief"
  BY DEF Role, Opponent
<1>2. m = out["thief"] /\ pc["thief"] # "act" /\ pc["police"] = "wait"
  BY <1>1, NewestRead DEF Receive
<1>3. m.wall = {} /\ m.claim = {}
  BY <1>2 DEF EndsInv, TurnInv, WallInv
<1>4. noted.walls = own["police"].walls
  BY <1>1, <1>3 DEF NoteBarrier, TypeOK, State
<1>5. CASE Reading("police", m) = "i_won" /\ Ends("police", "capture")
  <2>1. kind["thief"] \in {"concession", "caught"}
    BY <1>2, <1>5 DEF Reading, IsCaptured, EndsInv, TurnInv
  <2>2. /\ own'["police"].walls = own["police"].walls /\ own'["thief"] = own["thief"]
        /\ pc'["police"] = "reveal" /\ pc'["thief"] = pc["thief"]
        /\ result'["police"] = "capture" /\ result'["thief"] = result["thief"]
        /\ UNCHANGED <<owed, kind, out>>
    BY <1>1, <1>4, <1>5 DEF Ends, Goto, TypeOK
  <2>3. TurnInv' /\ MoveInv'
    BY <1>2, <2>2 DEF EndsInv, TurnInv, MoveInv
  <2>4. EndInv'
    BY <2>1, <2>2 DEF EndsInv, EndInv, Role
  <2>. QED
    BY <2>3, <2>4 DEF EndsInv
<1>6. CASE Reading("police", m) = "opponent_won" /\ Ends("police", "survival")
  <2>1. kind["thief"] = "survival"
    BY <1>2, <1>6 DEF Reading, IsCaptured, EndsInv, TurnInv
  <2>2. /\ own'["police"].walls = own["police"].walls /\ own'["thief"] = own["thief"]
        /\ pc'["police"] = "reveal" /\ pc'["thief"] = pc["thief"]
        /\ result'["police"] = "survival" /\ result'["thief"] = result["thief"]
        /\ UNCHANGED <<owed, kind, out>>
    BY <1>1, <1>4, <1>6 DEF Ends, Goto, TypeOK
  <2>3. TurnInv' /\ MoveInv'
    BY <1>2, <2>2 DEF EndsInv, TurnInv, MoveInv
  <2>4. EndInv'
    BY <2>1, <2>2 DEF EndsInv, EndInv, Role
  <2>. QED
    BY <2>3, <2>4 DEF EndsInv
<1>7. CASE Reading("police", m) = "my_turn" /\ MyTurn("police", noted, m)
  <2>1. ~out["thief"].win /\ out["thief"].answer # "caught"
    BY <1>2, <1>7 DEF Reading, IsCaptured
  <2>2. /\ own'["police"].walls = own["police"].walls /\ own'["thief"] = own["thief"]
        /\ owed'["police"] = "none" /\ owed'["thief"] = owed["thief"]
        /\ pc'["police"] = "act" /\ pc'["thief"] = pc["thief"]
        /\ UNCHANGED <<kind, out, result>>
    BY <1>1, <1>3, <1>4, <1>7 DEF MyTurn, Goto, TypeOK
  <2>3. TurnInv' /\ MoveInv'
    BY <1>2, <2>1, <2>2 DEF EndsInv, TurnInv, MoveInv
  <2>4. EndInv'
    BY <2>2 DEF EndsInv, EndInv
  <2>. QED
    BY <2>3, <2>4 DEF EndsInv
<1>8. Reading("police", m) # "i_am_caught"
  BY <1>3 DEF Reading, IsCaptured
<1>. QED
  BY <1>5, <1>6, <1>7, <1>8 DEF Receive

\* Steps that decide nothing: no thread starts to decide or to wait, and no
\* end is recorded but a silence or an abort.
LEMMA QuietEnds ==
    ASSUME EndsInv, UNCHANGED <<own, owed, kind, out>>,
           \A r \in Role : /\ pc'[r] = pc[r] \/ pc'[r] \notin {"act", "wait"}
                           /\ result'[r] = result[r] \/ result'[r] \in {"silence", "aborted"}
    PROVE  EndsInv'
<1>1. TurnInv'
  BY DEF EndsInv, TurnInv
<1>2. MoveInv'
  BY DEF EndsInv, MoveInv, Role
<1>3. EndInv'
  BY DEF EndsInv, EndInv
<1>. QED
  BY <1>1, <1>2, <1>3 DEF EndsInv

\* The call returns: the sender waits, or records the end it declared.
LEMMA SendEnds ==
    ASSUME TypeOK, PhaseInv, EndsInv, NEW p \in Role, SendTurn(p)
    PROVE  EndsInv'
<1>1. /\ UNCHANGED <<own, owed, kind, out>> /\ pc[p] = "send"
      /\ pc'[p] = (IF kind[p] = "turn" THEN "wait" ELSE "reveal")
      /\ result'[p] = (CASE kind[p] = "turn"     -> result[p]
                         [] kind[p] = "survival" -> "survival"
                         [] OTHER                -> "capture")
      /\ \A r \in Role \ {p} : pc'[r] = pc[r] /\ result'[r] = result[r]
  BY DEF SendTurn, SendReturns, Goto, sealVars, TypeOK
<1>2. kind[p] \in {"turn", "survival", "concession", "caught"}
  BY <1>1 DEF PhaseInv
<1>3. TurnInv'
  BY <1>1 DEF EndsInv, TurnInv
<1>4. MoveInv'
  BY <1>1, <1>2 DEF EndsInv, MoveInv, Role
<1>5. EndInv'
  <2>1. p = "police" => kind[p] = "turn"
    BY <1>2 DEF EndsInv, TurnInv
  <2>2. \/ result'[p] = result[p]
        \/ p = "thief" /\ kind[p] = "survival" /\ result'[p] = "survival"
        \/ p = "thief" /\ kind[p] \in {"concession", "caught"} /\ result'[p] = "capture"
    BY <1>1, <1>2, <2>1 DEF Role
  <2>. QED
    BY <1>1, <2>2 DEF EndsInv, EndInv
<1>. QED
  BY <1>3, <1>4, <1>5 DEF EndsInv

\* Every step keeps what turns, decisions and ends say.
LEMMA EndsStep ==
    TypeOK /\ PhaseInv /\ MailInv /\ WallInv /\ EndsInv /\ [Next]_vars => EndsInv'
<1>. SUFFICES ASSUME TypeOK, PhaseInv, MailInv, WallInv, EndsInv, [Next]_vars
              PROVE  EndsInv'
  OBVIOUS
<1>1. ASSUME NEW p \in Role, TakeTurn(p)
      PROVE  EndsInv'
  BY <1>1, ThiefTurnEnds, OfficerTurnEnds DEF Role
<1>2. ASSUME NEW p \in Role, SendTurn(p)
      PROVE  EndsInv'
  BY <1>2, SendEnds
<1>3. ASSUME NEW p \in Role, GiveUp(p)
      PROVE  EndsInv'
  <2>1. /\ UNCHANGED <<own, owed, kind, out>>
        /\ \A r \in Role : /\ pc'[r] = pc[r] \/ pc'[r] = "done"
                           /\ result'[r] = result[r] \/ result'[r] = "aborted"
    BY <1>3 DEF GiveUp, Abort, Goto, sealVars, TypeOK
  <2>. QED
    BY <2>1, QuietEnds
<1>4. ASSUME NEW p \in Role, Receive(p)
      PROVE  EndsInv'
  BY <1>4, ThiefReads, OfficerReads DEF Role
<1>5. ASSUME NEW p \in Role, TurnTimeout(p)
      PROVE  EndsInv'
  <2>1. /\ UNCHANGED <<own, owed, kind, out>>
        /\ \A r \in Role : /\ pc'[r] = pc[r] \/ pc'[r] = "reveal"
                           /\ result'[r] = result[r] \/ result'[r] = "silence"
    BY <1>5 DEF TurnTimeout, Goto, sealVars, TypeOK
  <2>. QED
    BY <2>1, QuietEnds
<1>6. ASSUME NEW p \in Role, Reveal(p) \/ Collect(p) \/ AuditTimeout(p) \/ Crash(p)
      PROVE  EndsInv'
  <2>1. /\ UNCHANGED <<own, owed, kind, out, result>>
        /\ \A r \in Role : pc'[r] = pc[r] \/ pc'[r] \in {"collect", "done", "dead"}
    BY <1>6 DEF Reveal, Collect, AuditTimeout, Settle, Crash, Goto, sealVars, endVars, TypeOK
  <2>. QED
    BY <2>1, QuietEnds
<1>7. ASSUME NEW p \in Role, DropDuplicate(p) \/ RetrySend(p) \/ LateDelivery(p)
      PROVE  EndsInv'
  <2>1. UNCHANGED <<own, owed, kind, out, pc, result>>
    BY <1>7 DEF DropDuplicate, RetrySend, LateDelivery, sealVars, endVars
  <2>. QED
    BY <2>1, QuietEnds
<1>8. CASE UNCHANGED vars
  <2>1. UNCHANGED <<own, owed, kind, out, pc, result>>
    BY <1>8 DEF vars
  <2>. QED
    BY <2>1, QuietEnds
<1>. QED
  BY <1>1, <1>2, <1>3, <1>4, <1>5, <1>6, <1>7, <1>8 DEF Next, Progress, Terminated

\* Before the first turn nothing is said.
LEMMA EndsInit == Init => EndsInv
BY DEF Init, EndsInv, TurnInv, MoveInv, EndInv, NoMessage, FreshState, Role

\* Everything proved so far, together.
ChaseInv == TypeOK /\ PhaseInv /\ MailInv /\ WallInv /\ EndsInv

\* Everything proved so far is kept by every step,
LEMMA ChaseInvStep == ChaseInv /\ [Next]_vars => ChaseInv'
BY TypeStep, PhaseStep, MailStep, WallStep, EndsStep DEF ChaseInv

\* and holds in every reachable state.
LEMMA ChaseInvariant == Spec => []ChaseInv
<1>1. Init => ChaseInv
  BY TypeInit, PhaseInit, MailInit, WallInit, EndsInit DEF ChaseInv
<1>. QED
  BY <1>1, ChaseInvStep, PTL DEF Spec

\* Neither peer records a capture of a thief who is not taken on the board no
\* peer can see whole, on any board, whatever the network and the brains do
\* (turn_handler.py's verdicts and turn_sender.py's admissions).
THEOREM CapturesAreReal == Spec => []CaptureIsReal
<1>1. ChaseInv => CaptureIsReal
  BY DEF ChaseInv, EndsInv, EndInv, CaptureIsReal, ThiefTaken, Role
<1>. QED
  BY <1>1, ChaseInvariant, PTL

-----------------------------------------------------------------------------
(* The four kinds of step: a turn of the thief, a turn of the officer, an  *)
(* admission, and everything else, which the board does not see.           *)

\* The decision that is played: the brain's, or standing still.
Played(p, d) == IF IsLegal(p, own[p], d) THEN d ELSE Hold

Plays ==
    /\ ~IsSealedIn("thief", own["thief"])
    /\ \E d \in Decision :
          own'["thief"] = ApplyMove("thief", own["thief"], Played("thief", d))
    /\ kind'["thief"] = IF own'["thief"].step >= SurvivalThreshold THEN "survival" ELSE "turn"

Concedes ==
    /\ IsSealedIn("thief", own["thief"])
    /\ own'["thief"] = ApplyMove("thief", own["thief"], Hold)
    /\ kind'["thief"] = "concession"

\* A thief on the cell the officer named, adding the walls of that turn first.
Admits ==
    /\ own["thief"].at \in out["police"].claim
    /\ \E s \in State : /\ s.at = own["thief"].at /\ s.step = own["thief"].step
                        /\ own'["thief"] = ApplyMove("thief", s, Hold)
    /\ kind'["thief"] = "caught"

\* The thief has the token, the game is open, and the officer stands still.
ThiefSeals ==
    /\ OnMove("thief") /\ sent'["thief"] = sent["thief"] + 1 /\ sent'["police"] = sent["police"]
    /\ kind["thief"] \in {"none", "turn"}
    /\ own'["police"] = own["police"] /\ out'["police"] = out["police"]
    /\ out'["thief"].step = own'["thief"].step

OfficerSeals ==
    /\ OnMove("police") /\ sent'["police"] = sent["police"] + 1 /\ sent'["thief"] = sent["thief"]
    /\ kind["thief"] # "survival" /\ kind'["thief"] = kind["thief"]
    /\ own'["thief"] = own["thief"] /\ out'["thief"] = out["thief"]
    /\ out'["police"].step = own'["police"].step
    /\ \E d \in Decision :
          /\ own'["police"] = ApplyMove("police", own["police"], Played("police", d))
          /\ out'["police"].claim = CaptureClaim("police", own'["police"], d)

Unseen ==
    /\ UNCHANGED <<sent, out, kind>>
    /\ \A p \in Role : /\ own'[p].at = own[p].at /\ own'[p].step = own[p].step
                       /\ own'[p].built = own[p].built
    /\ own'["police"].walls = own["police"].walls

\* The thief that decides knows every wall and was not named where it stands.
LEMMA ThiefTurn ==
    ASSUME ChaseInv, TakeTurn("thief")
    PROVE  /\ ThiefSeals /\ own["thief"].at \notin out["police"].claim
           /\ own["thief"].walls = own["police"].walls
           /\ Plays \/ Concedes
<1>. USE DEF ChaseInv
<1>1. "thief" \in Role /\ "police" \in Role \ {"thief"} /\ pc["thief"] = "act"
  BY DEF Role, TakeTurn
<1>2. /\ OnMove("thief") /\ own["thief"].walls = own["police"].walls
      /\ own["thief"].at \notin out["police"].claim /\ kind["thief"] \in {"none", "turn"}
  BY <1>1, Deciding DEF EndsInv, MoveInv
<1>3. CASE Play("thief")
  <2>1. PICK d \in Decision :
          LET s   == IF IsLegal("thief", own["thief"], d) THEN ApplyMove("thief", own["thief"], d)
                     ELSE ApplyMove("thief", own["thief"], Hold)
              win == ThiefSurvives("thief", s)
          IN  Seal("thief", s, IF win THEN "survival" ELSE "turn",
                   CaptureClaim("thief", s, d), owed["thief"], win)
    BY <1>3 DEF Play
  <2>. DEFINE s   == ApplyMove("thief", own["thief"], Played("thief", d))
              win == ThiefSurvives("thief", s)
              claim == CaptureClaim("thief", s, d)
  <2>2. Seal("thief", s, IF win THEN "survival" ELSE "turn", claim, owed["thief"], win)
    BY <2>1 DEF Played
  <2>3. win <=> s.step >= SurvivalThreshold
    BY OnlyTheThief
  <2>4. own'["thief"] = s => \E e \in Decision :
          own'["thief"] = ApplyMove("thief", own["thief"], Played("thief", e))
    OBVIOUS
  <2>. HIDE DEF s, win, claim
  <2>5. /\ own'["thief"] = s /\ kind'["thief"] = (IF win THEN "survival" ELSE "turn")
        /\ own'["police"] = own["police"] /\ out'["police"] = out["police"]
        /\ sent'["thief"] = sent["thief"] + 1 /\ sent'["police"] = sent["police"]
        /\ out'["thief"].step = s.step
    BY <1>1, <2>2 DEF Seal, TypeOK
  <2>6. ~IsSealedIn("thief", own["thief"])
    BY <1>3 DEF Play
  <2>. QED
    BY <1>2, <2>3, <2>4, <2>5, <2>6 DEF ThiefSeals, Plays
<1>4. CASE Concede("thief")
  <2>. DEFINE s == ApplyMove("thief", own["thief"], Hold)
              a == IF owed["thief"] = "none" THEN "caught" ELSE owed["thief"]
  <2>1. Seal("thief", s, "concession", {}, a, FALSE) /\ IsSealedIn("thief", own["thief"])
    BY <1>4 DEF Concede
  <2>. HIDE DEF a
  <2>2. /\ own'["thief"] = s /\ kind'["thief"] = "concession"
        /\ own'["police"] = own["police"] /\ out'["police"] = out["police"]
        /\ sent'["thief"] = sent["thief"] + 1 /\ sent'["police"] = sent["police"]
        /\ out'["thief"].step = s.step
    BY <1>1, <2>1 DEF Seal, TypeOK
  <2>. QED
    BY <1>2, <2>1, <2>2 DEF ThiefSeals, Concedes
<1>. QED
  BY <1>2, <1>3, <1>4 DEF TakeTurn

\* The officer that decides moves, stays or builds.
LEMMA OfficerTurn ==
    ASSUME ChaseInv, TakeTurn("police")
    PROVE  OfficerSeals
<1>. USE DEF ChaseInv
<1>1. "police" \in Role /\ "thief" \in Role \ {"police"} /\ pc["police"] = "act"
  BY DEF Role, TakeTurn
<1>2. OnMove("police") /\ kind["thief"] # "survival"
  BY <1>1, Deciding DEF EndsInv, MoveInv, TurnInv
<1>3. Play("police")
  BY OnlyTheThief DEF TakeTurn, Concede
<1>4. PICK d \in Decision :
        LET s   == IF IsLegal("police", own["police"], d) THEN ApplyMove("police", own["police"], d)
                   ELSE ApplyMove("police", own["police"], Hold)
            win == ThiefSurvives("police", s)
        IN  Seal("police", s, IF win THEN "survival" ELSE "turn",
                 CaptureClaim("police", s, d), owed["police"], win)
  BY <1>3 DEF Play
<1>. DEFINE s == ApplyMove("police", own["police"], Played("police", d))
            win == ThiefSurvives("police", s)
            k == IF win THEN "survival" ELSE "turn"
            claim == CaptureClaim("police", s, d)
<1>5. Seal("police", s, k, claim, owed["police"], win)
  BY <1>4 DEF Played
<1>6. own'["police"] = s /\ out'["police"].claim = claim => \E e \in Decision :
        /\ own'["police"] = ApplyMove("police", own["police"], Played("police", e))
        /\ out'["police"].claim = CaptureClaim("police", own'["police"], e)
  OBVIOUS
<1>. HIDE DEF s, win, claim, k
<1>7. /\ own'["police"] = s /\ out'["police"].claim = claim /\ kind'["thief"] = kind["thief"]
      /\ own'["thief"] = own["thief"] /\ out'["thief"] = out["thief"]
      /\ sent'["police"] = sent["police"] + 1 /\ sent'["thief"] = sent["thief"]
      /\ out'["police"].step = s.step
  BY <1>1, <1>5 DEF Seal, TypeOK
<1>. QED
  BY <1>2, <1>6, <1>7 DEF OfficerSeals

\* The thief that reads a claim on its cell admits it, or plays on unseen.
LEMMA ThiefReadsTurn ==
    ASSUME ChaseInv, Receive("thief")
    PROVE  (ThiefSeals /\ Admits) \/ Unseen
<1>. USE DEF ChaseInv
<1>. DEFINE m == Head(turns["thief"])
            noted == NoteBarrier(own["thief"], m.wall)
<1>1. "thief" \in Role /\ "police" \in Role \ {"thief"} /\ Opponent("thief") = "police"
  BY DEF Role, Opponent
<1>2. m = out["police"] /\ OnMove("thief") /\ pc["thief"] = "wait"
  BY <1>1, NewestRead DEF Receive
<1>3. m.answer # "caught" /\ ~m.win /\ kind["thief"] \in {"none", "turn"}
  BY <1>2 DEF EndsInv, TurnInv, MoveInv
<1>4. /\ noted \in State /\ noted.at = own["thief"].at /\ noted.step = own["thief"].step
      /\ noted.built = own["thief"].built
  <2>1. own["thief"] \in State /\ m.wall \in SUBSET Cell
    BY <1>1, <1>2 DEF TypeOK, Message
  <2>. QED
    BY <2>1, NoteBarrierState DEF NoteBarrier, State
<1>5. CASE Reading("thief", m) = "i_am_caught" /\ SendFinal("thief", noted)
  <2>. DEFINE s == ApplyMove("thief", noted, Hold)
  <2>1. own["thief"].at \in out["police"].claim
    BY <1>2, <1>5 DEF Reading, IsCaptured
  <2>2. Seal("thief", s, "caught", {}, "caught", FALSE)
    BY <1>5 DEF SendFinal
  <2>3. own'["thief"] = s => \E t \in State :
          /\ t.at = own["thief"].at /\ t.step = own["thief"].step
          /\ own'["thief"] = ApplyMove("thief", t, Hold)
    BY <1>4
  <2>. HIDE DEF s
  <2>4. /\ own'["thief"] = s /\ kind'["thief"] = "caught" /\ out'["thief"].step = s.step
        /\ own'["police"] = own["police"] /\ out'["police"] = out["police"]
        /\ sent'["thief"] = sent["thief"] + 1 /\ sent'["police"] = sent["police"]
    BY <1>1, <2>2 DEF Seal, TypeOK
  <2>. QED
    BY <1>2, <1>3, <2>1, <2>3, <2>4 DEF ThiefSeals, Admits
<1>6. CASE Reading("thief", m) = "my_turn" /\ MyTurn("thief", noted, m)
  <2>1. /\ own'["thief"] = noted /\ own'["police"] = own["police"]
        /\ UNCHANGED <<kind, out, sent>>
    BY <1>1, <1>6 DEF MyTurn, TypeOK
  <2>. HIDE DEF noted
  <2>. QED
    BY <1>4, <2>1 DEF Unseen, Role
<1>7. Reading("thief", m) \notin {"i_won", "opponent_won"}
  BY <1>3 DEF Reading
<1>. QED
  BY <1>5, <1>6, <1>7 DEF Receive

\* The officer that reads changes nothing a referee sees.
LEMMA OfficerReadsTurn ==
    ASSUME ChaseInv, Receive("police")
    PROVE  Unseen
<1>. USE DEF ChaseInv
<1>. DEFINE m == Head(turns["police"])
            noted == NoteBarrier(own["police"], m.wall)
<1>1. "police" \in Role /\ "thief" \in Role \ {"police"} /\ Opponent("police") = "thief"
  BY DEF Role, Opponent
<1>2. m = out["thief"]
  BY <1>1, NewestRead
<1>3. m.wall = {} /\ m.claim = {}
  BY <1>2 DEF EndsInv, TurnInv, WallInv
<1>4. /\ noted.at = own["police"].at /\ noted.step = own["police"].step
      /\ noted.built = own["police"].built /\ noted.walls = own["police"].walls
  BY <1>1, <1>3 DEF NoteBarrier, TypeOK, State
<1>5. /\ own'["police"] = noted /\ own'["thief"] = own["thief"]
      /\ UNCHANGED <<kind, out, sent>>
  <2>1. ~SendFinal("police", noted) \/ Reading("police", m) # "i_am_caught"
    BY <1>3 DEF Reading, IsCaptured
  <2>2. CASE \E v : Ends("police", v)
    BY <1>1, <2>2 DEF Ends, TypeOK
  <2>3. CASE MyTurn("police", noted, m)
    BY <1>1, <2>3 DEF MyTurn, TypeOK
  <2>. QED
    BY <2>1, <2>2, <2>3 DEF Receive
<1>. HIDE DEF noted
<1>. QED
  BY <1>4, <1>5 DEF Unseen, Role

\* So a step is one of four: the thief plays or concedes, admits, the officer
\* plays, or no referee would notice.
LEMMA FourKinds ==
    ASSUME ChaseInv, [Next]_vars
    PROVE  \/ ThiefSeals /\ own["thief"].at \notin out["police"].claim
              /\ own["thief"].walls = own["police"].walls /\ (Plays \/ Concedes)
           \/ ThiefSeals /\ Admits
           \/ OfficerSeals
           \/ Unseen
<1>1. ASSUME NEW p \in Role, TakeTurn(p)
      PROVE  \/ ThiefSeals /\ own["thief"].at \notin out["police"].claim
                /\ own["thief"].walls = own["police"].walls /\ (Plays \/ Concedes)
             \/ OfficerSeals
  BY <1>1, ThiefTurn, OfficerTurn DEF Role
<1>2. ASSUME NEW p \in Role, Receive(p)
      PROVE  (ThiefSeals /\ Admits) \/ Unseen
  BY <1>2, ThiefReadsTurn, OfficerReadsTurn DEF Role
<1>3. CASE UNCHANGED sealVars
  BY <1>3 DEF Unseen, sealVars
<1>4. ASSUME NEW p \in Role,
             \/ SendTurn(p) \/ GiveUp(p) \/ DropDuplicate(p) \/ TurnTimeout(p)
             \/ Reveal(p) \/ Collect(p) \/ AuditTimeout(p)
             \/ RetrySend(p) \/ LateDelivery(p) \/ Crash(p)
      PROVE  UNCHANGED sealVars
  BY <1>4 DEF SendTurn, GiveUp, DropDuplicate, TurnTimeout, Reveal, Collect, AuditTimeout,
              Settle, RetrySend, LateDelivery, Crash
<1>5. CASE UNCHANGED vars
  BY <1>3, <1>5 DEF vars, sealVars
<1>. QED
  BY <1>1, <1>2, <1>3, <1>4, <1>5 DEF Next, Progress, Terminated

-----------------------------------------------------------------------------
(* A survivor keeps a way out.                                             *)

\* On a reversible move set, the opposite step leads back.
LEMMA StepBack ==
    ASSUME NEW c \in Cell, NEW d \in Moves, Reversible
    PROVE  Opposite[d] \in Moves /\ Toward(Toward(c, d), Opposite[d]) = c
<1>1. Moves \subseteq Direction
  BY DEF Moves, Orthogonal, Direction
<1>2. d \in Direction
  BY <1>1
<1>3. RowDelta(Opposite[d]) = 0 - RowDelta(d) /\ ColDelta(Opposite[d]) = 0 - ColDelta(d)
      /\ RowDelta(d) \in Int /\ ColDelta(d) \in Int
  BY <1>2 DEF Direction, Opposite, RowDelta, ColDelta
<1>4. c[1] \in Int /\ c[2] \in Int /\ c = <<c[1], c[2]>>
  BY BoardAssumption DEF Cell
<1>. QED
  BY <1>3, <1>4 DEF Reversible, Toward

\* A survivor's way out is the cell it came from, and stays open.
LEMMA ExitStep == Reversible /\ ChaseInv /\ ExitInv /\ [Next]_vars => ExitInv'
<1>. SUFFICES ASSUME Reversible, ChaseInv, ExitInv, [Next]_vars, kind'["thief"] = "survival"
              PROVE  Neighbors(own'["thief"].at, own'["police"].walls) # {}
  BY DEF ExitInv
<1>1. own["thief"] \in State /\ "thief" \in Role
  BY DEF ChaseInv, TypeOK, Role
<1>2. CASE ThiefSeals /\ own["thief"].walls = own["police"].walls /\ (Plays \/ Concedes)
  <2>. DEFINE s == own["thief"]
  <2>1. PICK d \in Decision : own'["thief"] = ApplyMove("thief", s, Played("thief", d))
    BY <1>2 DEF Plays, Concedes
  <2>2. s.at \notin s.walls /\ Neighbors(s.at, s.walls) # {}
    BY <1>2 DEF Plays, Concedes, IsSealedIn, IsImmobilised
  <2>3. own'["police"].walls = s.walls
    BY <1>2 DEF ThiefSeals
  <2>4. CASE own'["thief"].at = s.at
    BY <2>2, <2>3, <2>4
  <2>5. CASE own'["thief"].at # s.at
    <3>1. d.dir \in Moves /\ own'["thief"].at = Toward(s.at, d.dir)
      <4>1. Played("thief", d) = d /\ IsLegal("thief", s, d) /\ d.move = "MOVE"
        BY <1>1, <2>1, <2>5, ApplyMovePlace DEF Played, ApplyMove
      <4>2. own'["thief"].at = Toward(s.at, d.dir)
        BY <2>1, <4>1 DEF ApplyMove
      <4>. QED
        BY <4>1, <4>2 DEF IsLegal, StepFrom
    <3>2. Opposite[d.dir] \in Moves /\ Toward(Toward(s.at, d.dir), Opposite[d.dir]) = s.at
      BY <1>1, <3>1, StepBack DEF State
    <3>3. StepFrom(own'["thief"].at, Opposite[d.dir], s.walls) = {s.at}
      BY <1>1, <2>2, <3>1, <3>2 DEF StepFrom, State
    <3>. QED
      BY <2>3, <3>2, <3>3 DEF Neighbors
  <2>. QED
    BY <2>4, <2>5
<1>3. CASE ThiefSeals /\ Admits
  BY <1>3 DEF Admits
<1>4. CASE OfficerSeals
  BY <1>4 DEF OfficerSeals
<1>5. CASE Unseen
  BY <1>1, <1>5 DEF Unseen, ExitInv
<1>. QED
  BY <1>2, <1>3, <1>4, <1>5, FourKinds

\* On a move set that lets a step be taken back, neither peer records a
\* survival unless the thief made the threshold, stands outside every wall and
\* has a way out (end_conditions.py, the thief's win claim in turn_sender.py).
\* Without that, the last step may lead into a dead end.
THEOREM SurvivalsAreReal == Reversible => (Spec => []SurvivalIsReal)
<1>. SUFFICES ASSUME Reversible PROVE Spec => []SurvivalIsReal
  OBVIOUS
<1>1. Init => ExitInv
  BY DEF Init, ExitInv, Role
<1>2. ChaseInv /\ ExitInv /\ [Next]_vars => ExitInv'
  BY ExitStep
<1>3. ChaseInv /\ ExitInv => SurvivalIsReal
  BY DEF ChaseInv, EndsInv, EndInv, ExitInv, SurvivalIsReal
<1>. QED
  BY <1>1, <1>2, <1>3, ChaseInvariant, PTL DEF Spec

-----------------------------------------------------------------------------
(* Standing still counts as a step: where the rules allow it, every sealed *)
(* turn advances its sender's clock by one.                                *)

StepInv == \A p \in Role : out[p].step = own[p].step

\* Every sealed turn advances its sender's step counter.
LEMMA SealedStep ==
    ASSUME CanStay, ChaseInv
    PROVE  /\ Plays \/ Concedes \/ Admits => own'["thief"].step = own["thief"].step + 1
           /\ OfficerSeals => own'["police"].step = own["police"].step + 1
<1>1. \A p \in Role : own[p] \in State
  BY DEF ChaseInv, TypeOK
<1>2. "thief" \in Role /\ "police" \in Role
  BY DEF Role
<1>3. \A p \in Role : \A s \in State : ApplyMove(p, s, Hold).step = s.step + 1
  BY ApplyMoveStep
<1>4. \A p \in Role : \A d : ApplyMove(p, own[p], Played(p, d)).step = own[p].step + 1
  BY <1>1, ApplyMoveStep DEF Played
<1>. QED
  BY <1>1, <1>2, <1>3, <1>4 DEF Plays, Concedes, Admits, OfficerSeals

\* The turn sealed last carries its sender's own step.
LEMMA StepStep == ChaseInv /\ StepInv /\ [Next]_vars => StepInv'
<1>. SUFFICES ASSUME ChaseInv, StepInv, [Next]_vars PROVE StepInv'
  OBVIOUS
<1>. QED
  BY FourKinds DEF StepInv, ThiefSeals, OfficerSeals, Unseen, Role

\* No turn repeats a step number of its sender, so that a strict opponent,
\* which takes a repeated (role, step) for a retry, refuses none
\* (own_state.py, apply_move and its step counter).  The rules must allow
\* standing still: that is what an illegal decision is replaced by.
THEOREM StepsAdvance == CanStay => (Spec => StepAlwaysAdvances)
<1>. SUFFICES ASSUME CanStay PROVE Spec => StepAlwaysAdvances
  OBVIOUS
<1>1. Init => StepInv
  BY DEF Init, StepInv, NoMessage, FreshState
<1>2. ChaseInv /\ StepInv /\ [Next]_vars
        => [\A p \in Role : sent'[p] # sent[p] => out'[p].step > out[p].step]_vars
  <2>. SUFFICES ASSUME ChaseInv, StepInv, [Next]_vars, NEW p \in Role, sent'[p] # sent[p]
                PROVE  out'[p].step > out[p].step
    OBVIOUS
  <2>1. own[p].step \in Nat /\ out[p].step = own[p].step
    BY DEF ChaseInv, TypeOK, State, StepInv
  <2>2. p = "thief" \/ p = "police"
    BY DEF Role
  <2>3. CASE ThiefSeals /\ (Plays \/ Concedes \/ Admits)
    BY <2>1, <2>2, <2>3, SealedStep DEF ThiefSeals
  <2>4. CASE OfficerSeals
    BY <2>1, <2>2, <2>4, SealedStep DEF OfficerSeals
  <2>5. ~Unseen
    BY DEF Unseen
  <2>. QED
    BY <2>3, <2>4, <2>5, FourKinds
<1>. QED
  BY <1>1, <1>2, StepStep, ChaseInvariant, PTL DEF Spec, StepAlwaysAdvances

-----------------------------------------------------------------------------
(* The refereed chase.                                                     *)

\* The instance's board is this one.
LEMMA SameBoard ==
    /\ \A c, w : Refereed!Neighbors(c, w) = Neighbors(c, w)
    /\ \A w : Refereed!Cardinality(w) = Cardinality(w)
<1>1. \A c, w : Refereed!Neighbors(c, w) = Neighbors(c, w)
  BY DEF Refereed!Neighbors, Refereed!StepFrom, Refereed!Toward, Refereed!Moves, Refereed!Cell,
         Refereed!Direction, Refereed!Orthogonal, Refereed!RowDelta, Refereed!ColDelta,
         Neighbors, StepFrom, Toward, Moves, Cell, Direction, Orthogonal, RowDelta, ColDelta
<1>2. \A w : Refereed!Cardinality(w) = Cardinality(w)
  BY DEF Refereed!Cardinality, Cardinality
<1>. QED
  BY <1>1, <1>2

\* An officer steps or stays and names its cell, or builds one wall within its
\* quota and names that.
LEMMA OfficerMove ==
    ASSUME CanStay, NEW s \in State, NEW d \in Decision
    PROVE  LET e     == IF IsLegal("police", s, d) THEN d ELSE Hold
               t     == ApplyMove("police", s, e)
               claim == CaptureClaim("police", t, d)
           IN  \/ /\ t.at \in {s.at} \cup Neighbors(s.at, s.walls)
                  /\ claim = {t.at} /\ t.walls = s.walls /\ t.built = s.built
               \/ \E c \in ({s.at} \cup Neighbors(s.at, s.walls)) \ s.walls :
                     /\ t.walls = s.walls \cup {c} /\ claim = {c}
                     /\ t.at = s.at /\ t.built = s.built + 1 /\ s.built < BarriersMax
<1>. DEFINE e     == IF IsLegal("police", s, d) THEN d ELSE Hold
            t     == ApplyMove("police", s, e)
            claim == CaptureClaim("police", t, d)
<1>1. "police" \in Role
  BY DEF Role
<1>2. CASE ~IsLegal("police", s, d)
  <2>1. t.at = s.at /\ t.walls = s.walls /\ t.built = s.built /\ t.last = {}
    BY <1>2 DEF ApplyMove, IsLegal, Hold, State
  <2>. QED
    BY <2>1 DEF CaptureClaim
<1>3. CASE IsLegal("police", s, d) /\ d.move = "BARRIER"
  <2>. DEFINE wall == WallTarget("police", s, d)
  <2>1. wall # {} /\ t.at = s.at /\ t.walls = s.walls \cup wall /\ t.built = s.built + 1
        /\ t.last = wall
    BY <1>3 DEF ApplyMove, IsLegal
  <2>2. s.built < BarriersMax
    BY <2>1, RulesAssumption DEF WallTarget, State
  <2>3. PICK c \in ({s.at} \cup Neighbors(s.at, s.walls)) \ s.walls : wall = {c}
    BY <2>1 DEF WallTarget, StepFrom, Neighbors
  <2>4. claim = {c}
    BY <1>3, <2>1, <2>3 DEF CaptureClaim
  <2>. QED
    BY <2>1, <2>2, <2>3, <2>4
<1>4. CASE IsLegal("police", s, d) /\ d.move # "BARRIER"
  <2>1. t.at \in {s.at} \cup Neighbors(s.at, s.walls)
    BY <1>1, ApplyMovePlace
  <2>2. t.walls = s.walls /\ t.built = s.built
    BY <1>4 DEF ApplyMove, State
  <2>3. claim = {t.at}
    BY <1>4 DEF CaptureClaim
  <2>. QED
    BY <2>1, <2>2, <2>3
<1>. QED
  BY <1>2, <1>3, <1>4

\* The officer's count of its walls is right, so that the quota it checks is
\* the referee's.
LEMMA QuotaStep == CanStay /\ ChaseInv /\ QuotaInv /\ [Next]_vars => QuotaInv'
<1>. SUFFICES ASSUME CanStay, ChaseInv, QuotaInv, [Next]_vars PROVE QuotaInv'
  OBVIOUS
<1>1. own["police"] \in State /\ "police" \in Role
  BY DEF ChaseInv, TypeOK, Role
<1>2. CASE OfficerSeals
  <2>. DEFINE s == own["police"]
  <2>1. PICK d \in Decision :
          own'["police"] = ApplyMove("police", s, Played("police", d))
    BY <1>2 DEF OfficerSeals
  <2>2. \/ own'["police"].walls = s.walls /\ own'["police"].built = s.built
        \/ \E c : c \notin s.walls /\ own'["police"].walls = s.walls \cup {c}
                                   /\ own'["police"].built = s.built + 1
    BY <1>1, <2>1, OfficerMove DEF Played
  <2>. QED
    BY <2>2, FS_AddElement DEF QuotaInv
<1>3. CASE ThiefSeals
  BY <1>3 DEF ThiefSeals, QuotaInv
<1>4. CASE Unseen
  BY <1>1, <1>4 DEF Unseen, QuotaInv
<1>. QED
  BY <1>2, <1>3, <1>4, FourKinds

\* Whose turn the referee says it is, and what it has ruled.
LEMMA TurnPasses ==
    ASSUME ChaseInv
    PROVE  /\ OnMove("thief") <=> sent["thief"] = sent["police"]
           /\ ThiefSeals => sent["thief"] = sent["police"] /\ sent'["thief"] # sent'["police"]
           /\ OfficerSeals => sent["thief"] # sent["police"] /\ sent'["thief"] = sent'["police"]
<1>1. sent["thief"] \in Nat /\ sent["police"] \in Nat
  BY DEF ChaseInv, TypeOK, Role
<1>. QED
  BY <1>1 DEF OnMove, ThiefSeals, OfficerSeals

\* The thief's turn is the chase's,
LEMMA ThiefPlaysOn ==
    ASSUME CanStay, ChaseInv, ThiefSeals, own["thief"].at \notin out["police"].claim,
           own["thief"].walls = own["police"].walls, Plays
    PROVE  Refereed!ThiefRuns
<1>. DEFINE s == own["thief"]
<1>1. s \in State /\ "thief" \in Role
  BY DEF ChaseInv, TypeOK, Role
<1>2. s.at \notin s.walls /\ Neighbors(s.at, s.walls) # {}
  BY DEF Plays, IsSealedIn, IsImmobilised
<1>3. ~Refereed!Taken
  BY <1>2, SameBoard DEF Refereed!Taken
<1>4. TrueVerdict = "open"
  BY DEF ThiefSeals, TrueVerdict
<1>5. TrueVerdict' = IF own'["thief"].step >= SurvivalThreshold THEN "survival" ELSE "open"
  BY DEF Plays, TrueVerdict
<1>6. own'["thief"].at \in {s.at} \cup Refereed!Neighbors(s.at, own["police"].walls)
  BY <1>1, ApplyMovePlace, SameBoard DEF Plays
<1>7. own'["thief"].step = s.step + 1
  BY SealedStep
<1>. QED
  BY <1>3, <1>4, <1>5, <1>6, <1>7, TurnPasses DEF Refereed!ThiefRuns, ThiefSeals

\* its admission, by cell, wall or enclosure, is the chase's capture,
LEMMA ThiefGivesIn ==
    ASSUME CanStay, ChaseInv, ThiefSeals,
           Admits \/ (Concedes /\ own["thief"].walls = own["police"].walls)
    PROVE  Refereed!ThiefIsTaken
<1>. DEFINE s == own["thief"]
<1>1. s \in State /\ "thief" \in Role
  BY DEF ChaseInv, TypeOK, Role
<1>2. Refereed!Taken
  BY SameBoard DEF Refereed!Taken, Admits, Concedes, IsSealedIn, IsImmobilised
<1>3. TrueVerdict = "open"
  BY DEF ThiefSeals, TrueVerdict
<1>4. TrueVerdict' = "capture"
  BY DEF Admits, Concedes, TrueVerdict
<1>5. own'["thief"].at = s.at
  BY <1>1, ApplyMovePlace DEF Admits, Concedes
<1>6. own'["thief"].step = s.step + 1
  BY SealedStep
<1>. QED
  BY <1>2, <1>3, <1>4, <1>5, <1>6, TurnPasses DEF Refereed!ThiefIsTaken, ThiefSeals

\* and the officer's turn is the chase's, within the quota.
LEMMA OfficerPlays ==
    ASSUME CanStay, ChaseInv, QuotaInv, OfficerSeals
    PROVE  Refereed!OfficerActs
<1>. DEFINE s == own["police"]
            t == own'["police"]
            reach == {s.at} \cup Refereed!Neighbors(s.at, s.walls)
<1>1. s \in State
  BY DEF ChaseInv, TypeOK, Role
<1>2. \/ t.at \in reach /\ out'["police"].claim = {t.at} /\ t.walls = s.walls
      \/ \E c \in reach \ s.walls : /\ t.walls = s.walls \cup {c} /\ out'["police"].claim = {c}
                                    /\ t.at = s.at /\ s.built < BarriersMax
  <2>1. PICK d \in Decision :
          /\ t = ApplyMove("police", s, IF IsLegal("police", s, d) THEN d ELSE Hold)
          /\ out'["police"].claim = CaptureClaim("police", t, d)
    BY DEF OfficerSeals, Played
  <2>2. reach = {s.at} \cup Neighbors(s.at, s.walls)
    BY SameBoard
  <2>. HIDE DEF s, t, reach
  <2>. QED
    BY <1>1, <2>1, <2>2, OfficerMove
<1>3. TrueVerdict' = TrueVerdict /\ TrueVerdict # "survival"
  BY DEF OfficerSeals, TrueVerdict
<1>4. s.built = Refereed!Cardinality(s.walls)
  BY SameBoard DEF QuotaInv
<1>. QED
  BY <1>2, <1>3, <1>4, TurnPasses DEF Refereed!OfficerActs, OfficerSeals

\* Where the rules allow standing still, two peers with private truths and an
\* unreliable network between them implement the refereed chase: no lost,
\* repeated or delayed message, crash or illegal decision makes a step of the
\* game on the shared board that a referee would not have allowed.
THEOREM SubGameImplementsChase == CanStay => (Spec => ImplementsChase)
<1>. SUFFICES ASSUME CanStay PROVE Spec => ImplementsChase
  OBVIOUS
<1>1. Init => Refereed!Init /\ QuotaInv
  <2>. SUFFICES ASSUME Init PROVE Refereed!Init /\ QuotaInv
    OBVIOUS
  <2>1. "thief" \in Role /\ "police" \in Role
    BY DEF Role
  <2>2. /\ \A p \in Role : /\ own[p].at = Start[p] /\ own[p].walls = {} /\ own[p].step = 0
                           /\ own[p].built = 0 /\ out[p].claim = {}
        /\ sent["thief"] = sent["police"] /\ kind["thief"] = "none"
    BY <2>1 DEF Init, FreshState, NoMessage
  <2>3. TrueVerdict = "open"
    BY <2>2 DEF TrueVerdict
  <2>. QED
    BY <2>1, <2>2, <2>3, FS_EmptySet DEF Refereed!Init, QuotaInv
<1>2. ChaseInv /\ QuotaInv /\ [Next]_vars => [Refereed!Next]_(Refereed!board)
  <2>. SUFFICES ASSUME ChaseInv, QuotaInv, [Next]_vars
                PROVE  [Refereed!Next]_(Refereed!board)
    OBVIOUS
  <2>1. CASE /\ ThiefSeals /\ own["thief"].at \notin out["police"].claim
             /\ own["thief"].walls = own["police"].walls /\ (Plays \/ Concedes)
    BY <2>1, ThiefPlaysOn, ThiefGivesIn DEF Refereed!Next
  <2>2. CASE ThiefSeals /\ Admits
    BY <2>2, ThiefGivesIn DEF Refereed!Next
  <2>3. CASE OfficerSeals
    BY <2>3, OfficerPlays DEF Refereed!Next
  <2>4. CASE Unseen
    BY <2>4 DEF Unseen, Refereed!board, TrueVerdict, Role
  <2>. QED
    BY <2>1, <2>2, <2>3, <2>4, FourKinds
<1>3. ChaseInv /\ QuotaInv /\ [Next]_vars => QuotaInv'
  BY QuotaStep
<1>. QED
  BY <1>1, <1>2, <1>3, ChaseInvariant, PTL DEF Spec, ImplementsChase, Refereed!Spec

-----------------------------------------------------------------------------
(* Runs in which nothing fails: an end both can see is seen by both.       *)

Quietly ==
    /\ ChaseInv /\ ChaseInv' /\ Clean
    /\ faults = 0 /\ faults' = 0 /\ kind["thief"] # "concession"

\* A turn just sealed is in its sender's hands only.
LEMMA SealedInHand ==
    ASSUME ChaseInv, ChaseInv', NEW p \in Role, OnMove(p),
           sent' = [sent EXCEPT ![p] = @ + 1], pc'[Opponent(p)] = "wait",
           Queued(Opponent(p))' = Queued(Opponent(p))
    PROVE  /\ ~CaughtUp(Opponent(p))'
           /\ \A m \in Queued(Opponent(p))' : m.seq # sent'[p]
<1>. USE DEF ChaseInv
<1>. DEFINE q == Opponent(p)
<1>1. sent[p] \in Nat /\ sent[q] \in Nat /\ q \in Role /\ Opponent(q) = p /\ p # q
  BY SentTypes
<1>2. sent'[p] = sent[p] + 1 /\ sent'[q] = sent[q]
  BY <1>1 DEF TypeOK
<1>3. OnMove(q)'
  BY <1>1, <1>2 DEF OnMove, Opponent, Role
<1>4. Behind(q)'
  BY <1>1, <1>3 DEF MailInv, PeerMailInv
<1>5. ~CaughtUp(q)'
  <2>1. sent'[p] \in Nat /\ sent'[p] # 0
    BY <1>1, <1>2
  <2>. QED
    BY <1>1, <1>4, <2>1, LastOfPrefix DEF Behind, CaughtUp
<1>6. \A m \in Queued(q) : m.seq \in 1 .. sent[p]
  BY <1>1 DEF MailInv, PeerMailInv, Genuine
<1>. QED
  BY <1>1, <1>2, <1>5, <1>6

\* Whoever decides or reads a turn knows that the other waits.
LEMMA OtherWaits ==
    ASSUME ChaseInv, Clean, ~Final, NEW p \in Role, pc[p] = "act" \/ Receive(p)
    PROVE  pc[Opponent(p)] = "wait" /\ OnMove(p)
<1>. USE DEF ChaseInv
<1>. DEFINE q == Opponent(p)
<1>1. q \in Role /\ Opponent(q) = p /\ q # p
  BY SentTypes
<1>2. pc[q] \in {"act", "send", "wait"} /\ InHand(q)
  BY <1>1 DEF Clean
<1>3. CASE pc[p] = "act"
  BY <1>1, <1>2, <1>3, Deciding DEF InHand
<1>4. CASE Receive(p)
  <2>1. Head(turns[p]) \in Queued(p) /\ Head(turns[p]) = out[q] /\ pc[q] # "act" /\ OnMove(p)
    BY <1>4, QueuedTail, NewestRead DEF Receive
  <2>2. out[q].seq = sent[q]
    BY <1>1 DEF MailInv, PeerMailInv
  <2>. QED
    BY <1>1, <1>2, <2>1, <2>2 DEF InHand
<1>. QED
  BY <1>3, <1>4

\* The thief or the officer seals a turn, final or not, and the other waits.
LEMMA SealClean ==
    ASSUME Quietly, NEW p \in Role, ~Final, OnMove(p), pc[Opponent(p)] = "wait",
           pc' = [pc EXCEPT ![p] = "send"], sent' = [sent EXCEPT ![p] = @ + 1],
           p = "police" => kind'["thief"] = kind["thief"],
           Queued(Opponent(p))' = Queued(Opponent(p)), UNCHANGED <<wire, audits>>
    PROVE  Clean'
<1>. USE DEF Quietly
<1>. DEFINE q == Opponent(p)
<1>1. /\ sent[p] \in Nat /\ sent[q] \in Nat /\ q \in Role /\ Opponent(q) = p /\ p # q
      /\ \A r \in Role : r = p \/ r = q
  BY SentTypes DEF ChaseInv, Role
<1>2. pc'[p] = "send" /\ pc'[q] = "wait"
  BY <1>1 DEF ChaseInv, TypeOK
<1>3. \A r \in Role : InHand(r)'
  <2>1. \A r \in Role : wire[r] = {}
    BY DEF Clean, InHand
  <2>. QED
    BY <1>1, <1>2, <2>1, SealedInHand DEF InHand
<1>4. \A r \in Role : pc'[r] \in {"send", "wait"} /\ audits'[r] = <<>>
  BY <1>1, <1>2 DEF Clean
<1>5. Final' => p = "thief" /\ q = "police"
  BY <1>1 DEF Final, Role, Opponent
<1>6. Final' => OnMove("police")'
  <2>1. p = "thief" => sent'["thief"] = sent["thief"] + 1 /\ sent'["police"] = sent["police"]
    BY DEF ChaseInv, TypeOK, Role
  <2>. QED
    BY <1>1, <1>5, <2>1 DEF OnMove
<1>7. \A r \in Role : PeerEnds(r)'
  BY <1>1, <1>4 DEF PeerEnds
<1>. QED
  BY <1>2, <1>3, <1>4, <1>5, <1>6, <1>7 DEF Clean

\* A decision: the sealed turn is in its sender's hands.
LEMMA TakeTurnClean ==
    ASSUME Quietly, NEW p \in Role, TakeTurn(p)
    PROVE  Clean'
<1>. USE DEF Quietly
<1>1. ~Final /\ pc[p] = "act"
  BY DEF Clean, Role, TakeTurn
<1>2. OnMove(p) /\ pc[Opponent(p)] = "wait"
  BY <1>1, OtherWaits
<1>3. /\ pc' = [pc EXCEPT ![p] = "send"] /\ sent' = [sent EXCEPT ![p] = @ + 1]
      /\ p = "police" => kind'["thief"] = kind["thief"]
  BY DEF TakeTurn, Play, Concede, Seal, Goto, ChaseInv, TypeOK, Role
<1>4. UNCHANGED <<wire, audits>> /\ Queued(Opponent(p))' = Queued(Opponent(p))
  BY DEF TakeTurn, mailVars, endVars, Queued
<1>. QED
  BY <1>1, <1>2, <1>3, <1>4, SealClean

\* A turn is delivered: nobody stops before the final one, and that one lies in
\* the officer's inbox when the thief stops.
LEMMA SendClean ==
    ASSUME Quietly, NEW p \in Role, SendTurn(p)
    PROVE  Clean'
<1>. USE DEF Quietly
<1>. DEFINE q == Opponent(p)
<1>1. /\ q \in Role /\ Opponent(q) = p /\ p # q
      /\ \A r \in Role : r = p \/ r = q
  BY SentTypes DEF ChaseInv, Role
<1>2. /\ pc[p] = "send" /\ UNCHANGED <<kind, sent, seen, wire, audits, audit>>
      /\ pc'[p] = (IF kind[p] = "turn" THEN "wait" ELSE "reveal") /\ pc'[q] = pc[q]
      /\ result'[q] = result[q]
      /\ result'[p] = (CASE kind[p] = "turn"     -> result[p]
                         [] kind[p] = "survival" -> "survival"
                         [] OTHER                -> "capture")
  BY <1>1 DEF SendTurn, SendReturns, Goto, sealVars, ChaseInv, TypeOK
<1>3. Queued(q)' = Queued(q) \cup {out[p]} /\ Queued(p)' = Queued(p) /\ out[p].seq = sent[p]
  <2>1. out[p] \in Message /\ Deliver(q, out[p])
    BY DEF SendTurn, ChaseInv, TypeOK
  <2>. QED
    BY <1>1, <2>1, QueuedAppend DEF ChaseInv, MailInv, PeerMailInv
<1>4. kind[p] \in {"turn", "survival", "concession", "caught"}
  BY <1>2 DEF ChaseInv, PhaseInv
<1>5. \A r \in Role : InHand(r)'
  BY <1>1, <1>2, <1>3 DEF Clean, InHand, CaughtUp
<1>6. Final' <=> Final
  BY <1>2 DEF Final
<1>7. CASE ~Final
  <2>1. \A r \in Role : pc[r] \in {"act", "send", "wait"} /\ audits[r] = <<>>
    BY <1>7 DEF Clean
  <2>2. p = "thief" => kind[p] \notin {"survival", "caught"}
    BY <1>7 DEF Final
  <2>3. p = "police" => kind[p] = "turn"
    BY <1>4 DEF ChaseInv, EndsInv, TurnInv
  <2>4. pc'[p] = "wait"
    BY <1>1, <1>2, <1>4, <2>2, <2>3 DEF Role
  <2>. QED
    BY <1>1, <1>2, <1>5, <1>6, <1>7, <2>1, <2>4 DEF Clean
<1>8. CASE Final
  <2>1. p = "thief" /\ q = "police"
    BY <1>1, <1>2, <1>8 DEF Clean, Role, Opponent
  <2>2. pc'["thief"] = "reveal" /\ result'["thief"] = Ending /\ Ending' = Ending
    BY <1>2, <1>8, <2>1 DEF Final, Ending
  <2>3. OnMove("police")'
    BY <1>2, <1>8 DEF Clean, OnMove
  <2>4. PeerEnds("thief") /\ PeerEnds("police")
    BY <1>8 DEF Clean, Role
  <2>5. PeerEnds("thief")' /\ PeerEnds("police")'
    BY <1>1, <1>2, <2>1, <2>2, <2>4 DEF PeerEnds
  <2>6. pc'["police"] \notin {"act", "send"}
    BY <1>2, <1>8, <2>1 DEF Clean
  <2>7. \E m \in Queued("police")' : m.seq = sent'["thief"]
    BY <1>2, <1>3, <2>1
  <2>. QED
    BY <1>5, <1>6, <1>8, <2>2, <2>3, <2>5, <2>6, <2>7 DEF Clean, Role
<1>. QED
  BY <1>7, <1>8

\* The thief's final turn ends the wait of the officer that reads it.
LEMMA ReadClean ==
    ASSUME Quietly, NEW p \in Role, Receive(p)
    PROVE  Clean'
<1>. USE DEF Quietly
<1>. DEFINE q == Opponent(p)
            m == Head(turns[p])
            noted == NoteBarrier(own[p], m.wall)
<1>1. /\ q \in Role /\ Opponent(q) = p /\ p # q
      /\ \A r \in Role : r = p \/ r = q
  BY SentTypes DEF ChaseInv, Role
<1>2. m = out[q] /\ pc[p] = "wait" /\ UNCHANGED <<wire, audits, audit>>
  BY NewestRead DEF Receive, ChaseInv
<1>3. Queued(p)' \subseteq Queued(p) /\ Queued(q)' = Queued(q)
  BY <1>1, QueuedTail DEF Receive, ChaseInv
<1>4. CASE Reading(p, m) = "i_am_caught" /\ SendFinal(p, noted)
  <2>1. p = "thief" /\ ~Final
    BY <1>1, <1>2, <1>4 DEF Reading, IsCaptured, ChaseInv, EndsInv, TurnInv, Clean, Role, Opponent
  <2>2. OnMove(p) /\ pc[q] = "wait"
    BY <2>1, OtherWaits
  <2>3. pc' = [pc EXCEPT ![p] = "send"] /\ sent' = [sent EXCEPT ![p] = @ + 1]
    BY <1>4 DEF SendFinal, Seal, Goto
  <2>. QED
    BY <1>2, <1>3, <2>1, <2>2, <2>3, SealClean
<1>5. CASE Reading(p, m) = "my_turn" /\ MyTurn(p, noted, m)
  <2>1. pc'[p] = "act" /\ pc'[q] = pc[q] /\ UNCHANGED <<kind, sent>>
    BY <1>1, <1>5 DEF MyTurn, Goto, ChaseInv, TypeOK
  <2>2. ~Final
    BY <1>1, <1>2, <1>5 DEF Reading, Final, ChaseInv, EndsInv, TurnInv, Clean, Role, Opponent
  <2>3. pc[q] = "wait"
    BY <2>2, OtherWaits
  <2>4. \A r \in Role : InHand(r)'
    BY <1>1, <1>2, <2>1, <2>3 DEF Clean, InHand
  <2>. QED
    BY <1>1, <1>2, <2>1, <2>2, <2>3, <2>4 DEF Clean, Final
<1>6. ASSUME NEW v \in {"capture", "survival"}, Ends(p, v),
             v = "capture" => Reading(p, m) = "i_won",
             v = "survival" => Reading(p, m) = "opponent_won"
      PROVE  Clean'
  <2>1. p = "police" /\ q = "thief"
    BY <1>1, <1>2, <1>6 DEF Reading, ChaseInv, EndsInv, TurnInv, Role, Opponent
  <2>2. Final /\ v = Ending
    BY <1>2, <1>6, <2>1 DEF Reading, Final, Ending, ChaseInv, EndsInv, TurnInv
  <2>3. /\ pc'["police"] = "reveal" /\ pc'["thief"] = pc["thief"]
        /\ result'["police"] = v /\ result'["thief"] = result["thief"] /\ UNCHANGED <<kind, sent>>
    BY <1>1, <1>6, <2>1 DEF Ends, Goto, ChaseInv, TypeOK
  <2>4. \A r \in Role : InHand(r)'
    <3>1. pc["thief"] # "send"
      <4>1. m \in Queued(p) /\ m.seq = sent[q]
        BY <1>1, <1>2, QueuedTail DEF Receive, ChaseInv, MailInv, PeerMailInv
      <4>. QED
        BY <1>1, <2>1, <4>1 DEF Clean, InHand
    <3>. QED
      BY <1>1, <1>2, <2>1, <2>3, <3>1 DEF Clean, InHand
  <2>5. Final' /\ Ending' = Ending /\ OnMove("police")'
    BY <2>2, <2>3 DEF Final, Ending, OnMove, Clean
  <2>6. PeerEnds("thief") /\ PeerEnds("police")
    BY <2>2 DEF Clean, Role
  <2>7. PeerEnds("thief")' /\ PeerEnds("police")'
    BY <1>1, <1>2, <2>1, <2>2, <2>3, <2>5, <2>6 DEF PeerEnds
  <2>8. pc["thief"] \notin {"act", "wait"}
    BY <2>2 DEF Clean
  <2>. QED
    BY <2>3, <2>4, <2>5, <2>7, <2>8 DEF Clean, Role
<1>. QED
  BY <1>4, <1>5, <1>6 DEF Receive

\* A turn the officer has not read stays in its inbox until it does.
LEMMA EndIsFresh ==
    ASSUME Quietly, Final, pc["thief"] # "send", pc["police"] = "wait"
    PROVE  /\ \E m \in Queued("police") : m.seq = sent["thief"] /\ m.seq \notin seen["police"]
           /\ Fresh("police")
<1>. USE DEF Quietly
<1>1. "police" \in Role /\ Opponent("police") = "thief" /\ sent["thief"] \in Nat
  BY DEF Role, Opponent, ChaseInv, TypeOK
<1>2. OnMove("police") /\ \E m \in Queued("police") : m.seq = sent["thief"]
  BY DEF Clean
<1>3. Behind("police")
  BY <1>1, <1>2 DEF ChaseInv, MailInv, PeerMailInv
<1>4. sent["thief"] \notin seen["police"]
  BY <1>1, <1>3, LastOfPrefix DEF Behind
<1>5. \E m \in Queued("police") : m.seq = sent["thief"] /\ m.seq \notin seen["police"]
  BY <1>2, <1>4
<1>. QED
  BY <1>5 DEF Fresh, IsDuplicate, Queued

\* Dropping a repeat leaves the turn that counts.
LEMMA DropClean ==
    ASSUME Quietly, NEW p \in Role, DropDuplicate(p)
    PROVE  Clean'
<1>. USE DEF Quietly
<1>1. /\ \A r \in Role : Queued(r)' \subseteq Queued(r)
      /\ Queued(p) \subseteq Queued(p)' \cup {Head(turns[p])}
      /\ \A r \in Role : r # p => Queued(r)' = Queued(r)
  BY QueuedTail DEF DropDuplicate, ChaseInv
<1>2. UNCHANGED <<sent, out, kind, pc, wire, seen, result, audits, audit>>
  BY DEF DropDuplicate, sealVars, endVars
<1>3. \A r \in Role : InHand(r)'
  BY <1>1, <1>2, OpponentRole DEF Clean, InHand, CaughtUp
<1>4. Final /\ pc["thief"] # "send" /\ pc["police"] = "wait" =>
        \E m \in Queued("police")' : m.seq = sent["thief"]
  BY <1>1, EndIsFresh DEF DropDuplicate, IsDuplicate, Role
<1>5. \A r \in Role : PeerEnds(r)' <=> PeerEnds(r)
  BY <1>2 DEF PeerEnds, Ending
<1>. QED
  BY <1>2, <1>3, <1>4, <1>5 DEF Clean, Final, OnMove

\* Leaving the audit: what each took is what the other revealed.
LEMMA AuditClean ==
    ASSUME Quietly, NEW p \in Role, Reveal(p) \/ Collect(p) \/ AuditTimeout(p)
    PROVE  Clean'
<1>. USE DEF Quietly
<1>. DEFINE q == Opponent(p)
<1>1. /\ q \in Role /\ Opponent(q) = p /\ p # q
      /\ \A r \in Role : r = p \/ r = q
  BY SentTypes DEF ChaseInv, Role
<1>2. /\ pc[p] \in {"reveal", "collect"} /\ UNCHANGED <<kind, sent, out, seen, wire, turns, result>>
      /\ pc'[p] \in {"collect", "done"} /\ pc'[q] = pc[q]
  BY <1>1 DEF Reveal, Collect, AuditTimeout, Settle, Goto, sealVars, mailVars, ChaseInv, TypeOK
<1>3. Final
  BY <1>2 DEF Clean
<1>4. PeerEnds(p) /\ PeerEnds(q) /\ Outcome(Ending) = Ending
  BY <1>1, <1>3 DEF Clean, Outcome, Ending
<1>5. result[p] = Ending /\ pc[q] # "dead"
  BY <1>1, <1>2, <1>4 DEF PeerEnds, Clean, InHand
<1>6. PeerEnds(p)' /\ PeerEnds(q)'
  <2>1. Ending' = Ending
    BY <1>2 DEF Ending
  <2>2. CASE Reveal(p)
    <3>1. /\ pc[p] = "reveal" /\ pc'[p] = "collect" /\ audit' = audit
          /\ audits'[q] = audits[q] \o <<Ending>> /\ audits'[p] = audits[p]
      BY <1>1, <1>4, <1>5, <2>2 DEF Reveal, Reveals, Fault, Goto, ChaseInv, TypeOK
    <3>2. pc[q] # "done" => audits[q] = <<>>
      BY <1>1, <1>4, <3>1 DEF PeerEnds
    <3>3. <<>> \o <<Ending>> = <<Ending>>
      OBVIOUS
    <3>. QED
      BY <1>1, <1>2, <1>4, <2>1, <3>1, <3>2, <3>3 DEF PeerEnds
  <2>3. CASE Collect(p)
    <3>1. pc[p] = "collect" /\ audits[p] # <<>>
      BY <2>3 DEF Collect
    <3>2. audits[p] = <<Ending>>
      BY <1>4, <3>1 DEF PeerEnds
    <3>3. Head(audits[p]) = Ending
      BY <3>2
    <3>4. /\ pc'[p] = "done" /\ audit'[p] = "agree" /\ audit'[q] = audit[q]
          /\ audits'[q] = audits[q]
      BY <1>1, <1>4, <1>5, <2>3, <3>3 DEF Collect, Settle, Goto, ChaseInv, TypeOK
    <3>. QED
      BY <1>1, <1>2, <1>4, <2>1, <3>1, <3>4 DEF PeerEnds
  <2>4. ~AuditTimeout(p)
    <3>. SUFFICES ASSUME AuditTimeout(p) PROVE FALSE
      OBVIOUS
    <3>1. pc[p] = "collect" /\ audits[p] = <<>> /\ NoReveal(p)
      BY DEF AuditTimeout, Fault
    <3>2. pc[q] \notin {"collect", "done", "dead"}
      BY <1>4, <1>5, <3>1 DEF PeerEnds
    <3>3. pc[q] = "wait" /\ ~Fresh(q)
      BY <3>1, <3>2 DEF NoReveal
    <3>4. q = "police" /\ p = "thief"
      BY <1>1, <1>3, <3>3 DEF Clean, Role
    <3>. QED
      BY <1>3, <3>1, <3>3, <3>4, EndIsFresh
  <2>. QED
    BY <2>2, <2>3, <2>4
<1>7. \A r \in Role : InHand(r)'
  BY <1>1, <1>2 DEF Clean, InHand, CaughtUp, Queued
<1>8. Final' /\ OnMove("police")'
  BY <1>2, <1>3 DEF Final, OnMove, Clean
<1>9. pc'["thief"] \notin {"act", "wait"} /\ pc'["police"] \notin {"act", "send"}
  BY <1>1, <1>2, <1>3 DEF Clean, Role
<1>10. pc'["thief"] # "send" /\ pc'["police"] = "wait" => \E m \in Queued("police") : m.seq = sent["thief"]
  BY <1>1, <1>2, <1>3 DEF Clean, Role
<1>. QED
  BY <1>1, <1>2, <1>6, <1>7, <1>8, <1>9, <1>10 DEF Clean, Queued

\* Nothing fails unless it is counted: no deadline passes, no attempt is given
\* up, no copy is delayed.
LEMMA NothingFails ==
    ASSUME Quietly, NEW p \in Role
    PROVE  ~TurnTimeout(p) /\ ~GiveUp(p) /\ ~RetrySend(p) /\ ~LateDelivery(p) /\ ~Crash(p)
<1>. USE DEF Quietly
<1>. DEFINE q == Opponent(p)
<1>1. q \in Role /\ \A r \in Role : pc[r] # "dead" /\ wire[r] = {}
  BY OpponentRole DEF Clean, InHand
<1>2. ~Fault
  BY DEF Fault
<1>3. ~TurnTimeout(p)
  <2>. SUFFICES ASSUME TurnTimeout(p) PROVE FALSE
    OBVIOUS
  <2>1. pc[p] = "wait" /\ ~Fresh(p) /\ pc[q] \in {"reveal", "collect", "done"}
    BY <1>1, <1>2 DEF TurnTimeout, Silent
  <2>2. Final /\ p = "police" /\ q = "thief"
    BY <1>1, <2>1 DEF Clean, Role, Opponent
  <2>. QED
    BY <2>1, <2>2, EndIsFresh
<1>4. ~GiveUp(p)
  BY <1>1, <1>2 DEF GiveUp
<1>5. ~RetrySend(p) /\ ~Crash(p)
  BY <1>2 DEF RetrySend, Crash
<1>6. ~LateDelivery(p)
  BY <1>1 DEF LateDelivery
<1>. QED
  BY <1>3, <1>4, <1>5, <1>6

\* Faults are counted, never forgotten.
LEMMA FaultsGrow ==
    ASSUME TypeOK, [Next]_vars, faults' = 0
    PROVE  faults = 0
<1>1. faults \in Nat
  BY SubGameAssumption DEF TypeOK
<1>2. faults' = faults \/ faults' = faults + 1
  BY DEF Next, Progress, Terminated, TakeTurn, SendTurn, GiveUp, Receive, DropDuplicate,
         TurnTimeout, Reveal, Collect, AuditTimeout, RetrySend, LateDelivery, Crash, Fault, vars
<1>. QED
  BY <1>1, <1>2

\* Every step keeps a game clean until something fails.
LEMMA CleanStep == ChaseInv /\ CleanInv /\ [Next]_vars => CleanInv'
<1>. SUFFICES ASSUME ChaseInv, CleanInv, [Next]_vars, faults' = 0, kind'["thief"] # "concession"
              PROVE  Clean'
  BY DEF CleanInv
<1>1. kind["thief"] # "concession"
  BY FourKinds DEF ThiefSeals, OfficerSeals, Unseen
<1>2. Quietly
  BY <1>1, ChaseInvStep, FaultsGrow DEF Quietly, CleanInv, ChaseInv
<1>3. ASSUME NEW p \in Role, Progress(p) \/ RetrySend(p) \/ LateDelivery(p) \/ Crash(p)
      PROVE  Clean'
  BY <1>2, <1>3, NothingFails, TakeTurnClean, SendClean, ReadClean, DropClean, AuditClean
     DEF Progress
<1>4. CASE UNCHANGED vars
  BY <1>2, <1>4 DEF vars, Quietly, Clean, InHand, PeerEnds, Ending, Final, OnMove, CaughtUp, Queued
<1>. QED
  BY <1>3, <1>4 DEF Next, Terminated

\* When nothing failed, an end both peers can see is recorded alike by both and
\* both audits say so: no deadline cuts the last turn or a reveal short
\* (turn_handler.py, turn_sender.py and audit.py at the end of a sub-game).
THEOREM EndsAgree == Spec => []SeenEndsAgree
<1>1. Init => CleanInv
  BY DEF Init, CleanInv, Clean, InHand, Final, Queued, Role
<1>2. ChaseInv /\ CleanInv => SeenEndsAgree
  <2>. SUFFICES ASSUME ChaseInv, CleanInv, Over, faults = 0, Final
                PROVE  /\ result["thief"] = result["police"]
                       /\ \A p \in Role : audit[p] = "agree"
    BY DEF SeenEndsAgree, Final
  <2>1. Clean
    BY DEF CleanInv, Final
  <2>2. \A p \in Role : pc[p] = "done" /\ PeerEnds(p)
    BY <2>1 DEF Over, Clean, InHand
  <2>. QED
    BY <2>2 DEF PeerEnds, Role
<1>. QED
  BY <1>1, <1>2, CleanStep, ChaseInvariant, PTL DEF Spec
=============================================================================
