--------------------------- MODULE SubGameProofs ---------------------------
(***************************************************************************)
(* Theorems about SubGame, for every board, quota, threshold and number of *)
(* faults: types, the phase machine, the turn token and the walls.  The    *)
(* token survives the network: whatever is retried, duplicated, delayed or *)
(* lost, turns are applied exactly once and in order, one peer is on move, *)
(* both never wait for each other, and walls stay public.                  *)
(***************************************************************************)
EXTENDS SubGameInv, SequenceTheorems, TLAPS

-----------------------------------------------------------------------------
(* What the short paths the runtime walks ask of the phase table.          *)

\* What a path of up to three phases asks of the table, and where it ends.
LEMMA NoPath ==
    ASSUME NEW f
    PROVE  PathEnd(f, <<>>) = f
BY DEF PathEnd

LEMMA Path1 ==
    ASSUME NEW f, NEW x
    PROVE  /\ LegalPath(f, <<x>>) <=> Can(f, x)
           /\ PathEnd(f, <<x>>) = x
<1>1. 1 .. Len(<<x>>) = {1}
  OBVIOUS
<1>. QED
  BY <1>1 DEF LegalPath, PathEnd

LEMMA Path2 ==
    ASSUME NEW f, NEW x, NEW y
    PROVE  /\ LegalPath(f, <<x, y>>) <=> Can(f, x) /\ Can(x, y)
           /\ PathEnd(f, <<x, y>>) = y
<1>1. 1 .. Len(<<x, y>>) = {1, 2}
  OBVIOUS
<1>. QED
  BY <1>1 DEF LegalPath, PathEnd

LEMMA Path3 ==
    ASSUME NEW f, NEW x, NEW y, NEW z
    PROVE  /\ LegalPath(f, <<x, y, z>>) <=> Can(f, x) /\ Can(x, y) /\ Can(y, z)
           /\ PathEnd(f, <<x, y, z>>) = z
<1>1. 1 .. Len(<<x, y, z>>) = {1, 2, 3}
  OBVIOUS
<1>. QED
  BY <1>1 DEF LegalPath, PathEnd

\* Concatenation on the lengths that occur.
LEMMA Joined ==
    ASSUME NEW S, NEW x \in S, NEW y \in S, NEW z \in S
    PROVE  <<x, y>> \o <<z>> = <<x, y, z>>
<1>. DEFINE s == <<x, y>>
            t == <<z>>
            u == <<x, y, z>>
<1>1. s \in Seq(S) /\ t \in Seq(S) /\ u \in Seq(S)
  OBVIOUS
<1>2. Len(s) = 2 /\ Len(t) = 1 /\ Len(u) = 3
  OBVIOUS
<1>3. /\ s[1] = x /\ s[2] = y /\ t[1] = z
      /\ u[1] = x /\ u[2] = y /\ u[3] = z
  OBVIOUS
<1>. HIDE DEF s, t, u
<1>4. s \o t \in Seq(S) /\ Len(s \o t) = 3
  <2>1. s \o t \in Seq(S) /\ Len(s \o t) = Len(s) + Len(t)
    BY <1>1, ConcatProperties
  <2>. QED
    BY <1>2, <2>1
<1>5. \A i \in 1 .. 3 : (s \o t)[i] = IF i <= 2 THEN s[i] ELSE t[i - 2]
  <2>1. \A i \in 1 .. Len(s) + Len(t) :
           (s \o t)[i] = IF i <= Len(s) THEN s[i] ELSE t[i - Len(s)]
    BY <1>1, ConcatProperties
  <2>2. Len(s) + Len(t) = 3
    BY <1>2
  <2>. QED
    BY <1>2, <2>1, <2>2
<1>6. (s \o t)[1] = s[1] /\ (s \o t)[2] = s[2] /\ (s \o t)[3] = t[3 - 2]
  <2>1. /\ 1 \in 1 .. 3 /\ 2 \in 1 .. 3 /\ 3 \in 1 .. 3
        /\ 1 <= 2 /\ 2 <= 2 /\ ~(3 <= 2)
    OBVIOUS
  <2>. QED
    BY <1>5, <2>1, Zenon
<1>7. 3 - 2 = 1 /\ \A i \in 1 .. 3 : i = 1 \/ i = 2 \/ i = 3
  OBVIOUS
<1>8. \A i \in 1 .. 3 : (s \o t)[i] = u[i]
  BY <1>3, <1>6, <1>7, Zenon
<1>9. s \o t = u
  BY <1>1, <1>2, <1>4, <1>8, SeqEqual
<1>. QED
  BY <1>9 DEF s, t, u

\* The edges the table must have for the runtime's paths.
LEMMA Edges ==
    /\ Can("WAITING", "COMPUTING") /\ Can("WAITING", "AUDITING")
    /\ Can("COMPUTING", "COMMITTING") /\ Can("COMMITTING", "AWAITING_REVEAL")
    /\ Can("COMMITTING", "AUDITING") /\ Can("AWAITING_REVEAL", "VERIFYING")
    /\ Can("VERIFYING", "WAITING") /\ Can("AUDITING", "GAME_OVER")
BY DEF Can, Transitions

-----------------------------------------------------------------------------
(* Geometry and one peer's own state.                                      *)

\* A step never leaves the board and never enters a sealed cell.
LEMMA StepFromCell ==
    ASSUME NEW c, NEW d, NEW walls
    PROVE  /\ StepFrom(c, d, walls) \subseteq Cell \ walls
           /\ StepFrom(c, d, walls) # {} => Toward(c, d) \in Cell \ walls
BY DEF StepFrom

\* apply_move keeps a peer's own state well-formed and its counters monotonic.
LEMMA ApplyMoveState ==
    ASSUME NEW r \in Role, NEW s \in State, NEW d \in Decision
    PROVE  ApplyMove(r, s, d) \in State
<1>. DEFINE wall == IF d.move = "BARRIER" THEN WallTarget(r, s, d) ELSE {}
<1>1. wall \subseteq Cell
  BY StepFromCell DEF WallTarget, State
<1>2. CASE ~IsLegal(r, s, d)
  BY <1>2 DEF ApplyMove
<1>3. CASE IsLegal(r, s, d)
  <2>1. d.move = "MOVE" => Toward(s.at, d.dir) \in Cell
    BY <1>3, StepFromCell DEF IsLegal
  <2>. QED
    BY <1>1, <1>3, <2>1 DEF ApplyMove, State
<1>. QED
  BY <1>2, <1>3

LEMMA NoteBarrierState ==
    ASSUME NEW s \in State, NEW wall \in SUBSET Cell
    PROVE  NoteBarrier(s, wall) \in State
BY DEF NoteBarrier, State

LEMMA HoldDecision == Hold \in Decision
BY DEF Hold, Decision

LEMMA OpponentRole ==
    ASSUME NEW p \in Role
    PROVE  /\ Opponent(p) \in Role
           /\ Opponent(p) # p
           /\ Opponent(Opponent(p)) = p
           /\ \A q \in Role : q = p \/ q = Opponent(p)
BY DEF Role, Opponent

-----------------------------------------------------------------------------
(* Type correctness.                                                       *)

LEMMA SealType ==
    ASSUME TypeOK, NEW p \in Role, NEW s \in State, NEW k \in Kind,
           NEW claim \in SUBSET Cell, NEW answer \in Answer, NEW win \in BOOLEAN,
           Seal(p, s, k, claim, answer, win)
    PROVE  /\ own' \in [Role -> State]
           /\ kind' \in [Role -> Kind]
           /\ sent' \in [Role -> Nat]
           /\ out' \in [Role -> Message]
           /\ owed' \in [Role -> Answer]
           /\ pc' \in [Role -> Pc]
<1>1. s.step \in Nat /\ s.last \in SUBSET Cell
  BY DEF State
<1>2. [seq |-> sent[p] + 1, step |-> s.step, wall |-> s.last, claim |-> claim,
       answer |-> answer, win |-> win] \in Message
  BY <1>1 DEF TypeOK, Message
<1>. QED
  BY <1>2 DEF TypeOK, Seal, Goto, Pc, Answer

LEMMA WalkType ==
    ASSUME TypeOK, NEW p \in Role, NEW path \in Seq(Phase), Walk(p, path)
    PROVE  phase' \in [Role -> Phase]
<1>1. PathEnd(phase[p], path) \in Phase
  BY DEF PathEnd, TypeOK
<1>. QED
  BY <1>1 DEF Walk, TypeOK

\* The paths the runtime walks are sequences of phases.
LEMMA PathTypes ==
    /\ <<"COMPUTING">> \in Seq(Phase)
    /\ \A k \in Kind : AfterSend(k) \in Seq(Phase)
    /\ \A p \in Role : /\ Verified(p) \in Seq(Phase)
                       /\ Verified(p) \o <<"AUDITING">> \in Seq(Phase)
<1>1. \A f \in Phase : <<f>> \in Seq(Phase)
  OBVIOUS
<1>2. \A f, g \in Phase : <<f, g>> \in Seq(Phase)
  OBVIOUS
<1>3. <<>> \in Seq(Phase)
  OBVIOUS
<1>4. /\ "COMPUTING" \in Phase /\ "COMMITTING" \in Phase /\ "AWAITING_REVEAL" \in Phase
      /\ "AUDITING" \in Phase /\ "VERIFYING" \in Phase /\ "WAITING" \in Phase
  BY DEF Phase
<1>5. \A k \in Kind : AfterSend(k) \in Seq(Phase)
  BY <1>1, <1>2, <1>4 DEF AfterSend
<1>6. \A p \in Role : Verified(p) \in Seq(Phase)
  BY <1>2, <1>3, <1>4 DEF Verified
<1>7. \A a, b \in Seq(Phase) : a \o b \in Seq(Phase)
  OBVIOUS
<1>. QED
  BY <1>1, <1>4, <1>5, <1>6, <1>7

LEMMA DeliverType ==
    ASSUME TypeOK, NEW p \in Role, NEW m \in Message, Deliver(p, m)
    PROVE  turns' \in [Role -> Seq(Message)]
BY DEF Deliver, TypeOK

LEMMA LosesCallType ==
    ASSUME TypeOK, NEW p \in Role, LosesCall(p)
    PROVE  /\ turns' \in [Role -> Seq(Message)]
           /\ wire' \in [Role -> SUBSET Message]
<1>1. Opponent(p) \in Role /\ out[p] \in Message
  BY OpponentRole DEF TypeOK
<1>2. Deliver(Opponent(p), out[p]) => turns' \in [Role -> Seq(Message)]
  BY <1>1, DeliverType
<1>3. wire' = [wire EXCEPT ![Opponent(p)] = @ \cup {out[p]}]
         => wire' \in [Role -> SUBSET Message]
  BY <1>1 DEF TypeOK
<1>. QED
  BY <1>2, <1>3 DEF LosesCall, TypeOK

LEMMA HeadType ==
    ASSUME TypeOK, NEW p \in Role, turns[p] # <<>>
    PROVE  /\ Head(turns[p]) \in Message
           /\ [turns EXCEPT ![p] = Tail(@)] \in [Role -> Seq(Message)]
BY DEF TypeOK

LEMMA FailedType == \A f \in Phase : Failed(f) \in Phase
BY DEF Failed, Phase, Terminal

LEMMA FaultType ==
    ASSUME TypeOK, Fault
    PROVE  faults' \in 0 .. MaxFaults
BY SubGameAssumption DEF TypeOK, Fault

LEMMA TakeTurnType ==
    ASSUME TypeOK, NEW p \in Role, TakeTurn(p)
    PROVE  TypeOK'
<1>1. phase' \in [Role -> Phase]
  BY WalkType, PathTypes DEF TakeTurn
<1>2. own[p] \in State /\ owed[p] \in Answer
  BY DEF TypeOK
<1>3. CASE Play(p)
  <2>1. PICK d \in Decision :
          LET s   == IF IsLegal(p, own[p], d) THEN ApplyMove(p, own[p], d)
                     ELSE ApplyMove(p, own[p], Hold)
              win == ThiefSurvives(p, s)
          IN  Seal(p, s, IF win THEN "survival" ELSE "turn",
                   CaptureClaim(p, s, d), owed[p], win)
    BY <1>3 DEF Play
  <2>. DEFINE s   == IF IsLegal(p, own[p], d) THEN ApplyMove(p, own[p], d)
                     ELSE ApplyMove(p, own[p], Hold)
              win == ThiefSurvives(p, s)
  <2>2. s \in State
    BY <1>2, ApplyMoveState, HoldDecision
  <2>3. CaptureClaim(p, s, d) \in SUBSET Cell
    BY <2>2 DEF CaptureClaim, State
  <2>4. win \in BOOLEAN
    BY DEF ThiefSurvives
  <2>5. (IF win THEN "survival" ELSE "turn") \in Kind
    BY DEF Kind
  <2>6. Seal(p, s, IF win THEN "survival" ELSE "turn",
             CaptureClaim(p, s, d), owed[p], win)
    BY <2>1
  <2>7. /\ own' \in [Role -> State]
        /\ kind' \in [Role -> Kind]
        /\ sent' \in [Role -> Nat]
        /\ out' \in [Role -> Message]
        /\ owed' \in [Role -> Answer]
        /\ pc' \in [Role -> Pc]
    <3>. HIDE DEF s, win
    <3>. QED
      BY <1>2, <2>2, <2>3, <2>4, <2>5, <2>6, SealType
  <2>. QED
    BY <1>1, <2>7 DEF TakeTurn, TypeOK, mailVars, endVars
<1>4. CASE Concede(p)
  <2>1. ApplyMove(p, own[p], Hold) \in State
    BY <1>2, ApplyMoveState, HoldDecision
  <2>2. (IF owed[p] = "none" THEN "caught" ELSE owed[p]) \in Answer
    BY <1>2 DEF Answer
  <2>3. "concession" \in Kind /\ {} \in SUBSET Cell /\ FALSE \in BOOLEAN
    BY DEF Kind
  <2>. QED
    BY <1>1, <1>4, <2>1, <2>2, <2>3, SealType
       DEF Concede, TakeTurn, TypeOK, mailVars, endVars
<1>. QED
  BY <1>3, <1>4 DEF TakeTurn

LEMMA VerifiedEnds ==
    ASSUME TypeOK, NEW p \in Role, NEW v \in Verdict, turns[p] # <<>>, Ends(p, v)
    PROVE  /\ own' \in [Role -> State]
           /\ phase' \in [Role -> Phase]
           /\ pc' \in [Role -> Pc]
           /\ result' \in [Role -> Verdict]
<1>1. Head(turns[p]).wall \in SUBSET Cell /\ own[p] \in State
  BY HeadType DEF Message, TypeOK
<1>2. NoteBarrier(own[p], Head(turns[p]).wall) \in State
  BY <1>1, NoteBarrierState
<1>3. phase' \in [Role -> Phase]
  BY WalkType, PathTypes DEF Ends
<1>. QED
  BY <1>2, <1>3 DEF Ends, Goto, TypeOK, Pc

LEMMA ReceiveType ==
    ASSUME TypeOK, NEW p \in Role, Receive(p)
    PROVE  TypeOK'
<1>. DEFINE m == Head(turns[p])
            noted == NoteBarrier(own[p], m.wall)
<1>1. /\ m \in Message
      /\ turns' \in [Role -> Seq(Message)]
  BY HeadType DEF Receive
<1>2. /\ m.seq \in Nat /\ m.wall \in SUBSET Cell /\ m.claim \in SUBSET Cell
      /\ own[p] \in State
  BY <1>1 DEF Message, TypeOK
<1>3. noted \in State
  BY <1>2, NoteBarrierState
<1>4. seen' \in [Role -> SUBSET Nat]
  BY <1>2 DEF Receive, TypeOK
<1>5. CASE Ends(p, "capture")
  BY <1>1, <1>4, <1>5, VerifiedEnds DEF Receive, Ends, TypeOK, Verdict
<1>6. CASE Ends(p, "survival")
  BY <1>1, <1>4, <1>6, VerifiedEnds DEF Receive, Ends, TypeOK, Verdict
<1>7. CASE SendFinal(p, noted)
  <2>1. ApplyMove(p, noted, Hold) \in State
    BY <1>3, ApplyMoveState, HoldDecision
  <2>2. "caught" \in Kind /\ {} \in SUBSET Cell /\ "caught" \in Answer /\ FALSE \in BOOLEAN
    BY DEF Kind, Answer
  <2>3. phase' \in [Role -> Phase]
    BY <1>7, WalkType, PathTypes DEF SendFinal
  <2>. QED
    BY <1>1, <1>4, <1>7, <2>1, <2>2, <2>3, SealType DEF SendFinal, Receive, TypeOK
<1>8. CASE MyTurn(p, noted, m)
  <2>1. phase' \in [Role -> Phase]
    BY <1>8, WalkType, PathTypes DEF MyTurn
  <2>. QED
    BY <1>1, <1>3, <1>4, <1>8, <2>1 DEF MyTurn, Receive, Goto, TypeOK, Pc, Answer
<1>. QED
  BY <1>5, <1>6, <1>7, <1>8 DEF Receive

LEMMA SendTurnType ==
    ASSUME TypeOK, NEW p \in Role, SendTurn(p)
    PROVE  TypeOK'
<1>1. turns' \in [Role -> Seq(Message)]
  BY OpponentRole, DeliverType DEF SendTurn, TypeOK
<1>2. phase' \in [Role -> Phase]
  BY WalkType, PathTypes DEF SendTurn, SendReturns, TypeOK
<1>. QED
  BY <1>1, <1>2 DEF SendTurn, SendReturns, Goto, TypeOK, Pc, Verdict, sealVars

LEMMA AbortType ==
    ASSUME TypeOK, NEW p \in Role, Abort(p)
    PROVE  /\ phase' \in [Role -> Phase]
           /\ result' \in [Role -> Verdict]
           /\ pc' \in [Role -> Pc]
BY FailedType DEF Abort, Goto, TypeOK, Pc, Verdict

LEMMA GiveUpType ==
    ASSUME TypeOK, NEW p \in Role, GiveUp(p)
    PROVE  TypeOK'
<1>1. /\ turns' \in [Role -> Seq(Message)]
      /\ wire' \in [Role -> SUBSET Message]
      /\ faults' \in 0 .. MaxFaults
  BY LosesCallType, FaultType DEF GiveUp, TypeOK
<1>. QED
  BY <1>1, AbortType DEF GiveUp, Abort, TypeOK, sealVars

LEMMA RevealType ==
    ASSUME TypeOK, NEW p \in Role, Reveal(p)
    PROVE  TypeOK'
<1>. DEFINE Reports == {"capture", "survival", "timeout"}
<1>1. Outcome(result[p]) \in Reports
  BY DEF Outcome, TypeOK
<1>2. /\ <<Outcome(result[p])>> \in Seq(Reports)
      /\ <<Outcome(result[p]), Outcome(result[p])>> \in Seq(Reports)
  BY <1>1
<1>3. \A copies \in Seq(Reports) :
         Reveals(p, copies) => audits' \in [Role -> Seq(Reports)]
  BY OpponentRole DEF Reveals, TypeOK
<1>4. audits' \in [Role -> Seq(Reports)]
  BY <1>2, <1>3 DEF Reveal, TypeOK
<1>5. faults' \in 0 .. MaxFaults
  BY FaultType DEF Reveal, TypeOK
<1>. QED
  BY <1>4, <1>5 DEF Reveal, Goto, TypeOK, Pc, sealVars, mailVars

LEMMA SettleType ==
    ASSUME TypeOK, NEW p \in Role, NEW verdict \in {"agree", "disagree", "absent"},
           Settle(p, verdict), audits' \in [Role -> Seq({"capture", "survival", "timeout"})],
           faults' \in 0 .. MaxFaults
    PROVE  TypeOK'
BY DEF Settle, Goto, TypeOK, Pc, Phase, sealVars, mailVars

\* One step, of any action, keeps every variable in its type.
LEMMA TypeStep == TypeOK /\ [Next]_vars => TypeOK'
<1>. SUFFICES ASSUME TypeOK, [Next]_vars
              PROVE  TypeOK'
  OBVIOUS
<1>1. ASSUME NEW p \in Role, TakeTurn(p) PROVE TypeOK'
  BY <1>1, TakeTurnType
<1>2. ASSUME NEW p \in Role, SendTurn(p) PROVE TypeOK'
  BY <1>2, SendTurnType
<1>3. ASSUME NEW p \in Role, GiveUp(p) PROVE TypeOK'
  BY <1>3, GiveUpType
<1>4. ASSUME NEW p \in Role, Receive(p) PROVE TypeOK'
  BY <1>4, ReceiveType
<1>5. ASSUME NEW p \in Role, DropDuplicate(p) PROVE TypeOK'
  BY <1>5, HeadType DEF DropDuplicate, TypeOK, sealVars, endVars
<1>6. ASSUME NEW p \in Role, TurnTimeout(p) PROVE TypeOK'
  <2>1. faults' \in 0 .. MaxFaults
    BY <1>6, FaultType DEF TurnTimeout, TypeOK
  <2>. QED
    BY <1>6, <2>1, FailedType
       DEF TurnTimeout, Goto, TypeOK, Pc, Verdict, sealVars, mailVars
<1>7. ASSUME NEW p \in Role, Reveal(p) PROVE TypeOK'
  BY <1>7, RevealType
<1>8. ASSUME NEW p \in Role, Collect(p) PROVE TypeOK'
  <2>1. audits' \in [Role -> Seq({"capture", "survival", "timeout"})]
    BY <1>8 DEF Collect, TypeOK
  <2>. QED
    BY <1>8, <2>1, SettleType DEF Collect, TypeOK
<1>9. ASSUME NEW p \in Role, AuditTimeout(p) PROVE TypeOK'
  <2>1. faults' \in 0 .. MaxFaults
    BY <1>9, FaultType DEF AuditTimeout, TypeOK
  <2>. QED
    BY <1>9, <2>1, SettleType DEF AuditTimeout, TypeOK
<1>10. ASSUME NEW p \in Role, RetrySend(p) PROVE TypeOK'
  BY <1>10, LosesCallType, FaultType DEF RetrySend, TypeOK, sealVars, endVars
<1>11. ASSUME NEW p \in Role, LateDelivery(p) PROVE TypeOK'
  <2>1. turns' \in [Role -> Seq(Message)] /\ wire' \in [Role -> SUBSET Message]
    BY <1>11, DeliverType DEF LateDelivery, TypeOK
  <2>. QED
    BY <1>11, <2>1 DEF LateDelivery, TypeOK, sealVars, endVars
<1>12. ASSUME NEW p \in Role, Crash(p) PROVE TypeOK'
  BY <1>12, FaultType DEF Crash, Goto, TypeOK, Pc, sealVars, mailVars, endVars
<1>13. CASE UNCHANGED vars
  BY <1>13 DEF vars, TypeOK
<1>. QED
  BY <1>1, <1>2, <1>3, <1>4, <1>5, <1>6, <1>7, <1>8, <1>9, <1>10, <1>11, <1>12, <1>13
     DEF Next, Progress, Terminated

LEMMA TypeInit == Init => TypeOK
<1>. SUFFICES ASSUME Init PROVE TypeOK
  OBVIOUS
<1>1. \A p \in Role : FreshState(Start[p]) \in State
  BY SubGameAssumption DEF FreshState, State
<1>2. NoMessage \in Message
  BY DEF NoMessage, Message, Answer
<1>. QED
  BY <1>1, <1>2, SubGameAssumption
     DEF Init, TypeOK, Phase, Pc, Answer, Kind, Verdict

\* Every state of every run is well typed: own states stay on the board and
\* out of arithmetic trouble, every queued turn is a turn.
THEOREM TypeCorrect == Spec => []TypeOK
BY TypeInit, TypeStep, PTL DEF Spec

-----------------------------------------------------------------------------
(* The phase machine.                                                      *)

\* What _consume walks when another phase follows the verification.
LEMMA VerifiedThen ==
    ASSUME NEW p, NEW x \in Phase
    PROVE  Verified(p) \o <<x>> = IF phase[p] = "AWAITING_REVEAL"
                                  THEN <<"VERIFYING", "WAITING", x>> ELSE <<x>>
<1>1. <<"VERIFYING", "WAITING">> \o <<x>> = <<"VERIFYING", "WAITING", x>>
  BY Joined DEF Phase
<1>2. <<>> \o <<x>> = <<x>>
  OBVIOUS
<1>. QED
  BY <1>1, <1>2 DEF Verified

LEMMA VerifiedEnd ==
    ASSUME NEW p
    PROVE  /\ PathEnd(phase[p], Verified(p) \o <<"AUDITING">>) = "AUDITING"
           /\ PathEnd(phase[p], Verified(p)) =
                 IF phase[p] = "AWAITING_REVEAL" THEN "WAITING" ELSE phase[p]
<1>1. "AUDITING" \in Phase
  BY DEF Phase
<1>2. CASE phase[p] = "AWAITING_REVEAL"
  <2>1. Verified(p) \o <<"AUDITING">> = <<"VERIFYING", "WAITING", "AUDITING">>
    BY <1>1, <1>2, VerifiedThen
  <2>. QED
    <3>1. /\ PathEnd(phase[p], <<"VERIFYING", "WAITING", "AUDITING">>) = "AUDITING"
          /\ PathEnd(phase[p], <<"VERIFYING", "WAITING">>) = "WAITING"
      BY Path2, Path3
    <3>2. Verified(p) = <<"VERIFYING", "WAITING">>
      BY <1>2 DEF Verified
    <3>. QED
      BY <1>2, <2>1, <3>1, <3>2
<1>3. CASE phase[p] # "AWAITING_REVEAL"
  BY <1>1, <1>3, VerifiedThen, NoPath, Path1 DEF Verified
<1>. QED
  BY <1>2, <1>3

LEMMA AfterSendEnd ==
    ASSUME NEW f, NEW k
    PROVE  PathEnd(f, AfterSend(k)) = IF k = "turn" THEN "AWAITING_REVEAL" ELSE "AUDITING"
<1>1. CASE k = "turn"
  BY <1>1, Path2 DEF AfterSend
<1>2. CASE k \in {"survival", "concession"}
  BY <1>2, Path2 DEF AfterSend
<1>3. CASE k \notin {"turn", "survival", "concession"}
  BY <1>3, Path1 DEF AfterSend
<1>. QED
  BY <1>1, <1>2, <1>3

LEMMA PhaseSafe == PhaseInv => NoPhaseError
<1>. SUFFICES ASSUME PhaseInv, NEW p \in Role
              PROVE  /\ pc[p] = "act"  => LegalPath(phase[p], <<"COMPUTING">>)
                     /\ pc[p] = "send" => LegalPath(phase[p], AfterSend(kind[p]))
                     /\ pc[p] = "wait" => /\ LegalPath(phase[p], Verified(p) \o <<"COMPUTING">>)
                                          /\ LegalPath(phase[p], Verified(p) \o <<"AUDITING">>)
                     /\ pc[p] \in {"reveal", "collect"} /\ phase[p] # "TECHNICAL_LOSS"
                           => LegalPath(phase[p], <<"GAME_OVER">>)
  BY DEF NoPhaseError
<1>1. pc[p] = "act" => LegalPath(phase[p], <<"COMPUTING">>)
  BY Path1, Edges DEF PhaseInv
<1>2. pc[p] = "send" => LegalPath(phase[p], AfterSend(kind[p]))
  BY Path1, Path2, Edges DEF PhaseInv, AfterSend
<1>3. pc[p] = "wait" => /\ LegalPath(phase[p], Verified(p) \o <<"COMPUTING">>)
                       /\ LegalPath(phase[p], Verified(p) \o <<"AUDITING">>)
  <2>1. "COMPUTING" \in Phase /\ "AUDITING" \in Phase
    BY DEF Phase
  <2>2. CASE phase[p] = "AWAITING_REVEAL"
    <3>1. /\ Verified(p) \o <<"COMPUTING">> = <<"VERIFYING", "WAITING", "COMPUTING">>
          /\ Verified(p) \o <<"AUDITING">> = <<"VERIFYING", "WAITING", "AUDITING">>
      BY <2>1, <2>2, VerifiedThen
    <3>. QED
      <4>1. /\ LegalPath("AWAITING_REVEAL", <<"VERIFYING", "WAITING", "COMPUTING">>)
            /\ LegalPath("AWAITING_REVEAL", <<"VERIFYING", "WAITING", "AUDITING">>)
        BY Path3, Edges
      <4>. QED
        BY <2>2, <3>1, <4>1
  <2>3. CASE phase[p] # "AWAITING_REVEAL"
    BY <2>1, <2>3, VerifiedThen, Path1, Edges DEF PhaseInv
  <2>. QED
    BY <2>2, <2>3
<1>4. pc[p] \in {"reveal", "collect"} /\ phase[p] # "TECHNICAL_LOSS"
         => LegalPath(phase[p], <<"GAME_OVER">>)
  BY Path1, Edges DEF PhaseInv
<1>. QED
  BY <1>1, <1>2, <1>3, <1>4

\* A step of one peer leaves the other's phase, place and kind of turn alone.
LEMMA PhaseStep == TypeOK /\ PhaseInv /\ [Next]_vars => PhaseInv'
<1>. SUFFICES ASSUME TypeOK, PhaseInv, [Next]_vars
              PROVE  PhaseInv'
  OBVIOUS
<1>. USE DEF PhaseInv
<1>1. ASSUME NEW p \in Role, TakeTurn(p) PROVE PhaseInv'
  <2>1. phase' = [phase EXCEPT ![p] = "COMPUTING"]
    BY <1>1, Path1 DEF TakeTurn, Walk
  <2>2. /\ pc' = [pc EXCEPT ![p] = "send"]
        /\ \E k \in {"turn", "survival", "concession"} : kind' = [kind EXCEPT ![p] = k]
    BY <1>1 DEF TakeTurn, Play, Concede, Seal, Goto
  <2>. QED
    BY <2>1, <2>2 DEF TypeOK
<1>2. ASSUME NEW p \in Role, SendTurn(p) PROVE PhaseInv'
  <2>1. CASE kind[p] = "turn"
    <3>1. phase' = [phase EXCEPT ![p] = "AWAITING_REVEAL"] /\ pc' = [pc EXCEPT ![p] = "wait"]
      BY <1>2, <2>1, AfterSendEnd DEF SendTurn, SendReturns, Walk, Goto
    <3>. QED
      BY <1>2, <3>1 DEF SendTurn, sealVars, TypeOK
  <2>2. CASE kind[p] # "turn"
    <3>1. phase' = [phase EXCEPT ![p] = "AUDITING"] /\ pc' = [pc EXCEPT ![p] = "reveal"]
      BY <1>2, <2>2, AfterSendEnd DEF SendTurn, SendReturns, Walk, Goto
    <3>. QED
      BY <1>2, <3>1 DEF SendTurn, sealVars, TypeOK
  <2>. QED
    BY <2>1, <2>2
<1>3. ASSUME NEW p \in Role, GiveUp(p) PROVE PhaseInv'
  BY <1>3 DEF GiveUp, Abort, Goto, sealVars, TypeOK
<1>4. ASSUME NEW p \in Role, Receive(p) PROVE PhaseInv'
  <2>1. ASSUME NEW v \in Verdict, Ends(p, v) PROVE PhaseInv'
    <3>1. phase' = [phase EXCEPT ![p] = "AUDITING"] /\ pc' = [pc EXCEPT ![p] = "reveal"]
      BY <2>1, VerifiedEnd DEF Ends, Walk, Goto
    <3>. QED
      BY <2>1, <3>1 DEF Ends, TypeOK
  <2>2. PathEnd(phase[p], Verified(p)) = "WAITING"
    BY <1>4, VerifiedEnd DEF Receive
  <2>3. ASSUME NEW noted, SendFinal(p, noted) PROVE PhaseInv'
    BY <2>2, <2>3 DEF SendFinal, Seal, Walk, Goto, TypeOK
  <2>4. ASSUME NEW noted, NEW m, MyTurn(p, noted, m) PROVE PhaseInv'
    BY <2>2, <2>4 DEF MyTurn, Walk, Goto, TypeOK
  <2>. QED
    BY <1>4, <2>1, <2>3, <2>4 DEF Receive, Verdict
<1>5. ASSUME NEW p \in Role, DropDuplicate(p) PROVE PhaseInv'
  BY <1>5 DEF DropDuplicate, sealVars
<1>6. ASSUME NEW p \in Role, TurnTimeout(p) PROVE PhaseInv'
  BY <1>6 DEF TurnTimeout, Failed, Terminal, Goto, sealVars, TypeOK
<1>7. ASSUME NEW p \in Role, Reveal(p) PROVE PhaseInv'
  BY <1>7 DEF Reveal, Goto, sealVars, TypeOK
<1>8. ASSUME NEW p \in Role, NEW v, Settle(p, v) PROVE PhaseInv'
  BY <1>8 DEF Settle, Goto, sealVars, TypeOK
<1>9. ASSUME NEW p \in Role, Collect(p) \/ AuditTimeout(p) PROVE PhaseInv'
  BY <1>8, <1>9 DEF Collect, AuditTimeout
<1>10. ASSUME NEW p \in Role, RetrySend(p) \/ LateDelivery(p) PROVE PhaseInv'
  BY <1>10 DEF RetrySend, LateDelivery, sealVars
<1>11. ASSUME NEW p \in Role, Crash(p) PROVE PhaseInv'
  BY <1>11 DEF Crash, Goto, sealVars, TypeOK
<1>12. CASE UNCHANGED vars
  BY <1>12 DEF vars
<1>. QED
  BY <1>1, <1>2, <1>3, <1>4, <1>5, <1>6, <1>7, <1>9, <1>10, <1>11, <1>12
     DEF Next, Progress, Terminated

LEMMA PhaseInit == Init => PhaseInv
BY DEF Init, PhaseInv

\* PhaseError is unreachable: whatever the opponent and the network do, the
\* runtime only asks the phase machine for edges it has.
THEOREM PhasesNeverRefuse == Spec => []NoPhaseError
BY PhaseInit, TypeInit, TypeStep, PhaseStep, PhaseSafe, PTL DEF Spec

-----------------------------------------------------------------------------
(* Counting turns.                                                         *)

LEMMA LastOfPrefix ==
    ASSUME NEW n \in Nat, n # 0
    PROVE  /\ n \in 1 .. n
           /\ n \notin 1 .. (n - 1)
           /\ (1 .. (n - 1)) \cup {n} = 1 .. n
           /\ 1 .. n # 1 .. (n - 1)
<1>1. n \in 1 .. n /\ n \notin 1 .. (n - 1)
  OBVIOUS
<1>2. (1 .. (n - 1)) \cup {n} = 1 .. n
  OBVIOUS
<1>. QED
  BY <1>1, <1>2

LEMMA SentTypes ==
    ASSUME TypeOK, NEW p \in Role
    PROVE  /\ sent[p] \in Nat /\ sent[Opponent(p)] \in Nat
           /\ Opponent(p) \in Role /\ Opponent(p) # p /\ Opponent(Opponent(p)) = p
BY OpponentRole DEF TypeOK

\* Exactly one peer is on move, and nobody is both level and behind.
LEMMA OneOnMove ==
    ASSUME TypeOK, MailInv, NEW p \in Role
    PROVE  /\ OnMove(p) <=> ~OnMove(Opponent(p))
           /\ CaughtUp(p) => ~Behind(p)
<1>1. OnMove(p) <=> ~OnMove(Opponent(p))
  BY DEF TypeOK, MailInv, OnMove, Role, Opponent
<1>2. CaughtUp(p) => ~Behind(p)
  BY SentTypes, LastOfPrefix DEF CaughtUp, Behind
<1>. QED
  BY <1>1, <1>2

-----------------------------------------------------------------------------
(* Inboxes as sets of copies.                                              *)

LEMMA QueuedAppend ==
    ASSUME TypeOK, NEW p \in Role, NEW m \in Message, Deliver(p, m)
    PROVE  /\ Queued(p)' = Queued(p) \cup {m}
           /\ \A q \in Role : q # p => Queued(q)' = Queued(q)
<1>1. turns[p] \in Seq(Message) /\ turns'[p] = Append(turns[p], m)
  BY DEF TypeOK, Deliver
<1>2. /\ Len(turns'[p]) = Len(turns[p]) + 1
      /\ \A i \in 1 .. Len(turns[p]) : turns'[p][i] = turns[p][i]
      /\ turns'[p][Len(turns[p]) + 1] = m
  BY <1>1
<1>3. 1 .. (Len(turns[p]) + 1) = (1 .. Len(turns[p])) \cup {Len(turns[p]) + 1}
  BY <1>1
<1>4. Queued(p)' = Queued(p) \cup {m}
  BY <1>2, <1>3 DEF Queued
<1>. QED
  BY <1>4 DEF Queued, Deliver, TypeOK

LEMMA QueuedTail ==
    ASSUME TypeOK, NEW p \in Role, turns[p] # <<>>,
           turns' = [turns EXCEPT ![p] = Tail(@)]
    PROVE  /\ Head(turns[p]) \in Queued(p)
           /\ Queued(p)' \subseteq Queued(p)
           /\ Queued(p) \subseteq Queued(p)' \cup {Head(turns[p])}
           /\ \A q \in Role : q # p => Queued(q)' = Queued(q)
<1>. DEFINE s == turns[p]
            t == Tail(s)
<1>1. s \in Seq(Message) /\ s # <<>> /\ turns'[p] = t
  BY DEF TypeOK
<1>2. /\ Len(s) \in Nat /\ Len(s) >= 1 /\ Len(t) = Len(s) - 1
      /\ \A i \in 1 .. Len(t) : t[i] = s[i + 1]
      /\ Head(s) = s[1]
  BY <1>1, HeadTailProperties, EmptySeq
<1>3. Queued(p) = {s[i] : i \in 1 .. Len(s)} /\ Queued(p)' = {t[i] : i \in 1 .. Len(t)}
  BY <1>1 DEF Queued
<1>. HIDE DEF s, t
<1>4. \A i \in 1 .. Len(s) : i = 1 \/ (i - 1 \in 1 .. Len(t) /\ s[i] = t[i - 1])
  BY <1>2
<1>5. 1 \in 1 .. Len(s) /\ \A i \in 1 .. Len(t) : i + 1 \in 1 .. Len(s)
  BY <1>2
<1>6. /\ Head(s) \in Queued(p)
      /\ Queued(p)' \subseteq Queued(p)
      /\ Queued(p) \subseteq Queued(p)' \cup {Head(s)}
  BY <1>2, <1>3, <1>4, <1>5
<1>. QED
  BY <1>6 DEF Queued, s, TypeOK

-----------------------------------------------------------------------------
(* The two kinds of step MailInv has to survive.                           *)

\* A peer on move that has read everything seals its next turn.
LEMMA SealMail ==
    ASSUME TypeOK, MailInv, NEW p \in Role, NEW s, NEW k, NEW claim, NEW answer, NEW win,
           Seal(p, s, k, claim, answer, win), OnMove(p), pc[p] \in {"act", "wait"},
           seen' = [seen EXCEPT ![p] = 1 .. sent[Opponent(p)]],
           UNCHANGED wire,
           Queued(p)' \subseteq Queued(p),
           Queued(Opponent(p))' = Queued(Opponent(p))
    PROVE  MailInv'
<1>. DEFINE q == Opponent(p)
<1>1. /\ sent[p] \in Nat /\ sent[q] \in Nat /\ q \in Role /\ q # p /\ Opponent(q) = p
      /\ \A r \in Role : r = p \/ r = q
  BY SentTypes, OpponentRole
<1>2. /\ pc'[p] = "send" /\ pc'[q] = pc[q]
      /\ sent'[p] = sent[p] + 1 /\ sent'[q] = sent[q]
      /\ out'[p].seq = sent[p] + 1 /\ out'[q] = out[q]
      /\ seen'[p] = 1 .. sent[q] /\ seen'[q] = seen[q]
  BY <1>1 DEF Seal, Goto, TypeOK
<1>3. sent'["thief"] - sent'["police"] \in {0, 1} /\ ~OnMove(p)' /\ OnMove(q)'
  <2>1. CASE p = "thief"
    BY <1>1, <1>2, <2>1 DEF OnMove, Opponent
  <2>2. CASE p = "police"
    BY <1>1, <1>2, <2>2 DEF OnMove, Opponent
  <2>. QED
    BY <2>1, <2>2 DEF Role
<1>4. ~OnMove(q) /\ CaughtUp(q) /\ pc[q] # "act"
  BY <1>1, OneOnMove DEF MailInv, PeerMailInv
<1>5. Behind(q)'
  <2>1. seen'[q] = 1 .. sent[p]
    BY <1>1, <1>2, <1>4 DEF CaughtUp
  <2>2. sent'[p] # 0 /\ sent'[p] - 1 = sent[p]
    BY <1>1, <1>2
  <2>. QED
    BY <1>1, <2>1, <2>2 DEF Behind
<1>6. CaughtUp(p)' /\ ~Behind(p)'
  BY <1>1, <1>2, LastOfPrefix DEF CaughtUp, Behind
<1>7. \A m \in wire'[p] \cup Queued(p)' : Genuine(p, m)'
  BY <1>1, <1>2 DEF MailInv, PeerMailInv, Genuine
<1>8. \A m \in wire'[q] \cup Queued(q)' : Genuine(q, m)'
  BY <1>1, <1>2 DEF MailInv, PeerMailInv, Genuine
<1>9. PeerMailInv(p)'
  BY <1>1, <1>2, <1>3, <1>6, <1>7 DEF PeerMailInv
<1>10. PeerMailInv(q)'
  BY <1>1, <1>2, <1>3, <1>4, <1>5, <1>8 DEF PeerMailInv, MailInv
<1>. QED
  BY <1>1, <1>3, <1>9, <1>10 DEF MailInv

\* A step that seals nothing and takes nothing from an inbox but duplicates:
\* copies of the newest turns may appear, threads may move on to wait for an
\* answer to a turn they delivered, or leave the turn loop.
LEMMA QuietMail ==
    ASSUME TypeOK, MailInv, UNCHANGED <<sent, out, seen>>,
           \A r \in Role :
              /\ \/ pc'[r] = pc[r]
                 \/ pc'[r] \notin {"act", "send", "wait"}
                 \/ /\ pc[r] = "send" /\ pc'[r] = "wait"
                    /\ \E m \in Queued(Opponent(r))' : m.seq = sent[r]
              /\ wire'[r] \cup Queued(r)' \subseteq
                    wire[r] \cup Queued(r) \cup
                    (IF sent[Opponent(r)] = 0 THEN {} ELSE {out[Opponent(r)]})
              /\ \A m \in Queued(r) : m \in Queued(r)' \/ m.seq \in seen[r]
    PROVE  MailInv'
<1>. SUFFICES ASSUME NEW p \in Role
              PROVE  PeerMailInv(p)'
  BY DEF MailInv
<1>. DEFINE q == Opponent(p)
<1>1. sent[p] \in Nat /\ sent[q] \in Nat /\ q \in Role /\ q # p /\ Opponent(q) = p
  BY SentTypes
<1>2. PeerMailInv(p) /\ PeerMailInv(q)
  BY <1>1 DEF MailInv
<1>3. /\ OnMove(p)' <=> OnMove(p)
      /\ CaughtUp(p)' <=> CaughtUp(p)
      /\ Behind(p)' <=> Behind(p)
  BY DEF OnMove, CaughtUp, Behind
<1>4. \A m \in wire'[p] \cup Queued(p)' : Genuine(p, m)'
  <2>1. sent[q] # 0 => Genuine(p, out[q])
    BY <1>1, <1>2, LastOfPrefix DEF Genuine, PeerMailInv
  <2>2. \A m : Genuine(p, m)' <=> Genuine(p, m)
    BY DEF Genuine
  <2>. QED
    BY <1>2, <2>1, <2>2 DEF PeerMailInv
<1>5. pc'[q] = "wait" /\ Behind(p)' => \E m \in Queued(p)' : m.seq = sent'[q]
  <2>. SUFFICES ASSUME pc'[q] = "wait", Behind(p)
                PROVE  \E m \in Queued(p)' : m.seq = sent[q]
    BY <1>3
  <2>1. CASE pc[q] = "send" /\ \E m \in Queued(Opponent(q))' : m.seq = sent[q]
    BY <1>1, <2>1
  <2>2. CASE pc[q] = "wait"
    <3>1. PICK m \in Queued(p) : m.seq = sent[q]
      BY <1>2, <2>2 DEF PeerMailInv
    <3>2. m.seq \notin seen[p]
      BY <1>1, <3>1, LastOfPrefix DEF Behind
    <3>. QED
      BY <3>1, <3>2
  <2>. QED
    BY <1>1, <2>1, <2>2
<1>6. /\ pc'[p] = "act" => pc[p] = "act"
      /\ pc'[p] = "send" => pc[p] = "send"
      /\ pc'[p] = "wait" => pc[p] \in {"send", "wait"}
  OBVIOUS
<1>. QED
  BY <1>2, <1>3, <1>4, <1>5, <1>6 DEF PeerMailInv

-----------------------------------------------------------------------------
(* The invariant, action by action.                                        *)

\* The only new turn an inbox can hold is the newest one of a peer that is
\* behind and on move.
LEMMA FreshIsNewest ==
    ASSUME TypeOK, MailInv, NEW p \in Role, NEW m \in Queued(p), ~IsDuplicate(p, m)
    PROVE  /\ Behind(p) /\ OnMove(p)
           /\ m = out[Opponent(p)] /\ m.seq = sent[Opponent(p)]
           /\ seen[p] \cup {m.seq} = 1 .. sent[Opponent(p)]
<1>. DEFINE n == sent[Opponent(p)]
<1>1. n \in Nat
  BY SentTypes
<1>2. m.seq \in 1 .. n /\ m.seq \notin seen[p] /\ (m.seq = n => m = out[Opponent(p)])
  BY DEF MailInv, PeerMailInv, Genuine, IsDuplicate
<1>3. Behind(p) /\ OnMove(p)
  BY <1>2 DEF MailInv, PeerMailInv, CaughtUp
<1>4. n # 0 /\ seen[p] = 1 .. (n - 1)
  BY <1>3 DEF Behind
<1>5. m.seq = n
  BY <1>1, <1>2, <1>4
<1>. QED
  BY <1>1, <1>2, <1>3, <1>4, <1>5, LastOfPrefix

\* Handing over, losing or delaying a copy of a sealed turn.
LEMMA LosesCallMail ==
    ASSUME TypeOK, NEW p \in Role, LosesCall(p), sent[p] # 0
    PROVE  \A r \in Role :
              /\ wire'[r] \cup Queued(r)' \subseteq
                    wire[r] \cup Queued(r) \cup
                    (IF sent[Opponent(r)] = 0 THEN {} ELSE {out[Opponent(r)]})
              /\ Queued(r) \subseteq Queued(r)'
<1>. DEFINE q == Opponent(p)
<1>1. /\ q \in Role /\ out[p] \in Message /\ Opponent(q) = p
      /\ \A r \in Role : r = p \/ r = q
  BY OpponentRole DEF TypeOK
<1>2. CASE Deliver(q, out[p]) /\ UNCHANGED wire
  BY <1>1, <1>2, QueuedAppend
<1>3. CASE wire' = [wire EXCEPT ![q] = @ \cup {out[p]}] /\ UNCHANGED turns
  BY <1>1, <1>3 DEF TypeOK, Queued
<1>4. CASE UNCHANGED <<turns, wire>>
  BY <1>4 DEF Queued
<1>. QED
  BY <1>2, <1>3, <1>4 DEF LosesCall

\* sent is at least one while a thread sends.
LEMMA SendingHasSent ==
    ASSUME MailInv, NEW p \in Role, pc[p] = "send"
    PROVE  sent[p] # 0 /\ out[p].seq = sent[p]
BY DEF MailInv, PeerMailInv

LEMMA ReceiveMail ==
    ASSUME TypeOK, MailInv, NEW p \in Role, Receive(p)
    PROVE  MailInv'
<1>. DEFINE q == Opponent(p)
            m == Head(turns[p])
            noted == NoteBarrier(own[p], m.wall)
<1>1. /\ sent[p] \in Nat /\ sent[q] \in Nat /\ q \in Role /\ q # p /\ Opponent(q) = p
      /\ \A r \in Role : r = p \/ r = q
  BY SentTypes, OpponentRole
<1>2. /\ m \in Queued(p)
      /\ Queued(p)' \subseteq Queued(p)
      /\ Queued(q)' = Queued(q)
  BY <1>1, QueuedTail DEF Receive
<1>3. /\ Behind(p) /\ OnMove(p)
      /\ seen' = [seen EXCEPT ![p] = 1 .. sent[q]]
  BY <1>2, FreshIsNewest DEF Receive
<1>4. pc[p] = "wait" /\ wire' = wire
  BY DEF Receive
<1>5. ASSUME UNCHANGED <<sent, out>>,
             \E label \in {"act", "reveal"} : pc' = [pc EXCEPT ![p] = label]
      PROVE  MailInv'
  <2>1. /\ pc'[p] \in {"act", "reveal"} /\ pc'[q] = pc[q]
        /\ seen'[p] = 1 .. sent[q] /\ seen'[q] = seen[q]
    BY <1>1, <1>3, <1>5 DEF TypeOK
  <2>2. OnMove(p)' /\ ~OnMove(q)' /\ CaughtUp(p)' /\ ~Behind(p)'
    BY <1>1, <1>3, <1>5, <2>1, OneOnMove, LastOfPrefix DEF OnMove, CaughtUp, Behind
  <2>3. (CaughtUp(q)' <=> CaughtUp(q)) /\ (Behind(q)' <=> Behind(q))
    BY <1>1, <1>5, <2>1 DEF CaughtUp, Behind
  <2>4. PeerMailInv(p)'
    BY <1>1, <1>2, <1>4, <1>5, <2>1, <2>2 DEF MailInv, PeerMailInv, Genuine
  <2>5. PeerMailInv(q)'
    BY <1>1, <1>2, <1>3, <1>4, <1>5, <2>1, <2>2, <2>3, OneOnMove
       DEF MailInv, PeerMailInv, Genuine
  <2>. QED
    BY <1>1, <1>5, <2>4, <2>5 DEF MailInv
<1>6. ASSUME NEW v, Ends(p, v) PROVE MailInv'
  BY <1>5, <1>6 DEF Ends, Goto
<1>7. CASE SendFinal(p, noted)
  BY <1>1, <1>2, <1>3, <1>4, <1>7, SealMail DEF SendFinal
<1>8. CASE MyTurn(p, noted, m)
  BY <1>5, <1>8 DEF MyTurn, Goto
<1>. QED
  BY <1>6, <1>7, <1>8 DEF Receive

LEMMA MailStep == TypeOK /\ MailInv /\ [Next]_vars => MailInv'
<1>. SUFFICES ASSUME TypeOK, MailInv, [Next]_vars
              PROVE  MailInv'
  OBVIOUS
<1>1. ASSUME NEW p \in Role, TakeTurn(p) PROVE MailInv'
  <2>1. PICK s, k, claim, answer, win : Seal(p, s, k, claim, answer, win)
    BY <1>1 DEF TakeTurn, Play, Concede
  <2>2. pc[p] = "act" /\ OnMove(p) /\ CaughtUp(p)
    BY <1>1 DEF TakeTurn, MailInv, PeerMailInv
  <2>3. seen' = [seen EXCEPT ![p] = 1 .. sent[Opponent(p)]]
    BY <1>1, <2>2 DEF TakeTurn, mailVars, CaughtUp, TypeOK
  <2>4. \A r \in Role : Queued(r)' = Queued(r)
    BY <1>1 DEF TakeTurn, mailVars, Queued
  <2>5. UNCHANGED wire
    BY <1>1 DEF TakeTurn, mailVars
  <2>. QED
    BY <2>1, <2>2, <2>3, <2>4, <2>5, SealMail, SentTypes
<1>2. ASSUME NEW p \in Role, SendTurn(p) PROVE MailInv'
  <2>. DEFINE q == Opponent(p)
  <2>1. /\ q \in Role /\ q # p /\ Opponent(q) = p /\ \A r \in Role : r = p \/ r = q
        /\ out[p] \in Message /\ sent[p] # 0 /\ out[p].seq = sent[p]
    BY <1>2, OpponentRole, SendingHasSent DEF SendTurn, TypeOK
  <2>2. Queued(q)' = Queued(q) \cup {out[p]} /\ Queued(p)' = Queued(p)
    BY <1>2, <2>1, QueuedAppend DEF SendTurn
  <2>3. /\ pc[p] = "send" /\ pc'[p] \in {"wait", "reveal"} /\ pc'[q] = pc[q]
    BY <1>2, <2>1 DEF SendTurn, SendReturns, Goto, TypeOK
  <2>4. UNCHANGED <<sent, out, seen, wire>>
    BY <1>2 DEF SendTurn, sealVars
  <2>. QED
    BY <2>1, <2>2, <2>3, <2>4, QuietMail
<1>3. ASSUME NEW p \in Role, GiveUp(p) PROVE MailInv'
  <2>1. \A r \in Role :
           /\ wire'[r] \cup Queued(r)' \subseteq
                 wire[r] \cup Queued(r) \cup
                 (IF sent[Opponent(r)] = 0 THEN {} ELSE {out[Opponent(r)]})
           /\ Queued(r) \subseteq Queued(r)'
    <3>1. CASE LosesCall(p)
      BY <1>3, <3>1, LosesCallMail, SendingHasSent DEF GiveUp
    <3>2. CASE UNCHANGED <<turns, wire>>
      BY <3>2 DEF Queued
    <3>. QED
      BY <1>3, <3>1, <3>2 DEF GiveUp
  <2>2. UNCHANGED <<sent, out, seen>> /\ pc' = [pc EXCEPT ![p] = "done"]
    BY <1>3 DEF GiveUp, Abort, Goto, sealVars
  <2>. QED
    BY <2>1, <2>2, QuietMail DEF TypeOK
<1>4. ASSUME NEW p \in Role, Receive(p) PROVE MailInv'
  BY <1>4, ReceiveMail
<1>5. ASSUME NEW p \in Role, DropDuplicate(p) PROVE MailInv'
  <2>1. /\ Queued(p)' \subseteq Queued(p)
        /\ Queued(p) \subseteq Queued(p)' \cup {Head(turns[p])}
        /\ \A r \in Role : r # p => Queued(r)' = Queued(r)
    BY <1>5, QueuedTail DEF DropDuplicate
  <2>2. Head(turns[p]).seq \in seen[p]
    BY <1>5 DEF DropDuplicate, IsDuplicate
  <2>3. UNCHANGED <<sent, out, seen, wire, pc>>
    BY <1>5 DEF DropDuplicate, sealVars
  <2>. QED
    BY <2>1, <2>2, <2>3, QuietMail
<1>6. ASSUME NEW p \in Role, TurnTimeout(p) \/ Reveal(p) \/ Crash(p) PROVE MailInv'
  <2>1. /\ UNCHANGED <<sent, out, seen, turns, wire>>
        /\ \E label \in {"reveal", "collect", "dead"} : pc' = [pc EXCEPT ![p] = label]
    BY <1>6 DEF TurnTimeout, Reveal, Crash, Goto, sealVars, mailVars
  <2>. QED
    BY <2>1, QuietMail DEF Queued, TypeOK
<1>7. ASSUME NEW p \in Role, NEW v, Settle(p, v) PROVE MailInv'
  <2>1. /\ UNCHANGED <<sent, out, seen, turns, wire>>
        /\ pc' = [pc EXCEPT ![p] = "done"]
    BY <1>7 DEF Settle, Goto, sealVars, mailVars
  <2>. QED
    BY <2>1, QuietMail DEF Queued, TypeOK
<1>8. ASSUME NEW p \in Role, Collect(p) \/ AuditTimeout(p) PROVE MailInv'
  BY <1>7, <1>8 DEF Collect, AuditTimeout
<1>9. ASSUME NEW p \in Role, RetrySend(p) PROVE MailInv'
  <2>1. UNCHANGED <<sent, out, seen, pc>>
    BY <1>9 DEF RetrySend, sealVars
  <2>. QED
    BY <1>9, <2>1, LosesCallMail, SendingHasSent, QuietMail DEF RetrySend
<1>10. ASSUME NEW p \in Role, LateDelivery(p) PROVE MailInv'
  <2>1. PICK m \in wire[p] : Deliver(p, m) /\ wire' = [wire EXCEPT ![p] = @ \ {m}]
    BY <1>10 DEF LateDelivery
  <2>2. m \in Message
    BY <2>1 DEF TypeOK
  <2>3. /\ Queued(p)' = Queued(p) \cup {m}
        /\ \A r \in Role : r # p => Queued(r)' = Queued(r)
    BY <2>1, <2>2, QueuedAppend
  <2>4. UNCHANGED <<sent, out, seen, pc>>
    BY <1>10 DEF LateDelivery, sealVars
  <2>5. \A r \in Role : wire'[r] \subseteq wire[r]
    BY <2>1 DEF TypeOK
  <2>. QED
    BY <2>1, <2>3, <2>4, <2>5, QuietMail
<1>11. CASE UNCHANGED vars
  BY <1>11 DEF vars, MailInv, PeerMailInv, CaughtUp, Behind, OnMove, Queued, Genuine
<1>. QED
  BY <1>1, <1>2, <1>3, <1>4, <1>5, <1>6, <1>8, <1>9, <1>10, <1>11
     DEF Next, Progress, Terminated

LEMMA MailInit == Init => MailInv
<1>. SUFFICES ASSUME Init PROVE MailInv
  OBVIOUS
<1>1. \A p \in Role : Queued(p) = {}
  BY DEF Init, Queued
<1>. QED
  BY <1>1 DEF Init, MailInv, PeerMailInv, CaughtUp, Behind, OnMove, NoMessage, Role, Opponent

LEMMA MailInvariant == Spec => [](TypeOK /\ MailInv)
BY TypeInit, TypeStep, MailInit, MailStep, PTL DEF Spec

\* Exactly once, in order: what a peer has applied is the prefix of what the
\* other sealed, with at most the newest turn missing (_is_duplicate).
THEOREM TurnsAppliedOnce == Spec => []ExactlyOnceInOrder
<1>1. TypeOK /\ MailInv => ExactlyOnceInOrder
  BY DEF MailInv, PeerMailInv, CaughtUp, Behind, ExactlyOnceInOrder
<1>. QED
  BY <1>1, MailInvariant, PTL

\* There is one turn token, and it travels with the turn message.
THEOREM TokenIsUnique == Spec => []OneToken
<1>1. TypeOK /\ MailInv => OneToken
  BY DEF MailInv, PeerMailInv, CaughtUp, OneToken
<1>. QED
  BY <1>1, MailInvariant, PTL

\* Two peers in _await_turn never wait for each other: one of them has an
\* unread turn in its inbox.
THEOREM NobodyWaitsInVain == Spec => []NoMutualWait
<1>1. TypeOK /\ MailInv => NoMutualWait
  <2>. SUFFICES ASSUME TypeOK, MailInv, \A p \in Role : pc[p] = "wait"
                PROVE  \E p \in Role : Fresh(p)
    BY DEF NoMutualWait
  <2>1. PICK p \in Role : OnMove(p)
    BY OneOnMove, OpponentRole DEF Role
  <2>2. Behind(p) /\ \E m \in Queued(p) : m.seq = sent[Opponent(p)]
    BY <2>1, OpponentRole DEF MailInv, PeerMailInv
  <2>3. \E m \in Queued(p) : m.seq \notin seen[p]
    BY <2>2, SentTypes, LastOfPrefix DEF Behind
  <2>. QED
    BY <2>3 DEF Queued, Fresh, IsDuplicate
<1>. QED
  BY <1>1, MailInvariant, PTL

-----------------------------------------------------------------------------
(* Walls.                                                                  *)

\* What one decision does to the walls a peer knows and to the one it logs.
LEMMA ApplyMoveWalls ==
    ASSUME NEW r \in Role, NEW s \in State, NEW d
    PROVE  LET t == ApplyMove(r, s, d)
           IN  /\ t = s \/ t.walls = s.walls \cup t.last
               /\ r = "thief" => t.walls = s.walls /\ (t = s \/ t.last = {})
<1>. DEFINE wall == IF d.move = "BARRIER" THEN WallTarget(r, s, d) ELSE {}
<1>1. r = "thief" => wall = {}
  BY DEF WallTarget
<1>2. CASE ~IsLegal(r, s, d)
  BY <1>2 DEF ApplyMove
<1>3. CASE IsLegal(r, s, d)
  <2>1. ApplyMove(r, s, d).walls = s.walls \cup wall /\ ApplyMove(r, s, d).last = wall
    BY <1>3 DEF ApplyMove
  <2>. HIDE DEF wall
  <2>. QED
    BY <1>1, <2>1
<1>. QED
  BY <1>2, <1>3

\* A peer that has read everything seals a state whose walls are the old ones
\* and the one it declares.
LEMMA SealWall ==
    ASSUME TypeOK, MailInv, MailInv', WallInv, NEW p \in Role, NEW s, NEW k, NEW claim,
           NEW answer, NEW win, Seal(p, s, k, claim, answer, win), OnMove(p),
           seen' = [seen EXCEPT ![p] = 1 .. sent[Opponent(p)]],
           LET walls == own[p].walls \cup (IF CaughtUp(p) THEN {} ELSE out[Opponent(p)].wall)
           IN  \/ s.walls = walls \cup s.last
               \/ s.walls = walls /\ s.last = own[p].last,
           p = "thief" => s.last = {}
    PROVE  WallInv'
<1>. DEFINE q == Opponent(p)
<1>1. /\ q \in Role /\ q # p /\ Opponent(q) = p /\ \A r \in Role : r = p \/ r = q
      /\ sent[p] \in Nat /\ sent[q] \in Nat
  BY SentTypes, OpponentRole
<1>2. /\ own'[p] = s /\ own'[q] = own[q] /\ out'[p].wall = s.last /\ out'[q] = out[q]
      /\ sent'[p] = sent[p] + 1 /\ sent'[q] = sent[q]
      /\ seen'[p] = 1 .. sent[q] /\ seen'[q] = seen[q]
  BY <1>1 DEF Seal, TypeOK
<1>3. CaughtUp(q)
  BY <1>1, OneOnMove DEF MailInv, PeerMailInv
<1>4. CASE p = "thief"
  <2>1. /\ q = "police" /\ out["police"].wall \subseteq own["police"].walls
        /\ own["police"].walls = own["thief"].walls \cup
             (IF CaughtUp("thief") THEN {} ELSE out["police"].wall)
    BY <1>4 DEF WallInv, Opponent
  <2>2. s.last = {} /\ s.walls = own["police"].walls
    BY <1>4, <2>1 DEF WallInv
  <2>. QED
    BY <1>2, <1>4, <2>1, <2>2 DEF WallInv
<1>5. CASE p = "police"
  <2>1. /\ q = "thief" /\ out["thief"].wall = {}
        /\ own["thief"].walls = own["police"].walls
        /\ own["police"].last \subseteq own["police"].walls
    BY <1>3, <1>5 DEF WallInv, Opponent
  <2>2. /\ s.last \subseteq s.walls
        /\ own["police"].walls \subseteq s.walls
        /\ s.walls \subseteq own["police"].walls \cup s.last
    BY <1>5, <2>1
  <2>3. ~CaughtUp("thief")'
    <3>1. Behind("thief")'
      <4>1. seen'[q] = 1 .. sent[p] /\ sent'[p] # 0 /\ sent'[p] - 1 = sent[p]
        BY <1>1, <1>2, <1>3 DEF CaughtUp
      <4>. QED
        BY <1>5, <2>1, <4>1 DEF Behind, Opponent
    <3>. QED
      BY <1>1, <1>2, <1>5, <2>1, <3>1, LastOfPrefix DEF Behind, CaughtUp, Opponent
  <2>. QED
    BY <1>2, <1>5, <2>1, <2>2, <2>3 DEF WallInv
<1>. QED
  BY <1>4, <1>5 DEF Role

\* A peer that takes a fresh turn knows the wall the turn declares.
LEMMA ReceiveWall ==
    ASSUME TypeOK, MailInv, MailInv', WallInv, NEW p \in Role, Receive(p)
    PROVE  WallInv'
<1>. DEFINE q == Opponent(p)
            m == Head(turns[p])
            noted == NoteBarrier(own[p], m.wall)
<1>1. q \in Role /\ q # p /\ \A r \in Role : r = p \/ r = q
  BY OpponentRole
<1>2. /\ Behind(p) /\ OnMove(p) /\ m = out[q]
      /\ seen' = [seen EXCEPT ![p] = 1 .. sent[q]]
  BY QueuedTail, FreshIsNewest DEF Receive
<1>3. ~CaughtUp(p) /\ own[p] \in State
  BY <1>2, OneOnMove DEF TypeOK
<1>4. /\ noted.walls = own[p].walls \cup out[q].wall
      /\ noted.last = own[p].last
      /\ noted \in State
  <2>1. out[q].wall \in SUBSET Cell
    BY <1>1 DEF TypeOK, Message
  <2>2. noted = NoteBarrier(own[p], out[q].wall)
    BY <1>2
  <2>. QED
    BY <1>3, <2>1, <2>2, NoteBarrierState DEF NoteBarrier, State
<1>5. ASSUME own' = [own EXCEPT ![p] = noted], UNCHANGED <<sent, out>>
      PROVE  WallInv'
  <2>1. own'[p] = noted /\ own'[q] = own[q]
    BY <1>1, <1>5 DEF TypeOK
  <2>2. CASE p = "thief"
    BY <1>4, <1>5, <2>1, <2>2 DEF WallInv, Opponent
  <2>3. CASE p = "police"
    <3>1. q = "thief" /\ CaughtUp("thief") /\ seen'["thief"] = seen["thief"]
      BY <1>2, <2>3, OneOnMove DEF Opponent, MailInv, PeerMailInv, TypeOK, Role
    <3>. QED
      BY <1>4, <1>5, <2>1, <2>3, <3>1 DEF WallInv, CaughtUp, Opponent
  <2>. QED
    BY <2>2, <2>3 DEF Role
<1>6. ASSUME NEW v, Ends(p, v) PROVE WallInv'
  BY <1>5, <1>6 DEF Ends
<1>7. CASE SendFinal(p, noted)
  <2>. DEFINE s == ApplyMove(p, noted, Hold)
  <2>1. /\ s = noted \/ s.walls = noted.walls \cup s.last
        /\ p = "thief" => s = noted \/ s.last = {}
    BY <1>4, ApplyMoveWalls
  <2>2. p = "thief" => s.last = {}
    BY <1>4, <2>1 DEF WallInv
  <2>3. Seal(p, s, "caught", {}, "caught", FALSE)
    BY <1>7 DEF SendFinal
  <2>. HIDE DEF s, noted
  <2>. QED
    BY <1>2, <1>3, <1>4, <2>1, <2>2, <2>3, SealWall
<1>8. CASE MyTurn(p, noted, m)
  BY <1>5, <1>8 DEF MyTurn
<1>. QED
  BY <1>6, <1>7, <1>8 DEF Receive

LEMMA TakeTurnWall ==
    ASSUME TypeOK, MailInv, MailInv', WallInv, NEW p \in Role, TakeTurn(p)
    PROVE  WallInv'
<1>1. PICK d, k, claim, answer, win : Seal(p, ApplyMove(p, own[p], d), k, claim, answer, win)
  BY DEF TakeTurn, Play, Concede
<1>. DEFINE s == ApplyMove(p, own[p], d)
<1>2. OnMove(p) /\ CaughtUp(p) /\ own[p] \in State
  BY DEF TakeTurn, MailInv, PeerMailInv, TypeOK
<1>3. seen' = [seen EXCEPT ![p] = 1 .. sent[Opponent(p)]]
  BY <1>2 DEF TakeTurn, mailVars, CaughtUp, TypeOK
<1>4. /\ s = own[p] \/ s.walls = own[p].walls \cup s.last
      /\ p = "thief" => s = own[p] \/ s.last = {}
  BY <1>2, ApplyMoveWalls
<1>5. p = "thief" => s.last = {}
  BY <1>4 DEF WallInv
<1>. HIDE DEF s
<1>. QED
  BY <1>1, <1>2, <1>3, <1>4, <1>5, SealWall DEF s

LEMMA WallStep == TypeOK /\ MailInv /\ MailInv' /\ WallInv /\ [Next]_vars => WallInv'
<1>. SUFFICES ASSUME TypeOK, MailInv, MailInv', WallInv, [Next]_vars
              PROVE  WallInv'
  OBVIOUS
<1>1. ASSUME UNCHANGED <<own, out, sent, seen>> PROVE WallInv'
  BY <1>1 DEF WallInv, CaughtUp
<1>2. ASSUME NEW p \in Role,
             \/ SendTurn(p) \/ GiveUp(p) \/ DropDuplicate(p) \/ TurnTimeout(p)
             \/ Reveal(p) \/ Collect(p) \/ AuditTimeout(p) \/ RetrySend(p)
             \/ LateDelivery(p) \/ Crash(p)
      PROVE  WallInv'
  BY <1>1, <1>2
     DEF SendTurn, GiveUp, Abort, DropDuplicate, TurnTimeout, Reveal, Collect, AuditTimeout,
         Settle, RetrySend, LateDelivery, Crash, sealVars, mailVars
<1>3. CASE UNCHANGED vars
  BY <1>1, <1>3 DEF vars
<1>. QED
  BY <1>2, <1>3, TakeTurnWall, ReceiveWall DEF Next, Progress, Terminated

LEMMA WallInit == Init => WallInv
<1>. SUFFICES ASSUME Init PROVE WallInv
  OBVIOUS
<1>1. \A p \in Role : own[p].walls = {} /\ own[p].last = {}
  BY DEF Init, FreshState
<1>2. \A p \in Role : out[p].wall = {}
  BY DEF Init, NoMessage
<1>. QED
  BY <1>1, <1>2 DEF WallInv, Role

\* Barriers are public: the thief never believes in a wall that is not there,
\* and when it decides it knows them all (note_barrier, _consume).
THEOREM WallsArePublic == Spec => []ThiefKnowsEveryWall
<1>1. TypeOK /\ MailInv /\ WallInv => ThiefKnowsEveryWall
  BY DEF WallInv, MailInv, PeerMailInv, ThiefKnowsEveryWall, Role
<1>. QED
  BY <1>1, WallInit, MailInvariant, WallStep, PTL DEF Spec
=============================================================================
