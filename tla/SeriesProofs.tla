---------------------------- MODULE SeriesProofs ----------------------------
(***************************************************************************)
(* Theorems about Series, for every number of sub-games, threshold and     *)
(* number of faults: types, that two peers that play at the same time play *)
(* the same sub-game with opposite roles, and that without a fault they go *)
(* through the series in lockstep.                                         *)
(***************************************************************************)
EXTENDS Series, Integers, TLAPS

-----------------------------------------------------------------------------
(* Type correctness.                                                       *)

InSubGame == {"greet", "hello", "act", "send", "wait", "reveal", "collect"}

\* The counter passes NumGames only with the step into the settlement.
GameBound == \A p \in Peer : pc[p] \in InSubGame => game[p] <= NumGames

TypeInv == TypeOK /\ GameBound

\* The part of TypeInv a thread changes, and the part the mail changes.
ThreadTypes ==
    /\ game \in [Peer -> 1 .. NumGames + 1]
    /\ pc \in [Peer -> Pc]
    /\ met \in [Peer -> Nat]
    /\ made \in [Peer -> Nat]
    /\ out \in [Peer -> Mail]
    /\ seen \in [Peer -> SUBSET Mail]
    /\ result \in [Peer -> Verdict]
    /\ rows \in [Peer -> Seq(Row)]
    /\ verdict \in [Peer -> {"none", "agreed", "differs", "no_digest", "no_reply"}]

MailTypes ==
    /\ greetings \in [Peer -> Seq(Mail)]
    /\ turns \in [Peer -> Seq(Mail)]
    /\ audits \in [Peer -> Seq(Mail)]
    /\ wire \in [Peer -> SUBSET Mail]

\* The type invariant, by thread, mail and count.
LEMMA TypeParts == TypeInv <=> ThreadTypes /\ GameBound /\ MailTypes /\ faults \in 0 .. MaxFaults
BY DEF TypeInv, TypeOK, ThreadTypes, MailTypes

\* There are two peers.
LEMMA OtherPeer ==
    ASSUME NEW p \in Peer
    PROVE  Other(p) \in Peer /\ Other(p) # p /\ Other(Other(p)) = p
<1>1. \E q \in Peer : q # p
  BY DEF Peer
<1>2. Other(p) \in Peer /\ Other(p) # p
  BY <1>1 DEF Other
<1>3. \E q \in Peer : q # Other(p)
  BY <1>2
<1>4. Other(Other(p)) \in Peer /\ Other(Other(p)) # Other(p)
  BY <1>3 DEF Other
<1>. QED
  BY <1>2, <1>4 DEF Peer

\* A letter is a message.
LEMMA LetterType ==
    ASSUME NEW k \in Kind, NEW g \in Nat, NEW n \in Nat
    PROVE  Letter(k, g, n) \in Mail
BY DEF Letter, Mail

\* What a thread pushes is a message.
LEMMA OutgoingType ==
    ASSUME ThreadTypes, NEW p \in Peer
    PROVE  Outgoing(p) \in Mail
<1>1. game[p] \in Nat /\ out[p] \in Mail /\ 0 \in Nat
  BY DEF ThreadTypes, GameBound
<1>2. {"greeting", "reveal", "consensus"} \subseteq Kind
  BY DEF Kind
<1>. QED
  BY <1>1, <1>2, LetterType DEF Outgoing

\* A delivery adds a message to an inbox.
LEMMA DeliverType ==
    ASSUME MailTypes, NEW q \in Peer, NEW m \in Mail, Deliver(q, m)
    PROVE  /\ greetings' \in [Peer -> Seq(Mail)]
           /\ turns' \in [Peer -> Seq(Mail)]
           /\ audits' \in [Peer -> Seq(Mail)]
BY DEF MailTypes, Deliver

\* A failed call may leave a message in the network.
LEMMA LosesType ==
    ASSUME ThreadTypes, MailTypes, NEW p \in Peer, LosesCall(p)
    PROVE  MailTypes'
<1>1. Other(p) \in Peer /\ Outgoing(p) \in Mail
  BY OtherPeer, OutgoingType
<1>2. CASE Deliver(Other(p), Outgoing(p)) /\ UNCHANGED wire
  BY <1>1, <1>2, DeliverType DEF MailTypes
<1>3. CASE /\ wire' = [wire EXCEPT ![Other(p)] = @ \cup {Outgoing(p)}]
           /\ UNCHANGED <<greetings, turns, audits>>
  BY <1>1, <1>3 DEF MailTypes
<1>4. CASE UNCHANGED mailVars
  BY <1>4 DEF MailTypes, mailVars
<1>. QED
  BY <1>2, <1>3, <1>4 DEF LosesCall

\* A sub-game is closed once, and counted.
LEMMA CloseType ==
    ASSUME ThreadTypes, GameBound, NEW p \in Peer, NEW r \in Verdict, NEW heard \in Nat,
           pc[p] \in InSubGame, CloseSubGame(p, r, heard)
    PROVE  ThreadTypes' /\ GameBound'
<1>1. game[p] \in 1 .. NumGames /\ NumGames \in Nat
  BY SeriesAssumption DEF ThreadTypes, GameBound
<1>2. [result |-> r, met |-> met[p], heard |-> heard, taken |-> seen[p]] \in Row
  BY DEF ThreadTypes, Row
<1>3. rows' \in [Peer -> Seq(Row)]
  BY <1>2 DEF ThreadTypes, CloseSubGame
<1>4. game' \in [Peer -> 1 .. NumGames + 1] /\ GameBound'
  <2>1. game' \in [Peer -> 1 .. NumGames + 1]
    BY <1>1 DEF ThreadTypes, CloseSubGame
  <2>2. ASSUME NEW q \in Peer, pc'[q] \in InSubGame PROVE game'[q] <= NumGames
    <3>1. CASE q = p
      BY <1>1, <2>2, <3>1 DEF ThreadTypes, CloseSubGame, Goto, IsLast, InSubGame
    <3>2. CASE q # p
      BY <2>2, <3>2 DEF ThreadTypes, CloseSubGame, Goto, GameBound
    <3>. QED BY <3>1, <3>2
  <2>. QED BY <2>1, <2>2 DEF GameBound
<1>5. pc' \in [Peer -> Pc]
  BY DEF ThreadTypes, CloseSubGame, Goto, Pc, Calling, Waiting
<1>6. "open" \in Verdict /\ 0 \in Nat /\ {} \in SUBSET Mail
  BY DEF Verdict
<1>. QED
  BY <1>3, <1>4, <1>5, <1>6 DEF ThreadTypes, CloseSubGame

\* A call that returns leaves the thread somewhere,
LEMMA ReturnedType ==
    ASSUME ThreadTypes, GameBound, NEW p \in Peer, pc[p] \in Calling, Returned(p)
    PROVE  ThreadTypes' /\ GameBound'
<1>1. pc' \in [Peer -> Pc]
  BY DEF ThreadTypes, Returned, Goto, Pc, Calling, Waiting
<1>2. result' \in [Peer -> Verdict]
  BY DEF ThreadTypes, Returned, Ending, Verdict
<1>3. GameBound'
  BY DEF ThreadTypes, Returned, Goto, GameBound, InSubGame, Calling, playVars
<1>. QED
  BY <1>1, <1>2, <1>3 DEF ThreadTypes, Returned, playVars

\* and so does a sealed turn.
LEMMA SealType ==
    ASSUME ThreadTypes, GameBound, NEW p \in Peer, NEW k \in {"turn", "caught", "survival"},
           pc[p] \in InSubGame, Seal(p, k)
    PROVE  /\ made' \in [Peer -> Nat]
           /\ out' \in [Peer -> Mail]
           /\ pc' \in [Peer -> Pc]
           /\ UNCHANGED game => GameBound'
<1>1. game[p] \in Nat /\ made[p] \in Nat /\ k \in Kind
  BY DEF ThreadTypes, Kind
<1>2. Letter(k, game[p], made[p] + 1) \in Mail
  BY <1>1, LetterType
<1>. QED
  BY <1>1, <1>2 DEF ThreadTypes, Seal, Goto, Pc, Calling, GameBound

\* Faults stay within their bound.
LEMMA FaultType ==
    ASSUME faults \in 0 .. MaxFaults, Fault \/ UNCHANGED faults
    PROVE  faults' \in 0 .. MaxFaults
BY SeriesAssumption DEF Fault

-----------------------------------------------------------------------------
\* One lemma for every step of the next-state relation.
LEMMA StepType ==
    ASSUME TypeInv, NEW p \in Peer,
           Progress(p) \/ RetryPush(p) \/ LateDelivery(p) \/ Crash(p)
    PROVE  TypeInv'
<1>. SUFFICES ThreadTypes' /\ GameBound' /\ MailTypes' /\ faults' \in 0 .. MaxFaults
  BY DEF TypeInv, TypeOK, ThreadTypes, MailTypes
<1>. USE TypeParts
<1>0. Other(p) \in Peer
  BY OtherPeer
<1>1. CASE Push(p)
  <2>1. ThreadTypes' /\ GameBound'
    BY <1>1, ReturnedType DEF Push
  <2>2. MailTypes'
    BY <1>0, <1>1, OutgoingType, DeliverType DEF Push, MailTypes
  <2>. QED BY <1>1, <2>1, <2>2 DEF Push
<1>2. CASE GiveUp(p)
  <2>1. MailTypes'
    BY <1>2, LosesType DEF GiveUp, MailTypes, mailVars
  <2>2. ThreadTypes' /\ GameBound'
    <3>1. CASE Returned(p)
      BY <1>2, <3>1, ReturnedType DEF GiveUp
    <3>2. CASE pc[p] \notin {"reveal", "settle"} /\ Abort(p)
      <4>1. pc[p] \in InSubGame /\ "aborted" \in Verdict /\ 0 \in Nat
        BY <1>2, <3>2 DEF GiveUp, Calling, InSubGame, Verdict
      <4>. QED BY <3>2, <4>1, CloseType DEF Abort
    <3>. QED BY <1>2, <3>1, <3>2 DEF GiveUp
  <2>. QED BY <1>2, <2>1, <2>2, FaultType DEF GiveUp
<1>3. CASE DropGreeting(p)
  <2>1. greetings' \in [Peer -> Seq(Mail)]
    BY <1>3 DEF DropGreeting, MailTypes
  <2>. QED BY <1>3, <2>1 DEF DropGreeting, ThreadTypes, MailTypes, playVars, GameBound
<1>4. CASE AcceptGreeting(p)
  <2>1. greetings' \in [Peer -> Seq(Mail)] /\ Head(greetings[p]) \in Mail
    BY <1>4 DEF AcceptGreeting, MailTypes
  <2>2. met' \in [Peer -> Nat]
    BY <1>4, <2>1 DEF AcceptGreeting, ThreadTypes, Mail
  <2>3. pc' \in [Peer -> Pc]
    BY <1>4 DEF AcceptGreeting, ThreadTypes, Goto, Pc, Waiting
  <2>4. GameBound'
    BY <1>4 DEF AcceptGreeting, ThreadTypes, Goto, GameBound, InSubGame
  <2>. QED BY <1>4, <2>1, <2>2, <2>3, <2>4 DEF AcceptGreeting, ThreadTypes, MailTypes
<1>5. CASE TakeTurn(p)
  <2>1. pc[p] \in InSubGame /\ \E k \in {"turn", "caught", "survival"} : Seal(p, k)
    BY <1>5 DEF TakeTurn, InSubGame
  <2>2. PICK k \in {"turn", "caught", "survival"} : Seal(p, k)
    BY <2>1
  <2>3. ThreadTypes' /\ GameBound'
    BY <1>5, <2>1, <2>2, SealType DEF TakeTurn, ThreadTypes
  <2>. QED BY <1>5, <2>3 DEF TakeTurn, MailTypes, mailVars
<1>6. CASE ReceiveTurn(p)
  <2>. DEFINE m == Head(turns[p])
  <2>1. m \in Mail /\ turns' \in [Peer -> Seq(Mail)] /\ pc[p] \in InSubGame
    BY <1>6 DEF ReceiveTurn, MailTypes, InSubGame
  <2>2. seen' \in [Peer -> SUBSET Mail]
    BY <1>6, <2>1 DEF ReceiveTurn, ThreadTypes
  <2>3. CASE /\ m.kind \in {"caught", "survival"}
             /\ result' = [result EXCEPT ![p] = Ending(m.kind)]
             /\ Goto(p, "reveal")
             /\ UNCHANGED <<made, out>>
    <3>1. result' \in [Peer -> Verdict]
      BY <2>3 DEF ThreadTypes, Ending, Verdict
    <3>2. pc' \in [Peer -> Pc]
      BY <2>3 DEF ThreadTypes, Goto, Pc, Calling
    <3>3. GameBound'
      BY <1>6, <2>1, <2>3 DEF ReceiveTurn, ThreadTypes, Goto, GameBound
    <3>. QED BY <1>6, <2>1, <2>2, <2>3, <3>1, <3>2, <3>3 DEF ReceiveTurn, ThreadTypes, MailTypes
  <2>4. CASE Seal(p, "caught") /\ UNCHANGED result
    <3>1. UNCHANGED game
      BY <1>6 DEF ReceiveTurn
    <3>2. /\ made' \in [Peer -> Nat] /\ out' \in [Peer -> Mail]
          /\ pc' \in [Peer -> Pc] /\ GameBound'
      BY <2>1, <2>4, <3>1, SealType
    <3>. QED BY <1>6, <2>1, <2>2, <2>4, <3>2 DEF ReceiveTurn, ThreadTypes, MailTypes
  <2>5. CASE Goto(p, "act") /\ UNCHANGED <<made, out, result>>
    <3>1. pc' \in [Peer -> Pc]
      BY <2>5 DEF ThreadTypes, Goto, Pc
    <3>2. GameBound'
      BY <1>6, <2>1, <2>5 DEF ReceiveTurn, ThreadTypes, Goto, GameBound
    <3>. QED BY <1>6, <2>1, <2>2, <2>5, <3>1, <3>2 DEF ReceiveTurn, ThreadTypes, MailTypes
  <2>. QED BY <1>6, <2>3, <2>4, <2>5 DEF ReceiveTurn
<1>7. CASE DropTurn(p)
  <2>1. turns' \in [Peer -> Seq(Mail)]
    BY <1>7 DEF DropTurn, MailTypes
  <2>. QED BY <1>7, <2>1 DEF DropTurn, ThreadTypes, MailTypes, playVars, GameBound
<1>8. CASE Collect(p)
  <2>1. audits' \in [Peer -> Seq(Mail)] /\ Head(audits[p]) \in Mail
    BY <1>8 DEF Collect, MailTypes
  <2>2. pc[p] \in InSubGame /\ result[p] \in Verdict /\ Head(audits[p]).game \in Nat
    BY <1>8, <2>1 DEF Collect, InSubGame, ThreadTypes, Mail
  <2>3. ThreadTypes' /\ GameBound'
    BY <1>8, <2>2, CloseType DEF Collect
  <2>. QED BY <1>8, <2>1, <2>3 DEF Collect, MailTypes
<1>9. ASSUME NEW v \in {"agreed", "differs", "no_digest", "no_reply"}, Done(p, v)
      PROVE  ThreadTypes' /\ GameBound'
  BY <1>9 DEF Done, ThreadTypes, Goto, Pc, GameBound, InSubGame
<1>10. CASE Settle(p)
  <2>1. audits' \in [Peer -> Seq(Mail)]
    BY <1>10 DEF Settle, MailTypes
  <2>2. ThreadTypes' /\ GameBound'
    BY <1>9, <1>10 DEF Settle, Judge
  <2>. QED BY <1>10, <2>1, <2>2 DEF Settle, MailTypes
<1>11. CASE GreetingTimeout(p)
  <2>1. pc[p] \in InSubGame /\ "aborted" \in Verdict /\ 0 \in Nat
    BY <1>11 DEF GreetingTimeout, InSubGame, Verdict
  <2>2. ThreadTypes' /\ GameBound'
    BY <1>11, <2>1, CloseType DEF GreetingTimeout, Abort
  <2>. QED BY <1>11, <2>2, FaultType DEF GreetingTimeout, MailTypes, mailVars
<1>12. CASE TurnTimeout(p)
  <2>1. result' \in [Peer -> Verdict] /\ pc' \in [Peer -> Pc]
    BY <1>12 DEF TurnTimeout, ThreadTypes, Verdict, Goto, Pc, Calling
  <2>2. GameBound'
    BY <1>12 DEF TurnTimeout, ThreadTypes, Goto, GameBound, InSubGame, playVars
  <2>. QED
    BY <1>12, <2>1, <2>2, FaultType DEF TurnTimeout, ThreadTypes, MailTypes, mailVars, playVars
<1>13. CASE AuditTimeout(p)
  <2>1. CASE pc[p] = "collect" /\ CloseSubGame(p, result[p], 0)
    <3>1. pc[p] \in InSubGame /\ result[p] \in Verdict /\ 0 \in Nat
      BY <2>1 DEF InSubGame, ThreadTypes
    <3>2. ThreadTypes' /\ GameBound'
      BY <2>1, <3>1, CloseType
    <3>. QED BY <1>13, <3>2, FaultType DEF AuditTimeout, MailTypes, mailVars
  <2>2. CASE Done(p, "no_reply")
    BY <1>9, <1>13, <2>2, FaultType DEF AuditTimeout, MailTypes, mailVars
  <2>. QED BY <1>13, <2>1, <2>2 DEF AuditTimeout
<1>14. CASE RetryPush(p)
  BY <1>14, LosesType, FaultType DEF RetryPush, ThreadTypes, GameBound, playVars
<1>15. CASE LateDelivery(p)
  <2>1. PICK m \in wire[p] : Deliver(p, m) /\ wire' = [wire EXCEPT ![p] = @ \ {m}]
    BY <1>15 DEF LateDelivery
  <2>2. MailTypes'
    BY <2>1, DeliverType DEF MailTypes
  <2>. QED BY <1>15, <2>2 DEF LateDelivery, ThreadTypes, GameBound, playVars
<1>16. CASE Crash(p)
  <2>1. pc' \in [Peer -> Pc] /\ GameBound'
    BY <1>16 DEF Crash, ThreadTypes, Goto, Pc, GameBound, InSubGame, playVars
  <2>. QED
    BY <1>16, <2>1, FaultType DEF Crash, ThreadTypes, MailTypes, mailVars, playVars
<1>. QED
  BY <1>1, <1>2, <1>3, <1>4, <1>5, <1>6, <1>7, <1>8, <1>10, <1>11, <1>12, <1>13,
     <1>14, <1>15, <1>16 DEF Progress

\* Every reachable state is well typed.
LEMMA TypeInvariant == Spec => []TypeInv
<1>1. Init => TypeInv
  <2>. SUFFICES ASSUME Init PROVE TypeInv
    OBVIOUS
  <2>1. "none" \in Kind /\ 0 \in Nat
    BY DEF Kind
  <2>2. Letter("none", 0, 0) \in Mail
    BY <2>1, LetterType
  <2>. QED
    BY <2>2, SeriesAssumption
    DEF Init, TypeInv, TypeOK, GameBound, Pc, Calling, Verdict
<1>2. TypeInv /\ [Next]_vars => TypeInv'
  <2>. SUFFICES ASSUME TypeInv, [Next]_vars PROVE TypeInv'
    OBVIOUS
  <2>1. CASE UNCHANGED vars
    BY <2>1 DEF vars, TypeInv, TypeOK, GameBound
  <2>2. CASE \E p \in Peer : Progress(p) \/ RetryPush(p) \/ LateDelivery(p) \/ Crash(p)
    BY <2>2, StepType
  <2>. QED BY <2>1, <2>2 DEF Next
<1>. QED BY <1>1, <1>2, PTL DEF Spec

\* Every variable keeps its type, and no peer ever counts past the settlement.
THEOREM TypeCorrect == Spec => []TypeOK
<1>1. TypeInv => TypeOK
  BY DEF TypeInv
<1>. QED BY <1>1, TypeInvariant, PTL

-----------------------------------------------------------------------------
(* The handshake.                                                          *)

\* No greeting, wherever it is, is for a sub-game its sender has not reached,
\* and the one that opened p's sub-game is not older than that sub-game.
PeerHandshake(p) ==
    /\ \A i \in DOMAIN greetings[p] : greetings[p][i].game <= game[Other(p)]
    /\ \A m \in wire[p] : m.kind = "greeting" => m.game <= game[Other(p)]
    /\ met[p] <= game[Other(p)]
    /\ Playing(p) => game[p] <= met[p]
    /\ out[p].kind # "greeting"

HandshakeInv == \A p \in Peer : PeerHandshake(p)

\* Each is at most as far as the greeting the other accepted from it.
LEMMA HandshakeImpliesSamePlay ==
    ASSUME TypeInv, HandshakeInv
    PROVE  SamePlay
<1>. SUFFICES ASSUME \A p \in Peer : Playing(p)
              PROVE  /\ game["home"] = game["away"]
                     /\ RoleFor("home", game["home"]) # RoleFor("away", game["away"])
  BY DEF SamePlay
<1>1. "home" \in Peer /\ "away" \in Peer /\ Other("home") = "away" /\ Other("away") = "home"
  BY OtherPeer DEF Peer
<1>2. /\ game["home"] <= met["home"] /\ met["home"] <= game["away"]
      /\ game["away"] <= met["away"] /\ met["away"] <= game["home"]
  BY <1>1 DEF HandshakeInv, PeerHandshake
<1>3. /\ game["home"] \in Nat /\ game["away"] \in Nat
      /\ met["home"] \in Nat /\ met["away"] \in Nat
  BY <1>1, SeriesAssumption DEF TypeInv, TypeOK
<1>4. game["home"] = game["away"]
  BY <1>2, <1>3
<1>. QED
  BY <1>4 DEF RoleFor

\* No peer moves back, and a new sub-game starts with no greeting accepted:
\* mail that was genuine before such a step is genuine after it.
LEMMA MoveHandshake ==
    ASSUME TypeInv, HandshakeInv, NEW p \in Peer,
           \A q \in Peer : \A i \in DOMAIN greetings'[q] :
               greetings'[q][i].game \in Nat /\ greetings'[q][i].game <= game[Other(q)],
           \A q \in Peer : \A m \in wire'[q] :
               m.game \in Nat /\ (m.kind = "greeting" => m.game <= game[Other(q)]),
           UNCHANGED out,
           \/ UNCHANGED <<game, met>>
           \/ /\ game' = [game EXCEPT ![p] = @ + 1]
              /\ met' = [met EXCEPT ![p] = 0]
    PROVE  HandshakeInv'
<1>. SUFFICES ASSUME NEW q \in Peer PROVE PeerHandshake(q)'
  BY DEF HandshakeInv
<1>1. /\ game[q] \in Nat /\ game[Other(q)] \in Nat /\ met[q] \in Nat
      /\ Other(q) \in Peer
  BY OtherPeer, SeriesAssumption DEF TypeInv, TypeOK
<1>2. game'[Other(q)] \in Nat /\ game[Other(q)] <= game'[Other(q)]
  <2>1. game \in [Peer -> 1 .. NumGames + 1]
    BY DEF TypeInv, TypeOK
  <2>2. CASE UNCHANGED game
    BY <1>1, <2>2
  <2>3. CASE game' = [game EXCEPT ![p] = @ + 1]
    BY <1>1, <2>1, <2>3
  <2>. QED BY <2>2, <2>3
<1>3. PeerHandshake(q)
  BY DEF HandshakeInv
<1>4. met'[q] <= game'[Other(q)]
  <2>1. met'[q] = met[q] \/ met'[q] = 0
    BY DEF TypeInv, TypeOK
  <2>. QED BY <1>1, <1>2, <1>3, <2>1 DEF PeerHandshake
<1>5. met'[q] # 0 => game'[q] <= met'[q]
  BY <1>1, <1>3 DEF PeerHandshake, Playing, TypeInv, TypeOK
<1>6. \A i \in DOMAIN greetings'[q] : greetings'[q][i].game <= game'[Other(q)]
  BY <1>1, <1>2
<1>7. \A m \in wire'[q] : m.kind = "greeting" => m.game <= game'[Other(q)]
  BY <1>1, <1>2
<1>. QED
  BY <1>3, <1>4, <1>5, <1>6, <1>7 DEF PeerHandshake, Playing

\* The mail there is satisfies what MoveHandshake asks of the mail.
LEMMA GenuineMail ==
    ASSUME TypeInv, HandshakeInv, NEW q \in Peer
    PROVE  /\ \A i \in DOMAIN greetings[q] :
                  greetings[q][i].game \in Nat /\ greetings[q][i].game <= game[Other(q)]
           /\ \A m \in wire[q] :
                  m.game \in Nat /\ (m.kind = "greeting" => m.game <= game[Other(q)])
<1>1. greetings[q] \in Seq(Mail) /\ wire[q] \in SUBSET Mail
  BY DEF TypeInv, TypeOK
<1>2. \A m \in Mail : m.game \in Nat
  BY DEF Mail
<1>. QED
  BY <1>1, <1>2 DEF HandshakeInv, PeerHandshake

\* A step that posts nothing moves a peer on, never back.
LEMMA QuietHandshake ==
    ASSUME TypeInv, HandshakeInv, NEW p \in Peer,
           UNCHANGED <<greetings, wire, out>>,
           \/ UNCHANGED <<game, met>>
           \/ /\ game' = [game EXCEPT ![p] = @ + 1]
              /\ met' = [met EXCEPT ![p] = 0]
    PROVE  HandshakeInv'
BY GenuineMail, MoveHandshake

\* Whatever a peer pushes, its greeting is for the sub-game it is in.
LEMMA OutgoingHandshake ==
    ASSUME TypeInv, HandshakeInv, NEW p \in Peer
    PROVE  /\ Outgoing(p).game \in Nat
           /\ Outgoing(p).kind = "greeting" => Outgoing(p).game <= game[p]
<1>1. game[p] \in Nat /\ out[p] \in Mail /\ out[p].kind # "greeting"
  BY SeriesAssumption DEF TypeInv, TypeOK, HandshakeInv, PeerHandshake
<1>. QED
  BY <1>1 DEF Outgoing, Letter, Mail

\* Delivering or delaying a message that keeps to that rule.
LEMMA PostedMail ==
    ASSUME TypeInv, HandshakeInv, NEW q \in Peer, NEW m,
           m.game \in Nat, m.kind = "greeting" => m.game <= game[Other(q)],
           \/ Deliver(q, m) /\ (UNCHANGED wire \/ wire' = [wire EXCEPT ![q] = @ \ {m}])
           \/ wire' = [wire EXCEPT ![q] = @ \cup {m}] /\ UNCHANGED greetings,
           NEW p \in Peer
    PROVE  /\ \A i \in DOMAIN greetings'[p] :
                  greetings'[p][i].game \in Nat /\ greetings'[p][i].game <= game[Other(p)]
           /\ \A l \in wire'[p] :
                  l.game \in Nat /\ (l.kind = "greeting" => l.game <= game[Other(p)])
<1>1. \A l \in wire'[p] : l \in wire[p] \/ (p = q /\ l = m)
  BY DEF TypeInv, TypeOK
<1>2. CASE p = q /\ Deliver(q, m) /\ m.kind = "greeting"
  <2>1. greetings'[p] = Append(greetings[p], m) /\ greetings[p] \in Seq(Mail)
    BY <1>2 DEF Deliver, BoxOf, TypeInv, TypeOK
  <2>2. /\ DOMAIN greetings'[p] = 1 .. Len(greetings[p]) + 1
        /\ DOMAIN greetings[p] = 1 .. Len(greetings[p])
        /\ greetings'[p][Len(greetings[p]) + 1] = m
        /\ \A i \in 1 .. Len(greetings[p]) : greetings'[p][i] = greetings[p][i]
    BY <2>1
  <2>3. \A i \in DOMAIN greetings'[p] :
            i \in DOMAIN greetings[p] \/ i = Len(greetings[p]) + 1
    BY <2>1, <2>2
  <2>. QED BY <1>1, <1>2, <2>2, <2>3, GenuineMail
<1>3. CASE ~(p = q /\ Deliver(q, m) /\ m.kind = "greeting")
  <2>1. greetings'[p] = greetings[p]
    BY <1>3 DEF Deliver, BoxOf, TypeInv, TypeOK
  <2>. QED BY <1>1, <2>1, GenuineMail
<1>. QED BY <1>2, <1>3

\* A greeting that is posted is for a sub-game its sender has reached.
LEMMA PostHandshake ==
    ASSUME TypeInv, HandshakeInv, NEW q \in Peer, NEW m,
           m.game \in Nat, m.kind = "greeting" => m.game <= game[Other(q)],
           Deliver(q, m), UNCHANGED wire \/ wire' = [wire EXCEPT ![q] = @ \ {m}],
           UNCHANGED <<game, met, out>>
    PROVE  HandshakeInv'
BY PostedMail, MoveHandshake

\* A call that failed, whether its thread goes on or opens the next sub-game.
LEMMA LosesHandshake ==
    ASSUME TypeInv, HandshakeInv, NEW p \in Peer, LosesCall(p), UNCHANGED out,
           \/ UNCHANGED <<game, met>>
           \/ /\ game' = [game EXCEPT ![p] = @ + 1]
              /\ met' = [met EXCEPT ![p] = 0]
    PROVE  HandshakeInv'
<1>. DEFINE q == Other(p)
            m == Outgoing(p)
<1>1. /\ q \in Peer /\ m.game \in Nat
      /\ m.kind = "greeting" => m.game <= game[Other(q)]
  BY OtherPeer, OutgoingHandshake
<1>2. CASE UNCHANGED mailVars
  BY <1>2, QuietHandshake DEF mailVars
<1>3. CASE \/ Deliver(q, m) /\ UNCHANGED wire
           \/ wire' = [wire EXCEPT ![q] = @ \cup {m}] /\ UNCHANGED greetings
  <2>. HIDE DEF q, m
  <2>. QED BY <1>1, <1>3, PostedMail, MoveHandshake
<1>. QED
  BY <1>2, <1>3 DEF LosesCall

\* Taking the first message of an inbox.
LEMMA HeadAndTail ==
    ASSUME NEW S, NEW s \in Seq(S), s # <<>>
    PROVE  /\ 1 \in DOMAIN s /\ Head(s) = s[1]
           /\ \A i \in DOMAIN Tail(s) : i + 1 \in DOMAIN s /\ Tail(s)[i] = s[i + 1]
<1>1. Len(s) \in Nat /\ Len(s) # 0 /\ DOMAIN s = 1 .. Len(s)
  OBVIOUS
<1>2. DOMAIN Tail(s) = 1 .. (Len(s) - 1)
  BY <1>1
<1>3. \A i \in 1 .. (Len(s) - 1) : Tail(s)[i] = s[i + 1]
  BY <1>1
<1>. QED BY <1>1, <1>2, <1>3

\* An inbox of greetings loses its head; what is accepted was not stale.
LEMMA TakeHandshake ==
    ASSUME TypeInv, HandshakeInv, NEW p \in Peer, greetings[p] # <<>>,
           greetings' = [greetings EXCEPT ![p] = Tail(@)],
           \/ UNCHANGED met
           \/ /\ game[p] <= Head(greetings[p]).game
              /\ met' = [met EXCEPT ![p] = Head(greetings[p]).game],
           UNCHANGED <<game, wire, out>>
    PROVE  HandshakeInv'
<1>. SUFFICES ASSUME NEW q \in Peer PROVE PeerHandshake(q)'
  BY DEF HandshakeInv
<1>1. PeerHandshake(q)
  BY DEF HandshakeInv
<1>2. CASE q # p
  BY <1>1, <1>2 DEF PeerHandshake, Playing, TypeInv, TypeOK
<1>3. CASE q = p
  <2>1. /\ greetings[p] \in Seq(Mail) /\ greetings'[p] = Tail(greetings[p])
        /\ 1 \in DOMAIN greetings[p] /\ Head(greetings[p]) = greetings[p][1]
    BY HeadAndTail DEF TypeInv, TypeOK
  <2>2. \A i \in DOMAIN greetings'[p] :
            i + 1 \in DOMAIN greetings[p] /\ greetings'[p][i] = greetings[p][i + 1]
    <3>. DEFINE gs == greetings[p]
    <3>1. gs \in Seq(Mail) /\ gs # <<>>
      BY <2>1
    <3>. HIDE DEF gs
    <3>2. \A i \in DOMAIN Tail(gs) : i + 1 \in DOMAIN gs /\ Tail(gs)[i] = gs[i + 1]
      BY <3>1, HeadAndTail
    <3>. QED BY <2>1, <3>2 DEF gs
  <2>3. \A i \in DOMAIN greetings'[p] : greetings'[p][i].game <= game[Other(p)]
    BY <1>1, <1>3, <2>2 DEF PeerHandshake
  <2>4. met'[p] <= game[Other(p)] /\ (met'[p] # 0 => game[p] <= met'[p])
    BY <1>1, <1>3, <2>1 DEF PeerHandshake, Playing, TypeInv, TypeOK
  <2>. QED BY <1>1, <1>3, <2>3, <2>4 DEF PeerHandshake, Playing
<1>. QED BY <1>2, <1>3

\* A seal only changes the turn a peer holds, and that is never a greeting.
LEMMA SealHandshake ==
    ASSUME TypeInv, HandshakeInv, NEW p \in Peer,
           NEW k \in {"turn", "caught", "survival"}, Seal(p, k),
           UNCHANGED <<game, met, greetings, wire>>
    PROVE  HandshakeInv'
<1>1. \A q \in Peer : out'[q].kind # "greeting"
  BY DEF HandshakeInv, PeerHandshake, Seal, Letter, TypeInv, TypeOK
<1>. QED
  BY <1>1 DEF HandshakeInv, PeerHandshake, Playing

-----------------------------------------------------------------------------
\* Every step of a peer keeps the handshake.
LEMMA StepHandshake ==
    ASSUME TypeInv, HandshakeInv, Numbered = Peer, NEW p \in Peer,
           Progress(p) \/ RetryPush(p) \/ LateDelivery(p) \/ Crash(p)
    PROVE  HandshakeInv'
<1>0. /\ Other(p) \in Peer /\ Other(Other(p)) = p
      /\ Outgoing(p).game \in Nat
      /\ Outgoing(p).kind = "greeting" => Outgoing(p).game <= game[p]
  BY OtherPeer, OutgoingHandshake
<1>1. CASE Push(p)
  BY <1>0, <1>1, PostHandshake DEF Push, Returned, playVars
<1>2. CASE GiveUp(p)
  <2>1. CASE Returned(p) /\ LosesCall(p)
    BY <2>1, LosesHandshake DEF Returned, playVars
  <2>2. CASE Returned(p) /\ UNCHANGED mailVars
    BY <2>2, QuietHandshake DEF Returned, playVars, mailVars
  <2>3. CASE Abort(p) /\ UNCHANGED mailVars
    BY <2>3, QuietHandshake DEF Abort, CloseSubGame, mailVars
  <2>4. CASE Abort(p) /\ LosesCall(p)
    BY <2>4, LosesHandshake DEF Abort, CloseSubGame
  <2>. QED BY <1>2, <2>1, <2>2, <2>3, <2>4 DEF GiveUp
<1>3. CASE DropGreeting(p)
  BY <1>3, TakeHandshake DEF DropGreeting, playVars
<1>4. CASE AcceptGreeting(p)
  <2>1. game[p] <= Head(greetings[p]).game
    <3>1. ~(Head(greetings[p]).game < game[p])
      BY <1>0, <1>4 DEF AcceptGreeting, IsStaleGreeting
    <3>2. greetings[p] \in Seq(Mail) /\ greetings[p] # <<>>
      BY <1>4 DEF AcceptGreeting, TypeInv, TypeOK
    <3>3. Head(greetings[p]).game \in Nat /\ game[p] \in Nat
      BY <3>2, HeadAndTail, GenuineMail, SeriesAssumption DEF TypeInv, TypeOK
    <3>. QED BY <3>1, <3>3
  <2>. QED BY <1>4, <2>1, TakeHandshake DEF AcceptGreeting
<1>5. CASE TakeTurn(p)
  <2>1. \E k \in {"turn", "caught", "survival"} : Seal(p, k)
    BY <1>5 DEF TakeTurn
  <2>. QED BY <1>5, <2>1, SealHandshake DEF TakeTurn, mailVars
<1>6. CASE ReceiveTurn(p)
  <2>1. CASE Seal(p, "caught")
    BY <1>6, <2>1, SealHandshake DEF ReceiveTurn
  <2>2. CASE UNCHANGED out
    BY <1>6, <2>2, QuietHandshake DEF ReceiveTurn
  <2>. QED BY <1>6, <2>1, <2>2 DEF ReceiveTurn
<1>7. CASE DropTurn(p)
  BY <1>7, QuietHandshake DEF DropTurn, playVars
<1>8. CASE Collect(p)
  BY <1>8, QuietHandshake DEF Collect, CloseSubGame
<1>9. CASE Settle(p)
  BY <1>9, QuietHandshake DEF Settle, Done
<1>10. CASE GreetingTimeout(p)
  BY <1>10, QuietHandshake DEF GreetingTimeout, Abort, CloseSubGame, mailVars
<1>11. CASE TurnTimeout(p)
  BY <1>11, QuietHandshake DEF TurnTimeout, playVars, mailVars
<1>12. CASE AuditTimeout(p)
  BY <1>12, QuietHandshake DEF AuditTimeout, CloseSubGame, Done, mailVars
<1>13. CASE RetryPush(p)
  BY <1>13, LosesHandshake DEF RetryPush, playVars
<1>14. CASE LateDelivery(p)
  <2>1. PICK m \in wire[p] : Deliver(p, m) /\ wire' = [wire EXCEPT ![p] = @ \ {m}]
    BY <1>14 DEF LateDelivery
  <2>2. m.game \in Nat /\ (m.kind = "greeting" => m.game <= game[Other(p)])
    BY <2>1, GenuineMail
  <2>. QED BY <1>14, <2>1, <2>2, PostHandshake DEF LateDelivery, playVars
<1>15. CASE Crash(p)
  BY <1>15, QuietHandshake DEF Crash, playVars, mailVars
<1>. QED
  BY <1>1, <1>2, <1>3, <1>4, <1>5, <1>6, <1>7, <1>8, <1>9, <1>10, <1>11, <1>12, <1>13,
     <1>14, <1>15 DEF Progress

\* If both peers number their greetings, then at any time at which both are
\* past the handshake they play the same sub-game with opposite roles: however
\* many calls fail, are repeated or arrive late, and whoever gives up on what.
THEOREM NeverOutOfStep == Numbered = Peer => (Spec => []SamePlay)
<1>. SUFFICES ASSUME Numbered = Peer PROVE Spec => []SamePlay
  OBVIOUS
<1>1. Init => HandshakeInv
  BY OtherPeer DEF Init, HandshakeInv, PeerHandshake, Playing, Letter
<1>2. TypeInv /\ HandshakeInv /\ [Next]_vars => HandshakeInv'
  <2>. SUFFICES ASSUME TypeInv, HandshakeInv, [Next]_vars PROVE HandshakeInv'
    OBVIOUS
  <2>1. CASE UNCHANGED vars
    BY <2>1 DEF vars, HandshakeInv, PeerHandshake, Playing
  <2>2. CASE \E p \in Peer : Progress(p) \/ RetryPush(p) \/ LateDelivery(p) \/ Crash(p)
    BY <2>2, StepHandshake
  <2>. QED BY <2>1, <2>2 DEF Next
<1>3. TypeInv /\ HandshakeInv => SamePlay
  BY HandshakeImpliesSamePlay
<1>. QED BY <1>1, <1>2, <1>3, TypeInvariant, PTL DEF Spec

-----------------------------------------------------------------------------
(* A series without faults: the two peers in step.                         *)

Early == {"greet", "hello"}
Settling == {"settle", "verdict", "done"}
Ended == {"reveal", "collect"}

\* The last sub-game whose greeting, and the last whose reveal, p has sent, and
\* read; the envelope counts as one more reveal.
Greeted(p)   == IF pc[p] \in Settling \cup {"greet"} THEN game[p] - 1 ELSE game[p]
Welcomed(p)  == IF pc[p] \in Settling \cup Early THEN game[p] - 1 ELSE game[p]
Revealed(p)  == IF pc[p] \in {"collect", "verdict", "done"} THEN game[p] ELSE game[p] - 1
Collected(p) == IF pc[p] = "done" THEN game[p] ELSE game[p] - 1

Envelope(k) == Letter(IF k <= NumGames THEN "reveal" ELSE "consensus", k, 0)

\* Where p is, and that nothing is left of the sub-game before.
Placed(p) ==
    /\ pc[p] # "dead" /\ wire[p] = {}
    /\ pc[p] \in Settling <=> game[p] = NumGames + 1
    /\ pc[p] \in Settling \cup Early => met[p] = 0 /\ made[p] = 0 /\ seen[p] = {}
    /\ pc[p] \notin Settling \cup Early => met[p] = game[p]
    /\ pc[p] = "done" => verdict[p] = "agreed"

\* What q has sent of greetings and reveals, and p has not read, is in p's
\* inboxes, in order.
Posted(p, q) ==
    /\ Greeted(q) = Welcomed(p) + Len(greetings[p])
    /\ \A i \in 1 .. Len(greetings[p]) : greetings[p][i].game = Welcomed(p) + i
    /\ Revealed(q) = Collected(p) + Len(audits[p])
    /\ \A i \in 1 .. Len(audits[p]) : audits[p][i] = Envelope(Collected(p) + i)

\* The turn on its way to p is the one q made last.
Mailed(p, q) ==
    turns[p] # <<>> =>
        /\ turns[p] = <<out[q]>> /\ turns[q] = <<>> /\ game[q] = game[p]
        /\ pc[p] = "wait" \/ (pc[p] = "hello" /\ RoleFor(p, game[p]) = "police")
        /\ pc[q] \in {"wait"} \cup Ended
        /\ pc[q] = "wait" => out[q].kind = "turn"
        /\ pc[q] \in Ended => /\ out[q].kind \in {"caught", "survival"}
                              /\ result[q] = Ending(out[q].kind)

\* p's last turn is numbered by its turns, and p has taken q's up to the last
\* that was delivered.
Sealed(p, q) ==
    /\ made[p] # 0 => out[p].game = game[p] /\ out[p].seq = made[p]
    /\ pc[p] = "send" => made[p] # 0 /\ out[p].kind \in {"turn", "caught", "survival"}
    /\ turns[q] # <<>> => made[p] # 0
    /\ game[q] = game[p] =>
         \A m \in seen[p] :
             m.seq <= made[q] /\ (turns[p] # <<>> \/ pc[q] = "send" => m.seq # made[q])

\* One of the two holds the token, or it is with a turn on its way, or the last
\* turn of the sub-game is on its way or read.
Token(p, q) ==
    /\ pc[p] \in {"act", "send"} =>
         /\ turns[p] = <<>> /\ turns[q] = <<>>
         /\ pc[q] = "wait" \/ (pc[q] = "hello" /\ RoleFor(q, game[q]) = "police")
    /\ pc[p] = "wait" =>
         \/ turns[p] # <<>> \/ turns[q] # <<>> \/ pc[q] \in {"act", "send"}
         \/ pc[q] = "hello" /\ RoleFor(q, game[q]) = "thief"
    /\ pc[p] \in Ended =>
         /\ result[p] \in {"capture", "survival"}
         /\ game[q] = game[p] => turns[q] # <<>> \/ pc[q] \in Ended

\* The sub-games so far as p tells them, and as q does where it has got there.
Told(p, q) ==
    /\ Len(rows[p]) = game[p] - 1
    /\ \A g \in 1 .. Len(rows[p]) :
          /\ rows[p][g].result \in {"capture", "survival"}
          /\ rows[p][g].met = g /\ rows[p][g].heard = g
          /\ g < game[q] => rows[p][g].result = rows[q][g].result
          /\ g = game[q] => rows[p][g].result = result[q]
    /\ pc[p] \in Ended /\ pc[q] \in Ended /\ game[p] = game[q] => result[p] = result[q]

InStep(p, q) ==
    Placed(p) /\ Posted(p, q) /\ Mailed(p, q) /\ Sealed(p, q) /\ Token(p, q) /\ Told(p, q)

LockStep == faults = 0 => InStep("home", "away") /\ InStep("away", "home")

\* The two peers, and what is known of each before a step of p.
Pair(p, q) ==
    /\ p \in Peer /\ q \in Peer /\ p # q /\ Other(p) = q /\ Other(q) = p
    /\ TypeInv /\ InStep(p, q) /\ InStep(q, p)

\* The types of two peers in step.
LEMMA PairTypes ==
    ASSUME NEW p \in Peer, NEW q \in Peer, Pair(p, q)
    PROVE  /\ game[p] \in Nat /\ game[p] >= 1 /\ game[p] <= NumGames + 1
           /\ game[q] \in Nat /\ game[q] >= 1 /\ game[q] <= NumGames + 1
           /\ NumGames \in Nat /\ NumGames >= 1
           /\ pc[p] \in Pc /\ pc[q] \in Pc
           /\ made[p] \in Nat /\ made[q] \in Nat /\ met[p] \in Nat /\ met[q] \in Nat
           /\ greetings[p] \in Seq(Mail) /\ greetings[q] \in Seq(Mail)
           /\ audits[p] \in Seq(Mail) /\ audits[q] \in Seq(Mail)
           /\ turns[p] \in Seq(Mail) /\ turns[q] \in Seq(Mail)
           /\ rows[p] \in Seq(Row) /\ rows[q] \in Seq(Row)
           /\ Len(greetings[p]) \in Nat /\ Len(greetings[q]) \in Nat
           /\ Len(audits[p]) \in Nat /\ Len(audits[q]) \in Nat
           /\ out[p] \in Mail /\ out[q] \in Mail
<1>1. TypeOK
  BY DEF Pair, TypeInv
<1>. QED
  BY <1>1, SeriesAssumption DEF TypeOK

\* How far q can be from p, by where p stands.
LEMMA Positions ==
    ASSUME NEW p \in Peer, NEW q \in Peer, Pair(p, q)
    PROVE  /\ pc[p] \in {"act", "send", "wait", "reveal"} =>
                 game[q] = game[p] /\ pc[q] \in {"hello", "act", "send", "wait"} \cup Ended
           /\ pc[p] = "collect" =>
                 \/ game[q] = game[p] /\ pc[q] \in {"hello", "act", "send", "wait"} \cup Ended
                 \/ game[q] = game[p] + 1 /\ pc[q] \in {"greet", "hello", "settle", "verdict"}
           /\ pc[p] \in Early =>
                 \/ game[q] = game[p] /\ pc[q] \in Early
                 \/ game[q] = game[p] /\ pc[q] \notin Settling /\ pc[p] = "hello"
                 \/ game[q] = game[p] - 1 /\ pc[q] = "collect"
           /\ pc[p] \in Settling =>
                 \/ game[q] = game[p] /\ pc[q] \in Settling
                 \/ game[q] = NumGames /\ pc[q] = "collect" /\ pc[p] # "done"
<1>. USE DEF Pc, Calling, Waiting, Early, Settling, Ended
<1>1. /\ Greeted(q) >= Welcomed(p) /\ Revealed(q) >= Collected(p)
      /\ Greeted(p) >= Welcomed(q) /\ Revealed(p) >= Collected(q)
  <2>1. /\ Greeted(q) = Welcomed(p) + Len(greetings[p]) /\ Revealed(q) = Collected(p) + Len(audits[p])
        /\ Greeted(p) = Welcomed(q) + Len(greetings[q]) /\ Revealed(p) = Collected(q) + Len(audits[q])
    BY DEF Pair, InStep, Posted
  <2>2. /\ Welcomed(p) \in Int /\ Welcomed(q) \in Int /\ Collected(p) \in Int /\ Collected(q) \in Int
    BY PairTypes DEF Welcomed, Collected
  <2>3. /\ Len(greetings[p]) \in Nat /\ Len(greetings[q]) \in Nat
        /\ Len(audits[p]) \in Nat /\ Len(audits[q]) \in Nat
    BY PairTypes
  <2>4. \A a \in Int, n \in Nat : a + n >= a
    OBVIOUS
  <2>5. /\ Greeted(q) >= Welcomed(p) /\ Revealed(q) >= Collected(p)
    BY <2>1, <2>2, <2>3, <2>4
  <2>6. /\ Greeted(p) >= Welcomed(q) /\ Revealed(p) >= Collected(q)
    BY <2>1, <2>2, <2>3, <2>4
  <2>. QED
    BY <2>5, <2>6
<1>2. /\ pc[p] # "dead" /\ pc[q] # "dead"
      /\ pc[p] \in Settling <=> game[p] = NumGames + 1
      /\ pc[q] \in Settling <=> game[q] = NumGames + 1
  BY DEF Pair, InStep, Placed
<1>3. /\ game[p] \in Nat /\ game[q] \in Nat /\ NumGames \in Nat
      /\ game[p] <= NumGames + 1 /\ game[q] <= NumGames + 1 /\ pc[p] \in Pc /\ pc[q] \in Pc
  BY PairTypes
<1>4. CASE pc[p] \in {"act", "send", "wait", "reveal"}
  BY <1>1, <1>2, <1>3, <1>4 DEF Greeted, Welcomed, Revealed, Collected
<1>5. CASE pc[p] = "collect"
  BY <1>1, <1>2, <1>3, <1>5 DEF Greeted, Welcomed, Revealed, Collected
<1>6. CASE pc[p] \in Early
  BY <1>1, <1>2, <1>3, <1>6 DEF Greeted, Welcomed, Revealed, Collected
<1>7. CASE pc[p] \in Settling
  BY <1>1, <1>2, <1>3, <1>7 DEF Greeted, Welcomed, Revealed, Collected
<1>. QED
  BY <1>4, <1>5, <1>6, <1>7

\* A message more in an inbox,
LEMMA OneMore ==
    ASSUME NEW S, NEW s \in Seq(S), NEW m \in S
    PROVE  /\ Append(s, m) \in Seq(S) /\ Len(Append(s, m)) = Len(s) + 1
           /\ \A i \in 1 .. Len(s) : Append(s, m)[i] = s[i]
           /\ Append(s, m)[Len(s) + 1] = m
OBVIOUS

\* and a message less.
LEMMA OneLess ==
    ASSUME NEW S, NEW s \in Seq(S), s # <<>>
    PROVE  /\ Len(s) \in Nat \ {0} /\ Head(s) = s[1] /\ Head(s) \in S
           /\ Tail(s) \in Seq(S) /\ Len(Tail(s)) = Len(s) - 1
           /\ \A i \in 1 .. (Len(s) - 1) : Tail(s)[i] = s[i + 1]
OBVIOUS

\* An inbox that is numbered from some base stays so when the next message comes
\* in, and from the next base when the first is read.
LEMMA GreetingIn ==
    ASSUME NEW s \in Seq(Mail), NEW m \in Mail, NEW b \in Int, m.game = b + Len(s) + 1,
           \A i \in 1 .. Len(s) : s[i].game = b + i
    PROVE  LET t == Append(s, m)
           IN  Len(t) = Len(s) + 1 /\ \A i \in 1 .. Len(t) : t[i].game = b + i
<1>. DEFINE t == Append(s, m)
            n == Len(s)
<1>1. n \in Nat /\ Len(t) = n + 1 /\ t[n + 1] = m /\ \A i \in 1 .. n : t[i] = s[i]
  BY OneMore
<1>2. \A i \in 1 .. n : s[i].game = b + i
  OBVIOUS
<1>3. m.game = b + (n + 1)
  BY <1>1
<1>. HIDE DEF t, n
<1>4. ASSUME NEW i \in 1 .. (n + 1) PROVE t[i].game = b + i
  <2>1. i \in 1 .. n \/ i = n + 1
    BY <1>1
  <2>. QED BY <1>1, <1>2, <1>3, <2>1
<1>. QED BY <1>1, <1>4 DEF t, n

\* A reveal posted is the next in the reader's inbox,
LEMMA EnvelopeIn ==
    ASSUME NEW s \in Seq(Mail), NEW m \in Mail, NEW b \in Int, m = Envelope(b + (Len(s) + 1)),
           \A i \in 1 .. Len(s) : s[i] = Envelope(b + i)
    PROVE  LET t == Append(s, m)
           IN  Len(t) = Len(s) + 1 /\ \A i \in 1 .. Len(t) : t[i] = Envelope(b + i)
<1>. DEFINE t == Append(s, m)
            n == Len(s)
<1>1. n \in Nat /\ Len(t) = n + 1 /\ t[n + 1] = m /\ \A i \in 1 .. n : t[i] = s[i]
  BY OneMore
<1>2. \A i \in 1 .. n : s[i] = Envelope(b + i)
  OBVIOUS
<1>3. m = Envelope(b + (n + 1))
  OBVIOUS
<1>. HIDE DEF t, n
<1>4. ASSUME NEW i \in 1 .. (n + 1) PROVE t[i] = Envelope(b + i)
  <2>1. i \in 1 .. n \/ i = n + 1
    BY <1>1
  <2>. QED BY <1>1, <1>2, <1>3, <2>1
<1>. QED BY <1>1, <1>4 DEF t, n

\* a greeting taken was the oldest,
LEMMA GreetingOut ==
    ASSUME NEW s \in Seq(Mail), s # <<>>, NEW b \in Int,
           \A i \in 1 .. Len(s) : s[i].game = b + i
    PROVE  LET t == Tail(s)
           IN  /\ Len(t) \in Nat /\ Len(s) = Len(t) + 1 /\ Head(s).game = b + 1
               /\ \A i \in 1 .. Len(t) : t[i].game = (b + 1) + i
<1>. DEFINE t == Tail(s)
            n == Len(s)
<1>1. /\ n \in Nat \ {0} /\ Head(s) = s[1] /\ Len(t) = n - 1
      /\ \A i \in 1 .. (n - 1) : t[i] = s[i + 1]
  BY OneLess
<1>2. \A i \in 1 .. n : s[i].game = b + i
  OBVIOUS
<1>. HIDE DEF t, n
<1>3. ASSUME NEW i \in 1 .. (n - 1) PROVE t[i].game = (b + 1) + i
  <2>1. i + 1 \in 1 .. n /\ b + (i + 1) = (b + 1) + i
    <3>1. n \in Nat /\ i \in Nat /\ i >= 1 /\ i <= n - 1
      BY <1>1
    <3>. QED BY <3>1
  <2>. QED BY <1>1, <1>2, <2>1
<1>4. 1 \in 1 .. n
  BY <1>1
<1>. QED BY <1>1, <1>2, <1>3, <1>4 DEF t, n

\* and so was a reveal.
LEMMA EnvelopeOut ==
    ASSUME NEW s \in Seq(Mail), s # <<>>, NEW b \in Int,
           \A i \in 1 .. Len(s) : s[i] = Envelope(b + i)
    PROVE  LET t == Tail(s)
           IN  /\ Len(t) \in Nat /\ Len(s) = Len(t) + 1 /\ Head(s) = Envelope(b + 1)
               /\ \A i \in 1 .. Len(t) : t[i] = Envelope((b + 1) + i)
<1>. DEFINE t == Tail(s)
            n == Len(s)
<1>1. /\ n \in Nat \ {0} /\ Head(s) = s[1] /\ Len(t) = n - 1
      /\ \A i \in 1 .. (n - 1) : t[i] = s[i + 1]
  BY OneLess
<1>2. \A i \in 1 .. n : s[i] = Envelope(b + i)
  OBVIOUS
<1>. HIDE DEF t, n
<1>3. ASSUME NEW i \in 1 .. (n - 1) PROVE t[i] = Envelope((b + 1) + i)
  <2>1. i + 1 \in 1 .. n /\ b + (i + 1) = (b + 1) + i
    <3>1. n \in Nat /\ i \in Nat /\ i >= 1 /\ i <= n - 1
      BY <1>1
    <3>. QED BY <3>1
  <2>. QED BY <1>1, <1>2, <2>1
<1>4. 1 \in 1 .. n
  BY <1>1
<1>. QED BY <1>1, <1>2, <1>3, <1>4 DEF t, n

\* Being in step is symmetric.
LEMMA Swap ==
    ASSUME NEW p \in Peer, NEW q \in Peer, Pair(p, q)
    PROVE  Pair(q, p)
BY DEF Pair

\* What p does not touch, seen from q: everything but its own inboxes.
Apart(p, q) ==
    /\ game'[q] = game[q] /\ pc'[q] = pc[q] /\ met'[q] = met[q] /\ made'[q] = made[q]
    /\ out'[q] = out[q] /\ seen'[q] = seen[q] /\ result'[q] = result[q] /\ rows'[q] = rows[q]
    /\ verdict'[q] = verdict[q] /\ wire'[q] = wire[q] /\ wire'[p] = wire[p]

\* A step of one peer leaves the other where it was.
LEMMA PlacedApart ==
    ASSUME NEW p \in Peer, NEW q \in Peer, Pair(p, q), Apart(p, q)
    PROVE  Placed(q)'
BY DEF Pair, InStep, Placed, Apart

\* The call returns after the message was queued.
LEMMA PushFacts ==
    ASSUME NEW p \in Peer, NEW q \in Peer, Pair(p, q), Push(p)
    PROVE  /\ Apart(p, q)
           /\ game'[p] = game[p] /\ met'[p] = met[p] /\ made'[p] = made[p] /\ out'[p] = out[p]
           /\ seen'[p] = seen[p] /\ rows'[p] = rows[p] /\ verdict'[p] = verdict[p]
           /\ greetings'[p] = greetings[p] /\ turns'[p] = turns[p] /\ audits'[p] = audits[p]
           /\ pc[p] \in Calling
           /\ pc[p] # "send" => result'[p] = result[p]
<1>1. TypeOK
  BY DEF Pair, TypeInv
<1>. QED
  BY <1>1 DEF Push, Deliver, Returned, Goto, playVars, Apart, Pair, TypeOK

\* A greeting is sent to a peer in the same sub-game or about to enter it.
LEMMA PushGreeting ==
    ASSUME NEW p \in Peer, NEW q \in Peer, Pair(p, q), Push(p), pc[p] = "greet"
    PROVE  InStep(p, q)' /\ InStep(q, p)'
<1>. DEFINE m == Letter("greeting", game[p], 0)
<1>. USE DEF Early, Settling, Ended
<1>1. InStep(p, q) /\ InStep(q, p) /\ Apart(p, q) /\ TypeOK
  BY PushFacts DEF Pair, TypeInv
<1>2. /\ pc'[p] = "hello"
      /\ greetings'[q] = Append(greetings[q], m)
      /\ turns'[q] = turns[q] /\ audits'[q] = audits[q]
  BY <1>1 DEF Push, Outgoing, Deliver, BoxOf, Letter, Returned, Goto, Pair, TypeOK
<1>3. /\ game'[p] = game[p] /\ met'[p] = met[p] /\ made'[p] = made[p] /\ out'[p] = out[p]
      /\ seen'[p] = seen[p] /\ rows'[p] = rows[p] /\ verdict'[p] = verdict[p]
      /\ greetings'[p] = greetings[p] /\ turns'[p] = turns[p] /\ audits'[p] = audits[p]
      /\ result'[p] = result[p]
  BY PushFacts
<1>4. Placed(p)' /\ Placed(q)'
  BY <1>1, <1>2, <1>3, PlacedApart DEF InStep, Placed, Apart
<1>5. Posted(p, q)'
  BY <1>1, <1>2, <1>3 DEF InStep, Posted, Apart, Greeted, Welcomed, Revealed, Collected
<1>6. Posted(q, p)'
  <2>1. /\ Greeted(p)' = game[p] /\ game[p] = Greeted(p) + 1 /\ Welcomed(q)' = Welcomed(q)
        /\ Revealed(p)' = Revealed(p) /\ Collected(q)' = Collected(q) /\ Welcomed(q) \in Int
    BY <1>1, <1>2, <1>3, PairTypes DEF Apart, Greeted, Welcomed, Revealed, Collected
  <2>2. /\ Greeted(p) = Welcomed(q) + Len(greetings[q])
        /\ \A i \in 1 .. Len(greetings[q]) : greetings[q][i].game = Welcomed(q) + i
        /\ Revealed(p) = Collected(q) + Len(audits[q])
        /\ \A i \in 1 .. Len(audits[q]) : audits[q][i] = Envelope(Collected(q) + i)
    BY <1>1 DEF InStep, Posted
  <2>3. m \in Mail /\ m.game = Welcomed(q) + Len(greetings[q]) + 1
    <3>1. m \in Mail /\ m.game = game[p]
      BY PairTypes, LetterType DEF Letter, Kind
    <3>. QED BY <2>1, <2>2, <3>1
  <2>4. /\ Len(greetings'[q]) = Len(greetings[q]) + 1
        /\ \A i \in 1 .. Len(greetings'[q]) : greetings'[q][i].game = Welcomed(q) + i
    <3>. HIDE DEF m
    <3>. QED BY <1>2, <2>1, <2>2, <2>3, PairTypes, GreetingIn
  <2>5. Greeted(p)' = Welcomed(q) + Len(greetings'[q])
    <3>1. Len(greetings[q]) \in Nat
      BY PairTypes
    <3>. QED BY <2>1, <2>2, <2>4, <3>1
  <2>. QED
    BY <1>2, <2>1, <2>2, <2>4, <2>5 DEF Posted, Envelope
<1>7. turns[p] = <<>> /\ turns[q] = <<>>
  BY <1>1 DEF InStep, Mailed
<1>8. Mailed(p, q)' /\ Mailed(q, p)'
  BY <1>2, <1>3, <1>7 DEF Mailed
<1>9. Sealed(p, q)' /\ Sealed(q, p)'
  BY <1>1, <1>2, <1>3, <1>7 DEF InStep, Sealed, Apart
<1>10. pc[q] \notin {"act", "send", "wait", "reveal"} /\ (pc[q] = "collect" => game[p] # game[q])
  <2>1. Pair(q, p)
    BY Swap
  <2>. QED
    BY <2>1, PairTypes, Positions
<1>11. Token(p, q)' /\ Token(q, p)'
  BY <1>1, <1>2, <1>3, <1>10 DEF InStep, Token, Apart
<1>12. Told(p, q)' /\ Told(q, p)'
  BY <1>1, <1>2, <1>3 DEF InStep, Told, Apart
<1>. QED
  BY <1>4, <1>5, <1>6, <1>8, <1>9, <1>11, <1>12 DEF InStep

\* A reveal, or the final envelope, is sent: one more in the inbox.
LEMMA PushEnvelope ==
    ASSUME NEW p \in Peer, NEW q \in Peer, Pair(p, q), Push(p), pc[p] \in {"reveal", "settle"}
    PROVE  InStep(p, q)' /\ InStep(q, p)'
<1>. DEFINE m == Outgoing(p)
<1>. USE DEF Early, Settling, Ended
<1>1. InStep(p, q) /\ InStep(q, p) /\ Apart(p, q) /\ TypeOK
  BY PushFacts DEF Pair, TypeInv
<1>2. /\ pc'[p] = IF pc[p] = "reveal" THEN "collect" ELSE "verdict"
      /\ greetings'[q] = greetings[q] /\ turns'[q] = turns[q]
  BY <1>1 DEF Push, Outgoing, Deliver, BoxOf, Letter, Returned, Goto, Pair, TypeOK
<1>a. audits'[q] = Append(audits[q], m)
  BY <1>1 DEF Push, Outgoing, Deliver, BoxOf, Letter, Pair, TypeOK
<1>3. /\ game'[p] = game[p] /\ met'[p] = met[p] /\ made'[p] = made[p] /\ out'[p] = out[p]
      /\ seen'[p] = seen[p] /\ rows'[p] = rows[p] /\ verdict'[p] = verdict[p]
      /\ greetings'[p] = greetings[p] /\ turns'[p] = turns[p] /\ audits'[p] = audits[p]
      /\ result'[p] = result[p]
  BY PushFacts
<1>4. Placed(p)' /\ Placed(q)'
  BY <1>1, <1>2, <1>3, PlacedApart DEF InStep, Placed, Apart
<1>5. Posted(p, q)'
  BY <1>1, <1>2, <1>3 DEF InStep, Posted, Apart, Greeted, Welcomed, Revealed, Collected
<1>6. Posted(q, p)'
  <2>1. /\ Revealed(p)' = game[p] /\ game[p] = Revealed(p) + 1 /\ Welcomed(q)' = Welcomed(q)
        /\ Greeted(p)' = Greeted(p) /\ Collected(q)' = Collected(q) /\ Collected(q) \in Int
    <3>1. Welcomed(q)' = Welcomed(q) /\ Collected(q)' = Collected(q) /\ Collected(q) \in Int
      BY <1>1, PairTypes DEF Apart, Welcomed, Collected
    <3>2. game[p] \in Nat
      BY PairTypes
    <3>3. /\ Revealed(p)' = game[p] /\ game[p] = Revealed(p) + 1 /\ Greeted(p)' = Greeted(p)
      BY <1>2, <1>3, <3>2 DEF Greeted, Revealed
    <3>. QED BY <3>1, <3>3
  <2>2. /\ Greeted(p) = Welcomed(q) + Len(greetings[q])
        /\ \A i \in 1 .. Len(greetings[q]) : greetings[q][i].game = Welcomed(q) + i
        /\ Revealed(p) = Collected(q) + Len(audits[q])
        /\ \A i \in 1 .. Len(audits[q]) : audits[q][i] = Envelope(Collected(q) + i)
    BY <1>1 DEF InStep, Posted
  <2>3. m \in Mail /\ m = Envelope(Collected(q) + (Len(audits[q]) + 1))
    <3>1. m = Envelope(game[p])
      BY <1>1, PairTypes DEF InStep, Placed, Outgoing, Envelope
    <3>2. game[p] = Collected(q) + (Len(audits[q]) + 1)
      BY <2>1, <2>2, PairTypes
    <3>3. m \in Mail
      BY OutgoingType, TypeParts DEF Pair
    <3>. QED BY <3>1, <3>2, <3>3
  <2>4. /\ Len(audits'[q]) = Len(audits[q]) + 1
        /\ \A i \in 1 .. Len(audits'[q]) : audits'[q][i] = Envelope(Collected(q) + i)
    <3>. HIDE DEF m
    <3>. QED BY <1>a, <2>1, <2>2, <2>3, PairTypes, EnvelopeIn
  <2>5. Revealed(p)' = Collected(q) + Len(audits'[q])
    <3>1. Len(audits[q]) \in Nat
      BY PairTypes
    <3>. QED BY <2>1, <2>2, <2>4, <3>1
  <2>. QED
    BY <1>2, <2>1, <2>2, <2>4, <2>5 DEF Posted, Envelope
<1>7. /\ pc[p] = "reveal" => pc[q] # "greet" /\ game[q] = game[p]
      /\ pc[p] = "settle" => (game[q] = game[p] /\ pc[q] \in Settling) \/ pc[q] = "collect"
  BY Positions
<1>8. Mailed(p, q)' /\ Mailed(q, p)'
  BY <1>1, <1>2, <1>3 DEF InStep, Mailed, Apart, Ending
<1>9. Sealed(p, q)' /\ Sealed(q, p)'
  BY <1>1, <1>2, <1>3 DEF InStep, Sealed, Apart
<1>10. Token(p, q)' /\ Token(q, p)'
  BY <1>1, <1>2, <1>3, <1>7 DEF InStep, Token, Apart
<1>11. Told(p, q)' /\ Told(q, p)'
  <2>1. pc'[q] = pc[q] /\ (pc'[p] \in Ended <=> pc[p] \in Ended)
    BY <1>1, <1>2 DEF Apart
  <2>. QED
    BY <1>1, <1>3, <2>1 DEF InStep, Told, Apart
<1>. QED
  BY <1>4, <1>5, <1>6, <1>8, <1>9, <1>10, <1>11 DEF InStep

\* A turn is sent: the token is now in the inbox.
LEMMA PushTurn ==
    ASSUME NEW p \in Peer, NEW q \in Peer, Pair(p, q), Push(p), pc[p] = "send"
    PROVE  InStep(p, q)' /\ InStep(q, p)'
<1>. USE DEF Early, Settling, Ended
<1>1. InStep(p, q) /\ InStep(q, p) /\ Apart(p, q) /\ TypeOK
  BY PushFacts DEF Pair, TypeInv
<1>2. /\ turns[p] = <<>> /\ turns[q] = <<>> /\ made[p] # 0
      /\ out[p].kind \in {"turn", "caught", "survival"}
      /\ pc[q] = "wait" \/ (pc[q] = "hello" /\ RoleFor(q, game[q]) = "police")
      /\ game[q] = game[p]
  <2>1. pc[q] = "wait" \/ pc[q] = "hello" => game[q] = game[p]
    BY Positions
  <2>. QED BY <1>1, <2>1 DEF InStep, Sealed, Token
<1>3. /\ pc'[p] = IF out[p].kind = "turn" THEN "wait" ELSE "reveal"
      /\ result'[p] = IF out[p].kind = "turn" THEN result[p] ELSE Ending(out[p].kind)
      /\ turns'[q] = <<out[p]>> /\ turns'[p] = <<>>
      /\ greetings'[q] = greetings[q] /\ audits'[q] = audits[q]
  <2>1. turns'[q] = Append(turns[q], out[p])
    BY <1>1, <1>2 DEF Push, Outgoing, Deliver, BoxOf, Pair, TypeOK
  <2>. QED
    BY <1>1, <1>2, <2>1, PushFacts DEF Push, Outgoing, Deliver, BoxOf, Returned, Goto, Pair, TypeOK
<1>4. /\ game'[p] = game[p] /\ met'[p] = met[p] /\ made'[p] = made[p] /\ out'[p] = out[p]
      /\ seen'[p] = seen[p] /\ rows'[p] = rows[p] /\ verdict'[p] = verdict[p]
      /\ greetings'[p] = greetings[p] /\ audits'[p] = audits[p]
  BY PushFacts
<1>5. Placed(p)' /\ Placed(q)'
  BY <1>1, <1>3, <1>4, PlacedApart DEF InStep, Placed, Apart
<1>6. Posted(p, q)' /\ Posted(q, p)'
  <2>1. /\ Greeted(p)' = Greeted(p) /\ Welcomed(p)' = Welcomed(p)
        /\ Revealed(p)' = Revealed(p) /\ Collected(p)' = Collected(p)
        /\ Greeted(q)' = Greeted(q) /\ Welcomed(q)' = Welcomed(q)
        /\ Revealed(q)' = Revealed(q) /\ Collected(q)' = Collected(q)
    BY <1>1, <1>3, <1>4 DEF Apart, Greeted, Welcomed, Revealed, Collected
  <2>. QED
    BY <1>1, <1>3, <1>4, <2>1 DEF InStep, Posted, Envelope
<1>7. Mailed(p, q)' /\ Mailed(q, p)'
  BY <1>1, <1>2, <1>3, <1>4 DEF Mailed, Apart, RoleFor
<1>8. Sealed(p, q)' /\ Sealed(q, p)'
  BY <1>1, <1>2, <1>3, <1>4 DEF InStep, Sealed, Apart
<1>9. Token(p, q)' /\ Token(q, p)'
  <2>1. Ending(out[p].kind) \in {"capture", "survival"} /\ turns'[q] # <<>>
    BY <1>3 DEF Ending
  <2>. QED
    BY <1>1, <1>2, <1>3, <2>1 DEF Token, Apart
<1>10. Told(p, q)' /\ Told(q, p)'
  <2>1. Len(rows[q]) = game[q] - 1 /\ Len(rows[p]) = game[p] - 1
    BY <1>1 DEF InStep, Told
  <2>2. pc'[q] \notin Ended /\ game'[q] = game'[p]
    BY <1>1, <1>2, <1>4 DEF Apart
  <2>3. \A g \in 1 .. Len(rows[q]) : g # game[p]
    BY <1>2, <2>1, PairTypes
  <2>. QED
    BY <1>1, <1>4, <2>2, <2>3 DEF InStep, Told, Apart
<1>. QED
  BY <1>5, <1>6, <1>7, <1>8, <1>9, <1>10 DEF InStep

\* The greeting a peer accepts is for its own sub-game.
LEMMA AcceptInStep ==
    ASSUME NEW p \in Peer, NEW q \in Peer, Pair(p, q), AcceptGreeting(p)
    PROVE  InStep(p, q)' /\ InStep(q, p)'
<1>. DEFINE m == Head(greetings[p])
<1>. USE DEF Early, Settling, Ended
<1>1. InStep(p, q) /\ InStep(q, p) /\ TypeOK /\ pc[p] = "hello" /\ greetings[p] # <<>>
  BY DEF Pair, TypeInv, AcceptGreeting
<1>2. Apart(p, q)
  BY <1>1 DEF AcceptGreeting, Goto, Apart, Pair, TypeOK
<1>3. /\ game'[p] = game[p] /\ made'[p] = made[p] /\ out'[p] = out[p]
      /\ seen'[p] = seen[p] /\ rows'[p] = rows[p] /\ verdict'[p] = verdict[p]
      /\ turns' = turns /\ audits' = audits /\ result'[p] = result[p]
      /\ greetings'[q] = greetings[q] /\ greetings'[p] = Tail(greetings[p])
      /\ met'[p] = m.game
      /\ pc'[p] = IF RoleFor(p, game[p]) = "thief" THEN "act" ELSE "wait"
  BY <1>1 DEF AcceptGreeting, Goto, Pair, TypeOK
<1>4. /\ Greeted(q) = Welcomed(p) + Len(greetings[p])
      /\ \A i \in 1 .. Len(greetings[p]) : greetings[p][i].game = Welcomed(p) + i
      /\ Revealed(q) = Collected(p) + Len(audits[p])
      /\ \A i \in 1 .. Len(audits[p]) : audits[p][i] = Envelope(Collected(p) + i)
  BY <1>1 DEF InStep, Posted
<1>5. /\ Welcomed(p) = game[p] - 1 /\ Welcomed(p)' = game[p] /\ Welcomed(p) \in Int
      /\ Collected(p)' = Collected(p) /\ Greeted(p)' = Greeted(p) /\ Revealed(p)' = Revealed(p)
      /\ Welcomed(q)' = Welcomed(q) /\ Greeted(q)' = Greeted(q)
      /\ Collected(q)' = Collected(q) /\ Revealed(q)' = Revealed(q)
  BY <1>1, <1>2, <1>3, PairTypes DEF Apart, Greeted, Welcomed, Revealed, Collected
<1>6. /\ Len(greetings'[p]) \in Nat /\ Len(greetings[p]) = Len(greetings'[p]) + 1
      /\ m.game = Welcomed(p) + 1
      /\ \A i \in 1 .. Len(greetings'[p]) : greetings'[p][i].game = (Welcomed(p) + 1) + i
  BY <1>1, <1>3, <1>4, <1>5, PairTypes, GreetingOut
<1>7. m.game = game[p] /\ Welcomed(p) + 1 = game[p]
  BY <1>5, <1>6, PairTypes
<1>b. Greeted(q) = game[p] + Len(greetings'[p]) /\ Greeted(q) >= game[p]
  <2>1. \A a \in Nat, n \in Nat : (a - 1) + (n + 1) = a + n /\ a + n >= a
    OBVIOUS
  <2>2. game[p] \in Nat
    BY PairTypes
  <2>3. Greeted(q) = (game[p] - 1) + (Len(greetings'[p]) + 1) /\ Len(greetings'[p]) \in Nat
    BY <1>4, <1>5, <1>6
  <2>. QED BY <2>1, <2>2, <2>3
<1>8. Posted(p, q)' /\ Posted(q, p)'
  <2>1. Greeted(q) = game[p] + Len(greetings'[p])
    BY <1>b
  <2>2. \A i \in 1 .. Len(greetings'[p]) : greetings'[p][i].game = game[p] + i
    BY <1>6, <1>7
  <2>3. Posted(p, q)'
    BY <1>3, <1>4, <1>5, <2>1, <2>2 DEF Posted, Envelope
  <2>4. Posted(q, p)'
    BY <1>1, <1>3, <1>5 DEF InStep, Posted, Envelope
  <2>. QED BY <2>3, <2>4
<1>9. game[q] = game[p] /\ pc[q] \notin Settling \cup {"greet"}
  <2>1. game[q] = game[p] \/ game[q] = game[p] - 1
    BY <1>1, Positions
  <2>2. /\ game[p] \in Nat /\ game[q] \in Nat
        /\ Greeted(q) = IF pc[q] \in Settling \cup {"greet"} THEN game[q] - 1 ELSE game[q]
    BY PairTypes DEF Greeted
  <2>. QED BY <1>b, <2>1, <2>2
<1>10. Placed(p)' /\ Placed(q)'
  BY <1>1, <1>2, <1>3, <1>7, PlacedApart DEF InStep, Placed, Apart
<1>11. turns[q] = <<>> /\ (turns[p] # <<>> => RoleFor(p, game[p]) = "police")
  BY <1>1 DEF InStep, Mailed
<1>12. Mailed(p, q)' /\ Mailed(q, p)'
  BY <1>1, <1>2, <1>3, <1>11 DEF InStep, Mailed, Apart, RoleFor, Ending
<1>13. Sealed(p, q)' /\ Sealed(q, p)'
  BY <1>1, <1>2, <1>3 DEF InStep, Sealed, Apart
<1>14. /\ RoleFor(p, game[p]) \in {"thief", "police"}
       /\ RoleFor(q, game[q]) = IF RoleFor(p, game[p]) = "thief" THEN "police" ELSE "thief"
  BY <1>9, PairTypes DEF RoleFor, Peer, Pair
<1>15. Token(p, q)' /\ Token(q, p)'
  <2>1. Token(q, p) /\ Token(p, q)
    BY <1>1 DEF InStep
  <2>2. CASE RoleFor(p, game[p]) = "thief"
    <3>1. turns[p] = <<>> /\ pc'[p] = "act"
      BY <1>3, <1>11, <2>2
    <3>2. pc[q] \in {"wait", "hello"}
      <4>1. pc[q] \in Pc /\ pc[q] # "dead"
        BY <1>1, PairTypes DEF InStep, Placed
      <4>2. pc[q] \notin {"act", "send"} \cup Ended
        BY <1>1, <1>9, <2>1, <2>2, <3>1 DEF Token
      <4>. QED BY <1>9, <4>1, <4>2 DEF Pc, Calling, Waiting
    <3>. QED
      BY <1>2, <1>3, <1>11, <1>14, <2>2, <3>1, <3>2 DEF Token, Apart, RoleFor
  <2>3. CASE RoleFor(p, game[p]) = "police"
    <3>1. pc'[p] = "wait"
      BY <1>3, <2>3
    <3>2. \/ turns[p] # <<>> \/ pc[q] \in {"act", "send"} \/ pc[q] = "hello"
      <4>1. pc[q] \in Pc /\ pc[q] # "dead"
        BY <1>1, PairTypes DEF InStep, Placed
      <4>2. pc[q] \in {"wait"} \cup Ended => turns[p] # <<>>
        BY <1>1, <1>9, <1>11, <2>1, <2>3 DEF Token
      <4>. QED BY <1>9, <4>1, <4>2 DEF Pc, Calling, Waiting
    <3>3. Token(p, q)'
      BY <1>2, <1>3, <1>14, <2>3, <3>1, <3>2 DEF Token, Apart, RoleFor
    <3>4. Token(q, p)'
      BY <1>1, <1>2, <1>3, <1>9, <2>1, <2>3, <3>1 DEF Token, Apart, RoleFor
    <3>. QED BY <3>3, <3>4
  <2>. QED BY <1>14, <2>2, <2>3
<1>16. Told(p, q)' /\ Told(q, p)'
  BY <1>1, <1>2, <1>3 DEF InStep, Told, Apart
<1>. QED
  BY <1>8, <1>10, <1>12, <1>13, <1>15, <1>16 DEF InStep

\* A seal is a new turn of p's, for q to get.
LEMMA SealInStep ==
    ASSUME NEW p \in Peer, NEW q \in Peer, Pair(p, q),
           NEW k \in {"turn", "caught", "survival"}, Seal(p, k), pc[p] \in {"act", "wait"},
           game' = game, met' = met, rows' = rows, verdict' = verdict, result' = result,
           greetings' = greetings, audits' = audits, wire' = wire, seen'[q] = seen[q],
           turns'[p] = <<>>, turns'[q] = turns[q], turns[q] = <<>>,
           pc[q] = "wait" \/ (pc[q] = "hello" /\ RoleFor(q, game[q]) = "police"),
           \A m \in seen'[p] : m \in seen[p] \/ m.seq = made[q]
    PROVE  InStep(p, q)' /\ InStep(q, p)'
<1>. USE DEF Early, Settling, Ended
<1>1. InStep(p, q) /\ InStep(q, p) /\ TypeOK
  BY DEF Pair, TypeInv
<1>2. /\ made'[p] = made[p] + 1 /\ made'[q] = made[q] /\ out'[q] = out[q]
      /\ out'[p].game = game[p] /\ out'[p].seq = made[p] + 1 /\ out'[p].kind = k
      /\ pc'[p] = "send" /\ pc'[q] = pc[q]
  BY <1>1 DEF Seal, Goto, Letter, Pair, TypeOK
<1>3. game[q] = game[p] /\ made[p] \in Nat /\ made[q] \in Nat
  BY <1>1, Positions, PairTypes
<1>4. Placed(p)' /\ Placed(q)'
  BY <1>1, <1>2 DEF InStep, Placed
<1>5. Posted(p, q)' /\ Posted(q, p)'
  <2>1. /\ Greeted(p)' = Greeted(p) /\ Welcomed(p)' = Welcomed(p)
        /\ Revealed(p)' = Revealed(p) /\ Collected(p)' = Collected(p)
        /\ Greeted(q)' = Greeted(q) /\ Welcomed(q)' = Welcomed(q)
        /\ Revealed(q)' = Revealed(q) /\ Collected(q)' = Collected(q)
    BY <1>1, <1>2 DEF Greeted, Welcomed, Revealed, Collected
  <2>. QED
    BY <1>1, <2>1 DEF InStep, Posted, Envelope
<1>6. Mailed(p, q)' /\ Mailed(q, p)'
  BY DEF Mailed
<1>7. Sealed(p, q)' /\ Sealed(q, p)'
  <2>1. \A m \in seen'[p] : m.seq <= made[q]
    BY <1>1, <1>3 DEF InStep, Sealed
  <2>2. \A m \in seen'[q] : m.seq <= made'[p] /\ m.seq # made'[p]
    <3>1. \A m \in seen[q] : m.seq \in Nat /\ m.seq <= made[p]
      BY <1>1, <1>3 DEF InStep, Sealed, TypeOK, Mail
    <3>. QED BY <1>2, <1>3, <3>1
  <2>3. Sealed(p, q)'
    BY <1>2, <1>3, <2>1 DEF Sealed
  <2>4. Sealed(q, p)'
    BY <1>1, <1>2, <2>2 DEF InStep, Sealed
  <2>. QED BY <2>3, <2>4
<1>8. Token(p, q)' /\ Token(q, p)'
  BY <1>1, <1>2 DEF InStep, Token, RoleFor
<1>9. Told(p, q)' /\ Told(q, p)'
  BY <1>1, <1>2 DEF InStep, Told
<1>. QED
  BY <1>4, <1>5, <1>6, <1>7, <1>8, <1>9 DEF InStep

\* A decision: the token is now in hand.
LEMMA ActInStep ==
    ASSUME NEW p \in Peer, NEW q \in Peer, Pair(p, q), TakeTurn(p)
    PROVE  InStep(p, q)' /\ InStep(q, p)'
<1>1. pc[p] = "act" /\ \E k \in {"turn", "caught", "survival"} : Seal(p, k)
  BY DEF TakeTurn
<1>2. /\ turns[p] = <<>> /\ turns[q] = <<>>
      /\ pc[q] = "wait" \/ (pc[q] = "hello" /\ RoleFor(q, game[q]) = "police")
  BY <1>1 DEF Pair, InStep, Token
<1>. QED
  BY <1>1, <1>2, SealInStep DEF TakeTurn, mailVars

\* A turn is read in the sub-game it was made for.
LEMMA ReceiveInStep ==
    ASSUME NEW p \in Peer, NEW q \in Peer, Pair(p, q), ReceiveTurn(p)
    PROVE  InStep(p, q)' /\ InStep(q, p)'
<1>. DEFINE m == Head(turns[p])
<1>. USE DEF Early, Settling, Ended
<1>1. InStep(p, q) /\ InStep(q, p) /\ TypeOK /\ pc[p] = "wait" /\ turns[p] # <<>>
  BY DEF Pair, TypeInv, ReceiveTurn
<1>2. /\ m = out[q] /\ turns[q] = <<>> /\ game[q] = game[p] /\ pc[q] \in {"wait"} \cup Ended
      /\ pc[q] = "wait" => m.kind = "turn"
      /\ pc[q] \in Ended => /\ m.kind \in {"caught", "survival"}
                            /\ result[q] = Ending(m.kind)
      /\ m.seq = made[q]
  <2>1. turns[p] = <<out[q]>>
    BY <1>1 DEF InStep, Mailed
  <2>2. m = out[q]
    BY <2>1
  <2>. QED
    BY <1>1, <2>2 DEF InStep, Mailed, Sealed
<1>3. /\ game' = game /\ met' = met /\ rows' = rows /\ verdict' = verdict
      /\ greetings' = greetings /\ audits' = audits /\ wire' = wire
      /\ seen'[p] = seen[p] \cup {m} /\ seen'[q] = seen[q]
      /\ turns'[p] = <<>> /\ turns'[q] = turns[q]
  <2>1. turns[p] = <<out[q]>>
    BY <1>1 DEF InStep, Mailed
  <2>2. Tail(turns[p]) = <<>>
    BY <2>1
  <2>. QED
    BY <1>1, <2>2 DEF ReceiveTurn, Pair, TypeOK
\* The token goes on: nothing is sealed yet, or the game is over.
<1>4. ASSUME made' = made, out' = out, pc'[q] = pc[q], result'[q] = result[q],
             \/ pc'[p] = "act" /\ pc[q] = "wait"
             \/ pc'[p] = "reveal" /\ pc[q] \in Ended /\ result'[p] = result[q]
      PROVE  InStep(p, q)' /\ InStep(q, p)'
  <2>1. Placed(p)' /\ Placed(q)'
    BY <1>1, <1>3, <1>4 DEF InStep, Placed
  <2>2. Posted(p, q)' /\ Posted(q, p)'
    <3>1. /\ Greeted(p)' = Greeted(p) /\ Welcomed(p)' = Welcomed(p)
          /\ Revealed(p)' = Revealed(p) /\ Collected(p)' = Collected(p)
          /\ Greeted(q)' = Greeted(q) /\ Welcomed(q)' = Welcomed(q)
          /\ Revealed(q)' = Revealed(q) /\ Collected(q)' = Collected(q)
      BY <1>1, <1>3, <1>4 DEF Greeted, Welcomed, Revealed, Collected
    <3>. QED
      BY <1>1, <1>3, <3>1 DEF InStep, Posted, Envelope
  <2>3. Mailed(p, q)' /\ Mailed(q, p)'
    BY <1>2, <1>3 DEF Mailed
  <2>4. Sealed(p, q)' /\ Sealed(q, p)'
    <3>1. \A l \in seen'[p] : l.seq <= made[q]
      BY <1>1, <1>2, <1>3, PairTypes DEF InStep, Sealed
    <3>2. Sealed(p, q)'
      BY <1>1, <1>2, <1>3, <1>4, <3>1 DEF InStep, Sealed
    <3>3. Sealed(q, p)'
      BY <1>1, <1>2, <1>3, <1>4 DEF InStep, Sealed
    <3>. QED BY <3>2, <3>3
  <2>5. Token(p, q)' /\ Token(q, p)'
    BY <1>1, <1>2, <1>3, <1>4 DEF InStep, Token
  <2>6. Told(p, q)' /\ Told(q, p)'
    <3>1. Len(rows[q]) = game[q] - 1 /\ Len(rows[p]) = game[p] - 1
      BY <1>1 DEF InStep, Told
    <3>2. \A g \in 1 .. Len(rows[q]) : g # game[p]
      BY <1>2, <3>1, PairTypes
    <3>3. \A g \in 1 .. Len(rows[p]) : g # game[q]
      BY <1>2, <3>1, PairTypes
    <3>. QED
      BY <1>1, <1>3, <1>4, <3>2, <3>3 DEF InStep, Told
  <2>. QED
    BY <2>1, <2>2, <2>3, <2>4, <2>5, <2>6 DEF InStep
<1>5. CASE /\ m.kind \in {"caught", "survival"}
           /\ result' = [result EXCEPT ![p] = Ending(m.kind)]
           /\ Goto(p, "reveal") /\ UNCHANGED <<made, out>>
  <2>1. /\ pc'[p] = "reveal" /\ pc'[q] = pc[q] /\ made' = made /\ out' = out
        /\ result'[p] = Ending(m.kind) /\ result'[q] = result[q]
    BY <1>1, <1>5 DEF Goto, TypeOK, Pair
  <2>2. pc[q] \in Ended /\ result[q] = Ending(m.kind)
    BY <1>2, <1>5
  <2>. QED BY <1>4, <2>1, <2>2
<1>6. CASE m.kind = "turn" /\ Seal(p, "caught") /\ UNCHANGED result
  <2>1. pc[q] = "wait"
    BY <1>2, <1>6
  <2>2. \A l \in seen'[p] : l \in seen[p] \/ l.seq = made[q]
    BY <1>2, <1>3
  <2>. QED BY <1>1, <1>2, <1>3, <1>6, <2>1, <2>2, SealInStep
<1>7. CASE m.kind = "turn" /\ Goto(p, "act") /\ UNCHANGED <<made, out, result>>
  <2>1. /\ pc'[p] = "act" /\ pc'[q] = pc[q] /\ made' = made /\ out' = out
        /\ result'[q] = result[q]
    BY <1>1, <1>7 DEF Goto, TypeOK, Pair
  <2>2. pc[q] = "wait"
    BY <1>2, <1>7
  <2>. QED BY <1>4, <2>1, <2>2
<1>. QED
  BY <1>5, <1>6, <1>7 DEF ReceiveTurn

\* The reveal a peer collects was made for the sub-game it audits.
LEMMA CollectInStep ==
    ASSUME NEW p \in Peer, NEW q \in Peer, Pair(p, q), Collect(p)
    PROVE  InStep(p, q)' /\ InStep(q, p)'
<1>. DEFINE m == Head(audits[p])
            n == game[p]
<1>. USE DEF Early, Settling, Ended
<1>1. InStep(p, q) /\ InStep(q, p) /\ TypeOK /\ pc[p] = "collect" /\ audits[p] # <<>>
      /\ CloseSubGame(p, result[p], m.game)
  BY DEF Pair, TypeInv, Collect
<1>2. Apart(p, q)
  BY <1>1 DEF Collect, CloseSubGame, Goto, Apart, Pair, TypeOK
<1>3. /\ game'[p] = n + 1 /\ met'[p] = 0 /\ made'[p] = 0 /\ out'[p] = out[p]
      /\ seen'[p] = {} /\ verdict'[p] = verdict[p]
      /\ turns' = turns /\ greetings' = greetings
      /\ audits'[q] = audits[q] /\ audits'[p] = Tail(audits[p])
      /\ pc'[p] = IF n = NumGames THEN "settle" ELSE "greet"
  BY <1>1 DEF Collect, CloseSubGame, IsLast, Goto, Pair, TypeOK
<1>4. rows'[p] = Append(rows[p], [result |-> result[p], met |-> met[p], heard |-> m.game,
                                  taken |-> seen[p]])
  BY <1>1 DEF CloseSubGame, Pair, TypeOK
<1>5. /\ Greeted(q) = Welcomed(p) + Len(greetings[p])
      /\ \A i \in 1 .. Len(greetings[p]) : greetings[p][i].game = Welcomed(p) + i
      /\ Revealed(q) = Collected(p) + Len(audits[p])
      /\ \A i \in 1 .. Len(audits[p]) : audits[p][i] = Envelope(Collected(p) + i)
  BY <1>1 DEF InStep, Posted
<1>6. /\ n \in Nat /\ n >= 1 /\ n <= NumGames /\ NumGames \in Nat /\ game[q] \in Nat
  <2>1. n # NumGames + 1
    BY <1>1 DEF InStep, Placed
  <2>. QED BY <2>1, PairTypes
<1>7. /\ Collected(p) = n - 1 /\ Collected(p)' = n /\ Collected(p) \in Int
      /\ Welcomed(p)' = Welcomed(p) /\ Greeted(p)' = Greeted(p) /\ Revealed(p)' = Revealed(p)
      /\ Welcomed(q)' = Welcomed(q) /\ Greeted(q)' = Greeted(q)
      /\ Collected(q)' = Collected(q) /\ Revealed(q)' = Revealed(q)
  <2>1. /\ Welcomed(q)' = Welcomed(q) /\ Greeted(q)' = Greeted(q)
        /\ Collected(q)' = Collected(q) /\ Revealed(q)' = Revealed(q)
    BY <1>2 DEF Apart, Greeted, Welcomed, Revealed, Collected
  <2>2. pc'[p] \in {"settle", "greet"} /\ (n + 1) - 1 = n
    BY <1>3, <1>6
  <2>. QED
    BY <1>1, <1>3, <1>6, <2>1, <2>2 DEF Greeted, Welcomed, Revealed, Collected
<1>8. /\ Len(audits'[p]) \in Nat /\ Len(audits[p]) = Len(audits'[p]) + 1
      /\ m = Envelope(Collected(p) + 1)
      /\ \A i \in 1 .. Len(audits'[p]) : audits'[p][i] = Envelope((Collected(p) + 1) + i)
  <2>. DEFINE s == audits[p]
              b == Collected(p)
  <2>1. s \in Seq(Mail) /\ s # <<>> /\ b \in Int
    BY <1>1, <1>7, PairTypes
  <2>2. \A i \in 1 .. Len(s) : s[i] = Envelope(b + i)
    BY <1>5
  <2>3. audits'[p] = Tail(s) /\ m = Head(s)
    BY <1>3
  <2>. HIDE DEF s, b, m
  <2>4. /\ Len(Tail(s)) \in Nat /\ Len(s) = Len(Tail(s)) + 1 /\ Head(s) = Envelope(b + 1)
        /\ \A i \in 1 .. Len(Tail(s)) : Tail(s)[i] = Envelope((b + 1) + i)
    BY <2>1, <2>2, EnvelopeOut
  <2>. QED BY <2>3, <2>4 DEF s, b
<1>9. Collected(p) + 1 = n
  BY <1>6, <1>7
<1>10. m.game = n
  BY <1>8, <1>9 DEF Envelope, Letter
<1>11. Revealed(q) = n + Len(audits'[p]) /\ Revealed(q) >= n
  <2>1. \A a \in Nat, l \in Nat : (a - 1) + (l + 1) = a + l /\ a + l >= a
    OBVIOUS
  <2>2. Revealed(q) = (n - 1) + (Len(audits'[p]) + 1) /\ Len(audits'[p]) \in Nat
    BY <1>5, <1>7, <1>8
  <2>. QED BY <1>6, <2>1, <2>2
<1>12. Posted(p, q)' /\ Posted(q, p)'
  <2>1. \A i \in 1 .. Len(audits'[p]) : audits'[p][i] = Envelope(n + i)
    BY <1>8, <1>9
  <2>2. Posted(p, q)'
    BY <1>3, <1>5, <1>7, <1>11, <2>1 DEF Posted, Envelope
  <2>3. Posted(q, p)'
    BY <1>1, <1>3, <1>7 DEF InStep, Posted, Envelope
  <2>. QED BY <2>2, <2>3
<1>13. \/ game[q] = n /\ pc[q] = "collect"
       \/ game[q] = n + 1 /\ pc[q] \in {"greet", "hello", "settle", "verdict"}
  <2>1. \/ game[q] = n /\ pc[q] \in {"hello", "act", "send", "wait"} \cup Ended
        \/ game[q] = n + 1 /\ pc[q] \in {"greet", "hello", "settle", "verdict"}
    BY <1>1, Positions
  <2>2. Revealed(q) = IF pc[q] \in {"collect", "verdict", "done"} THEN game[q] ELSE game[q] - 1
    BY DEF Revealed
  <2>. QED BY <1>6, <1>11, <2>1, <2>2
<1>14. Placed(p)' /\ Placed(q)'
  BY <1>1, <1>2, <1>3, <1>6, PlacedApart DEF InStep, Placed, Apart
<1>15. turns[p] = <<>> /\ turns[q] = <<>>
  BY <1>1, <1>6, <1>13 DEF InStep, Mailed
<1>16. Mailed(p, q)' /\ Mailed(q, p)'
  BY <1>3, <1>15 DEF Mailed
<1>17. Sealed(p, q)' /\ Sealed(q, p)'
  <2>1. Sealed(p, q)'
    BY <1>3, <1>15 DEF Sealed
  <2>2. pc[q] # "collect" => seen[q] = {}
    BY <1>1, <1>13 DEF InStep, Placed
  <2>3. game'[p] = game[q] => seen[q] = {}
    BY <1>3, <1>6, <1>13, <2>2
  <2>. QED
    BY <1>1, <1>2, <1>3, <1>15, <2>1, <2>3 DEF InStep, Sealed, Apart
<1>18. Token(p, q)' /\ Token(q, p)'
  <2>1. pc[q] = "collect" => game'[p] # game[q]
    BY <1>3, <1>6, <1>13
  <2>. QED
    BY <1>1, <1>2, <1>3, <1>13, <2>1 DEF InStep, Token, Apart
<1>19. /\ result[p] \in {"capture", "survival"} /\ met[p] = n
       /\ Len(rows[p]) = n - 1 /\ Len(rows[q]) = game[q] - 1
       /\ rows[p] \in Seq(Row)
       /\ game[q] = n => result[p] = result[q]
       /\ game[q] = n + 1 => rows[q][n].result = result[p]
  <2>1. /\ result[p] \in {"capture", "survival"} /\ met[p] = n
        /\ Len(rows[p]) = n - 1 /\ Len(rows[q]) = game[q] - 1
    BY <1>1 DEF InStep, Token, Placed, Told
  <2>2. game[q] = n => result[p] = result[q]
    BY <1>1, <1>6, <1>13 DEF InStep, Told
  <2>3. game[q] = n + 1 => n \in 1 .. Len(rows[q])
    BY <1>6, <2>1
  <2>4. game[q] = n + 1 => rows[q][n].result = result[p]
    BY <1>1, <2>3 DEF InStep, Told
  <2>. QED
    BY <2>1, <2>2, <2>4, PairTypes
<1>20. /\ Len(rows'[p]) = n /\ rows'[p][n].result = result[p]
       /\ rows'[p][n].met = n /\ rows'[p][n].heard = n
       /\ \A g \in 1 .. (n - 1) : rows'[p][g] = rows[p][g]
  <2>. DEFINE row == [result |-> result[p], met |-> met[p], heard |-> m.game, taken |-> seen[p]]
              s == rows[p]
  <2>1. s \in Seq(Row) /\ Len(s) = n - 1
    BY <1>19
  <2>2. row \in Row
    BY <1>1, <1>6, <1>10 DEF TypeOK, Row, Verdict, Pair
  <2>3. row.result = result[p] /\ row.met = n /\ row.heard = n
    BY <1>10, <1>19
  <2>. HIDE DEF row, s
  <2>4. /\ Len(Append(s, row)) = Len(s) + 1 /\ Append(s, row)[Len(s) + 1] = row
        /\ \A g \in 1 .. Len(s) : Append(s, row)[g] = s[g]
    BY <2>1, <2>2, OneMore
  <2>5. Len(s) + 1 = n
    BY <1>6, <2>1
  <2>6. rows'[p] = Append(s, row)
    BY <1>4 DEF row, s
  <2>7. \A g \in 1 .. (n - 1) : rows'[p][g] = s[g]
    BY <2>1, <2>4, <2>6
  <2>. QED
    BY <2>3, <2>4, <2>5, <2>6, <2>7 DEF s
<1>21. Told(p, q)'
  <2>1. ASSUME NEW g \in 1 .. n
        PROVE  /\ rows'[p][g].result \in {"capture", "survival"}
               /\ rows'[p][g].met = g /\ rows'[p][g].heard = g
               /\ g < game[q] => rows'[p][g].result = rows[q][g].result
               /\ g = game[q] => rows'[p][g].result = result[q]
    <3>1. CASE g = n
      BY <1>6, <1>13, <1>19, <1>20, <3>1
    <3>2. CASE g \in 1 .. (n - 1)
      <4>1. rows'[p][g] = rows[p][g] /\ g \in 1 .. Len(rows[p])
        BY <1>19, <1>20, <3>2
      <4>. QED
        BY <1>1, <4>1 DEF InStep, Told
    <3>. QED
      BY <1>6, <3>1, <3>2
  <2>2. Len(rows'[p]) = game'[p] - 1
    BY <1>3, <1>6, <1>20
  <2>3. pc'[p] \notin Ended
    BY <1>3
  <2>. QED
    BY <1>2, <1>20, <2>1, <2>2, <2>3 DEF Told, Apart
<1>22. Told(q, p)'
  <2>1. ASSUME NEW g \in 1 .. Len(rows[q])
        PROVE  /\ g < n + 1 => rows[q][g].result = rows'[p][g].result
               /\ g # n + 1
    <3>1. g \in Nat /\ g >= 1 /\ g <= n
      BY <1>6, <1>13, <1>19
    <3>2. CASE g = n
      <4>1. game[q] = n + 1
        BY <1>6, <1>13, <1>19, <3>2
      <4>. QED BY <1>6, <1>19, <1>20, <3>2, <4>1
    <3>3. CASE g # n
      <4>1. g \in 1 .. (n - 1) /\ g < n
        BY <1>6, <3>1, <3>3
      <4>2. rows[q][g].result = rows[p][g].result
        BY <1>1, <4>1 DEF InStep, Told
      <4>. QED BY <1>6, <1>20, <3>1, <4>1, <4>2
    <3>. QED BY <3>2, <3>3
  <2>2. pc'[p] \notin Ended
    BY <1>3
  <2>. QED
    BY <1>1, <1>2, <1>3, <2>1, <2>2 DEF InStep, Told, Apart
<1>. QED
  BY <1>12, <1>14, <1>16, <1>17, <1>18, <1>21, <1>22 DEF InStep

\* Two series that are told alike are filed alike.
LEMMA SameFiling ==
    ASSUME NEW p \in Peer, NEW q \in Peer, Pair(p, q),
           game[p] = NumGames + 1, game[q] = NumGames + 1
    PROVE  Filing(p) = Filing(q)
<1>. DEFINE G == 1 .. NumGames
<1>1. /\ DOMAIN rows[p] = G /\ DOMAIN rows[q] = G
      /\ \A g \in G : /\ rows[p][g].result \in {"capture", "survival"}
                      /\ rows[p][g].met = g /\ rows[q][g].met = g
                      /\ rows[p][g].result = rows[q][g].result
  <2>1. Len(rows[p]) = NumGames /\ Len(rows[q]) = NumGames
    BY PairTypes DEF Pair, InStep, Told
  <2>2. DOMAIN rows[p] = G /\ DOMAIN rows[q] = G
    BY <2>1, PairTypes
  <2>3. \A g \in G : g < game[q]
    BY PairTypes
  <2>. QED BY <2>1, <2>2, <2>3 DEF Pair, InStep, Told
<1>2. 1 \in G /\ 1 # 0
  BY PairTypes
<1>3. (\E g \in DOMAIN rows[p] : rows[p][g].met # 0) /\ (\E g \in DOMAIN rows[q] : rows[q][g].met # 0)
  <2>1. rows[p][1].met = 1 /\ rows[q][1].met = 1
    BY <1>1, <1>2
  <2>. QED BY <1>1, <1>2, <2>1
<1>4. \A g \in G : WinnerGroup(p, g) = WinnerGroup(q, g)
  <2>. SUFFICES ASSUME NEW g \in G PROVE WinnerGroup(p, g) = WinnerGroup(q, g)
    OBVIOUS
  <2>1. CASE rows[p][g].result = "capture"
    <3>1. rows[q][g].result = "capture"
      BY <1>1, <2>1
    <3>. QED BY <2>1, <3>1 DEF WinnerGroup
  <2>2. CASE rows[p][g].result = "survival"
    <3>1. rows[q][g].result = "survival"
      BY <1>1, <2>2
    <3>. QED BY <2>2, <3>1 DEF WinnerGroup
  <2>. QED BY <1>1, <2>1, <2>2
<1>5. [g \in DOMAIN rows[p] |-> <<Outcome(rows[p][g].result), WinnerGroup(p, g)>>]
      = [g \in DOMAIN rows[q] |-> <<Outcome(rows[q][g].result), WinnerGroup(q, g)>>]
  BY <1>1, <1>4
<1>. QED
  BY <1>3, <1>5 DEF Filing

\* The envelope a peer reads tells the series it tells itself.
LEMMA SettleInStep ==
    ASSUME NEW p \in Peer, NEW q \in Peer, Pair(p, q), Settle(p)
    PROVE  InStep(p, q)' /\ InStep(q, p)'
<1>. DEFINE m == Head(audits[p])
<1>. USE DEF Early, Settling, Ended
<1>1. InStep(p, q) /\ InStep(q, p) /\ TypeOK /\ pc[p] = "verdict" /\ audits[p] # <<>>
  BY DEF Pair, TypeInv, Settle
<1>2. game[p] = NumGames + 1 /\ NumGames \in Nat
  BY <1>1, PairTypes DEF InStep, Placed
<1>3. /\ Collected(p) = NumGames /\ Collected(p) \in Int
      /\ Revealed(q) = Collected(p) + Len(audits[p])
      /\ \A i \in 1 .. Len(audits[p]) : audits[p][i] = Envelope(Collected(p) + i)
  BY <1>1, <1>2 DEF InStep, Posted, Collected
<1>4. /\ Len(Tail(audits[p])) \in Nat /\ Len(audits[p]) = Len(Tail(audits[p])) + 1
      /\ m = Envelope(NumGames + 1)
      /\ \A i \in 1 .. Len(Tail(audits[p])) : Tail(audits[p])[i] = Envelope((NumGames + 1) + i)
  <2>. DEFINE s == audits[p]
              b == NumGames
  <2>1. s \in Seq(Mail) /\ s # <<>> /\ b \in Int
    BY <1>1, <1>2, PairTypes
  <2>2. \A i \in 1 .. Len(s) : s[i] = Envelope(b + i)
    BY <1>3
  <2>3. m = Head(s)
    OBVIOUS
  <2>. HIDE DEF s, b, m
  <2>4. /\ Len(Tail(s)) \in Nat /\ Len(s) = Len(Tail(s)) + 1 /\ Head(s) = Envelope(b + 1)
        /\ \A i \in 1 .. Len(Tail(s)) : Tail(s)[i] = Envelope((b + 1) + i)
    BY <2>1, <2>2, EnvelopeOut
  <2>. QED BY <2>3, <2>4 DEF s, b
<1>5. Revealed(q) = (NumGames + 1) + Len(Tail(audits[p])) /\ Revealed(q) > NumGames
  <2>1. \A a \in Nat, l \in Nat : a + (l + 1) = (a + 1) + l /\ a + (l + 1) > a
    OBVIOUS
  <2>2. Revealed(q) = NumGames + (Len(Tail(audits[p])) + 1) /\ Len(Tail(audits[p])) \in Nat
    BY <1>3, <1>4
  <2>. QED BY <1>2, <2>1, <2>2
<1>6. game[q] = NumGames + 1 /\ pc[q] \in {"verdict", "done"}
  <2>1. \/ game[q] = game[p] /\ pc[q] \in Settling
        \/ game[q] = NumGames /\ pc[q] = "collect"
    BY <1>1, Positions
  <2>. QED BY <1>2, <1>5, <2>1 DEF Revealed
<1>7. Judge(p, m) = "agreed"
  <2>1. m.kind = "consensus"
    <3>1. ~(NumGames + 1 <= NumGames) /\ m = Envelope(NumGames + 1)
      BY <1>2, <1>4
    <3>. HIDE DEF m
    <3>. QED BY <3>1 DEF Envelope, Letter
  <2>2. Other(p) = q
    BY DEF Pair
  <2>. QED BY <1>2, <1>6, <2>1, <2>2, SameFiling DEF Judge
<1>8. /\ Apart(p, q)
      /\ game'[p] = game[p] /\ met'[p] = met[p] /\ made'[p] = made[p] /\ out'[p] = out[p]
      /\ seen'[p] = seen[p] /\ rows'[p] = rows[p] /\ result'[p] = result[p]
      /\ turns' = turns /\ greetings' = greetings
      /\ audits'[q] = audits[q] /\ audits'[p] = Tail(audits[p])
      /\ pc'[p] = "done" /\ verdict'[p] = "agreed"
  BY <1>1, <1>7 DEF Settle, Done, Goto, Apart, Pair, TypeOK
<1>9. Placed(p)' /\ Placed(q)'
  BY <1>1, <1>2, <1>8, PlacedApart DEF InStep, Placed, Apart
<1>10. Posted(p, q)' /\ Posted(q, p)'
  <2>1. /\ Greeted(p)' = Greeted(p) /\ Welcomed(p)' = Welcomed(p)
        /\ Revealed(p)' = Revealed(p) /\ Collected(p)' = NumGames + 1
        /\ Greeted(q)' = Greeted(q) /\ Welcomed(q)' = Welcomed(q)
        /\ Revealed(q)' = Revealed(q) /\ Collected(q)' = Collected(q)
    BY <1>1, <1>2, <1>8 DEF Apart, Greeted, Welcomed, Revealed, Collected
  <2>2. Posted(p, q)'
    BY <1>1, <1>4, <1>5, <1>8, <2>1 DEF InStep, Posted, Envelope
  <2>3. Posted(q, p)'
    BY <1>1, <1>8, <2>1 DEF InStep, Posted, Envelope
  <2>. QED BY <2>2, <2>3
<1>11. turns[p] = <<>> /\ turns[q] = <<>>
  BY <1>1, <1>6 DEF InStep, Mailed
<1>12. Mailed(p, q)' /\ Mailed(q, p)'
  BY <1>8, <1>11 DEF Mailed
<1>13. Sealed(p, q)' /\ Sealed(q, p)'
  BY <1>1, <1>8, <1>11 DEF InStep, Sealed, Apart
<1>14. Token(p, q)' /\ Token(q, p)'
  BY <1>6, <1>8 DEF Token, Apart
<1>15. Told(p, q)' /\ Told(q, p)'
  BY <1>1, <1>6, <1>8 DEF InStep, Told, Apart
<1>. QED
  BY <1>9, <1>10, <1>12, <1>13, <1>14, <1>15 DEF InStep

-----------------------------------------------------------------------------
(* What a peer in step never does without a fault: give up, run into a     *)
(* deadline, or find in an inbox something that is not what it waits for.  *)

\* The next greeting is this sub-game's.
LEMMA NextGreeting ==
    ASSUME NEW p \in Peer, NEW q \in Peer, Pair(p, q), pc[p] = "hello", greetings[p] # <<>>
    PROVE  ~IsStaleGreeting(p, Head(greetings[p]))
<1>. DEFINE s == greetings[p]
            b == Welcomed(p)
<1>1. s \in Seq(Mail) /\ s # <<>> /\ b \in Int /\ b = game[p] - 1 /\ game[p] \in Nat
  BY PairTypes DEF Welcomed, Early, Settling
<1>2. \A i \in 1 .. Len(s) : s[i].game = b + i
  BY DEF Pair, InStep, Posted
<1>3. Head(s).game = b + 1
  <2>. HIDE DEF s, b
  <2>. QED BY <1>1, <1>2, GreetingOut
<1>4. Head(s).game = game[p]
  BY <1>1, <1>3
<1>. QED BY <1>1, <1>4 DEF IsStaleGreeting

\* The next turn is new.
LEMMA NextTurn ==
    ASSUME NEW p \in Peer, NEW q \in Peer, Pair(p, q), turns[p] # <<>>
    PROVE  ~IsDuplicate(p, Head(turns[p]))
<1>1. turns[p] = <<out[q]>> /\ game[q] = game[p] /\ out[q].seq = made[q]
  BY DEF Pair, InStep, Mailed, Sealed
<1>2. Head(turns[p]) = out[q]
  BY <1>1
<1>3. \A m \in seen[p] : m.seq # made[q]
  BY <1>1 DEF Pair, InStep, Sealed
<1>. QED BY <1>1, <1>2, <1>3 DEF IsDuplicate

\* Whoever waits for a greeting the opponent has sent, or for a turn that is on
\* its way, has it in the inbox.
LEMMA GreetingHere ==
    ASSUME NEW p \in Peer, NEW q \in Peer, Pair(p, q), pc[p] = "hello", game[q] = game[p],
           pc[q] \notin Settling \cup {"greet"}
    PROVE  HasMail(p)
<1>1. Greeted(q) = Welcomed(p) + Len(greetings[p])
  BY DEF Pair, InStep, Posted
<1>2. Greeted(q) = game[p] /\ Welcomed(p) = game[p] - 1 /\ game[p] \in Nat
      /\ Len(greetings[p]) \in Nat /\ greetings[p] \in Seq(Mail)
  BY PairTypes DEF Greeted, Welcomed, Early, Settling
<1>3. greetings[p] # <<>>
  <2>1. Len(greetings[p]) # 0
    BY <1>1, <1>2
  <2>. QED BY <2>1
<1>4. 1 \in DOMAIN greetings[p] /\ Head(greetings[p]) = greetings[p][1]
  BY <1>2, <1>3, OneLess
<1>. QED BY <1>3, <1>4, NextGreeting DEF HasMail

\* A turn in the inbox finds its reader waiting, or about to.
LEMMA TurnHere ==
    ASSUME NEW p \in Peer, NEW q \in Peer, Pair(p, q), turns[p] # <<>>
    PROVE  HasMail(p)
<1>1. game[q] = game[p] /\ (pc[p] = "wait" \/ pc[p] = "hello")
      /\ pc[q] \in {"wait"} \cup Ended
  BY DEF Pair, InStep, Mailed
<1>2. CASE pc[p] = "wait"
  <2>1. turns[p] \in Seq(Mail)
    BY PairTypes
  <2>2. 1 \in DOMAIN turns[p] /\ Head(turns[p]) = turns[p][1]
    BY <2>1, OneLess
  <2>. QED BY <1>2, <2>2, NextTurn DEF HasMail
<1>3. CASE pc[p] = "hello"
  BY <1>1, <1>3, GreetingHere DEF Settling, Ended
<1>. QED BY <1>1, <1>2, <1>3

\* So nothing is stale or repeated,
LEMMA NothingDropped ==
    ASSUME NEW p \in Peer, NEW q \in Peer, Pair(p, q)
    PROVE  ~DropGreeting(p) /\ ~DropTurn(p)
BY NextGreeting, NextTurn DEF DropGreeting, DropTurn

\* no call is given up,
LEMMA NobodyGivesUp ==
    ASSUME NEW p \in Peer, NEW q \in Peer, Pair(p, q), ~Fault
    PROVE  ~GiveUp(p)
<1>. SUFFICES ASSUME pc[p] \in Calling, pc[q] \in {"done", "dead"} PROVE FALSE
  BY DEF GiveUp, Pair
<1>. USE DEF Early, Settling, Ended
<1>1. Pair(q, p)
  BY Swap
<1>2. pc[q] = "done"
  BY DEF Pair, InStep, Placed
<1>3. game[p] = game[q] /\ pc[p] \in Settling
  <2>1. \/ game[p] = game[q] /\ pc[p] \in Settling
        \/ game[p] = NumGames /\ pc[p] = "collect" /\ pc[q] # "done"
    BY <1>1, <1>2, Positions
  <2>. QED BY <1>2, <2>1
<1>4. pc[p] = "settle"
  BY <1>3 DEF Calling
<1>5. Revealed(p) = game[p] - 1 /\ Collected(q) = game[p]
  BY <1>2, <1>3, <1>4 DEF Revealed, Collected
<1>6. Revealed(p) = Collected(q) + Len(audits[q])
  BY DEF Pair, InStep, Posted
<1>7. game[p] \in Nat /\ Len(audits[q]) \in Nat
  BY PairTypes
<1>. QED BY <1>5, <1>6, <1>7

\* nobody waits in vain for a greeting,
LEMMA NoGreetingTimeout ==
    ASSUME NEW p \in Peer, NEW q \in Peer, Pair(p, q), ~Fault
    PROVE  ~GreetingTimeout(p)
<1>. SUFFICES ASSUME pc[p] = "hello", ~HasMail(p), ~Busy(q), pc[q] \notin {"collect", "verdict"}
              PROVE  FALSE
  BY DEF GreetingTimeout, Overdue, Pair
<1>1. game[q] = game[p] /\ pc[q] \notin Settling
  BY Positions DEF Early, Settling
<1>2. pc[q] # "greet"
  BY DEF Busy, Calling
<1>. QED BY <1>1, <1>2, GreetingHere

\* for a turn,
LEMMA NoTurnTimeout ==
    ASSUME NEW p \in Peer, NEW q \in Peer, Pair(p, q), ~Fault
    PROVE  ~TurnTimeout(p)
<1>. SUFFICES ASSUME pc[p] = "wait", ~HasMail(p), ~Busy(q) PROVE FALSE
  BY DEF TurnTimeout, Overdue, Pair
<1>1. turns[p] = <<>>
  BY TurnHere
<1>2. turns[q] = <<>>
  BY Swap, TurnHere DEF Busy
<1>3. pc[q] \notin {"act", "send"}
  BY DEF Busy, Calling
<1>4. pc[q] = "hello" /\ game[q] = game[p]
  BY <1>1, <1>2, <1>3, Positions DEF Pair, InStep, Token
<1>5. HasMail(q)
  BY <1>4, Swap, GreetingHere DEF Settling
<1>. QED BY <1>5 DEF Busy

\* or for a reveal,
LEMMA NoAuditTimeout ==
    ASSUME NEW p \in Peer, NEW q \in Peer, Pair(p, q), ~Fault
    PROVE  ~AuditTimeout(p)
<1>. SUFFICES ASSUME pc[p] \in {"collect", "verdict"}, ~HasMail(p), ~Busy(q) PROVE FALSE
  BY DEF AuditTimeout, Overdue, Pair
<1>. USE DEF Early, Settling, Ended
<1>1. audits[p] = <<>>
  BY DEF HasMail
<1>2. Revealed(q) = game[p] - 1
  <2>1. Revealed(q) = Collected(p) + Len(audits[p])
    BY DEF Pair, InStep, Posted
  <2>2. Collected(p) = game[p] - 1 /\ Len(audits[p]) = 0 /\ game[p] \in Nat
    BY <1>1, PairTypes DEF Collected
  <2>. QED BY <2>1, <2>2
<1>3. turns[q] = <<>> /\ pc[q] \notin Calling
  BY Swap, TurnHere DEF Busy
<1>4. game[p] \in Nat /\ game[q] \in Nat
  BY PairTypes
<1>5. CASE pc[p] = "collect"
  <2>1. game[q] = game[p]
    <3>1. CASE game[q] = game[p] + 1
      BY <1>2, <1>3, <1>4, <1>5, <3>1, Positions DEF Revealed, Calling
    <3>. QED BY <1>5, <3>1, Positions
  <2>2. pc[q] \in Ended
    BY <1>3, <1>5, <2>1 DEF Pair, InStep, Token
  <2>3. pc[q] = "collect"
    BY <1>3, <2>2 DEF Calling
  <2>. QED BY <1>2, <1>4, <2>1, <2>3 DEF Revealed
<1>6. CASE pc[p] = "verdict"
  <2>0. game[p] = NumGames + 1
    BY <1>6 DEF Pair, InStep, Placed
  <2>1. CASE game[q] = game[p] /\ pc[q] \in Settling
    BY <1>2, <1>3, <1>4, <2>1 DEF Revealed, Calling
  <2>2. CASE game[q] = NumGames /\ pc[q] = "collect"
    <3>1. audits[q] = <<>>
      BY <2>2 DEF Busy, HasMail
    <3>2. Revealed(p) = Collected(q) + Len(audits[q])
      BY DEF Pair, InStep, Posted
    <3>3. Revealed(p) = game[p] /\ Collected(q) = game[q] - 1 /\ Len(audits[q]) = 0
      BY <1>6, <2>2, <3>1 DEF Revealed, Collected
    <3>4. NumGames \in Nat
      BY PairTypes
    <3>. QED BY <2>0, <2>2, <3>2, <3>3, <3>4
  <2>. QED BY <1>6, <2>1, <2>2, Positions
<1>. QED BY <1>5, <1>6

\* and nothing is lost, late or crashed.
LEMMA NoFault ==
    ASSUME NEW p \in Peer, NEW q \in Peer, Pair(p, q), ~Fault
    PROVE  ~RetryPush(p) /\ ~Crash(p) /\ ~LateDelivery(p)
BY DEF RetryPush, Crash, LateDelivery, Pair, InStep, Placed

-----------------------------------------------------------------------------
(* Every step, and the theorem.                                            *)

\* Every step without a fault keeps two peers in step.
LEMMA StepInStep ==
    ASSUME NEW p \in Peer, NEW q \in Peer, Pair(p, q), ~Fault,
           Progress(p) \/ RetryPush(p) \/ LateDelivery(p) \/ Crash(p)
    PROVE  InStep(p, q)' /\ InStep(q, p)'
<1>1. CASE Push(p)
  <2>1. pc[p] \in {"greet", "send", "reveal", "settle"}
    BY <1>1 DEF Push, Calling
  <2>. QED BY <1>1, <2>1, PushGreeting, PushTurn, PushEnvelope
<1>. QED
  BY <1>1, AcceptInStep, ActInStep, ReceiveInStep, CollectInStep, SettleInStep, NothingDropped,
     NobodyGivesUp, NoGreetingTimeout, NoTurnTimeout, NoAuditTimeout, NoFault DEF Progress

\* The series begins in step.
LEMMA LockStepInit == Init => LockStep
<1>. SUFFICES ASSUME Init, NEW p \in Peer, NEW q \in Peer PROVE InStep(p, q)
  BY DEF LockStep, Peer
<1>. USE SeriesAssumption DEF Init
<1>1. /\ game[p] = 1 /\ game[q] = 1 /\ pc[p] = "greet" /\ pc[q] = "greet"
      /\ met[p] = 0 /\ made[p] = 0 /\ made[q] = 0 /\ seen[p] = {} /\ rows[p] = <<>>
      /\ rows[q] = <<>>
      /\ wire[p] = {} /\ greetings[p] = <<>> /\ turns[p] = <<>> /\ turns[q] = <<>>
      /\ audits[p] = <<>>
  OBVIOUS
<1>. USE DEF Early, Settling, Ended
<1>2. Placed(p)
  BY <1>1 DEF Placed
<1>3. Posted(p, q)
  BY <1>1 DEF Posted, Greeted, Welcomed, Revealed, Collected
<1>4. Mailed(p, q) /\ Sealed(p, q) /\ Token(p, q)
  BY <1>1 DEF Mailed, Sealed, Token
<1>5. Told(p, q)
  BY <1>1 DEF Told
<1>. QED BY <1>2, <1>3, <1>4, <1>5 DEF InStep

\* Nothing happens, nothing changes.
LEMMA StayInStep ==
    ASSUME UNCHANGED vars, NEW p \in Peer, NEW q \in Peer, InStep(p, q)
    PROVE  InStep(p, q)'
<1>1. Placed(p)'
  BY DEF vars, InStep, Placed
<1>2. /\ Greeted(q)' = Greeted(q) /\ Welcomed(p)' = Welcomed(p)
      /\ Revealed(q)' = Revealed(q) /\ Collected(p)' = Collected(p)
  BY DEF vars, Greeted, Welcomed, Revealed, Collected
<1>3. Posted(p, q)'
  BY <1>2 DEF vars, InStep, Posted, Envelope
<1>4. Mailed(p, q)'
  BY DEF vars, InStep, Mailed
<1>5. Sealed(p, q)'
  BY DEF vars, InStep, Sealed
<1>6. Token(p, q)'
  BY DEF vars, InStep, Token
<1>7. Told(p, q)'
  BY DEF vars, InStep, Told
<1>. QED
  BY <1>1, <1>3, <1>4, <1>5, <1>6, <1>7 DEF InStep

\* Every step keeps LockStep; a fault ends what it promises.
LEMMA LockStepStep ==
    ASSUME TypeInv, LockStep, [Next]_vars
    PROVE  LockStep'
<1>. SUFFICES ASSUME faults' = 0 PROVE InStep("home", "away")' /\ InStep("away", "home")'
  BY DEF LockStep
<1>1. CASE UNCHANGED vars
  <2>1. InStep("home", "away") /\ InStep("away", "home")
    BY <1>1 DEF LockStep, vars
  <2>. QED
    BY <1>1, <2>1, StayInStep DEF Peer
<1>2. ASSUME NEW p \in Peer, Progress(p) \/ RetryPush(p) \/ LateDelivery(p) \/ Crash(p)
      PROVE  InStep("home", "away")' /\ InStep("away", "home")'
  <2>1. faults \in Nat
    BY SeriesAssumption DEF TypeInv, TypeOK
  <2>2. Fault \/ UNCHANGED faults
    BY <1>2 DEF Progress, RetryPush, LateDelivery, Crash, Push, GiveUp, DropGreeting,
       AcceptGreeting, TakeTurn, ReceiveTurn, DropTurn, Collect, Settle, GreetingTimeout,
       TurnTimeout, AuditTimeout
  <2>3. ~Fault /\ faults = 0
    BY <2>1, <2>2 DEF Fault
  <2>4. InStep("home", "away") /\ InStep("away", "home")
    BY <2>3 DEF LockStep
  <2>5. /\ Other("home") = "away" /\ Other("away") = "home" /\ "home" \in Peer /\ "away" \in Peer
    BY OtherPeer DEF Peer
  <2>6. Pair("home", "away") /\ Pair("away", "home")
    BY <2>4, <2>5 DEF Pair
  <2>7. p = "home" \/ p = "away"
    BY DEF Peer
  <2>. QED BY <1>2, <2>3, <2>5, <2>6, <2>7, StepInStep
<1>. QED BY <1>1, <1>2 DEF Next

\* A series in step is clean.
LEMMA LockStepIsClean ==
    ASSUME TypeInv, LockStep
    PROVE  CleanSeries
<1>. SUFFICES ASSUME faults = 0, NEW p \in Peer
     PROVE  /\ \A g \in DOMAIN rows[p] : /\ rows[p][g].result \in {"capture", "survival"}
                                         /\ rows[p][g].met = g
                                         /\ rows[p][g].heard = g
            /\ pc[p] = "done" => verdict[p] = "agreed"
  BY DEF CleanSeries
<1>1. \E q \in Peer : InStep(p, q)
  BY DEF LockStep, Peer
<1>2. DOMAIN rows[p] = 1 .. Len(rows[p])
  BY DEF TypeInv, TypeOK
<1>. QED BY <1>1, <1>2 DEF InStep, Told, Placed

\* Without a fault the two peers go through the series in lockstep: every
\* sub-game is decided by play and audited on the right log, and what is filed
\* at the end agrees (sdk.py, _settle_series).
THEOREM CleanSeriesHolds == Spec => []CleanSeries
<1>1. Init => LockStep
  BY LockStepInit
<1>2. TypeInv /\ LockStep /\ [Next]_vars => LockStep'
  BY LockStepStep
<1>3. TypeInv /\ LockStep => CleanSeries
  BY LockStepIsClean
<1>. QED
  BY <1>1, <1>2, <1>3, TypeInvariant, PTL DEF Spec
=============================================================================
