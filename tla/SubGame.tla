------------------------------ MODULE SubGame ------------------------------
(***************************************************************************)
(* One sub-game between two peers and no referee: two PeerRuntime threads, *)
(* each with its own truth, its own clock and its own mailbox, and calls   *)
(* between them that may be retried, duplicated, delayed, lost or given up *)
(* on.  The turn token travels with the turn message.                      *)
(*                                                                         *)
(* The model starts where `negotiate` has returned on both sides and ends  *)
(* when both summaries are built.  What the brain decides is left open:    *)
(* any decision, legal or not.                                             *)
(***************************************************************************)
EXTENDS OwnState, Phases

CONSTANTS
    Start,       \* where each role starts (positions.thief_start, cop_start)
    MaxFaults    \* bound: failed calls, slow answers and crashes per behaviour

ASSUME SubGameAssumption ==
    /\ Start \in [Role -> Cell]
    /\ MaxFaults \in Nat

VARIABLES
    own,       \* OwnGameState of each peer
    phase,     \* GamePhaseMachine of each peer
    pc,        \* where each runtime's thread stands
    owed,      \* the claim_response its next turn must carry
    kind,      \* what its last sealed turn was
    sent,      \* how many turns it has sealed
    out,       \* its last sealed turn message
    turns,     \* its inbox of turns
    wire,      \* copies of turns addressed to it, delayed in the network
    seen,      \* _seen_commits: the turns it has taken from the inbox
    result,    \* how it thinks the sub-game ended
    audits,    \* its inbox of audit reveals (the result each one claims)
    audit,     \* what its audit recorded about the opponent's claim
    faults     \* faults so far

sealVars == <<own, owed, kind, sent, out>>
mailVars == <<turns, wire, seen>>
endVars  == <<result, audits, audit>>
vars     == <<own, phase, pc, owed, kind, sent, out, turns, wire, seen,
              result, audits, audit, faults>>

Pc == {"act",        \* about to decide and seal a turn
       "send",       \* inside send_turn, retrying until acknowledged
       "wait",       \* polling the inbox of turns
       "reveal",     \* sending the audit reveal
       "collect",    \* waiting for the opponent's reveal
       "done",       \* summary built
       "dead"}       \* the process is gone

\* claim_response: none, {caught: false} or {caught: true}.
Answer == {"none", "denied", "caught"}

Kind == {"none", "turn", "survival", "concession", "caught"}

\* The code's (result, winner) pairs: capture/police, survival/thief,
\* timeout/own role, timeout/"-".
Verdict == {"open", "capture", "survival", "silence", "aborted"}

\* The commit of a turn is fresh per sealed record: `seq` stands for it.
Message == [seq : Nat, step : Nat, wall : SUBSET Cell, claim : SUBSET Cell,
            answer : Answer, win : BOOLEAN]

NoMessage == [seq |-> 0, step |-> 0, wall |-> {}, claim |-> {},
              answer |-> "none", win |-> FALSE]

Outcome(v) == CASE v \in {"capture", "survival"} -> v
                [] OTHER -> "timeout"

-----------------------------------------------------------------------------
Init ==
    /\ own = [p \in Role |-> FreshState(Start[p])]
    /\ phase = [p \in Role |-> "WAITING"]
    /\ pc = [p \in Role |-> IF p = "thief" THEN "act" ELSE "wait"]
    /\ owed = [p \in Role |-> "none"]
    /\ kind = [p \in Role |-> "none"]
    /\ sent = [p \in Role |-> 0]
    /\ out = [p \in Role |-> NoMessage]
    /\ turns = [p \in Role |-> <<>>]
    /\ wire = [p \in Role |-> {}]
    /\ seen = [p \in Role |-> {}]
    /\ result = [p \in Role |-> "open"]
    /\ audits = [p \in Role |-> <<>>]
    /\ audit = [p \in Role |-> "none"]
    /\ faults = 0

-----------------------------------------------------------------------------
(* Shared pieces of the handlers.                                          *)

Fault == faults < MaxFaults /\ faults' = faults + 1

\* phases.to along a path; a missing edge would leave the thread stuck here.
Walk(p, path) ==
    /\ LegalPath(phase[p], path)
    /\ phase' = [phase EXCEPT ![p] = PathEnd(phase[p], path)]

Goto(p, label) == pc' = [pc EXCEPT ![p] = label]

\* Apply, seal and hand over one turn: everything `send` does before the call.
Seal(p, s, k, claim, answer, win) ==
    /\ own' = [own EXCEPT ![p] = s]
    /\ kind' = [kind EXCEPT ![p] = k]
    /\ sent' = [sent EXCEPT ![p] = @ + 1]
    /\ out' = [out EXCEPT ![p] =
                 [seq |-> sent[p] + 1, step |-> s.step, wall |-> s.last,
                  claim |-> claim, answer |-> answer, win |-> win]]
    /\ owed' = [owed EXCEPT ![p] = "none"]
    /\ Goto(p, "send")

\* The cell the officer declares after acting: the wall it built, else its own.
CaptureClaim(p, s, d) ==
    IF p # "police" THEN {}
    ELSE IF d.move = "BARRIER" /\ s.last # {} THEN s.last
    ELSE {s.at}

\* Mutated form of IsDuplicate: every copy counts as a new turn.
NeverDuplicate(p, m) == FALSE

\* Has this exact turn already been applied?
IsDuplicate(p, m) == m.seq \in seen[p]

Fresh(p) == \E i \in 1 .. Len(turns[p]) : ~IsDuplicate(p, turns[p][i])

Deliver(p, m) == turns' = [turns EXCEPT ![p] = Append(@, m)]

\* TransportError reaches _play_one: no audit, winner "-".
Abort(p) ==
    /\ phase' = [phase EXCEPT ![p] = Failed(@)]
    /\ result' = [result EXCEPT ![p] = "aborted"]
    /\ Goto(p, "done")
    /\ UNCHANGED <<audits, audit>>

-----------------------------------------------------------------------------
(* Taking a turn.                                                          *)

\* A brain's decision, or standing still when the decision was illegal.
Play(p) ==
    /\ ~IsSealedIn(p, own[p])
    /\ \E d \in Decision :
         LET s   == IF IsLegal(p, own[p], d) THEN ApplyMove(p, own[p], d)
                    ELSE ApplyMove(p, own[p], Hold)
             win == ThiefSurvives(p, s)
         IN  Seal(p, s, IF win THEN "survival" ELSE "turn",
                  CaptureClaim(p, s, d), owed[p], win)

\* A sealed-in thief concedes, but a claim_response it owes goes out instead
\* of the admission.
Concede(p) ==
    /\ IsSealedIn(p, own[p])
    /\ Seal(p, ApplyMove(p, own[p], Hold), "concession", {},
            IF owed[p] = "none" THEN "caught" ELSE owed[p], FALSE)

TakeTurn(p) ==
    /\ pc[p] = "act"
    /\ Walk(p, <<"COMPUTING">>)
    /\ Play(p) \/ Concede(p)
    /\ UNCHANGED <<mailVars, endVars, faults>>

\* What follows once send_turn returns.
AfterSend(k) ==
    CASE k = "turn"                      -> <<"COMMITTING", "AWAITING_REVEAL">>
      [] k \in {"survival", "concession"} -> <<"COMMITTING", "AUDITING">>
      [] OTHER                           -> <<"AUDITING">>

SendReturns(p) ==
    /\ Walk(p, AfterSend(kind[p]))
    /\ Goto(p, IF kind[p] = "turn" THEN "wait" ELSE "reveal")
    /\ result' = [result EXCEPT ![p] =
                    CASE kind[p] = "turn"     -> @
                      [] kind[p] = "survival" -> "survival"
                      [] OTHER                -> "capture"]

\* The opponent's server queued the turn and its reply came back.
SendTurn(p) ==
    /\ pc[p] = "send"
    /\ pc[Opponent(p)] # "dead"
    /\ Deliver(Opponent(p), out[p])
    /\ SendReturns(p)
    /\ UNCHANGED <<sealVars, wire, seen, audits, audit, faults>>

\* One attempt failed: the turn was queued and only the reply was lost, or it
\* is delayed in the network, or it is gone.
LosesCall(p) ==
    LET q == Opponent(p)
    IN  \/ /\ pc[q] # "dead"
           /\ Deliver(q, out[p])
           /\ UNCHANGED wire
        \/ /\ wire' = [wire EXCEPT ![q] = @ \cup {out[p]}]
           /\ UNCHANGED turns
        \/ UNCHANGED <<turns, wire>>

\* Mutated form of RetrySend: a failed call is taken for a sent turn.
FireAndForget(p) ==
    /\ pc[p] = "send"
    /\ Fault
    /\ LosesCall(p)
    /\ SendReturns(p)
    /\ UNCHANGED <<sealVars, seen, audits, audit>>

RetrySend(p) ==
    /\ pc[p] = "send"
    /\ Fault
    /\ LosesCall(p)
    /\ UNCHANGED <<sealVars, phase, pc, seen, endVars>>

\* The connect timeout has passed after a failed attempt.
GiveUp(p) ==
    /\ pc[p] = "send"
    /\ \/ Fault /\ LosesCall(p)
       \/ pc[Opponent(p)] = "dead" /\ UNCHANGED <<turns, wire, faults>>
    /\ Abort(p)
    /\ UNCHANGED <<sealVars, seen>>

-----------------------------------------------------------------------------
(* Waiting for the opponent's turn.                                        *)

\* _consume: leave AWAITING_REVEAL, if the thread is there.
Verified(p) == IF phase[p] = "AWAITING_REVEAL" THEN <<"VERIFYING", "WAITING">> ELSE <<>>

\* Mutated form of Reading: the win claim is not looked at.
ReadingWithoutWin(p, m) ==
    IF m.answer = "caught" THEN "i_won"
    ELSE IF IsCaptured(own[p], m.claim) THEN "i_am_caught"
    ELSE "my_turn"

\* What applying m means, in the order _consume asks.
Reading(p, m) ==
    IF m.answer = "caught" THEN "i_won"
    ELSE IF m.win THEN "opponent_won"
    ELSE IF IsCaptured(own[p], m.claim) THEN "i_am_caught"
    ELSE "my_turn"

Ends(p, v) ==
    /\ result' = [result EXCEPT ![p] = v]
    /\ Walk(p, Verified(p) \o <<"AUDITING">>)
    /\ Goto(p, "reveal")
    /\ own' = [own EXCEPT ![p] = NoteBarrier(@, Head(turns[p]).wall)]
    /\ UNCHANGED <<owed, kind, sent, out>>

\* The honest admission, sent as a turn of its own.
SendFinal(p, noted) ==
    /\ Seal(p, ApplyMove(p, noted, Hold), "caught", {}, "caught", FALSE)
    /\ Walk(p, Verified(p))
    /\ UNCHANGED result

MyTurn(p, noted, m) ==
    /\ own' = [own EXCEPT ![p] = noted]
    /\ owed' = [owed EXCEPT ![p] = IF m.claim = {} THEN "none" ELSE "denied"]
    /\ Walk(p, Verified(p))
    /\ Goto(p, "act")
    /\ UNCHANGED <<kind, sent, out, result>>

Receive(p) ==
    /\ pc[p] = "wait"
    /\ turns[p] # <<>>
    /\ LET m     == Head(turns[p])
           noted == NoteBarrier(own[p], m.wall)
       IN  /\ ~IsDuplicate(p, m)
           /\ seen' = [seen EXCEPT ![p] = @ \cup {m.seq}]
           /\ \/ Reading(p, m) = "i_won" /\ Ends(p, "capture")
              \/ Reading(p, m) = "opponent_won" /\ Ends(p, "survival")
              \/ Reading(p, m) = "i_am_caught" /\ SendFinal(p, noted)
              \/ Reading(p, m) = "my_turn" /\ MyTurn(p, noted, m)
    /\ turns' = [turns EXCEPT ![p] = Tail(@)]
    /\ UNCHANGED <<wire, audits, audit, faults>>

\* A retried turn is dropped without touching the deadline.
DropDuplicate(p) ==
    /\ pc[p] = "wait"
    /\ turns[p] # <<>>
    /\ IsDuplicate(p, Head(turns[p]))
    /\ turns' = [turns EXCEPT ![p] = Tail(@)]
    /\ UNCHANGED <<sealVars, phase, pc, wire, seen, endVars, faults>>

\* Mutated form of Silent: the deadline does not run against a dead opponent.
SilentUnlessDead(p) == ~Fresh(p) /\ pc[Opponent(p)] \in {"reveal", "collect", "done"}

\* Nothing the opponent is still going to do can put a turn in the inbox.
Silent(p) == ~Fresh(p) /\ pc[Opponent(p)] \in {"reveal", "collect", "done", "dead"}

\* The turn deadline passes: rightly, or because the opponent was slow.
TurnTimeout(p) ==
    /\ pc[p] = "wait"
    /\ \/ Silent(p) /\ UNCHANGED faults
       \/ Fault
    /\ phase' = [phase EXCEPT ![p] = Failed(@)]
    /\ result' = [result EXCEPT ![p] = "silence"]
    /\ Goto(p, "reveal")
    /\ UNCHANGED <<sealVars, mailVars, audits, audit>>

-----------------------------------------------------------------------------
(* The mutual audit: reveal best-effort, then take what is in the inbox.   *)

Reveals(p, copies) == audits' = [audits EXCEPT ![Opponent(p)] = @ \o copies]

Reveal(p) ==
    /\ pc[p] = "reveal"
    /\ LET claim == Outcome(result[p])
           alive == pc[Opponent(p)] # "dead"
       IN  \/ alive /\ Reveals(p, <<claim>>) /\ UNCHANGED faults
           \/ alive /\ Reveals(p, <<claim, claim>>) /\ Fault
           \/ UNCHANGED audits /\ Fault
           \/ ~alive /\ UNCHANGED <<audits, faults>>
    /\ Goto(p, "collect")
    /\ UNCHANGED <<sealVars, phase, mailVars, result, audit>>

\* The runtime reaches GAME_OVER unless it had already failed.
Settle(p, verdict) ==
    /\ audit' = [audit EXCEPT ![p] = verdict]
    /\ phase[p] \notin Terminal => Can(phase[p], "GAME_OVER")
    /\ phase' = [phase EXCEPT ![p] = IF @ \in Terminal THEN @ ELSE "GAME_OVER"]
    /\ Goto(p, "done")
    /\ UNCHANGED <<sealVars, mailVars, result>>

Collect(p) ==
    /\ pc[p] = "collect"
    /\ audits[p] # <<>>
    /\ Settle(p, IF Head(audits[p]) = Outcome(result[p]) THEN "agree" ELSE "disagree")
    /\ audits' = [audits EXCEPT ![p] = Tail(@)]
    /\ UNCHANGED faults

\* The opponent's reveal is not about to come: it is done, it is gone, or it
\* still has a whole turn deadline to sit out.
NoReveal(p) ==
    LET q == Opponent(p)
    IN  pc[q] \in {"collect", "done", "dead"} \/ (pc[q] = "wait" /\ ~Fresh(q))

AuditTimeout(p) ==
    /\ pc[p] = "collect"
    /\ audits[p] = <<>>
    /\ \/ NoReveal(p) /\ UNCHANGED faults
       \/ Fault
    /\ Settle(p, "absent")
    /\ UNCHANGED audits

-----------------------------------------------------------------------------
(* The network and the machine.                                            *)

LateDelivery(p) ==
    /\ pc[p] # "dead"
    /\ \E m \in wire[p] :
         /\ Deliver(p, m)
         /\ wire' = [wire EXCEPT ![p] = @ \ {m}]
    /\ UNCHANGED <<sealVars, phase, pc, seen, endVars, faults>>

Crash(p) ==
    /\ pc[p] \notin {"done", "dead"}
    /\ Fault
    /\ Goto(p, "dead")
    /\ UNCHANGED <<sealVars, phase, mailVars, endVars>>

Over == \A p \in Role : pc[p] \in {"done", "dead"}

Terminated == Over /\ UNCHANGED vars

\* The steps a live thread takes by itself.
Progress(p) ==
    \/ TakeTurn(p)
    \/ SendTurn(p)
    \/ GiveUp(p)
    \/ Receive(p)
    \/ DropDuplicate(p)
    \/ TurnTimeout(p)
    \/ Reveal(p)
    \/ Collect(p)
    \/ AuditTimeout(p)

Next ==
    \/ \E p \in Role : Progress(p) \/ RetrySend(p) \/ LateDelivery(p) \/ Crash(p)
    \/ Terminated

Spec == Init /\ [][Next]_vars

\* Every thread keeps running: blocking calls return or time out.
FairSpec == Spec /\ \A p \in Role : WF_vars(Progress(p))
-----------------------------------------------------------------------------
(* Correctness.                                                            *)

TypeOK ==
    /\ own \in [Role -> State]
    /\ phase \in [Role -> Phase]
    /\ pc \in [Role -> Pc]
    /\ owed \in [Role -> Answer]
    /\ kind \in [Role -> Kind]
    /\ sent \in [Role -> Nat]
    /\ out \in [Role -> Message]
    /\ turns \in [Role -> Seq(Message)]
    /\ wire \in [Role -> SUBSET Message]
    /\ seen \in [Role -> SUBSET Nat]
    /\ result \in [Role -> Verdict]
    /\ audits \in [Role -> Seq({"capture", "survival", "timeout"})]
    /\ audit \in [Role -> {"none", "agree", "disagree", "absent"}]
    /\ faults \in 0 .. MaxFaults

\* No thread ever asks the phase machine for an edge it does not have: at
\* every point of the runtime the phase it is in admits the path it is about
\* to take, so PhaseError is unreachable whatever the opponent and the
\* network do (runtime.py drives GamePhaseMachine.to from eight places).
NoPhaseError ==
    \A p \in Role :
        /\ pc[p] = "act"  => LegalPath(phase[p], <<"COMPUTING">>)
        /\ pc[p] = "send" => LegalPath(phase[p], AfterSend(kind[p]))
        /\ pc[p] = "wait" => /\ LegalPath(phase[p], Verified(p) \o <<"COMPUTING">>)
                             /\ LegalPath(phase[p], Verified(p) \o <<"AUDITING">>)
        /\ pc[p] \in {"reveal", "collect"} /\ phase[p] # "TECHNICAL_LOSS"
              => LegalPath(phase[p], <<"GAME_OVER">>)

\* Retries, lost replies and late copies never make a peer apply a turn
\* twice, skip one, or apply them out of order: what it has taken is exactly
\* the prefix 1..n of what the other sealed, with at most the newest missing.
ExactlyOnceInOrder ==
    \A p \in Role :
        LET q == Opponent(p)
        IN  seen[p] = 1 .. sent[q] \/ seen[p] = 1 .. (sent[q] - 1)

\* There is one turn token: a peer seals a turn only after taking every turn
\* of the other, and the thief opens.
OneToken ==
    /\ sent["thief"] - sent["police"] \in {0, 1}
    /\ \A p \in Role : pc[p] = "act" => seen[p] = 1 .. sent[Opponent(p)]

\* The failure phases.py is written against: both peers politely waiting for
\* each other forever.  While both wait, one has an unread turn in its inbox.
NoMutualWait == (\A p \in Role : pc[p] = "wait") => \E p \in Role : Fresh(p)

\* A barrier is public: when the thief decides, it knows every wall that
\* stands, and the walls it believes in are never more than those that stand.
ThiefKnowsEveryWall ==
    /\ own["thief"].walls \subseteq own["police"].walls
    /\ pc["thief"] = "act" => own["thief"].walls = own["police"].walls

\* The board as a referee would see it: the thief on the cell the officer
\* named, inside a wall, or with no step left.
ThiefTaken ==
    LET c == own["thief"].at
        w == own["police"].walls
    IN  c \in w \/ c \in out["police"].claim \/ Neighbors(c, w) = {}

\* Neither peer records a capture unless the thief really is taken on the
\* board no peer can see whole; and neither records a survival unless the
\* thief really made the threshold and is not walled in, whatever was lost,
\* duplicated or delayed on the way.
CaptureIsReal == (\E p \in Role : result[p] = "capture") => ThiefTaken

SurvivalIsReal ==
    (\E p \in Role : result[p] = "survival") =>
        /\ own["thief"].step >= SurvivalThreshold
        /\ own["thief"].at \notin own["police"].walls
        /\ Neighbors(own["thief"].at, own["police"].walls) # {}

\* When nothing failed, an end both sides can see (a survival, or an answered
\* claim) is recorded alike by both, and both audits say so.
SeenEndsAgree ==
    (Over /\ faults = 0 /\ kind["thief"] \in {"survival", "caught"}) =>
        /\ result["thief"] = result["police"]
        /\ \A p \in Role : audit[p] = "agree"

\* Every sealed turn carries a step number its sender has not used before:
\* a strict opponent takes a repeated (role, step) for a retry and refuses it.
StepAlwaysAdvances ==
    [][\A p \in Role : sent'[p] # sent[p] => out'[p].step > out[p].step]_vars

\* turn_sender.py, concede: "Admit an enclosure capture: honest, immediate".
EnclosureAdmitted == kind["thief"] = "concession" => out["thief"].answer = "caught"

\* The thief's own last turn settles the chase: nobody else can.
TrueVerdict ==
    CASE kind["thief"] = "survival"               -> "survival"
      [] kind["thief"] \in {"concession", "caught"} -> "capture"
      [] OTHER                                    -> "open"

\* Two private truths and an unreliable network between them implement the
\* refereed chase on one shared board: the peers' states are its pieces, the
\* token is with the thief when both have sealed equally many turns.
Refereed == INSTANCE Chase WITH
    turn    <- IF sent["thief"] = sent["police"] THEN "thief" ELSE "police",
    thief   <- own["thief"].at,
    police  <- own["police"].at,
    walls   <- own["police"].walls,
    claim   <- out["police"].claim,
    clock   <- own["thief"].step,
    verdict <- TrueVerdict

ImplementsChase == Refereed!Spec

\* Every sub-game ends on both sides: no wait is without a deadline.
EverySubGameEnds == <>Over
=============================================================================
