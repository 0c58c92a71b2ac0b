------------------------------- MODULE Series -------------------------------
(***************************************************************************)
(* A whole series: two Orchestrators that play sub-game after sub-game     *)
(* with alternating roles, greet each other before each one, reveal their  *)
(* logs after it, and settle at the end.  Every runtime is new, but the    *)
(* inboxes of the server outlive it: mail of one sub-game may be read in   *)
(* another.                                                                *)
(*                                                                         *)
(* What a turn does to the board is SubGame's business; here a turn only   *)
(* passes the token or ends the sub-game.                                  *)
(***************************************************************************)
EXTENDS Naturals, Sequences

CONSTANTS
    NumGames,            \* league.num_games
    SurvivalThreshold,   \* the thief's turn that claims survival
    Numbered,            \* the peers whose greetings declare sub_game_number
    MaxFaults            \* bound: failed calls, slow answers and crashes

Peer == {"home", "away"}

ASSUME SeriesAssumption ==
    /\ NumGames \in Nat \ {0}
    /\ SurvivalThreshold \in Nat \ {0}
    /\ Numbered \subseteq Peer
    /\ MaxFaults \in Nat

VARIABLES
    game,       \* the sub-game each peer is in; NumGames + 1 when settling
    pc,         \* where its thread stands
    met,        \* the sub-game of the greeting it accepted (0: none yet)
    made,       \* turns it has sealed in this sub-game
    out,        \* its last sealed turn
    seen,       \* _seen_commits of this sub-game's runtime
    result,     \* how it thinks this sub-game ended
    rows,       \* the summaries so far
    verdict,    \* what came of the series consensus
    greetings,  \* inbox of agreements
    turns,      \* inbox of turns
    audits,     \* inbox of reveals, and of the consensus envelope
    wire,       \* mail for it that is delayed in the network
    faults      \* faults so far

playVars == <<game, met, made, out, seen, rows, verdict>>
mailVars == <<greetings, turns, audits, wire>>
vars == <<game, pc, met, made, out, seen, result, rows, verdict,
          greetings, turns, audits, wire, faults>>

Other(p) == CHOOSE q \in Peer : q # p

\* home's natural role is the thief's.  Roles alternate with the index.
RoleFor(p, g) == IF (p = "home") = (g % 2 = 1) THEN "thief" ELSE "police"

Calling == {"greet",      \* pushing its signed agreement
            "send",       \* pushing a turn
            "reveal",     \* pushing its sealed log
            "settle"}     \* pushing the consensus envelope
Waiting == {"hello",      \* for the opponent's agreement
            "wait",       \* for its turn
            "collect",    \* for its reveal
            "verdict"}    \* for its envelope
Pc == Calling \cup Waiting \cup {"act", "done", "dead"}

Box == {"greetings", "turns", "audits"}

Kind == {"none", "greeting", "turn", "caught", "survival", "reveal", "consensus"}

\* A message carries the sub-game it was made for, though only a greeting
\* declares it.  A turn's (game, seq) stands for its commit.
Mail == [kind : Kind, game : Nat, seq : Nat]

Letter(k, g, n) == [kind |-> k, game |-> g, seq |-> n]

Verdict == {"open", "capture", "survival", "silence", "aborted"}

\* heard: the sub-game of the reveal the audit was run on (0: none came);
\* taken: the turns its TurnHandler had applied.
Row == [result : Verdict, met : Nat, heard : Nat, taken : SUBSET Mail]

-----------------------------------------------------------------------------
Init ==
    /\ game = [p \in Peer |-> 1]
    /\ pc = [p \in Peer |-> "greet"]
    /\ met = [p \in Peer |-> 0]
    /\ made = [p \in Peer |-> 0]
    /\ out = [p \in Peer |-> Letter("none", 0, 0)]
    /\ seen = [p \in Peer |-> {}]
    /\ result = [p \in Peer |-> "open"]
    /\ rows = [p \in Peer |-> <<>>]
    /\ verdict = [p \in Peer |-> "none"]
    /\ greetings = [p \in Peer |-> <<>>]
    /\ turns = [p \in Peer |-> <<>>]
    /\ audits = [p \in Peer |-> <<>>]
    /\ wire = [p \in Peer |-> {}]
    /\ faults = 0

Goto(p, label) == pc' = [pc EXCEPT ![p] = label]

Fault == faults < MaxFaults /\ faults' = faults + 1

\* Mutated form of IsLast: range(1, total + 2).
IsOnePastLast(g) == g > NumGames

IsLast(g) == g = NumGames

\* The summary of this sub-game is appended; a new runtime, or the settlement.
CloseSubGame(p, r, heard) ==
    /\ rows' = [rows EXCEPT ![p] =
                  Append(@, [result |-> r, met |-> met[p], heard |-> heard,
                             taken |-> seen[p]])]
    /\ game' = [game EXCEPT ![p] = @ + 1]
    /\ Goto(p, IF IsLast(game[p]) THEN "settle" ELSE "greet")
    /\ met' = [met EXCEPT ![p] = 0]
    /\ made' = [made EXCEPT ![p] = 0]
    /\ seen' = [seen EXCEPT ![p] = {}]
    /\ result' = [result EXCEPT ![p] = "open"]
    /\ UNCHANGED <<out, verdict>>

\* A ChaseError reaches _play_one: a technical loss, no audit, next sub-game.
Abort(p) == CloseSubGame(p, "aborted", 0)

-----------------------------------------------------------------------------
(* Outbound calls: _call_with_retry, whatever is being pushed.             *)

Outgoing(p) ==
    CASE pc[p] = "greet"  -> Letter("greeting", game[p], 0)
      [] pc[p] = "send"   -> out[p]
      [] pc[p] = "reveal" -> Letter("reveal", game[p], 0)
      [] OTHER            -> Letter("consensus", game[p], 0)

BoxOf(k) == CASE k = "greeting"              -> "greetings"
              [] k \in {"reveal", "consensus"} -> "audits"
              [] OTHER                       -> "turns"

\* The opponent's server queues the message.
Deliver(q, m) ==
    /\ greetings' = IF BoxOf(m.kind) = "greetings"
                    THEN [greetings EXCEPT ![q] = Append(@, m)] ELSE greetings
    /\ turns' = IF BoxOf(m.kind) = "turns"
                THEN [turns EXCEPT ![q] = Append(@, m)] ELSE turns
    /\ audits' = IF BoxOf(m.kind) = "audits"
                 THEN [audits EXCEPT ![q] = Append(@, m)] ELSE audits

\* What a turn that ends the sub-game says of it.
Ending(k) == IF k = "caught" THEN "capture" ELSE "survival"

\* What the thread does once the call is over.
Returned(p) ==
    /\ Goto(p, CASE pc[p] = "greet"  -> "hello"
                 [] pc[p] = "send"   -> IF out[p].kind = "turn" THEN "wait" ELSE "reveal"
                 [] pc[p] = "reveal" -> "collect"
                 [] OTHER            -> "verdict")
    /\ result' = [result EXCEPT ![p] =
                    IF pc[p] = "send" /\ out[p].kind # "turn" THEN Ending(out[p].kind) ELSE @]
    /\ UNCHANGED playVars

Push(p) ==
    /\ pc[p] \in Calling
    /\ pc[Other(p)] # "dead"
    /\ Deliver(Other(p), Outgoing(p))
    /\ Returned(p)
    /\ UNCHANGED <<wire, faults>>

\* One attempt failed: only the reply was lost, or the request is delayed in
\* the network, or it is gone.
LosesCall(p) ==
    LET q == Other(p)
    IN  \/ /\ pc[q] # "dead"
           /\ Deliver(q, Outgoing(p))
           /\ UNCHANGED wire
        \/ /\ wire' = [wire EXCEPT ![q] = @ \cup {Outgoing(p)}]
           /\ UNCHANGED <<greetings, turns, audits>>
        \/ UNCHANGED mailVars

RetryPush(p) ==
    /\ pc[p] \in Calling
    /\ Fault
    /\ LosesCall(p)
    /\ UNCHANGED <<playVars, pc, result>>

\* The time allowed for retries is over.  A reveal or an envelope that could
\* not be sent is not an error, anything else is a TransportError.
GiveUp(p) ==
    /\ pc[p] \in Calling
    /\ \/ Fault /\ LosesCall(p)
       \/ pc[Other(p)] \in {"done", "dead"} /\ UNCHANGED <<mailVars, faults>>
    /\ IF pc[p] \in {"reveal", "settle"} THEN Returned(p) ELSE Abort(p)

-----------------------------------------------------------------------------
(* Opening a sub-game: exchange_agreement waits for a greeting.            *)

\* Mutated forms of IsStaleGreeting: no look at the number; theirs <= expected.
NeverStale(p, m) == FALSE
StaleUnlessNewer(p, m) == Other(p) \in Numbered /\ m.game <= game[p]

\* An older sub-game's greeting.  The signatures in `seen` are those of
\* greetings dropped in this very wait, so the repeat of one is stale anyway.
IsStaleGreeting(p, m) == Other(p) \in Numbered /\ m.game < game[p]

DropGreeting(p) ==
    /\ pc[p] = "hello"
    /\ greetings[p] # <<>>
    /\ IsStaleGreeting(p, Head(greetings[p]))
    /\ greetings' = [greetings EXCEPT ![p] = Tail(@)]
    /\ UNCHANGED <<playVars, pc, result, turns, audits, wire, faults>>

\* The terms are the same on both sides, so verify_peer passes; the thief opens.
AcceptGreeting(p) ==
    /\ pc[p] = "hello"
    /\ greetings[p] # <<>>
    /\ ~IsStaleGreeting(p, Head(greetings[p]))
    /\ met' = [met EXCEPT ![p] = Head(greetings[p]).game]
    /\ greetings' = [greetings EXCEPT ![p] = Tail(@)]
    /\ Goto(p, IF RoleFor(p, game[p]) = "thief" THEN "act" ELSE "wait")
    /\ UNCHANGED <<game, made, out, seen, result, rows, verdict,
                   turns, audits, wire, faults>>

-----------------------------------------------------------------------------
(* Playing.                                                                *)

Seal(p, k) ==
    /\ made' = [made EXCEPT ![p] = @ + 1]
    /\ out' = [out EXCEPT ![p] = Letter(k, game[p], made[p] + 1)]
    /\ Goto(p, "send")

\* A turn; the thief may have to concede, and at its threshold it has survived.
TakeTurn(p) ==
    /\ pc[p] = "act"
    /\ IF RoleFor(p, game[p]) = "thief"
       THEN \/ Seal(p, IF made[p] + 1 < SurvivalThreshold THEN "turn" ELSE "survival")
            \/ Seal(p, "caught")
       ELSE Seal(p, "turn")
    /\ UNCHANGED <<game, met, seen, result, rows, verdict, mailVars, faults>>

IsDuplicate(p, m) == m \in seen[p]

\* What a turn means to its reader: it ends the game, it may name the cell the
\* reader is on when an officer sent it, or it passes the token.
ReceiveTurn(p) ==
    /\ pc[p] = "wait"
    /\ turns[p] # <<>>
    /\ LET m == Head(turns[p])
       IN  /\ ~IsDuplicate(p, m)
           /\ seen' = [seen EXCEPT ![p] = @ \cup {m}]
           /\ \/ /\ m.kind \in {"caught", "survival"}
                 /\ result' = [result EXCEPT ![p] = Ending(m.kind)]
                 /\ Goto(p, "reveal")
                 /\ UNCHANGED <<made, out>>
              \/ /\ m.kind = "turn" /\ RoleFor(Other(p), m.game) = "police"
                 /\ Seal(p, "caught")
                 /\ UNCHANGED result
              \/ /\ m.kind = "turn"
                 /\ Goto(p, "act")
                 /\ UNCHANGED <<made, out, result>>
    /\ turns' = [turns EXCEPT ![p] = Tail(@)]
    /\ UNCHANGED <<game, met, rows, verdict, greetings, audits, wire, faults>>

DropTurn(p) ==
    /\ pc[p] = "wait"
    /\ turns[p] # <<>>
    /\ IsDuplicate(p, Head(turns[p]))
    /\ turns' = [turns EXCEPT ![p] = Tail(@)]
    /\ UNCHANGED <<playVars, pc, result, greetings, audits, wire, faults>>

-----------------------------------------------------------------------------
(* The reveal, and the settlement through the same inbox.                  *)

Collect(p) ==
    /\ pc[p] = "collect"
    /\ audits[p] # <<>>
    /\ CloseSubGame(p, result[p], Head(audits[p]).game)
    /\ audits' = [audits EXCEPT ![p] = Tail(@)]
    /\ UNCHANGED <<greetings, turns, wire, faults>>

Outcome(v) == IF v \in {"capture", "survival"} THEN v ELSE "timeout"

\* The group that held the winner's role; "-" when nobody won.
WinnerGroup(p, g) ==
    LET r == rows[p][g].result
        winner == IF r = "capture" THEN "police"
                  ELSE IF r = "survival" THEN "thief"
                  ELSE IF r = "silence" THEN RoleFor(p, g) ELSE "-"
    IN  IF winner = "-" THEN "-"
        ELSE CHOOSE q \in Peer : RoleFor(q, g) = winner

\* The facts the series digest covers; roles and scores follow from them.  The
\* opponent's group is known from any greeting of the series.
Filing(p) ==
    [known |-> \E g \in DOMAIN rows[p] : rows[p][g].met # 0,
     games |-> [g \in DOMAIN rows[p] |-> <<Outcome(rows[p][g].result), WinnerGroup(p, g)>>]]

\* The envelope in hand is the opponent's filing, unless it is a leftover reveal.
Judge(p, m) ==
    IF m.kind # "consensus" THEN "no_digest"
    ELSE IF Filing(p) = Filing(Other(p)) THEN "agreed" ELSE "differs"

Done(p, v) ==
    /\ verdict' = [verdict EXCEPT ![p] = v]
    /\ Goto(p, "done")
    /\ UNCHANGED <<game, met, made, out, seen, result, rows>>

Settle(p) ==
    /\ pc[p] = "verdict"
    /\ audits[p] # <<>>
    /\ Done(p, Judge(p, Head(audits[p])))
    /\ audits' = [audits EXCEPT ![p] = Tail(@)]
    /\ UNCHANGED <<greetings, turns, wire, faults>>

-----------------------------------------------------------------------------
(* Waits that end with nothing: 60 s for a greeting, 180 s for a turn,     *)
(* 10 s for a reveal or an envelope.                                       *)

\* There is something in the inbox for which p's thread is waiting.
HasMail(p) ==
    \/ /\ pc[p] = "hello"
       /\ \E i \in DOMAIN greetings[p] : ~IsStaleGreeting(p, greetings[p][i])
    \/ /\ pc[p] = "wait"
       /\ \E i \in DOMAIN turns[p] : ~IsDuplicate(p, turns[p][i])
    \/ pc[p] \in {"collect", "verdict"} /\ audits[p] # <<>>

\* p's thread is about to do something other than run into a deadline.
Busy(p) == pc[p] \in Calling \cup {"act"} \/ HasMail(p)

\* Mutated form of Overdue: nobody is given up on who is still there.
OverdueUnlessThere(p, shorter) == pc[Other(p)] \in {"done", "dead"}

\* Without a fault a deadline passes only when the opponent is not about to
\* act, and not sitting out a shorter deadline than p's.
Overdue(p, shorter) == ~Busy(Other(p)) /\ pc[Other(p)] \notin shorter

GreetingTimeout(p) ==
    /\ pc[p] = "hello"
    /\ ~HasMail(p)
    /\ \/ Overdue(p, {"collect", "verdict"}) /\ UNCHANGED faults
       \/ Fault
    /\ Abort(p)
    /\ UNCHANGED mailVars

TurnTimeout(p) ==
    /\ pc[p] = "wait"
    /\ ~HasMail(p)
    /\ \/ Overdue(p, {}) /\ UNCHANGED faults
       \/ Fault
    /\ result' = [result EXCEPT ![p] = "silence"]
    /\ Goto(p, "reveal")
    /\ UNCHANGED <<playVars, mailVars>>

AuditTimeout(p) ==
    /\ pc[p] \in {"collect", "verdict"}
    /\ ~HasMail(p)
    /\ \/ Overdue(p, {}) /\ UNCHANGED faults
       \/ Fault
    /\ IF pc[p] = "collect" THEN CloseSubGame(p, result[p], 0)
                            ELSE Done(p, "no_reply")
    /\ UNCHANGED mailVars

-----------------------------------------------------------------------------
(* The network and the machine.                                            *)

LateDelivery(p) ==
    /\ pc[p] # "dead"
    /\ \E m \in wire[p] : Deliver(p, m) /\ wire' = [wire EXCEPT ![p] = @ \ {m}]
    /\ UNCHANGED <<playVars, pc, result, faults>>

Crash(p) ==
    /\ pc[p] \notin {"done", "dead"}
    /\ Fault
    /\ Goto(p, "dead")
    /\ UNCHANGED <<playVars, result, mailVars>>

Over == \A p \in Peer : pc[p] \in {"done", "dead"}

Progress(p) ==
    \/ Push(p)
    \/ GiveUp(p)
    \/ DropGreeting(p)
    \/ AcceptGreeting(p)
    \/ TakeTurn(p)
    \/ ReceiveTurn(p)
    \/ DropTurn(p)
    \/ Collect(p)
    \/ Settle(p)
    \/ GreetingTimeout(p)
    \/ TurnTimeout(p)
    \/ AuditTimeout(p)

Next ==
    \/ \E p \in Peer : Progress(p) \/ RetryPush(p) \/ LateDelivery(p) \/ Crash(p)
    \/ Over /\ UNCHANGED vars

Spec == Init /\ [][Next]_vars

\* Every blocking call of the code returns or times out.
FairSpec == Spec /\ \A p \in Peer : WF_vars(Progress(p))
-----------------------------------------------------------------------------
(* Correctness.                                                            *)

TypeOK ==
    /\ game \in [Peer -> 1 .. NumGames + 1]
    /\ pc \in [Peer -> Pc]
    /\ met \in [Peer -> Nat]
    /\ made \in [Peer -> Nat]
    /\ out \in [Peer -> Mail]
    /\ seen \in [Peer -> SUBSET Mail]
    /\ result \in [Peer -> Verdict]
    /\ rows \in [Peer -> Seq(Row)]
    /\ verdict \in [Peer -> {"none", "agreed", "differs", "no_digest", "no_reply"}]
    /\ greetings \in [Peer -> Seq(Mail)]
    /\ turns \in [Peer -> Seq(Mail)]
    /\ audits \in [Peer -> Seq(Mail)]
    /\ wire \in [Peer -> SUBSET Mail]
    /\ faults \in 0 .. MaxFaults

\* Two peers that are both past the handshake are in the same sub-game and
\* hold opposite roles, whatever was lost, repeated, delayed or timed out and
\* however far one had fallen behind (mcp_client.py, exchange_agreement, and
\* role_for: "they always disagree about who is the officer").
Playing(p) == met[p] # 0

SamePlay ==
    (\A p \in Peer : Playing(p)) =>
        /\ game["home"] = game["away"]
        /\ RoleFor("home", game["home"]) # RoleFor("away", game["away"])

\* When no call failed and nobody was slow, no leftover is ever read: every
\* sub-game is decided by play, every audit is run on the right log, and both
\* sides file the same series and confirm it (sdk.py, _settle_series).
CleanSeries ==
    faults = 0 =>
        \A p \in Peer :
            /\ \A g \in DOMAIN rows[p] : /\ rows[p][g].result \in {"capture", "survival"}
                                         /\ rows[p][g].met = g
                                         /\ rows[p][g].heard = g
            /\ pc[p] = "done" => verdict[p] = "agreed"

\* Whatever happens, each side that stays alive finishes its series
\* (orchestrator.py, play_series: every wait is bounded).
SeriesEnds == <>Over

\* No turn is applied in two sub-games (runtime.py, _is_duplicate: "Has this
\* exact turn already been applied?").
TurnAppliedOnce ==
    \A p \in Peer : \A g \in DOMAIN rows[p] : rows[p][g].taken \cap seen[p] = {}
=============================================================================
