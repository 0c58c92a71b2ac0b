----------------------------- MODULE SubGameInv -----------------------------
(***************************************************************************)
(* Inductive strengthenings of SubGame's safety invariants: what TLC       *)
(* checks on the small instances and SubGameProofs proves for all.         *)
(***************************************************************************)
EXTENDS SubGame

\* Whose turn it is, by the turns sealed so far; and how far a peer has read.
OnMove(p) == IF p = "thief" THEN sent["thief"] = sent["police"]
             ELSE sent["thief"] = sent["police"] + 1

CaughtUp(p) == seen[p] = 1 .. sent[Opponent(p)]

Behind(p) == sent[Opponent(p)] # 0 /\ seen[p] = 1 .. (sent[Opponent(p)] - 1)

Queued(p) == {turns[p][i] : i \in 1 .. Len(turns[p])}

\* Copies of turns, wherever they are: none is from the future, and a copy of
\* the newest turn is the turn itself.
Genuine(p, m) ==
    /\ m.seq \in 1 .. sent[Opponent(p)]
    /\ m.seq = sent[Opponent(p)] => m = out[Opponent(p)]

\* The strengthening behind ExactlyOnceInOrder, OneToken and NoMutualWait:
\* who is behind is on move, who is on move and not acting has not read yet,
\* and a turn its sender has let go of is in the reader's inbox.
PeerMailInv(p) ==
    /\ CaughtUp(p) \/ Behind(p)
    /\ Behind(p) => OnMove(p)
    /\ pc[p] = "act" => CaughtUp(p) /\ OnMove(p)
    /\ pc[p] \in {"send", "wait"} /\ OnMove(p) => Behind(p)
    /\ pc[p] = "send" => sent[p] # 0
    /\ out[p].seq = sent[p]
    /\ \A m \in wire[p] \cup Queued(p) : Genuine(p, m)
    /\ pc[Opponent(p)] = "wait" /\ Behind(p) =>
          \E m \in Queued(p) : m.seq = sent[Opponent(p)]

MailInv ==
    /\ sent["thief"] - sent["police"] \in {0, 1}
    /\ \A p \in Role : PeerMailInv(p)

\* The strengthening behind NoPhaseError.
PhaseInv ==
    \A p \in Role :
        /\ pc[p] = "act"  => phase[p] = "WAITING"
        /\ pc[p] = "send" => \/ kind[p] = "caught" /\ phase[p] = "WAITING"
                             \/ /\ kind[p] \in {"turn", "survival", "concession"}
                                /\ phase[p] = "COMPUTING"
        /\ pc[p] = "wait" => phase[p] \in {"WAITING", "AWAITING_REVEAL"}
        /\ pc[p] \in {"reveal", "collect"} => phase[p] \in {"AUDITING", "TECHNICAL_LOSS"}

\* The strengthening behind ThiefKnowsEveryWall: only the officer builds, and
\* what the thief does not know yet is what the unread turn declares.
WallInv ==
    /\ own["thief"].last = {}
    /\ out["thief"].wall = {}
    /\ own["police"].last \subseteq own["police"].walls
    /\ own["thief"].walls \subseteq own["police"].walls
    /\ own["police"].walls \subseteq own["thief"].walls \cup out["police"].wall
    /\ out["police"].wall \subseteq own["police"].walls
    /\ CaughtUp("thief") => own["thief"].walls = own["police"].walls

\* The strengthening behind CaptureIsReal, SurvivalIsReal and ImplementsChase:
\* what a turn may say and whose it then is,
TurnInv ==
    /\ out["thief"].claim = {} /\ owed["police"] = "none"
    /\ owed["thief"] # "caught" /\ out["police"].answer # "caught"
    /\ ~out["police"].win /\ kind["police"] \in {"none", "turn"}
    /\ out["thief"].win <=> kind["thief"] = "survival"
    /\ out["thief"].answer = "caught" => kind["thief"] \in {"concession", "caught"}
    /\ kind["thief"] = "caught" => out["thief"].answer = "caught"

\* that nobody decides once a final turn has told it not to,
MoveInv ==
    /\ pc["thief"] \in {"act", "wait"} => kind["thief"] \in {"none", "turn"}
    /\ pc["thief"] = "act" => own["thief"].at \notin out["police"].claim
    /\ pc["police"] = "act" => ~out["thief"].win /\ out["thief"].answer # "caught"

\* and that a final turn tells the truth and goes on doing so.
EndInv ==
    /\ kind["thief"] = "concession" =>
          own["thief"].at \in own["police"].walls
              \/ Neighbors(own["thief"].at, own["police"].walls) = {}
    /\ kind["thief"] = "caught" => own["thief"].at \in out["police"].claim
    /\ kind["thief"] = "survival" =>
          own["thief"].step >= SurvivalThreshold /\ own["thief"].at \notin own["police"].walls
    /\ \A p \in Role : /\ result[p] = "capture" => kind["thief"] \in {"concession", "caught"}
                       /\ result[p] = "survival" => kind["thief"] = "survival"

\* The strengthening behind the quota: the officer knows the walls it built and
\* no others.
QuotaInv ==
    /\ IsFiniteSet(own["police"].walls)
    /\ own["police"].built = Cardinality(own["police"].walls)

\* Where every step can be taken back, a survivor has the cell it came from to
\* step back to.
ExitInv == kind["thief"] = "survival" => Neighbors(own["thief"].at, own["police"].walls) # {}

\* The strengthening behind SeenEndsAgree.  While nothing fails, a turn is in
\* its sender's hands or in the reader's inbox, nobody leaves the turn loop
\* before the thief's final turn, and that turn and then each reveal reach the
\* other before it stops waiting for them.
Final == kind["thief"] \in {"survival", "caught"}
Ending == IF kind["thief"] = "survival" THEN "survival" ELSE "capture"

PeerEnds(p) ==
    /\ pc[p] \in {"reveal", "collect", "done"} => result[p] = Ending
    /\ pc[p] = "done" => audit[p] = "agree"
    /\ pc[p] # "done" =>
          audits[p] = IF pc[Opponent(p)] \in {"collect", "done"} THEN <<Ending>> ELSE <<>>

InHand(p) ==
    /\ pc[p] # "dead" /\ wire[p] = {}
    /\ pc[p] = "send" => /\ ~CaughtUp(Opponent(p))
                         /\ \A m \in Queued(Opponent(p)) : m.seq # sent[p]

Clean ==
    /\ \A p \in Role : InHand(p)
    /\ ~Final => \A p \in Role : pc[p] \in {"act", "send", "wait"} /\ audits[p] = <<>>
    /\ Final => /\ pc["thief"] \notin {"act", "wait"} /\ pc["police"] \notin {"act", "send"}
                /\ OnMove("police")
                /\ \A p \in Role : PeerEnds(p)
    /\ Final /\ pc["thief"] # "send" /\ pc["police"] = "wait" =>
          \E m \in Queued("police") : m.seq = sent["thief"]

CleanInv == faults = 0 /\ kind["thief"] # "concession" => Clean
=============================================================================
