------------------------------- MODULE Ledger -------------------------------
(***************************************************************************)
(* What two groups write down of a series, each for itself: how every      *)
(* sub-game ended (peer/runtime, peer/orchestrator), what the audit of the *)
(* revealed logs found (peer/audit), the consensus on the series           *)
(* (peer/consensus_exchange) and the final report (report/emit).           *)
(*                                                                         *)
(* How a sub-game is played is SubGame's business and how the two keep in  *)
(* step is Series'.  Here it ends in one of the ways it can end there.     *)
(***************************************************************************)
EXTENDS SealedLog, Scoring, Sequences

CONSTANTS
    NumGames,      \* league.num_games
    Settles,       \* who has league.series_consensus on
    Counted,       \* whose config counts this series
    FirstMeeting,  \* whose config calls it the first between the two
    Played,        \* game.counted_games_played, declared in the greeting
    MaxFaults      \* bound: failures, silences, lost payloads and altered logs

Group == {"home", "away"}
Stranger == "unknown-opponent"

ASSUME LedgerAssumption ==
    /\ NumGames \in Nat \ {0}
    /\ Settles \subseteq Group /\ Counted \subseteq Group /\ FirstMeeting \subseteq Group
    /\ Played \in [Group -> Nat]
    /\ MaxFaults \in Nat

VARIABLES
    pc,         \* what each group's program is doing
    number,     \* the sub-game it is in; NumGames + 1 when all are over
    board,      \* how each sub-game ended on the board, if it did
    met,        \* has it accepted a greeting of the opponent?
    result,     \* result and winner of its sub-game
    records,    \* the sealed log of its sub-game
    inbox,      \* its inbox of reveals and envelopes
    summaries,  \* one summary for each sub-game that is over
    verdict,    \* what came of the consensus, a set of at most one
    filing,     \* the report, a set of at most one
    spoilt,     \* logs with a record altered under its commit, <<group, sub-game>>
    resealed,   \* logs with one sealed anew after its commit was declared in a turn
    faults      \* faults so far

vars == <<pc, number, board, met, result, records, inbox, summaries, verdict, filing,
          spoilt, resealed, faults>>

Other(p) == CHOOSE q \in Group : q # p

Opponent(role) == IF role = "police" THEN "thief" ELSE "police"

\* Home's natural role is the thief's; roles alternate.
RoleFor(p, n) == IF (p = "home") = (n % 2 = 1) THEN "thief" ELSE "police"

Init ==
    /\ pc = [p \in Group |-> "playing"]
    /\ number = [p \in Group |-> 1]
    /\ board = [n \in 1..NumGames |-> "open"]
    /\ met = [p \in Group |-> FALSE]
    /\ result = [p \in Group |-> <<"timeout", "-">>]
    /\ records = [p \in Group |-> SealedRecords(1)]
    /\ inbox = [p \in Group |-> <<>>]
    /\ summaries = [p \in Group |-> <<>>]
    /\ verdict = [p \in Group |-> {}]
    /\ filing = [p \in Group |-> {}]
    /\ spoilt = {}
    /\ resealed = {}
    /\ faults = 0

-----------------------------------------------------------------------------
(* The end of a sub-game.                                                  *)

\* What goes wrong in a step costs its number of faults.
Costs(n) == faults + n <= MaxFaults /\ faults' = faults + n

\* Nobody gets through the handshake before the opponent has come that far.
Greeted(p) == number[Other(p)] >= number[p]

\* Results a runtime reaches: an ending of the board, or an opponent that
\* fell silent.
Winner(ending) == IF ending = "capture" THEN "police" ELSE "thief"

Push(p, copies) == inbox' = [inbox EXCEPT ![Other(p)] = @ \o copies]

\* The best-effort call of exchange_audit: it arrives, or it is lost and the
\* step goes on, or only its reply was lost and the retry arrives too.
\* `wrong` is what else goes wrong in it.
Send(p, payload, wrong) ==
    \/ Push(p, <<payload>>) /\ Costs(wrong)
    \/ \E copies \in {<<>>, <<payload, payload>>} : Push(p, copies) /\ Costs(wrong + 1)

NextSubGame(p, summary) ==
    /\ summaries' = [summaries EXCEPT ![p] = Append(@, summary)]
    /\ number' = [number EXCEPT ![p] = @ + 1]
    /\ records' = [records EXCEPT ![p] = SealedRecords(number[p] + 1)]
    /\ pc' = [pc EXCEPT ![p] = IF number[p] = NumGames THEN "settling" ELSE "playing"]

Summary(p, ending, winner, audit) ==
    [sub_game_number |-> number[p], role |-> RoleFor(p, number[p]),
     result |-> ending, winner |-> winner, audit |-> audit]

\* An audit that had nothing of the opponent's to read.
Unread(passed) ==
    [passed |-> passed, present |-> FALSE, agree |-> FALSE, by |-> "nobody", read |-> 0]

\* The audit of a sub-game that never came to one.
NoAudit == Unread(FALSE)

\* A protocol failure: a technical loss, before or after the handshake.
Lose(p) ==
    /\ pc[p] = "playing"
    /\ Costs(1)
    /\ \E shaken \in BOOLEAN, loss \in {"timeout", "tamper_forfeit"} :
        /\ shaken => Greeted(p) /\ loss = "timeout"
        /\ met' = [met EXCEPT ![p] = @ \/ shaken]
        /\ NextSubGame(p, Summary(p, loss, "-", NoAudit))
    /\ UNCHANGED <<board, result, inbox, verdict, filing, spoilt, resealed>>

Reveal(p, log, claim) == [sort |-> "reveal", of |-> number[p], records |-> log, claim |-> claim]

\* The runtime comes to a result and reveals its log.  Some records may not be
\* what they were when they were sealed.  The commit of step zero is in no turn.
Conclude(p) ==
    /\ pc[p] = "playing" /\ Greeted(p)
    /\ \E ending \in {"capture", "survival", "timeout"}, damage \in SUBSET Steps,
          anew \in SUBSET Steps :
        /\ anew \cap damage = {}
        /\ ending # "timeout" => board[number[p]] \in {"open", ending}
        /\ board' = IF ending = "timeout" THEN board ELSE [board EXCEPT ![number[p]] = ending]
        /\ result' = [result EXCEPT ![p] =
              <<ending, IF ending = "timeout" THEN RoleFor(p, number[p]) ELSE Winner(ending)>>]
        /\ records' = [records EXCEPT ![p] = Tampered(@, damage, anew)]
        /\ spoilt' = IF damage = {} THEN spoilt ELSE spoilt \cup {<<p, number[p]>>}
        /\ resealed' = IF anew \subseteq {0} THEN resealed ELSE resealed \cup {<<p, number[p]>>}
        /\ Send(p, Reveal(p, records'[p], ending),
                (IF ending = "timeout" THEN 1 ELSE 0) + (IF damage \cup anew = {} THEN 0 ELSE 1))
    /\ met' = [met EXCEPT ![p] = TRUE]
    /\ pc' = [pc EXCEPT ![p] = "auditing"]
    /\ UNCHANGED <<number, summaries, verdict, filing>>

-----------------------------------------------------------------------------
(* The audit.                                                              *)

Blame(mine, theirs, role) ==
    CASE ~mine /\ ~theirs -> "both"
      [] mine /\ ~theirs  -> "opponent"
      [] ~mine /\ theirs  -> role
      [] OTHER            -> "nobody"

\* exchange_audit with what lay in the inbox first, whatever it is.  `read` is
\* the sub-game it was of, for the properties: the code never looks.
Audited(p, reply) ==
    LET mine   == Passes(records[p])
        theirs == Passes(reply.records)
    IN  [passed |-> mine /\ theirs, present |-> TRUE, agree |-> reply.claim = result[p][1],
         by |-> Blame(mine, theirs, RoleFor(p, number[p])), read |-> reply.of]

\* exchange_audit when the inbox stays empty.
Unanswered(p) == Unread(Passes(records[p]))

Audit(p) ==
    /\ pc[p] = "auditing"
    /\ \/ /\ inbox[p] # <<>>
          /\ NextSubGame(p, Summary(p, result[p][1], result[p][2], Audited(p, Head(inbox[p]))))
          /\ inbox' = [inbox EXCEPT ![p] = Tail(@)]
       \/ /\ inbox[p] = <<>>
          /\ NextSubGame(p, Summary(p, result[p][1], result[p][2], Unanswered(p)))
          /\ inbox' = inbox
    /\ UNCHANGED <<board, met, result, verdict, filing, spoilt, resealed, faults>>

-----------------------------------------------------------------------------
(* The report.                                                             *)

\* Who p thinks it played.
Opposing(p) == IF met[p] THEN Other(p) ELSE Stranger

\* Mutated form of Roles: the opponent's role is not the other one.
RolesOfThief(p, opp, role) == [g \in {p, opp} |-> IF g = p THEN role ELSE "thief"]

\* Role names of a sub-game by group.
Roles(p, opp, role) == [g \in {p, opp} |-> IF g = p THEN role ELSE Opponent(role)]

WinnerGroup(roles, winner) ==
    IF \E g \in DOMAIN roles : roles[g] = winner
    THEN CHOOSE g \in DOMAIN roles : roles[g] = winner ELSE NoGroup

\* A row of the result: the facts that both can agree on.  s is a summary,
\* ss are all of them.
Facts(p, opp, s) ==
    LET roles == Roles(p, opp, s.role)
    IN  [sub_game_number |-> s.sub_game_number, roles |-> roles, result |-> s.result,
         winner_group |-> WinnerGroup(roles, s.winner), score |-> ScoreSubGame(s.result, roles)]

AuditRow(audit) ==
    [log_verified |-> audit.passed, opponent_present |-> audit.present,
     results_agree |-> audit.agree, tampering_detected |-> audit.by # "nobody"]

\* A match has a name that both derive, and an identifier that binds the terms.
GameId(p, opp) == {p, opp}
GameUid(opp) == IF opp = Stranger THEN "0" ELSE "derived"

SeriesRows(p, opp, ss) == [n \in DOMAIN ss |-> Facts(p, opp, ss[n])]

SeriesAggregate(p, opp, ss) ==
    Aggregate({p, opp}, [n \in DOMAIN ss |-> SeriesRows(p, opp, ss)[n].score])

MutualSignature(p, opp, ss) ==
    <<GameId(p, opp), SeriesAggregate(p, opp, ss), SeriesRows(p, opp, ss)>>

SeriesDigest(p, opp, ss) == <<GameId(p, opp), GameUid(opp), SeriesRows(p, opp, ss)>>

LeagueFields(p, opp, winner) ==
    LET declared(g) == IF g \in Group THEN Played[g] ELSE 0
        counted == p \in Counted
    IN  [games_played_including_this |->
            [g \in {p, opp} |-> declared(g) + (IF counted THEN 1 ELSE 0)],
         first_meeting |-> p \in FirstMeeting,
         diversity_reward_applied |->
            [g \in {p, opp} |-> counted /\ p \in FirstMeeting /\ winner = g]]

\* emit_series: the fields of the final result.
EmitSeries(p, opp, ss) ==
    [sha256    |-> MutualSignature(p, opp, ss),
     consensus |-> SeriesDigest(p, opp, ss),
     league    |-> LeagueFields(p, opp, SeriesAggregate(p, opp, ss).winner_group),
     audits    |-> [n \in DOMAIN ss |-> AuditRow(ss[n].audit)],
     confirmed |-> \A n \in DOMAIN ss : AuditRow(ss[n].audit).log_verified]

OwnDigest(p) == SeriesDigest(p, Opposing(p), summaries[p])
OwnReport(p) == EmitSeries(p, Opposing(p), summaries[p])

Envelope(p) == [sort |-> "envelope", of |-> 0, records |-> <<>>,
                claim |-> "series_consensus", digest |-> OwnDigest(p)]

\* The envelope goes out before anything is written.
Settle(p) ==
    /\ pc[p] = "settling"
    /\ IF p \in Settles
       THEN /\ Send(p, Envelope(p), 0)
            /\ pc' = [pc EXCEPT ![p] = "collecting"]
       ELSE /\ pc' = [pc EXCEPT ![p] = "filing"]
            /\ UNCHANGED <<inbox, faults>>
    /\ UNCHANGED <<number, board, met, result, records, summaries, verdict, filing, spoilt, resealed>>

\* A reveal that was left over carries no digest.
Agrees(p, reply) == reply.sort = "envelope" /\ reply.digest = OwnDigest(p)

CollectEnvelope(p) ==
    /\ pc[p] = "collecting"
    /\ \/ /\ inbox[p] # <<>>
          /\ verdict' = [verdict EXCEPT ![p] = {Agrees(p, Head(inbox[p]))}]
          /\ inbox' = [inbox EXCEPT ![p] = Tail(@)]
       \/ /\ inbox[p] = <<>>
          /\ verdict' = [verdict EXCEPT ![p] = {FALSE}]
          /\ inbox' = inbox
    /\ pc' = [pc EXCEPT ![p] = "filing"]
    /\ UNCHANGED <<number, board, met, result, records, summaries, filing, spoilt, resealed, faults>>

File(p) ==
    /\ pc[p] = "filing"
    /\ filing' = [filing EXCEPT ![p] = {OwnReport(p)}]
    /\ pc' = [pc EXCEPT ![p] = "done"]
    /\ UNCHANGED <<number, board, met, result, records, inbox, summaries, verdict, spoilt,
                   resealed, faults>>

Next ==
    \E p \in Group :
        \/ Lose(p)   \/ Conclude(p)        \/ Audit(p)
        \/ Settle(p) \/ CollectEnvelope(p) \/ File(p)

Spec == Init /\ [][Next]_vars
-----------------------------------------------------------------------------
(* Properties.                                                             *)

\* Do the two groups hold the same results of the series?
SameResults ==
    /\ DOMAIN summaries["home"] = DOMAIN summaries["away"]
    /\ \A n \in DOMAIN summaries["home"] :
        /\ summaries["home"][n].result = summaries["away"][n].result
        /\ summaries["home"][n].winner = summaries["away"][n].winner

SameLeague == ("home" \in Counted <=> "away" \in Counted)
                /\ ("home" \in FirstMeeting <=> "away" \in FirstMeeting)

\* Two groups that have met sign the same report exactly when they hold the
\* same results: the two are computed apart, from opposite roles, and either a
\* contradiction or a false one voids the match.  The league's fields follow
\* where the two configs count the series alike.
SignaturesReconcile ==
    \A f \in filing["home"], g \in filing["away"] :
        met["home"] /\ met["away"] =>
            /\ f.sha256 = g.sha256 <=> SameResults
            /\ f.consensus = g.consensus <=> SameResults
            /\ SameResults /\ SameLeague => f.league = g.league

\* Who files an agreed consensus files what the opponent files, whatever was
\* left over in its inbox, and whoever is first.
ConsensusIsMutual ==
    \A p \in Group : TRUE \in verdict[p] =>
        /\ SameResults
        /\ \A f \in filing[p], g \in filing[Other(p)] : f.sha256 = g.sha256

FilingsReconcile == SignaturesReconcile /\ ConsensusIsMutual

\* The audit names a side exactly if the log it was handed of that side holds a
\* record that does not match the commit it carries, and verifies exactly if
\* neither does.  That is all it says: a record sealed anew matches, and the log
\* may be another sub-game's (see DeclaredCommitsHold).
AuditIsFair ==
    \A p \in Group : \A n \in DOMAIN summaries[p] :
        LET audit == summaries[p][n].audit
            mine  == <<p, n>> \in spoilt
            other == <<Other(p), audit.read>> \in spoilt
        IN  /\ audit.by # "nobody" => audit.present /\ (mine \/ other)
            /\ audit.by \in {"opponent", "both"} <=> other
            /\ audit.present =>
                (audit.by \in {"both", summaries[p][n].role} <=> mine)
            /\ audit.passed => ~mine /\ ~other
            /\ audit.present /\ ~mine /\ ~other => audit.passed

\* peer/audit.py: "both recompute every commit the other declared during play",
\* to check "that the digests were never revised".  So a log that passes is the
\* log of this sub-game, and every commit in it is one a turn declared.
DeclaredCommitsHold ==
    \A p \in Group : \A n \in DOMAIN summaries[p] :
        LET audit == summaries[p][n].audit
        IN  audit.present /\ audit.passed =>
                audit.read = n /\ <<Other(p), n>> \notin spoilt \cup resealed

\* Types; the summaries keep count of the sub-games, and only a group that is
\* done has filed.
TypeOK ==
    /\ pc \in [Group -> {"playing", "auditing", "settling", "collecting", "filing", "done"}]
    /\ number \in [Group -> 1..(NumGames + 1)]
    /\ board \in [1..NumGames -> {"open", "capture", "survival"}]
    /\ met \in [Group -> BOOLEAN]
    /\ \A p \in Group : Len(summaries[p]) = number[p] - 1
    /\ \A p \in Group : verdict[p] \subseteq BOOLEAN
    /\ \A p \in Group : filing[p] # {} => pc[p] = "done"
    /\ spoilt \subseteq Group \X (1..NumGames)
    /\ resealed \subseteq Group \X (1..NumGames)
    /\ faults \in 0..MaxFaults
=============================================================================
