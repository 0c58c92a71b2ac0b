# P2P chase: formal models

Two programs on two machines play a police-and-thief chase on an N x N board
without a referee. Each keeps only its own position, learns of the other through
turn messages, and audits the other's sealed log afterwards. This directory
holds TLA+ models of that protocol, translated from `src/p2p_chase/`, the TLC
instances that check them and the proofs that hold for every instance.

Paths below are relative to `src/p2p_chase/` in the repository.

## 1. Inventory

| Component | State it keeps | Operations | Talks to | What is hard | What makes it right |
|---|---|---|---|---|---|
| Board (`domain/board.py`, `moveset.py`) | none | step, legal moves, distance, flood fill, path length | everybody | move sets that differ, sealed cells | a step never leaves the board or enters a wall |
| Own truth (`own_state.py`, `rules.py`) | position, walls, quota used, step counter, log | `apply_move`, `note_barrier`, end conditions | runtime, strategy | refused actions leave stale log entries | walls within quota; steps advance |
| Phase machine (`phases.py`) | current phase | `to`, `fail` | runtime | rare endings | no illegal edge is ever asked for |
| Peer runtime (`peer/runtime.py`, `turn_*.py`, `audit.py`) | all of the above, owed answer, seen commits, result | act, await, consume, audit | transport, brain | duplicates, deadlines, final messages, no shared clock | token, exactly-once, agreement, termination |
| Transport (`infra/mcp_*.py`) | four inboxes, one session | push with retry, poll | opponent's server (HTTP) | lost replies, late copies, give-up after delivery | at-least-once, never a lost acknowledged turn |
| Series (`peer/orchestrator.py`, `handshake.py`) | summaries, game identifiers | play all, play one, restart | runtime, transport, watchdog | inboxes outlive a sub-game; one peer may be a sub-game ahead | both play the same sub-game with opposite roles |
| Watchdog (`peer/watchdog.py`) | last beat, fired flag | beat, check, persist | main loop (other thread) | silences that follow each other without a beat; a thread that ends when it fires | no false alarm; a freeze is noticed and its state saved |
| Gatekeeper (`shared/gatekeeper.py`, `guards.py`, `rate_limiter.py`) | quota of the day, token bucket, latching breaker, callers waiting and running | execute: admit, queue, attempt, retry | LLM, mail | lazy refills, sliding windows, retries against quotas and deadlines | the rate holds, no burst passes, a turn is not held up for ever |
| Commit-reveal (`domain/crypto.py`, `peer/sealing.py`, `audit.py`) | sealed records | seal, verify | audit | what a digest does and does not bind | a record that does not match its commit is found, and one that does is not blamed |
| Consensus and report (`consensus*.py`, `scoring.py`, `report/*`) | summaries, signatures | compare, sign, write | mail | two reports from two truths, of sub-games that failed on one side | equal reports exactly for equal results; nobody blamed wrongly |
| Belief, scent, trust (`belief.py`, `smell.py`, `trust.py`, `strategy/decode.py`) | distributions, fields, a tracker with a latch | predict, observe, decode, exclude | brain | evidence that multiplies; a copy that must stay in step; a latch judged by old readings | the field names its sender; the honest are believed; the true cell is never excluded |
| Strategy (`strategy/*`) | none or small caches | decide | own truth, belief | exact search, wall vetoes, moves that tie | promises of the solver hold in play; always a legal decision |
| Benchmark (`scripts/arena.py`) | two sides, no network | play, exchange | brains | repeats the peers' turn in code of its own | plays the refereed chase |
| Talk, GUI, configuration, the other report files | wording, pixels, files | | | | not modelled |

## 2. Modules

    Board -> OwnState -> SubGame -> SubGameInv -> SubGameMC        (TLC)
    Phases --------------^             |
    OwnState -> Chase (abstract)       +-> SubGameProofs -> RefereeProofs   (TLAPS)
    Series -> SeriesMC  (TLC),  Series -> SeriesProofs  (TLAPS)
    Watchdog (TLC) -> WatchdogProofs  (TLAPS)
    Gatekeeper -> GatekeeperMC  (TLC),  Gatekeeper -> GatekeeperProofs  (TLAPS)
    OwnState -> Pursuit; OwnState -> Reachability -> Barriers
    Pursuit + Barriers -> Brains -> Arena -> ArenaMC  (TLC),  Arena -> ArenaProofs  (TLAPS);  Arena => Chase
    Board -> Scent;  OwnState -> Belief
    Scent + Belief -> Sense -> SenseMC  (TLC),  Sense -> SenseProofs  (TLAPS)
    SealedLog + Scoring -> Ledger -> LedgerMC  (TLC),  Ledger -> LedgerProofs  (TLAPS)

**Board, OwnState** are operators: geometry, one peer's record `[at, walls,
built, step, last]` and the rules it evaluates. `MoveSet` is the configured set
of tokens; `Moves` and `CanStay` are what `moveset.py` and `_stay_allowed` make
of it. A `None` in the code is the empty set, a cell is a singleton.

**Phases** is `TRANSITIONS` and the two ways through it. A handler that calls
`phases.to` several times in a row asks for a *path*, and the action is blocked
when the code would raise; `NoPhaseError` says that never happens.

**SubGame** is one sub-game from the return of `negotiate` on both sides to both
summaries: two threads, their private truths and what travels between them.

| Action | Code |
|---|---|
| `TakeTurn` (`Play`, `Concede`) | `PeerRuntime._act`, `turn_sender.take_turn`, `concede`, `send` up to the call |
| `SendTurn`, `RetrySend`, `GiveUp` | `McpTransport._call_with_retry`: acknowledged; failed and tried again; failed past the connect timeout, `TransportError` into `Orchestrator._play_one` |
| `Receive` (`Ends`, `SendFinal`, `MyTurn`) | `_await_turn` accepting a turn, `_consume`, `TurnHandler.process`, `send_final` |
| `DropDuplicate` | `_is_duplicate` |
| `TurnTimeout` | the deadline branch of `_loop` |
| `Reveal`, `Collect`, `AuditTimeout` | `McpTransport.exchange_audit`, `audit.exchange_audit`, the end of `_audit` |
| `LateDelivery`, `Crash` | the network and the machine |

A decision is any of `Decision`, legal or not, so every brain in `strategy/` is
covered. `seq` stands for the commit: fresh per sealed turn and the same in every
retry. The acknowledgement is one step with the delivery because the sender does
nothing between them that anybody sees; a reply that is lost is `RetrySend`.

**Chase** is the abstract specification: one shared board, alternating atomic
turns, no messages. `SubGame!Refereed` maps the two private truths to it and
`ImplementsChase` is checked under failures too: whatever the network does, what
the peers do to their boards is a refereed chase.

**SubGameInv** holds the inductive strengthenings, checked by TLC before they
were proved.

**Series** is one level up: two orchestrators, `NumGames` sub-games, and the
four inboxes that outlive them. What a turn does to a board is left to SubGame;
here it passes the token (`turn`), or ends the sub-game (`caught`, `survival`),
and a turn of an officer may catch its reader.

| Action | Code |
|---|---|
| `Push`, `RetryPush`, `GiveUp` | `_call_with_retry` for whatever the thread is pushing (`Outgoing`): agreement, turn, reveal, envelope. A reveal or envelope that cannot be sent is not an error, the rest is a `TransportError` into `_play_one` (`Abort`) |
| `DropGreeting`, `AcceptGreeting`, `GreetingTimeout` | `exchange_agreement`, `_is_stale_greeting`, `negotiate` |
| `TakeTurn`, `ReceiveTurn`, `DropTurn`, `TurnTimeout` | the runtime's loop, as in SubGame |
| `Collect`, `Settle`, `AuditTimeout` | `audit.exchange_audit`, `consensus_exchange.exchange` |

Messages carry the sub-game they were made for, so that properties can speak of
it; the code sees that number only in a greeting (`Numbered`). `CloseSubGame` is
the end of a pass of `_play_all`'s loop: the summary is kept, the runtime with
its `_seen_commits` is gone. The restart branch of `play_series` has no action:
nothing in the code raises `RestartSeries`.

**Watchdog** is the watchdog's thread beside the main loop of a series. What the
loop does is told in Series; here it is a chain of activities that take time, at
most their `Budget`, and that beat or do not.

| Action | Code |
|---|---|
| `Greeted`, `Opens`, `EntersLoop`, `GivesUp` | `exchange_agreement` pushing, then waiting; the thief's first `_act`; the first `_await_turn`; `TransportError` into `_play_one` |
| `Sent`, `SentLast`, `Answers`, `EndsGame` | the turns of `PeerRuntime._loop` |
| `Revealed`, `Collected` | `exchange_audit`; the next pass of `_play_all`, or `Watchdog.stop` |
| `Tick` | the clock; it is here that a waiting loop beats (`_await_turn`) |
| `Wake` | a pass of `Watchdog._run`: `check`, and when it fires `persist` and the end of the thread |
| `Freeze` | the main loop is gone for good |

**Gatekeeper** is the door in front of the LLM and the mail service: every lock
of the code is held for one action, and callers interleave between them.

| Action | Code |
|---|---|
| `Ask`, `Breaker` | `_admit`: `QuotaManager.allow`, `DosDetector.allow` |
| `Enqueue`, `TakeToken` | `_queue_for_token`: backpressure, then rounds around `TokenBucket.allow` and `wait_time` |
| `Try`, `Succeed`, `Fail` | `_attempt` under the semaphore: an attempt, its answer, its failure with a pause or `RateLimited` |
| `Rebuild` | the next sub-game's `resolve_talker`, which builds a new gatekeeper |
| `Tick`, `Midnight` | the two clocks |

**Reachability, Pursuit, Barriers, Brains** are the decisions of `strategy/` as
operators. An expectation over a belief is an exact fraction, a weight or bonus an
integer in thousandths, and a brain is the *set* of choices its random tie-breaks
may come to. `Pursuit` replaces the bit masks of `pursuit.py` by sets of pairs,
layer by layer as `solve` builds them. `Barriers` prices a wall and holds the
vetoes; `Brains` puts the fallbacks of the six brains in their order.

**Arena** is a whole benchmark sub-game between two brains (`scripts/arena.py`).

| Action | Code |
|---|---|
| `ThiefIsEnclosed` | the check of `is_immobilised` before the thief decides |
| `ThiefPlays`, `OfficerPlays` | one half of `play`'s loop: the brain's `decide`, `apply_move` or a hold (`Act`), `_exchange`, the endings |

The officer plays on what the decoded scent leaves of its belief
(`OfficerBeliefs`), the thief on the cell the officer declares. The `stranger` is
an officer that may do anything legal. `Refereed` maps the state to `Chase`, the
same abstract specification SubGame implements, so the benchmark and the peers are
shown to play one game. History variables: what the solver promised the thief
(`promised`, `due`), and whether a brain ever chose an illegal action (`slipped`).

**Scent, Belief, Sense** are what a turn tells the other side. `Scent` is the field
(`smell.py`) and the tracker that reads it (`strategy/decode.py`); `Belief` is the
set of cells a probability grid gives any weight: every update of `belief.py`
multiplies weights, so which cells survive depends on which factors are zero.
`Sense!Turn(r)` is one whole turn: any legal action, `deposit` and `decay_all` of
`turn_sender`, then `TurnHandler.process` at the opponent in its order (wall,
predict, scent, absorb, decay, words, exclusions, claim). Some roles (`Doctors`)
may send a field that is no trail of theirs, at most `MaxBad` times; the estimate
of a speaker's honesty is anything within its clamp. `excuse` records why a reader
may be wrong: it accepted a field that was not the opponent's (`misled`), the
opponent stood on the reader's cell (`crossed`) or inside a wall (`sealed`).

**SealedLog, Scoring, Ledger** are what two groups write down. `SealedLog` is
commit-reveal, `Scoring` the points and the aggregate, `Ledger` a series seen from
the books: each sub-game ends in one of the ways SubGame allows, or fails on one
side.

| Action | Code |
|---|---|
| `Lose` | `_play_one` catching a failure: a technical loss without audit |
| `Conclude` | the end of `run`, and `exchange_audit` sending the reveal, which may be lost or arrive twice; records may have been altered since they were sealed (`Tampered`) |
| `Audit` | `exchange_audit` reading the inbox, whatever lies there first, `_blame`, `build_summary` |
| `Settle`, `CollectEnvelope` | `_settle_series`, `consensus_exchange.exchange` |
| `File` | `emit_series`: rows, aggregate, signature, league fields, audit rows |

A digest is the document it is taken of: SHA-256 over canonical JSON is assumed to
have no collisions. `of` and `read` tell the properties which sub-game a reveal was
made for; the code never looks. A log may be altered in two ways between its turns
and its reveal: a record under the commit it has (`Altered`), or with a commit made
anew (`Resealed`), which then matches but is not the one a turn declared. Step zero
is sealed into the log but its commit is in no turn. History variables: `spoilt` and
`resealed`, the logs altered in one way and the other.

## 3. Runs

| Run | Instance | Shows |
|---|---|---|
| `subgame_board` | 3x3, threshold 5, 3 walls, no faults | step numbers, agreement on seen endings, refinement of `Chase` |
| `subgame_faults` | 2x2, threshold 3, 2 walls, 2 faults, fair | all safety invariants, refinement and termination under failures |
| `enclosure_denied` | 2x2, no faults | **violation**: a conceding thief sends `caught: false` |
| `series` | 2 sub-games, threshold 2, 2 faults, fair | same sub-game and opposite roles, clean series without faults, termination |
| `leftover_turn` | 2 sub-games, 1 fault | **violation**: a turn applied again in the next sub-game |
| `watchdog` | 2 sub-games, default timeouts, the least budget that is `Enough`, fair | no false alarm; a freeze anywhere is noticed and saved |
| `gatekeeper` | 2 threads, every limit tight, 2 sub-games, a midnight | the rate between any two grants, the burst of any window; for a lone caller, calls that end in time and a breaker that stays shut |
| `arena` | 4x4, 2 walls, threshold 5, 3 thief brains against 3 officer brains and any legal officer | legal choices, the solver's promises kept, no wall between officer and thief, no needless risk, refinement of `Chase` |
| `sense` | 3x3, 1 wall, 3 turns each, one field of the thief's being anything, three hints | fields name their sender, copies stay in step, the honest are tracked, the true cell is kept |
| `one_bad_reading` | the same without hints | **violation**: one refused field and then honesty is enough to be disbelieved |
| `ledger` | 2 sub-games, 2 faults, both settle | reports reconcile exactly when results do; the audit names exactly the logs that do not match their own commits |
| `resealed_log` | 2 sub-games, 1 fault | **violation**: a log sealed anew, with commits no turn declared, is verified |

*Bounds.* A game ends at `SurvivalThreshold` thief turns, so the state space is
finite without a counter bound. 3x3 with three walls is the smallest board with
a corner to wall in, a centre and a way round; 2x2 with two walls reaches every
ending (capture by step, by a wall on the thief, by enclosure, survival) in three
turns and leaves room for faults. `MaxFaults = 2` allows a fault on each side, or
a duplicate and a loss of the same turn; the proofs cover any number.

Two sub-games are what a leftover needs to be read in the wrong one, and both
parities of the role rule.

The arena needs 4x4: on 3x3 every cell is within two steps of the centre, and the
wall vetoes, cut cells and the solver's horizon (4) never matter. One opening is
far, one near. `sense` needs a field that does not reach the whole board
(`Half = 1` on 3x3) and three turns, so that a trail outlives two decays; one bad
field is what the tracker's latch is about, and the true cell may be lost to any
of the excuses within that bound. In `ledger` two faults are a failure on one side
and an altered log or a lost or repeated reveal on the other; two steps to a log tell an
altered record from an intact one. The proofs of both cover any number.

In `Watchdog` a tick is 5 s. `watchdog` uses the least budget for two sub-games
(`Enough`: 106 ticks, 530 s), so one tick less would be a false alarm, and silence is
not counted beyond `SilenceCap`. A pause before a retry (1 s by default) is rounded up
to a tick. In `Gatekeeper` the clock stops at `MaxTime`, which
leaves room for a full bucket to be emptied, to refill and to be emptied again
while a window slides past; `MaxDays` allows one midnight. `MaxInWindow`
is the least value at which the bucket protects a lone caller; two callers do trip
the breaker. Two stand for what the class promises ("thread-safe"); in a series
one thread calls, which is why the turn's properties are about a lone caller.

*Faults.* A failed or repeated call, an opponent slower than a deadline and a
crash each cost one fault. Without a fault a deadline only passes when nothing is
coming: `Silent` and `NoReveal` say when that is, and `Overdue` in Series.

*Fairness.* `WF(Progress(p))`: a thread that can take a step takes one. Every
blocking call of the code has a timeout (`poll_turn`, `_call_with_retry`, the
inbox reads of `exchange_audit`), so a live thread is never stuck in one. Nothing
is assumed of the network: `RetrySend` and `LateDelivery` have no fairness, and
faults are finite in number. In `Watchdog` time goes on and the watchdog's thread
is scheduled (`WF(Tick)`, `WF(Wake)`); nothing is assumed of the main loop.

*Scope of some properties.* `SeenEndsAgree` and `CleanSeries` are about runs
without faults; what lost or repeated mail does to an audit is the business of
`ledger` and `resealed_log`, to a turn that of `subgame_faults` and
`leftover_turn`. `StepAlwaysAdvances` and the refinement of `Chase` assume STAY
(section 5 says what happens without). `PlaysTheChase` would catch a capture that the benchmark misses, not one it makes up: an ending that is none on
the board is mapped to a game still open. `GuaranteeHolds` leaves out the officer
that seals its own cell, for which the solver has no row.

*Assumed.* Closing a session and opening the next takes at most `Session` (a
time `_call_timeout` does not bound; longer is a `Freeze`); a provider answers
or fails within the deadline it is handed (else it is the watchdog's `Freeze`);
the snapshot of a frozen loop can be written, that of a running one may fail;
digests do not collide. No fairness is stated in Arena, Sense and Ledger: their
properties are about safety, and their runs may stop.

## 4. Proofs

`SubGameProofs` proves `Spec => []TypeOK` and, from the invariant `PhaseInv`
(where each thread stands fixes its phase), `Spec => []NoPhaseError`.

It also proves the token argument. None of `ExactlyOnceInOrder`, `OneToken` and
`NoMutualWait` is inductive: they follow from `MailInv`, which says of each peer
that it has read all of the other's turns or all but the newest; that the one who is
behind is on move; that a thread on move that is sending or waiting has not read
yet; that every copy of a turn anywhere is genuine; and that a turn its sender has
let go of lies in the reader's inbox. Two lemmas carry the steps: `SealMail` (a peer
on move seals) and `QuietMail` (every other step but `Receive`, which is
`ReceiveMail`). `WallInv` builds on it: what the thief does not know yet is what the
unread turn declares; hence `ThiefKnowsEveryWall`.

`RefereeProofs` goes from the token to what the two peers' boards mean together.
`TurnInv`, `MoveInv` and `EndInv` say what a turn may declare, that nobody decides
after a final turn told it not to, and that a final turn tells the truth and goes on
doing so: hence `CaptureIsReal`. The step to `SubGameImplementsChase` is then one
case per action: sealing a turn is a step of the chase, for which the thief must
know every wall (`WallInv`) and the officer's count must be the referee's
(`QuotaInv`); everything the network does is a stutter. `SurvivalIsReal` also says
that a survivor has a way out. The code checks that before the last step, not after
it, so the theorem asks that a step can be taken back (`Reversible`; `ExitInv` is
the invariant), which the shipped move sets satisfy. `StepAlwaysAdvances` and the
refinement ask that standing still is allowed (`CanStay`): it is what a refused
decision is replaced by. `EndsAgree` rests on `CleanInv`: while nothing fails, a turn
is in its sender's hands or in the reader's inbox and nobody leaves before the final
turn; each reveal reaches the other before it stops waiting.

`SeriesProofs` proves `Spec => []TypeOK` and `Numbered = Peer => (Spec =>
[]SamePlay)`. The invariant `HandshakeInv`: no greeting in an inbox or in the
network is for a sub-game its sender has not reached, and the one a peer accepted
is not older than its own sub-game. So each of two playing peers is at most as far
as the other, hence at the same sub-game. `MoveHandshake` carries the steps that
open a sub-game, `PostedMail` those that post, `TakeHandshake` those that read.

`CleanSeriesHolds` needs much more than that, because "no leftover is ever read" is
about four inboxes at once. Its invariant `LockStep` says, while nothing has failed:
where one peer stands, given where the other does (`Placed`); how many greetings and
reveals lie in an inbox, namely those posted and not yet taken, in order (`Posted`),
and that turns and envelopes do too (`Mailed`, `Sealed`); whose turn it is
(`Token`); and that the two tell the same story of every sub-game that is over, up to
the one a peer may be ahead (`Told`). `Positions` draws from it all pairs of places
the peers may be in.

`WatchdogProofs` proves `Spec => []TypeOK`, `Spec => []NoticedInTime` and `Enough
=> (Spec => []NoFalseAlarm)`. The first rests on `silent` being at most the budget
plus what the watchdog has slept since; the last on `AlarmInv`, which bounds the
silence of a working loop by the sub-games already behind it and the activities
passed in this one. A push that is retried may outlast its deadline: the deadline is
looked at after a failed try, then come the pause, a new session and one more call
(`Pushing`).

`GatekeeperProofs` proves all five invariants of `gatekeeper` for any number of
callers. `RateHolds` counts, for every grant, what was handed out from it on: with
the bucket's tokens it is at most a full bucket and the inflow since (`BucketInv`).
`BurstHolds` rests on what a closed breaker remembers: its events are the newest
passes, and those it has forgotten are out of the window (`BreakerInv`).
`StallBounded` bounds, at each place of a call, how long a lone caller has been under
way (`StallInv`): the wait for a full price, the attempts and the pauses so far.
`BreakerStaysShut` compares the two limits: a lone caller's passes and grants
alternate (`ShutInv`), so a burst the breaker would cut had to be granted by the
bucket. It holds where the bucket is the slower one, `Gentle`: there is a queue, and
`MaxInWindow` calls cost more than a full bucket and a window's inflow. The default
limits and those of the named services (the `rate_limits.json` under `config/`) are gentle.

`SenseProofs` proves all five properties of `sense` for every board, range of the
field, number of turns and of bad fields. Its invariant says how loud a trail may
be: after a turn the sender's own cell reads exactly one deposit less one decay and
every other cell less (`PeakIsSender`), because a deposit takes the maximum instead
of adding and older cells have decayed. The copy the other side keeps is then the
trail one decay older as long as no field was bad; a peak that is the sender's cell,
one step from the last and not in a wall, is accepted, so the tracker follows; and a
cell that is read louder than zero, is not the reader's and is not a wall survives
every factor of the belief.

`LedgerProofs` proves `[]FilingsReconcile` and `[]AuditIsFair` for every number of
sub-games, every scoring table and any number of faults. `AuditIsFair` is about the
log that was read and the commits in it: a side is named exactly if a record does not
match the commit beside it, and the audit passes exactly if none fails. It does not
say that whatever was altered is found, nor that the log is this sub-game's: both
are false (`resealed_log`). `FilingsReconcile` is about two final reports, so the invariant must say what was true while they were written:
every letter in an inbox is genuine (a reveal of a sub-game its sender has come to
the end of, verifying exactly if none of its records was altered under its commit,
or the envelope of a group whose books are closed); the n-th summary is of sub-game n, in the role both derive
for it; the audit of a row read a sub-game the other had reached; and what is
settled or filed is what the summaries, which no longer change, say. `RowsReconcile`
then shows that rows computed from opposite roles are equal exactly when result and
winner are, `DigestsMet` that equal digests name two groups that met each other.

`ArenaProofs` proves all seven properties of `arena` for every board, opening,
roster, quota, horizon and set of moves with STAY (`CanStay`), against an officer
that may do anything legal.

* `Kept` says that the thief knows where the officer stands and every wall, that the
  quota is kept, and that the game goes on only while the thief is in no wall and on
  no cell the officer named. Hence `TypeOK`, and with one case per half-turn the
  refinement of `Chase`. That no brain asks for an illegal action (`BrainsActLegally`)
  is shown for every path through a brain, fallbacks included.
* `Guarded`: with a ply promised, an officer about to move can do nothing at once, by
  a step or by a wall. Hence `GuaranteeHolds`; `NoNeedlessRisk` follows because a cell
  out of reach is worth a ply.
* `Owed`: once no more can be built, what is due is in the solver's table for the
  walls that stand. The table is built one layer per ply (`SolveLayers`);
  a step of the thief that keeps the promise and any reply of the officer lead from a
  layer to the one below. Hence `PromiseKept`.
* `OfficerStaysInTouch` follows a wall through `_evaluate`. On an empty board with the
  four orthogonal steps everything is one region (`EmptyBoardIsConnected`); what the
  breadth-first search finds is the least set closed under steps (`FloodRounds`,
  `RegionIsClosed`, `RegionIsLeast`); the scent leaves at least 88% of the weight
  on the thief (`BeliefPeaks`), so a belief within reach means the thief is
  (`QuarryWithinReach`), and a wall that is not vetoed leaves it so (`WallsAreVetted`).
  A move within a region does not change it, but only if it can be taken back
  (`SameRegion`), hence the hypotheses `Reversible` and `Orthogonal \subseteq Moves`.

Two functions there are recursive. The prover cannot instantiate induction over an
operator, so `Induction` and `Recursion` state both principles for *sets* of numbers
and functions between sets, which is enough for a table of layers, rounds of a flood
fill and the sum of a belief over two cells.

*Assumptions.* Those named in the modules: a board of at least 2x2, any set of
move-set tokens, quota and fault bound in Nat, a positive threshold, any starting
cells; for the field, a positive slope and a decay that one deposit outlives
(`terms.py` does not demand the second). Hypotheses of single theorems are written in
the theorem: `CanStay`, `Reversible` and `Orthogonal \subseteq Moves` (true of every
move set under `config/`, where it is N, S, E, W, STAY; the code accepts others),
`Numbered = Peer` (the peers of this repository number their greetings), `Enough`
(a watchdog budget, see section 5) and `Gentle`.

*Only model-checked:* the liveness of `EverySubGameEnds`, `SeriesEnds` and
`FreezeIsSaved`, which is outside the prover's reach under fairness. Every other
property of a passing run is a theorem.

## 5. Findings

Shown by a run:

* `turn_sender.py:141`: a conceding thief that owes the answer to a wrong claim
  sends that answer instead of the admission (`enclosure_denied`).
* `runtime.py:65` / `mcp_server.py:33`: the seen commits die with the sub-game,
  the inbox does not; a repeated last turn ends the next sub-game (`leftover_turn`).
* `decode.py:159`: a refused field leaves the tracked cell behind, so the next
  honest field looks like a jump and is the second strike (`one_bad_reading`).
* `audit.py:52`: the audit recomputes the digests of the records it is handed and
  compares none with a commit received during the turns, so a log sealed anew after
  play verifies, and so does the log of another sub-game (`resealed_log`).

Visible in the same models, without a run of their own:

* `orchestrator.py:136` / `runtime.py:123`: one failed call or late answer can end a
  sub-game as a capture or survival on one side and a timeout on the other.
* `orchestrator.py:90`: a peer that fails early runs ahead of an opponent that sits
  out a turn deadline, and can lose every sub-game of the series to one outage.
* `mcp_client.py:171`: the handshake uses the connect timeout twice without a beat,
  so a `watchdog_timeout_seconds` above it, as the configuration demands, is not
  enough; `Enough` in WatchdogProofs says what is.
* `watchdog.py:109`: failed handshakes in a row can set the watchdog off; its thread
  ends, and a later freeze is never noticed. (`FreezeIsSaved` holds in `watchdog`
  because its budget is `Enough`.)
* `factory.py:72`: every sub-game builds a gatekeeper with a daily quota of its own;
  `gatekeeper.py:98`: attempts after the first ask no quota, and each gets the whole
  step deadline anew.
* `turn_handler.py:148`: the thief collapses its belief onto whatever cell is
  claimed, "the square it just stepped onto"; on a wall turn that is the sealed cell.
  `pursuit.solve` has no officer inside a wall, so every destination ties at zero
  plies and SafeThief's safety order is off for that turn. `arena.py` always
  declares the officer's own cell, so the benchmark never shows it.
* `own_state.py:125`: an officer may seal the cell it stands on. The solver has no row
  for it, and its honest field then peaks in a wall and is refused (`sealed`).
* `decode.py:66`: an empty field counts as a clean reading, so two of them restore a
  distrusted peer's trust.
* `turn_handler.py:122`: the reader's own cell is ruled out, though a thief may step
  onto the officer's cell in its own turn (`crossed`).
* `barriers.py:144`: the vetoes also reject a wall that would close the thief in for
  good on the far side of it, which is a capture.
* `terms.py:75`: `decay_per_step` is called a multiplicative rate while the agreed
  mode is subtractive; a decay above `emit_intensity` passes and leaves no scent.
* `artifacts.py:183`: `confirmed` asks whether logs verified, not whether the two
  results agree. `emit.py:51`: a group that never got through a handshake files the
  opponent as unknown, under another game identifier.
* `scoring.py:66`: a series of nothing but technical losses is a tie, and both
  groups are credited for it.
* `mcp_client.py:172`: between peers that leave out `sub_game_number`, the repeat
  of an accepted greeting opens another sub-game.
* `mcp_client.py:255`: reveals and envelopes are told apart only by their order. After
  one side lost a sub-game the opponent's reveal of it is read in the next, whose
  `results_agree` is then about the wrong claim; a reveal left over at the end is read
  as the envelope, and the consensus fails.
* `runtime.py:179`: the verdict of the audit never reaches the result; a row with
  `tampering_detected` is filed with its points, where `docs/PRD_commit_reveal.md:20`
  promises a technical loss, scored 0-0.
* `turn_sender.py:155`: without STAY the hold of an admission is refused and nobody
  looks, so the final turn repeats a step number, against the comment at line 148.
* `orchestrator.py:58`: the watchdog is built without `on_freeze`, so nothing ends
  a frozen run.
* `gatekeeper.py:69`: the breaker comes before the bucket, not after it as the
  module's doc says.

## 6. Not modelled

* The probabilities of the belief and the score of a hint: floating-point numbers
  whose exact values no property here could be about. Which cells they leave
  possible is modelled.
* The gaussian falloff and the multiplicative decay of `smell.py`: modes the agreed
  terms do not use.
* The restart loop of `play_series` and the control messages: nothing raises
  `RestartSeries` or calls `send_control`, so no state reaches them.
* Negotiation of terms: a difference refuses the match before any state exists.
* Wording of hints (`strategy/talk`), the LLM and mail providers, GUI, replay,
  configuration, the command line, and the other report files: they carry no control
  state of the game.
