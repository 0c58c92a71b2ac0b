------------------------------- MODULE Sense -------------------------------
(***************************************************************************)
(* What the two peers come to know of each other over one sub-game: each   *)
(* turn lays scent and sends the field (peer/turn_sender), the other side  *)
(* folds the message into its belief (peer/turn_handler).  Where the       *)
(* pieces go is left open: any legal action of either side.                *)
(*                                                                         *)
(* Some peers may send a field that is not their own, at most MaxBad times *)
(* between them, and say anything of Hints.                                *)
(***************************************************************************)
EXTENDS Scent, Belief

CONSTANTS
    Start,      \* the signed start cells, [Role -> Cell]
    Doctors,    \* the roles that may send a field that is not their trail
    MaxBad,     \* how many such fields there are at most
    Hints       \* the hints in use: sequences of words

ASSUME SenseAssumption ==
    /\ Start \in [Role -> Cell] /\ Start["thief"] # Start["police"]
    /\ Doctors \subseteq Role /\ MaxBad \in Nat

VARIABLES
    own,        \* each side's OwnState
    scent,      \* its own trail, as last sent
    heard,      \* its copy of the opponent's trail
    tracker,    \* its scent tracker
    support,    \* the cells its belief holds possible
    turn,       \* whose turn it is
    over,       \* a capture was admitted or the clock ran out
    bad,        \* how many fields of each side were not its trail
    excuse      \* why a reader may have lost the opponent, a set of words

vars == <<own, scent, heard, tracker, support, turn, over, bad, excuse>>

Excuse == {"misled", "crossed", "sealed"}

Init ==
    /\ own = [r \in Role |-> FreshState(Start[r])]
    /\ scent = [r \in Role |-> NoScent]
    /\ heard = [r \in Role |-> NoScent]
    /\ tracker = [r \in Role |-> FreshTracker(Start[Opponent(r)])]
    /\ support = [r \in Role |-> Collapse]
    /\ turn = "thief"
    /\ over = FALSE
    /\ bad = [r \in Role |-> 0]
    /\ excuse = [r \in Role |-> {}]

\* The trail after a turn that ends on `at`: deposit first, then the decay.
Trail(r, at) == DecayAll(Deposit(scent[r], at))

\* A field that is not a trail: one blot anywhere, or nothing at all.
Doctored == {NoScent} \cup {[c \in Cell |-> IF c = x THEN Emit ELSE 0] : x \in Cell}

Sendable(r, honest) ==
    {honest} \cup (IF r \in Doctors /\ bad["thief"] + bad["police"] < MaxBad
                   THEN Doctored ELSE {})

\* _observe_scent: sharply when the reading is accepted, gently otherwise.
ObserveScent(spread, field, t, decoded) ==
    IF IsAccepted(t, decoded) THEN ObserveScentPeak(spread, field)
    ELSE ObserveSmell(spread, field)

\* _weigh_words: what the belief may become, however honest or dishonest the
\* speaker is held to be.
WeighWords(spread, text) ==
    LET claim == ParseHint(text)
    IN  {ObserveRegion(spread, claim.cells, ClaimTrust(raw, claim.negated)) :
            raw \in {0, 1000}}

\* _rule_out_impossible: the reader's own cell and every wall.
RuleOutImpossible(s, spread) == ExcludeAll(spread, {s.at} \cup s.walls)

\* The cell an officer's turn declares: its wall, or where it stands.
Declares(r, mine) == IF r # "police" THEN {}
                     ELSE IF mine.last # {} THEN mine.last ELSE {mine.at}

\* Why the belief of q may be wrong about an opponent standing as in `mine`.
Blames(q, s, mine, honest, field, decoded) ==
    (IF field # honest /\ IsAccepted(tracker[q], decoded) THEN {"misled"} ELSE {})
    \cup (IF mine.at = s.at THEN {"crossed"} ELSE {})
    \cup (IF mine.at \in s.walls THEN {"sealed"} ELSE {})

\* One turn of r, and TurnHandler.process at its opponent.
Turn(r) ==
    LET q == Opponent(r)
    IN  /\ ~over /\ turn = r
        /\ ~IsSealedIn(r, own[r])
        /\ \E d \in {e \in Decision : e.move = "HOLD" => e = Hold} :
              LET mine == ApplyMove(r, own[r], d)
                  s == NoteBarrier(own[q], mine.last)
                  honest == Trail(r, mine.at)
                  spread == Predict(support[q], s.walls)
                  declared == Declares(r, mine)
              IN  /\ IsLegal(r, own[r], d)
                  /\ own' = [own EXCEPT ![r] = mine, ![q] = s]
                  /\ scent' = [scent EXCEPT ![r] = honest]
                  /\ \E field \in Sendable(r, honest) :
                        LET decoded == DecodePosition(field, s.walls, tracker[q].cell)
                            seen == ObserveScent(spread, field, tracker[q], decoded)
                        IN  /\ tracker' = [tracker EXCEPT ![q] = Update(@, decoded)]
                            /\ heard' = [heard EXCEPT ![q] = DecayAll(Absorb(@, field))]
                            /\ bad' = [bad EXCEPT ![r] = IF field = honest THEN @ ELSE @ + 1]
                            /\ excuse' = [excuse EXCEPT ![q] =
                                   @ \cup Blames(q, s, mine, honest, field, decoded)]
                            /\ \E text \in Hints : \E told \in WeighWords(seen, text) :
                                  support' = [support EXCEPT ![q] =
                                      IF declared # {} /\ ~IsCaptured(s, declared) THEN Collapse
                                      ELSE RuleOutImpossible(s, told)]
                  /\ over' = \/ declared # {} /\ IsCaptured(s, declared)
                             \/ ThiefSurvives(r, mine)
        /\ turn' = q

Next == \E r \in Role : Turn(r)

Spec == Init /\ [][Next]_vars
-----------------------------------------------------------------------------
(* Properties.                                                             *)

Tracker == [cell : Cell, trusted : BOOLEAN, strikes : Nat, clean : Nat]

\* Types; a belief is never empty.
TypeOK ==
    /\ own \in [Role -> State]
    /\ scent \in [Role -> Field] /\ heard \in [Role -> Field]
    /\ tracker \in [Role -> Tracker]
    /\ support \in [Role -> (SUBSET Cell) \ {{}}]
    /\ turn \in Role
    /\ bad \in [Role -> Nat] /\ bad["thief"] + bad["police"] <= MaxBad
    /\ excuse \in [Role -> SUBSET Excuse]

Played(r) == own[r].step > 0

\* strategy/decode: "a received grid always peaks on the cell the opponent is
\* standing on right now", and on that cell alone.
PeakIsSender ==
    \A r \in Role : Played(r) =>
        \A c \in Cell \ {own[r].at} : scent[r][c] < scent[r][own[r].at]

\* The copy a peer keeps of an honest opponent's trail is the trail as last
\* sent, one decay older: absorbing field after field never piles up.
ReplicaIsOneTurnOld ==
    \A r \in Role : bad[r] = 0 => heard[Opponent(r)] = DecayAll(scent[r])

\* An honest peer is never disbelieved, and is tracked to the cell; the one
\* exception is an officer that has stood inside a wall of its own.
HonestIsTracked ==
    \A r \in Role :
        (bad[r] = 0 /\ "sealed" \notin excuse[Opponent(r)]) =>
            LET t == tracker[Opponent(r)]
            IN  t.trusted /\ t.strikes = 0 /\ t.cell = own[r].at

\* While the game is on, the true cell is never ruled out, whatever is said and
\* whatever is refused, unless a field that was not the opponent's was accepted
\* or the opponent once stood where it is ruled out: on the reader, or in a wall.
TrueCellKept ==
    \A r \in Role :
        (~over /\ excuse[Opponent(r)] = {}) => own[r].at \in support[Opponent(r)]

\* strategy/decode.py: one contradiction is not enough to disbelieve a peer.
OneBadReadingForgiven ==
    \A r \in Role :
        (bad[r] <= 1 /\ "sealed" \notin excuse[Opponent(r)]) => tracker[Opponent(r)].trusted
=============================================================================
