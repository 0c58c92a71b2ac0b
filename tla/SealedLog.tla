----------------------------- MODULE SealedLog -----------------------------
(***************************************************************************)
(* Commit-reveal (domain/crypto, peer/sealing): each record is sealed with *)
(* the digest of its payload and a fresh nonce, and a whole revealed log   *)
(* is recomputed at the end of a sub-game.                                 *)
(*                                                                         *)
(* A digest is the pair it is computed from: SHA-256 over canonical JSON   *)
(* is taken to have no collisions.  Nonces tell the records of a log       *)
(* apart, so the step is nonce enough.                                     *)
(***************************************************************************)
EXTENDS Naturals

CONSTANT Steps    \* the steps of a log, step zero first

ASSUME StepsAssumption == Steps \subseteq Nat /\ 0 \in Steps

\* What was done, or the same with a byte of it altered.
Body == {"as_played", "altered"}

Digest(payload, nonce) == <<payload, nonce>>

Seal(payload, nonce) ==
    [payload |-> payload, nonce |-> nonce, commit |-> Digest(payload, nonce)]

\* Mutated form of Verifies: the digest is looked up by its nonce.
VerifiesNonce(record) == record.commit[2] = record.nonce

Verifies(record) == Digest(record.payload, record.nonce) = record.commit

\* The log of sub-game g: one sealed record a step, the sub-game's number
\* being sealed into step zero.
SealedRecords(g) ==
    [s \in Steps |-> Seal([step |-> s, sub_game |-> g, body |-> "as_played"], s)]

\* A record whose payload is no longer what was sealed ...
Altered(record) == [record EXCEPT !.payload = [@ EXCEPT !.body = "altered"]]

\* ... and one that was sealed anew after that: its commit is no longer the
\* one that was declared in play, but it matches.
Resealed(record) == Seal(Altered(record).payload, record.nonce)

\* The log with some records altered under the commit they have, others anew.
Tampered(records, spoilt, anew) ==
    [s \in DOMAIN records |->
        IF s \in spoilt THEN Altered(records[s])
        ELSE IF s \in anew THEN Resealed(records[s]) ELSE records[s]]

FailedSteps(records) == {s \in DOMAIN records : ~Verifies(records[s])}

\* Is the whole log verified, each record against the commit beside it?  One
\* without records is.
Passes(records) == FailedSteps(records) = {}
=============================================================================
