---------------------------- MODULE LedgerProofs ----------------------------
(***************************************************************************)
(* For every number of sub-games, scoring table and fault bound of Ledger: *)
(* two reports reconcile exactly when the results do, and the audit names  *)
(* the sides whose records do not match their commits, and no other.       *)
(***************************************************************************)
EXTENDS Ledger, SequenceTheorems, TLAPS

Claims == {"capture", "survival", "timeout"}
Winners == {"police", "thief", "-"}
Roll == {"police", "thief"}

Logs == {Tampered(SealedRecords(n), d, a) : n \in 1..NumGames, d, a \in SUBSET Steps}

\* p has come to the audit of sub-game n, at least.
Reached(p, n) == n < number[p] \/ (n = number[p] /\ pc[p] = "auditing")

\* p has nothing left to play or to settle.
Closed(p) == pc[p] \in {"collecting", "filing", "done"}

\* What p may have posted: reveals of its own logs and its own envelope.
Reveals(p) ==
    {m \in [sort : {"reveal"}, of : 1..NumGames, records : Logs, claim : Claims] :
        Reached(p, m.of) /\ (Passes(m.records) <=> <<p, m.of>> \notin spoilt)}
Letters(p) == Reveals(p) \cup {m \in {Envelope(p)} : Closed(p)}

Audits == [passed : BOOLEAN, present : BOOLEAN, agree : BOOLEAN,
           by : {"nobody", "both", "opponent"} \cup Roll, read : 0..NumGames]

Summaries == [sub_game_number : 1..NumGames, role : Roll,
              result : Claims \cup {"tamper_forfeit"}, winner : Winners, audit : Audits]

PlaceInv ==
    /\ pc \in [Group -> {"playing", "auditing", "settling", "collecting", "filing", "done"}]
    /\ number \in [Group -> 1..(NumGames + 1)]
    /\ \A p \in Group : number[p] = NumGames + 1 <=> pc[p] \notin {"playing", "auditing"}
    /\ board \in [1..NumGames -> {"open", "capture", "survival"}]
    /\ met \in [Group -> BOOLEAN]
    /\ result \in [Group -> Claims \X Winners]
    /\ faults \in 0..MaxFaults

\* A log is as sealed until its sub-game is over, and verifies if it still is.
LogInv ==
    /\ spoilt \subseteq Group \X (1..NumGames)
    /\ resealed \subseteq Group \X (1..NumGames)
    /\ \A p \in Group, n \in 1..NumGames : <<p, n>> \in spoilt => Reached(p, n)
    /\ DOMAIN records = Group
    /\ \A p \in Group :
        /\ pc[p] = "playing" => records[p] = SealedRecords(number[p])
        /\ pc[p] = "auditing" => records[p] \in Logs
                /\ (Passes(records[p]) <=> <<p, number[p]>> \notin spoilt)

MailInv ==
    /\ DOMAIN inbox = Group
    /\ \A p \in Group : inbox[p] \in Seq(Letters(Other(p)))

RowInv ==
    /\ DOMAIN summaries = Group
    /\ \A p \in Group :
        /\ summaries[p] \in Seq(Summaries)
        /\ Len(summaries[p]) = number[p] - 1
        /\ \A n \in DOMAIN summaries[p] :
            /\ summaries[p][n].sub_game_number = n
            /\ summaries[p][n].role = RoleFor(p, n)
            /\ summaries[p][n].audit.read # 0 => Reached(Other(p), summaries[p][n].audit.read)

\* What is settled or filed is what the summaries say, and they are complete.
ReportInv ==
    /\ DOMAIN verdict = Group /\ DOMAIN filing = Group
    /\ \A p \in Group :
        /\ verdict[p] \in {{}, {TRUE}, {FALSE}}
        /\ verdict[p] # {} => pc[p] \in {"filing", "done"}
        /\ TRUE \in verdict[p] => Closed(Other(p)) /\ OwnDigest(p) = OwnDigest(Other(p))
        /\ filing[p] # {} => pc[p] = "done" /\ filing[p] = {OwnReport(p)}

IInv == PlaceInv /\ LogInv /\ MailInv /\ RowInv /\ ReportInv /\ AuditIsFair
-----------------------------------------------------------------------------
(* Operators.                                                              *)

LEMMA OtherFacts ==
    /\ Other("home") = "away" /\ Other("away") = "home"
    /\ \A p \in Group : Other(p) \in Group /\ Other(p) # p /\ Other(Other(p)) = p
    /\ \A p, q \in Group : q # p => q = Other(p)
<1>1. Other("home") = "away" /\ Other("away") = "home"
  BY DEF Other, Group
<1> QED
  BY <1>1 DEF Group

LEMMA RoleFacts ==
    ASSUME NEW p \in Group, NEW n \in Nat
    PROVE  /\ RoleFor(p, n) \in Roll
           /\ RoleFor(Other(p), n) = Opponent(RoleFor(p, n))
<1>1. (Other(p) = "home") <=> ~(p = "home")
  BY OtherFacts DEF Group
<1> QED
  BY <1>1 DEF RoleFor, Opponent, Roll

\* A log verifies exactly when no record was altered under the commit it has,
\* however many were sealed anew.
LEMMA TamperedFacts ==
    ASSUME NEW n, NEW d \in SUBSET Steps, NEW a \in SUBSET Steps
    PROVE  Passes(Tampered(SealedRecords(n), d, a)) <=> d = {}
<1> DEFINE log == Tampered(SealedRecords(n), d, a)
<1>1. DOMAIN log = Steps
  BY DEF Tampered, SealedRecords
<1>2. ASSUME NEW s \in Steps
      PROVE  Verifies(log[s]) <=> s \notin d
  <2> DEFINE intact == [step |-> s, sub_game |-> n, body |-> "as_played"]
  <2>1. SealedRecords(n)[s] = Seal(intact, s)
    BY DEF SealedRecords
  <2>2. Seal(intact, s) = [payload |-> intact, nonce |-> s, commit |-> <<intact, s>>]
    BY DEF Seal, Digest
  <2>3. CASE s \notin d /\ s \notin a
    <3>1. log[s] = Seal(intact, s)
      BY <2>1, <2>3 DEF Tampered, SealedRecords
    <3> QED
      BY <2>2, <2>3, <3>1 DEF Verifies, Digest
  <2>5. CASE s \notin d /\ s \in a
    <3>1. log[s] = Seal(Altered(Seal(intact, s)).payload, Seal(intact, s).nonce)
      BY <2>1, <2>5 DEF Tampered, SealedRecords, Resealed
    <3>2. \A x, y : Verifies(Seal(x, y))
      BY DEF Verifies, Seal, Digest
    <3> QED
      BY <2>5, <3>1, <3>2
  <2>4. CASE s \in d
    <3>1. log[s] = Altered(Seal(intact, s))
      BY <2>1, <2>4 DEF Tampered, SealedRecords
    <3>2. /\ log[s].payload.body = "altered"
          /\ log[s].commit = <<intact, s>>
      BY <2>2, <3>1 DEF Altered
    <3>3. log[s].payload # intact
      BY <3>2
    <3> QED
      BY <2>4, <3>2, <3>3 DEF Verifies, Digest
  <2> QED
    BY <2>3, <2>4, <2>5
<1>3. FailedSteps(log) = {s \in Steps : ~Verifies(log[s])}
  BY <1>1 DEF FailedSteps
<1> QED
  BY <1>2, <1>3 DEF Passes

\* An envelope carries no records, so there is nothing in it to fail.
LEMMA EmptyPasses == Passes(<<>>)
BY DEF Passes, FailedSteps

LEMMA WiderSeq ==
    ASSUME NEW S, NEW T, S \subseteq T, NEW s \in Seq(S)
    PROVE  s \in Seq(T)
OBVIOUS

LEMMA TailFacts ==
    ASSUME NEW S, NEW s \in Seq(S), s # <<>>
    PROVE  Head(s) \in S /\ Tail(s) \in Seq(S)
OBVIOUS

LEMMA AppendFacts ==
    ASSUME NEW S, NEW s \in Seq(S), NEW e \in S
    PROVE  /\ Append(s, e) \in Seq(S)
           /\ Len(Append(s, e)) = Len(s) + 1
           /\ DOMAIN Append(s, e) = 1..(Len(s) + 1)
           /\ Append(s, e)[Len(s) + 1] = e
           /\ \A n \in 1..Len(s) : Append(s, e)[n] = s[n]
OBVIOUS

\* What a push can leave in an inbox: no copy, one or two.
Copies(m) == {<<>>, <<m>>, <<m, m>>}

LEMMA CopiesFacts ==
    ASSUME NEW S, NEW s \in Seq(S), NEW m \in S, NEW copies \in Copies(m)
    PROVE  s \o copies \in Seq(S)
<1>1. CASE copies = <<>>
  BY <1>1
<1>2. CASE copies = <<m>>
  BY <1>2
<1>3. CASE copies = <<m, m>>
  <2>1. <<m, m>> \in Seq(S)
    OBVIOUS
  <2> QED
    BY <1>3, <2>1, ConcatProperties
<1> QED
  BY <1>1, <1>2, <1>3 DEF Copies

-----------------------------------------------------------------------------
(* The invariant holds initially.                                          *)

LEMMA InitInv == Init => IInv
<1> SUFFICES ASSUME Init PROVE IInv
  OBVIOUS
<1> USE LedgerAssumption DEF Init
<1>1. PlaceInv
  BY DEF PlaceInv, Claims, Winners
<1>2. LogInv
  BY DEF LogInv, Reached
<1>3. MailInv
  BY DEF MailInv
<1>4. RowInv
  BY DEF RowInv
<1>5. ReportInv
  BY DEF ReportInv
<1>6. AuditIsFair
  BY DEF AuditIsFair
<1> QED
  BY <1>1, <1>2, <1>3, <1>4, <1>5, <1>6 DEF IInv

-----------------------------------------------------------------------------
(* What the steps of one group leave alone of the other.                   *)

LEMMA Frozen ==
    ASSUME NEW p \in Group, met'[p] = met[p], summaries'[p] = summaries[p]
    PROVE  OwnDigest(p)' = OwnDigest(p) /\ OwnReport(p)' = OwnReport(p)
           /\ Envelope(p)' = Envelope(p)
BY DEF OwnDigest, OwnReport, Envelope, Opposing

\* What was posted stays genuine.
LEMMA LettersKept ==
    ASSUME NEW p \in Group,
           \A n \in 1..NumGames : Reached(p, n) =>
                Reached(p, n)' /\ (<<p, n>> \in spoilt <=> <<p, n>> \in spoilt'),
           Closed(p) => Closed(p)' /\ Envelope(p)' = Envelope(p)
    PROVE  Letters(p) \subseteq Letters(p)'
<1>1. Reveals(p) \subseteq Reveals(p)'
  BY DEF Reveals
<1> QED
  BY <1>1 DEF Letters

\* A group at rest: none of its variables changes.
LEMMA AtRest ==
    ASSUME NEW p \in Group, pc'[p] = pc[p], number'[p] = number[p],
           met'[p] = met[p], summaries'[p] = summaries[p],
           \A n \in 1..NumGames : <<p, n>> \in spoilt <=> <<p, n>> \in spoilt'
    PROVE  /\ Letters(p) \subseteq Letters(p)'
           /\ Closed(p)' <=> Closed(p)
           /\ \A n \in 1..NumGames : Reached(p, n)' <=> Reached(p, n)
<1>1. \A n \in 1..NumGames : Reached(p, n)' <=> Reached(p, n)
  BY DEF Reached
<1>2. Closed(p)' <=> Closed(p)
  BY DEF Closed
<1>3. Envelope(p)' = Envelope(p)
  BY Frozen
<1> QED
  BY <1>1, <1>2, <1>3, LettersKept

-----------------------------------------------------------------------------
(* The next sub-game.                                                      *)

\* What AuditIsFair says of one row.
FairRow(p, n, s) ==
    LET audit == s.audit
        mine  == <<p, n>> \in spoilt
        other == <<Other(p), audit.read>> \in spoilt
    IN  /\ audit.by # "nobody" => audit.present /\ (mine \/ other)
        /\ audit.by \in {"opponent", "both"} <=> other
        /\ audit.present => (audit.by \in {"both", s.role} <=> mine)
        /\ audit.passed => ~mine /\ ~other
        /\ audit.present /\ ~mine /\ ~other => audit.passed

LEMMA FairRows ==
    AuditIsFair <=> \A p \in Group : \A n \in DOMAIN summaries[p] : FairRow(p, n, summaries[p][n])
BY DEF AuditIsFair, FairRow

LEMMA NextSubGameInv ==
    ASSUME IInv, NEW p \in Group, NEW s \in Summaries,
           pc[p] \in {"playing", "auditing"}, NextSubGame(p, s),
           s.sub_game_number = number[p], s.role = RoleFor(p, number[p]),
           s.audit.read # 0 => Reached(Other(p), s.audit.read),
           FairRow(p, number[p], s),
           met' \in [Group -> BOOLEAN], met'[Other(p)] = met[Other(p)],
           DOMAIN inbox' = Group, \A q \in Group : inbox'[q] \in Seq(Letters(Other(q))),
           faults' \in 0..MaxFaults,
           UNCHANGED <<board, result, verdict, filing, spoilt, resealed>>
    PROVE  IInv'
<1> DEFINE o == Other(p)
<1>o. o \in Group /\ o # p /\ Other(o) = p /\ Other(p) = o /\ \A q \in Group : q = p \/ q = o
  BY OtherFacts
<1> HIDE DEF o
<1>n. number[p] \in 1..NumGames /\ NumGames \in Nat
  BY LedgerAssumption DEF IInv, PlaceInv
<1>1. /\ number' = [number EXCEPT ![p] = @ + 1]
      /\ summaries' = [summaries EXCEPT ![p] = Append(@, s)]
      /\ pc' = [pc EXCEPT ![p] = IF number[p] = NumGames THEN "settling" ELSE "playing"]
      /\ records' = [records EXCEPT ![p] = SealedRecords(number[p] + 1)]
  BY DEF NextSubGame
<1>2. /\ number'[o] = number[o] /\ pc'[o] = pc[o] /\ records'[o] = records[o]
      /\ summaries'[o] = summaries[o] /\ met'[o] = met[o]
      /\ number'[p] = number[p] + 1
      /\ pc'[p] = (IF number[p] = NumGames THEN "settling" ELSE "playing")
      /\ records'[p] = SealedRecords(number[p] + 1)
      /\ summaries'[p] = Append(summaries[p], s)
      /\ DOMAIN summaries' = Group /\ DOMAIN records' = Group
  BY <1>1, <1>o DEF IInv, PlaceInv, RowInv, LogInv, o
<1>3. PlaceInv'
  BY <1>1, <1>2, <1>n, <1>o DEF IInv, PlaceInv
<1>4. \A n \in 1..NumGames : Reached(p, n) => Reached(p, n)'
  BY <1>2, <1>n DEF Reached
<1>5. ~Closed(p) /\ ~Closed(p)'
  BY <1>2 DEF Closed
<1>6. /\ Letters(p) \subseteq Letters(p)' /\ Letters(o) \subseteq Letters(o)'
      /\ Closed(o)' <=> Closed(o)
      /\ \A n \in 1..NumGames : Reached(o, n)' <=> Reached(o, n)
  BY <1>2, <1>4, <1>5, <1>o, LettersKept, AtRest
<1>7. LogInv'
  <2>1. \A q \in Group, n \in 1..NumGames : <<q, n>> \in spoilt' => Reached(q, n)'
    BY <1>4, <1>6, <1>o DEF IInv, LogInv
  <2>2. /\ pc'[p] = "playing" => records'[p] = SealedRecords(number'[p])
        /\ pc'[p] # "auditing"
    BY <1>2
  <2>3. /\ pc'[o] = "playing" => records'[o] = SealedRecords(number'[o])
        /\ pc'[o] = "auditing" => records'[o] \in Logs
                /\ (Passes(records'[o]) <=> <<o, number'[o]>> \notin spoilt')
    BY <1>2, <1>o DEF IInv, LogInv
  <2> QED
    BY <2>1, <2>2, <2>3, <1>2, <1>o DEF IInv, LogInv
<1>8. MailInv'
  <2>1. \A q \in Group : Letters(Other(q)) \subseteq Letters(Other(q))'
    BY <1>6, <1>o
  <2>2. \A q \in Group : inbox'[q] \in Seq(Letters(Other(q))')
    BY <2>1, WiderSeq
  <2> QED
    BY <2>2 DEF MailInv
<1>9. /\ summaries'[p] \in Seq(Summaries)
      /\ Len(summaries'[p]) = number'[p] - 1
      /\ DOMAIN summaries'[p] = 1..number[p]
      /\ summaries'[p][number[p]] = s
      /\ \A n \in 1..(number[p] - 1) : summaries'[p][n] = summaries[p][n]
      /\ DOMAIN summaries[p] = 1..(number[p] - 1)
  <2>1. /\ summaries[p] \in Seq(Summaries) /\ Len(summaries[p]) = number[p] - 1
    BY DEF IInv, RowInv
  <2>2. /\ Append(summaries[p], s) \in Seq(Summaries)
        /\ Len(Append(summaries[p], s)) = Len(summaries[p]) + 1
        /\ DOMAIN Append(summaries[p], s) = 1..(Len(summaries[p]) + 1)
        /\ Append(summaries[p], s)[Len(summaries[p]) + 1] = s
        /\ \A n \in 1..Len(summaries[p]) : Append(summaries[p], s)[n] = summaries[p][n]
    BY <2>1, AppendFacts
  <2>3. DOMAIN summaries[p] = 1..Len(summaries[p]) /\ Len(summaries[p]) \in Nat
    BY <2>1
  <2>4. Len(summaries[p]) + 1 = number[p]
    BY <2>1, <2>3, <1>n
  <2> QED
    BY <2>1, <2>2, <2>3, <2>4, <1>2, <1>n
<1>10. ASSUME NEW n \in DOMAIN summaries'[p]
       PROVE  /\ summaries'[p][n].sub_game_number = n
              /\ summaries'[p][n].role = RoleFor(p, n)
              /\ \A m \in 1..NumGames : summaries'[p][n].audit.read = m => Reached(o, m)
              /\ FairRow(p, n, summaries'[p][n])
  <2>1. CASE n = number[p]
    <3>1. s.audit.read \in 0..NumGames
      BY DEF Summaries, Audits
    <3>2. \A m \in 1..NumGames : s.audit.read = m => Reached(o, m)
      BY <1>o, <1>n
    <3> QED
      BY <2>1, <3>1, <3>2, <1>9
  <2>2. CASE n # number[p]
    <3>1. n \in 1..(number[p] - 1) /\ n \in DOMAIN summaries[p] /\ summaries'[p][n] = summaries[p][n]
      BY <2>2, <1>9, <1>n
    <3>2. summaries[p][n].audit.read \in 0..NumGames
      <4>1. summaries[p] \in Seq(Summaries)
        BY DEF IInv, RowInv
      <4>2. summaries[p][n] \in Summaries
        BY <3>1, <4>1
      <4> QED
        BY <4>2 DEF Summaries, Audits
    <3>3. FairRow(p, n, summaries[p][n])
      BY <3>1, FairRows DEF IInv
    <3>4. /\ summaries[p][n].sub_game_number = n
          /\ summaries[p][n].role = RoleFor(p, n)
          /\ summaries[p][n].audit.read # 0 => Reached(o, summaries[p][n].audit.read)
      BY <3>1, <1>o DEF IInv, RowInv
    <3> QED
      BY <3>1, <3>2, <3>3, <3>4, <1>n
  <2> QED
    BY <2>1, <2>2
<1>11. ASSUME NEW n \in DOMAIN summaries[o]
       PROVE  /\ summaries[o][n].sub_game_number = n
              /\ summaries[o][n].role = RoleFor(o, n)
              /\ \A m \in 1..NumGames : summaries[o][n].audit.read = m => Reached(p, m)
              /\ FairRow(o, n, summaries[o][n])
  <2>1. summaries[o] \in Seq(Summaries)
    BY <1>o DEF IInv, RowInv
  <2>2. summaries[o][n] \in Summaries
    BY <2>1
  <2>3. summaries[o][n].audit.read \in 0..NumGames
    BY <2>2 DEF Summaries, Audits
  <2>4. FairRow(o, n, summaries[o][n])
    BY <1>o, FairRows DEF IInv
  <2>5. /\ summaries[o][n].sub_game_number = n
        /\ summaries[o][n].role = RoleFor(o, n)
        /\ summaries[o][n].audit.read # 0 => Reached(p, summaries[o][n].audit.read)
    BY <1>o DEF IInv, RowInv
  <2> QED
    BY <2>3, <2>4, <2>5, <1>n
<1>12. RowInv'
  <2>1. summaries'[o] \in Seq(Summaries) /\ Len(summaries'[o]) = number'[o] - 1
    BY <1>2, <1>o DEF IInv, RowInv
  <2>2. ASSUME NEW q \in Group, NEW n \in DOMAIN summaries'[q]
        PROVE  /\ summaries'[q][n].sub_game_number = n
               /\ summaries'[q][n].role = RoleFor(q, n)
               /\ \A m \in 1..NumGames : summaries'[q][n].audit.read = m => Reached(Other(q), m)'
    <3>1. CASE q = p
      <4>1. n \in DOMAIN summaries'[p] /\ Other(q) = o
        BY <3>1, <1>o
      <4> QED
        BY <3>1, <4>1, <1>6, <1>10
    <3>2. CASE q = o
      <4>1. n \in DOMAIN summaries[o] /\ Other(q) = p /\ summaries'[q] = summaries[o]
        BY <3>2, <1>o, <1>2
      <4> QED
        BY <3>2, <4>1, <1>4, <1>11
    <3> QED
      BY <3>1, <3>2, <1>o
  <2>3. ASSUME NEW q \in Group, NEW n \in DOMAIN summaries'[q]
        PROVE  summaries'[q][n].audit.read \in 0..NumGames
    <3>1. summaries'[q] \in Seq(Summaries)
      BY <2>1, <1>9, <1>o
    <3>2. summaries'[q][n] \in Summaries
      BY <3>1
    <3> QED
      BY <3>2 DEF Summaries, Audits
  <2>4. ASSUME NEW q \in Group, NEW n \in DOMAIN summaries'[q], summaries'[q][n].audit.read # 0
        PROVE  Reached(Other(q), summaries[q][n].audit.read)'
    <3>1. summaries'[q][n].audit.read \in 1..NumGames
      BY <2>3, <2>4, <1>n
    <3>2. PICK m \in 1..NumGames : summaries'[q][n].audit.read = m
      BY <3>1
    <3>3. Reached(Other(q), m)'
      BY <2>2, <3>2
    <3> QED
      BY <3>2, <3>3 DEF Reached
  <2> QED
    BY <2>1, <2>2, <2>4, <1>9, <1>2, <1>o DEF RowInv
<1>13. AuditIsFair'
  <2>1. ASSUME NEW q \in Group, NEW n \in DOMAIN summaries'[q]
        PROVE  FairRow(q, n, summaries'[q][n])
    <3>1. CASE q = p
      BY <3>1, <1>10
    <3>2. CASE q = o
      BY <3>2, <1>11, <1>2
    <3> QED
      BY <3>1, <3>2, <1>o
  <2>2. spoilt' = spoilt
    OBVIOUS
  <2> QED
    BY <2>1, <2>2 DEF AuditIsFair, FairRow
<1>14. ReportInv'
  <2>1. verdict[p] = {} /\ filing[p] = {}
    BY DEF IInv, ReportInv
  <2>2. TRUE \notin verdict[o]
    BY <1>5, <1>o DEF IInv, ReportInv
  <2>3. OwnReport(o)' = OwnReport(o)
    BY <1>2, <1>o, Frozen
  <2>4. verdict' = verdict /\ filing' = filing
    OBVIOUS
  <2>5. filing[o] # {} => pc'[o] = "done" /\ filing[o] = {OwnReport(o)'}
    BY <2>3, <1>2, <1>o DEF IInv, ReportInv
  <2>6. verdict[o] \in {{}, {TRUE}, {FALSE}} /\ (verdict[o] # {} => pc'[o] \in {"filing", "done"})
    BY <1>2, <1>o DEF IInv, ReportInv
  <2>7. DOMAIN verdict' = Group /\ DOMAIN filing' = Group
    BY <2>4 DEF IInv, ReportInv
  <2>8. ASSUME NEW q \in Group
        PROVE  /\ verdict'[q] \in {{}, {TRUE}, {FALSE}}
               /\ verdict'[q] # {} => pc'[q] \in {"filing", "done"}
               /\ TRUE \notin verdict'[q]
               /\ filing'[q] # {} => pc'[q] = "done" /\ filing'[q] = {OwnReport(q)'}
    BY <2>1, <2>2, <2>4, <2>5, <2>6, <1>o
  <2> QED
    BY <2>7, <2>8 DEF ReportInv
<1> QED
  BY <1>3, <1>7, <1>8, <1>12, <1>13, <1>14 DEF IInv

\* A log of a sub-game that p has not come to the audit of is not altered.
LEMMA NotYetSpoilt ==
    ASSUME IInv, NEW p \in Group, pc[p] = "playing"
    PROVE  <<p, number[p]>> \notin spoilt /\ \A q \in Group : <<q, 0>> \notin spoilt
<1>1. ~Reached(p, number[p])
  BY DEF Reached, IInv, PlaceInv
<1>2. number[p] \in 1..NumGames
  BY LedgerAssumption DEF IInv, PlaceInv
<1> QED
  BY <1>1, <1>2 DEF IInv, LogInv

LEMMA LoseInv ==
    ASSUME IInv, NEW p \in Group, Lose(p)
    PROVE  IInv'
<1>1. PICK shaken \in BOOLEAN, loss \in {"timeout", "tamper_forfeit"} :
        /\ met' = [met EXCEPT ![p] = @ \/ shaken]
        /\ NextSubGame(p, Summary(p, loss, "-", NoAudit))
  BY DEF Lose
<1> DEFINE s == Summary(p, loss, "-", NoAudit)
<1>2. number[p] \in 1..NumGames /\ number[p] \in Nat /\ pc[p] = "playing"
  BY LedgerAssumption DEF IInv, PlaceInv, Lose
<1>3. s = [sub_game_number |-> number[p], role |-> RoleFor(p, number[p]),
           result |-> loss, winner |-> "-", audit |-> NoAudit]
  BY DEF Summary
<1>4. NoAudit \in Audits
  BY LedgerAssumption DEF NoAudit, Unread, Audits
<1>5. s \in Summaries
  BY <1>2, <1>3, <1>4, RoleFacts DEF Summaries, Claims, Winners
<1>6. FairRow(p, number[p], s)
  BY <1>2, <1>3, NotYetSpoilt, OtherFacts, RoleFacts DEF FairRow, NoAudit, Unread, Roll
<1>7. met' \in [Group -> BOOLEAN] /\ met'[Other(p)] = met[Other(p)]
  BY <1>1, OtherFacts DEF IInv, PlaceInv
<1>8. faults' \in 0..MaxFaults
  BY LedgerAssumption DEF Lose, Costs, IInv, PlaceInv
<1>9. DOMAIN inbox' = Group /\ \A q \in Group : inbox'[q] \in Seq(Letters(Other(q)))
  BY DEF Lose, IInv, MailInv
<1>10. /\ s.audit.read = 0 /\ s.sub_game_number = number[p] /\ s.role = RoleFor(p, number[p])
  BY <1>3 DEF NoAudit, Unread
<1>11. UNCHANGED <<board, result, verdict, filing, spoilt, resealed>>
  BY DEF Lose
<1>12. NextSubGame(p, s) /\ pc[p] \in {"playing", "auditing"}
  BY <1>1, <1>2
<1> HIDE DEF s
<1> QED
  BY <1>5, <1>6, <1>7, <1>8, <1>9, <1>10, <1>11, <1>12, NextSubGameInv

\* What p finds in its inbox was posted by the other and is genuine.
LEMMA LetterFacts ==
    ASSUME NEW o \in Group, NEW m \in Letters(o), spoilt \subseteq Group \X (1..NumGames)
    PROVE  /\ m.of \in 0..NumGames
           /\ m.of # 0 => Reached(o, m.of)
           /\ Passes(m.records) <=> <<o, m.of>> \notin spoilt
<1>1. CASE m \in Reveals(o)
  BY <1>1, LedgerAssumption DEF Reveals
<1>2. CASE m = Envelope(o)
  <2>1. m.of = 0 /\ m.records = <<>>
    BY <1>2 DEF Envelope
  <2> QED
    BY <2>1, EmptyPasses, LedgerAssumption
<1> QED
  BY <1>1, <1>2 DEF Letters

LEMMA AuditInv ==
    ASSUME IInv, NEW p \in Group, Audit(p)
    PROVE  IInv'
<1> DEFINE o == Other(p)
<1>o. o \in Group /\ o # p
  BY OtherFacts
<1>1. number[p] \in 1..NumGames /\ number[p] \in Nat /\ pc[p] = "auditing"
  BY LedgerAssumption DEF IInv, PlaceInv, Audit
<1>2. /\ UNCHANGED <<board, met, result, verdict, filing, spoilt, resealed, faults>>
      /\ met' \in [Group -> BOOLEAN] /\ met'[o] = met[o] /\ faults' \in 0..MaxFaults
  BY DEF Audit, IInv, PlaceInv
<1>3. Passes(records[p]) <=> <<p, number[p]>> \notin spoilt
  BY <1>1 DEF IInv, LogInv
<1>4. result[p][1] \in Claims /\ result[p][2] \in Winners
  BY DEF IInv, PlaceInv
<1>5. RoleFor(p, number[p]) \in Roll
  BY <1>1, RoleFacts
<1>6. DOMAIN inbox = Group /\ \A q \in Group : inbox[q] \in Seq(Letters(Other(q)))
  BY DEF IInv, MailInv
<1>7. spoilt \subseteq Group \X (1..NumGames)
  BY DEF IInv, LogInv
<1>8. CASE inbox[p] # <<>> /\ NextSubGame(p, Summary(p, result[p][1], result[p][2], Audited(p, Head(inbox[p]))))
                /\ inbox' = [inbox EXCEPT ![p] = Tail(@)]
  <2> DEFINE m == Head(inbox[p])
  <2> DEFINE a == Audited(p, m)
  <2> DEFINE s == Summary(p, result[p][1], result[p][2], a)
  <2>1. m \in Letters(o) /\ Tail(inbox[p]) \in Seq(Letters(o))
    BY <1>6, <1>8, TailFacts
  <2>2. DOMAIN inbox' = Group /\ \A q \in Group : inbox'[q] \in Seq(Letters(Other(q)))
    BY <2>1, <1>6, <1>8
  <2>3. /\ m.of \in 0..NumGames
        /\ m.of # 0 => Reached(o, m.of)
        /\ Passes(m.records) <=> <<o, m.of>> \notin spoilt
    BY <2>1, <1>o, <1>7, LetterFacts
  <2> HIDE DEF m
  <2>4. /\ a.passed = (Passes(records[p]) /\ Passes(m.records))
        /\ a.present = TRUE /\ a.read = m.of
        /\ a.by = Blame(Passes(records[p]), Passes(m.records), RoleFor(p, number[p]))
    BY DEF Audited
  <2>5. a \in Audits
    <3>1. Blame(Passes(records[p]), Passes(m.records), RoleFor(p, number[p]))
              \in {"nobody", "both", "opponent"} \cup Roll
      BY <1>5 DEF Blame
    <3>2. (Passes(records[p]) /\ Passes(m.records)) \in BOOLEAN /\ (m.claim = result[p][1]) \in BOOLEAN
      OBVIOUS
    <3> QED
      BY <3>1, <3>2, <2>3 DEF Audits, Audited
  <2>6. s = [sub_game_number |-> number[p], role |-> RoleFor(p, number[p]),
             result |-> result[p][1], winner |-> result[p][2], audit |-> a]
    BY DEF Summary
  <2> HIDE DEF a
  <2>7. s \in Summaries
    BY <2>5, <2>6, <1>1, <1>4, <1>5 DEF Summaries
  <2>8. FairRow(p, number[p], s)
    <3>1. s.audit = a /\ s.role = RoleFor(p, number[p])
      BY <2>6
    <3> QED
      BY <3>1, <2>3, <2>4, <1>3, <1>5 DEF FairRow, Blame, Roll
  <2>9. s.audit.read # 0 => Reached(o, s.audit.read)
    BY <2>3, <2>4, <2>6
  <2>10. s.sub_game_number = number[p] /\ s.role = RoleFor(p, number[p])
    BY <2>6
  <2>11. NextSubGame(p, s)
    BY <1>8 DEF m, a
  <2> HIDE DEF s
  <2> QED
    BY <2>2, <2>7, <2>8, <2>9, <2>10, <2>11, <1>1, <1>2, NextSubGameInv
<1>9. CASE NextSubGame(p, Summary(p, result[p][1], result[p][2], Unanswered(p))) /\ inbox' = inbox
  <2> DEFINE a == Unanswered(p)
  <2> DEFINE s == Summary(p, result[p][1], result[p][2], a)
  <2>1. a = [passed |-> Passes(records[p]), present |-> FALSE, agree |-> FALSE,
             by |-> "nobody", read |-> 0]
    BY DEF Unanswered, Unread
  <2>2. a \in Audits
    BY <2>1, LedgerAssumption DEF Audits, Passes
  <2>3. s = [sub_game_number |-> number[p], role |-> RoleFor(p, number[p]),
             result |-> result[p][1], winner |-> result[p][2], audit |-> a]
    BY DEF Summary
  <2>4. s \in Summaries
    BY <2>2, <2>3, <1>1, <1>4, <1>5 DEF Summaries
  <2>5. <<o, 0>> \notin spoilt
    BY <1>7
  <2>6. FairRow(p, number[p], s)
    <3>1. s.audit = a /\ s.role = RoleFor(p, number[p])
      BY <2>3
    <3> QED
      BY <3>1, <2>1, <2>5, <1>3 DEF FairRow
  <2>7. s.audit.read = 0 /\ s.sub_game_number = number[p] /\ s.role = RoleFor(p, number[p])
    BY <2>1, <2>3
  <2>8. NextSubGame(p, s)
    BY <1>9
  <2>9. DOMAIN inbox' = Group /\ \A q \in Group : inbox'[q] \in Seq(Letters(Other(q)))
    BY <1>6, <1>9
  <2> HIDE DEF s
  <2> QED
    BY <2>4, <2>6, <2>7, <2>8, <2>9, <1>1, <1>2, NextSubGameInv
<1> QED
  BY <1>8, <1>9 DEF Audit

LEMMA ConcludeInv ==
    ASSUME IInv, NEW p \in Group, Conclude(p)
    PROVE  IInv'
<1> DEFINE o == Other(p)
<1>o. o \in Group /\ o # p /\ Other(o) = p /\ Other(p) = o /\ \A q \in Group : q = p \/ q = o
  BY OtherFacts
<1> HIDE DEF o
<1>n. number[p] \in 1..NumGames /\ NumGames \in Nat /\ pc[p] = "playing" /\ number[p] \in Nat
  BY LedgerAssumption DEF IInv, PlaceInv, Conclude
<1>1. PICK ending \in Claims, damage \in SUBSET Steps, anew \in SUBSET Steps :
        /\ board' = IF ending = "timeout" THEN board ELSE [board EXCEPT ![number[p]] = ending]
        /\ result' = [result EXCEPT ![p] =
              <<ending, IF ending = "timeout" THEN RoleFor(p, number[p]) ELSE Winner(ending)>>]
        /\ records' = [records EXCEPT ![p] = Tampered(@, damage, anew)]
        /\ spoilt' = IF damage = {} THEN spoilt ELSE spoilt \cup {<<p, number[p]>>}
        /\ resealed' = IF anew \subseteq {0} THEN resealed ELSE resealed \cup {<<p, number[p]>>}
        /\ Send(p, Reveal(p, records'[p], ending),
                (IF ending = "timeout" THEN 1 ELSE 0) + (IF damage \cup anew = {} THEN 0 ELSE 1))
  BY DEF Conclude, Claims
<1>2. /\ met' = [met EXCEPT ![p] = TRUE]
      /\ pc' = [pc EXCEPT ![p] = "auditing"]
      /\ UNCHANGED <<number, summaries, verdict, filing>>
  BY DEF Conclude
<1>3. /\ pc'[p] = "auditing" /\ pc'[o] = pc[o] /\ met'[o] = met[o]
      /\ records'[o] = records[o] /\ DOMAIN records' = Group
      /\ records'[p] = Tampered(SealedRecords(number[p]), damage, anew)
  <2>1. records[p] = SealedRecords(number[p]) /\ DOMAIN records = Group
    BY <1>n DEF IInv, LogInv
  <2> QED
    BY <2>1, <1>1, <1>2, <1>o DEF IInv, PlaceInv
<1>4. PlaceInv'
  <2>1. <<ending, IF ending = "timeout" THEN RoleFor(p, number[p]) ELSE Winner(ending)>>
            \in Claims \X Winners
    BY <1>n, RoleFacts DEF Winner, Winners, Roll
  <2>2. result' \in [Group -> Claims \X Winners]
    BY <2>1, <1>1 DEF IInv, PlaceInv
  <2>3. board' \in [1..NumGames -> {"open", "capture", "survival"}]
    BY <1>1, <1>n DEF IInv, PlaceInv, Claims
  <2>4. faults' \in 0..MaxFaults
    <3>1. \A wrong \in 0..3 : Costs(wrong) => faults' \in 0..MaxFaults
      BY LedgerAssumption DEF Costs, IInv, PlaceInv
    <3> DEFINE wrong == (IF ending = "timeout" THEN 1 ELSE 0) + (IF damage \cup anew = {} THEN 0 ELSE 1)
    <3>2. wrong \in 0..3 /\ wrong + 1 \in 0..3
      OBVIOUS
    <3>3. Costs(wrong) \/ Costs(wrong + 1)
      BY <1>1 DEF Send
    <3> HIDE DEF wrong
    <3> QED
      BY <3>1, <3>2, <3>3
  <2>5. /\ pc' \in [Group -> {"playing", "auditing", "settling", "collecting", "filing", "done"}]
        /\ \A q \in Group : number[q] = NumGames + 1 <=> pc'[q] \notin {"playing", "auditing"}
    BY <1>2, <1>3, <1>n, <1>o DEF IInv, PlaceInv
  <2>6. met' \in [Group -> BOOLEAN]
    BY <1>2 DEF IInv, PlaceInv
  <2>7. number' = number
    BY <1>2
  <2> QED
    BY <2>2, <2>3, <2>4, <2>5, <2>6, <2>7 DEF IInv, PlaceInv
<1>5. /\ ~Reached(p, number[p]) /\ Reached(p, number[p])'
      /\ \A n \in 1..NumGames : Reached(p, n) => Reached(p, n)' /\ n # number[p]
  BY <1>2, <1>3, <1>n DEF Reached
<1>6. /\ \A n : n # number[p] => (<<p, n>> \in spoilt' <=> <<p, n>> \in spoilt)
      /\ \A n : <<o, n>> \in spoilt' <=> <<o, n>> \in spoilt
      /\ <<p, number[p]>> \notin spoilt
      /\ <<p, number[p]>> \in spoilt' <=> damage # {}
  <2>1. <<p, number[p]>> \notin spoilt
    BY <1>5, <1>n DEF IInv, LogInv
  <2> QED
    BY <2>1, <1>1, <1>o
<1>7. ~Closed(p) /\ ~Closed(p)'
  BY <1>n, <1>3 DEF Closed
<1>8. /\ Letters(p) \subseteq Letters(p)' /\ Letters(o) \subseteq Letters(o)'
      /\ Closed(o)' <=> Closed(o)
      /\ \A n \in 1..NumGames : Reached(o, n)' <=> Reached(o, n)
  <2>1. Letters(p) \subseteq Letters(p)'
    BY <1>5, <1>6, <1>7, LettersKept
  <2>2. number'[o] = number[o] /\ summaries'[o] = summaries[o]
    BY <1>2
  <2> QED
    BY <2>1, <2>2, <1>3, <1>6, <1>o, AtRest
<1>9. records'[p] \in Logs /\ (Passes(records'[p]) <=> damage = {})
  BY <1>3, <1>n, TamperedFacts DEF Logs
<1>10. LogInv'
  <2>1. spoilt' \subseteq Group \X (1..NumGames) /\ resealed' \subseteq Group \X (1..NumGames)
    BY <1>1, <1>n DEF IInv, LogInv
  <2>2. ASSUME NEW q \in Group, NEW n \in 1..NumGames, <<q, n>> \in spoilt'
        PROVE  Reached(q, n)'
    <3>1. CASE q = p /\ n = number[p]
      <4>1. Reached(p, number[p])'
        BY <1>5
      <4> QED
        BY <3>1, <4>1, <1>2 DEF Reached
    <3>2. CASE q = p /\ n # number[p]
      BY <3>2, <2>2, <1>5, <1>6 DEF IInv, LogInv
    <3>3. CASE q = o
      BY <3>3, <2>2, <1>6, <1>8, <1>o DEF IInv, LogInv
    <3> QED
      BY <3>1, <3>2, <3>3, <1>o
  <2>3. /\ pc'[p] # "playing" /\ records'[p] \in Logs
        /\ Passes(records'[p]) <=> <<p, number'[p]>> \notin spoilt'
    BY <1>2, <1>3, <1>6, <1>9
  <2>4. /\ pc'[o] = "playing" => records'[o] = SealedRecords(number'[o])
        /\ pc'[o] = "auditing" => records'[o] \in Logs
                /\ (Passes(records'[o]) <=> <<o, number'[o]>> \notin spoilt')
    BY <1>2, <1>3, <1>6, <1>o DEF IInv, LogInv
  <2> QED
    BY <2>1, <2>2, <2>3, <2>4, <1>3, <1>o DEF LogInv
<1>11. MailInv'
  <2>1. DOMAIN inbox = Group /\ \A q \in Group : inbox[q] \in Seq(Letters(Other(q)))
    BY DEF IInv, MailInv
  <2>2. \A q \in Group : inbox[q] \in Seq(Letters(Other(q))')
    <3>1. \A q \in Group : Letters(Other(q)) \subseteq Letters(Other(q))'
      BY <1>8, <1>o
    <3> QED
      BY <3>1, <2>1, WiderSeq
  <2>0. PICK m : m = Reveal(p, records'[p], ending)
    OBVIOUS
  <2>3. m \in Letters(p)'
    <3>1. m = [sort |-> "reveal", of |-> number[p], records |-> records'[p], claim |-> ending]
      BY <2>0 DEF Reveal
    <3>2. m \in [sort : {"reveal"}, of : 1..NumGames, records : Logs, claim : Claims]
      BY <3>1, <1>9, <1>n
    <3>3. Reached(p, m.of)' /\ (Passes(m.records) <=> <<p, m.of>> \notin spoilt')
      <4>1. m.of = number[p] /\ m.records = records'[p]
        BY <3>1
      <4>2. Reached(p, m.of)'
        BY <4>1, <1>5, <1>2 DEF Reached
      <4> QED
        BY <4>1, <4>2, <1>6, <1>9
    <3> QED
      BY <3>2, <3>3, <1>2 DEF Letters, Reveals
  <2>4. PICK copies \in Copies(m) : Push(p, copies)
    BY <2>0, <1>1 DEF Send, Copies
  <2>5. inbox' = [inbox EXCEPT ![o] = @ \o copies]
    BY <2>4, <1>o DEF Push
  <2>6. inbox'[o] = inbox[o] \o copies /\ inbox'[p] = inbox[p] /\ DOMAIN inbox' = Group
    BY <2>5, <2>1, <1>o
  <2>7. inbox[o] \in Seq(Letters(p)')
    BY <2>2, <1>o
  <2>8. inbox[o] \o copies \in Seq(Letters(p)')
    BY <2>7, <2>3, <2>4, CopiesFacts
  <2>9. ASSUME NEW q \in Group
        PROVE  inbox'[q] \in Seq(Letters(Other(q))')
    BY <2>6, <2>8, <2>2, <1>o
  <2> QED
    BY <2>6, <2>9 DEF MailInv
<1>12. ASSUME NEW q \in Group, NEW n \in DOMAIN summaries[q]
       PROVE  /\ summaries[q][n].audit.read \in 0..NumGames
              /\ n \in 1..NumGames /\ n # number[q]
  <2>1. /\ summaries[q] \in Seq(Summaries) /\ Len(summaries[q]) = number[q] - 1
        /\ number[q] \in 1..(NumGames + 1)
    BY DEF IInv, RowInv, PlaceInv
  <2>2. summaries[q][n] \in Summaries
    BY <2>1
  <2>3. n \in 1..Len(summaries[q])
    BY <2>1
  <2>4. summaries[q][n].audit.read \in 0..NumGames
    BY <2>2 DEF Summaries, Audits
  <2> QED
    BY <2>1, <2>3, <2>4, <1>n
<1>13. \A q \in Group, n \in 1..NumGames : Reached(q, n) => Reached(q, n)'
  BY <1>5, <1>8, <1>o
<1>14. RowInv'
  <2>1. ASSUME NEW q \in Group, NEW n \in DOMAIN summaries[q], summaries[q][n].audit.read # 0
        PROVE  Reached(Other(q), summaries[q][n].audit.read)'
    <3>1. PICK k \in 1..NumGames : k = summaries[q][n].audit.read
      BY <2>1, <1>12, <1>n
    <3>2. Reached(Other(q), k)
      BY <2>1, <3>1 DEF IInv, RowInv
    <3>3. Reached(Other(q), k)'
      BY <3>1, <3>2, <1>13, OtherFacts
    <3> QED
      BY <3>1, <3>3, <1>2 DEF Reached
  <2> QED
    BY <2>1, <1>2 DEF IInv, RowInv
<1>15. AuditIsFair'
  <2>1. ASSUME NEW q \in Group, NEW n \in DOMAIN summaries[q]
        PROVE  FairRow(q, n, summaries[q][n])'
    <3> DEFINE k == summaries[q][n].audit.read
    <3>1. k \in 0..NumGames /\ k # 0 => Reached(Other(q), k)
      BY <1>12 DEF IInv, RowInv
    <3>2. <<q, n>> \in spoilt' <=> <<q, n>> \in spoilt
      <4>1. CASE q = p
        BY <4>1, <1>6, <1>12
      <4>2. CASE q = o
        BY <4>2, <1>6
      <4> QED
        BY <4>1, <4>2, <1>o
    <3>3. <<Other(q), k>> \in spoilt' <=> <<Other(q), k>> \in spoilt
      <4>1. CASE q = p
        BY <4>1, <1>6, <1>o
      <4>2. CASE q = o
        <5>1. k # number[p]
          BY <4>2, <3>1, <1>5, <1>n, <1>o
        <5>2. Other(q) = p
          BY <4>2, <1>o
        <5> QED
          BY <5>1, <5>2, <1>6
      <4> QED
        BY <4>1, <4>2, <1>o
    <3>4. FairRow(q, n, summaries[q][n]) /\ summaries' = summaries
      BY <1>2, FairRows DEF IInv
    <3> QED
      BY <3>2, <3>3, <3>4 DEF FairRow
  <2> QED
    BY <2>1, <1>2 DEF AuditIsFair, FairRow
<1>16. ReportInv'
  <2>1. verdict[p] = {} /\ filing[p] = {}
    BY <1>n DEF IInv, ReportInv
  <2>2. TRUE \notin verdict[o]
    BY <1>7, <1>o DEF IInv, ReportInv
  <2>3. OwnReport(o)' = OwnReport(o)
    BY <1>2, <1>3, <1>o, Frozen
  <2>4. verdict' = verdict /\ filing' = filing
    BY <1>2
  <2>5. filing[o] # {} => pc'[o] = "done" /\ filing[o] = {OwnReport(o)'}
    BY <2>3, <1>3, <1>o DEF IInv, ReportInv
  <2>6. verdict[o] \in {{}, {TRUE}, {FALSE}} /\ (verdict[o] # {} => pc'[o] \in {"filing", "done"})
    BY <1>3, <1>o DEF IInv, ReportInv
  <2>7. DOMAIN verdict' = Group /\ DOMAIN filing' = Group
    BY <2>4 DEF IInv, ReportInv
  <2>8. ASSUME NEW q \in Group
        PROVE  /\ verdict'[q] \in {{}, {TRUE}, {FALSE}}
               /\ verdict'[q] # {} => pc'[q] \in {"filing", "done"}
               /\ TRUE \notin verdict'[q]
               /\ filing'[q] # {} => pc'[q] = "done" /\ filing'[q] = {OwnReport(q)'}
    BY <2>1, <2>2, <2>4, <2>5, <2>6, <1>o
  <2> QED
    BY <2>7, <2>8 DEF ReportInv
<1> QED
  BY <1>4, <1>10, <1>11, <1>14, <1>15, <1>16 DEF IInv

-----------------------------------------------------------------------------
(* Settling and filing: a group whose sub-games are over only moves on.    *)

\* What such a step leaves alone.
Settled(p, place) ==
    /\ pc[p] \in {"settling", "collecting", "filing"}
    /\ place = "collecting" => pc[p] = "settling"
    /\ pc' = [pc EXCEPT ![p] = place]
    /\ UNCHANGED <<number, board, met, result, records, summaries, spoilt, resealed>>

LEMMA SettledLetters ==
    ASSUME IInv, NEW p \in Group, NEW place \in {"collecting", "filing", "done"}, Settled(p, place)
    PROVE  \A q \in Group :
            /\ Letters(q) \subseteq Letters(q)'
            /\ Closed(q) => Closed(q)'
            /\ \A n : Reached(q, n)' <=> Reached(q, n)
            /\ OwnDigest(q)' = OwnDigest(q) /\ OwnReport(q)' = OwnReport(q)
<1> SUFFICES ASSUME NEW q \in Group
             PROVE  /\ Letters(q) \subseteq Letters(q)'
                    /\ Closed(q) => Closed(q)'
                    /\ \A n : Reached(q, n)' <=> Reached(q, n)
                    /\ OwnDigest(q)' = OwnDigest(q) /\ OwnReport(q)' = OwnReport(q)
  OBVIOUS
<1>1. pc'[q] = IF q = p THEN place ELSE pc[q]
  BY DEF Settled, IInv, PlaceInv
<1>2. Closed(q) => Closed(q)'
  BY <1>1 DEF Closed
<1>3. \A n : Reached(q, n)' <=> Reached(q, n)
  BY <1>1 DEF Reached, Settled
<1>4. met'[q] = met[q] /\ summaries'[q] = summaries[q]
  BY DEF Settled
<1>5. OwnDigest(q)' = OwnDigest(q) /\ OwnReport(q)' = OwnReport(q) /\ Envelope(q)' = Envelope(q)
  BY <1>4, Frozen
<1>6. \A n \in 1..NumGames : <<q, n>> \in spoilt <=> <<q, n>> \in spoilt'
  BY DEF Settled
<1>7. Letters(q) \subseteq Letters(q)'
  BY <1>2, <1>3, <1>5, <1>6, LettersKept
<1> QED
  BY <1>2, <1>3, <1>5, <1>7

LEMMA SettledInv ==
    ASSUME IInv, NEW p \in Group, NEW place \in {"collecting", "filing", "done"}, Settled(p, place),
           faults' \in 0..MaxFaults, MailInv', ReportInv'
    PROVE  IInv'
<1>1. \A q \in Group : \A n : Reached(q, n)' <=> Reached(q, n)
  BY SettledLetters
<1>2. \A q \in Group : pc'[q] = IF q = p THEN place ELSE pc[q]
  BY DEF Settled, IInv, PlaceInv
<1>3. PlaceInv'
  <2>1. pc' \in [Group -> {"playing", "auditing", "settling", "collecting", "filing", "done"}]
    BY DEF Settled, IInv, PlaceInv
  <2>2. \A q \in Group : number[q] = NumGames + 1 <=> pc'[q] \notin {"playing", "auditing"}
    BY <1>2 DEF Settled, IInv, PlaceInv
  <2> QED
    BY <2>1, <2>2 DEF Settled, IInv, PlaceInv
<1>4. LogInv'
  <2>1. \A q \in Group : pc'[q] \in {"playing", "auditing"} => pc'[q] = pc[q]
    BY <1>2
  <2>2. \A q \in Group :
            /\ pc'[q] = "playing" => records[q] = SealedRecords(number[q])
            /\ pc'[q] = "auditing" => records[q] \in Logs
                    /\ (Passes(records[q]) <=> <<q, number[q]>> \notin spoilt)
    BY <2>1 DEF IInv, LogInv
  <2>3. \A q \in Group, n \in 1..NumGames : <<q, n>> \in spoilt => Reached(q, n)'
    BY <1>1 DEF IInv, LogInv
  <2>4. /\ spoilt \subseteq Group \X (1..NumGames) /\ DOMAIN records = Group
        /\ resealed \subseteq Group \X (1..NumGames)
    BY DEF IInv, LogInv
  <2>5. records' = records /\ number' = number /\ spoilt' = spoilt /\ resealed' = resealed
    BY DEF Settled
  <2> QED
    BY <2>2, <2>3, <2>4, <2>5 DEF LogInv
<1>5. RowInv'
  <2>1. ASSUME NEW q \in Group, NEW n \in DOMAIN summaries[q], summaries[q][n].audit.read # 0
        PROVE  Reached(Other(q), summaries[q][n].audit.read)'
    <3>1. PICK k : k = summaries[q][n].audit.read
      OBVIOUS
    <3>2. Reached(Other(q), k)
      BY <2>1, <3>1 DEF IInv, RowInv
    <3>3. Reached(Other(q), k)'
      BY <3>2, <1>1, OtherFacts
    <3>4. summaries' = summaries
      BY DEF Settled
    <3> QED
      BY <3>1, <3>3, <3>4 DEF Reached, Settled
  <2>2. summaries' = summaries /\ number' = number
    BY DEF Settled
  <2> QED
    BY <2>1, <2>2 DEF IInv, RowInv
<1>6. AuditIsFair'
  BY DEF Settled, IInv, AuditIsFair
<1> QED
  BY <1>3, <1>4, <1>5, <1>6 DEF IInv

\* A verdict or a report there already stays true through such a step.
LEMMA ReportsKept ==
    ASSUME IInv, NEW p \in Group, NEW place \in {"collecting", "filing", "done"}, Settled(p, place)
    PROVE  \A q \in Group :
            /\ verdict[q] \in {{}, {TRUE}, {FALSE}}
            /\ verdict[q] # {} => pc'[q] \in {"filing", "done"}
            /\ TRUE \in verdict[q] => Closed(Other(q))' /\ OwnDigest(q)' = OwnDigest(Other(q))'
            /\ filing[q] # {} => pc'[q] = "done" /\ filing[q] = {OwnReport(q)'} /\ q # p
<1> SUFFICES ASSUME NEW q \in Group
             PROVE  /\ verdict[q] \in {{}, {TRUE}, {FALSE}}
                    /\ verdict[q] # {} => pc'[q] \in {"filing", "done"}
                    /\ TRUE \in verdict[q] => Closed(Other(q))' /\ OwnDigest(q)' = OwnDigest(Other(q))'
                    /\ filing[q] # {} => pc'[q] = "done" /\ filing[q] = {OwnReport(q)'} /\ q # p
  OBVIOUS
<1>0. PICK o \in Group : o = Other(q)
  BY OtherFacts
<1>1. pc'[q] = IF q = p THEN place ELSE pc[q]
  BY DEF Settled, IInv, PlaceInv
<1>2. /\ verdict[q] \in {{}, {TRUE}, {FALSE}}
      /\ verdict[q] # {} => pc[q] \in {"filing", "done"}
      /\ filing[q] # {} => pc[q] = "done" /\ filing[q] = {OwnReport(q)}
  BY DEF IInv, ReportInv
<1>3. OwnReport(q)' = OwnReport(q) /\ OwnDigest(q)' = OwnDigest(q)
      /\ OwnDigest(o)' = OwnDigest(o) /\ (Closed(o) => Closed(o)')
  BY SettledLetters
<1>4. TRUE \in verdict[q] => Closed(o) /\ OwnDigest(q) = OwnDigest(o)
  BY <1>0 DEF IInv, ReportInv
<1>5. Closed(Other(q))' <=> Closed(o)'
  BY <1>0 DEF Closed
<1>6. OwnDigest(Other(q))' = OwnDigest(o)'
  BY <1>0
<1>7. /\ verdict[q] # {} => pc'[q] \in {"filing", "done"}
      /\ filing[q] # {} => pc'[q] = "done" /\ q # p
  BY <1>1, <1>2 DEF Settled
<1>8. TRUE \in verdict[q] => Closed(Other(q))' /\ OwnDigest(q)' = OwnDigest(Other(q))'
  BY <1>3, <1>4, <1>5, <1>6
<1> QED
  BY <1>2, <1>3, <1>7, <1>8

LEMMA SettleInv ==
    ASSUME IInv, NEW p \in Group, Settle(p)
    PROVE  IInv'
<1>1. PICK place \in {"collecting", "filing"} : pc' = [pc EXCEPT ![p] = place]
  BY DEF Settle
<1>2. Settled(p, place)
  BY <1>1 DEF Settle, Settled
<1>3. faults' \in 0..MaxFaults
  BY LedgerAssumption DEF Settle, Send, Costs, IInv, PlaceInv
<1>4. DOMAIN inbox = Group /\ \A q \in Group : inbox[q] \in Seq(Letters(Other(q)))
  BY DEF IInv, MailInv
<1>5. \A q \in Group : inbox[q] \in Seq(Letters(Other(q))')
  <2>1. \A q \in Group : Letters(Other(q)) \subseteq Letters(Other(q))'
    BY <1>2, SettledLetters, OtherFacts
  <2> QED
    BY <2>1, <1>4, WiderSeq
<1>6. MailInv'
  <2>1. CASE inbox' = inbox
    BY <2>1, <1>4, <1>5 DEF MailInv
  <2>2. CASE p \in Settles /\ \E copies \in Copies(Envelope(p)) : Push(p, copies)
    <3>1. PICK o \in Group : o = Other(p) /\ o # p /\ \A q \in Group : q = p \/ q = o
      BY OtherFacts
    <3>2. Other(o) = p
      BY <3>1, OtherFacts
    <3>3. PICK m : m = Envelope(p)
      OBVIOUS
    <3>4. Envelope(p)' = Envelope(p)
      <4>1. met' = met /\ summaries' = summaries
        BY DEF Settle
      <4> QED
        BY <4>1, Frozen
    <3>5. pc'[p] = "collecting"
      BY <2>2 DEF Settle, IInv, PlaceInv
    <3>6. m \in Letters(p)'
      BY <3>3, <3>4, <3>5 DEF Letters, Closed
    <3>c. PICK copies \in Copies(m) : Push(p, copies)
      BY <2>2, <3>3
    <3>7. inbox'[o] = inbox[o] \o copies /\ inbox'[p] = inbox[p] /\ DOMAIN inbox' = Group
      BY <3>c, <3>1, <1>4 DEF Push
    <3>8. inbox[o] \in Seq(Letters(p)')
      BY <3>2, <1>5
    <3>9. inbox[o] \o copies \in Seq(Letters(p)')
      BY <3>c, <3>6, <3>8, CopiesFacts
    <3>10. ASSUME NEW q \in Group
           PROVE  inbox'[q] \in Seq(Letters(Other(q))')
      BY <3>1, <3>2, <3>7, <3>9, <1>5
    <3> QED
      BY <3>7, <3>10 DEF MailInv
  <2> QED
    BY <2>1, <2>2 DEF Settle, Send, Copies
<1>7. ReportInv'
  <2>1. verdict' = verdict /\ filing' = filing
    BY DEF Settle
  <2> QED
    BY <2>1, <1>2, ReportsKept DEF IInv, ReportInv
<1> QED
  BY <1>2, <1>3, <1>6, <1>7, SettledInv

LEMMA CollectInv ==
    ASSUME IInv, NEW p \in Group, CollectEnvelope(p)
    PROVE  IInv'
<1>0. PICK o \in Group : o = Other(p) /\ o # p /\ Other(o) = p
  BY OtherFacts
<1>1. Settled(p, "filing")
  BY DEF CollectEnvelope, Settled
<1>2. faults' \in 0..MaxFaults
  BY DEF CollectEnvelope, IInv, PlaceInv
<1>3. DOMAIN inbox = Group /\ \A q \in Group : inbox[q] \in Seq(Letters(Other(q)))
  BY DEF IInv, MailInv
<1>4. MailInv'
  <2>1. DOMAIN inbox' = Group /\ \A q \in Group : inbox'[q] \in Seq(Letters(Other(q)))
    <3>1. CASE inbox[p] # <<>> /\ inbox' = [inbox EXCEPT ![p] = Tail(@)]
      <4>1. Tail(inbox[p]) \in Seq(Letters(Other(p)))
        BY <3>1, <1>3, TailFacts
      <4> QED
        BY <3>1, <4>1, <1>3
    <3>2. CASE inbox' = inbox
      BY <3>2, <1>3
    <3> QED
      BY <3>1, <3>2 DEF CollectEnvelope
  <2>2. \A q \in Group : Letters(Other(q)) \subseteq Letters(Other(q))'
    BY <1>1, SettledLetters, OtherFacts
  <2>3. \A q \in Group : inbox'[q] \in Seq(Letters(Other(q))')
    BY <2>1, <2>2, WiderSeq
  <2> QED
    BY <2>1, <2>3 DEF MailInv
<1>5. /\ verdict' = [verdict EXCEPT ![p] = verdict'[p]]
      /\ verdict'[p] \in {{TRUE}, {FALSE}}
      /\ TRUE \in verdict'[p] => inbox[p] # <<>> /\ Agrees(p, Head(inbox[p]))
  <2>1. DOMAIN verdict = Group
    BY DEF IInv, ReportInv
  <2>2. CASE inbox[p] # <<>> /\ verdict' = [verdict EXCEPT ![p] = {Agrees(p, Head(inbox[p]))}]
    <3>1. Agrees(p, Head(inbox[p])) \in BOOLEAN
      BY DEF Agrees
    <3> QED
      BY <2>1, <2>2, <3>1
  <2>3. CASE verdict' = [verdict EXCEPT ![p] = {FALSE}]
    BY <2>1, <2>3
  <2> QED
    BY <2>2, <2>3 DEF CollectEnvelope
<1>6. TRUE \in verdict'[p] => Closed(o) /\ OwnDigest(p) = OwnDigest(o)
  <2> SUFFICES ASSUME TRUE \in verdict'[p] PROVE Closed(o) /\ OwnDigest(p) = OwnDigest(o)
    OBVIOUS
  <2>1. PICK m : m = Head(inbox[p])
    OBVIOUS
  <2>2. m \in Letters(o) /\ m.sort = "envelope" /\ m.digest = OwnDigest(p)
    BY <2>1, <1>0, <1>3, <1>5, TailFacts DEF Agrees
  <2>3. m \notin Reveals(o)
    BY <2>2 DEF Reveals
  <2>4. m = Envelope(o) /\ Closed(o)
    BY <2>2, <2>3 DEF Letters
  <2> QED
    BY <2>2, <2>4 DEF Envelope
<1>7. ReportInv'
  <2>1. filing' = filing
    BY DEF CollectEnvelope
  <2>2. DOMAIN verdict' = Group /\ DOMAIN filing' = Group
    BY <2>1, <1>5 DEF IInv, ReportInv
  <2>3. pc'[p] = "filing"
    BY DEF CollectEnvelope, IInv, PlaceInv
  <2>4. TRUE \in verdict'[p] => Closed(Other(p))' /\ OwnDigest(p)' = OwnDigest(Other(p))'
    <3>1. Closed(o) => Closed(o)' /\ OwnDigest(p)' = OwnDigest(p) /\ OwnDigest(o)' = OwnDigest(o)
      BY <1>1, SettledLetters
    <3>2. (Closed(Other(p))' <=> Closed(o)') /\ OwnDigest(Other(p))' = OwnDigest(o)'
      BY <1>0 DEF Closed
    <3>3. OwnDigest(p)' = OwnDigest(p) /\ OwnDigest(o)' = OwnDigest(o)
      BY <1>1, SettledLetters
    <3> QED
      BY <3>1, <3>2, <3>3, <1>6
  <2>5. ASSUME NEW q \in Group
        PROVE  /\ verdict'[q] \in {{}, {TRUE}, {FALSE}}
               /\ verdict'[q] # {} => pc'[q] \in {"filing", "done"}
               /\ TRUE \in verdict'[q] => Closed(Other(q))' /\ OwnDigest(q)' = OwnDigest(Other(q))'
               /\ filing'[q] # {} => pc'[q] = "done" /\ filing'[q] = {OwnReport(q)'}
    <3>1. CASE q = p
      <4>1. filing'[p] = {}
        BY <2>1, <1>1, ReportsKept
      <4> QED
        BY <3>1, <4>1, <2>3, <2>4, <1>5
    <3>2. CASE q # p
      <4>1. verdict'[q] = verdict[q]
        BY <3>2, <1>5 DEF IInv, ReportInv
      <4> QED
        BY <4>1, <2>1, <1>1, ReportsKept
    <3> QED
      BY <3>1, <3>2
  <2> QED
    BY <2>2, <2>5 DEF ReportInv
<1> QED
  BY <1>1, <1>2, <1>4, <1>7, SettledInv

LEMMA FileInv ==
    ASSUME IInv, NEW p \in Group, File(p)
    PROVE  IInv'
<1>1. Settled(p, "done")
  BY DEF File, Settled
<1>2. faults' \in 0..MaxFaults
  BY DEF File, IInv, PlaceInv
<1>3. MailInv'
  <2>1. DOMAIN inbox' = Group /\ \A q \in Group : inbox'[q] \in Seq(Letters(Other(q)))
    BY DEF File, IInv, MailInv
  <2>2. \A q \in Group : Letters(Other(q)) \subseteq Letters(Other(q))'
    BY <1>1, SettledLetters, OtherFacts
  <2>3. \A q \in Group : inbox'[q] \in Seq(Letters(Other(q))')
    BY <2>1, <2>2, WiderSeq
  <2> QED
    BY <2>1, <2>3 DEF MailInv
<1>4. ReportInv'
  <2>1. /\ verdict' = verdict /\ DOMAIN filing' = Group /\ DOMAIN verdict' = Group
        /\ filing'[p] = {OwnReport(p)} /\ pc'[p] = "done"
        /\ \A q \in Group : q # p => filing'[q] = filing[q]
    BY DEF File, IInv, ReportInv, PlaceInv
  <2>2. OwnReport(p)' = OwnReport(p)
    BY <1>1, SettledLetters
  <2>3. ASSUME NEW q \in Group
        PROVE  /\ verdict'[q] \in {{}, {TRUE}, {FALSE}}
               /\ verdict'[q] # {} => pc'[q] \in {"filing", "done"}
               /\ TRUE \in verdict'[q] => Closed(Other(q))' /\ OwnDigest(q)' = OwnDigest(Other(q))'
               /\ filing'[q] # {} => pc'[q] = "done" /\ filing'[q] = {OwnReport(q)'}
    BY <2>1, <2>2, <1>1, ReportsKept
  <2> QED
    BY <2>1, <2>3 DEF ReportInv
<1> QED
  BY <1>1, <1>2, <1>3, <1>4, SettledInv

LEMMA StutterInv ==
    ASSUME IInv, UNCHANGED vars
    PROVE  IInv'
<1> USE DEF vars
<1>1. PlaceInv'
  BY DEF IInv, PlaceInv
<1>2. LogInv'
  BY DEF IInv, LogInv, Reached
<1>3. MailInv'
  BY AtRest, WiderSeq, OtherFacts DEF IInv, MailInv
<1>4. RowInv'
  BY DEF IInv, RowInv, Reached
<1>5. ReportInv'
  BY DEF IInv, ReportInv, Closed, OwnDigest, OwnReport, Opposing
<1>6. AuditIsFair'
  BY DEF IInv, AuditIsFair
<1> QED
  BY <1>1, <1>2, <1>3, <1>4, <1>5, <1>6 DEF IInv

\* The invariant, for every value of the constants.
THEOREM Inductive == Spec => []IInv
<1>1. Init => IInv
  BY InitInv
<1>2. IInv /\ [Next]_vars => IInv'
  <2> SUFFICES ASSUME IInv, [Next]_vars PROVE IInv'
    OBVIOUS
  <2>1. ASSUME NEW p \in Group,
               \/ Lose(p)   \/ Conclude(p)        \/ Audit(p)
               \/ Settle(p) \/ CollectEnvelope(p) \/ File(p)
        PROVE  IInv'
    BY <2>1, LoseInv, ConcludeInv, AuditInv, SettleInv, CollectInv, FileInv
  <2>2. CASE UNCHANGED vars
    BY <2>2, StutterInv
  <2> QED
    BY <2>1, <2>2 DEF Next
<1> QED
  BY <1>1, <1>2, PTL DEF Spec

-----------------------------------------------------------------------------
(* Two reports of one series.                                              *)

BothRoles(n) == [g \in Group |-> RoleFor(g, n)]

\* Both groups derive the same roles, each from its own.
LEMMA SameRoles ==
    ASSUME NEW p \in Group, NEW n \in Nat
    PROVE  /\ {p, Other(p)} = Group
           /\ Roles(p, Other(p), RoleFor(p, n)) = BothRoles(n)
<1>1. {p, Other(p)} = Group
  BY OtherFacts DEF Group
<1>2. \A g \in Group : (IF g = p THEN RoleFor(p, n) ELSE Opponent(RoleFor(p, n))) = RoleFor(g, n)
  BY OtherFacts, RoleFacts
<1> QED
  BY <1>1, <1>2 DEF Roles, BothRoles

\* The role of a winner and its group tell the same.
LEMMA WinnersTold ==
    ASSUME NEW n \in Nat, NEW v \in Winners, NEW w \in Winners
    PROVE  WinnerGroup(BothRoles(n), v) = WinnerGroup(BothRoles(n), w) <=> v = w
<1> DEFINE h == RoleFor("home", n)
<1>1. /\ h \in Roll /\ RoleFor("away", n) = Opponent(h)
      /\ BothRoles(n)["home"] = h /\ BothRoles(n)["away"] = Opponent(h)
      /\ DOMAIN BothRoles(n) = Group
  BY OtherFacts, RoleFacts DEF BothRoles, Group
<1> HIDE DEF h
<1>2. Opponent(h) \in Roll /\ Opponent(h) # h /\ Roll = {h, Opponent(h)}
  BY <1>1 DEF Opponent, Roll
<1> DEFINE by(x) == WinnerGroup(BothRoles(n), x)
<1>3. by(h) = "home"
  <2>1. \A g \in Group : BothRoles(n)[g] = h <=> g = "home"
    BY <1>1, <1>2 DEF Group
  <2> QED
    BY <2>1, <1>1 DEF WinnerGroup, Group
<1>4. by(Opponent(h)) = "away"
  <2>1. \A g \in Group : BothRoles(n)[g] = Opponent(h) <=> g = "away"
    BY <1>1, <1>2 DEF Group
  <2> QED
    BY <2>1, <1>1 DEF WinnerGroup, Group
<1>5. by("-") = "none"
  <2>1. \A g \in Group : BothRoles(n)[g] # "-"
    BY <1>1, <1>2 DEF Group, Roll
  <2> QED
    BY <2>1, <1>1 DEF WinnerGroup, NoGroup
<1> HIDE DEF by
<1>6. \A x \in Winners : x = h \/ x = Opponent(h) \/ x = "-"
  BY <1>2 DEF Winners, Roll
<1>7. h # "-" /\ Opponent(h) # "-"
  BY <1>2 DEF Roll
<1>8. by(v) = by(w) <=> v = w
  BY <1>2, <1>3, <1>4, <1>5, <1>6, <1>7
<1> QED
  BY <1>8 DEF by

Row(n, s) ==
    [sub_game_number |-> n, roles |-> BothRoles(n), result |-> s.result,
     winner_group |-> WinnerGroup(BothRoles(n), s.winner),
     score |-> ScoreSubGame(s.result, BothRoles(n))]

\* The rows of a group that met the other do not depend on whose they are.
LEMMA RowsOf ==
    ASSUME IInv, NEW p \in Group, met[p]
    PROVE  /\ Opposing(p) = Other(p)
           /\ SeriesRows(p, Other(p), summaries[p]) =
                [n \in DOMAIN summaries[p] |-> Row(n, summaries[p][n])]
           /\ DOMAIN summaries[p] \subseteq Nat
           /\ \A n \in DOMAIN summaries[p] : summaries[p][n].winner \in Winners
<1>1. Opposing(p) = Other(p)
  BY DEF Opposing
<1>2. summaries[p] \in Seq(Summaries) /\ DOMAIN summaries[p] \subseteq Nat
  BY DEF IInv, RowInv
<1>3. ASSUME NEW n \in DOMAIN summaries[p]
      PROVE  /\ summaries[p][n].winner \in Winners
             /\ Facts(p, Other(p), summaries[p][n]) = Row(n, summaries[p][n])
  <2>1. summaries[p][n] \in Summaries
    BY <1>2
  <2>2. summaries[p][n].sub_game_number = n /\ summaries[p][n].role = RoleFor(p, n) /\ n \in Nat
    BY <1>2 DEF IInv, RowInv
  <2>3. Roles(p, Other(p), summaries[p][n].role) = BothRoles(n)
    BY <2>2, SameRoles
  <2> QED
    BY <2>1, <2>2, <2>3 DEF Facts, Row, Summaries
<1> QED
  BY <1>1, <1>2, <1>3 DEF SeriesRows

\* Two rows are equal exactly when they tell the same ending and winner.
LEMMA RowsReconcile ==
    ASSUME IInv, met["home"], met["away"]
    PROVE  SeriesRows("home", "away", summaries["home"]) = SeriesRows("away", "home", summaries["away"])
            <=> SameResults
<1> DEFINE hs == summaries["home"]
<1> DEFINE as == summaries["away"]
<1>0. "home" \in Group /\ "away" \in Group
  BY DEF Group
<1>1. /\ SeriesRows("home", "away", hs) = [n \in DOMAIN hs |-> Row(n, hs[n])]
      /\ SeriesRows("away", "home", as) = [n \in DOMAIN as |-> Row(n, as[n])]
      /\ DOMAIN hs \subseteq Nat
      /\ \A n \in DOMAIN hs : hs[n].winner \in Winners
      /\ \A n \in DOMAIN as : as[n].winner \in Winners
  BY <1>0, RowsOf, OtherFacts
<1>2. SameResults <=>
        /\ DOMAIN hs = DOMAIN as
        /\ \A n \in DOMAIN hs : hs[n].result = as[n].result /\ hs[n].winner = as[n].winner
  BY DEF SameResults
<1> HIDE DEF hs, as
<1>3. [n \in DOMAIN hs |-> Row(n, hs[n])] = [n \in DOMAIN as |-> Row(n, as[n])] <=>
        /\ DOMAIN hs = DOMAIN as
        /\ \A n \in DOMAIN hs : Row(n, hs[n]) = Row(n, as[n])
  <2> DEFINE f == [n \in DOMAIN hs |-> Row(n, hs[n])]
  <2> DEFINE g == [n \in DOMAIN as |-> Row(n, as[n])]
  <2>1. /\ DOMAIN f = DOMAIN hs /\ DOMAIN g = DOMAIN as
        /\ \A n \in DOMAIN hs : f[n] = Row(n, hs[n])
        /\ \A n \in DOMAIN as : g[n] = Row(n, as[n])
    OBVIOUS
  <2>2. f = g => /\ DOMAIN hs = DOMAIN as
                 /\ \A n \in DOMAIN hs : Row(n, hs[n]) = Row(n, as[n])
    <3> HIDE DEF f, g
    <3> QED
      BY <2>1
  <2>3. DOMAIN hs = DOMAIN as /\ (\A n \in DOMAIN hs : Row(n, hs[n]) = Row(n, as[n])) => f = g
    OBVIOUS
  <2> QED
    BY <2>2, <2>3
<1>4. DOMAIN hs = DOMAIN as =>
        \A n \in DOMAIN hs : Row(n, hs[n]) = Row(n, as[n])
                                <=> hs[n].result = as[n].result /\ hs[n].winner = as[n].winner
  <2> SUFFICES ASSUME DOMAIN hs = DOMAIN as, NEW n \in DOMAIN hs
               PROVE  Row(n, hs[n]) = Row(n, as[n])
                        <=> hs[n].result = as[n].result /\ hs[n].winner = as[n].winner
    OBVIOUS
  <2>1. n \in Nat /\ hs[n].winner \in Winners /\ as[n].winner \in Winners
    BY <1>1
  <2>0. \A v, w \in Winners :
            WinnerGroup(BothRoles(n), v) = WinnerGroup(BothRoles(n), w) <=> v = w
    BY <2>1, WinnersTold
  <2>2. WinnerGroup(BothRoles(n), hs[n].winner) = WinnerGroup(BothRoles(n), as[n].winner)
          <=> hs[n].winner = as[n].winner
    BY <2>0, <2>1
  <2>3. Row(n, hs[n]) = Row(n, as[n]) =>
            /\ hs[n].result = as[n].result
            /\ WinnerGroup(BothRoles(n), hs[n].winner) = WinnerGroup(BothRoles(n), as[n].winner)
    BY DEF Row
  <2>4. hs[n].result = as[n].result /\ hs[n].winner = as[n].winner => Row(n, hs[n]) = Row(n, as[n])
    BY DEF Row
  <2> QED
    BY <2>2, <2>3, <2>4
<1> QED
  BY <1>1, <1>2, <1>3, <1>4 DEF hs, as

LEMMA SignaturesInv ==
    ASSUME IInv
    PROVE  SignaturesReconcile
<1> SUFFICES ASSUME NEW f \in filing["home"], NEW g \in filing["away"], met["home"], met["away"]
             PROVE  /\ f.sha256 = g.sha256 <=> SameResults
                    /\ f.consensus = g.consensus <=> SameResults
                    /\ SameResults /\ SameLeague => f.league = g.league
  BY DEF SignaturesReconcile
<1> DEFINE hs == summaries["home"]
<1> DEFINE as == summaries["away"]
<1> DEFINE hr == SeriesRows("home", "away", hs)
<1> DEFINE ar == SeriesRows("away", "home", as)
<1> DEFINE scores(rows, ss) == [n \in DOMAIN ss |-> rows[n].score]
<1>0. "home" \in Group /\ "away" \in Group /\ {"home", "away"} = Group /\ {"away", "home"} = Group
  BY DEF Group
<1>1. Opposing("home") = "away" /\ Opposing("away") = "home"
  BY OtherFacts DEF Opposing
<1>2. f = EmitSeries("home", "away", hs) /\ g = EmitSeries("away", "home", as)
  <2>1. filing["home"] = {OwnReport("home")} /\ filing["away"] = {OwnReport("away")}
    BY <1>0 DEF IInv, ReportInv
  <2>2. f = OwnReport("home") /\ g = OwnReport("away")
    BY <2>1
  <2>3. OwnReport("home") = EmitSeries("home", "away", hs)
        /\ OwnReport("away") = EmitSeries("away", "home", as)
    BY <1>1 DEF OwnReport
  <2> HIDE DEF hs, as
  <2> QED
    BY <2>2, <2>3
<1>3. hr = ar <=> SameResults
  BY RowsReconcile
<1>4. GameUid("home") = "derived" /\ GameUid("away") = "derived"
  BY DEF GameUid, Stranger
<1>5. hr = ar => DOMAIN hs = DOMAIN as
  BY <1>3 DEF SameResults
<1>6. /\ SeriesAggregate("home", "away", hs) = Aggregate(Group, scores(hr, hs))
      /\ SeriesAggregate("away", "home", as) = Aggregate(Group, scores(ar, as))
  BY <1>0 DEF SeriesAggregate
<1>7. hr = ar => SeriesAggregate("home", "away", hs) = SeriesAggregate("away", "home", as)
  <2>1. hr = ar => scores(hr, hs) = scores(ar, as)
    BY <1>5
  <2> HIDE DEF scores, hr, ar
  <2> QED
    BY <2>1, <1>6
<1>8. /\ f.sha256 = <<Group, SeriesAggregate("home", "away", hs), hr>>
      /\ g.sha256 = <<Group, SeriesAggregate("away", "home", as), ar>>
      /\ f.consensus = <<Group, "derived", hr>> /\ g.consensus = <<Group, "derived", ar>>
      /\ f.league = LeagueFields("home", "away", SeriesAggregate("home", "away", hs).winner_group)
      /\ g.league = LeagueFields("away", "home", SeriesAggregate("away", "home", as).winner_group)
  BY <1>0, <1>2, <1>4 DEF EmitSeries, MutualSignature, SeriesDigest, GameId
<1> HIDE DEF hr, ar, hs, as
<1>9. f.sha256 = g.sha256 <=> SameResults
  <2>1. f.sha256 = g.sha256 => hr = ar
    BY <1>8
  <2>2. hr = ar => f.sha256 = g.sha256
    BY <1>7, <1>8
  <2> QED
    BY <2>1, <2>2, <1>3
<1>10. f.consensus = g.consensus <=> SameResults
  BY <1>3, <1>8
<1>11. ASSUME SameResults, SameLeague
       PROVE  f.league = g.league
  <2>1. \A w : LeagueFields("home", "away", w) = LeagueFields("away", "home", w)
    BY <1>0, <1>11 DEF LeagueFields, SameLeague
  <2> QED
    BY <2>1, <1>3, <1>7, <1>8, <1>11
<1> QED
  BY <1>9, <1>10, <1>11

\* Equal digests name the same two groups, so both have met.
LEMMA DigestsMet ==
    ASSUME NEW p \in Group, OwnDigest(p) = OwnDigest(Other(p))
    PROVE  met["home"] /\ met["away"]
<1>1. {p, Opposing(p)} = {Other(p), Opposing(Other(p))}
  BY DEF OwnDigest, SeriesDigest, GameId
<1>2. Stranger \notin Group
  BY DEF Stranger, Group
<1>3. met[p] /\ met[Other(p)]
  BY <1>1, <1>2, OtherFacts DEF Opposing
<1> QED
  BY <1>3, OtherFacts DEF Group

LEMMA ConsensusInv ==
    ASSUME IInv
    PROVE  ConsensusIsMutual
<1> SUFFICES ASSUME NEW p \in Group, TRUE \in verdict[p]
             PROVE  /\ SameResults
                    /\ \A f \in filing[p], g \in filing[Other(p)] : f.sha256 = g.sha256
  BY DEF ConsensusIsMutual
<1>1. OwnDigest(p) = OwnDigest(Other(p))
  BY DEF IInv, ReportInv
<1>2. met["home"] /\ met["away"]
  BY <1>1, DigestsMet
<1>3. Opposing("home") = "away" /\ Opposing("away") = "home"
  BY <1>2, OtherFacts DEF Opposing
<1>4. SeriesRows("home", "away", summaries["home"]) = SeriesRows("away", "home", summaries["away"])
  <2>1. OwnDigest("home") = OwnDigest("away")
    BY <1>1, OtherFacts DEF Group
  <2> QED
    BY <2>1, <1>3 DEF OwnDigest, SeriesDigest
<1>5. SameResults
  BY <1>2, <1>4, RowsReconcile
<1>6. \A f \in filing["home"], g \in filing["away"] : f.sha256 = g.sha256
  BY <1>2, <1>5, SignaturesInv DEF SignaturesReconcile
<1> QED
  BY <1>5, <1>6, OtherFacts DEF Group

\* Two groups that have met sign one report exactly when they hold the same
\* results, and an agreed consensus is agreed on by what the other files.
THEOREM ReportsReconcile == Spec => []FilingsReconcile
<1>1. IInv => FilingsReconcile
  BY SignaturesInv, ConsensusInv DEF FilingsReconcile
<1> QED
  BY <1>1, Inductive, PTL

\* The audit names exactly the sides with a record that does not match the
\* commit beside it, in the logs it was handed (audit_records, _blame).
THEOREM AuditBlamesFairly == Spec => []AuditIsFair
<1>1. IInv => AuditIsFair
  BY DEF IInv
<1> QED
  BY <1>1, Inductive, PTL

\* Every variable of the ledger keeps its type.
THEOREM TypeCorrect == Spec => []TypeOK
<1>1. IInv => TypeOK
  <2> SUFFICES ASSUME IInv PROVE TypeOK
    OBVIOUS
  <2>1. \A p \in Group : Len(summaries[p]) = number[p] - 1
    BY DEF IInv, RowInv
  <2>2. \A p \in Group : verdict[p] \subseteq BOOLEAN /\ (filing[p] # {} => pc[p] = "done")
    BY DEF IInv, ReportInv
  <2> QED
    BY <2>1, <2>2 DEF IInv, PlaceInv, LogInv, TypeOK
<1> QED
  BY <1>1, Inductive, PTL
=============================================================================
