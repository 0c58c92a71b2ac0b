-------------------------- MODULE GatekeeperProofs --------------------------
(***************************************************************************)
(* What the gate in front of a service guarantees, for every limit and any *)
(* number of callers: the bucket, the breaker, the types; and for a lone   *)
(* caller how long a call may take, and that the breaker stays shut.       *)
(***************************************************************************)
EXTENDS Gatekeeper, FiniteSetTheorems, WellFoundedInduction, SequenceTheorems, TLAPS

BucketType ==
    /\ clock \in Nat
    /\ bucket \in [tokens : 0..Capacity, last : 0..clock]

GrantedType ==
    /\ granted \in Seq(Nat)
    /\ \A i \in 1..Len(granted) : granted[i] <= bucket.last

\* What was granted since any one grant, and what is left, came out of one full
\* bucket and what flowed in since.
Drawn(i) == (Len(granted) - i + 1) * Cost + bucket.tokens
Inflow(i) == Capacity + Rate * (bucket.last - granted[i])

BucketInv ==
    /\ BucketType
    /\ GrantedType
    /\ \A i \in 1..Len(granted) : Drawn(i) <= Inflow(i)
    /\ RateHolds

\* Multiplication, as far as it is needed.
LEMMA Flow ==
    ASSUME NEW x \in Nat, NEW y \in Nat
    PROVE  /\ Rate * x \in Nat /\ x * Rate = Rate * x
           /\ Rate * (x + y) = Rate * x + Rate * y
           /\ (x + 1) * Cost = x * Cost + Cost /\ x * Cost \in Nat /\ 1 * Cost = Cost
BY GatekeeperAssumption

\* Time may pass without anybody looking at the bucket.
LEMMA BucketUntouched ==
    ASSUME BucketInv, UNCHANGED <<bucket, granted>>, clock' \in Nat, clock' >= clock
    PROVE  BucketInv'
<1>1. BucketType'
  BY DEF BucketInv, BucketType
<1>2. GrantedType'
  BY DEF BucketInv, GrantedType
<1>3. (\A i \in 1..Len(granted) : Drawn(i) <= Inflow(i))'
  BY DEF BucketInv, Drawn, Inflow
<1>4. RateHolds'
  BY DEF BucketInv, RateHolds
<1> QED
  BY <1>1, <1>2, <1>3, <1>4 DEF BucketInv

\* A refill adds at most what flowed in since the last one.
LEMMA RefillFlows ==
    ASSUME BucketInv
    PROVE  LET b == Refilled(bucket) IN
           /\ b \in [tokens : 0..Capacity, last : 0..clock]
           /\ b.last = clock
           /\ \A i \in 1..Len(granted) :
                 /\ granted[i] \in Nat /\ granted[i] <= clock
                 /\ (Len(granted) - i + 1) * Cost + b.tokens
                        <= Capacity + Rate * (clock - granted[i])
<1> DEFINE b == Refilled(bucket)
           gap == clock - bucket.last
<1>1. gap \in Nat /\ bucket.last \in Nat /\ bucket.tokens \in Nat /\ clock \in Nat
      /\ bucket.tokens <= Capacity
  BY GatekeeperAssumption DEF BucketInv, BucketType
<1>2. gap * Rate \in Nat /\ gap * Rate = Rate * gap
  <2> HIDE DEF gap
  <2> QED BY <1>1, Flow
<1>3. /\ b.last = clock
      /\ b.tokens <= bucket.tokens + Rate * gap
      /\ b.tokens \in 0..Capacity
      /\ b \in [tokens : 0..Capacity, last : 0..clock]
  BY <1>1, <1>2, GatekeeperAssumption DEF Refilled
<1>4. ASSUME NEW i \in 1..Len(granted)
      PROVE  /\ granted[i] \in Nat /\ granted[i] <= clock
             /\ (Len(granted) - i + 1) * Cost + b.tokens
                    <= Capacity + Rate * (clock - granted[i])
  <2> DEFINE old == bucket.last - granted[i]
             n == Len(granted) - i + 1
  <2>1. granted[i] \in Nat /\ granted[i] <= bucket.last /\ Len(granted) \in Nat
    BY DEF BucketInv, GrantedType
  <2>2. old \in Nat /\ n \in Nat /\ clock - granted[i] = old + gap
    BY <1>1, <2>1
  <2>3. n * Cost + bucket.tokens <= Capacity + Rate * old
    BY DEF BucketInv, Drawn, Inflow
  <2> HIDE DEF old, gap, n, b
  <2>4. Rate * (old + gap) = Rate * old + Rate * gap /\ Rate * old \in Nat
        /\ Rate * gap \in Nat /\ n * Cost \in Nat
    BY <1>1, <2>2, Flow
  <2>5. n * Cost + b.tokens <= Capacity + Rate * (old + gap)
    BY <1>1, <1>3, <2>3, <2>4, GatekeeperAssumption
  <2>6. granted[i] <= clock
    BY <1>1, <2>1 DEF BucketInv, BucketType
  <2> QED
    BY <2>1, <2>2, <2>5, <2>6 DEF n
<1> QED
  BY <1>3, <1>4

\* A grant is paid for out of every earlier grant's account at once.
LEMMA TokenTaken ==
    ASSUME BucketInv, NEW c \in Caller, TakeToken(c)
    PROVE  BucketInv'
<1> DEFINE b == Refilled(bucket)
<1>0. clock' = clock /\ clock \in Nat /\ granted \in Seq(Nat) /\ Len(granted) \in Nat
  BY DEF TakeToken, BucketInv, BucketType, GrantedType
<1>1. /\ b \in [tokens : 0..Capacity, last : 0..clock]
      /\ b.last = clock
      /\ \A i \in 1..Len(granted) :
            /\ granted[i] \in Nat /\ granted[i] <= clock
            /\ (Len(granted) - i + 1) * Cost + b.tokens
                   <= Capacity + Rate * (clock - granted[i])
  BY RefillFlows
<1>2. CASE ~Affords(b)
  <2>1. bucket' = b /\ granted' = granted
    BY <1>2 DEF TakeToken
  <2> HIDE DEF b
  <2>2. BucketType' /\ GrantedType'
    BY <1>0, <1>1, <2>1 DEF BucketType, GrantedType
  <2>3. (\A i \in 1..Len(granted) : Drawn(i) <= Inflow(i))'
    BY <1>0, <1>1, <2>1 DEF Drawn, Inflow
  <2>4. RateHolds'
    BY <2>1 DEF BucketInv, RateHolds
  <2> QED
    BY <2>2, <2>3, <2>4 DEF BucketInv
<1>3. CASE Affords(b)
  <2> DEFINE n == Len(granted)
  <2>1. bucket' = [b EXCEPT !.tokens = @ - Cost] /\ granted' = Append(granted, clock)
        /\ b.tokens >= Cost
    BY <1>3 DEF TakeToken, Affords
  <2>a. b.tokens \in 0..Capacity /\ b.last \in 0..clock /\ b.last = clock
    BY <1>1
  <2> HIDE DEF b
  <2>b. b.tokens - Cost \in 0..Capacity /\ b.tokens \in Nat
    <3> DEFINE t == b.tokens
    <3>1. t \in 0..Capacity /\ t >= Cost
      BY <2>1, <2>a
    <3> HIDE DEF t
    <3>2. t - Cost \in 0..Capacity /\ t \in Nat
      BY <3>1, GatekeeperAssumption
    <3> QED
      BY <3>2 DEF t
  <2>2. /\ bucket' \in [tokens : 0..Capacity, last : 0..clock]
        /\ bucket'.last = clock
        /\ bucket'.tokens = b.tokens - Cost
        /\ b.tokens \in Nat
    BY <1>1, <2>1, <2>a, <2>b
  <2>3. /\ granted' \in Seq(Nat) /\ Len(granted') = n + 1
        /\ granted'[n + 1] = clock
        /\ \A i \in 1..n : granted'[i] = granted[i]
    BY <1>0, <2>1
  <2>4. ASSUME NEW i \in 1..(n + 1)
        PROVE  /\ granted'[i] \in Nat /\ granted'[i] <= clock
               /\ ((n + 1) - i + 1) * Cost + bucket'.tokens
                      <= Capacity + Rate * (clock - granted'[i])
    <3>1. CASE i = n + 1
      <4>1. clock - granted'[i] = 0 /\ (n + 1) - i + 1 = 1 /\ granted'[i] = clock
        BY <1>0, <2>3, <3>1
      <4>2. Rate * 0 = 0 /\ 1 * Cost = Cost
        BY GatekeeperAssumption
      <4>3. Cost + (b.tokens - Cost) <= Capacity + 0
        BY <2>a, <2>b, GatekeeperAssumption
      <4> HIDE DEF n
      <4> QED
        BY <1>0, <2>2, <4>1, <4>2, <4>3
    <3>2. CASE i \in 1..n
      <4> DEFINE m == n - i + 1
                 f == Rate * (clock - granted[i])
      <4>1. m \in Nat /\ (n + 1) - i + 1 = m + 1 /\ granted'[i] = granted[i]
        <5>1. i \in Nat /\ i <= n /\ n \in Nat
          BY <1>0, <3>2
        <5>2. m \in Nat /\ (n + 1) - i + 1 = m + 1
          BY <5>1
        <5> QED
          BY <2>3, <3>2, <5>2
      <4>2. m * Cost + b.tokens <= Capacity + f /\ granted[i] \in Nat /\ granted[i] <= clock
        BY <1>1, <3>2
      <4>3. f \in Nat
        <5> DEFINE y == clock - granted[i]
        <5>1. y \in Nat
          BY <1>0, <4>2
        <5> HIDE DEF y
        <5> QED
          BY <5>1, Flow DEF y
      <4> HIDE DEF m, f
      <4>4. (m + 1) * Cost = m * Cost + Cost /\ m * Cost \in Nat
        BY <4>1, Flow
      <4>5. (m + 1) * Cost + (b.tokens - Cost) <= Capacity + f
        BY <2>2, <4>2, <4>3, <4>4, GatekeeperAssumption
      <4> QED
        BY <2>2, <4>1, <4>2, <4>5 DEF f
    <3> QED
      BY <1>0, <3>1, <3>2
  <2>5. BucketType' /\ GrantedType'
    BY <1>0, <2>2, <2>3, <2>4 DEF BucketType, GrantedType
  <2>6. (\A i \in 1..Len(granted) : Drawn(i) <= Inflow(i))'
    BY <2>2, <2>3, <2>4 DEF Drawn, Inflow
  <2>7. ASSUME NEW i \in 1..(n + 1), NEW j \in 1..(n + 1), i <= j
        PROVE  (j - i + 1) * Cost <= Capacity + Rate * (granted'[j] - granted'[i])
    <3>1. CASE j = n + 1
      <4> DEFINE d == (j - i + 1) * Cost
                 f == Capacity + Rate * (clock - granted'[i])
      <4>1. d + bucket'.tokens <= f /\ granted'[j] = clock
        BY <2>3, <2>4, <3>1
      <4>2. j - i + 1 \in Nat /\ clock - granted'[i] \in Nat
        BY <1>0, <2>4, <2>7
      <4>3. d \in Nat /\ f \in Nat
        <5> DEFINE x == j - i + 1
                   y == clock - granted'[i]
        <5>1. x \in Nat /\ y \in Nat
          BY <4>2
        <5> HIDE DEF x, y
        <5>2. x * Cost \in Nat /\ Rate * y \in Nat
          BY <5>1, Flow
        <5> QED
          BY <5>2, GatekeeperAssumption DEF x, y
      <4>4. bucket'.tokens \in Nat
        BY <2>2, <2>b, GatekeeperAssumption
      <4>5. d <= f
        <5> HIDE DEF d, f
        <5> QED
          BY <4>1, <4>3, <4>4
      <4> QED
        BY <4>1, <4>5
    <3>2. CASE j \in 1..n
      <4>1. i \in 1..n
        BY <1>0, <2>7, <3>2
      <4>2. (j - i + 1) * Cost <= Capacity + Rate * (granted[j] - granted[i])
        BY <2>7, <3>2, <4>1 DEF BucketInv, RateHolds
      <4> QED
        BY <2>3, <3>2, <4>1, <4>2
    <3>3. j = n + 1 \/ j \in 1..n
      BY <1>0
    <3> QED
      BY <3>1, <3>2, <3>3
  <2>8. RateHolds'
    BY <2>3, <2>7 DEF RateHolds
  <2> QED
    BY <2>5, <2>6, <2>8 DEF BucketInv
<1> QED
  BY <1>2, <1>3

\* Every step of the gatekeeper keeps the account.
LEMMA BucketKept ==
    ASSUME BucketInv, [Next]_vars
    PROVE  BucketInv'
<1>0. clock \in Nat
  BY DEF BucketInv, BucketType
<1>1. ASSUME NEW c \in Caller, TakeToken(c) PROVE BucketInv'
  BY <1>1, TokenTaken
<1>2. ASSUME NEW c \in Caller,
             Ask(c) \/ Breaker(c) \/ Enqueue(c) \/ Try(c) \/ Succeed(c) \/ Fail(c)
      PROVE  UNCHANGED <<bucket, granted, clock>>
  BY <1>2 DEF Ask, Breaker, Enqueue, Try, Succeed, Fail, Return, gates, ghosts
<1>3. CASE Tick
  BY <1>0, <1>3, BucketUntouched DEF Tick, gates, ghosts
<1>4. CASE Midnight \/ Over \/ UNCHANGED vars
  BY <1>0, <1>4, BucketUntouched DEF Midnight, Over, vars, gates
<1>5. CASE Rebuild
  BY <1>0, <1>5, GatekeeperAssumption
     DEF Rebuild, FullBucket, BucketInv, BucketType, GrantedType, RateHolds
<1> QED
  BY <1>0, <1>1, <1>2, <1>3, <1>4, <1>5, BucketUntouched DEF Next

\* No schedule of callers, retries and clock steps draws more from the bucket,
\* between any two grants, than it holds and what flows in meanwhile.
THEOREM BucketNeverOverdrawn == Spec => []RateHolds
<1>1. Init => BucketInv
  BY GatekeeperAssumption
     DEF Init, FullBucket, BucketInv, BucketType, GrantedType, RateHolds
<1> QED
  BY <1>1, BucketKept, PTL DEF Spec, BucketInv

-----------------------------------------------------------------------------
(* The breaker.                                                            *)

\* The least-number principle, from the well-foundedness of < on Nat.
LEMMA Least ==
    ASSUME NEW S \in SUBSET Nat, S # {}
    PROVE  \E n \in S : \A m \in S : n <= m
<1> DEFINE R == {x \in Nat \X Nat : x[1] < x[2]}
<1>1. IsWellFoundedOn(R, Nat)
  BY NatLessThanWellFounded DEF OpToRel
<1>2. \A y, x \in Nat : (<<y, x>> \in R) <=> y < x
  OBVIOUS
<1> HIDE DEF R
<1>3. PICK n \in S : \A m \in S : ~ (<<m, n>> \in R)
  BY <1>1, WFMin
<1>4. \A m \in S : n <= m
  <2>1. n \in Nat /\ \A m \in S : m \in Nat /\ ~(m < n)
    BY <1>2, <1>3
  <2> QED
    BY <2>1
<1> QED
  BY <1>4

\* What the breaker remembers ends with this call, and starts where the first
\* live event is.
LEMMA RememberedSuffix ==
    ASSUME NEW events \in Seq(Nat), clock \in Nat
    PROVE  LET all  == Append(events, clock)
               kept == Remembered(events)
               gone == Len(all) - Len(kept)
           IN  /\ kept \in Seq(Nat) /\ gone \in Nat /\ Len(kept) \in 1..(Len(events) + 1)
               /\ \A i \in 1..Len(kept) : kept[i] = all[gone + i]
               /\ \A i \in 1..gone : ~Live(all[i])
               /\ Live(kept[1])
<1> DEFINE all == Append(events, clock)
           n == Len(events) + 1
           live == {i \in 1..Len(all) : Live(all[i])}
           first == CHOOSE i \in live : \A j \in live : i <= j
           kept == Remembered(events)
<1>1. all \in Seq(Nat) /\ Len(all) = n /\ all[n] = clock /\ n \in Nat /\ n >= 1
  OBVIOUS
<1> HIDE DEF all, n
<1>2. n \in live
  BY <1>1, GatekeeperAssumption DEF Live
<1>3. live \in SUBSET Nat
  BY <1>1
<1>4. first \in live /\ \A j \in live : first <= j
  <2>1. \E i \in live : \A j \in live : i <= j
    BY <1>2, <1>3, Least
  <2> HIDE DEF live
  <2> QED
    BY <2>1
<1> HIDE DEF first
<1>5. first \in 1..n /\ Live(all[first]) /\ \A i \in 1..(first - 1) : ~Live(all[i])
  BY <1>1, <1>4
<1>6. kept = SubSeq(all, first, n)
  BY <1>1 DEF Remembered, all, first
<1>7. /\ kept \in Seq(Nat) /\ Len(kept) = n - first + 1
      /\ \A i \in 1..(n - first + 1) : kept[i] = all[first + i - 1]
  BY <1>1, <1>5, <1>6, SubSeqProperties
<1> HIDE DEF kept, live
<1>8. n - Len(kept) = first - 1 /\ Len(kept) \in 1..n
  BY <1>1, <1>5, <1>7
<1>9. \A i \in 1..Len(kept) : kept[i] = all[(first - 1) + i]
  BY <1>1, <1>5, <1>7
<1>10. Live(kept[1])
  BY <1>1, <1>5, <1>7
<1> DEFINE gone == Len(all) - Len(kept)
<1>11. gone = first - 1 /\ first - 1 \in Nat
  BY <1>1, <1>5, <1>8
<1>12. /\ kept \in Seq(Nat) /\ gone \in Nat /\ Len(kept) \in 1..n
       /\ \A i \in 1..Len(kept) : kept[i] = all[gone + i]
       /\ \A i \in 1..gone : ~Live(all[i])
       /\ Live(kept[1])
  BY <1>5, <1>7, <1>8, <1>9, <1>10, <1>11
<1> QED
  BY <1>12 DEF all, n, kept

\* While the breaker is closed, it remembers the newest calls it let pass, and
\* those it has forgotten are out of the window.
BreakerInv ==
    /\ clock \in Nat
    /\ passed \in Seq(Nat)
    /\ dos \in [events : Seq(Nat), locked : BOOLEAN]
    /\ Len(dos.events) <= MaxInWindow + 1
    /\ ~dos.locked => LET gone == Len(passed) - Len(dos.events)
                      IN  /\ gone \in Nat /\ Len(dos.events) <= MaxInWindow
                          /\ \A i \in 1..Len(dos.events) : dos.events[i] = passed[gone + i]
                          /\ \A i \in 1..gone : ~Live(passed[i])
    /\ BurstHolds

\* A pass is remembered, and the event that makes one too many latches.
LEMMA BreakerStep ==
    ASSUME BreakerInv, NEW c \in Caller, Breaker(c)
    PROVE  BreakerInv'
<1> DEFINE old  == dos.events
           kept == Remembered(old)
           all  == Append(old, clock)
           cut  == Len(all) - Len(kept)
           n    == Len(passed)
           gone == n - Len(old)
<1>1. clock \in Nat /\ clock' = clock /\ old \in Seq(Nat) /\ passed \in Seq(Nat) /\ n \in Nat
  BY DEF BreakerInv, Breaker
<1>2. /\ kept \in Seq(Nat) /\ cut \in Nat /\ Len(kept) \in 1..(Len(old) + 1)
      /\ \A i \in 1..Len(kept) : kept[i] = all[cut + i]
      /\ \A i \in 1..cut : ~Live(all[i])
  BY <1>1, RememberedSuffix
<1>3. /\ Len(all) = Len(old) + 1 /\ all[Len(old) + 1] = clock /\ Len(old) \in Nat
      /\ \A i \in 1..Len(old) : all[i] = old[i]
  BY <1>1
<1> HIDE DEF kept, all, old, n
<1>4. CASE dos.locked
  <2>1. UNCHANGED <<dos, passed>>
    BY <1>4 DEF Breaker
  <2> QED
    BY <1>1, <2>1, <1>4 DEF BreakerInv, BurstHolds
<1>5. CASE ~dos.locked /\ TooMany(kept)
  <2>1. passed' = passed /\ dos' = [events |-> kept, locked |-> TRUE]
    BY <1>5 DEF Breaker, kept, old
  <2>2. Len(kept) <= MaxInWindow + 1
    <3>1. Len(old) <= MaxInWindow
      BY <1>5 DEF BreakerInv, old
    <3> QED
      BY <1>2, <1>3, <3>1, GatekeeperAssumption
  <2> QED
    BY <1>1, <1>2, <2>1, <2>2 DEF BreakerInv, BurstHolds
<1>6. CASE ~dos.locked /\ ~TooMany(kept)
  <2> DEFINE cut2 == n + 1 - Len(kept)
  <2>1. passed' = Append(passed, clock) /\ dos' = [dos EXCEPT !.events = kept]
        /\ Len(kept) <= MaxInWindow
    <3>1. passed' = Append(passed, clock) /\ dos' = [dos EXCEPT !.events = kept]
      BY <1>6 DEF Breaker, kept, old
    <3>2. Len(kept) <= MaxInWindow
      BY <1>2, <1>3, <1>6, GatekeeperAssumption DEF TooMany
    <3> QED
      BY <3>1, <3>2
  <2>2. /\ dos' \in [events : Seq(Nat), locked : BOOLEAN]
        /\ dos'.events = kept /\ Len(kept) \in Nat /\ Len(kept) <= n + 1
    <3>1. gone \in Nat
      BY <1>6 DEF BreakerInv, old, n
    <3>2. Len(old) <= n
      BY <1>1, <1>3, <3>1
    <3>3. dos \in [events : Seq(Nat), locked : BOOLEAN]
      BY DEF BreakerInv
    <3>4. Len(kept) \in Nat /\ Len(kept) <= n + 1
      BY <1>1, <1>2, <1>3, <3>2
    <3> QED
      BY <1>2, <2>1, <3>3, <3>4
  <2>3. /\ gone \in Nat /\ \A i \in 1..Len(old) : old[i] = passed[gone + i]
        /\ \A i \in 1..gone : ~Live(passed[i])
    BY <1>6 DEF BreakerInv, old, n
  <2>4. /\ passed' \in Seq(Nat) /\ Len(passed') = n + 1 /\ passed'[n + 1] = clock
        /\ \A i \in 1..n : passed'[i] = passed[i]
    BY <1>1, <2>1 DEF n
  <2>5. \A i \in 1..(Len(old) + 1) : all[i] = passed'[gone + i]
    <3> SUFFICES ASSUME NEW i \in 1..(Len(old) + 1) PROVE all[i] = passed'[gone + i]
      OBVIOUS
    <3>1. CASE i = Len(old) + 1
      BY <1>1, <1>3, <2>3, <2>4, <3>1
    <3>2. CASE i \in 1..Len(old)
      BY <1>1, <1>3, <2>3, <2>4, <3>2
    <3> QED
      BY <1>3, <3>1, <3>2
  <2>6. cut2 = gone + cut /\ cut2 \in Nat
    BY <1>1, <1>2, <1>3, <2>2, <2>3
  <2>7. \A i \in 1..Len(kept) : kept[i] = passed'[cut2 + i]
    <3> SUFFICES ASSUME NEW i \in 1..Len(kept) PROVE kept[i] = passed'[cut2 + i]
      OBVIOUS
    <3>1. cut + i \in 1..(Len(old) + 1) /\ cut2 + i = gone + (cut + i)
      BY <1>2, <1>3, <2>2, <2>3, <2>6
    <3> QED
      BY <1>2, <2>5, <3>1
  <2>8. \A i \in 1..cut2 : ~Live(passed'[i])
    <3> SUFFICES ASSUME NEW i \in 1..cut2 PROVE ~Live(passed'[i])
      OBVIOUS
    <3>1. CASE i \in 1..gone
      <4>1. i \in 1..n
        BY <1>1, <1>3, <2>3, <3>1
      <4> QED
        BY <2>3, <2>4, <3>1, <4>1
    <3>2. CASE i \notin 1..gone
      <4>1. i - gone \in 1..cut /\ i - gone \in 1..(Len(old) + 1) /\ gone + (i - gone) = i
        BY <1>2, <1>3, <2>2, <2>3, <2>6, <3>2
      <4> QED
        BY <1>2, <2>5, <4>1
    <3> QED
      BY <3>1, <3>2
  <2>9. BurstHolds'
    <3> SUFFICES ASSUME NEW i \in 1..(n + 1), i + MaxInWindow <= n + 1
                 PROVE  passed'[i + MaxInWindow] - passed'[i] > Window
      BY <2>4 DEF BurstHolds
    <3>1. CASE i + MaxInWindow = n + 1
      <4>1. i \in 1..cut2 /\ i \in 1..n
        <5>1. Len(kept) \in Nat /\ Len(kept) >= 1 /\ MaxInWindow \in Nat
          BY <1>2, <1>3, GatekeeperAssumption
        <5> QED
          BY <1>1, <2>1, <3>1, <5>1
      <4>2. ~Live(passed'[i]) /\ passed'[i] \in Nat
        BY <1>1, <2>4, <2>8, <4>1
      <4> QED
        BY <1>1, <2>4, <3>1, <4>2, GatekeeperAssumption DEF Live
    <3>2. CASE i + MaxInWindow # n + 1
      <4>1. i \in 1..n /\ i + MaxInWindow \in 1..n
        BY <1>1, <3>2, GatekeeperAssumption
      <4>2. passed[i + MaxInWindow] - passed[i] > Window
        BY <4>1 DEF BreakerInv, BurstHolds, n
      <4> QED
        BY <2>4, <4>1, <4>2
    <3> QED
      BY <3>1, <3>2
  <2>10. \A i \in 1..cut2 : ~Live(passed[i])'
    BY <1>1, <2>8 DEF Live
  <2>11. Len(dos'.events) <= MaxInWindow + 1
    BY <2>1, <2>2, GatekeeperAssumption
  <2>12. Len(passed') - Len(dos'.events) = cut2
    <3>1. /\ Len(dos'.events) = Len(kept) /\ Len(passed') = n + 1
          /\ n \in Nat /\ Len(kept) \in Nat
      BY <1>1, <2>2, <2>4
    <3> QED
      BY <3>1
  <2> HIDE DEF cut2
  <2>13. clock' \in Nat
    BY <1>1
  <2> QED
    BY <2>1, <2>2, <2>4, <2>6, <2>7, <2>9, <2>10, <2>11, <2>12, <2>13 DEF BreakerInv
<1> QED
  BY <1>4, <1>5, <1>6

\* What is not live does not come to life.
LEMMA BreakerUntouched ==
    ASSUME BreakerInv, UNCHANGED <<dos, passed>>, clock' \in Nat, clock' >= clock
    PROVE  BreakerInv'
<1>1. ASSUME NEW i \in 1..Len(passed), ~Live(passed[i]) PROVE ~Live(passed[i])'
  <2>1. passed[i] \in Nat /\ clock \in Nat
    BY DEF BreakerInv
  <2> QED
    BY <1>1, <2>1, GatekeeperAssumption DEF Live
<1>2. ASSUME ~dos.locked
      PROVE  \A i \in 1..(Len(passed) - Len(dos.events)) : ~Live(passed[i])'
  <2> TAKE i \in 1..(Len(passed) - Len(dos.events))
  <2>1. Len(passed) \in Nat /\ Len(dos.events) \in Nat
    BY DEF BreakerInv
  <2>2. i \in 1..Len(passed) /\ ~Live(passed[i])
    BY <1>2, <2>1 DEF BreakerInv
  <2> QED
    BY <1>1, <2>2
<1>3. BurstHolds'
  BY DEF BreakerInv, BurstHolds
<1> QED
  BY <1>2, <1>3 DEF BreakerInv

\* Every step keeps what the breaker remembers.
LEMMA BreakerKept ==
    ASSUME BreakerInv, [Next]_vars
    PROVE  BreakerInv'
<1>0. clock \in Nat
  BY DEF BreakerInv
<1>1. ASSUME NEW c \in Caller, Breaker(c) PROVE BreakerInv'
  BY <1>1, BreakerStep
<1>2. ASSUME NEW c \in Caller,
             Ask(c) \/ Enqueue(c) \/ TakeToken(c) \/ Try(c) \/ Succeed(c) \/ Fail(c)
      PROVE  BreakerInv'
  <2>1. UNCHANGED <<dos, passed, clock>>
    BY <1>2 DEF Ask, Enqueue, TakeToken, Try, Succeed, Fail, Return, gates, ghosts
  <2> QED
    BY <1>0, <2>1, BreakerUntouched
<1>3. CASE Tick
  BY <1>0, <1>3, BreakerUntouched DEF Tick, gates, ghosts
<1>4. CASE Midnight \/ Over \/ UNCHANGED vars
  BY <1>0, <1>4, BreakerUntouched DEF Midnight, Over, vars, gates
<1>5. CASE Rebuild
  BY <1>0, <1>5, GatekeeperAssumption DEF Rebuild, FreshDos, BreakerInv, BurstHolds
<1> QED
  BY <1>1, <1>2, <1>3, <1>4, <1>5 DEF Next

\* Whatever the callers do, no window of the clock sees more calls pass the
\* breaker than it allows.
THEOREM BurstsAreCut == Spec => []BurstHolds
<1>1. Init => BreakerInv
  BY GatekeeperAssumption DEF Init, FreshDos, BreakerInv, BurstHolds
<1> QED
  BY <1>1, BreakerKept, PTL DEF Spec, BreakerInv
-----------------------------------------------------------------------------
(* The callers.                                                            *)

\* A pause is taken before an attempt that is left; who is under way has called.
CallerInv ==
    /\ clock \in 0..MaxTime /\ day \in 1..MaxDays /\ game \in 1..NumGames
    /\ quota \in [day : 1..MaxDays, used : 0..DailyQuota]
    /\ pc \in [Caller -> Place]
    /\ attempt \in [Caller -> 0..MaxRetries]
    /\ due \in [Caller -> Nat]
    /\ since \in [Caller -> 0..clock]
    /\ users \subseteq Caller /\ IsFiniteSet(users)
    /\ \A c \in Caller :
          /\ pc[c] # "idle" => c \in users
          /\ pc[c] = "call" => attempt[c] \in 1..MaxRetries
          /\ pc[c] = "backoff" => attempt[c] \in 1..(MaxRetries - 1)

\* What a lone caller may have spent when its attempt number k is over.
Fill == (Cost + Rate - 1) \div Rate
Triangle(k) == (k * (k - 1)) \div 2
Spent(k) == Fill + k * Deadline + RetryAfter * Triangle(k)

Sleeps(c) == pc[c] = "sleep" =>
    /\ clock <= due[c] /\ due[c] - since[c] <= Fill
    /\ bucket.last <= due[c]
    /\ bucket.tokens + (due[c] - bucket.last) * Rate >= Cost

\* How far a lone caller is, wherever it stands: time only passes while it
\* sleeps, pauses or is served, and each of these has a date to end on.
InTime(c) ==
    /\ pc[c] \in {"breaker", "queue", "token"} => clock = since[c]
    /\ Sleeps(c)
    /\ pc[c] = "slot" => clock - since[c] <= Fill
    /\ pc[c] = "call" => clock <= due[c] /\ due[c] - since[c] <= Spent(attempt[c])
    /\ pc[c] = "backoff" =>
          /\ clock <= due[c]
          /\ due[c] - since[c] <= Spent(attempt[c]) + Pause(attempt[c])

StallInv == Lone => \A c \in Caller : InTime(c)

\* A lone caller's calls pass the breaker and get their token one by one.
Between == \E c \in Caller : pc[c] \in {"queue", "token", "sleep"}

ShutInv ==
    /\ \A i \in 1..Len(passed) : passed[i] <= clock
    /\ Lone => /\ ~dos.locked
               /\ Len(passed) = Len(granted) + (IF Between THEN 1 ELSE 0)
               /\ \A i \in 1..Len(granted) : passed[i] <= granted[i]

\* A first call adds one caller.
LEMMA UsersGrow ==
    ASSUME IsFiniteSet(users), NEW c \in Caller
    PROVE  IsFiniteSet(users \cup {c})
BY FS_AddElement

\* One caller's step, as far as the types go: it moves c and nobody else.
LEMMA CallerStep ==
    ASSUME CallerInv, NEW c \in Caller,
           NEW place \in Place, NEW n \in 0..MaxRetries, NEW d \in Nat, NEW s \in 0..clock,
           pc' = [pc EXCEPT ![c] = place], attempt' = [attempt EXCEPT ![c] = n],
           due' = [due EXCEPT ![c] = d], since' = [since EXCEPT ![c] = s],
           place = "call" => n \in 1..MaxRetries,
           place = "backoff" => n \in 1..(MaxRetries - 1),
           users' = users \/ users' = users \cup {c},
           place # "idle" => c \in users',
           quota' \in [day : 1..MaxDays, used : 0..DailyQuota],
           UNCHANGED <<clock, day, game>>
    PROVE  CallerInv'
<1>1. /\ pc' \in [Caller -> Place] /\ attempt' \in [Caller -> 0..MaxRetries]
      /\ due' \in [Caller -> Nat] /\ since' \in [Caller -> 0..clock']
  BY DEF CallerInv
<1>2. users' \subseteq Caller /\ IsFiniteSet(users') /\ users \subseteq users'
  BY UsersGrow DEF CallerInv
<1>3. ASSUME NEW e \in Caller
      PROVE  /\ pc'[e] # "idle" => e \in users'
             /\ pc'[e] = "call" => attempt'[e] \in 1..MaxRetries
             /\ pc'[e] = "backoff" => attempt'[e] \in 1..(MaxRetries - 1)
  <2>1. CASE e = c
    BY <2>1 DEF CallerInv
  <2>2. CASE e # c
    <3>1. pc'[e] = pc[e] /\ attempt'[e] = attempt[e]
      BY <2>2 DEF CallerInv
    <3> QED
      BY <1>2, <3>1 DEF CallerInv
  <2> QED
    BY <2>1, <2>2
<1> QED
  BY <1>1, <1>2, <1>3 DEF CallerInv

\* A function of the callers that does not change still has its value at c.
LEMMA SameAt ==
    ASSUME NEW S, NEW f \in [Caller -> S], NEW c \in Caller
    PROVE  f = [f EXCEPT ![c] = f[c]]
OBVIOUS

\* Every step keeps each caller's attempt, deadline and place.
LEMMA CallerKept ==
    ASSUME CallerInv, BucketInv, [Next]_vars
    PROVE  CallerInv'
<1>0. /\ clock \in 0..MaxTime /\ 0 \in 0..clock /\ clock \in 0..clock /\ clock \in Nat
      /\ MaxRetries \in Nat /\ 0 \in 0..MaxRetries /\ Deadline \in Nat /\ RetryAfter \in Nat
      /\ quota \in [day : 1..MaxDays, used : 0..DailyQuota]
      /\ pc \in [Caller -> Place] /\ attempt \in [Caller -> 0..MaxRetries]
      /\ due \in [Caller -> Nat] /\ since \in [Caller -> 0..clock]
      /\ {"idle", "breaker", "queue", "token", "sleep", "slot", "call", "backoff"} = Place
  BY GatekeeperAssumption DEF CallerInv, Place
<1>s. ASSUME NEW c \in Caller
      PROVE  /\ attempt[c] \in 0..MaxRetries /\ due[c] \in Nat /\ since[c] \in 0..clock
             /\ pc[c] \in Place
             /\ attempt = [attempt EXCEPT ![c] = attempt[c]]
             /\ due = [due EXCEPT ![c] = due[c]] /\ since = [since EXCEPT ![c] = since[c]]
             /\ pc = [pc EXCEPT ![c] = pc[c]]
             /\ pc[c] # "idle" => c \in users
             /\ pc[c] = "call" => attempt[c] \in 1..MaxRetries
             /\ pc[c] = "backoff" => attempt[c] \in 1..(MaxRetries - 1)
  BY <1>0, SameAt DEF CallerInv
<1>m. ASSUME NEW c \in Caller, NEW place \in Place \ {"call", "backoff"}, Stay(c, place),
             pc[c] # "idle", users' = users,
             quota' \in [day : 1..MaxDays, used : 0..DailyQuota],
             UNCHANGED <<clock, day, game>>
      PROVE  CallerInv'
  <2>1. /\ pc' = [pc EXCEPT ![c] = place] /\ attempt' = [attempt EXCEPT ![c] = attempt[c]]
        /\ due' = [due EXCEPT ![c] = due[c]] /\ since' = [since EXCEPT ![c] = since[c]]
    BY <1>s, <1>m DEF Stay, Goto
  <2>2. attempt[c] \in 0..MaxRetries /\ due[c] \in Nat /\ since[c] \in 0..clock /\ c \in users'
    BY <1>s, <1>m
  <2> QED
    BY <1>m, <2>1, <2>2, CallerStep
<1>l. ASSUME NEW c \in Caller, Leave(c), users' = users,
             quota' \in [day : 1..MaxDays, used : 0..DailyQuota],
             UNCHANGED <<clock, day, game>>
      PROVE  CallerInv'
  BY <1>0, <1>l, CallerStep DEF Leave, Goto
<1>1. ASSUME NEW c \in Caller, Ask(c) PROVE CallerInv'
  <2> DEFINE q == Rolled(quota)
  <2>1. q \in [day : 1..MaxDays, used : 0..DailyQuota]
    BY <1>0, GatekeeperAssumption DEF Rolled, FreshQuota, CallerInv
  <2>2. users' = users \cup {c} /\ UNCHANGED <<clock, day, game, due, attempt>>
    BY <1>1 DEF Ask
  <2>3. CASE q.used >= DailyQuota
    <3>1. quota' = q /\ UNCHANGED <<pc, since>>
      BY <1>1, <2>3 DEF Ask
    <3> HIDE DEF q
    <3> QED
      BY <2>1, <2>2, <3>1, UsersGrow DEF CallerInv
  <2>4. CASE ~(q.used >= DailyQuota)
    <3>1. /\ quota' = [q EXCEPT !.used = @ + 1] /\ Goto(c, "breaker")
          /\ since' = [since EXCEPT ![c] = clock]
      BY <1>1, <2>4 DEF Ask
    <3> HIDE DEF q
    <3>2. quota' \in [day : 1..MaxDays, used : 0..DailyQuota]
      BY <2>1, <2>4, <3>1, GatekeeperAssumption
    <3> QED
      <4>1. /\ pc' = [pc EXCEPT ![c] = "breaker"]
            /\ attempt' = [attempt EXCEPT ![c] = attempt[c]]
            /\ due' = [due EXCEPT ![c] = due[c]] /\ since' = [since EXCEPT ![c] = clock]
        BY <1>s, <2>2, <3>1 DEF Goto
      <4>2. attempt[c] \in 0..MaxRetries /\ due[c] \in Nat /\ clock \in 0..clock
            /\ "breaker" \in Place /\ c \in users'
        BY <1>0, <1>s, <2>2
      <4> QED
        BY <2>2, <3>2, <4>1, <4>2, CallerStep
  <2> QED
    BY <2>3, <2>4
<1>2. ASSUME NEW c \in Caller, Breaker(c) PROVE CallerInv'
  <2>1. UNCHANGED <<clock, day, game, quota, users>> /\ pc[c] = "breaker"
    BY <1>2 DEF Breaker
  <2>2. Leave(c) \/ Stay(c, "queue")
    BY <1>2 DEF Breaker
  <2>3. CASE Leave(c)
    BY <1>0, <1>l, <2>1, <2>3
  <2>4. CASE Stay(c, "queue")
    BY <1>0, <1>m, <2>1, <2>4 DEF Place
  <2> QED
    BY <2>2, <2>3, <2>4
<1>3. ASSUME NEW c \in Caller, Enqueue(c) PROVE CallerInv'
  <2>1. UNCHANGED <<clock, day, game, quota, users>> /\ pc[c] = "queue"
        /\ (Leave(c) \/ Stay(c, "token"))
    BY <1>3 DEF Enqueue, gates, ghosts
  <2>3. CASE Leave(c)
    BY <1>0, <1>l, <2>1, <2>3
  <2>4. CASE Stay(c, "token")
    BY <1>0, <1>m, <2>1, <2>4 DEF Place
  <2> QED
    BY <2>1, <2>3, <2>4
<1>4. ASSUME NEW c \in Caller, TakeToken(c) PROVE CallerInv'
  <2>1. /\ UNCHANGED <<clock, day, game, quota, attempt, since, users>>
        /\ pc[c] \in {"token", "sleep"}
    BY <1>4 DEF TakeToken
  <2>2. CASE Affords(Refilled(bucket))
    <3>1. Goto(c, "slot") /\ UNCHANGED due
      BY <1>4, <2>2 DEF TakeToken
    <3> QED
      BY <1>0, <1>m, <2>1, <3>1 DEF Place, Stay
  <2>3. CASE ~Affords(Refilled(bucket))
    <3> DEFINE d == clock + WaitTime(Refilled(bucket))
    <3>1. Goto(c, "sleep") /\ due' = [due EXCEPT ![c] = d]
      BY <1>4, <2>3 DEF TakeToken
    <3>2. d \in Nat
      <4>1. Refilled(bucket).tokens \in Int
        BY <1>4, RefillFlows
      <4>2. WaitTime(Refilled(bucket)) \in Nat
        BY <4>1, GatekeeperAssumption DEF WaitTime
      <4> QED
        BY <1>0, <4>2
    <3> HIDE DEF d
    <3> QED
      BY <1>0, <1>s, <2>1, <3>1, <3>2, CallerStep DEF Goto
  <2> QED
    BY <2>2, <2>3
<1>5. ASSUME NEW c \in Caller, Try(c) PROVE CallerInv'
  <2> DEFINE n == IF pc[c] = "slot" THEN 1 ELSE attempt[c] + 1
             d == clock + Deadline
  <2>1. /\ UNCHANGED <<clock, day, game, quota, since, users>>
        /\ pc[c] = "slot" \/ pc[c] = "backoff"
        /\ Goto(c, "call") /\ attempt' = [attempt EXCEPT ![c] = n]
        /\ due' = [due EXCEPT ![c] = d]
    BY <1>5 DEF Try, gates
  <2>2. n \in 1..MaxRetries /\ n \in 0..MaxRetries
    BY <1>0, <1>s, <2>1, GatekeeperAssumption
  <2>3. d \in Nat
    BY <1>0
  <2> HIDE DEF n, d
  <2> QED
    BY <1>0, <1>s, <2>1, <2>2, <2>3, CallerStep DEF Goto
<1>6. ASSUME NEW c \in Caller, Return(c) PROVE CallerInv'
  BY <1>0, <1>6, <1>l DEF Return, gates, ghosts
<1>7. ASSUME NEW c \in Caller, Fail(c) PROVE CallerInv'
  <2>1. CASE ~Retries(attempt[c])
    BY <1>6, <1>7, <2>1 DEF Fail
  <2>2. CASE Retries(attempt[c])
    <3> DEFINE d == clock + Pause(attempt[c])
    <3>1. /\ Goto(c, "backoff") /\ due' = [due EXCEPT ![c] = d] /\ pc[c] = "call"
          /\ UNCHANGED <<clock, day, game, quota, attempt, since, users>>
      BY <1>7, <2>2 DEF Fail, gates, ghosts
    <3>2. d \in Nat /\ attempt[c] \in 1..(MaxRetries - 1)
      BY <1>0, <1>s, <2>2, <3>1 DEF Pause, Retries
    <3> HIDE DEF d
    <3> QED
      BY <1>0, <1>s, <3>1, <3>2, CallerStep DEF Goto
  <2> QED
    BY <2>1, <2>2
<1>8. CASE Tick
  <2>1. clock' \in 0..MaxTime /\ 0..clock \subseteq 0..clock'
    BY <1>0, <1>8, GatekeeperAssumption DEF Tick
  <2>2. UNCHANGED <<day, game, quota, pc, due, attempt, since, users>>
    BY <1>8 DEF Tick, gates, ghosts
  <2> QED
    BY <2>1, <2>2 DEF CallerInv
<1>9. CASE Midnight
  BY <1>9, GatekeeperAssumption DEF CallerInv, Midnight, gates
<1>10. CASE Rebuild
  BY <1>10, GatekeeperAssumption DEF CallerInv, Rebuild, FreshQuota
<1>11. CASE Over \/ UNCHANGED vars
  BY <1>11 DEF CallerInv, Over, vars
<1> QED
  BY <1>1, <1>2, <1>3, <1>4, <1>5, <1>6, <1>7, <1>8, <1>9, <1>10, <1>11
     DEF Next, Succeed

\* The three of them are one invariant.
GateInv == BucketInv /\ BreakerInv /\ CallerInv

\* The gatekeeper is built with a full bucket, a closed breaker and no callers.
LEMMA GateStarts == Init => GateInv
<1>1. Init => BucketInv /\ BreakerInv
  BY GatekeeperAssumption
     DEF Init, FullBucket, FreshDos, BucketInv, BucketType, GrantedType, RateHolds,
         BreakerInv, BurstHolds
<1>2. Init => CallerInv
  BY GatekeeperAssumption, FS_EmptySet DEF Init, FreshQuota, CallerInv, Place
<1> QED
  BY <1>1, <1>2 DEF GateInv

\* The three invariants are kept together.
LEMMA GateKept ==
    ASSUME GateInv, [Next]_vars
    PROVE  GateInv'
BY BucketKept, BreakerKept, CallerKept DEF GateInv

\* The quota, the bucket and the attempts stay within their limits, and what
\* the breaker remembers with them.
THEOREM GateTypeOK == Spec => []TypeOK
<1>1. GateInv => TypeOK
  BY DEF GateInv, BucketInv, BucketType, BreakerInv, CallerInv, TypeOK
<1> QED
  BY <1>1, GateStarts, GateKept, PTL DEF Spec

-----------------------------------------------------------------------------
(* A lone caller.                                                          *)

\* Of a lone caller there is one call at a time.
LEMMA Alone ==
    ASSUME CallerInv, Lone, NEW c \in Caller, NEW d \in Caller,
           pc[c] # "idle", pc[d] # "idle"
    PROVE  c = d
<1>1. c \in users /\ d \in users /\ IsFiniteSet(users)
  BY DEF CallerInv
<1>2. SUFFICES ASSUME c # d PROVE FALSE
  OBVIOUS
<1>3. IsFiniteSet({c, d}) /\ Cardinality({c, d}) = 2
  <2>1. IsFiniteSet({c}) /\ Cardinality({c}) = 1
    BY FS_Singleton
  <2>2. {c} \cup {d} = {c, d} /\ d \notin {c}
    BY <1>2
  <2> QED
    BY <2>1, <2>2, FS_AddElement
<1>4. Cardinality({c, d}) <= Cardinality(users) /\ Cardinality(users) \in Nat
  <2>1. {c, d} \in SUBSET users
    BY <1>1
  <2> QED
    BY <1>1, <2>1, FS_Subset, FS_CardinalityType
<1> QED
  BY <1>3, <1>4 DEF Lone

\* Nobody else is served, or waits, while a lone caller stands somewhere else.
LEMMA NoOther ==
    ASSUME CallerInv, Lone, NEW c \in Caller, pc[c] # "idle"
    PROVE  /\ pc[c] \notin {"call", "backoff"} => Running = 0
           /\ pc[c] \notin {"token", "sleep"} => Waiting = 0
<1>1. \A d \in Caller : pc[d] # "idle" => d = c
  BY Alone
<1>2. pc[c] \notin {"call", "backoff"} => {d \in Caller : pc[d] \in {"call", "backoff"}} = {}
  BY <1>1
<1>3. pc[c] \notin {"token", "sleep"} => {d \in Caller : pc[d] \in {"token", "sleep"}} = {}
  BY <1>1
<1> QED
  BY <1>2, <1>3, FS_EmptySet DEF Running, Waiting

\* Users are never forgotten: who is alone after a step was alone before it.
LEMMA WasAlone ==
    ASSUME CallerInv, [Next]_vars, Lone'
    PROVE  Lone
<1>1. users' = users \/ \E c \in Caller : users' = users \cup {c}
  BY DEF Next, Ask, Breaker, Enqueue, TakeToken, Try, Succeed, Fail, Return, Tick, Midnight,
         Rebuild, Over, vars, ghosts
<1>2. ASSUME NEW c \in Caller, users' = users \cup {c} PROVE Lone
  <2>1. IsFiniteSet(users) /\ Cardinality(users) \in Nat
    BY FS_CardinalityType DEF CallerInv
  <2>2. Cardinality(users \cup {c}) = IF c \in users THEN Cardinality(users) ELSE Cardinality(users) + 1
    BY <2>1, FS_AddElement
  <2> QED
    BY <1>2, <2>1, <2>2 DEF Lone
<1> QED
  BY <1>1, <1>2 DEF Lone

\* The rounded-up wait is enough for a token, and no longer than for a whole one.
LEMMA WaitSuffices ==
    ASSUME NEW b \in [tokens : Nat, last : Nat], ~Affords(b)
    PROVE  /\ WaitTime(b) \in Nat /\ WaitTime(b) <= Fill
           /\ b.tokens + WaitTime(b) * Rate >= Cost
<1> DEFINE t == b.tokens
           q == (Cost - t + Rate - 1) \div Rate
<1>1. t \in Nat /\ t < Cost /\ Cost \in Nat /\ Rate \in Nat /\ Rate >= 1
  BY GatekeeperAssumption DEF Affords
<1>2. WaitTime(b) = IF q > 0 THEN q ELSE 1
  BY DEF WaitTime
<1> HIDE DEF t
<1>3. /\ q \in Nat /\ q * Rate <= Cost - t + Rate - 1 /\ Cost - t + Rate - 1 < q * Rate + Rate
      /\ q <= (Cost + Rate - 1) \div Rate
  BY <1>1
<1>4. q >= 1
  <2>1. CASE q = 0
    BY <1>1, <1>3, <2>1
  <2> HIDE DEF q
  <2> QED
    BY <1>3, <2>1
<1>5. t + q * Rate >= Cost
  <2> DEFINE p == q * Rate
  <2>1. p \in Int
    BY <1>1, <1>3
  <2>2. Cost - t + Rate - 1 < p + Rate
    BY <1>3
  <2> HIDE DEF p
  <2>3. t + p >= Cost
    BY <1>1, <2>1, <2>2
  <2> QED
    BY <2>3 DEF p
<1> QED
  BY <1>2, <1>3, <1>4, <1>5 DEF t, Fill

\* One more attempt costs one more pause and one more deadline.
LEMMA SpentGrows ==
    ASSUME NEW k \in Nat
    PROVE  /\ Spent(k) \in Nat /\ Spent(0) = Fill /\ RetryAfter * k \in Nat
           /\ Spent(k + 1) = Spent(k) + RetryAfter * k + Deadline
           /\ k <= MaxRetries => Spent(k) <= Stall
<1>1. /\ Deadline \in Nat /\ RetryAfter \in Nat /\ MaxRetries \in Nat
      /\ Cost \in Nat /\ Rate \in Nat \ {0}
  BY GatekeeperAssumption
<1>2. Fill \in Nat
  BY <1>1 DEF Fill
<1>3. Triangle(0) = 0 /\ Triangle(k) \in Nat /\ Triangle(k + 1) = Triangle(k) + k
  BY DEF Triangle
<1>4. Spent(k) \in Nat /\ RetryAfter * k \in Nat
  <2>1. k * Deadline \in Nat /\ RetryAfter * Triangle(k) \in Nat /\ RetryAfter * k \in Nat
    BY <1>1, <1>3
  <2> QED
    BY <1>2, <2>1 DEF Spent
<1>5. Spent(k + 1) = Spent(k) + RetryAfter * k + Deadline
  <2>1. (k + 1) * Deadline = k * Deadline + Deadline
    BY <1>1
  <2>2. RetryAfter * (Triangle(k) + k) = RetryAfter * Triangle(k) + RetryAfter * k
    BY <1>1, <1>3
  <2>3. /\ k * Deadline \in Nat /\ RetryAfter * Triangle(k) \in Nat
    BY <1>1, <1>3
  <2> QED
    BY <1>1, <1>2, <1>3, <1>4, <2>1, <2>2, <2>3 DEF Spent
<1>6. ASSUME k <= MaxRetries PROVE Spent(k) <= Stall
  <2> DEFINE m == MaxRetries - k
  <2>1. m \in Nat /\ MaxRetries = k + m
    BY <1>1, <1>6
  <2> HIDE DEF m
  <2>2. k * Deadline <= (k + m) * Deadline
    BY <1>1, <2>1
  <2>3. Triangle(k + m) \in Nat /\ Triangle(k) <= Triangle(k + m)
    BY <2>1 DEF Triangle
  <2>4. RetryAfter * Triangle(k) <= RetryAfter * Triangle(k + m)
    BY <1>1, <1>3, <2>3
  <2>5. Spent(k) <= Spent(k + m)
    <3>1. /\ k * Deadline \in Nat /\ (k + m) * Deadline \in Nat
          /\ RetryAfter * Triangle(k) \in Nat /\ RetryAfter * Triangle(k + m) \in Nat
      BY <1>1, <1>3, <2>1, <2>3
    <3> QED
      BY <1>2, <2>2, <2>4, <3>1 DEF Spent
  <2>6. Spent(MaxRetries) = Stall
    BY DEF Spent, Stall, Fill, Triangle
  <2> QED
    BY <2>1, <2>5, <2>6
<1>7. Spent(0) = Fill
  BY <1>1, <1>2, <1>3 DEF Spent
<1> QED
  BY <1>4, <1>5, <1>6, <1>7

\* A step of one caller leaves the others where they are.
LEMMA OthersInTime ==
    ASSUME CallerInv, NEW d \in Caller, InTime(d),
           pc'[d] = pc[d], due'[d] = due[d], since'[d] = since[d], attempt'[d] = attempt[d],
           clock' = clock, bucket' = bucket \/ pc[d] = "idle"
    PROVE  InTime(d)'
BY DEF InTime, Sleeps, Spent, Pause

\* A step of a lone caller stays within the time its place allows.
LEMMA StallStep ==
    ASSUME GateInv, StallInv, Lone, NEW c \in Caller,
           Ask(c) \/ Breaker(c) \/ Enqueue(c) \/ TakeToken(c) \/ Try(c) \/ Succeed(c) \/ Fail(c)
    PROVE  \A d \in Caller : InTime(d)'
<1> USE DEF Goto
<1>0. /\ CallerInv /\ BucketInv /\ InTime(c)
      /\ clock' = clock /\ clock \in Nat
      /\ pc \in [Caller -> Place] /\ attempt \in [Caller -> 0..MaxRetries]
      /\ due \in [Caller -> Nat] /\ since \in [Caller -> 0..clock]
      /\ since[c] \in Nat /\ due[c] \in Nat /\ attempt[c] \in Nat
      /\ Deadline \in Nat /\ RetryAfter \in Nat
  <2>1. CallerInv /\ BucketInv /\ InTime(c) /\ Deadline \in Nat /\ RetryAfter \in Nat
    BY GatekeeperAssumption DEF GateInv, StallInv
  <2>2. clock' = clock
    BY DEF Ask, Breaker, Enqueue, TakeToken, Try, Succeed, Fail, Return
  <2>3. /\ pc \in [Caller -> Place] /\ attempt \in [Caller -> 0..MaxRetries]
        /\ due \in [Caller -> Nat] /\ since \in [Caller -> 0..clock] /\ clock \in Nat
    BY <2>1, GatekeeperAssumption DEF CallerInv
  <2>4. since[c] \in Nat /\ due[c] \in Nat /\ attempt[c] \in Nat
    BY <2>3, GatekeeperAssumption
  <2> QED
    BY <2>1, <2>2, <2>3, <2>4
<1>1. ASSUME NEW d \in Caller, d # c PROVE InTime(d)'
  <2>1. pc'[d] = pc[d] /\ due'[d] = due[d] /\ since'[d] = since[d] /\ attempt'[d] = attempt[d]
    BY <1>0, <1>1 DEF Ask, Breaker, Enqueue, TakeToken, Try, Succeed, Fail, Return, Leave, Stay
  <2>2. bucket' = bucket \/ pc[d] = "idle"
    <3>1. CASE TakeToken(c)
      <4>1. pc[c] # "idle"
        BY <3>1 DEF TakeToken
      <4> QED
        BY <1>0, <1>1, <4>1, Alone
    <3>2. CASE ~TakeToken(c)
      BY <3>2 DEF Ask, Breaker, Enqueue, Try, Succeed, Fail, Return, gates
    <3> QED
      BY <3>1, <3>2
  <2> QED
    BY <1>0, <2>1, <2>2, OthersInTime DEF StallInv
<1>2. ASSUME pc'[c] = "idle" PROVE InTime(c)'
  BY <1>2 DEF InTime, Sleeps
<1>3. CASE Ask(c) \/ Breaker(c) \/ Enqueue(c)
  <2>1. pc'[c] \in {"idle", "breaker", "queue", "token"}
    BY <1>0, <1>3 DEF Ask, Breaker, Enqueue, Leave, Stay
  <2>2. pc'[c] # "idle" => clock' = since'[c]
    BY <1>0, <1>3 DEF InTime, Ask, Breaker, Enqueue, Leave, Stay
  <2>3. InTime(c)'
    BY <1>2, <2>1, <2>2 DEF InTime, Sleeps
  <2> QED
    BY <1>1, <2>3
<1>4. CASE TakeToken(c)
  <2> DEFINE b == Refilled(bucket)
  <2>1. /\ b \in [tokens : 0..Capacity, last : 0..clock] /\ b.last = clock
    BY <1>0, RefillFlows
  <2>2. /\ since' = since /\ attempt' = attempt
        /\ pc[c] = "token" \/ (pc[c] = "sleep" /\ due[c] = clock)
    BY <1>4 DEF TakeToken
  <2>3. Fill \in Nat
    BY SpentGrows
  <2>4. CASE Affords(b)
    <3>1. pc'[c] = "slot" /\ clock' - since'[c] <= Fill
      BY <1>0, <1>4, <2>2, <2>3, <2>4 DEF TakeToken, InTime, Sleeps
    <3>2. InTime(c)'
      BY <3>1 DEF InTime, Sleeps, Fill
    <3> QED
      BY <1>1, <3>2
  <2>5. CASE ~Affords(b)
    <3>1. CASE pc[c] = "token"
      <4> DEFINE w == WaitTime(b)
      <4>1. /\ pc'[c] = "sleep" /\ due'[c] = clock + w /\ bucket' = b
        BY <1>0, <1>4, <2>5 DEF TakeToken
      <4>2. w \in Nat /\ w <= Fill /\ b.tokens + w * Rate >= Cost
        <5>1. b \in [tokens : Nat, last : Nat]
          BY <1>0, <2>1, GatekeeperAssumption
        <5> HIDE DEF b
        <5> QED
          BY <2>5, <5>1, WaitSuffices
      <4>3. clock = since[c]
        BY <1>0, <3>1 DEF InTime
      <4> HIDE DEF w, b
      <4>4. due'[c] - bucket'.last = w /\ due'[c] - since'[c] = w /\ clock' <= due'[c]
            /\ bucket'.last <= due'[c]
        BY <1>0, <2>1, <2>2, <4>1, <4>2, <4>3
      <4>5. InTime(c)'
        BY <4>1, <4>2, <4>4 DEF InTime, Sleeps, Fill
      <4> QED
        BY <1>1, <4>5
    <3>2. CASE pc[c] = "sleep" /\ due[c] = clock
      <4>1. bucket.tokens + (clock - bucket.last) * Rate >= Cost
        BY <1>0, <3>2 DEF InTime, Sleeps
      <4>2. Affords(b)
        BY <4>1, GatekeeperAssumption DEF Refilled, Affords
      <4> QED
        BY <2>5, <4>2
    <3> QED
      BY <2>2, <3>1, <3>2
  <2> QED
    BY <2>4, <2>5
<1>5. CASE Try(c)
  <2>1. /\ since' = since /\ pc'[c] = "call" /\ due'[c] = clock + Deadline
        /\ attempt'[c] = IF pc[c] = "slot" THEN 1 ELSE attempt[c] + 1
        /\ pc[c] = "slot" \/ (pc[c] = "backoff" /\ due[c] = clock)
    BY <1>0, <1>5 DEF Try
  <2>2. Spent(0) = Fill /\ Spent(0 + 1) = Spent(0) + RetryAfter * 0 + Deadline /\ Fill \in Nat
        /\ RetryAfter * 0 = 0
    BY <1>0, SpentGrows
  <2>3. /\ Spent(attempt[c] + 1) = Spent(attempt[c]) + RetryAfter * attempt[c] + Deadline
        /\ Spent(attempt[c]) \in Nat /\ RetryAfter * attempt[c] \in Nat
    BY <1>0, SpentGrows
  <2>4. due'[c] - since'[c] <= Spent(attempt'[c]) /\ clock' <= due'[c]
    <3>1. CASE pc[c] = "slot"
      <4>1. clock - since[c] <= Fill
        BY <1>0, <3>1 DEF InTime
      <4>2. attempt'[c] = 0 + 1
        BY <2>1, <3>1
      <4> QED
        BY <1>0, <2>1, <2>2, <4>1, <4>2
    <3>2. CASE pc[c] = "backoff"
      <4>1. clock - since[c] <= Spent(attempt[c]) + RetryAfter * attempt[c]
        BY <1>0, <2>1, <3>2 DEF InTime, Pause
      <4>2. attempt'[c] = attempt[c] + 1
        BY <2>1, <3>2
      <4> HIDE DEF Spent
      <4> QED
        BY <1>0, <2>1, <2>3, <4>1, <4>2
    <3> QED
      BY <2>1, <3>1, <3>2
  <2>5. InTime(c)'
    BY <2>1, <2>4 DEF InTime, Sleeps, Spent, Fill, Triangle
  <2> QED
    BY <1>1, <2>5
<1>6. CASE Succeed(c) \/ Fail(c)
  <2>1. pc[c] = "call"
    BY <1>6 DEF Succeed, Fail
  <2>2. CASE Return(c)
    <3>1. pc'[c] = "idle"
      BY <1>0, <2>2 DEF Return, Leave
    <3> QED
      BY <1>1, <1>2, <3>1
  <2>3. CASE ~Return(c)
    <3>1. /\ pc'[c] = "backoff" /\ due'[c] = clock + RetryAfter * attempt[c]
          /\ since' = since /\ attempt' = attempt
      BY <1>0, <1>6, <2>3 DEF Succeed, Fail, Pause
    <3>2. clock <= due[c] /\ due[c] - since[c] <= Spent(attempt[c])
      BY <1>0, <2>1 DEF InTime
    <3>3. Spent(attempt[c]) \in Nat /\ RetryAfter * attempt[c] \in Nat
      BY <1>0, SpentGrows
    <3>4. due'[c] - since'[c] <= Spent(attempt[c]) + RetryAfter * attempt[c] /\ clock' <= due'[c]
      BY <1>0, <3>1, <3>2, <3>3
    <3>5. Spent(attempt'[c]) = Spent(attempt[c]) /\ Pause(attempt'[c]) = RetryAfter * attempt[c]
      BY <3>1 DEF Pause
    <3>6. InTime(c)'
      BY <3>1, <3>4, <3>5 DEF InTime, Sleeps, Spent, Fill, Triangle, Pause
    <3> QED
      BY <1>1, <3>6
  <2> QED
    BY <2>2, <2>3
<1> QED
  BY <1>3, <1>4, <1>5, <1>6

\* Time waits for a caller that is at a step of its own.
LEMMA StallTick ==
    ASSUME GateInv, StallInv, Lone, Tick, NEW c \in Caller
    PROVE  InTime(c)'
<1>1. /\ clock' = clock + 1 /\ clock \in Nat /\ since[c] \in Nat /\ due[c] \in Nat
      /\ UNCHANGED <<pc, due, attempt, since, bucket>> /\ CallerInv /\ InTime(c) /\ ~Ready(c)
  BY GatekeeperAssumption DEF GateInv, CallerInv, StallInv, Tick, gates
<1>2. pc[c] \notin {"breaker", "queue", "token"}
  BY <1>1 DEF Ready
<1>3. pc[c] # "slot"
  <2>1. ASSUME pc[c] = "slot" PROVE FALSE
    <3>1. Running = 0
      BY <1>1, <2>1, NoOther
    <3> QED
      BY <1>1, <2>1, <3>1, GatekeeperAssumption DEF Ready
  <2> QED
    BY <2>1
<1>4. pc[c] \in {"sleep", "backoff", "call"} => clock' <= due[c]
  BY <1>1 DEF Ready, InTime, Sleeps
<1> QED
  BY <1>1, <1>2, <1>3, <1>4 DEF InTime, Sleeps, Spent, Pause, Fill, Triangle

\* So does every other step, the clock's included: it stops at what is due.
LEMMA StallKept ==
    ASSUME GateInv, StallInv, [Next]_vars
    PROVE  StallInv'
<1> SUFFICES ASSUME Lone' PROVE \A c \in Caller : InTime(c)'
  BY DEF StallInv
<1>0. Lone
  BY WasAlone DEF GateInv
<1>1. CASE \E c \in Caller : \/ Ask(c) \/ Breaker(c) \/ Enqueue(c) \/ TakeToken(c)
                             \/ Try(c) \/ Succeed(c) \/ Fail(c)
  BY <1>0, <1>1, StallStep
<1>2. CASE Tick
  BY <1>0, <1>2, StallTick
<1>3. CASE Midnight \/ Over \/ UNCHANGED vars
  <2>1. UNCHANGED <<clock, pc, due, attempt, since, bucket>>
    BY <1>3 DEF Midnight, Over, vars, gates
  <2> QED
    BY <1>0, <2>1 DEF StallInv, InTime, Sleeps, Spent, Pause, Fill, Triangle
<1>4. CASE Rebuild
  <2>1. \A c \in Caller : pc'[c] = "idle"
    BY <1>4 DEF Rebuild
  <2> QED
    BY <2>1 DEF InTime, Sleeps
<1> QED
  BY <1>1, <1>2, <1>3, <1>4 DEF Next

\* A lone caller is back, or refused, within the wait for one token, all its
\* attempts at their full deadline and the pauses between them.
THEOREM LoneCallsEnd == Spec => []StallBounded
<1>1. Init => StallInv
  BY DEF Init, StallInv, InTime, Sleeps
<1>2. GateInv /\ StallInv => StallBounded
  <2> SUFFICES ASSUME GateInv, StallInv, Lone, NEW c \in Caller, pc[c] # "idle"
               PROVE  clock - since[c] <= Stall
    BY DEF StallBounded
  <2>1. /\ clock \in Nat /\ since[c] \in 0..clock /\ due[c] \in Nat /\ pc[c] \in Place
        /\ pc[c] = "call" => attempt[c] \in 1..MaxRetries
        /\ pc[c] = "backoff" => attempt[c] \in 1..(MaxRetries - 1)
        /\ InTime(c) /\ MaxRetries \in Nat
    BY GatekeeperAssumption DEF GateInv, CallerInv, StallInv
  <2>2. Fill \in Nat /\ Fill <= Stall /\ Stall \in Nat
    <3>1. Fill \in Nat /\ Fill <= Stall
      BY <2>1, SpentGrows
    <3>2. Stall \in Int
      <4>1. Stall = Spent(MaxRetries)
        BY DEF Spent, Stall, Fill, Triangle
      <4> QED
        BY <2>1, <4>1, SpentGrows
    <3> QED
      BY <3>1, <3>2
  <2>3. CASE pc[c] \in {"breaker", "queue", "token"}
    BY <2>1, <2>2, <2>3 DEF InTime
  <2>4. CASE pc[c] \in {"sleep", "slot"}
    <3>1. clock - since[c] <= Fill
      BY <2>1, <2>2, <2>4 DEF InTime, Sleeps
    <3> QED
      BY <2>1, <2>2, <3>1
  <2>5. CASE pc[c] = "call"
    <3> DEFINE k == attempt[c]
    <3>1. k \in Nat /\ k <= MaxRetries /\ clock - since[c] <= Spent(k)
      <4>1. k \in Nat /\ k <= MaxRetries /\ clock <= due[c] /\ due[c] - since[c] <= Spent(k)
        BY <2>1, <2>5 DEF InTime
      <4>2. Spent(k) \in Nat
        BY <4>1, SpentGrows
      <4> QED
        BY <2>1, <4>1, <4>2
    <3> HIDE DEF k
    <3>2. Spent(k) \in Nat /\ Spent(k) <= Stall
      BY <3>1, SpentGrows
    <3> QED
      BY <2>1, <2>2, <3>1, <3>2
  <2>6. CASE pc[c] = "backoff"
    <3> DEFINE k == attempt[c]
               pause == RetryAfter * k
    <3>1. k \in Nat /\ k + 1 <= MaxRetries /\ clock <= due[c] /\ due[c] - since[c] <= Spent(k) + pause
      BY <2>1, <2>6 DEF InTime, Pause
    <3> HIDE DEF k
    <3>2. /\ Spent(k) \in Nat /\ pause \in Nat /\ Spent(k + 1) = Spent(k) + pause + Deadline
          /\ Spent(k + 1) <= Stall /\ Deadline \in Nat
      <4>1. k + 1 \in Nat
        BY <3>1
      <4> QED
        BY <3>1, <4>1, SpentGrows, GatekeeperAssumption
    <3> HIDE DEF pause
    <3> QED
      BY <2>1, <2>2, <3>1, <3>2
  <2> QED
    BY <2>1, <2>3, <2>4, <2>5, <2>6 DEF Place
<1> QED
  BY <1>1, <1>2, GateStarts, GateKept, StallKept, PTL DEF Spec

\* The limits of a service that its own bucket keeps below the breaker's: there
\* is room to wait, and a full bucket with a window's inflow holds fewer calls
\* than the breaker takes for a burst.
Gentle == QueueDepth >= 1 /\ MaxInWindow * Cost > Capacity + Rate * Window

\* The breaker would need one live call more than the bucket can have let go.
LEMMA LoneNotTooMany ==
    ASSUME GateInv, ShutInv, Lone, Gentle, Len(passed) = Len(granted)
    PROVE  ~TooMany(Remembered(dos.events))
<1> DEFINE old  == dos.events
           kept == Remembered(old)
           all  == Append(old, clock)
           p    == Len(passed)
           k    == p - MaxInWindow + 1
<1>1. /\ clock \in Nat /\ old \in Seq(Nat) /\ passed \in Seq(Nat) /\ p \in Nat /\ ~dos.locked
      /\ granted \in Seq(Nat) /\ bucket.last \in Nat /\ bucket.last <= clock
      /\ MaxInWindow \in Nat /\ Window \in Nat /\ Rate \in Nat /\ Capacity \in Nat /\ Cost \in Nat
  BY GatekeeperAssumption
     DEF GateInv, BreakerInv, BucketInv, BucketType, GrantedType, ShutInv
<1>2. MaxInWindow >= 1
  <2>1. CASE MaxInWindow = 0
    <3>1. MaxInWindow * Cost = 0 /\ Rate * Window \in Nat
      BY <1>1, <2>1
    <3> QED
      BY <1>1, <3>1 DEF Gentle
  <2> QED
    BY <1>1, <2>1
<1>3. SUFFICES ASSUME TooMany(kept) PROVE FALSE
  OBVIOUS
<1>4. /\ kept \in Seq(Nat) /\ Len(all) - Len(kept) \in Nat /\ Len(kept) \in 1..(Len(old) + 1)
      /\ \A i \in 1..Len(kept) : kept[i] = all[(Len(all) - Len(kept)) + i]
      /\ Live(kept[1])
  BY <1>1, RememberedSuffix
<1>5. Len(old) \in Nat /\ Len(old) <= MaxInWindow /\ p - Len(old) \in Nat
      /\ \A i \in 1..Len(old) : old[i] = passed[(p - Len(old)) + i]
  BY <1>1 DEF GateInv, BreakerInv
<1>6. Len(all) = Len(old) + 1 /\ \A i \in 1..Len(old) : all[i] = old[i]
  BY <1>1
<1> HIDE DEF kept, all, old, p
<1>7. Len(old) = MaxInWindow /\ Len(kept) = Len(all)
  BY <1>1, <1>3, <1>4, <1>5, <1>6 DEF TooMany
<1>8. kept[1] = passed[k] /\ k \in 1..p /\ p \in 1..p
  <2>0. (Len(all) - Len(kept)) + 1 = 1 /\ 1 \in 1..Len(kept) /\ 1 \in 1..Len(old)
    BY <1>1, <1>2, <1>5, <1>6, <1>7
  <2>1. kept[1] = all[1] /\ all[1] = old[1]
    BY <1>4, <1>6, <2>0
  <2>2. old[1] = passed[(p - Len(old)) + 1]
    BY <1>1, <1>2, <1>5, <1>7
  <2>3. (p - Len(old)) + 1 = k /\ k \in 1..p /\ p \in 1..p
    BY <1>1, <1>2, <1>5, <1>7
  <2> QED
    BY <2>1, <2>2, <2>3
<1> HIDE DEF k
<1>9. /\ passed[k] \in Nat /\ granted[k] \in Nat /\ granted[p] \in Nat
      /\ passed[k] <= granted[k] /\ granted[p] <= bucket.last
  BY <1>1, <1>8 DEF ShutInv, GateInv, BucketInv, GrantedType, p
<1>10. passed[k] + Window >= clock
  BY <1>4, <1>8 DEF Live
<1> DEFINE gap == granted[p] - granted[k]
<1>11. gap <= Window /\ gap \in Int
  <2>1. granted[p] <= clock /\ clock \in Nat /\ Window \in Nat
    BY <1>1, <1>9
  <2> QED
    BY <1>9, <1>10, <2>1
<1>12. MaxInWindow * Cost <= Capacity + Rate * gap
  <2>1. k <= p /\ p - k + 1 = MaxInWindow
    BY <1>1, <1>2, <1>8 DEF k
  <2>2. (p - k + 1) * Cost <= Capacity + Rate * (granted[p] - granted[k])
    BY <1>8, <2>1 DEF GateInv, BucketInv, RateHolds, p
  <2> QED
    BY <2>1, <2>2
<1> HIDE DEF gap
<1>13. Rate * gap <= Rate * Window
  BY <1>1, <1>11
<1>14. Rate * gap \in Int /\ Rate * Window \in Int /\ MaxInWindow * Cost \in Int
  BY <1>1, <1>11
<1> QED
  BY <1>1, <1>12, <1>13, <1>14 DEF Gentle

\* Nobody but c moved, and c is alone if it is under way: c tells who is between.
LEMMA BetweenIs ==
    ASSUME CallerInv, Lone, NEW c \in Caller, pc[c] # "idle",
           NEW place, pc' = [pc EXCEPT ![c] = place]
    PROVE  /\ Between <=> pc[c] \in {"queue", "token", "sleep"}
           /\ Between' <=> place \in {"queue", "token", "sleep"}
<1>1. \A d \in Caller : d # c => pc[d] = "idle"
  BY Alone
<1>2. pc'[c] = place /\ \A d \in Caller : d # c => pc'[d] = "idle"
  BY <1>1 DEF CallerInv
<1> QED
  BY <1>1, <1>2 DEF Between

\* A lone caller's pass is granted before its next one.
LEMMA ShutStep ==
    ASSUME GateInv, ShutInv, Lone, Gentle, NEW c \in Caller,
           Ask(c) \/ Breaker(c) \/ Enqueue(c) \/ TakeToken(c) \/ Try(c) \/ Succeed(c) \/ Fail(c)
    PROVE  ShutInv'
<1> DEFINE B == {"queue", "token", "sleep"}
           p == Len(passed)
           g == Len(granted)
<1>0. /\ CallerInv /\ clock' = clock /\ clock \in Nat
      /\ passed \in Seq(Nat) /\ granted \in Seq(Nat) /\ p \in Nat /\ g \in Nat
      /\ \A i \in 1..p : passed[i] <= clock
      /\ ~dos.locked /\ p = g + (IF Between THEN 1 ELSE 0)
      /\ \A i \in 1..g : passed[i] <= granted[i]
      /\ pc \in [Caller -> Place]
  <2>1. clock' = clock
    BY DEF Ask, Breaker, Enqueue, TakeToken, Try, Succeed, Fail, Return
  <2>2. /\ CallerInv /\ passed \in Seq(Nat) /\ granted \in Seq(Nat) /\ clock \in Nat
        /\ pc \in [Caller -> Place]
    BY DEF GateInv, BreakerInv, BucketInv, GrantedType, CallerInv
  <2> QED
    BY <2>1, <2>2 DEF ShutInv
\* A step that neither passes the breaker nor gets a token.
<1>1. ASSUME UNCHANGED <<passed, granted, dos>>, Between' <=> Between PROVE ShutInv'
  BY <1>0, <1>1 DEF ShutInv
<1>2. ASSUME NEW place, pc' = [pc EXCEPT ![c] = place], pc[c] # "idle"
      PROVE  (Between <=> pc[c] \in B) /\ (Between' <=> place \in B)
  BY <1>0, <1>2, BetweenIs
<1>3. CASE Ask(c)
  <2>1. /\ pc[c] = "idle" /\ (pc' = pc \/ pc' = [pc EXCEPT ![c] = "breaker"])
        /\ UNCHANGED <<passed, granted, dos>>
    BY <1>3 DEF Ask, Goto
  <2>2. Between' <=> Between
    BY <1>0, <2>1 DEF Between
  <2> QED
    BY <1>1, <2>1, <2>2
<1>4. CASE Breaker(c)
  <2>1. pc[c] = "breaker" /\ granted' = granted
    BY <1>4 DEF Breaker
  <2>2. ~Between
    <3>1. \A d \in Caller : d # c => pc[d] = "idle"
      BY <1>0, <2>1, Alone
    <3> QED
      BY <2>1, <3>1 DEF Between
  <2>3. p = g /\ ~TooMany(Remembered(dos.events))
    <3>1. p = g
      BY <1>0, <2>2
    <3> QED
      BY <3>1, LoneNotTooMany
  <2>4. /\ pc' = [pc EXCEPT ![c] = "queue"] /\ passed' = Append(passed, clock)
        /\ dos' = [dos EXCEPT !.events = Remembered(dos.events)]
    BY <1>0, <1>4, <2>3 DEF Breaker, Stay, Goto
  <2>5. Between' /\ ~dos'.locked
    <3>1. dos \in [events : Seq(Nat), locked : BOOLEAN]
      BY DEF GateInv, BreakerInv
    <3> QED
      BY <1>0, <1>2, <2>1, <2>4, <3>1
  <2>6. /\ Len(passed') = g + 1
        /\ \A i \in 1..(g + 1) : passed'[i] <= clock
        /\ \A i \in 1..g : passed'[i] = passed[i]
    BY <1>0, <2>3, <2>4
  <2> HIDE DEF p, g
  <2>7. Len(granted') = g
    BY <2>1 DEF g
  <2>8. \A i \in 1..g : passed'[i] <= granted'[i]
    BY <1>0, <2>1, <2>6
  <2> QED
    BY <1>0, <2>5, <2>6, <2>7, <2>8 DEF ShutInv
<1>5. CASE Enqueue(c)
  <2>1. pc[c] = "queue" /\ UNCHANGED <<passed, granted, dos>>
    BY <1>5 DEF Enqueue, gates, ghosts
  <2>2. Waiting = 0
    BY <1>0, <2>1, NoOther
  <2>3. pc' = [pc EXCEPT ![c] = "token"]
    <3>1. ~(Waiting >= QueueDepth)
      BY <2>2, GatekeeperAssumption DEF Gentle
    <3> QED
      BY <1>5, <3>1 DEF Enqueue, Stay, Goto
  <2>4. Between' <=> Between
    BY <1>2, <2>1, <2>3
  <2> QED
    BY <1>1, <2>1, <2>4
<1>6. CASE TakeToken(c)
  <2>1. pc[c] \in {"token", "sleep"} /\ UNCHANGED <<passed, dos>>
    BY <1>6 DEF TakeToken
  <2>2. CASE Affords(Refilled(bucket))
    <3>1. pc' = [pc EXCEPT ![c] = "slot"] /\ granted' = Append(granted, clock)
      BY <1>6, <2>2 DEF TakeToken, Goto
    <3>2. Between /\ ~Between'
      <4>1. (Between <=> pc[c] \in B) /\ (Between' <=> "slot" \in B)
        BY <1>2, <2>1, <3>1
      <4> QED
        BY <2>1, <4>1
    <3>3. p = g + 1
      BY <1>0, <3>2
    <3>4. /\ Len(granted') = g + 1 /\ granted'[g + 1] = clock
          /\ \A i \in 1..g : granted'[i] = granted[i]
      BY <1>0, <3>1
    <3> HIDE DEF p, g
    <3>5. \A i \in 1..(g + 1) : passed[i] <= granted'[i]
      <4> TAKE i \in 1..(g + 1)
      <4>1. i \in 1..p /\ (i \in 1..g \/ i = g + 1)
        BY <1>0, <3>3
      <4> QED
        BY <1>0, <3>4, <4>1
    <3>6. Len(passed') = g + 1 /\ \A i \in 1..(g + 1) : passed'[i] <= clock
      BY <1>0, <2>1, <3>3 DEF p
    <3> QED
      BY <1>0, <2>1, <3>2, <3>4, <3>5, <3>6 DEF ShutInv
  <2>3. CASE ~Affords(Refilled(bucket))
    <3>1. pc' = [pc EXCEPT ![c] = "sleep"] /\ granted' = granted
      BY <1>6, <2>3 DEF TakeToken, Goto
    <3>2. Between' <=> Between
      BY <1>2, <2>1, <3>1
    <3> QED
      BY <1>1, <2>1, <3>1, <3>2
  <2> QED
    BY <2>2, <2>3
<1>7. CASE Try(c) \/ Succeed(c) \/ Fail(c)
  <2>1. pc[c] \in {"slot", "backoff", "call"} /\ UNCHANGED <<passed, granted, dos>>
    BY <1>7 DEF Try, Succeed, Fail, Return, gates, ghosts
  <2>2. \E place \in {"call", "idle", "backoff"} : pc' = [pc EXCEPT ![c] = place]
    BY <1>7 DEF Try, Succeed, Fail, Return, Leave, Goto
  <2>3. Between' <=> Between
    BY <1>2, <2>1, <2>2
  <2> QED
    BY <1>1, <2>1, <2>3
<1> QED
  BY <1>3, <1>4, <1>5, <1>6, <1>7

\* Every step keeps passes and grants paired.
LEMMA ShutKept ==
    ASSUME GateInv, ShutInv, Gentle, [Next]_vars
    PROVE  ShutInv'
<1>0. clock \in Nat /\ passed \in Seq(Nat) /\ Len(passed) \in Nat
  BY DEF GateInv, BreakerInv
<1>1. CASE \E c \in Caller : \/ Ask(c) \/ Breaker(c) \/ Enqueue(c) \/ TakeToken(c)
                             \/ Try(c) \/ Succeed(c) \/ Fail(c)
  <2>1. CASE Lone
    BY <1>1, <2>1, ShutStep
  <2>2. CASE ~Lone
    <3>1. ~Lone'
      BY <2>2, WasAlone DEF GateInv
    <3>2. \A i \in 1..Len(passed') : passed'[i] <= clock'
      <4>1. clock' = clock /\ (passed' = passed \/ passed' = Append(passed, clock))
        BY <1>1 DEF Ask, Breaker, Enqueue, TakeToken, Try, Succeed, Fail, Return, ghosts
      <4>2. CASE passed' = passed
        BY <4>1, <4>2 DEF ShutInv
      <4>3. CASE passed' = Append(passed, clock)
        <5>1. /\ Len(passed') = Len(passed) + 1 /\ passed'[Len(passed) + 1] = clock
              /\ \A i \in 1..Len(passed) : passed'[i] = passed[i]
          BY <1>0, <4>3
        <5> QED
          BY <1>0, <4>1, <5>1 DEF ShutInv
      <4> QED
        BY <4>1, <4>2, <4>3
    <3> QED
      BY <3>1, <3>2 DEF ShutInv
  <2> QED
    BY <2>1, <2>2
<1>2. CASE Tick \/ Midnight \/ Over \/ UNCHANGED vars
  <2>1. /\ UNCHANGED <<pc, passed, granted, dos, users>> /\ clock' \in Nat /\ clock <= clock'
    BY <1>0, <1>2 DEF Tick, Midnight, Over, vars, gates, ghosts
  <2>2. \A i \in 1..Len(passed) : passed[i] <= clock'
    <3> TAKE i \in 1..Len(passed)
    <3>1. passed[i] \in Nat /\ passed[i] <= clock
      BY <1>0 DEF ShutInv
    <3> QED
      BY <1>0, <2>1, <3>1
  <2> QED
    BY <2>1, <2>2 DEF ShutInv, Lone, Between
<1>3. CASE Rebuild
  <2>1. passed' = <<>> /\ granted' = <<>> /\ ~dos'.locked /\ ~Between'
    BY <1>3 DEF Rebuild, FreshDos, Between
  <2> QED
    BY <2>1 DEF ShutInv
<1> QED
  BY <1>1, <1>2, <1>3 DEF Next

\* Behind a bucket that is slower than the breaker, a lone caller never trips it,
\* however its calls go.
THEOREM LoneCallerPasses == Gentle => (Spec => []BreakerStaysShut)
<1> SUFFICES ASSUME Gentle PROVE Spec => []BreakerStaysShut
  OBVIOUS
<1>1. Init => ShutInv
  BY DEF Init, FreshDos, ShutInv, Between
<1>2. ShutInv => BreakerStaysShut
  BY DEF ShutInv, BreakerStaysShut
<1>3. GateInv /\ ShutInv /\ [Next]_vars => ShutInv'
  BY ShutKept
<1> QED
  BY <1>1, <1>2, <1>3, GateStarts, GateKept, PTL DEF Spec
=============================================================================
