------------------------ MODULE InformationRelaysProofs ------------------------
(***************************************************************************)
(* Two theorems about the three execution modes, for any latencies,        *)
(* retention, tolerance and calendar, and any events.  What a mode keeps   *)
(* is the working set: a relay under way has its report, the mode for      *)
(* particles has no other report, and the numeric mode no other row.  And  *)
(* each mode implements the command network of CommandRelays.              *)
(***************************************************************************)
EXTENDS InformationRelays, FiniteSetTheorems, TLAPS

-----------------------------------------------------------------------------
(* The invariant.                                                          *)

RelayRecord == [report : Int, arrives_at : Int, sent_at : Int,
                status : {"in_transit", "delivered", "dropped"}]
Row == [relay : Int, report : Int, arrives_at : Int]

\* The clock and the counter are integers, and only a mode with objects has
\* a burn-in.
Times ==
  /\ now \in Int /\ due \in Int /\ next \in Int
  /\ in_burn_in \in BOOLEAN
  /\ backend = "ensemble" => ~in_burn_in

\* Active relays exist, are in transit and carry the report of their own
\* number, which is still there.
Objects ==
  /\ \A n \in DOMAIN information_relays : information_relays[n] \in RelayRecord
  /\ active_information_relays \subseteq DOMAIN information_relays
  /\ \A n \in active_information_relays :
       /\ information_relays[n].report = n
       /\ information_relays[n].status = "in_transit"
  /\ active_information_relays \subseteq DOMAIN observations
  /\ backend = "particle" => DOMAIN observations = active_information_relays

Carried(buffer) == {row.report : row \in Range(buffer)}

\* The rows in the buffer carry different reports, all handed out, and what is
\* recorded is what they carry.
NumericRows ==
  /\ relay_buffer \in Seq(Row)
  /\ \A r, s \in Range(relay_buffer) : r.report = s.report => r = s
  /\ \A r \in Range(relay_buffer) : r.report < next
  /\ DOMAIN event_rows = Carried(relay_buffer)

RelaysInv ==
  /\ Times
  /\ backend # "ensemble" => Objects
  /\ backend = "ensemble" => NumericRows

-----------------------------------------------------------------------------
(* Compaction.                                                             *)

\* An element of a finite set of integers counts those up to it.
LEMMA PlaceTyped ==
  ASSUME NEW K \in SUBSET Int, IsFiniteSet(K), NEW i \in K
  PROVE  Cardinality({j \in K : j <= i}) \in 1..Cardinality(K)
<1>. DEFINE L == {j \in K : j <= i}
<1>1. /\ IsFiniteSet(L) /\ Cardinality(L) <= Cardinality(K)
  BY FS_Subset
<1>2. Cardinality(L) \in Nat /\ Cardinality(K) \in Nat
  BY <1>1, FS_CardinalityType
<1>3. L # {}
  OBVIOUS
<1>4. Cardinality(L) # 0
  BY <1>1, <1>3, FS_EmptySet
<1>. QED  BY <1>1, <1>2, <1>4

\* Two elements do not count the same.
LEMMA PlaceDistinct ==
  ASSUME NEW K \in SUBSET Int, IsFiniteSet(K), NEW i \in K, NEW k \in K, i < k
  PROVE  Cardinality({j \in K : j <= i}) # Cardinality({j \in K : j <= k})
<1>. DEFINE L == {j \in K : j <= i}
            M == {j \in K : j <= k}
<1>1. i \in Int /\ k \in Int
  OBVIOUS
<1>2. IsFiniteSet(M)
  BY FS_Subset
<1>3. L \subseteq M
  <2>. SUFFICES ASSUME NEW j \in L PROVE j \in M
    OBVIOUS
  <2>1. j \in Int /\ j <= i
    OBVIOUS
  <2>. QED  BY <1>1, <2>1
<1>4. k \in M /\ k \notin L
  BY <1>1
<1>5. Cardinality(M) = Cardinality(L) => M = L
  BY <1>2, <1>3, FS_Subset
<1>. QED  BY <1>4, <1>5

\* Each number up to the cardinality is the count of one element.
LEMMA PlaceTaken ==
  ASSUME NEW K \in SUBSET Int, IsFiniteSet(K), NEW n \in 1..Cardinality(K)
  PROVE  \E i \in K : Cardinality({j \in K : j <= i}) = n
<1>. DEFINE T == 1..Cardinality(K)
            f == [i \in K |-> Cardinality({j \in K : j <= i})]
<1>1. Cardinality(K) \in Nat
  BY FS_CardinalityType
<1>2. IsFiniteSet(T) /\ Cardinality(T) = Cardinality(K)
  BY <1>1, FS_Interval
<1>3. f \in [K -> T]
  BY PlaceTyped
<1>4. \A i, k \in K : i # k => f[i] # f[k]
  <2>. SUFFICES ASSUME NEW i \in K, NEW k \in K, i # k PROVE f[i] # f[k]
    OBVIOUS
  <2>1. i \in Int /\ k \in Int
    OBVIOUS
  <2>2. i < k \/ k < i
    BY <2>1
  <2>. QED  BY <2>2, PlaceDistinct
<1>5. f \in Injection(K, T)
  BY <1>3, <1>4 DEF Injection, IsInjective
<1>6. f \in Surjection(K, T)
  BY <1>2, <1>5, FS_Injection
<1>. HIDE DEF T
<1>7. \E i \in K : f[i] = n
  BY <1>6 DEF Surjection, T
<1>. QED  BY <1>7

\* The n-th of a finite set of integers is the one that counts n, and each
\* element has its place.
LEMMA OrderedFacts ==
  ASSUME NEW K \in SUBSET Int, IsFiniteSet(K)
  PROVE  /\ Cardinality(K) \in Nat
         /\ DOMAIN Ordered(K) = 1..Cardinality(K)
         /\ \A n \in 1..Cardinality(K) :
              /\ Ordered(K)[n] \in K
              /\ Cardinality({j \in K : j <= Ordered(K)[n]}) = n
         /\ \A i \in K : \E n \in 1..Cardinality(K) : Ordered(K)[n] = i
<1>. DEFINE Index(n) == CHOOSE i \in K : Cardinality({j \in K : j <= i}) = n
<1>1. Cardinality(K) \in Nat
  BY FS_CardinalityType
<1>2. /\ DOMAIN Ordered(K) = 1..Cardinality(K)
      /\ \A n \in 1..Cardinality(K) : Ordered(K)[n] = Index(n)
  BY DEF Ordered
<1>3. \A n \in 1..Cardinality(K) :
        /\ Index(n) \in K
        /\ Cardinality({j \in K : j <= Index(n)}) = n
  <2>. TAKE n \in 1..Cardinality(K)
  <2>1. \E i \in K : Cardinality({j \in K : j <= i}) = n
    BY PlaceTaken
  <2>. QED  BY <2>1
<1>4. \A i \in K : \E n \in 1..Cardinality(K) : Index(n) = i
  <2>. TAKE i \in K
  <2>. DEFINE n == Cardinality({j \in K : j <= i})
  <2>1. n \in 1..Cardinality(K)
    BY PlaceTyped
  <2>2. /\ Index(n) \in K
        /\ Cardinality({j \in K : j <= Index(n)}) = n
    BY <1>3, <2>1
  <2>3. i \in Int /\ Index(n) \in Int
    BY <2>2
  <2>4. ~(i < Index(n)) /\ ~(Index(n) < i)
    BY <2>2, PlaceDistinct
  <2>5. Index(n) = i
    BY <2>3, <2>4
  <2>. QED  BY <2>1, <2>5
<1>. HIDE DEF Index
<1>. QED  BY <1>1, <1>2, <1>3, <1>4

\* Compaction keeps the rows at the indices it is given and no other.
LEMMA CompactedRows ==
  ASSUME NEW S, NEW buffer \in Seq(S), NEW keep \in SUBSET DOMAIN buffer
  PROVE  /\ Compacted(buffer, keep) \in Seq(S)
         /\ Range(Compacted(buffer, keep)) = {buffer[i] : i \in keep}
         /\ keep \in SUBSET Int /\ IsFiniteSet(keep)
         /\ DOMAIN Compacted(buffer, keep) = 1..Cardinality(keep)
         /\ \A n \in 1..Cardinality(keep) :
              Compacted(buffer, keep)[n] = buffer[Ordered(keep)[n]]
<1>. DEFINE c == Compacted(buffer, keep)
<1>1. DOMAIN buffer = 1..Len(buffer) /\ Len(buffer) \in Nat
  OBVIOUS
<1>2. keep \in SUBSET Int /\ IsFiniteSet(keep)
  <2>1. IsFiniteSet(1..Len(buffer))
    BY <1>1, FS_Interval
  <2>2. IsFiniteSet(keep)
    BY <1>1, <2>1, FS_Subset
  <2>. QED  BY <1>1, <2>2
<1>3. /\ Cardinality(keep) \in Nat
      /\ DOMAIN Ordered(keep) = 1..Cardinality(keep)
      /\ \A n \in 1..Cardinality(keep) : Ordered(keep)[n] \in keep
      /\ \A i \in keep : \E n \in 1..Cardinality(keep) : Ordered(keep)[n] = i
  BY <1>2, OrderedFacts
<1>4. /\ DOMAIN c = 1..Cardinality(keep)
      /\ c = [n \in 1..Cardinality(keep) |-> buffer[Ordered(keep)[n]]]
  BY <1>3 DEF Compacted
<1>5. \A n \in 1..Cardinality(keep) : buffer[Ordered(keep)[n]] \in S
  <2>. TAKE n \in 1..Cardinality(keep)
  <2>1. Ordered(keep)[n] \in 1..Len(buffer)
    BY <1>1, <1>3
  <2>. QED  BY <2>1
<1>. HIDE DEF c
<1>6. c \in Seq(S)
  BY <1>3, <1>4, <1>5
<1>7. Range(c) = {buffer[i] : i \in keep}
  BY <1>3, <1>4 DEF Range
<1>. QED  BY <1>2, <1>4, <1>6, <1>7 DEF c

\* Appending adds the rows.
LEMMA AppendedRows ==
  ASSUME NEW S, NEW a \in Seq(S), NEW b \in Seq(S)
  PROVE  /\ a \o b \in Seq(S)
         /\ Range(a \o b) = Range(a) \cup Range(b)
<1>1. a \o b \in Seq(S)
  OBVIOUS
<1>2. \A r \in Range(a \o b) : r \in Range(a) \cup Range(b)
  BY DEF Range
<1>3. \A r \in Range(a) : r \in Range(a \o b)
  BY DEF Range
<1>4. \A r \in Range(b) : r \in Range(a \o b)
  <2>. TAKE r \in Range(b)
  <2>1. PICK i \in 1..Len(b) : r = b[i]
    BY DEF Range
  <2>2. /\ Len(a) + i \in 1..Len(a \o b)
        /\ (a \o b)[Len(a) + i] = b[i]
    OBVIOUS
  <2>3. DOMAIN (a \o b) = 1..Len(a \o b)
    BY <1>1
  <2>. QED  BY <2>1, <2>2, <2>3 DEF Range
<1>. QED  BY <1>1, <1>2, <1>3, <1>4
-----------------------------------------------------------------------------
(* Times and numbers.                                                      *)

\* A positive multiple is no less than what it is a multiple of.
LEMMA AtLeastOnce ==
  ASSUME NEW n \in Nat \ {0}, NEW k \in Int, n * k > 0
  PROVE  n * k >= n
<1>1. k >= 1
  <2>1. k <= 0 => n * k <= 0
    OBVIOUS
  <2>. QED  BY <2>1
<1>. QED  BY <1>1

\* A division has one remainder.
LEMMA OneRemainder ==
  ASSUME NEW n \in Nat \ {0}, NEW k \in Int, NEW r \in 0..n - 1
  PROVE  (n * k + r) % n = r
<1>. DEFINE x == n * k + r
            q == x \div n
            s == x % n
<1>1. x \in Int /\ q \in Int /\ s \in 0..n - 1 /\ x = n * q + s
  OBVIOUS
<1>. HIDE DEF q, s
<1>2. n * (q - k) = r - s
  BY <1>1
<1>3. n * (k - q) = s - r
  BY <1>1
<1>4. ~(r - s > 0)
  BY <1>1, <1>2, AtLeastOnce
<1>5. ~(s - r > 0)
  BY <1>1, <1>3, AtLeastOnce
<1>6. s = r
  BY <1>1, <1>4, <1>5
<1>. QED  BY <1>6 DEF s

\* The constants that measure time.
LEMMA Units ==
  /\ Instant \in Nat \ {0} /\ Interval \in Nat \ {0} /\ Memory \in Nat
  /\ Tolerance \in Nat /\ Tolerance < Instant /\ Instant <= Interval
  /\ Interval % Instant = 0
<1>1. /\ Instant \in Nat \ {0} /\ Tolerance \in 0..Instant - 1
      /\ \E n \in 1..Horizon : Interval = Instant * n
      /\ \E n \in 1..Horizon : Memory = Instant * n
  BY TimesAssumption
<1>2. PICK n \in 1..Horizon : Interval = Instant * n
  BY <1>1
<1>3. PICK m \in 1..Horizon : Memory = Instant * m
  BY <1>1
<1>4. /\ n \in Nat \ {0} /\ m \in Nat \ {0}
  OBVIOUS
<1>5. Interval \in Int /\ Interval > 0
  BY <1>1, <1>2, <1>4
<1>6. Instant <= Interval
  BY <1>1, <1>2, <1>4, <1>5, AtLeastOnce
<1>7. Memory \in Nat
  BY <1>1, <1>3, <1>4
<1>8. Interval % Instant = 0
  <2>1. (Instant * n + 0) % Instant = 0
    BY <1>1, <1>4, OneRemainder
  <2>2. Instant * n + 0 = Interval
    BY <1>1, <1>2, <1>4
  <2>. QED  BY <2>1, <2>2
<1>. QED  BY <1>1, <1>5, <1>6, <1>7, <1>8

\* Different instants are an instant apart.
LEMMA ApartAnInstant ==
  ASSUME NEW a \in Int, NEW b \in Int, a % Instant = 0, b % Instant = 0, a < b
  PROVE  b - a >= Instant
<1>1. Instant \in Nat \ {0}
  BY Units
<1>. DEFINE p == a \div Instant
            q == b \div Instant
<1>2. p \in Int /\ q \in Int /\ a = Instant * p /\ b = Instant * q
  BY <1>1
<1>. HIDE DEF p, q
<1>3. Instant * (q - p) = b - a
  BY <1>1, <1>2
<1>. QED  BY <1>1, <1>2, <1>3, AtLeastOnce

\* A clock is followed by a clock at an instant.
LEMMA NextInstant ==
  ASSUME NEW a \in Int, a % Instant = 0
  PROVE  (a + Interval) % Instant = 0
<1>1. Instant \in Nat \ {0} /\ Interval \in Int /\ Interval % Instant = 0
  BY Units
<1>. DEFINE p == a \div Instant
            q == Interval \div Instant
<1>2. p \in Int /\ q \in Int /\ a = Instant * p /\ Interval = Instant * q
  BY <1>1
<1>. HIDE DEF p, q
<1>3. Instant * (p + q) + 0 = a + Interval
  BY <1>1, <1>2
<1>. QED  BY <1>1, <1>2, <1>3, OneRemainder

\* Late by no more than the tolerance at a clock before d.
LateAt(a, d) == (a - d) % Interval \in 1..Tolerance

\* What is late stays late from clock to clock.
LEMMA StillLate ==
  ASSUME NEW a \in Int, NEW d \in Int
  PROVE  LateAt(a, d + Interval) <=> LateAt(a, d)
<1>1. Interval \in Nat \ {0}
  BY Units
<1>. DEFINE q == (a - d) \div Interval
            r == (a - d) % Interval
<1>2. q \in Int /\ r \in 0..Interval - 1 /\ a - d = Interval * q + r
  BY <1>1
<1>. HIDE DEF q, r
<1>3. a - (d + Interval) = Interval * (q - 1) + r
  BY <1>1, <1>2
<1>4. (a - (d + Interval)) % Interval = r
  BY <1>1, <1>2, <1>3, OneRemainder
<1>. QED  BY <1>4 DEF LateAt, r

\* What comes by the next clock is late there if it misses this one by no more
\* than the tolerance.
LEMMA LateAtTheNext ==
  ASSUME NEW a \in Int, NEW d \in Int, d < a, a <= d + Interval
  PROVE  LateAt(a, d + Interval) <=> a <= d + Tolerance
<1>1. Interval \in Nat \ {0} /\ Tolerance \in Nat /\ Tolerance < Interval
  BY Units
<1>2. CASE a < d + Interval
  <2>1. a - d \in 0..Interval - 1 /\ Interval * 0 + (a - d) = a - d
    BY <1>1, <1>2
  <2>2. (a - d) % Interval = a - d
    BY <1>1, <2>1, OneRemainder
  <2>3. LateAt(a, d) <=> a <= d + Tolerance
    BY <1>1, <2>2 DEF LateAt
  <2>. QED  BY <2>3, StillLate
<1>3. CASE a = d + Interval
  <2>1. (Interval * 0 + 0) % Interval = 0 /\ a - (d + Interval) = Interval * 0 + 0
    BY <1>1, <1>3, OneRemainder
  <2>2. (a - (d + Interval)) % Interval = 0
    BY <2>1
  <2>3. ~LateAt(a, d + Interval)
    BY <1>1, <2>2 DEF LateAt
  <2>4. ~(a <= d + Tolerance)
    BY <1>1, <1>3
  <2>. QED  BY <2>3, <2>4
<1>. QED  BY <1>1, <1>2, <1>3

\* How long a relay may take.
Latencies == {0} \cup UNION {{batch[i].latency : i \in DOMAIN batch} : batch \in Batches}

\* No relay is as quick as a rounding error.
NoRoundedLatency == Latencies \cap (1..Tolerance) = {}

\* No relay is late when it is sent.
LEMMA SentOnTime ==
  ASSUME NEW t \in Int, NEW d \in Int, t % Instant = 0, d % Instant = 0,
         d - Interval <= t, NEW l \in Nat, l \notin 1..Tolerance, t + l <= d
  PROVE  ~LateAt(t + l, d)
<1>1. /\ Interval \in Nat \ {0} /\ Tolerance \in Nat /\ Instant \in Nat \ {0}
      /\ Tolerance < Instant /\ Instant <= Interval
  BY Units
<1>. DEFINE p == d - Interval
<1>2. p \in Int /\ p + Interval = d /\ p % Instant = 0
  <2>1. p \in Int /\ p + Interval = d
    BY <1>1
  <2>2. \E k \in Int : Interval = Instant * k
    <3>1. Interval % Instant = 0
      BY Units
    <3>2. Interval = Instant * (Interval \div Instant) /\ Interval \div Instant \in Int
      BY <1>1, <3>1
    <3>. QED  BY <3>2
  <2>3. PICK k \in Int : Interval = Instant * k
    BY <2>2
  <2>4. \E q \in Int : d = Instant * q
    <3>1. d = Instant * (d \div Instant) /\ d \div Instant \in Int
      BY <1>1
    <3>. QED  BY <3>1
  <2>5. PICK q \in Int : d = Instant * q
    BY <2>4
  <2>6. Instant * (q - k) + 0 = p
    BY <1>1, <2>3, <2>5
  <2>7. (Instant * (q - k) + 0) % Instant = 0
    BY <1>1, <2>3, <2>5, OneRemainder
  <2>. HIDE DEF p
  <2>. QED  BY <2>1, <2>6, <2>7
<1>. HIDE DEF p
<1>3. p <= t
  BY <1>1, <1>2
<1>4. CASE t + l > p
  <2>1. LateAt(t + l, d) <=> t + l <= p + Tolerance
    <3>1. t + l <= p + Interval
      BY <1>2
    <3>. QED  BY <1>2, <1>4, <3>1, LateAtTheNext
  <2>2. ~(t + l <= p + Tolerance)
    <3>1. CASE l = 0
      <4>1. t - p >= Instant
        BY <1>2, <1>4, <3>1, ApartAnInstant
      <4>. QED  BY <1>1, <1>2, <3>1, <4>1
    <3>2. CASE l > Tolerance
      BY <1>1, <1>2, <1>3, <3>2
    <3>. QED  BY <1>1, <3>1, <3>2
  <2>. QED  BY <2>1, <2>2
<1>5. CASE t + l = p
  <2>1. (p - d) = Interval * (-1) + 0
    BY <1>1, <1>2
  <2>2. (p - d) % Interval = 0
    BY <1>1, <2>1, OneRemainder
  <2>. QED  BY <1>1, <1>5, <2>2 DEF LateAt
<1>. QED  BY <1>1, <1>2, <1>3, <1>4, <1>5

Events == Batches \cup {<<>>}

LEMMA EventsTyped ==
  ASSUME NEW batch \in Events
  PROVE  /\ Len(batch) \in Nat /\ DOMAIN batch = 1..Len(batch)
         /\ Len(batch) = 0 <=> batch = <<>>
         /\ \A i \in DOMAIN batch : batch[i].latency \in Nat
<1>1. CASE batch \in Batches
  <2>1. batch \in Seq(Range(batch)) /\ \A i \in DOMAIN batch : batch[i].latency \in Nat
    BY <1>1, BatchesAssumption
  <2>. QED  BY <2>1
<1>2. CASE batch = <<>>
  BY <1>2
<1>. QED  BY <1>1, <1>2 DEF Events

\* The objects of an event bear its numbers, are under way and name their report.
LEMMA NewObjects ==
  ASSUME NEW batch \in Events, NEW t \in Int, next \in Int
  PROVE  /\ DOMAIN NewObservations(batch, t) = NewNumbers(batch)
         /\ DOMAIN NewRelays(batch, t) = NewNumbers(batch)
         /\ \A n \in NewNumbers(batch) :
              /\ NewRelays(batch, t)[n] \in RelayRecord
              /\ NewRelays(batch, t)[n].report = n
              /\ NewRelays(batch, t)[n].status = "in_transit"
<1>1. /\ Len(batch) \in Nat /\ DOMAIN batch = 1..Len(batch)
      /\ \A i \in DOMAIN batch : batch[i].latency \in Nat
  BY EventsTyped
<1>2. /\ DOMAIN NewObservations(batch, t) = NewNumbers(batch)
      /\ DOMAIN NewRelays(batch, t) = NewNumbers(batch)
  BY DEF NewObservations, NewRelays
<1>3. ASSUME NEW n \in NewNumbers(batch)
      PROVE  /\ NewRelays(batch, t)[n] \in RelayRecord
             /\ NewRelays(batch, t)[n].report = n
             /\ NewRelays(batch, t)[n].status = "in_transit"
  <2>1. n \in Int /\ Of(batch, n) \in DOMAIN batch
    BY <1>1 DEF NewNumbers, Of
  <2>2. t + batch[Of(batch, n)].latency \in Int
    BY <1>1, <2>1
  <2>3. NewRelays(batch, t)[n] =
          [report |-> n, arrives_at |-> t + batch[Of(batch, n)].latency, sent_at |-> t,
           status |-> "in_transit"]
    BY DEF NewRelays
  <2>. QED  BY <2>1, <2>2, <2>3 DEF RelayRecord
<1>. QED  BY <1>2, <1>3

\* The rows of an event bear its numbers, each once.
LEMMA NewRowsTyped ==
  ASSUME NEW batch \in Events, NEW t \in Int, next \in Int
  PROVE  /\ NewRows(batch, t) \in Seq(Row)
         /\ \A r, s \in Range(NewRows(batch, t)) : r.report = s.report => r = s
         /\ Carried(NewRows(batch, t)) = NewNumbers(batch)
<1>. DEFINE rows == NewRows(batch, t)
            row(i) == [relay |-> next + i - 1, report |-> next + i - 1,
                       arrives_at |-> t + batch[i].latency]
<1>1. /\ Len(batch) \in Nat /\ DOMAIN batch = 1..Len(batch)
      /\ \A i \in DOMAIN batch : batch[i].latency \in Nat
  BY EventsTyped
<1>2. rows = [i \in 1..Len(batch) |-> row(i)]
  BY <1>1 DEF NewRows
<1>3. \A i \in 1..Len(batch) : row(i) \in Row /\ row(i).report = next + i - 1
  <2>. TAKE i \in 1..Len(batch)
  <2>1. t + batch[i].latency \in Int /\ next + i - 1 \in Int
    BY <1>1
  <2>. QED  BY <2>1 DEF Row
<1>. HIDE DEF row
<1>4. rows \in Seq(Row)
  BY <1>1, <1>2, <1>3
<1>5. \A r \in Range(rows) : \E i \in 1..Len(batch) : r = row(i)
  BY <1>2 DEF Range
<1>6. \A i \in 1..Len(batch) : row(i) \in Range(rows)
  BY <1>2 DEF Range
<1>7. \A r, s \in Range(rows) : r.report = s.report => r = s
  <2>. SUFFICES ASSUME NEW r \in Range(rows), NEW s \in Range(rows), r.report = s.report
                PROVE  r = s
    OBVIOUS
  <2>1. PICK i \in 1..Len(batch) : r = row(i)
    BY <1>5
  <2>2. PICK j \in 1..Len(batch) : s = row(j)
    BY <1>5
  <2>3. i = j
    BY <1>3, <2>1, <2>2
  <2>. QED  BY <2>1, <2>2, <2>3
<1>8. \A n \in Carried(rows) : n \in NewNumbers(batch)
  BY <1>1, <1>3, <1>5 DEF Carried, NewNumbers
<1>9. \A n \in NewNumbers(batch) : n \in Carried(rows)
  <2>. TAKE n \in NewNumbers(batch)
  <2>1. n \in Int /\ n - next + 1 \in 1..Len(batch)
    BY <1>1 DEF NewNumbers
  <2>2. row(n - next + 1).report = n
    BY <1>3, <2>1
  <2>. QED  BY <1>6, <2>1, <2>2 DEF Carried
<1>. QED  BY <1>4, <1>7, <1>8, <1>9

\* An event hands out what was not handed out.
LEMMA Handed ==
  ASSUME NEW batch \in Events, next \in Int
  PROVE  /\ next + Len(batch) \in Int /\ next <= next + Len(batch)
         /\ \A n \in NewNumbers(batch) : n \in Int /\ next <= n /\ n < next + Len(batch)
BY EventsTyped DEF NewNumbers

-----------------------------------------------------------------------------
(* Reports, histories and beliefs.                                         *)

Sources == UNION {{batch[i].source : i \in DOMAIN batch} : batch \in Batches}
ReportRecord == [source : Sources, at : Int]
Belief == [where : {"field", "headquarters"}, report : ReportRecord, with : SUBSET Sources]

LEMMA SeenTyped ==
  ASSUME NEW batch \in Events, NEW t \in Int, NEW i \in DOMAIN batch
  PROVE  Seen(batch, i, t) \in ReportRecord /\ Seen(batch, i, t).at = t
<1>1. batch \in Batches
  BY DEF Events
<1>2. batch[i].source \in Sources
  BY <1>1 DEF Sources
<1>. QED  BY <1>2 DEF Seen, ReportRecord

\* What is kept of a history is what is recent.
LEMMA SinceFacts ==
  ASSUME NEW history \in Seq(ReportRecord), NEW t \in Int
  PROVE  /\ Since(history, t) \in Seq(ReportRecord)
         /\ Range(Since(history, t)) = {r \in Range(history) : r.at >= t}
<1>. DEFINE keep == {i \in DOMAIN history : history[i].at >= t}
<1>1. /\ Compacted(history, keep) \in Seq(ReportRecord)
      /\ Range(Compacted(history, keep)) = {history[i] : i \in keep}
  BY CompactedRows
<1>2. {history[i] : i \in keep} = {r \in Range(history) : r.at >= t}
  BY DEF Range
<1>. QED  BY <1>1, <1>2 DEF Since

\* The reports of an event seen at t, the first n of them.
FirstSeen(batch, n, t) == {Seen(batch, i, t) : i \in 1..n}

\* The history after the first n reports of an event is what is recent of both.
LEMMA HistoryFacts ==
  ASSUME NEW batch \in Events, NEW t \in Int, NEW n \in 0..Len(batch),
         observation_source_index \in Seq(ReportRecord)
  PROVE  /\ History(batch, n, t) \in Seq(ReportRecord)
         /\ n = 0 => History(batch, n, t) = observation_source_index
         /\ n # 0 => Range(History(batch, n, t)) =
                       {r \in Range(observation_source_index) \cup FirstSeen(batch, n, t) :
                          r.at >= t - Memory}
<1>1. Len(batch) \in Nat /\ DOMAIN batch = 1..Len(batch) /\ Memory \in Nat
  BY EventsTyped, Units
<1>. DEFINE new == [i \in 1..n |-> Seen(batch, i, t)]
<1>2. \A i \in 1..n : i \in DOMAIN batch /\ Seen(batch, i, t) \in ReportRecord
  BY <1>1, SeenTyped
<1>3. new \in Seq(ReportRecord)
  BY <1>1, <1>2
<1>4. Range(new) = FirstSeen(batch, n, t)
  BY DEF Range, FirstSeen
<1>. HIDE DEF new
<1>5. /\ WithNew(batch, n, t) \in Seq(ReportRecord)
      /\ Range(WithNew(batch, n, t)) = Range(observation_source_index) \cup Range(new)
  BY <1>3, AppendedRows DEF WithNew, new
<1>6. CASE n = 0
  BY <1>6 DEF History
<1>7. CASE n # 0
  <2>1. t - Memory \in Int
    BY <1>1
  <2>2. History(batch, n, t) = Since(WithNew(batch, n, t), t - Memory)
    BY <1>7 DEF History
  <2>. QED  BY <1>4, <1>5, <1>7, <2>1, <2>2, SinceFacts
<1>. QED  BY <1>6, <1>7

\* The weight of a report depends on the reports in the history only.
LEMMA SameWeight ==
  ASSUME NEW known, NEW history, Range(history) = known, NEW report
  PROVE  Corroboration(history, report) = Network!Support(known, report)
BY DEF Corroboration, Network!Support, Network!Near

\* What an event makes the field believe is what the network promises, whichever
\* report is remembered before it is fused.
LEMMA BelievedInField ==
  ASSUME NEW batch \in Events, NEW t \in Int, observation_source_index \in Seq(ReportRecord)
  PROVE  /\ FieldFusions(batch, t) = Network!BelievedAtOnce(batch, t)
         /\ FieldFusions(batch, t) \in Seq(Belief)
<1>1. Len(batch) \in Nat /\ DOMAIN batch = 1..Len(batch) /\ Memory \in Nat
  BY EventsTyped, Units
<1>. DEFINE reports == Range(observation_source_index)
<1>2. \A r \in reports : r \in ReportRecord /\ r.at \in Int
  <2>1. \A i \in DOMAIN observation_source_index : observation_source_index[i] \in ReportRecord
    OBVIOUS
  <2>2. \A r \in reports : r \in ReportRecord
    BY <2>1 DEF Range
  <2>. QED  BY <2>2 DEF ReportRecord
<1>3. \A i \in DOMAIN batch : Network!Made(batch, t)[i] = Seen(batch, i, t)
  BY DEF Network!Made, Seen
<1>4. ASSUME NEW i \in DOMAIN batch,
             NEW n \in {i - 1, i}
      PROVE  Corroboration(History(batch, n, t), Seen(batch, i, t))
               = Network!Support(reports \cup {Network!Made(batch, t)[j] : j \in 1..i},
                                 Seen(batch, i, t))
  <2>. DEFINE s == Seen(batch, i, t)
              all == reports \cup {Network!Made(batch, t)[j] : j \in 1..i}
              past == Range(History(batch, n, t))
              Weighs(r) == r.source # s.source /\ r.at - s.at \in -Memory..Memory
  <2>1. n \in 0..Len(batch) /\ i \in Int
    BY <1>1
  <2>2. s \in ReportRecord /\ s.at = t
    BY SeenTyped
  <2>3. all = reports \cup FirstSeen(batch, i, t)
    <3>1. \A j \in 1..i : Network!Made(batch, t)[j] = Seen(batch, j, t)
      BY <1>1, <1>3
    <3>. QED  BY <3>1 DEF FirstSeen
  <2>4. FirstSeen(batch, i, t) = FirstSeen(batch, i - 1, t) \cup {s}
    <3>1. 1..i = 1..(i - 1) \cup {i}
      BY <1>1
    <3>. QED  BY <3>1 DEF FirstSeen
  <2>5. \A r \in all : r.at \in Int
    <3>1. \A j \in 1..i : Seen(batch, j, t).at = t
      BY <1>1, SeenTyped
    <3>. QED  BY <1>2, <2>3, <3>1 DEF FirstSeen
  <2>6. \A r \in all : Weighs(r) => r.at >= t - Memory
    BY <1>1, <2>2, <2>5
  <2>7. FirstSeen(batch, n, t) \cup {s} = FirstSeen(batch, i, t)
    BY <2>4
  <2>8. \A r \in past : r \in all
    <3>1. CASE n = 0
      BY <2>1, <2>3, <3>1, HistoryFacts
    <3>2. CASE n # 0
      BY <2>1, <2>3, <2>7, <3>2, HistoryFacts
    <3>. QED  BY <3>1, <3>2
  <2>9. \A r \in all : Weighs(r) => r \in past
    <3>1. CASE n = 0
      <4>1. FirstSeen(batch, n, t) = {}
        BY <3>1 DEF FirstSeen
      <4>2. all = reports \cup {s}
        BY <2>3, <2>7, <4>1
      <4>. QED  BY <2>1, <3>1, <4>2, HistoryFacts
    <3>2. CASE n # 0
      <4>1. past = {r \in reports \cup FirstSeen(batch, n, t) : r.at >= t - Memory}
        BY <2>1, <3>2, HistoryFacts
      <4>2. \A r \in all : Weighs(r) => r \in reports \cup FirstSeen(batch, n, t)
        BY <2>3, <2>7
      <4>. QED  BY <2>6, <4>1, <4>2
    <3>. QED  BY <3>1, <3>2
  <2>. HIDE DEF past, all
  <2>10. Corroboration(History(batch, n, t), s) = {r.source : r \in {x \in past : Weighs(x)}}
    BY DEF Corroboration, past
  <2>11. Network!Support(all, s) = {r.source : r \in {x \in all : Weighs(x)}}
    BY DEF Network!Support, Network!Near
  <2>12. {x \in past : Weighs(x)} = {x \in all : Weighs(x)}
    BY <2>8, <2>9
  <2>. QED  BY <2>10, <2>11, <2>12 DEF all
<1>5. \A i \in DOMAIN batch :
        FieldFusions(batch, t)[i] =
          [where |-> "field", report |-> Seen(batch, i, t),
           with |-> Network!Support(reports \cup {Network!Made(batch, t)[j] : j \in 1..i},
                                    Seen(batch, i, t))]
  <2>. TAKE i \in DOMAIN batch
  <2>. DEFINE n == IF backend = "ensemble" THEN i - 1 ELSE i
  <2>1. n \in {i - 1, i}
    OBVIOUS
  <2>2. FieldFusions(batch, t)[i] =
          [where |-> "field", report |-> Seen(batch, i, t),
           with |-> Corroboration(History(batch, n, t), Seen(batch, i, t))]
    BY DEF FieldFusions, Fused
  <2>. HIDE DEF n
  <2>. QED  BY <1>4, <2>1, <2>2
<1>6. \A i \in DOMAIN batch :
        Network!BelievedAtOnce(batch, t)[i] =
          [where |-> "field", report |-> Seen(batch, i, t),
           with |-> Network!Support(reports \cup {Network!Made(batch, t)[j] : j \in 1..i},
                                    Seen(batch, i, t))]
  BY <1>3 DEF Network!BelievedAtOnce
<1>7. FieldFusions(batch, t) = Network!BelievedAtOnce(batch, t)
  <2>1. FieldFusions(batch, t) = [i \in DOMAIN batch |-> FieldFusions(batch, t)[i]]
    BY DEF FieldFusions
  <2>2. Network!BelievedAtOnce(batch, t)
          = [i \in DOMAIN batch |-> Network!BelievedAtOnce(batch, t)[i]]
    BY DEF Network!BelievedAtOnce
  <2>. QED  BY <1>5, <1>6, <2>1, <2>2
<1>8. \A i \in DOMAIN batch : FieldFusions(batch, t)[i] \in Belief
  <2>. TAKE i \in DOMAIN batch
  <2>1. \A r \in reports \cup {Network!Made(batch, t)[j] : j \in 1..i} : r.source \in Sources
    <3>1. \A j \in 1..i : Seen(batch, j, t) \in ReportRecord /\ j \in DOMAIN batch
      BY <1>1, SeenTyped
    <3>. QED  BY <1>2, <1>3, <3>1 DEF ReportRecord
  <2>. DEFINE all == reports \cup {Network!Made(batch, t)[j] : j \in 1..i}
  <2>. HIDE DEF all
  <2>2. Network!Support(all, Seen(batch, i, t)) \subseteq Sources
    BY <2>1 DEF Network!Support, all
  <2>3. FieldFusions(batch, t)[i] =
          [where |-> "field", report |-> Seen(batch, i, t),
           with |-> Network!Support(all, Seen(batch, i, t))]
    BY <1>5 DEF all
  <2>4. Seen(batch, i, t) \in ReportRecord
    BY SeenTyped
  <2>. QED  BY <2>2, <2>3, <2>4 DEF Belief
<1>9. FieldFusions(batch, t) \in Seq(Belief)
  <2>1. DOMAIN FieldFusions(batch, t) = 1..Len(batch)
        /\ FieldFusions(batch, t) = [i \in 1..Len(batch) |-> FieldFusions(batch, t)[i]]
    BY <1>1 DEF FieldFusions
  <2>. QED  BY <1>1, <1>8, <2>1
<1>. QED  BY <1>7, <1>9

\* The network counts as its members do.
LEMMA NetworkCounts == \A S : Network!Cardinality(S) = Cardinality(S)
BY DEF Network!Cardinality, Cardinality, Network!IsFiniteSet, IsFiniteSet

\* Relays whose numbers ascend with their index are heard in the order of the indices.
LEMMA NthOf ==
  ASSUME NEW K \in SUBSET Int, IsFiniteSet(K), NEW f, DOMAIN f = K,
         \A k \in K : f[k].number \in Int,
         \A j, k \in K : j < k => f[j].number < f[k].number
  PROVE  LET heard == {f[k] : k \in K} IN
         /\ Cardinality(heard) = Cardinality(K)
         /\ \A n \in 1..Cardinality(K) : Network!Nth(heard, n) = f[Ordered(K)[n]]
<1>. DEFINE heard == {f[k] : k \in K}
<1>1. \A j, k \in K : f[j].number <= f[k].number <=> j <= k
  <2>. SUFFICES ASSUME NEW j \in K, NEW k \in K PROVE f[j].number <= f[k].number <=> j <= k
    OBVIOUS
  <2>1. j \in Int /\ k \in Int /\ f[j].number \in Int /\ f[k].number \in Int
    OBVIOUS
  <2>2. j < k => f[j].number < f[k].number
    OBVIOUS
  <2>3. k < j => f[k].number < f[j].number
    OBVIOUS
  <2>. QED  BY <2>1, <2>2, <2>3
<1>2. \A j, k \in K : f[j] = f[k] => j = k
  <2>. SUFFICES ASSUME NEW j \in K, NEW k \in K, f[j] = f[k] PROVE j = k
    OBVIOUS
  <2>1. j \in Int /\ k \in Int /\ f[j].number = f[k].number /\ f[j].number \in Int
    OBVIOUS
  <2>2. j <= k /\ k <= j
    BY <1>1, <2>1
  <2>. QED  BY <2>1, <2>2
<1>3. ASSUME NEW L \in SUBSET K
      PROVE  Cardinality({f[k] : k \in L}) = Cardinality(L)
  <2>. DEFINE T == {f[k] : k \in L}
              g == [k \in L |-> f[k]]
  <2>1. IsFiniteSet(L)
    BY FS_Subset
  <2>2. g \in Bijection(L, T)
    BY <1>2 DEF Bijection, Injection, IsInjective, Surjection
  <2>3. ExistsBijection(L, T)
    BY <2>2 DEF ExistsBijection
  <2>. HIDE DEF T
  <2>4. Cardinality(T) = Cardinality(L)
    BY <2>1, <2>3, FS_Bijection
  <2>. QED  BY <2>4 DEF T
<1>4. Cardinality(heard) = Cardinality(K)
  BY <1>3
<1>5. \A k \in K : {s \in heard : s.number <= f[k].number} = {f[j] : j \in {i \in K : i <= k}}
  BY <1>1
<1>6. \A k \in K : Cardinality({s \in heard : s.number <= f[k].number})
                     = Cardinality({i \in K : i <= k})
  <2>. TAKE k \in K
  <2>. DEFINE L == {i \in K : i <= k}
  <2>1. L \in SUBSET K
    OBVIOUS
  <2>2. {s \in heard : s.number <= f[k].number} = {f[j] : j \in L}
    BY <1>5
  <2>. HIDE DEF L
  <2>3. Cardinality({f[j] : j \in L}) = Cardinality(L)
    BY <1>3, <2>1
  <2>. QED  BY <2>2, <2>3 DEF L
<1>7. ASSUME NEW n \in 1..Cardinality(K)
      PROVE  Network!Nth(heard, n) = f[Ordered(K)[n]]
  <2>. DEFINE k == Ordered(K)[n]
              Places(r) == Cardinality({s \in heard : s.number <= r.number}) = n
  <2>1. k \in K /\ Cardinality({i \in K : i <= k}) = n
    BY OrderedFacts
  <2>. HIDE DEF k
  <2>2. f[k] \in heard /\ Places(f[k])
    BY <1>6, <2>1
  <2>3. ASSUME NEW r \in heard, Places(r) PROVE r = f[k]
    <3>1. PICK j \in K : r = f[j]
      OBVIOUS
    <3>2. Cardinality({i \in K : i <= j}) = n
      BY <1>6, <2>3, <3>1
    <3>3. j \in Int /\ k \in Int
      BY <2>1
    <3>4. ~(j < k) /\ ~(k < j)
      BY <2>1, <3>2, PlaceDistinct
    <3>5. j = k
      BY <3>3, <3>4
    <3>. QED  BY <3>1, <3>5
  <2>4. Network!Nth(heard, n) = CHOOSE r \in heard : Places(r)
    BY NetworkCounts DEF Network!Nth
  <2>. HIDE DEF heard, Places
  <2>5. (CHOOSE r \in heard : Places(r)) = f[k]
    BY <2>2, <2>3
  <2>. QED  BY <2>4, <2>5 DEF k
<1>. QED  BY <1>4, <1>7

\* Relays by index: as a set, and their reports in the order of the indices.
Together(f) == {f[k] : k \in DOMAIN f}
InTurn(f) == [n \in 1..Cardinality(DOMAIN f) |-> f[Ordered(DOMAIN f)[n]].report]

\* What headquarters believe of the relays they hear is what the network promises.
LEMMA BelievedAtHeadquarters ==
  ASSUME NEW f, DOMAIN f \in SUBSET Int, IsFiniteSet(DOMAIN f),
         \A k \in DOMAIN f : f[k].number \in Int /\ f[k].report \in ReportRecord,
         \A j, k \in DOMAIN f : j < k => f[j].number < f[k].number,
         NEW history \in Seq(ReportRecord)
  PROVE  /\ HeadquartersFusions(InTurn(f), history)
              = Network!BelievedLater(Together(f), Range(history))
         /\ HeadquartersFusions(InTurn(f), history) \in Seq(Belief)
<1>. DEFINE K == DOMAIN f
            heard == Together(f)
            reports == InTurn(f)
            fusions == HeadquartersFusions(reports, history)
            known == Range(history)
<1>0. /\ DOMAIN reports = 1..Cardinality(K)
      /\ \A n \in 1..Cardinality(K) : reports[n] = f[Ordered(K)[n]].report
  BY DEF InTurn
<1>1. /\ Cardinality(heard) = Cardinality(K)
      /\ \A n \in 1..Cardinality(K) : Network!Nth(heard, n) = f[Ordered(K)[n]]
  <2>1. heard = {f[k] : k \in K}
    BY DEF Together
  <2>. QED  BY <2>1, NthOf
<1>2. Cardinality(K) \in Nat /\ \A n \in 1..Cardinality(K) : Ordered(K)[n] \in K
  BY OrderedFacts
<1>3. \A n \in 1..Cardinality(K) : reports[n] \in ReportRecord
  BY <1>0, <1>2
<1>. HIDE DEF heard, reports, K
<1>4. fusions = [n \in 1..Cardinality(K) |->
                   [where |-> "headquarters", report |-> reports[n],
                    with |-> Corroboration(history, reports[n])]]
  BY <1>0 DEF HeadquartersFusions, Fused
<1>5. Network!BelievedLater(heard, known)
        = [n \in 1..Cardinality(K) |->
             [where |-> "headquarters", report |-> Network!Nth(heard, n).report,
              with |-> Network!Support(known, Network!Nth(heard, n).report)]]
  BY <1>1, NetworkCounts DEF Network!BelievedLater
<1>6. \A n \in 1..Cardinality(K) : Network!Nth(heard, n).report = reports[n]
  BY <1>0, <1>1
<1>7. \A n \in 1..Cardinality(K) :
        Corroboration(history, reports[n]) = Network!Support(known, reports[n])
  BY SameWeight
<1>. HIDE DEF fusions, known, heard, reports
<1>8. fusions = Network!BelievedLater(heard, known)
  BY <1>4, <1>5, <1>6, <1>7
<1>9. \A n \in 1..Cardinality(K) : Corroboration(history, reports[n]) \subseteq Sources
  <2>1. \A i \in DOMAIN history : history[i] \in ReportRecord
    OBVIOUS
  <2>2. \A r \in Range(history) : r.source \in Sources
    BY <2>1 DEF Range, ReportRecord
  <2>. QED  BY <2>2 DEF Corroboration
<1>10. \A n \in 1..Cardinality(K) :
        [where |-> "headquarters", report |-> reports[n],
         with |-> Corroboration(history, reports[n])] \in Belief
  BY <1>3, <1>9 DEF Belief
<1>11. fusions \in Seq(Belief)
  BY <1>2, <1>4, <1>10
<1>. QED  BY <1>8, <1>11 DEF fusions, known, heard, reports

-----------------------------------------------------------------------------
(* The objects.                                                            *)

\* Active relays as Objects has them.
UnderWay(relays, active) ==
  /\ \A n \in DOMAIN relays : relays[n] \in RelayRecord
  /\ active \subseteq DOMAIN relays
  /\ \A n \in active : relays[n].report = n /\ relays[n].status = "in_transit"

\* A new event adds objects that are under way.
LEMMA JoinedObjects ==
  ASSUME NEW batch \in Events, NEW t \in Int, next \in Int, Objects
  PROVE  /\ UnderWay(Joined(information_relays, NewRelays(batch, t)),
                     active_information_relays \cup NewNumbers(batch))
         /\ DOMAIN Joined(observations, NewObservations(batch, t))
              = DOMAIN observations \cup NewNumbers(batch)
<1>. DEFINE relays == Joined(information_relays, NewRelays(batch, t))
            active == active_information_relays \cup NewNumbers(batch)
<1>1. /\ DOMAIN NewObservations(batch, t) = NewNumbers(batch)
      /\ DOMAIN NewRelays(batch, t) = NewNumbers(batch)
      /\ \A n \in NewNumbers(batch) :
           /\ NewRelays(batch, t)[n] \in RelayRecord
           /\ NewRelays(batch, t)[n].report = n
           /\ NewRelays(batch, t)[n].status = "in_transit"
  BY NewObjects
<1>2. /\ DOMAIN relays = DOMAIN information_relays \cup NewNumbers(batch)
      /\ \A n \in DOMAIN relays :
           relays[n] = IF n \in NewNumbers(batch) THEN NewRelays(batch, t)[n]
                       ELSE information_relays[n]
  BY <1>1 DEF Joined
<1>. HIDE DEF relays
<1>3. \A n \in DOMAIN relays : relays[n] \in RelayRecord
  BY <1>1, <1>2 DEF Objects
<1>4. active \subseteq DOMAIN relays
  BY <1>2 DEF Objects
<1>5. \A n \in active : relays[n].report = n /\ relays[n].status = "in_transit"
  BY <1>1, <1>2, <1>4 DEF Objects
<1>6. DOMAIN Joined(observations, NewObservations(batch, t))
        = DOMAIN observations \cup NewNumbers(batch)
  BY <1>1 DEF Joined
<1>. QED  BY <1>3, <1>4, <1>5, <1>6 DEF UnderWay, relays

\* Settling a relay does not move its arrival.
LEMMA SettledArrival ==
  ASSUME NEW relays, NEW delivered, NEW dropped, NEW n \in DOMAIN relays,
         relays[n] \in RelayRecord
  PROVE  Settled(relays, delivered, dropped)[n].arrives_at = relays[n].arrives_at
<1>1. Settled(relays, delivered, dropped)[n].arrives_at
        = [relays[n] EXCEPT !.status = CASE n \in delivered -> "delivered"
                                         [] n \in dropped -> "dropped"
                                         [] OTHER -> @].arrives_at
  BY DEF Settled
<1>. QED  BY <1>1 DEF RelayRecord

\* Settling relays leaves the others under way.
LEMMA SettledObjects ==
  ASSUME NEW relays, NEW active, NEW delivered, NEW dropped, NEW remaining,
         UnderWay(relays, active), remaining \subseteq active,
         remaining \cap (delivered \cup dropped) = {}
  PROVE  /\ UnderWay(Settled(relays, delivered, dropped), remaining)
         /\ \A n \in remaining :
              Settled(relays, delivered, dropped)[n].arrives_at = relays[n].arrives_at
<1>. DEFINE settled == Settled(relays, delivered, dropped)
<1>1. /\ DOMAIN settled = DOMAIN relays
      /\ \A n \in DOMAIN relays :
           settled[n] = [relays[n] EXCEPT !.status =
                           CASE n \in delivered -> "delivered"
                             [] n \in dropped -> "dropped"
                             [] OTHER -> @]
  BY DEF Settled
<1>. HIDE DEF settled
<1>2. \A n \in DOMAIN relays :
        /\ settled[n] \in RelayRecord
        /\ settled[n].report = relays[n].report
        /\ settled[n].arrives_at = relays[n].arrives_at
        /\ n \notin delivered \cup dropped => settled[n].status = relays[n].status
  <2>. TAKE n \in DOMAIN relays
  <2>1. relays[n] \in RelayRecord
    BY DEF UnderWay
  <2>2. CASE n \in delivered
    BY <1>1, <2>1, <2>2 DEF RelayRecord
  <2>3. CASE n \notin delivered /\ n \in dropped
    BY <1>1, <2>1, <2>3 DEF RelayRecord
  <2>4. CASE n \notin delivered /\ n \notin dropped
    BY <1>1, <2>1, <2>4 DEF RelayRecord
  <2>. QED  BY <2>2, <2>3, <2>4
<1>. QED  BY <1>1, <1>2 DEF UnderWay, settled

\* Whatever is pruned or compacted, what is under way keeps its relay and its
\* report, and the mode for particles keeps nothing else.
LEMMA ArchiveObjects ==
  ASSUME NEW all, NEW relays, NEW active, NEW history, NEW t,
         UnderWay(relays, active), active \subseteq DOMAIN all,
         Archive(all, relays, active, history, t), backend' = backend
  PROVE  /\ Objects'
         /\ active_information_relays' = active
         /\ \A n \in active : observations'[n] = all[n] /\ information_relays'[n] = relays[n]
<1>. DEFINE kept == IF Prunes(t) THEN KeptRelays(relays, t) ELSE relays
            seen == IF Prunes(t) THEN KeptObservations(all, Pending(relays, active), t)
                    ELSE all
            live == Live(kept, active)
<1>1. UnderWay(kept, active) /\ \A n \in active : kept[n] = relays[n]
  <2>1. CASE ~Prunes(t)
    BY <2>1
  <2>2. CASE Prunes(t)
    <3>1. /\ DOMAIN KeptRelays(relays, t) \subseteq DOMAIN relays
          /\ \A n \in DOMAIN KeptRelays(relays, t) : KeptRelays(relays, t)[n] = relays[n]
          /\ \A n \in DOMAIN relays :
               relays[n].status = "in_transit" => n \in DOMAIN KeptRelays(relays, t)
      BY DEF KeptRelays, RestrictValues, Restrict
    <3>. QED  BY <2>2, <3>1 DEF UnderWay
  <2>. QED  BY <2>1, <2>2
<1>2. active \subseteq DOMAIN seen /\ \A n \in active : seen[n] = all[n]
  <2>1. active \subseteq Pending(relays, active)
    BY DEF Pending, UnderWay
  <2>2. \A n \in Pending(relays, active) :
          n \in DOMAIN all => /\ n \in DOMAIN KeptObservations(all, Pending(relays, active), t)
                               /\ KeptObservations(all, Pending(relays, active), t)[n] = all[n]
    BY DEF KeptObservations, RestrictDomain, Restrict
  <2>. QED  BY <2>1, <2>2
<1>3. /\ DOMAIN live = active
      /\ \A n \in active : live[n] = kept[n]
  BY <1>1 DEF Live, RestrictDomain, Restrict, UnderWay
<1>4. Pending(live, DOMAIN live) = active
  <2>1. \A n \in active : live[n].report = n
    BY <1>1, <1>3 DEF UnderWay
  <2>. QED  BY <1>3, <2>1 DEF Pending
<1>5. /\ information_relays' = IF backend = "particle" THEN live ELSE kept
      /\ active_information_relays' = IF backend = "particle" THEN DOMAIN live ELSE active
      /\ observations' = IF backend = "particle"
                         THEN Restrict(seen, DOMAIN seen \cap Pending(live, DOMAIN live))
                         ELSE seen
  BY DEF Archive
<1>. HIDE DEF kept, seen, live
<1>6. CASE backend = "particle"
  <2>1. /\ information_relays' = live /\ active_information_relays' = active
        /\ observations' = Restrict(seen, DOMAIN seen \cap active)
    BY <1>3, <1>4, <1>5, <1>6
  <2>2. DOMAIN observations' = active /\ \A n \in active : observations'[n] = seen[n]
    BY <1>2, <2>1 DEF Restrict
  <2>. QED  BY <1>1, <1>2, <1>3, <2>1, <2>2 DEF Objects, UnderWay
<1>7. CASE backend # "particle"
  <2>1. /\ information_relays' = kept /\ active_information_relays' = active
        /\ observations' = seen
    BY <1>5, <1>7
  <2>. QED  BY <1>1, <1>2, <1>7, <2>1 DEF Objects, UnderWay
<1>. QED  BY <1>6, <1>7

-----------------------------------------------------------------------------
(* What is in flight.                                                      *)

\* A relay of number n as the network sees it.
Carrying(all, relays, n) ==
  [number |-> n, report |-> all[n], arrives |-> relays[n].arrives_at]

\* Active relays carry a report that is as old as they are, and wait in the heap
\* until they are handed out; one that no longer waits was handed out early by no
\* more than the tolerance, and none that waits was.
InFlight(all, relays, active, heap, d, limit) ==
  /\ \A n \in active :
       /\ n \in Int /\ n < limit
       /\ all[n] \in ReportRecord
       /\ relays[n].arrives_at \in Int
       /\ relays[n].arrives_at - all[n].at \in Latencies
       /\ [at |-> relays[n].arrives_at, relay |-> n] \in heap =>
            (relays[n].arrives_at <= d => ~LateAt(relays[n].arrives_at, d))
       /\ [at |-> relays[n].arrives_at, relay |-> n] \notin heap =>
            LateAt(relays[n].arrives_at, d)
  /\ IsFiniteSet(active)
  /\ heap \subseteq [at : Int, relay : Int]
  /\ \A e \in heap : /\ e.relay < limit
                     /\ e.relay \in active => e.at = relays[e.relay].arrives_at

LEMMA LatenciesTyped == Latencies \subseteq Nat
BY BatchesAssumption DEF Latencies

\* What an event sends is in flight, and is what the network sends.
LEMMA JoinedInFlight ==
  ASSUME NEW batch \in Events, NEW t \in Int, next \in Int, due \in Int, Objects,
         InFlight(observations, information_relays, active_information_relays,
                  information_relay_due_heap, due, next),
         NoRoundedLatency, t % Instant = 0, due % Instant = 0, due - Interval <= t
  PROVE  LET all == Joined(observations, NewObservations(batch, t))
             relays == Joined(information_relays, NewRelays(batch, t))
             active == active_information_relays \cup NewNumbers(batch)
             heap == information_relay_due_heap \cup NewDue(batch, t)
         IN  /\ InFlight(all, relays, active, heap, due, next + Len(batch))
             /\ {Carrying(all, relays, n) : n \in active}
                  = {Carrying(observations, information_relays, n) :
                       n \in active_information_relays} \cup Network!Sent(batch, t)
<1>. DEFINE all == Joined(observations, NewObservations(batch, t))
            relays == Joined(information_relays, NewRelays(batch, t))
            active == active_information_relays \cup NewNumbers(batch)
            heap == information_relay_due_heap \cup NewDue(batch, t)
            limit == next + Len(batch)
            lasts(n) == batch[n - next + 1].latency
<1>1. /\ Len(batch) \in Nat /\ DOMAIN batch = 1..Len(batch)
      /\ \A i \in DOMAIN batch : batch[i].latency \in Nat
  BY EventsTyped
<1>2. /\ limit \in Int /\ next <= limit
      /\ \A n \in NewNumbers(batch) : n \in Int /\ next <= n /\ n < limit
  BY Handed
<1>3. ASSUME NEW n \in NewNumbers(batch)
      PROVE  /\ n - next + 1 \in DOMAIN batch
             /\ lasts(n) \in Nat /\ lasts(n) \in Latencies /\ lasts(n) \notin 1..Tolerance
  <2>1. n - next + 1 \in DOMAIN batch
    BY <1>1 DEF NewNumbers
  <2>2. batch \in Batches
    BY <1>1, <2>1 DEF Events
  <2>3. lasts(n) \in Latencies
    BY <2>1, <2>2 DEF Latencies
  <2>. QED  BY <1>1, <2>1, <2>3 DEF NoRoundedLatency
<1>4. \A n \in NewNumbers(batch) :
        /\ all[n] = Seen(batch, n - next + 1, t)
        /\ relays[n].arrives_at = t + lasts(n)
  BY DEF Joined, NewObservations, NewRelays, Of
<1>5. \A n \in active_information_relays :
        /\ n \in Int /\ n < next /\ n \notin NewNumbers(batch)
        /\ n \in DOMAIN observations /\ n \in DOMAIN information_relays
  <2>1. \A n \in active_information_relays : n \in Int /\ n < next
    BY DEF InFlight
  <2>2. \A n \in active_information_relays : n \notin NewNumbers(batch)
    BY <1>2, <2>1
  <2>. QED  BY <2>1, <2>2 DEF Objects
<1>6. \A n \in active_information_relays :
        all[n] = observations[n] /\ relays[n] = information_relays[n]
  BY <1>5 DEF Joined, NewObservations, NewRelays
<1>7. /\ \A n \in NewNumbers(batch) : [at |-> t + lasts(n), relay |-> n] \in NewDue(batch, t)
      /\ \A e \in NewDue(batch, t) :
           e.relay \in NewNumbers(batch) /\ e = [at |-> t + lasts(e.relay), relay |-> e.relay]
  BY DEF NewDue, Of
<1>. HIDE DEF all, relays, lasts, limit
<1>8. ASSUME NEW n \in NewNumbers(batch)
      PROVE  /\ n \in Int /\ n < limit
             /\ all[n] \in ReportRecord
             /\ relays[n].arrives_at \in Int
             /\ relays[n].arrives_at - all[n].at \in Latencies
             /\ [at |-> relays[n].arrives_at, relay |-> n] \in heap
             /\ relays[n].arrives_at <= due => ~LateAt(relays[n].arrives_at, due)
  <2>1. /\ all[n] \in ReportRecord /\ all[n].at = t
    BY <1>3, <1>4, SeenTyped
  <2>2. relays[n].arrives_at \in Int /\ relays[n].arrives_at - all[n].at = lasts(n)
    BY <1>3, <1>4, <2>1
  <2>3. relays[n].arrives_at <= due => ~LateAt(relays[n].arrives_at, due)
    BY <1>3, <1>4, SentOnTime
  <2>4. [at |-> relays[n].arrives_at, relay |-> n] \in heap
    BY <1>4, <1>7
  <2>. QED  BY <1>2, <1>3, <2>1, <2>2, <2>3, <2>4
<1>9. ASSUME NEW n \in active_information_relays
      PROVE  /\ n \in Int /\ n < limit
             /\ all[n] \in ReportRecord
             /\ relays[n].arrives_at \in Int
             /\ relays[n].arrives_at - all[n].at \in Latencies
             /\ [at |-> relays[n].arrives_at, relay |-> n] \in heap =>
                  (relays[n].arrives_at <= due => ~LateAt(relays[n].arrives_at, due))
             /\ [at |-> relays[n].arrives_at, relay |-> n] \notin heap =>
                  LateAt(relays[n].arrives_at, due)
  <2>1. \A a : [at |-> a, relay |-> n] \in heap
                 => [at |-> a, relay |-> n] \in information_relay_due_heap
    BY <1>5, <1>7
  <2>2. n < limit
    BY <1>2, <1>5
  <2>3. information_relay_due_heap \subseteq heap
    OBVIOUS
  <2>. HIDE DEF heap
  <2>. QED  BY <1>5, <1>6, <2>1, <2>2, <2>3 DEF InFlight
<1>10. heap \subseteq [at : Int, relay : Int]
  <2>1. \A e \in NewDue(batch, t) : e \in [at : Int, relay : Int]
    BY <1>2, <1>3, <1>7
  <2>. QED  BY <2>1 DEF InFlight
<1>11. ASSUME NEW e \in heap
       PROVE  /\ e.relay < limit
              /\ e.relay \in active => e.at = relays[e.relay].arrives_at
  <2>1. CASE e \in NewDue(batch, t)
    BY <1>2, <1>4, <1>7, <2>1
  <2>2. CASE e \in information_relay_due_heap
    <3>1. e.relay \in Int /\ e.relay < next
      BY <2>2 DEF InFlight
    <3>2. e.relay < limit /\ e.relay \notin NewNumbers(batch)
      BY <1>2, <3>1
    <3>3. e.relay \in active_information_relays => e.at = information_relays[e.relay].arrives_at
      BY <2>2 DEF InFlight
    <3>. QED  BY <1>6, <3>2, <3>3
  <2>. QED  BY <2>1, <2>2
<1>12. InFlight(all, relays, active, heap, due, limit)
  <2>. DEFINE Flies(n) ==
         /\ n \in Int /\ n < limit
         /\ all[n] \in ReportRecord
         /\ relays[n].arrives_at \in Int
         /\ relays[n].arrives_at - all[n].at \in Latencies
         /\ [at |-> relays[n].arrives_at, relay |-> n] \in heap =>
              (relays[n].arrives_at <= due => ~LateAt(relays[n].arrives_at, due))
         /\ [at |-> relays[n].arrives_at, relay |-> n] \notin heap =>
              LateAt(relays[n].arrives_at, due)
  <2>1. \A n \in NewNumbers(batch) : Flies(n)
    BY <1>8
  <2>2. \A n \in active_information_relays : Flies(n)
    BY <1>9
  <2>3. \A n \in active : Flies(n)
    BY <2>1, <2>2
  <2>4. IsFiniteSet(active)
    <3>1. IsFiniteSet(NewNumbers(batch))
      BY <1>1, FS_Interval DEF NewNumbers
    <3>2. IsFiniteSet(active_information_relays)
      BY DEF InFlight
    <3>. QED  BY <3>1, <3>2, FS_Union
  <2>. HIDE DEF heap, active
  <2>. QED  BY <1>10, <1>11, <2>3, <2>4 DEF InFlight
<1>13. {Carrying(all, relays, n) : n \in NewNumbers(batch)} = Network!Sent(batch, t)
  <2>. DEFINE relay(i) == [number |-> next - 1 + i, report |-> Network!Made(batch, t)[i],
                           arrives |-> t + batch[i].latency]
  <2>1. Network!Sent(batch, t) = {relay(i) : i \in DOMAIN batch}
    BY DEF Network!Sent
  <2>2. \A i \in DOMAIN batch : Network!Made(batch, t)[i] = Seen(batch, i, t)
    BY DEF Network!Made, Seen
  <2>3. \A n \in NewNumbers(batch) :
          n - next + 1 \in DOMAIN batch /\ Carrying(all, relays, n) = relay(n - next + 1)
    <3>. TAKE n \in NewNumbers(batch)
    <3>1. n - next + 1 \in DOMAIN batch /\ next - 1 + (n - next + 1) = n
      BY <1>2, <1>3
    <3>. QED  BY <1>4, <2>2, <3>1 DEF Carrying, lasts
  <2>4. \A i \in DOMAIN batch : next - 1 + i \in NewNumbers(batch)
                                  /\ relay(i) = Carrying(all, relays, next - 1 + i)
    <3>. TAKE i \in DOMAIN batch
    <3>1. next - 1 + i \in NewNumbers(batch) /\ (next - 1 + i) - next + 1 = i
      BY <1>1 DEF NewNumbers
    <3>. QED  BY <2>3, <3>1
  <2>. HIDE DEF relay
  <2>. QED  BY <2>1, <2>3, <2>4
<1>14. {Carrying(all, relays, n) : n \in active_information_relays}
         = {Carrying(observations, information_relays, n) : n \in active_information_relays}
  BY <1>6 DEF Carrying
<1>. QED  BY <1>12, <1>13, <1>14 DEF all, relays, limit

\* At a clock those relays are ready that have arrived and were not handed out
\* early, and the others stay in flight.
LEMMA ReadyAtClock ==
  ASSUME NEW all, NEW relays, NEW active, NEW heap, NEW limit, due \in Int,
         UnderWay(relays, active), InFlight(all, relays, active, heap, due, limit)
  PROVE  LET ready == Ready(relays, heap, active, due)
         IN  /\ Gone(relays, heap, active, due) = {}
             /\ ready = {n \in active : /\ relays[n].arrives_at <= due
                                        /\ ~LateAt(relays[n].arrives_at, due)}
             /\ InFlight(all, relays, active \ ready, heap \ Popped(heap, due),
                         due + Interval, limit)
<1>. DEFINE ready == Ready(relays, heap, active, due)
            popped == Popped(heap, due)
            left == active \ ready
            a(n) == relays[n].arrives_at
            entry(n) == [at |-> relays[n].arrives_at, relay |-> n]
<1>1. Tolerance \in Nat /\ Interval \in Nat
  BY Units
<1>2. \A n \in active :
        /\ n \in DOMAIN relays /\ relays[n].status = "in_transit"
        /\ n \in Int /\ a(n) \in Int
        /\ entry(n) \in heap => (a(n) <= due => ~LateAt(a(n), due))
        /\ entry(n) \notin heap => LateAt(a(n), due)
  BY DEF InFlight, UnderWay
<1>3. \A e \in heap : /\ e.at \in Int
                      /\ e.relay \in active => e = entry(e.relay)
  <2>. TAKE e \in heap
  <2>1. e \in [at : Int, relay : Int] /\ (e.relay \in active => e.at = a(e.relay))
    BY DEF InFlight
  <2>. QED  BY <2>1
<1>4. popped = {e \in heap : e.at <= due + Tolerance}
  BY DEF Popped
<1>5. \A n \in active : n \in Candidates(heap, active, due) <=> entry(n) \in popped
  <2>. TAKE n \in active
  <2>1. entry(n).relay = n
    OBVIOUS
  <2>2. \A e \in popped : e.relay = n => e = entry(n)
    BY <1>3, <1>4
  <2>. HIDE DEF entry, popped
  <2>. QED  BY <2>1, <2>2 DEF Candidates, popped
<1>6. \A n \in active : entry(n) \in popped <=> entry(n) \in heap /\ a(n) <= due + Tolerance
  BY <1>4
<1>7. Candidates(heap, active, due) \subseteq active
  BY DEF Candidates
<1>. HIDE DEF entry, popped
<1>8. Gone(relays, heap, active, due) = {}
  BY <1>2, <1>7 DEF Gone
<1>9. \A n \in active : n \in ready <=> entry(n) \in popped /\ a(n) <= due
  BY <1>2, <1>5 DEF Ready
<1>10. \A n \in active : n \in ready <=> a(n) <= due /\ ~LateAt(a(n), due)
  <2>. TAKE n \in active
  <2>1. a(n) <= due => a(n) <= due + Tolerance
    BY <1>1, <1>2
  <2>. QED  BY <1>2, <1>6, <1>9, <2>1
<1>11. ready \subseteq active
  BY <1>7 DEF Ready
<1>. HIDE DEF ready
<1>12. ready = {n \in active : a(n) <= due /\ ~LateAt(a(n), due)}
  BY <1>10, <1>11
<1>13. ASSUME NEW n \in left, entry(n) \in heap \ popped
       PROVE  a(n) <= due + Interval => ~LateAt(a(n), due + Interval)
  <2>1. n \in active /\ ~(a(n) <= due + Tolerance) /\ a(n) \in Int
    BY <1>2, <1>6, <1>13
  <2>2. due < a(n)
    BY <1>1, <2>1
  <2>. QED  BY <2>1, <2>2, LateAtTheNext
<1>14. ASSUME NEW n \in left, entry(n) \notin heap \ popped
       PROVE  LateAt(a(n), due + Interval)
  <2>1. n \in active /\ a(n) \in Int /\ ~(a(n) <= due /\ ~LateAt(a(n), due))
    BY <1>2, <1>10
  <2>2. CASE LateAt(a(n), due)
    BY <2>1, <2>2, StillLate
  <2>3. CASE ~LateAt(a(n), due)
    <3>1. entry(n) \in popped /\ ~(a(n) <= due)
      BY <1>2, <1>14, <2>1, <2>3
    <3>2. a(n) <= due + Tolerance /\ due < a(n)
      BY <1>6, <2>1, <3>1
    <3>3. a(n) <= due + Interval
      <4>1. Tolerance < Interval
        BY Units
      <4>. QED  BY <1>1, <2>1, <3>2, <4>1
    <3>. QED  BY <2>1, <3>2, <3>3, LateAtTheNext
  <2>. QED  BY <2>2, <2>3
<1>15. InFlight(all, relays, left, heap \ popped, due + Interval, limit)
  <2>1. \A n \in left :
          /\ n \in Int /\ n < limit /\ all[n] \in ReportRecord
          /\ relays[n].arrives_at \in Int
          /\ relays[n].arrives_at - all[n].at \in Latencies
    BY DEF InFlight
  <2>2. \A n \in left :
          /\ [at |-> relays[n].arrives_at, relay |-> n] \in heap \ popped =>
               (relays[n].arrives_at <= due + Interval
                  => ~LateAt(relays[n].arrives_at, due + Interval))
          /\ [at |-> relays[n].arrives_at, relay |-> n] \notin heap \ popped =>
               LateAt(relays[n].arrives_at, due + Interval)
    BY <1>13, <1>14 DEF entry
  <2>3. /\ heap \ popped \subseteq [at : Int, relay : Int]
        /\ \A e \in heap \ popped :
             e.relay < limit /\ (e.relay \in left => e.at = relays[e.relay].arrives_at)
    BY DEF InFlight
  <2>4. IsFiniteSet(left)
    <3>1. IsFiniteSet(active)
      BY DEF InFlight
    <3>. QED  BY <3>1, FS_Subset
  <2>. HIDE DEF left
  <2>. QED  BY <2>1, <2>2, <2>3, <2>4 DEF InFlight
<1>. QED  BY <1>8, <1>12, <1>15 DEF ready, popped

\* What flies is told by the reports and the arrivals of the active relays.
LEMMA SameFlight ==
  ASSUME NEW all, NEW relays, NEW active, NEW heap, NEW d, NEW limit,
         InFlight(all, relays, active, heap, d, limit), NEW seen, NEW kept,
         \A n \in active : seen[n] = all[n] /\ kept[n].arrives_at = relays[n].arrives_at
  PROVE  /\ InFlight(seen, kept, active, heap, d, limit)
         /\ \A n \in active : Carrying(seen, kept, n) = Carrying(all, relays, n)
<1>1. InFlight(seen, kept, active, heap, d, limit)
  BY DEF InFlight
<1>. QED  BY <1>1 DEF Carrying

-----------------------------------------------------------------------------
(* The rows.                                                               *)

\* The rows of a buffer and of an event, together.
LEMMA BufferedRows ==
  ASSUME NEW batch \in Events, NEW t \in Int, next \in Int, NumericRows
  PROVE  LET buffer == relay_buffer \o NewRows(batch, t)
         IN  /\ buffer \in Seq(Row)
             /\ \A r, s \in Range(buffer) : r.report = s.report => r = s
             /\ \A r \in Range(buffer) : r.report < next + Len(batch)
             /\ DOMAIN Recorded(buffer, batch, t) = Carried(buffer)
<1>. DEFINE rows == NewRows(batch, t)
            buffer == relay_buffer \o rows
<1>1. /\ rows \in Seq(Row)
      /\ \A r, s \in Range(rows) : r.report = s.report => r = s
      /\ Carried(rows) = NewNumbers(batch)
  BY NewRowsTyped
<1>. HIDE DEF rows
<1>2. /\ buffer \in Seq(Row)
      /\ Range(buffer) = Range(relay_buffer) \cup Range(rows)
  BY <1>1, AppendedRows DEF NumericRows
<1>. HIDE DEF buffer
<1>3. /\ next + Len(batch) \in Int /\ next <= next + Len(batch)
      /\ \A n \in NewNumbers(batch) : n \in Int /\ next <= n /\ n < next + Len(batch)
  BY Handed
<1>4. \A r \in Range(rows) : r.report \in NewNumbers(batch)
  BY <1>1 DEF Carried
<1>5. \A r \in Range(relay_buffer) : r \in Row /\ r.report \in Int /\ r.report < next
  <2>1. \A r \in Range(relay_buffer) : r \in Row
    BY DEF NumericRows, Range
  <2>. QED  BY <2>1 DEF NumericRows, Row
<1>6. \A r, s \in Range(buffer) : r.report = s.report => r = s
  <2>. SUFFICES ASSUME NEW r \in Range(buffer), NEW s \in Range(buffer),
                       r.report = s.report
                PROVE  r = s
    OBVIOUS
  <2>1. CASE r \in Range(relay_buffer) /\ s \in Range(relay_buffer)
    BY <2>1 DEF NumericRows
  <2>2. CASE r \in Range(rows) /\ s \in Range(rows)
    BY <1>1, <2>2
  <2>3. CASE r \in Range(relay_buffer) /\ s \in Range(rows)
    BY <1>3, <1>4, <1>5, <2>3
  <2>4. CASE r \in Range(rows) /\ s \in Range(relay_buffer)
    BY <1>3, <1>4, <1>5, <2>4
  <2>. QED  BY <1>2, <2>1, <2>2, <2>3, <2>4
<1>7. \A r \in Range(buffer) : r.report < next + Len(batch)
  <2>. TAKE r \in Range(buffer)
  <2>1. CASE r \in Range(relay_buffer)
    BY <1>3, <1>5, <2>1
  <2>2. CASE r \in Range(rows)
    BY <1>3, <1>4, <2>2
  <2>. QED  BY <1>2, <2>1, <2>2
<1>8. Carried(buffer) = Carried(relay_buffer) \cup NewNumbers(batch)
  BY <1>1, <1>2 DEF Carried
<1>9. DOMAIN Recorded(buffer, batch, t)
        = DOMAIN event_rows \cup (NewNumbers(batch) \cap Carried(buffer))
  BY DEF Recorded, Joined, RestrictDomain, Restrict, NewObservations, Carried
<1>10. DOMAIN Recorded(buffer, batch, t) = Carried(buffer)
  BY <1>8, <1>9 DEF NumericRows
<1>. QED  BY <1>2, <1>6, <1>7, <1>10 DEF buffer, rows

\* What retain_active leaves are the rows that have not arrived.
LEMMA RetainedRows ==
  ASSUME NEW buffer \in Seq(Row), NEW t \in Int
  PROVE  /\ RetainActive(buffer, t) \in Seq(Row)
         /\ Range(RetainActive(buffer, t)) = Range(buffer) \ Arrived(buffer, t)
<1>. DEFINE keep == {i \in DOMAIN buffer : buffer[i].arrives_at > t + Tolerance}
<1>1. /\ Compacted(buffer, keep) \in Seq(Row)
      /\ Range(Compacted(buffer, keep)) = {buffer[i] : i \in keep}
  BY CompactedRows
<1>2. \A i \in DOMAIN buffer : buffer[i] \in Row
  OBVIOUS
<1>3. \A i \in DOMAIN buffer : buffer[i].arrives_at \in Int
  BY <1>2 DEF Row
<1>4. t + Tolerance \in Int
  BY Units
<1>5. \A i \in DOMAIN buffer :
        i \in keep <=> ~(buffer[i].arrives_at <= t + Tolerance)
  BY <1>3, <1>4
<1>6. {buffer[i] : i \in keep} = Range(buffer) \ Arrived(buffer, t)
  BY <1>5 DEF Range, Arrived
<1>. QED  BY <1>1, <1>6 DEF RetainActive

\* A row as the network sees it.
CarryingRow(rows, row) ==
  [number |-> row.relay, report |-> rows[row.report], arrives |-> row.arrives_at]

\* Rows in flight are in the order of their numbers, each with a report that is
\* as old as it is, and none was handed out.
RowsInFlight(rows, buffer, d) ==
  /\ \A i \in DOMAIN buffer :
       /\ buffer[i].relay = buffer[i].report
       /\ rows[buffer[i].report] \in ReportRecord
       /\ buffer[i].arrives_at - rows[buffer[i].report].at \in Latencies
       /\ buffer[i].arrives_at <= d => ~LateAt(buffer[i].arrives_at, d)
  /\ \A i, j \in DOMAIN buffer : i < j => buffer[i].relay < buffer[j].relay

\* What an event sends is in flight, and is what the network sends.
LEMMA BufferedInFlight ==
  ASSUME NEW batch \in Events, NEW t \in Int, next \in Int, due \in Int, NumericRows,
         RowsInFlight(event_rows, relay_buffer, due),
         NoRoundedLatency, t % Instant = 0, due % Instant = 0, due - Interval <= t
  PROVE  LET buffer == relay_buffer \o NewRows(batch, t)
             rows == Recorded(buffer, batch, t)
         IN  /\ RowsInFlight(rows, buffer, due)
             /\ {CarryingRow(rows, row) : row \in Range(buffer)}
                  = {CarryingRow(event_rows, row) : row \in Range(relay_buffer)}
                      \cup Network!Sent(batch, t)
<1>. DEFINE new == NewRows(batch, t)
            buffer == relay_buffer \o new
            rows == Recorded(buffer, batch, t)
            k == Len(relay_buffer)
            row(i) == [relay |-> next + i - 1, report |-> next + i - 1,
                       arrives_at |-> t + batch[i].latency]
<1>1. /\ Len(batch) \in Nat /\ DOMAIN batch = 1..Len(batch)
      /\ \A i \in DOMAIN batch : batch[i].latency \in Nat
  BY EventsTyped
<1>2. /\ relay_buffer \in Seq(Row) /\ new \in Seq(Row) /\ Carried(new) = NewNumbers(batch)
      /\ k \in Nat /\ DOMAIN relay_buffer = 1..k
  BY NewRowsTyped DEF NumericRows
<1>3. new = [i \in 1..Len(batch) |-> row(i)]
  BY <1>1 DEF NewRows
<1>4. Len(new) = Len(batch)
  BY <1>1, <1>3
<1>. HIDE DEF new
<1>5. /\ buffer \in Seq(Row) /\ DOMAIN buffer = 1..k + Len(batch)
      /\ \A i \in 1..k : buffer[i] = relay_buffer[i]
      /\ \A i \in 1..Len(batch) : buffer[k + i] = row(i)
      /\ Range(buffer) = Range(relay_buffer) \cup Range(new)
  <2>1. /\ buffer \in Seq(Row) /\ DOMAIN buffer = 1..k + Len(batch)
        /\ \A i \in 1..k : buffer[i] = relay_buffer[i]
    BY <1>1, <1>2, <1>4
  <2>2. \A i \in 1..Len(batch) : buffer[k + i] = new[i]
    BY <1>1, <1>2, <1>4
  <2>3. \A i \in 1..Len(batch) : new[i] = row(i)
    BY <1>3
  <2>. HIDE DEF buffer, row
  <2>4. \A i \in 1..Len(batch) : buffer[k + i] = row(i)
    BY <2>2, <2>3
  <2>. QED  BY <1>2, <2>1, <2>4, AppendedRows DEF buffer
<1>6. Range(new) = {row(i) : i \in DOMAIN batch}
  BY <1>1, <1>3 DEF Range
<1>. HIDE DEF buffer
<1>7. \A i \in DOMAIN batch : next + i - 1 \in NewNumbers(batch)
  BY <1>1 DEF NewNumbers
<1>8. NewNumbers(batch) \subseteq Carried(buffer)
  BY <1>2, <1>5 DEF Carried
<1>9. DOMAIN rows = Carried(buffer)
  BY BufferedRows DEF buffer, new
<1>10. \A n \in Carried(buffer) :
         rows[n] = IF n \in NewNumbers(batch) THEN Seen(batch, n - next + 1, t)
                   ELSE event_rows[n]
  BY <1>8, <1>9 DEF Recorded, Joined, RestrictDomain, Restrict, NewObservations, Of, Carried
<1>. HIDE DEF rows, row
<1>11. \A i \in 1..k : /\ relay_buffer[i] \in Row /\ relay_buffer[i].report < next
                       /\ relay_buffer[i].report \in Int
                       /\ relay_buffer[i].relay = relay_buffer[i].report
                       /\ relay_buffer[i] \in Range(relay_buffer)
  <2>1. \A i \in 1..k : relay_buffer[i] \in Row /\ relay_buffer[i] \in Range(relay_buffer)
    BY <1>2 DEF Range
  <2>. QED  BY <1>2, <2>1 DEF Row, NumericRows, RowsInFlight
<1>12. \A i \in 1..k : rows[relay_buffer[i].report] = event_rows[relay_buffer[i].report]
  <2>. TAKE i \in 1..k
  <2>1. relay_buffer[i].report \in Carried(buffer)
    BY <1>5, <1>11 DEF Carried
  <2>2. relay_buffer[i].report \notin NewNumbers(batch)
    BY <1>1, <1>11, Handed
  <2>. QED  BY <1>10, <2>1, <2>2
<1>13. \A i \in DOMAIN batch :
         /\ row(i) \in Row /\ row(i).relay = next + i - 1 /\ row(i).report = next + i - 1
         /\ row(i).arrives_at = t + batch[i].latency
         /\ rows[next + i - 1] = Seen(batch, i, t)
  <2>. TAKE i \in DOMAIN batch
  <2>1. /\ row(i).relay = next + i - 1 /\ row(i).report = next + i - 1
        /\ row(i).arrives_at = t + batch[i].latency
        /\ row(i) \in Row
    BY <1>1 DEF row, Row
  <2>2. (next + i - 1) - next + 1 = i
    BY <1>1
  <2>. QED  BY <1>7, <1>8, <1>10, <2>1, <2>2
<1>14. ASSUME NEW i \in DOMAIN batch
       PROVE  /\ rows[row(i).report] \in ReportRecord
              /\ row(i).arrives_at - rows[row(i).report].at \in Latencies
              /\ row(i).arrives_at <= due => ~LateAt(row(i).arrives_at, due)
  <2>1. batch \in Batches
    BY DEF Events
  <2>2. /\ batch[i].latency \in Latencies /\ batch[i].latency \in Nat
        /\ batch[i].latency \notin 1..Tolerance
    BY <1>1, <2>1 DEF Latencies, NoRoundedLatency
  <2>3. Seen(batch, i, t) \in ReportRecord /\ Seen(batch, i, t).at = t
    BY SeenTyped
  <2>4. (t + batch[i].latency) - t = batch[i].latency
    BY <2>2
  <2>. QED  BY <1>13, <2>2, <2>3, <2>4, SentOnTime
<1>15. \A i \in DOMAIN buffer : i \in 1..k \/ \E j \in DOMAIN batch : i = k + j
  <2>. TAKE i \in DOMAIN buffer
  <2>1. i \in 1..k \/ (i - k \in 1..Len(batch) /\ i = k + (i - k))
    BY <1>1, <1>2, <1>5
  <2>. QED  BY <1>1, <2>1
<1>16. ASSUME NEW i \in DOMAIN buffer
       PROVE  /\ buffer[i].relay = buffer[i].report
              /\ rows[buffer[i].report] \in ReportRecord
              /\ buffer[i].arrives_at - rows[buffer[i].report].at \in Latencies
              /\ buffer[i].arrives_at <= due => ~LateAt(buffer[i].arrives_at, due)
  <2>1. CASE i \in 1..k
    BY <1>2, <1>5, <1>12, <2>1 DEF RowsInFlight
  <2>2. CASE \E j \in DOMAIN batch : i = k + j
    BY <1>1, <1>5, <1>13, <1>14, <2>2
  <2>. QED  BY <1>15, <2>1, <2>2
<1>17. ASSUME NEW i \in DOMAIN buffer, NEW j \in DOMAIN buffer, i < j
       PROVE  buffer[i].relay < buffer[j].relay
  <2>1. CASE i \in 1..k /\ j \in 1..k
    BY <1>2, <1>5, <1>17, <2>1 DEF RowsInFlight
  <2>2. CASE i \in 1..k /\ \E m \in DOMAIN batch : j = k + m
    <3>1. PICK m \in DOMAIN batch : j = k + m
      BY <2>2
    <3>2. buffer[i].relay \in Int /\ buffer[i].relay < next
      BY <1>5, <1>11, <2>2
    <3>3. buffer[j].relay = next + m - 1
      BY <1>1, <1>5, <1>13, <3>1
    <3>. QED  BY <1>1, <3>2, <3>3
  <2>3. CASE \E m \in DOMAIN batch : i = k + m
    <3>1. PICK m \in DOMAIN batch : i = k + m
      BY <2>3
    <3>2. j - k \in DOMAIN batch /\ j = k + (j - k) /\ m < j - k
      BY <1>1, <1>2, <1>5, <1>17, <3>1
    <3>3. /\ buffer[i].relay = next + m - 1
          /\ buffer[j].relay = next + (j - k) - 1
      BY <1>1, <1>5, <1>13, <3>1, <3>2
    <3>. QED  BY <1>1, <1>2, <1>5, <3>2, <3>3
  <2>. QED  BY <1>15, <2>1, <2>2, <2>3
<1>18. RowsInFlight(rows, buffer, due)
  BY <1>16, <1>17 DEF RowsInFlight
<1>19. \A r \in Range(relay_buffer) : CarryingRow(rows, r) = CarryingRow(event_rows, r)
  BY <1>2, <1>12 DEF Range, CarryingRow
<1>20. {CarryingRow(rows, r) : r \in Range(new)} = Network!Sent(batch, t)
  <2>1. \A i \in DOMAIN batch :
          CarryingRow(rows, row(i)) =
            [number |-> next - 1 + i, report |-> Network!Made(batch, t)[i],
             arrives |-> t + batch[i].latency]
    <3>. TAKE i \in DOMAIN batch
    <3>1. Network!Made(batch, t)[i] = Seen(batch, i, t)
      BY DEF Network!Made, Seen
    <3>2. next + i - 1 = next - 1 + i
      BY <1>1
    <3>. QED  BY <1>13, <3>1, <3>2 DEF CarryingRow
  <2>2. Network!Sent(batch, t) =
          {[number |-> next - 1 + i, report |-> Network!Made(batch, t)[i],
            arrives |-> t + batch[i].latency] : i \in DOMAIN batch}
    BY DEF Network!Sent
  <2>. QED  BY <1>6, <2>1, <2>2
<1>21. {CarryingRow(rows, r) : r \in Range(buffer)}
         = {CarryingRow(event_rows, r) : r \in Range(relay_buffer)} \cup Network!Sent(batch, t)
  BY <1>5, <1>19, <1>20
<1>. QED  BY <1>18, <1>21 DEF rows, buffer, new

\* Rows that are kept are in the order they were in.
LEMMA OrderedAscends ==
  ASSUME NEW K \in SUBSET Int, IsFiniteSet(K),
         NEW i \in 1..Cardinality(K), NEW j \in 1..Cardinality(K), i < j
  PROVE  Ordered(K)[i] < Ordered(K)[j]
<1>. DEFINE x == Ordered(K)[i]
            y == Ordered(K)[j]
            L == {m \in K : m <= x}
            M == {m \in K : m <= y}
<1>1. x \in K /\ y \in K /\ Cardinality(L) = i /\ Cardinality(M) = j /\ Cardinality(K) \in Nat
  BY OrderedFacts
<1>. HIDE DEF x, y
<1>2. y <= x => M \subseteq L
  <2>. SUFFICES ASSUME y <= x, NEW m \in M PROVE m \in L
    OBVIOUS
  <2>1. m \in Int /\ x \in Int /\ y \in Int /\ m <= y
    BY <1>1
  <2>. QED  BY <2>1
<1>3. M \subseteq L => Cardinality(M) <= Cardinality(L)
  <2>1. IsFiniteSet(L)
    BY FS_Subset
  <2>. QED  BY <2>1, FS_Subset
<1>4. ~(y <= x)
  BY <1>1, <1>2, <1>3
<1>5. x \in Int /\ y \in Int
  BY <1>1
<1>. QED  BY <1>4, <1>5 DEF x, y

\* At a clock the rows that have arrived are heard or dropped, which are those
\* that were not handed out early and those early by no more than the tolerance;
\* the others stay in flight.
LEMMA RetainedInFlight ==
  ASSUME due \in Int, NEW buffer \in Seq(Row), NEW rows, RowsInFlight(rows, buffer, due),
         \A r, s \in Range(buffer) : r.report = s.report => r = s,
         DOMAIN rows = Carried(buffer), NEW left,
         \A n \in DOMAIN rows :
           (\A row \in Arrived(buffer, due) : row.report # n) => left[n] = rows[n]
  PROVE  LET kept == RetainActive(buffer, due)
         IN  /\ RowsInFlight(left, kept, due + Interval)
             /\ \A row \in Range(kept) : CarryingRow(left, row) = CarryingRow(rows, row)
<1>. DEFINE keep == {i \in DOMAIN buffer : buffer[i].arrives_at > due + Tolerance}
            kept == RetainActive(buffer, due)
            pick(n) == Ordered(keep)[n]
<1>1. Tolerance \in Nat /\ Interval \in Nat
  BY Units
<1>2. \A i \in DOMAIN buffer : buffer[i] \in Row /\ buffer[i].arrives_at \in Int
                                 /\ buffer[i] \in Range(buffer)
  <2>1. \A i \in DOMAIN buffer : buffer[i] \in Row
    OBVIOUS
  <2>. QED  BY <2>1 DEF Row, Range
<1>3. /\ keep \in SUBSET Int /\ IsFiniteSet(keep)
      /\ DOMAIN kept = 1..Cardinality(keep)
      /\ \A n \in 1..Cardinality(keep) : kept[n] = buffer[pick(n)]
  BY CompactedRows DEF RetainActive
<1>4. \A n \in 1..Cardinality(keep) : pick(n) \in keep
  BY <1>3, OrderedFacts
<1>5. \A m, n \in 1..Cardinality(keep) : m < n => pick(m) < pick(n)
  BY <1>3, OrderedAscends
<1>. HIDE DEF pick
<1>6. ASSUME NEW i \in keep
      PROVE  left[buffer[i].report] = rows[buffer[i].report]
  <2>1. i \in DOMAIN buffer /\ ~(buffer[i].arrives_at <= due + Tolerance)
    BY <1>1, <1>2
  <2>2. buffer[i] \notin Arrived(buffer, due)
    BY <2>1 DEF Arrived
  <2>3. \A row \in Arrived(buffer, due) : row.report # buffer[i].report
    BY <1>2, <2>1, <2>2 DEF Arrived
  <2>4. buffer[i].report \in DOMAIN rows
    BY <1>2, <2>1 DEF Carried
  <2>. QED  BY <2>3, <2>4
<1>7. ASSUME NEW i \in keep
      PROVE  buffer[i].arrives_at <= due + Interval
               => ~LateAt(buffer[i].arrives_at, due + Interval)
  <2>1. buffer[i].arrives_at \in Int /\ buffer[i].arrives_at > due + Tolerance
    BY <1>2
  <2>2. due < buffer[i].arrives_at /\ ~(buffer[i].arrives_at <= due + Tolerance)
    BY <1>1, <2>1
  <2>. QED  BY <2>1, <2>2, LateAtTheNext
<1>8. ASSUME NEW n \in DOMAIN kept
      PROVE  /\ kept[n].relay = kept[n].report
             /\ left[kept[n].report] = rows[kept[n].report]
             /\ rows[kept[n].report] \in ReportRecord
             /\ kept[n].arrives_at - rows[kept[n].report].at \in Latencies
             /\ kept[n].arrives_at <= due + Interval => ~LateAt(kept[n].arrives_at, due + Interval)
  <2>1. pick(n) \in keep /\ pick(n) \in DOMAIN buffer /\ kept[n] = buffer[pick(n)]
    BY <1>3, <1>4
  <2>. HIDE DEF keep, kept
  <2>. QED  BY <1>6, <1>7, <2>1 DEF RowsInFlight
<1>9. ASSUME NEW m \in DOMAIN kept, NEW n \in DOMAIN kept, m < n
      PROVE  kept[m].relay < kept[n].relay
  <2>1. /\ pick(m) \in DOMAIN buffer /\ kept[m] = buffer[pick(m)]
        /\ pick(n) \in DOMAIN buffer /\ kept[n] = buffer[pick(n)]
        /\ pick(m) < pick(n)
    BY <1>3, <1>4, <1>5, <1>9
  <2>. HIDE DEF keep, kept
  <2>. QED  BY <2>1 DEF RowsInFlight
<1>. HIDE DEF kept
<1>10. RowsInFlight(left, kept, due + Interval)
  BY <1>8, <1>9 DEF RowsInFlight
<1>11. \A row \in Range(kept) : CarryingRow(left, row) = CarryingRow(rows, row)
  BY <1>8 DEF Range, CarryingRow
<1>. QED  BY <1>10, <1>11 DEF kept

-----------------------------------------------------------------------------
(* The steps.                                                              *)

LEMMA RelaysInit == Init => RelaysInv
<1>. SUFFICES ASSUME Init PROVE RelaysInv
  OBVIOUS
<1>1. Times
  <2>1. PICK s \in Scenarios :
          /\ backend = s.backend
          /\ now = s.start /\ due = s.start /\ in_burn_in = (s.start < 0)
    BY DEF Init
  <2>2. s.start \in Int /\ (s.backend = "ensemble" => s.start >= 0)
    BY ScenariosAssumption
  <2>3. in_burn_in \in BOOLEAN
    BY <2>1
  <2>4. backend = "ensemble" => ~in_burn_in
    <3>. SUFFICES ASSUME backend = "ensemble" PROVE ~in_burn_in
      OBVIOUS
    <3>1. s.start >= 0
      BY <2>1, <2>2
    <3>2. ~(s.start < 0)
      BY <2>2, <3>1
    <3>. QED  BY <2>1, <3>2, Zenon
  <2>. QED  BY <2>1, <2>2, <2>3, <2>4 DEF Init, Times
<1>2. Objects
  BY DEF Init, Objects, None
<1>3. NumericRows
  <2>1. relay_buffer = <<>> /\ Range(relay_buffer) = {} /\ relay_buffer \in Seq(Row)
    BY DEF Init, Range
  <2>. QED  BY <2>1 DEF Init, NumericRows, None, Carried
<1>. QED  BY <1>1, <1>2, <1>3 DEF RelaysInv

LEMMA PatrolKeeps ==
  ASSUME RelaysInv, Patrol
  PROVE  RelaysInv'
<1>1. PICK t \in now..due, batch \in Batches :
        /\ now' = t /\ next' = next + Len(batch)
        /\ IF backend = "ensemble"
           THEN /\ relay_buffer' = relay_buffer \o NewRows(batch, t)
                /\ event_rows' = Recorded(relay_buffer', batch, t)
                /\ UNCHANGED rich
           ELSE /\ observations' = Joined(observations, NewObservations(batch, t))
                /\ information_relays' = Joined(information_relays, NewRelays(batch, t))
                /\ active_information_relays' =
                     active_information_relays \cup NewNumbers(batch)
                /\ UNCHANGED numeric
        /\ UNCHANGED <<backend, retention, due, in_burn_in>>
  BY DEF Patrol
<1>2. now \in Int /\ due \in Int /\ next \in Int
  BY DEF RelaysInv, Times
<1>3. t \in Int /\ batch \in Events
  BY <1>2 DEF Events
<1>4. next' \in Int
  BY <1>1, <1>2, <1>3, Handed
<1>5. Times'
  BY <1>1, <1>3, <1>4 DEF RelaysInv, Times
<1>6. CASE backend = "ensemble"
  <2>1. NumericRows
    BY <1>6 DEF RelaysInv
  <2>2. NumericRows'
    BY <1>1, <1>2, <1>3, <1>6, <2>1, BufferedRows DEF NumericRows
  <2>. QED  BY <1>1, <1>5, <1>6, <2>2 DEF RelaysInv
<1>7. CASE backend # "ensemble"
  <2>1. Objects
    BY <1>7 DEF RelaysInv
  <2>2. /\ UnderWay(information_relays', active_information_relays')
        /\ DOMAIN observations' = DOMAIN observations \cup NewNumbers(batch)
    BY <1>1, <1>2, <1>3, <1>7, <2>1, JoinedObjects
  <2>3. Objects'
    BY <1>1, <1>7, <2>1, <2>2 DEF Objects, UnderWay
  <2>. QED  BY <1>1, <1>5, <1>7, <2>3 DEF RelaysInv
<1>. QED  BY <1>6, <1>7

LEMMA ProcessInformationKeeps ==
  ASSUME RelaysInv, ProcessInformation
  PROVE  RelaysInv'
<1>. DEFINE all(batch) == Joined(observations, NewObservations(batch, due))
            relays(batch) == Joined(information_relays, NewRelays(batch, due))
            active(batch) == active_information_relays \cup NewNumbers(batch)
            heap(batch) == information_relay_due_heap \cup NewDue(batch, due)
            ready(batch) == Ready(relays(batch), heap(batch), active(batch), due)
            gone(batch) == Gone(relays(batch), heap(batch), active(batch), due)
<1>1. PICK batch \in Events :
        /\ backend # "ensemble" /\ Clock(batch)
        /\ \E delivered \in SUBSET ready(batch) :
             Archive(all(batch),
                     Settled(relays(batch), delivered, ready(batch) \ delivered),
                     active(batch) \ (ready(batch) \cup gone(batch)),
                     History(batch, Len(batch), due), due)
  BY DEF ProcessInformation, Events
<1>2. PICK delivered \in SUBSET ready(batch) :
        Archive(all(batch),
                Settled(relays(batch), delivered, ready(batch) \ delivered),
                active(batch) \ (ready(batch) \cup gone(batch)),
                History(batch, Len(batch), due), due)
  BY <1>1
<1>3. /\ due \in Int /\ next \in Int /\ Objects
  BY <1>1 DEF RelaysInv, Times
<1>4. /\ UnderWay(relays(batch), active(batch))
      /\ DOMAIN all(batch) = DOMAIN observations \cup NewNumbers(batch)
  BY <1>3, JoinedObjects
<1>. DEFINE left == active(batch) \ (ready(batch) \cup gone(batch))
            settled == Settled(relays(batch), delivered, ready(batch) \ delivered)
<1>5. UnderWay(settled, left)
  <2>1. left \subseteq active(batch)
    OBVIOUS
  <2>2. left \cap (delivered \cup (ready(batch) \ delivered)) = {}
    OBVIOUS
  <2>. HIDE DEF left, ready, active, relays
  <2>. QED  BY <1>4, <2>1, <2>2, SettledObjects
<1>6. left \subseteq DOMAIN all(batch)
  BY <1>3, <1>4 DEF Objects
<1>7. backend' = backend /\ next' = next + Len(batch) /\ now' = due
      /\ due' = due + Interval /\ in_burn_in' = in_burn_in
  BY <1>1 DEF Clock
<1>8. Objects'
  <2>. HIDE DEF left, settled, all
  <2>1. Archive(all(batch), settled, left, History(batch, Len(batch), due), due)
    BY <1>2 DEF left, settled
  <2>. QED  BY <1>5, <1>6, <1>7, <2>1, ArchiveObjects
<1>9. Times'
  <2>1. next' \in Int /\ due' \in Int
    BY <1>3, <1>7, Handed, Units
  <2>. QED  BY <1>3, <1>7, <2>1 DEF RelaysInv, Times
<1>. QED  BY <1>1, <1>7, <1>8, <1>9 DEF RelaysInv

LEMMA ProcessNumericKeeps ==
  ASSUME RelaysInv, ProcessNumeric
  PROVE  RelaysInv'
<1>. DEFINE buffer(batch) == relay_buffer \o NewRows(batch, due)
            rows(batch) == Recorded(buffer(batch), batch, due)
            arrived(batch) == Arrived(buffer(batch), due)
<1>1. PICK batch \in Events :
        /\ backend = "ensemble" /\ Clock(batch)
        /\ relay_buffer' = RetainActive(buffer(batch), due)
        /\ event_rows' = RestrictDomain(rows(batch),
                           LAMBDA n : \A row \in arrived(batch) : row.report # n)
  BY DEF ProcessNumeric, Events
<1>2. /\ due \in Int /\ next \in Int /\ NumericRows
  BY <1>1 DEF RelaysInv, Times
<1>. DEFINE b == buffer(batch)
<1>3. /\ b \in Seq(Row)
      /\ \A r, s \in Range(b) : r.report = s.report => r = s
      /\ \A r \in Range(b) : r.report < next + Len(batch)
      /\ DOMAIN rows(batch) = Carried(b)
  BY <1>2, BufferedRows
<1>. HIDE DEF b
<1>4. /\ relay_buffer' \in Seq(Row)
      /\ Range(relay_buffer') = Range(b) \ Arrived(b, due)
  BY <1>1, <1>2, <1>3, RetainedRows DEF b
<1>5. backend' = backend /\ next' = next + Len(batch) /\ now' = due
      /\ due' = due + Interval /\ in_burn_in' = in_burn_in
  BY <1>1 DEF Clock
<1>6. DOMAIN event_rows' = Carried(relay_buffer')
  <2>1. arrived(batch) = Arrived(b, due)
    BY DEF b
  <2>2. Arrived(b, due) \subseteq Range(b)
    BY DEF Arrived
  <2>3. DOMAIN event_rows' = {n \in Carried(b) : \A row \in Arrived(b, due) : row.report # n}
    <3>1. DOMAIN event_rows' =
            {n \in DOMAIN rows(batch) : \A row \in arrived(batch) : row.report # n}
      BY <1>1 DEF RestrictDomain, Restrict
    <3>. QED  BY <1>3, <2>1, <3>1
  <2>. QED  BY <1>3, <1>4, <2>2, <2>3 DEF Carried
<1>7. NumericRows'
  BY <1>3, <1>4, <1>5, <1>6 DEF NumericRows
<1>8. Times'
  <2>1. next' \in Int /\ due' \in Int
    BY <1>2, <1>5, Handed, Units
  <2>. QED  BY <1>2, <1>5, <2>1 DEF RelaysInv, Times
<1>. QED  BY <1>1, <1>5, <1>7, <1>8 DEF RelaysInv

LEMMA BeginObservedKeeps ==
  ASSUME RelaysInv, BeginObserved
  PROVE  RelaysInv'
<1>1. backend # "ensemble"
  BY DEF RelaysInv, Times, BeginObserved
<1>2. Times'
  <2>1. now' = 0 /\ due' = 0 /\ next' = 1 /\ in_burn_in' = FALSE
    BY DEF BeginObserved
  <2>2. now' \in Int /\ due' \in Int /\ next' \in Int
    BY <2>1
  <2>3. in_burn_in' \in BOOLEAN /\ ~in_burn_in'
    BY <2>1, Zenon
  <2>. QED  BY <2>2, <2>3 DEF Times
<1>3. Objects'
  BY DEF BeginObserved, Objects, None
<1>. QED  BY <1>1, <1>2, <1>3 DEF BeginObserved, RelaysInv

LEMMA RelaysStep == RelaysInv /\ [Next]_vars => RelaysInv'
<1>. SUFFICES ASSUME RelaysInv, [Next]_vars PROVE RelaysInv'
  OBVIOUS
<1>1. CASE Patrol
  BY <1>1, PatrolKeeps
<1>2. CASE ProcessInformation
  BY <1>2, ProcessInformationKeeps
<1>3. CASE ProcessNumeric
  BY <1>3, ProcessNumericKeeps
<1>4. CASE BeginObserved
  BY <1>4, BeginObservedKeeps
<1>5. CASE UNCHANGED vars
  BY <1>5 DEF vars, rich, numeric, RelaysInv, Times, Objects, NumericRows, Carried
<1>. QED  BY <1>1, <1>2, <1>3, <1>4, <1>5 DEF Next

LEMMA RelaysInvGivesWorkingSet == RelaysInv => WorkingSet
<1>. SUFFICES ASSUME RelaysInv PROVE WorkingSet
  OBVIOUS
<1>1. CASE backend = "ensemble"
  BY <1>1 DEF RelaysInv, NumericRows, Carried, WorkingSet
<1>2. CASE backend # "ensemble"
  <2>1. Objects
    BY <1>2 DEF RelaysInv
  <2>2. Pending(information_relays, active_information_relays) = active_information_relays
    BY <2>1 DEF Objects, Pending
  <2>. QED  BY <1>2, <2>1, <2>2 DEF Objects, WorkingSet
<1>. QED  BY <1>1, <1>2

\* Pruning, compaction and numeric retention, whenever they happen, leave each
\* relay under way its report, and leave the modes for particles nothing else.
THEOREM RelaysKeepTheirReports == Spec => []WorkingSet
<1>1. Spec => []RelaysInv
  BY RelaysInit, RelaysStep, PTL DEF Spec
<1>. QED  BY <1>1, RelaysInvGivesWorkingSet, PTL
-----------------------------------------------------------------------------
(* The modes implement the network.                                        *)

\* Whatever is archived for some time is archived for longer than it may take
\* a relay to arrive with a report that it supports.
LongRetention ==
  \A s \in Scenarios : s.retention = 0 \/ \A l \in Latencies : s.retention >= Memory + l

NetworkInv ==
  /\ RelaysInv
  /\ \E s \in Scenarios : retention = s.retention
  /\ now % Instant = 0 /\ due % Instant = 0 /\ now <= due /\ due - Interval <= now
  /\ observation_source_index \in Seq(ReportRecord)
  /\ beliefs \in Seq(Belief)
  /\ backend # "ensemble" =>
       InFlight(observations, information_relays, active_information_relays,
                information_relay_due_heap, due, next)
  /\ backend = "ensemble" => RowsInFlight(event_rows, relay_buffer, due)

\* What is in transit, as objects and as rows.
LEMMA Transit ==
  ASSUME RelaysInv
  PROVE  /\ backend # "ensemble" =>
              InTransit = {Carrying(observations, information_relays, n) :
                             n \in active_information_relays}
         /\ backend = "ensemble" =>
              InTransit = {CarryingRow(event_rows, row) : row \in Range(relay_buffer)}
<1>1. CASE backend # "ensemble"
  <2>1. Objects
    BY <1>1 DEF RelaysInv
  <2>2. /\ DOMAIN Restrict(information_relays, active_information_relays)
             = active_information_relays
        /\ \A n \in active_information_relays :
             /\ Restrict(information_relays, active_information_relays)[n]
                  = information_relays[n]
             /\ information_relays[n].report = n
    BY <2>1 DEF Objects, Restrict
  <2>. QED  BY <1>1, <2>2 DEF InTransit, Stripped, Carrying
<1>2. CASE backend = "ensemble"
  BY <1>2 DEF InTransit, Rows, CarryingRow
<1>. QED  BY <1>1, <1>2

LEMMA TransitNext ==
  ASSUME RelaysInv'
  PROVE  /\ backend' # "ensemble" =>
              InTransit' = {Carrying(observations', information_relays', n) :
                              n \in active_information_relays'}
         /\ backend' = "ensemble" =>
              InTransit' = {CarryingRow(event_rows', row) : row \in Range(relay_buffer')}
<1>1. CASE backend' # "ensemble"
  <2>1. Objects'
    BY <1>1 DEF RelaysInv
  <2>2. /\ DOMAIN Restrict(information_relays', active_information_relays')
             = active_information_relays'
        /\ \A n \in active_information_relays' :
             /\ Restrict(information_relays', active_information_relays')[n]
                  = information_relays'[n]
             /\ information_relays'[n].report = n
    BY <2>1 DEF Objects, Restrict
  <2>. QED  BY <1>1, <2>2 DEF InTransit, Stripped, Carrying
<1>2. CASE backend' = "ensemble"
  BY <1>2 DEF InTransit, Rows, CarryingRow
<1>. QED  BY <1>1, <1>2

\* The history after an event is what the network remembers.
LEMMA HistoryIsRemembered ==
  ASSUME NEW batch \in Events, NEW t \in Int, observation_source_index \in Seq(ReportRecord)
  PROVE  /\ Range(History(batch, Len(batch), t)) = Network!Remembered(batch, t)
         /\ History(batch, Len(batch), t) \in Seq(ReportRecord)
<1>1. /\ Len(batch) \in Nat /\ DOMAIN batch = 1..Len(batch) /\ Memory \in Nat
      /\ Len(batch) = 0 <=> batch = <<>>
  BY EventsTyped, Units
<1>2. Len(batch) \in 0..Len(batch)
  BY <1>1
<1>3. CASE batch = <<>>
  BY <1>1, <1>2, <1>3, HistoryFacts DEF Network!Remembered
<1>4. CASE batch # <<>>
  <2>. DEFINE reports == Range(observation_source_index)
              new == FirstSeen(batch, Len(batch), t)
  <2>1. Range(History(batch, Len(batch), t)) = {r \in reports \cup new : r.at >= t - Memory}
    BY <1>1, <1>2, <1>4, HistoryFacts
  <2>2. \A r \in new : r.at >= t - Memory
    <3>1. \A i \in 1..Len(batch) : Seen(batch, i, t).at = t
      BY <1>1, SeenTyped
    <3>. QED  BY <1>1, <3>1 DEF FirstSeen
  <2>3. Network!Range(Network!Made(batch, t)) = new
    BY <1>1 DEF Network!Range, Network!Made, FirstSeen, Seen
  <2>. HIDE DEF new, reports
  <2>4. Network!Remembered(batch, t) = {r \in reports : r.at >= t - Memory} \cup new
    BY <1>4, <2>3 DEF Network!Remembered, reports
  <2>. QED  BY <1>2, <2>1, <2>2, <2>4, HistoryFacts
<1>. QED  BY <1>3, <1>4

LEMMA ForgetsNothing ==
  ASSUME NEW known, NEW t, Range(observation_source_index') = known
  PROVE  Network!Forget(known, t)
BY DEF Network!Forget

\* Pruning forgets only what can support no report that is still to arrive.
LEMMA ForgetsAtClock ==
  ASSUME LongRetention, NEW batch \in Events, due \in Int,
         \E s \in Scenarios : retention = s.retention,
         NEW history \in Seq(ReportRecord), Prunes(due),
         observation_source_index' = KeptHistory(history, due),
         \A r \in InTransit' : /\ r.report \in ReportRecord /\ r.arrives \in Int
                               /\ r.arrives - r.report.at \in Latencies
                               /\ r.arrives <= due => LateAt(r.arrives, due)
  PROVE  Network!Forget(Range(history), due)
<1>1. /\ retention \in Nat /\ retention > 0
      /\ \A l \in Latencies : retention >= Memory + l
  BY ScenariosAssumption DEF LongRetention, Prunes
<1>2. Memory \in Nat /\ Tolerance \in Nat /\ Latencies \subseteq Nat /\ 0 \in Latencies
  BY Units, LatenciesTyped DEF Latencies
<1>3. Range(observation_source_index') = {r \in Range(history) : r.at >= due - retention}
  <2>1. due - retention \in Int /\ observation_source_index' = Since(history, due - retention)
    BY <1>1 DEF KeptHistory
  <2>. QED  BY <2>1, SinceFacts
<1>4. \A r \in Range(history) : r.at \in Int
  <2>1. \A i \in DOMAIN history : history[i] \in ReportRecord
    OBVIOUS
  <2>. QED  BY <2>1 DEF Range, ReportRecord
<1>5. ASSUME NEW r \in Range(history), r \notin Range(observation_source_index')
      PROVE  /\ r.at < due - Memory
             /\ \A relay \in InTransit' :
                  Network!Near(r, relay.report)
                    => Network!Late(relay) /\ relay.arrives <= due + Tolerance
  <2>1. r.at \in Int /\ r.at < due - retention
    BY <1>1, <1>3, <1>4, <1>5
  <2>2. r.at < due - Memory
    BY <1>1, <1>2, <2>1
  <2>3. ASSUME NEW relay \in InTransit', Network!Near(r, relay.report)
        PROVE  Network!Late(relay) /\ relay.arrives <= due + Tolerance
    <3>. DEFINE s == relay.report.at
                l == relay.arrives - relay.report.at
    <3>1. /\ s \in Int /\ l \in Latencies /\ l \in Nat /\ relay.arrives = s + l
      <4>1. relay.report \in ReportRecord /\ relay.arrives \in Int /\ l \in Latencies
        OBVIOUS
      <4>2. s \in Int
        BY <4>1 DEF ReportRecord
      <4>. QED  BY <1>2, <4>1, <4>2
    <3>2. r.at - s \in -Memory..Memory
      BY <2>3 DEF Network!Near
    <3>3. retention >= Memory + l
      BY <1>1, <3>1
    <3>. HIDE DEF s, l
    <3>4. relay.arrives <= due
      BY <1>1, <1>2, <2>1, <3>1, <3>2, <3>3
    <3>5. LateAt(relay.arrives, due) /\ relay.arrives <= due + Tolerance
      BY <1>2, <3>1, <3>4
    <3>. QED  BY <3>5 DEF Network!Late, LateAt
  <2>. QED  BY <2>2, <2>3
<1>6. Range(observation_source_index') \subseteq Range(history)
  BY <1>3
<1>. QED  BY <1>5, <1>6 DEF Network!Forget

LEMMA InitNetwork ==
  ASSUME Init
  PROVE  NetworkInv /\ Network!NetworkInit
<1>1. RelaysInv
  BY RelaysInit
<1>2. PICK s \in Scenarios :
        /\ backend = s.backend /\ retention = s.retention
        /\ now = s.start /\ due = s.start /\ in_burn_in = (s.start < 0)
  BY DEF Init
<1>3. s.start \in Int /\ s.start % Instant = 0 /\ Interval \in Nat
  BY ScenariosAssumption, Units
<1>4. /\ now = due /\ now % Instant = 0 /\ due % Instant = 0 /\ now <= due
      /\ due - Interval <= now
  BY <1>2, <1>3
<1>5. /\ next = 1 /\ information_relays = <<>> /\ active_information_relays = {}
      /\ information_relay_due_heap = {} /\ observation_source_index = <<>>
      /\ relay_buffer = <<>> /\ beliefs = <<>>
  BY DEF Init, None
<1>6. /\ InFlight(observations, information_relays, active_information_relays,
                  information_relay_due_heap, due, next)
      /\ RowsInFlight(event_rows, relay_buffer, due)
  BY <1>5, FS_EmptySet DEF InFlight, RowsInFlight
<1>7. NetworkInv
  BY <1>1, <1>2, <1>4, <1>5, <1>6 DEF NetworkInv
<1>8. InTransit = {}
  <2>1. Range(relay_buffer) = {}
    BY <1>5 DEF Range
  <2>. QED  BY <1>1, <1>5, <2>1, Transit
<1>9. Range(observation_source_index) = {} /\ next - 1 = 0
  BY <1>5 DEF Range
<1>10. in_burn_in = (now < 0)
  BY <1>2, Zenon
<1>. QED  BY <1>4, <1>5, <1>7, <1>8, <1>9, <1>10 DEF Network!NetworkInit

\* What one event brings to the field, in the order of its reports.
LEMMA AddsToBeliefs ==
  ASSUME NEW batch \in Events, NEW t \in Int, NetworkInv
  PROVE  /\ beliefs \o FieldFusions(batch, t) = beliefs \o Network!BelievedAtOnce(batch, t)
         /\ beliefs \o FieldFusions(batch, t) \in Seq(Belief)
<1>1. /\ FieldFusions(batch, t) = Network!BelievedAtOnce(batch, t)
      /\ FieldFusions(batch, t) \in Seq(Belief)
  BY BelievedInField DEF NetworkInv
<1>. QED  BY <1>1 DEF NetworkInv

LEMMA PatrolNetwork ==
  ASSUME NetworkInv, Patrol, NoRoundedLatency
  PROVE  NetworkInv' /\ Network!Report
<1>1. PICK t \in now..due, batch \in Batches :
        /\ t % Instant = 0
        /\ now' = t /\ next' = next + Len(batch)
        /\ beliefs' = beliefs \o FieldFusions(batch, t)
        /\ observation_source_index' = History(batch, Len(batch), t)
        /\ IF backend = "ensemble"
           THEN /\ relay_buffer' = relay_buffer \o NewRows(batch, t)
                /\ event_rows' = Recorded(relay_buffer', batch, t)
                /\ UNCHANGED rich
           ELSE /\ observations' = Joined(observations, NewObservations(batch, t))
                /\ information_relays' = Joined(information_relays, NewRelays(batch, t))
                /\ active_information_relays' =
                     active_information_relays \cup NewNumbers(batch)
                /\ information_relay_due_heap' = information_relay_due_heap \cup NewDue(batch, t)
                /\ UNCHANGED numeric
        /\ UNCHANGED <<backend, retention, due, in_burn_in>>
  BY DEF Patrol
<1>2. /\ now \in Int /\ due \in Int /\ next \in Int /\ Interval \in Nat
      /\ due % Instant = 0 /\ now <= due /\ due - Interval <= now
  BY Units DEF NetworkInv, RelaysInv, Times
<1>3. t \in Int /\ batch \in Events /\ Len(batch) \in Nat
  BY <1>2, EventsTyped DEF Events
<1>4. now' % Instant = 0 /\ due' % Instant = 0 /\ now' <= due' /\ due' - Interval <= now'
      /\ due - Interval <= t
  BY <1>1, <1>2, <1>3
<1>5. RelaysInv'
  BY PatrolKeeps DEF NetworkInv
<1>6. /\ Range(observation_source_index') = Network!Remembered(batch, t)
      /\ observation_source_index' \in Seq(ReportRecord)
  BY <1>1, <1>3, HistoryIsRemembered DEF NetworkInv
<1>7. /\ beliefs' = beliefs \o Network!BelievedAtOnce(batch, t)
      /\ beliefs' \in Seq(Belief)
  BY <1>1, <1>3, AddsToBeliefs
<1>8. /\ InTransit' = InTransit \cup Network!Sent(batch, t)
      /\ backend' # "ensemble" =>
           InFlight(observations', information_relays', active_information_relays',
                    information_relay_due_heap', due', next')
      /\ backend' = "ensemble" => RowsInFlight(event_rows', relay_buffer', due')
  <2>1. CASE backend = "ensemble"
    <3>1. NumericRows /\ RowsInFlight(event_rows, relay_buffer, due)
      BY <2>1 DEF NetworkInv, RelaysInv
    <3>2. /\ RowsInFlight(event_rows', relay_buffer', due)
          /\ {CarryingRow(event_rows', row) : row \in Range(relay_buffer')}
               = {CarryingRow(event_rows, row) : row \in Range(relay_buffer)}
                   \cup Network!Sent(batch, t)
      BY <1>1, <1>2, <1>3, <1>4, <2>1, <3>1, BufferedInFlight
    <3>3. InTransit = {CarryingRow(event_rows, row) : row \in Range(relay_buffer)}
      BY <2>1, Transit DEF NetworkInv
    <3>4. InTransit' = {CarryingRow(event_rows', row) : row \in Range(relay_buffer')}
      BY <1>1, <1>5, <2>1, TransitNext
    <3>. QED  BY <1>1, <2>1, <3>2, <3>3, <3>4
  <2>2. CASE backend # "ensemble"
    <3>1. /\ Objects
          /\ InFlight(observations, information_relays, active_information_relays,
                      information_relay_due_heap, due, next)
      BY <2>2 DEF NetworkInv, RelaysInv
    <3>2. /\ InFlight(observations', information_relays', active_information_relays',
                      information_relay_due_heap', due, next')
          /\ {Carrying(observations', information_relays', n) :
                n \in active_information_relays'}
               = {Carrying(observations, information_relays, n) :
                    n \in active_information_relays} \cup Network!Sent(batch, t)
      <4>. DEFINE all == Joined(observations, NewObservations(batch, t))
                  relays == Joined(information_relays, NewRelays(batch, t))
                  active == active_information_relays \cup NewNumbers(batch)
                  heap == information_relay_due_heap \cup NewDue(batch, t)
      <4>1. /\ InFlight(all, relays, active, heap, due, next + Len(batch))
            /\ {Carrying(all, relays, n) : n \in active}
                 = {Carrying(observations, information_relays, n) :
                      n \in active_information_relays} \cup Network!Sent(batch, t)
        BY <1>1, <1>2, <1>3, <1>4, <3>1, JoinedInFlight
      <4>2. /\ observations' = all /\ information_relays' = relays
            /\ active_information_relays' = active /\ information_relay_due_heap' = heap
            /\ due' = due /\ next' = next + Len(batch)
        BY <1>1, <2>2
      <4>. HIDE DEF all, relays, active, heap
      <4>. QED  BY <4>1, <4>2
    <3>3. InTransit = {Carrying(observations, information_relays, n) :
                         n \in active_information_relays}
      BY <2>2, Transit DEF NetworkInv
    <3>4. InTransit' = {Carrying(observations', information_relays', n) :
                          n \in active_information_relays'}
      BY <1>1, <1>5, <2>2, TransitNext
    <3>. QED  BY <1>1, <2>2, <3>2, <3>3, <3>4
  <2>. QED  BY <2>1, <2>2
<1>9. NetworkInv'
  BY <1>1, <1>4, <1>5, <1>6, <1>7, <1>8 DEF NetworkInv
<1>10. Network!Report
  <2>1. Network!Forget(Network!Remembered(batch, t), t)
    BY <1>6, ForgetsNothing
  <2>2. next' - 1 = (next - 1) + Len(batch)
    BY <1>1, <1>2, <1>3
  <2>. QED  BY <1>1, <1>7, <1>8, <2>1, <2>2 DEF Network!Report
<1>. QED  BY <1>9, <1>10

LEMMA BeginNetwork ==
  ASSUME NetworkInv, BeginObserved
  PROVE  NetworkInv' /\ Network!Begin
<1>1. RelaysInv' /\ backend # "ensemble" /\ backend' = backend
  BY BeginObservedKeeps DEF NetworkInv, RelaysInv, Times, BeginObserved
<1>2. /\ in_burn_in /\ due >= 0 /\ ~in_burn_in'
      /\ now' = 0 /\ due' = 0 /\ next' = 1
      /\ information_relays' = <<>> /\ active_information_relays' = {}
      /\ information_relay_due_heap' = {} /\ observation_source_index' = <<>>
      /\ retention' = retention /\ beliefs' = beliefs
  BY DEF BeginObserved, None
<1>3. now' % Instant = 0 /\ due' % Instant = 0 /\ now' <= due' /\ due' - Interval <= now'
  BY <1>2, Units
<1>4. InFlight(observations', information_relays', active_information_relays',
               information_relay_due_heap', due', next')
  BY <1>2, FS_EmptySet DEF InFlight
<1>5. NetworkInv'
  BY <1>1, <1>2, <1>3, <1>4 DEF NetworkInv
<1>6. InTransit' = {}
  BY <1>1, <1>2, TransitNext
<1>7. Range(observation_source_index') = {} /\ next' - 1 = 0
  BY <1>2 DEF Range
<1>8. in_burn_in' = FALSE
  BY DEF BeginObserved
<1>. QED  BY <1>2, <1>5, <1>6, <1>7, <1>8 DEF Network!Begin

\* What an information clock has to do to be one of the network.
LEMMA ClockOfTheNetwork ==
  ASSUME NEW batch \in Events, next \in Int, due \in Int,
         NEW taken, NEW heard, NEW field \in Seq(Belief), NEW headquarters \in Seq(Belief),
         field = beliefs \o Network!BelievedAtOnce(batch, due),
         headquarters = Network!BelievedLater(heard, Network!Remembered(batch, due)),
         now' = due, due' = due + Interval, next' = next + Len(batch), in_burn_in' = in_burn_in,
         beliefs' = field \o headquarters,
         \A r \in taken : r \in InTransit \cup Network!Sent(batch, due)
                            /\ r.arrives \in due + 1..due + Tolerance,
         heard \subseteq {r \in InTransit \cup Network!Sent(batch, due) :
                            r.arrives <= due /\ ~LateAt(r.arrives, due)} \cup taken,
         InTransit' = (InTransit \cup Network!Sent(batch, due))
                        \ ({r \in InTransit \cup Network!Sent(batch, due) :
                              r.arrives <= due /\ ~LateAt(r.arrives, due)} \cup taken),
         Network!Forget(Network!Remembered(batch, due), due)
  PROVE  Network!Information
<1>. DEFINE all == InTransit \cup Network!Sent(batch, due)
            arrived == {r \in all : r.arrives <= due /\ ~Network!Late(r)}
            arriving == {r \in all : r.arrives \in due + 1..due + Tolerance}
            lost == (arrived \cup taken) \ heard
<1>1. \A r : Network!Late(r) <=> LateAt(r.arrives, due)
  BY DEF Network!Late, LateAt
<1>2. arrived = {r \in all : r.arrives <= due /\ ~LateAt(r.arrives, due)}
  BY <1>1
<1>3. taken \in SUBSET arriving
  OBVIOUS
<1>4. (arrived \cup taken) \ lost = heard
  BY <1>2
<1>5. InTransit' = all \ (arrived \cup taken)
  BY <1>2
<1>6. Network!IsPrefix(field, beliefs')
  <2>1. Len(field) <= Len(field \o headquarters)
        /\ SubSeq(field \o headquarters, 1, Len(field)) = SubSeq(field, 1, Len(field))
    OBVIOUS
  <2>. QED  BY <2>1 DEF Network!IsPrefix
<1>7. next' - 1 = (next - 1) + Len(batch)
  BY EventsTyped
<1>8. batch \in Batches \cup {<<>>}
  BY DEF Events
<1>. HIDE DEF lost
<1>9. /\ lost \in SUBSET (arrived \cup taken)
      /\ beliefs' = field \o Network!BelievedLater((arrived \cup taken) \ lost,
                                                   Network!Remembered(batch, due))
  BY <1>4 DEF lost
<1>. QED  BY <1>3, <1>5, <1>6, <1>7, <1>8, <1>9 DEF Network!Information

LEMMA InformationNetwork ==
  ASSUME NetworkInv, ProcessInformation, NoRoundedLatency, LongRetention
  PROVE  NetworkInv' /\ Network!Information
<1>. DEFINE all(batch) == Joined(observations, NewObservations(batch, due))
            relays(batch) == Joined(information_relays, NewRelays(batch, due))
            active(batch) == active_information_relays \cup NewNumbers(batch)
            heap(batch) == information_relay_due_heap \cup NewDue(batch, due)
            ready(batch) == Ready(relays(batch), heap(batch), active(batch), due)
            gone(batch) == Gone(relays(batch), heap(batch), active(batch), due)
            past(batch) == History(batch, Len(batch), due)
            told(batch, delivered) ==
              [i \in DOMAIN Ordered(delivered) |->
                 all(batch)[relays(batch)[Ordered(delivered)[i]].report]]
<1>1. PICK batch \in Events :
        /\ backend # "ensemble" /\ Clock(batch)
        /\ \E delivered \in SUBSET ready(batch) :
             /\ beliefs' = beliefs \o FieldFusions(batch, due)
                             \o HeadquartersFusions(told(batch, delivered), past(batch))
             /\ Archive(all(batch),
                        Settled(relays(batch), delivered, ready(batch) \ delivered),
                        active(batch) \ (ready(batch) \cup gone(batch)), past(batch), due)
        /\ information_relay_due_heap' = heap(batch) \ Popped(heap(batch), due)
  BY DEF ProcessInformation, Events
<1>2. PICK delivered \in SUBSET ready(batch) :
        /\ beliefs' = beliefs \o FieldFusions(batch, due)
                        \o HeadquartersFusions(told(batch, delivered), past(batch))
        /\ Archive(all(batch),
                   Settled(relays(batch), delivered, ready(batch) \ delivered),
                   active(batch) \ (ready(batch) \cup gone(batch)), past(batch), due)
  BY <1>1
<1>3. /\ now \in Int /\ due \in Int /\ next \in Int /\ Objects /\ Interval \in Nat
      /\ now % Instant = 0 /\ due % Instant = 0 /\ due - Interval <= due
      /\ \E s \in Scenarios : retention = s.retention
      /\ InFlight(observations, information_relays, active_information_relays,
                  information_relay_due_heap, due, next)
  <2>1. Interval \in Nat
    BY Units
  <2>. QED  BY <1>1, <2>1 DEF NetworkInv, RelaysInv, Times
<1>4. /\ now' = due /\ due' = due + Interval /\ next' = next + Len(batch)
      /\ backend' = backend /\ retention' = retention /\ in_burn_in' = in_burn_in
  BY <1>1 DEF Clock
<1>5. RelaysInv'
  BY ProcessInformationKeeps DEF NetworkInv
<1>6. /\ now' % Instant = 0 /\ due' % Instant = 0 /\ now' <= due' /\ due' - Interval <= now'
  BY <1>3, <1>4, NextInstant
<1>. DEFINE limit == next + Len(batch)
            left == active(batch) \ ready(batch)
            settled == Settled(relays(batch), delivered, ready(batch) \ delivered)
            sees(n) == Carrying(all(batch), relays(batch), n)
            flown == InTransit \cup Network!Sent(batch, due)
<1>7. /\ UnderWay(relays(batch), active(batch))
      /\ active(batch) \subseteq DOMAIN all(batch)
      /\ InFlight(all(batch), relays(batch), active(batch), heap(batch), due, limit)
      /\ {sees(n) : n \in active(batch)} = flown
  <2>1. /\ UnderWay(relays(batch), active(batch))
        /\ DOMAIN all(batch) = DOMAIN observations \cup NewNumbers(batch)
    BY <1>3, JoinedObjects
  <2>2. active(batch) \subseteq DOMAIN all(batch)
    BY <1>3, <2>1 DEF Objects
  <2>3. InTransit = {Carrying(observations, information_relays, n) :
                       n \in active_information_relays}
    BY <1>1, Transit DEF NetworkInv
  <2>4. /\ InFlight(all(batch), relays(batch), active(batch), heap(batch), due, limit)
        /\ {sees(n) : n \in active(batch)}
             = {Carrying(observations, information_relays, n) : n \in active_information_relays}
                 \cup Network!Sent(batch, due)
    BY <1>3, JoinedInFlight
  <2>. QED  BY <2>1, <2>2, <2>3, <2>4
<1>. HIDE DEF all, relays, active, heap, flown
<1>8. /\ gone(batch) = {}
      /\ ready(batch) = {n \in active(batch) :
                           /\ relays(batch)[n].arrives_at <= due
                           /\ ~LateAt(relays(batch)[n].arrives_at, due)}
      /\ InFlight(all(batch), relays(batch), left, heap(batch) \ Popped(heap(batch), due),
                  due + Interval, limit)
  BY <1>3, <1>7, ReadyAtClock
<1>. HIDE DEF ready, gone
<1>9. active(batch) \ (ready(batch) \cup gone(batch)) = left
  BY <1>8
<1>10. /\ UnderWay(settled, left)
       /\ \A n \in left : settled[n].arrives_at = relays(batch)[n].arrives_at
  <2>1. left \subseteq active(batch) /\ left \cap (delivered \cup (ready(batch) \ delivered)) = {}
    OBVIOUS
  <2>2. UnderWay(relays(batch), active(batch))
    BY <1>7
  <2>. HIDE DEF left
  <2>3. UnderWay(settled, left)
    BY <2>1, <2>2, SettledObjects
  <2>4. \A n \in left : settled[n].arrives_at = relays(batch)[n].arrives_at
    <3>. TAKE n \in left
    <3>1. n \in DOMAIN relays(batch) /\ relays(batch)[n] \in RelayRecord
      BY <2>1, <2>2 DEF UnderWay
    <3>. QED  BY <3>1, SettledArrival
  <2>. QED  BY <2>3, <2>4
<1>11. /\ Archive(all(batch), settled, left, past(batch), due)
       /\ left \subseteq DOMAIN all(batch)
  BY <1>2, <1>7, <1>9
<1>. HIDE DEF left, settled, past
<1>12. /\ active_information_relays' = left
       /\ \A n \in left : observations'[n] = all(batch)[n] /\ information_relays'[n] = settled[n]
  BY <1>4, <1>10, <1>11, ArchiveObjects
<1>13. /\ InFlight(observations', information_relays', active_information_relays',
                   information_relay_due_heap', due', next')
       /\ \A n \in left : Carrying(observations', information_relays', n) = sees(n)
  <2>1. \A n \in left : /\ observations'[n] = all(batch)[n]
                        /\ information_relays'[n].arrives_at = relays(batch)[n].arrives_at
    BY <1>10, <1>12
  <2>2. /\ InFlight(observations', information_relays', left,
                    heap(batch) \ Popped(heap(batch), due), due + Interval, limit)
        /\ \A n \in left : Carrying(observations', information_relays', n) = sees(n)
    BY <1>8, <2>1, SameFlight
  <2>. QED  BY <1>1, <1>4, <1>12, <2>2
<1>14. InTransit' = {sees(n) : n \in left}
  <2>1. InTransit' = {Carrying(observations', information_relays', n) : n \in left}
    BY <1>1, <1>4, <1>5, <1>12, TransitNext
  <2>. HIDE DEF sees
  <2>. QED  BY <1>13, <2>1
<1>15. \A n \in active(batch) :
         /\ n \in Int /\ sees(n).number = n
         /\ sees(n).report = all(batch)[n] /\ sees(n).report \in ReportRecord
         /\ sees(n).arrives = relays(batch)[n].arrives_at /\ sees(n).arrives \in Int
         /\ sees(n).arrives - sees(n).report.at \in Latencies
  BY <1>7 DEF Carrying, InFlight
<1>. DEFINE arrived == {r \in flown : r.arrives <= due /\ ~LateAt(r.arrives, due)}
<1>. HIDE DEF sees
<1>16. arrived = {sees(n) : n \in ready(batch)}
  BY <1>7, <1>8, <1>15
<1>17. InTransit' = flown \ arrived
  <2>1. \A n \in active(batch) : n \in left <=> n \notin ready(batch)
    BY DEF left
  <2>2. left \subseteq active(batch) /\ ready(batch) \subseteq active(batch)
    BY <1>8 DEF left
  <2>3. \A m, n \in active(batch) : sees(m) = sees(n) => m = n
    <3>. SUFFICES ASSUME NEW m \in active(batch), NEW n \in active(batch), sees(m) = sees(n)
                  PROVE  m = n
      OBVIOUS
    <3>1. sees(m).number = m /\ sees(n).number = n
      BY <1>15
    <3>. QED  BY <3>1
  <2>. HIDE DEF arrived
  <2>4. {sees(n) : n \in left} = flown \ {sees(n) : n \in ready(batch)}
    BY <1>7, <2>1, <2>2, <2>3
  <2>. QED  BY <1>14, <1>16, <2>4
<1>18. /\ Range(past(batch)) = Network!Remembered(batch, due)
       /\ past(batch) \in Seq(ReportRecord)
  BY <1>3, HistoryIsRemembered DEF past, NetworkInv
<1>19. /\ observation_source_index' = IF Prunes(due) THEN KeptHistory(past(batch), due)
                                      ELSE past(batch)
  BY <1>11 DEF Archive
<1>20. observation_source_index' \in Seq(ReportRecord)
  <2>1. CASE Prunes(due)
    <3>1. due - retention \in Int
      BY <1>3, ScenariosAssumption
    <3>2. observation_source_index' = Since(past(batch), due - retention)
      BY <1>19, <2>1 DEF KeptHistory
    <3>. QED  BY <1>18, <3>1, <3>2, SinceFacts
  <2>2. CASE ~Prunes(due)
    BY <1>18, <1>19, <2>2
  <2>. QED  BY <2>1, <2>2
<1>21. \A r \in InTransit' : /\ r.report \in ReportRecord /\ r.arrives \in Int
                             /\ r.arrives - r.report.at \in Latencies
                             /\ r.arrives <= due => LateAt(r.arrives, due)
  <2>1. \A n \in left : n \in active(batch) /\ n \notin ready(batch)
    BY DEF left
  <2>. QED  BY <1>8, <1>14, <1>15, <2>1
<1>22. Network!Forget(Network!Remembered(batch, due), due)
  <2>1. CASE Prunes(due)
    <3>1. observation_source_index' = KeptHistory(past(batch), due)
      BY <1>19, <2>1
    <3>2. Network!Forget(Range(past(batch)), due)
      BY <1>3, <1>18, <1>21, <2>1, <3>1, ForgetsAtClock
    <3>. QED  BY <1>18, <3>2
  <2>2. CASE ~Prunes(due)
    <3>1. Range(observation_source_index') = Network!Remembered(batch, due)
      BY <1>18, <1>19, <2>2
    <3>. QED  BY <3>1, ForgetsNothing
  <2>. QED  BY <2>1, <2>2
<1>. DEFINE f == [n \in delivered |-> sees(n)]
            heard == {f[n] : n \in delivered}
            tells == told(batch, delivered)
<1>23. delivered \subseteq active(batch) /\ delivered \in SUBSET Int /\ IsFiniteSet(delivered)
  <2>1. delivered \subseteq active(batch)
    BY <1>8
  <2>2. \A n \in delivered : n \in Int
    BY <1>15, <2>1
  <2>3. IsFiniteSet(active(batch))
    BY <1>7 DEF InFlight
  <2>. QED  BY <2>1, <2>2, <2>3, FS_Subset
<1>24. /\ DOMAIN f = delivered
       /\ \A n \in delivered : f[n].number = n /\ f[n].number \in Int
                                 /\ f[n].report \in ReportRecord
  BY <1>15, <1>23
<1>25. /\ tells = [n \in 1..Cardinality(delivered) |-> tells[n]]
       /\ \A n \in 1..Cardinality(delivered) : tells[n] = f[Ordered(delivered)[n]].report
  <2>1. /\ DOMAIN Ordered(delivered) = 1..Cardinality(delivered)
        /\ \A n \in 1..Cardinality(delivered) : Ordered(delivered)[n] \in delivered
    BY <1>23, OrderedFacts
  <2>2. \A n \in delivered : f[n].report = all(batch)[relays(batch)[n].report]
    <3>1. \A n \in active(batch) : relays(batch)[n].report = n
      BY <1>7 DEF UnderWay
    <3>. QED  BY <1>15, <1>23, <3>1
  <2>. HIDE DEF f
  <2>. QED  BY <2>1, <2>2
<1>. HIDE DEF f, tells
<1>26. /\ HeadquartersFusions(tells, past(batch))
            = Network!BelievedLater(heard, Network!Remembered(batch, due))
       /\ HeadquartersFusions(tells, past(batch)) \in Seq(Belief)
  <2>1. \A j, k \in delivered : j < k => f[j].number < f[k].number
    BY <1>24
  <2>2. \A n \in delivered : f[n].number \in Int /\ f[n].report \in ReportRecord
    BY <1>24
  <2>3. tells = InTurn(f) /\ heard = Together(f)
    BY <1>24, <1>25 DEF InTurn, Together
  <2>. DEFINE h == past(batch)
  <2>4. h \in Seq(ReportRecord)
    BY <1>18
  <2>. HIDE DEF heard, h
  <2>5. /\ HeadquartersFusions(InTurn(f), h) = Network!BelievedLater(Together(f), Range(h))
        /\ HeadquartersFusions(InTurn(f), h) \in Seq(Belief)
    BY <1>23, <1>24, <2>1, <2>2, <2>4, BelievedAtHeadquarters
  <2>. QED  BY <1>18, <2>3, <2>5 DEF h
<1>27. heard \subseteq arrived
  BY <1>16 DEF f
<1>. DEFINE field == beliefs \o FieldFusions(batch, due)
            headquarters == HeadquartersFusions(tells, past(batch))
<1>28. /\ field \in Seq(Belief) /\ field = beliefs \o Network!BelievedAtOnce(batch, due)
       /\ beliefs' = field \o headquarters
  BY <1>2, <1>3, AddsToBeliefs DEF tells
<1>. HIDE DEF field, headquarters, heard, arrived
<1>29. headquarters \in Seq(Belief)
       /\ headquarters = Network!BelievedLater(heard, Network!Remembered(batch, due))
  BY <1>26 DEF headquarters
<1>30. beliefs' \in Seq(Belief)
  BY <1>28, <1>29
<1>31. NetworkInv'
  <2>1. \E s \in Scenarios : retention' = s.retention
    BY <1>3, <1>4
  <2>2. backend' # "ensemble"
    BY <1>1, <1>4
  <2>. QED  BY <1>5, <1>6, <1>13, <1>20, <1>30, <2>1, <2>2 DEF NetworkInv
<1>32. Network!Information
  <2>. DEFINE taken == {}
  <2>1. heard \subseteq arrived \cup taken /\ InTransit' = flown \ (arrived \cup taken)
    BY <1>17, <1>27
  <2>2. arrived = {r \in InTransit \cup Network!Sent(batch, due) :
                     r.arrives <= due /\ ~LateAt(r.arrives, due)}
    BY DEF arrived, flown
  <2>3. /\ heard \subseteq {r \in InTransit \cup Network!Sent(batch, due) :
                            r.arrives <= due /\ ~LateAt(r.arrives, due)} \cup taken
        /\ InTransit' = (InTransit \cup Network!Sent(batch, due))
                          \ ({r \in InTransit \cup Network!Sent(batch, due) :
                                r.arrives <= due /\ ~LateAt(r.arrives, due)} \cup taken)
    BY <2>1, <2>2 DEF flown
  <2>4. \A r \in taken : r \in InTransit \cup Network!Sent(batch, due)
                            /\ r.arrives \in due + 1..due + Tolerance
    OBVIOUS
  <2>. HIDE DEF taken
  <2>. QED  BY <1>3, <1>4, <1>22, <1>28, <1>29, <2>3, <2>4, ClockOfTheNetwork
<1>. QED  BY <1>31, <1>32


\* A numeric clock of a simulation is an information clock of the network, which
\* takes what is early by no more than the tolerance with what has arrived.
LEMMA NumericNetwork ==
  ASSUME NetworkInv, ProcessNumeric, NoRoundedLatency
  PROVE  NetworkInv' /\ Network!Information
<1>. DEFINE buffer(batch) == relay_buffer \o NewRows(batch, due)
            rows(batch) == Recorded(buffer(batch), batch, due)
            past(batch) == History(batch, Len(batch), due)
            kept(batch, delivered) ==
              {i \in DOMAIN buffer(batch) : buffer(batch)[i] \in delivered}
            told(batch, delivered) ==
              [i \in DOMAIN Compacted(buffer(batch), kept(batch, delivered)) |->
                 rows(batch)[Compacted(buffer(batch), kept(batch, delivered))[i].report]]
<1>1. PICK batch \in Events :
        /\ backend = "ensemble" /\ Clock(batch)
        /\ \E delivered \in SUBSET Arrived(buffer(batch), due) :
             beliefs' = beliefs \o FieldFusions(batch, due)
                          \o HeadquartersFusions(told(batch, delivered), past(batch))
        /\ relay_buffer' = RetainActive(buffer(batch), due)
        /\ event_rows' = RestrictDomain(rows(batch),
             LAMBDA n : \A row \in Arrived(buffer(batch), due) : row.report # n)
        /\ observation_source_index' = past(batch)
  BY DEF ProcessNumeric, Events
<1>2. PICK delivered \in SUBSET Arrived(buffer(batch), due) :
        beliefs' = beliefs \o FieldFusions(batch, due)
                     \o HeadquartersFusions(told(batch, delivered), past(batch))
  BY <1>1
<1>3. /\ now \in Int /\ due \in Int /\ next \in Int /\ NumericRows /\ Interval \in Nat
      /\ now % Instant = 0 /\ due % Instant = 0 /\ due - Interval <= due
      /\ \E s \in Scenarios : retention = s.retention
      /\ RowsInFlight(event_rows, relay_buffer, due)
  <2>1. /\ now \in Int /\ due \in Int /\ next \in Int /\ NumericRows
        /\ now % Instant = 0 /\ due % Instant = 0
        /\ \E s \in Scenarios : retention = s.retention
        /\ RowsInFlight(event_rows, relay_buffer, due)
    BY <1>1 DEF NetworkInv, RelaysInv, Times
  <2>2. Interval \in Nat
    BY Units
  <2>3. due - Interval <= due
    BY <2>1, <2>2
  <2>. QED  BY <2>1, <2>2, <2>3
<1>4. /\ now' = due /\ due' = due + Interval /\ next' = next + Len(batch)
      /\ backend' = backend /\ retention' = retention /\ in_burn_in' = in_burn_in
  BY <1>1 DEF Clock
<1>5. RelaysInv'
  BY ProcessNumericKeeps DEF NetworkInv
<1>6. /\ now' % Instant = 0 /\ due' % Instant = 0 /\ now' <= due' /\ due' - Interval <= now'
  BY <1>3, <1>4, NextInstant
<1>. DEFINE b == buffer(batch)
            seen == rows(batch)
            sees(row) == CarryingRow(seen, row)
            flown == InTransit \cup Network!Sent(batch, due)
<1>7. /\ b \in Seq(Row)
      /\ \A r, s \in Range(b) : r.report = s.report => r = s
      /\ DOMAIN seen = Carried(b)
      /\ RowsInFlight(seen, b, due)
      /\ {sees(row) : row \in Range(b)} = flown
  <2>1. /\ b \in Seq(Row)
        /\ \A r, s \in Range(b) : r.report = s.report => r = s
        /\ DOMAIN seen = Carried(b)
    BY <1>3, BufferedRows
  <2>2. InTransit = {CarryingRow(event_rows, row) : row \in Range(relay_buffer)}
    BY <1>1, Transit DEF NetworkInv
  <2>3. /\ RowsInFlight(seen, b, due)
        /\ {CarryingRow(seen, row) : row \in Range(b)}
             = {CarryingRow(event_rows, row) : row \in Range(relay_buffer)}
                 \cup Network!Sent(batch, due)
    BY <1>3, BufferedInFlight
  <2>. QED  BY <2>1, <2>2, <2>3
<1>8. /\ relay_buffer' = RetainActive(b, due)
      /\ event_rows' = RestrictDomain(seen, LAMBDA n : \A row \in Arrived(b, due) : row.report # n)
      /\ delivered \subseteq Arrived(b, due)
  BY <1>1
<1>. DEFINE tells == told(batch, delivered)
            keep == kept(batch, delivered)
<1>9. /\ keep = {i \in DOMAIN b : b[i] \in delivered}
      /\ tells = [i \in DOMAIN Compacted(b, keep) |-> seen[Compacted(b, keep)[i].report]]
  OBVIOUS
<1>. HIDE DEF b, seen, flown, tells, keep, past
<1>10. /\ RowsInFlight(event_rows', relay_buffer', due')
       /\ \A row \in Range(relay_buffer') : CarryingRow(event_rows', row) = sees(row)
  <2>. DEFINE left == event_rows'
  <2>1. \A n \in DOMAIN seen :
          (\A row \in Arrived(b, due) : row.report # n) => left[n] = seen[n]
    BY <1>8 DEF RestrictDomain, Restrict
  <2>. HIDE DEF left
  <2>2. /\ RowsInFlight(left, RetainActive(b, due), due + Interval)
        /\ \A row \in Range(RetainActive(b, due)) : CarryingRow(left, row) = CarryingRow(seen, row)
    BY <1>3, <1>7, <2>1, RetainedInFlight
  <2>. QED  BY <1>4, <1>8, <2>2 DEF left
<1>11. InTransit' = {sees(row) : row \in Range(b) \ Arrived(b, due)}
  <2>1. InTransit' = {CarryingRow(event_rows', row) : row \in Range(relay_buffer')}
    BY <1>1, <1>4, <1>5, TransitNext
  <2>2. Range(relay_buffer') = Range(b) \ Arrived(b, due)
    BY <1>3, <1>7, <1>8, RetainedRows
  <2>. HIDE DEF sees
  <2>. QED  BY <1>10, <2>1, <2>2
<1>12. \A i \in DOMAIN b :
         /\ b[i] \in Range(b) /\ b[i] \in Row /\ b[i].arrives_at \in Int
         /\ sees(b[i]).number = b[i].report /\ sees(b[i]).number \in Int
         /\ sees(b[i]).report = seen[b[i].report] /\ sees(b[i]).report \in ReportRecord
         /\ sees(b[i]).arrives = b[i].arrives_at
         /\ b[i].arrives_at <= due => ~LateAt(b[i].arrives_at, due)
  <2>1. \A i \in DOMAIN b : b[i] \in Row /\ b[i] \in Range(b)
    BY <1>7 DEF Range
  <2>. QED  BY <1>7, <2>1 DEF RowsInFlight, CarryingRow, Row
<1>13. \A row \in Range(b) :
         /\ sees(row).number = row.report /\ row.arrives_at \in Int
         /\ sees(row).arrives = row.arrives_at
         /\ row.arrives_at <= due => ~LateAt(row.arrives_at, due)
  <2>. HIDE DEF sees
  <2>. QED  BY <1>12 DEF Range
<1>. DEFINE arrived == {r \in flown : r.arrives <= due /\ ~LateAt(r.arrives, due)}
            taken == {r \in flown : r.arrives \in due + 1..due + Tolerance}
<1>. HIDE DEF sees
<1>14. arrived \cup taken = {sees(row) : row \in Arrived(b, due)}
  <2>1. Tolerance \in Nat
    BY Units
  <2>2. \A row \in Range(b) :
          (sees(row) \in arrived \cup taken) <=> row.arrives_at <= due + Tolerance
    <3>. TAKE row \in Range(b)
    <3>1. sees(row) \in flown
      BY <1>7
    <3>2. sees(row) \in arrived \cup taken
            <=> \/ row.arrives_at <= due /\ ~LateAt(row.arrives_at, due)
                \/ row.arrives_at \in due + 1..due + Tolerance
      BY <1>13, <3>1
    <3>. QED  BY <1>3, <1>13, <2>1, <3>2
  <2>3. \A r \in arrived \cup taken : \E row \in Range(b) : r = sees(row)
    BY <1>7
  <2>. HIDE DEF arrived, taken
  <2>. QED  BY <2>2, <2>3 DEF Arrived
<1>15. InTransit' = flown \ (arrived \cup taken)
  <2>1. \A r, s \in Range(b) : sees(r) = sees(s) => r = s
    BY <1>7, <1>13
  <2>2. Arrived(b, due) \subseteq Range(b)
    BY DEF Arrived
  <2>3. {sees(row) : row \in Range(b) \ Arrived(b, due)}
          = flown \ {sees(row) : row \in Arrived(b, due)}
    BY <1>7, <2>1, <2>2
  <2>. HIDE DEF arrived, taken
  <2>. QED  BY <1>11, <1>14, <2>3
<1>16. /\ Range(past(batch)) = Network!Remembered(batch, due)
       /\ past(batch) \in Seq(ReportRecord)
  BY <1>3, HistoryIsRemembered DEF past, NetworkInv
<1>17. /\ observation_source_index' \in Seq(ReportRecord)
       /\ Network!Forget(Network!Remembered(batch, due), due)
  <2>1. observation_source_index' = past(batch)
    BY <1>1
  <2>2. Range(observation_source_index') = Network!Remembered(batch, due)
    BY <1>16, <2>1
  <2>. QED  BY <1>16, <2>1, <2>2, ForgetsNothing
<1>18. /\ keep \in SUBSET Int /\ IsFiniteSet(keep) /\ keep \subseteq DOMAIN b
       /\ DOMAIN Compacted(b, keep) = 1..Cardinality(keep)
       /\ \A n \in 1..Cardinality(keep) : Compacted(b, keep)[n] = b[Ordered(keep)[n]]
  <2>1. keep \in SUBSET DOMAIN b
    BY <1>9
  <2>. QED  BY <1>7, <2>1, CompactedRows
<1>. DEFINE f == [i \in keep |-> sees(b[i])]
            heard == Together(f)
<1>19. /\ DOMAIN f = keep
       /\ \A i \in keep : f[i].number \in Int /\ f[i].report \in ReportRecord
  BY <1>12, <1>18
<1>20. \A i, j \in keep : i < j => f[i].number < f[j].number
  <2>1. \A i, j \in DOMAIN b : i < j => b[i].report < b[j].report
    BY <1>7 DEF RowsInFlight
  <2>. QED  BY <1>12, <1>18, <2>1
<1>21. heard \subseteq arrived \cup taken
  <2>1. heard = {sees(b[i]) : i \in keep}
    BY DEF Together
  <2>2. \A i \in keep : b[i] \in Arrived(b, due)
    BY <1>8, <1>9
  <2>. HIDE DEF arrived, taken, heard
  <2>. QED  BY <1>14, <2>1, <2>2
<1>22. tells = InTurn(f)
  <2>1. \A n \in 1..Cardinality(keep) :
          seen[Compacted(b, keep)[n].report] = f[Ordered(keep)[n]].report
    <3>. TAKE n \in 1..Cardinality(keep)
    <3>1. Ordered(keep)[n] \in keep
      BY <1>18, OrderedFacts
    <3>. QED  BY <1>12, <1>18, <3>1
  <2>. HIDE DEF f
  <2>. QED  BY <1>9, <1>18, <1>19, <2>1 DEF InTurn
<1>. HIDE DEF f, arrived, taken
<1>. DEFINE field == beliefs \o FieldFusions(batch, due)
            headquarters == HeadquartersFusions(tells, past(batch))
<1>23. headquarters \in Seq(Belief)
       /\ headquarters = Network!BelievedLater(heard, Network!Remembered(batch, due))
  <2>. DEFINE h == past(batch)
  <2>1. h \in Seq(ReportRecord)
    BY <1>16
  <2>2. DOMAIN f \in SUBSET Int /\ IsFiniteSet(DOMAIN f)
    BY <1>18, <1>19
  <2>3. /\ \A k \in DOMAIN f : f[k].number \in Int /\ f[k].report \in ReportRecord
        /\ \A j, k \in DOMAIN f : j < k => f[j].number < f[k].number
    BY <1>19, <1>20
  <2>. HIDE DEF h
  <2>4. /\ HeadquartersFusions(InTurn(f), h) = Network!BelievedLater(Together(f), Range(h))
        /\ HeadquartersFusions(InTurn(f), h) \in Seq(Belief)
    BY <2>1, <2>2, <2>3, BelievedAtHeadquarters
  <2>. QED  BY <1>16, <1>22, <2>4 DEF h
<1>24. /\ field \in Seq(Belief) /\ field = beliefs \o Network!BelievedAtOnce(batch, due)
       /\ beliefs' = field \o headquarters
  BY <1>2, <1>3, AddsToBeliefs DEF tells
<1>. HIDE DEF field, headquarters, heard
<1>25. beliefs' \in Seq(Belief)
  BY <1>23, <1>24
<1>26. NetworkInv'
  <2>1. \E s \in Scenarios : retention' = s.retention
    BY <1>3, <1>4
  <2>2. backend' = "ensemble"
    BY <1>1, <1>4
  <2>. QED  BY <1>5, <1>6, <1>10, <1>17, <1>25, <2>1, <2>2 DEF NetworkInv
<1>27. Network!Information
  <2>1. arrived = {r \in InTransit \cup Network!Sent(batch, due) :
                     r.arrives <= due /\ ~LateAt(r.arrives, due)}
    BY DEF arrived, flown
  <2>2. /\ heard \subseteq {r \in InTransit \cup Network!Sent(batch, due) :
                            r.arrives <= due /\ ~LateAt(r.arrives, due)} \cup taken
        /\ InTransit' = (InTransit \cup Network!Sent(batch, due))
                          \ ({r \in InTransit \cup Network!Sent(batch, due) :
                                r.arrives <= due /\ ~LateAt(r.arrives, due)} \cup taken)
    BY <1>15, <1>21, <2>1 DEF flown
  <2>3. \A r \in taken : r \in InTransit \cup Network!Sent(batch, due)
                            /\ r.arrives \in due + 1..due + Tolerance
    BY DEF taken, flown
  <2>. QED  BY <1>3, <1>4, <1>17, <1>23, <1>24, <2>2, <2>3, ClockOfTheNetwork
<1>. QED  BY <1>26, <1>27

\* Every step keeps the invariant and is a step of the network or none of it.
LEMMA NetworkStep ==
  ASSUME LongRetention, NoRoundedLatency, NetworkInv, [Next]_vars
  PROVE  /\ NetworkInv'
         /\ [Network!Report \/ Network!Information \/ Network!Begin]_(Network!networkVars)
<1>1. CASE Patrol
  BY <1>1, PatrolNetwork
<1>2. CASE ProcessInformation
  BY <1>2, InformationNetwork
<1>3. CASE ProcessNumeric
  BY <1>3, NumericNetwork
<1>4. CASE BeginObserved
  BY <1>4, BeginNetwork
<1>5. CASE UNCHANGED vars
  <2>1. /\ backend' = backend /\ retention' = retention /\ now' = now /\ due' = due
        /\ in_burn_in' = in_burn_in /\ next' = next /\ beliefs' = beliefs
        /\ observations' = observations /\ information_relays' = information_relays
        /\ active_information_relays' = active_information_relays
        /\ information_relay_due_heap' = information_relay_due_heap
        /\ observation_source_index' = observation_source_index
        /\ event_rows' = event_rows /\ relay_buffer' = relay_buffer
    BY <1>5 DEF vars, rich, numeric
  <2>2. RelaysInv'
    BY <1>5, RelaysStep DEF NetworkInv
  <2>3. NetworkInv'
    BY <2>1, <2>2 DEF NetworkInv
  <2>4. InTransit' = InTransit
    BY <2>1 DEF InTransit, Rows, Stripped
  <2>. QED  BY <2>1, <2>3, <2>4 DEF Network!networkVars
<1>. QED  BY <1>1, <1>2, <1>3, <1>4, <1>5 DEF Next

\* In every execution mode a simulation behaves as the command network: each
\* report is believed in the field at once and at headquarters once or never, in
\* the order of the relays and with the weight of the reports around it, whatever
\* the mode keeps, prunes or compacts.
THEOREM OneNetwork ==
  ASSUME LongRetention, NoRoundedLatency
  PROVE  Spec => ImplementsCommandRelays
<1>1. Init => NetworkInv /\ Network!NetworkInit
  BY InitNetwork
<1>2. NetworkInv /\ [Next]_vars =>
        /\ NetworkInv'
        /\ [Network!Report \/ Network!Information \/ Network!Begin]_(Network!networkVars)
  BY NetworkStep
<1>. QED  BY <1>1, <1>2, PTL DEF Spec, ImplementsCommandRelays, Network!NetworkSpec
=============================================================================
