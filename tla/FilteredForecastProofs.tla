------------------------- MODULE FilteredForecastProofs -------------------------
(***************************************************************************)
(* The resident particles and the study that uses them, for any number of  *)
(* particles, workers, weeks, trajectories and runs, wherever callbacks    *)
(* raise and whenever the program is killed.  A balanced resampling gives  *)
(* each worker its share and moves as few children as can be; the pool is  *)
(* one collection of particles to its caller; what is published stays      *)
(* loadable; and the forecast is that of an uninterrupted serial run.      *)
(***************************************************************************)
EXTENDS FilteredForecast, FiniteSetTheorems, WellFoundedInduction, TLAPS

-----------------------------------------------------------------------------
(* Numbers.                                                                *)

LEMMA LeastExists ==
  ASSUME NEW T, T \subseteq Nat, T # {}
  PROVE  \E m \in T : \A n \in T : m <= n
<1>1. PICK m \in T : \A n \in T : <<n, m>> \notin OpToRel(<, Nat)
  BY NatLessThanWellFounded, WFMin, Zenon
<1>2. \A n \in T : ~(n < m)
  BY <1>1, Zenon DEF OpToRel
<1>. QED  BY <1>2

\* A set that holds 0 and with every number its successor holds them all.
LEMMA Induction ==
  ASSUME NEW T, 0 \in T, \A n \in Nat : n \in T => n + 1 \in T
  PROVE  \A n \in Nat : n \in T
<1>. SUFFICES ASSUME Nat \ T # {} PROVE FALSE
  OBVIOUS
<1>1. PICK m \in Nat \ T : \A n \in Nat \ T : m <= n
  BY LeastExists
<1>2. m - 1 \in Nat /\ m - 1 \in T
  BY <1>1
<1>3. (m - 1) + 1 = m /\ (m - 1) + 1 \in T
  BY <1>1, <1>2
<1>. QED  BY <1>1, <1>3

LEMMA LeastIs ==
  ASSUME NEW a \in Int, NEW b \in Int
  PROVE  /\ Least(a, b) \in {a, b} /\ Least(a, b) \in Int
         /\ Least(a, b) <= a /\ Least(a, b) <= b
BY DEF Least

\* What integer division and its remainder return.
LEMMA Division ==
  ASSUME NEW a \in Nat, NEW b \in Nat \ {0}
  PROVE  /\ a \div b \in Nat /\ a % b \in 0..b - 1
         /\ a = b * (a \div b) + (a % b)
OBVIOUS

\* Division is unique.
LEMMA DivisionUnique ==
  ASSUME NEW b \in Nat \ {0}, NEW q \in Nat, NEW r \in 0..b - 1
  PROVE  (b * q + r) \div b = q /\ (b * q + r) % b = r
OBVIOUS

\* Products order as their factors do.
LEMMA ProductOrder ==
  ASSUME NEW b \in Nat \ {0}, NEW x \in Int, NEW y \in Int
  PROVE  /\ b * x \in Int /\ b * y \in Int
         /\ x <= y => b * x <= b * y
         /\ x < y => b * x + b <= b * y
<1>1. b * x \in Int /\ b * y \in Int
  OBVIOUS
<1>2. x <= y => b * x <= b * y
  OBVIOUS
<1>3. b * (x + 1) = b * x + b
  OBVIOUS
<1>4. x + 1 <= y => b * (x + 1) <= b * y
  OBVIOUS
<1>. QED  BY <1>1, <1>2, <1>3, <1>4

-----------------------------------------------------------------------------
(* Places in a set of numbers.                                             *)

Place(K, i) == Cardinality({j \in K : j <= i})

\* An element of a finite set of integers counts those up to it.
LEMMA PlaceTyped ==
  ASSUME NEW K \in SUBSET Int, IsFiniteSet(K), NEW i \in K
  PROVE  Place(K, i) \in 1..Cardinality(K)
<1>. DEFINE L == {j \in K : j <= i}
<1>1. /\ IsFiniteSet(L) /\ Cardinality(L) <= Cardinality(K)
  BY FS_Subset
<1>2. Cardinality(L) \in Nat /\ Cardinality(K) \in Nat
  BY <1>1, FS_CardinalityType
<1>3. L # {}
  OBVIOUS
<1>4. Cardinality(L) # 0
  BY <1>1, <1>3, FS_EmptySet
<1>. QED  BY <1>1, <1>2, <1>4 DEF Place

\* A greater element counts more.
LEMMA PlaceGrows ==
  ASSUME NEW K \in SUBSET Int, IsFiniteSet(K), NEW i \in K, NEW k \in K, i < k
  PROVE  Place(K, i) < Place(K, k)
<1>. DEFINE L == {j \in K : j <= i}
            M == {j \in K : j <= k}
<1>1. i \in Int /\ k \in Int
  OBVIOUS
<1>2. IsFiniteSet(M)
  BY FS_Subset
<1>3. L \subseteq M
  <2>. SUFFICES ASSUME NEW j \in L PROVE j \in M
    OBVIOUS
  <2>1. j \in Int /\ j <= i
    OBVIOUS
  <2>. QED  BY <1>1, <2>1
<1>4. k \in M /\ k \notin L
  BY <1>1
<1>5. /\ Cardinality(L) <= Cardinality(M)
      /\ Cardinality(M) = Cardinality(L) => M = L
  BY <1>2, <1>3, FS_Subset
<1>6. Cardinality(L) \in Nat /\ Cardinality(M) \in Nat
  <2>1. IsFiniteSet(L)
    BY FS_Subset
  <2>. QED  BY <1>2, <2>1, FS_CardinalityType
<1>. QED  BY <1>4, <1>5, <1>6 DEF Place

LEMMA PlaceDistinct ==
  ASSUME NEW K \in SUBSET Int, IsFiniteSet(K), NEW i \in K, NEW k \in K,
         Place(K, i) = Place(K, k)
  PROVE  i = k
<1>1. i \in Int /\ k \in Int
  OBVIOUS
<1>2. Place(K, i) \in Int
  BY PlaceTyped
<1>3. ~(i < k) /\ ~(k < i)
  BY <1>2, PlaceGrows
<1>. QED  BY <1>1, <1>3

\* Each number up to the cardinality is the count of one element.
LEMMA PlaceTaken ==
  ASSUME NEW K \in SUBSET Int, IsFiniteSet(K), NEW n \in 1..Cardinality(K)
  PROVE  \E i \in K : Place(K, i) = n
<1>. DEFINE T == 1..Cardinality(K)
            f == [i \in K |-> Place(K, i)]
<1>1. Cardinality(K) \in Nat
  BY FS_CardinalityType
<1>2. IsFiniteSet(T) /\ Cardinality(T) = Cardinality(K)
  BY <1>1, FS_Interval
<1>3. f \in [K -> T]
  BY PlaceTyped
<1>4. \A i, k \in K : f[i] = f[k] => i = k
  BY PlaceDistinct
<1>5. f \in Injection(K, T)
  BY <1>3, <1>4 DEF Injection, IsInjective
<1>6. f \in Surjection(K, T)
  BY <1>2, <1>5, FS_Injection
<1>. HIDE DEF T
<1>7. \E i \in K : f[i] = n
  BY <1>6 DEF Surjection, T
<1>. QED  BY <1>7

\* Ith is the other way round.
LEMMA IthPlace ==
  ASSUME NEW K \in SUBSET Int, IsFiniteSet(K), NEW n \in 1..Cardinality(K)
  PROVE  Ith(K, n) \in K /\ Place(K, Ith(K, n)) = n
<1>1. \E i \in K : Cardinality({j \in K : j <= i}) = n
  BY PlaceTaken DEF Place
<1>. QED  BY <1>1 DEF Ith, Place

\* As many elements have a place up to n as there are such places.
LEMMA PlacesUpTo ==
  ASSUME NEW K \in SUBSET Int, IsFiniteSet(K), NEW n \in 0..Cardinality(K)
  PROVE  /\ IsFiniteSet({i \in K : Place(K, i) <= n})
         /\ Cardinality({i \in K : Place(K, i) <= n}) = n
<1>. DEFINE L == {i \in K : Place(K, i) <= n}
            f == [i \in L |-> Place(K, i)]
<1>1. \A i \in L : i \in K /\ Place(K, i) \in 1..n
  BY PlaceTyped
<1>2. IsFiniteSet(1..n) /\ Cardinality(1..n) = n
  BY FS_Interval
<1>3. f \in [L -> 1..n]
  BY <1>1
<1>4. \A i, k \in L : f[i] = f[k] => i = k
  BY PlaceDistinct
<1>5. f \in Injection(L, 1..n)
  BY <1>3, <1>4 DEF Injection, IsInjective
<1>6. \A m \in 1..n : \E i \in L : f[i] = m
  <2>. TAKE m \in 1..n
  <2>1. Cardinality(K) \in Nat
    BY FS_CardinalityType
  <2>2. PICK i \in K : Place(K, i) = m
    BY <2>1, PlaceTaken
  <2>3. i \in L
    BY <2>2
  <2>. QED  BY <2>2, <2>3
<1>7. f \in Surjection(L, 1..n)
  BY <1>3, <1>6 DEF Surjection
<1>8. IsFiniteSet(L) /\ Cardinality(L) = Cardinality(1..n)
  BY <1>2, <1>5, <1>7, FS_Injection
<1>. QED  BY <1>2, <1>8

\* If A has in each class no more elements than B, it has no more in all.
LEMMA ClassByClass ==
  ASSUME NEW A \in SUBSET Int, IsFiniteSet(A), NEW B \in SUBSET Int, IsFiniteSet(B),
         NEW class,
         \A a \in A : Cardinality({x \in A : class[x] = class[a]})
                        <= Cardinality({x \in B : class[x] = class[a]})
  PROVE  Cardinality(A) <= Cardinality(B)
<1>. DEFINE AA(a) == {x \in A : class[x] = class[a]}
            BB(a) == {x \in B : class[x] = class[a]}
            g == [a \in A |-> CHOOSE b \in BB(a) : Place(BB(a), b) = Place(AA(a), a)]
<1>1. \A a \in A : /\ AA(a) \in SUBSET Int /\ IsFiniteSet(AA(a)) /\ a \in AA(a)
                   /\ BB(a) \in SUBSET Int /\ IsFiniteSet(BB(a))
  BY FS_Subset
<1>2. \A a \in A : g[a] \in BB(a) /\ Place(BB(a), g[a]) = Place(AA(a), a)
  <2>. TAKE a \in A
  <2>. HIDE DEF AA, BB
  <2>1. Place(AA(a), a) \in 1..Cardinality(AA(a))
    BY <1>1, PlaceTyped
  <2>2. Cardinality(AA(a)) <= Cardinality(BB(a))
    BY DEF AA, BB
  <2>3. Cardinality(AA(a)) \in Nat /\ Cardinality(BB(a)) \in Nat
    BY <1>1, FS_CardinalityType
  <2>4. Place(AA(a), a) \in 1..Cardinality(BB(a))
    BY <2>1, <2>2, <2>3
  <2>5. \E b \in BB(a) : Place(BB(a), b) = Place(AA(a), a)
    BY <1>1, <2>4, PlaceTaken
  <2>. QED  BY <2>5
<1>3. \A a, c \in A : g[a] = g[c] => a = c
  <2>. SUFFICES ASSUME NEW a \in A, NEW c \in A, g[a] = g[c] PROVE a = c
    OBVIOUS
  <2>1. class[g[a]] = class[a] /\ class[g[c]] = class[c]
    BY <1>2
  <2>2. AA(a) = AA(c) /\ BB(a) = BB(c)
    BY <2>1
  <2>3. Place(AA(a), a) = Place(AA(a), c)
    BY <1>2, <2>2
  <2>4. a \in AA(a) /\ c \in AA(a)
    BY <1>1, <2>2
  <2>. HIDE DEF AA
  <2>. QED  BY <1>1, <2>3, <2>4, PlaceDistinct
<1>. HIDE DEF g
<1>4. g \in [A -> B]
  <2>1. DOMAIN g = A /\ g = [a \in A |-> g[a]]
    BY DEF g
  <2>. QED  BY <1>2, <2>1
<1>5. g \in Injection(A, B)
  BY <1>3, <1>4 DEF Injection, IsInjective
<1>. QED  BY <1>5, FS_Injection

-----------------------------------------------------------------------------
(* The layout.                                                             *)

LEMMA Sizes ==
  /\ ParticleCount \in Nat \ {0} /\ WorkerCount \in Nat \ {0}
  /\ WorkerCount <= ParticleCount
  /\ Workers \subseteq Nat /\ 0 \in Workers /\ Coordinator \notin Workers
  /\ Slots \subseteq Nat
BY PoolAssumption DEF WorkerCount, Workers, Coordinator, Slots

LEMMA SlotsFinite == IsFiniteSet(Slots) /\ Cardinality(Slots) = ParticleCount
<1>1. IsFiniteSet(0..(ParticleCount - 1))
      /\ Cardinality(0..(ParticleCount - 1)) = ParticleCount
  BY Sizes, FS_Interval
<1>. QED  BY <1>1 DEF Slots

LEMMA WorkersFinite == IsFiniteSet(Workers)
<1>1. IsFiniteSet(0..(WorkerCount - 1))
  BY Sizes, FS_Interval
<1>. QED  BY <1>1 DEF Workers

\* Any set of slots is finite.
LEMMA SlotSet ==
  ASSUME NEW S \in SUBSET Slots
  PROVE  /\ S \in SUBSET Int /\ IsFiniteSet(S)
         /\ Cardinality(S) \in Nat /\ Cardinality(S) <= ParticleCount
<1>1. IsFiniteSet(S) /\ Cardinality(S) <= ParticleCount
  BY SlotsFinite, FS_Subset
<1>. QED  BY <1>1, Sizes, FS_CardinalityType

LEMMA CapacityTyped ==
  ASSUME NEW w \in Workers
  PROVE  Capacity(w) \in 0..ParticleCount
<1>. DEFINE q == ParticleCount \div WorkerCount
            r == ParticleCount % WorkerCount
<1>1. /\ ParticleCount \in Nat /\ WorkerCount \in Nat \ {0}
  BY Sizes
<1>2. /\ q \in Nat /\ r \in 0..WorkerCount - 1
      /\ ParticleCount = WorkerCount * q + r
  BY <1>1, Division
<1>. HIDE DEF q, r
<1>3. WorkerCount * q >= q
  BY <1>1, <1>2
<1>4. Capacity(w) = q + (IF w < r THEN 1 ELSE 0) /\ w \in Nat
  BY Sizes DEF Capacity, q, r
<1>5. w < r => r >= 1
  BY <1>2, <1>4
<1>. QED  BY <1>1, <1>2, <1>3, <1>4, <1>5

\* All places there are.
AllPlaces == {place \in Workers \X (1..ParticleCount) : place[2] <= Capacity(place[1])}

\* A slot's place when the slots are dealt round.
Dealt(s) == <<s % WorkerCount, (s \div WorkerCount) + 1>>

LEMMA DealtPlaced ==
  ASSUME NEW s \in Slots
  PROVE  Dealt(s) \in AllPlaces
<1>. DEFINE W == WorkerCount
            q == ParticleCount \div W
            r == ParticleCount % W
            a == s \div W
            b == s % W
<1>1. /\ ParticleCount \in Nat /\ W \in Nat \ {0} /\ s \in Nat /\ s < ParticleCount
  BY Sizes DEF Slots
<1>2. /\ q \in Nat /\ r \in 0..W - 1 /\ ParticleCount = W * q + r
  BY <1>1, Division
<1>3. /\ a \in Nat /\ b \in 0..W - 1 /\ s = W * a + b
  BY <1>1, Division
<1>4. b \in Workers
  BY <1>3 DEF Workers
<1>5. Capacity(b) = q + (IF b < r THEN 1 ELSE 0)
  BY DEF Capacity
<1>6. Dealt(s) = <<b, a + 1>>
  BY DEF Dealt
<1>. HIDE DEF W, q, r, a, b
<1>7. a <= q
  <2>1. q < a => W * q + W <= W * a
    BY <1>1, <1>2, <1>3, ProductOrder
  <2>2. W * q \in Int /\ W * a \in Int
    BY <1>1, <1>2, <1>3
  <2>. QED  BY <1>1, <1>2, <1>3, <2>1, <2>2
<1>8. b >= r => a < q
  <2>1. a = q => W * a = W * q
    OBVIOUS
  <2>2. W * q \in Int /\ W * a \in Int
    BY <1>1, <1>2, <1>3
  <2>. QED  BY <1>1, <1>2, <1>3, <1>7, <2>1, <2>2
<1>9. a + 1 <= Capacity(b)
  BY <1>2, <1>3, <1>5, <1>7, <1>8
<1>10. a + 1 \in 1..ParticleCount
  BY <1>1, <1>3, <1>4, <1>9, CapacityTyped
<1>. QED  BY <1>4, <1>6, <1>9, <1>10 DEF AllPlaces

LEMMA PlaceDealt ==
  ASSUME NEW place \in AllPlaces
  PROVE  \E s \in Slots : Dealt(s) = place
<1>. DEFINE W == WorkerCount
            q == ParticleCount \div W
            r == ParticleCount % W
            w == place[1]
            i == place[2]
            s == W * (i - 1) + w
<1>1. /\ ParticleCount \in Nat /\ W \in Nat \ {0}
  BY Sizes
<1>2. /\ q \in Nat /\ r \in 0..W - 1 /\ ParticleCount = W * q + r
  BY <1>1, Division
<1>3. /\ w \in 0..W - 1 /\ i \in 1..ParticleCount /\ i <= Capacity(w) /\ place = <<w, i>>
  BY DEF AllPlaces, Workers
<1>4. Capacity(w) = q + (IF w < r THEN 1 ELSE 0)
  BY DEF Capacity
<1>5. i - 1 \in Nat /\ s \div W = i - 1 /\ s % W = w
  BY <1>1, <1>3, DivisionUnique
<1>6. Dealt(s) = <<s % W, (s \div W) + 1>>
  BY DEF Dealt
<1>. HIDE DEF W, q, r, w, i
<1>7. W * (i - 1) \in Nat /\ W * q \in Int
  BY <1>1, <1>2, <1>5
<1>8. s < ParticleCount
  <2>1. CASE w < r
    <3>1. i - 1 <= q
      BY <1>2, <1>3, <1>4, <2>1
    <3>2. W * (i - 1) <= W * q
      BY <1>1, <1>2, <1>5, <3>1, ProductOrder
    <3>. QED  BY <1>1, <1>2, <1>3, <1>7, <2>1, <3>2
  <2>2. CASE ~(w < r)
    <3>1. i - 1 < q
      BY <1>2, <1>3, <1>4, <2>2
    <3>2. W * (i - 1) + W <= W * q
      BY <1>1, <1>2, <1>5, <3>1, ProductOrder
    <3>. QED  BY <1>1, <1>2, <1>3, <1>7, <3>2
  <2>. QED  BY <2>1, <2>2
<1>9. s \in Slots
  BY <1>1, <1>3, <1>7, <1>8 DEF Slots
<1>. HIDE DEF s
<1>10. Dealt(s) = place
  BY <1>3, <1>5, <1>6
<1>. QED  BY <1>9, <1>10

LEMMA DealtDistinct ==
  ASSUME NEW s \in Slots, NEW t \in Slots, Dealt(s) = Dealt(t)
  PROVE  s = t
<1>. DEFINE W == WorkerCount
<1>1. W \in Nat \ {0} /\ s \in Nat /\ t \in Nat
  BY Sizes
<1>2. /\ s \div W \in Nat /\ s % W \in 0..W - 1 /\ s = W * (s \div W) + (s % W)
      /\ t \div W \in Nat /\ t % W \in 0..W - 1 /\ t = W * (t \div W) + (t % W)
  BY <1>1, Division
<1>3. s % W = t % W /\ (s \div W) + 1 = (t \div W) + 1
  BY DEF Dealt
<1>4. s \div W = t \div W
  BY <1>2, <1>3
<1>. QED  BY <1>2, <1>3, <1>4

\* There is a place for each slot.
LEMMA PlacesCounted ==
  IsFiniteSet(AllPlaces) /\ Cardinality(AllPlaces) = ParticleCount
<1>. DEFINE f == [s \in Slots |-> Dealt(s)]
<1>1. f \in [Slots -> AllPlaces]
  BY DealtPlaced
<1>2. \A s, t \in Slots : f[s] = f[t] => s = t
  BY DealtDistinct
<1>3. \A place \in AllPlaces : \E s \in Slots : f[s] = place
  BY PlaceDealt
<1>4. f \in Injection(Slots, AllPlaces) /\ f \in Surjection(Slots, AllPlaces)
  BY <1>1, <1>2, <1>3 DEF Injection, IsInjective, Surjection
<1>5. IsFiniteSet(AllPlaces) /\ Cardinality(AllPlaces) = Cardinality(Slots)
  BY <1>4, SlotsFinite, FS_Surjection
<1>. QED  BY <1>5, SlotsFinite

-----------------------------------------------------------------------------
(* The share of each worker.                                               *)

\* What a balanced resampling is asked for: a parent for each slot, while each
\* slot has an owner.
Plannable(parents) == parents \in [Slots -> Slots] /\ assignment \in [Slots -> Workers]

\* The worker that has a child's parent, and how many such children.
Home(c, parents) == assignment[parents[c]]
Brood(w, parents) == Cardinality(Children(w, parents))

Leavers(parents) == {c \in Slots : ~Stays(c, parents)}
Stayers(parents) == {c \in Slots : Stays(c, parents)}

LEMMA Homes ==
  ASSUME NEW parents, Plannable(parents)
  PROVE  /\ \A c \in Slots : Home(c, parents) \in Workers /\ parents[c] \in Slots
         /\ \A w \in Workers : /\ Children(w, parents) \in SUBSET Slots
                               /\ Brood(w, parents) \in 0..ParticleCount
<1>1. \A c \in Slots : Home(c, parents) \in Workers /\ parents[c] \in Slots
  BY DEF Plannable, Home
<1>2. ASSUME NEW w \in Workers
      PROVE  /\ Children(w, parents) \in SUBSET Slots
             /\ Brood(w, parents) \in 0..ParticleCount
  <2>1. Children(w, parents) \in SUBSET Slots
    BY DEF Children
  <2>. QED  BY <2>1, SlotSet, Sizes DEF Brood
<1>. QED  BY <1>1, <1>2

\* A child stays when its place among those of its home is within the capacity.
LEMMA StaysPlace ==
  ASSUME NEW parents, Plannable(parents), NEW c \in Slots
  PROVE  /\ c \in Children(Home(c, parents), parents)
         /\ Stays(c, parents) <=>
              Place(Children(Home(c, parents), parents), c) <= Capacity(Home(c, parents))
<1>. DEFINE w == Home(c, parents)
            K == Children(w, parents)
            L == {d \in K : d < c}
<1>1. w \in Workers /\ c \in K /\ K \in SUBSET Slots
  BY Homes DEF Children, Home
<1>2. L \in SUBSET Slots /\ c \notin L
  BY <1>1, Sizes
<1>3. IsFiniteSet(L) /\ Cardinality(L) \in Nat
  BY <1>2, SlotSet
<1>4. Cardinality(L \cup {c}) = Cardinality(L) + 1
  BY <1>2, <1>3, FS_AddElement
<1>5. {d \in K : d <= c} = L \cup {c}
  <2>1. c \in Int /\ \A d \in K : d \in Int
    BY <1>1, SlotSet
  <2>2. \A d \in K : d <= c <=> d < c \/ d = c
    BY <2>1
  <2>. HIDE DEF K
  <2>. QED  BY <1>1, <2>2
<1>6. Capacity(w) \in Int
  BY <1>1, CapacityTyped
<1>7. Stays(c, parents) <=> Cardinality(L) < Capacity(w)
  BY DEF Stays, Home
<1>. QED  BY <1>1, <1>3, <1>4, <1>5, <1>6, <1>7 DEF Place

\* As many children stay with a worker as it has and may keep.
LEMMA StayingCounted ==
  ASSUME NEW parents, Plannable(parents), NEW w \in Workers
  PROVE  LET staying == {c \in Children(w, parents) : Stays(c, parents)}
         IN  /\ IsFiniteSet(staying)
             /\ Cardinality(staying) = Least(Capacity(w), Brood(w, parents))
<1>. DEFINE K == Children(w, parents)
            n == Least(Capacity(w), Brood(w, parents))
<1>1. K \in SUBSET Slots /\ Capacity(w) \in Int /\ Brood(w, parents) \in Nat
      /\ Capacity(w) >= 0
  BY Homes, CapacityTyped, Sizes
<1>2. n \in 0..Cardinality(K) /\ n <= Capacity(w)
      /\ (n = Capacity(w) \/ n = Cardinality(K))
  <2>1. Cardinality(K) = Brood(w, parents)
    BY DEF Brood
  <2>. QED  BY <1>1, <2>1 DEF Least
<1>3. K \in SUBSET Int /\ IsFiniteSet(K)
  BY <1>1, SlotSet
<1>4. \A c \in K : Stays(c, parents) <=> Place(K, c) <= Capacity(w)
  <2>. TAKE c \in K
  <2>1. c \in Slots /\ Home(c, parents) = w
    BY DEF Children, Home
  <2>. QED  BY <2>1, StaysPlace
<1>5. \A c \in K : Place(K, c) \in Int /\ Place(K, c) <= Cardinality(K)
  BY <1>3, PlaceTyped
<1>. HIDE DEF K, n
<1>6. \A c \in K : Stays(c, parents) <=> Place(K, c) <= n
  BY <1>1, <1>2, <1>4, <1>5
<1>7. {c \in K : Stays(c, parents)} = {c \in K : Place(K, c) <= n}
  BY <1>6
<1>8. /\ IsFiniteSet({c \in K : Place(K, c) <= n})
      /\ Cardinality({c \in K : Place(K, c) <= n}) = n
  BY <1>2, <1>3, PlacesUpTo
<1>. QED  BY <1>7, <1>8 DEF K, n

\* The room on the workers up to t.
Free(t, parents) == {place \in (0..t) \X (1..ParticleCount) :
                       /\ Brood(place[1], parents) < place[2]
                       /\ place[2] <= Capacity(place[1])}

LEMMA RoomIs ==
  ASSUME NEW parents, NEW t
  PROVE  Room(t, parents) = Cardinality(Free(t, parents))
BY DEF Room, Free, Brood

LEMMA FreePlaces ==
  ASSUME NEW parents, Plannable(parents), NEW t \in Workers
  PROVE  /\ Free(t, parents) \in SUBSET AllPlaces
         /\ IsFiniteSet(Free(t, parents))
         /\ Room(t, parents) \in Nat
<1>1. \A w \in 0..t : w \in Workers
  BY Sizes DEF Workers
<1>2. Free(t, parents) \in SUBSET AllPlaces
  BY <1>1 DEF Free, AllPlaces
<1>3. IsFiniteSet(Free(t, parents))
  BY <1>2, PlacesCounted, FS_Subset
<1>. QED  BY <1>2, <1>3, FS_CardinalityType, RoomIs

LEMMA RoomGrows ==
  ASSUME NEW parents, Plannable(parents), NEW t \in Workers, NEW u \in Workers, t <= u
  PROVE  Room(t, parents) <= Room(u, parents)
<1>1. t \in Int /\ u \in Int
  BY Sizes
<1>2. 0..t \subseteq 0..u
  BY <1>1
<1>3. Free(t, parents) \subseteq Free(u, parents)
  BY <1>2 DEF Free
<1>. QED  BY <1>3, FreePlaces, FS_Subset, RoomIs

\* One worker's room.
LEMMA RoomOfOne ==
  ASSUME NEW parents, Plannable(parents), NEW t \in Workers
  PROVE  Room(t, parents) - (IF t = 0 THEN 0 ELSE Room(t - 1, parents))
           = Capacity(t) - Least(Capacity(t), Brood(t, parents))
<1>. DEFINE k == Brood(t, parents)
            cap == Capacity(t)
            F == Free(t, parents)
            E == {place \in F : place[1] # t}
            D == {place \in F : place[1] = t}
            f == [i \in k + 1..cap |-> <<t, i>>]
<1>1. t \in Nat /\ k \in Nat /\ cap \in 0..ParticleCount /\ ParticleCount \in Nat
  BY Homes, CapacityTyped, Sizes
<1>2. IsFiniteSet(F)
  BY FreePlaces
<1>3. Cardinality(D) = cap - Least(cap, k)
  <2>1. IsFiniteSet(k + 1..cap) /\ Cardinality(k + 1..cap) = cap - Least(cap, k)
    <3>. HIDE DEF k, cap
    <3>0. k + 1 \in Int /\ cap \in Int
      BY <1>1
    <3>1. IsFiniteSet(k + 1..cap)
          /\ Cardinality(k + 1..cap) = IF k + 1 > cap THEN 0 ELSE cap - (k + 1) + 1
      BY <3>0, FS_Interval
    <3>. QED  BY <1>1, <3>1 DEF Least
  <2>2. \A i \in k + 1..cap : <<t, i>> \in D
    BY <1>1 DEF Free
  <2>3. \A place \in D : place[2] \in k + 1..cap /\ place = <<t, place[2]>>
    BY <1>1 DEF Free
  <2>4. f \in [k + 1..cap -> D]
    BY <2>2
  <2>5. \A i, j \in k + 1..cap : f[i] = f[j] => i = j
    OBVIOUS
  <2>6. \A place \in D : \E i \in k + 1..cap : f[i] = place
    BY <2>3
  <2>7. f \in Injection(k + 1..cap, D) /\ f \in Surjection(k + 1..cap, D)
    BY <2>4, <2>5, <2>6 DEF Injection, IsInjective, Surjection
  <2>. QED  BY <2>1, <2>7, FS_Surjection
<1>4. Cardinality(E) = IF t = 0 THEN 0 ELSE Room(t - 1, parents)
  <2>1. CASE t = 0
    <3>1. \A w \in 0..t : w = t
      BY <1>1, <2>1
    <3>2. E = {}
      BY <3>1 DEF Free
    <3>. QED  BY <2>1, <3>2, FS_EmptySet
  <2>2. CASE t # 0
    <3>1. \A w : w \in 0..t /\ w # t <=> w \in 0..t - 1
      BY <1>1, <2>2
    <3>2. E = Free(t - 1, parents)
      BY <3>1 DEF Free
    <3>. QED  BY <2>2, <3>2, RoomIs
  <2>. QED  BY <2>1, <2>2
<1>5. /\ IsFiniteSet(D) /\ IsFiniteSet(E)
      /\ Cardinality(D) \in Nat /\ Cardinality(E) \in Nat
  BY <1>2, FS_Subset, FS_CardinalityType
<1>6. F = D \cup E /\ D \cap E = {}
  OBVIOUS
<1>7. Cardinality(F) = Cardinality(D) + Cardinality(E)
  <2>1. Cardinality(D \cup E) = Cardinality(D) + Cardinality(E) - Cardinality(D \cap E)
    BY <1>5, FS_Union
  <2>2. Cardinality(D \cap E) = 0
    BY <1>6, FS_EmptySet
  <2>. HIDE DEF D, E, F
  <2>. QED  BY <1>5, <1>6, <2>1, <2>2
<1>8. Room(t, parents) = Cardinality(F)
  BY RoomIs
<1>. HIDE DEF D, E, F, k, cap
<1>. QED  BY <1>3, <1>4, <1>5, <1>7, <1>8 DEF k, cap

\* As many children leave their homes as there is room.
LEMMA LeaversCounted ==
  ASSUME NEW parents, Plannable(parents)
  PROVE  Cardinality(Leavers(parents)) = Room(WorkerCount - 1, parents)
<1>. DEFINE last == WorkerCount - 1
            F == Free(last, parents)
            taken == AllPlaces \ F
            S == Stayers(parents)
            f == [c \in S |-> <<Home(c, parents), Place(Children(Home(c, parents), parents), c)>>]
<1>1. last \in Workers /\ Workers = 0..last
  BY Sizes DEF Workers
<1>2. F \in SUBSET AllPlaces /\ IsFiniteSet(F)
  BY <1>1, FreePlaces
<1>3. \A place \in AllPlaces : place \in taken <=> place[2] <= Brood(place[1], parents)
  <2>. TAKE place \in AllPlaces
  <2>1. /\ place \in (0..last) \X (1..ParticleCount) /\ place[2] <= Capacity(place[1])
        /\ place[1] \in Workers /\ place[2] \in Int
    BY <1>1 DEF AllPlaces
  <2>2. Brood(place[1], parents) \in Int
    BY <2>1, Homes
  <2>3. place \in F <=> Brood(place[1], parents) < place[2]
    BY <2>1 DEF Free
  <2>. QED  BY <2>1, <2>2, <2>3
<1>4. \A c \in S : f[c] \in taken
  <2>. TAKE c \in S
  <2>. DEFINE w == Home(c, parents)
              K == Children(w, parents)
  <2>1. /\ c \in Slots /\ c \in K /\ Place(K, c) <= Capacity(w)
        /\ w \in Workers /\ K \in SUBSET Slots
    BY StaysPlace, Homes DEF Stayers
  <2>2. K \in SUBSET Int /\ IsFiniteSet(K) /\ Cardinality(K) <= ParticleCount
        /\ Cardinality(K) \in Nat
    BY <2>1, SlotSet
  <2>3. Place(K, c) \in 1..Cardinality(K)
    BY <2>1, <2>2, PlaceTyped
  <2>4. Cardinality(K) = Brood(w, parents)
    BY DEF Brood
  <2>5. f[c] = <<w, Place(K, c)>>
    OBVIOUS
  <2>. HIDE DEF w, K, f, taken, S
  <2>6. <<w, Place(K, c)>> \in AllPlaces
    BY <2>1, <2>2, <2>3, Sizes DEF AllPlaces
  <2>. QED  BY <1>3, <2>3, <2>4, <2>5, <2>6
<1>5. \A c, d \in S : f[c] = f[d] => c = d
  <2>. SUFFICES ASSUME NEW c \in S, NEW d \in S, f[c] = f[d] PROVE c = d
    OBVIOUS
  <2>. DEFINE w == Home(c, parents)
              K == Children(w, parents)
  <2>1. Home(d, parents) = w /\ Place(K, c) = Place(K, d)
    OBVIOUS
  <2>2. c \in K /\ d \in K /\ K \in SUBSET Slots
    BY <2>1, StaysPlace, Homes DEF Stayers
  <2>3. K \in SUBSET Int /\ IsFiniteSet(K)
    BY <2>2, SlotSet
  <2>. HIDE DEF w, K
  <2>. QED  BY <2>1, <2>2, <2>3, PlaceDistinct
<1>6. \A place \in taken : \E c \in S : f[c] = place
  <2>. TAKE place \in taken
  <2>. DEFINE w == place[1]
              i == place[2]
              K == Children(w, parents)
  <2>1. place \in AllPlaces
    OBVIOUS
  <2>2. w \in Workers /\ i \in 1..ParticleCount /\ i <= Capacity(w) /\ place = <<w, i>>
    BY <2>1 DEF AllPlaces
  <2>3. i <= Brood(w, parents)
    BY <1>3, <2>1
  <2>4. K \in SUBSET Slots /\ Brood(w, parents) \in Int
    BY <2>2, Homes
  <2>5. K \in SUBSET Int /\ IsFiniteSet(K) /\ Cardinality(K) = Brood(w, parents)
    BY <2>4, SlotSet DEF Brood
  <2>. HIDE DEF w, i, K
  <2>6. i \in 1..Cardinality(K)
    BY <2>2, <2>3, <2>4, <2>5
  <2>7. PICK c \in K : Place(K, c) = i
    BY <2>5, <2>6, PlaceTaken
  <2>8. c \in Slots /\ Home(c, parents) = w
    BY <2>4, <2>7 DEF Children, Home, K
  <2>9. Stays(c, parents)
    BY <2>2, <2>7, <2>8, StaysPlace DEF K
  <2>10. c \in S /\ f[c] = <<w, i>>
    BY <2>7, <2>8, <2>9 DEF Stayers, K
  <2>. QED  BY <2>2, <2>10
<1>7. Cardinality(S) = Cardinality(taken) /\ IsFiniteSet(taken)
  <2>1. S \in SUBSET Slots
    BY DEF Stayers
  <2>2. IsFiniteSet(S)
    BY <2>1, SlotSet
  <2>3. f \in Injection(S, taken) /\ f \in Surjection(S, taken)
    <3>1. f \in [S -> taken]
      BY <1>4
    <3>. QED  BY <3>1, <1>5, <1>6 DEF Injection, IsInjective, Surjection
  <2>. HIDE DEF f, S, taken
  <2>. QED  BY <2>2, <2>3, FS_Surjection
<1>8. Cardinality(taken) = ParticleCount - Cardinality(F)
  <2>1. Cardinality(AllPlaces \ F) = Cardinality(AllPlaces) - Cardinality(AllPlaces \cap F)
    BY PlacesCounted, FS_Difference
  <2>2. AllPlaces \cap F = F
    BY <1>2
  <2>. QED  BY <2>1, <2>2, PlacesCounted
<1>9. Cardinality(Leavers(parents)) = ParticleCount - Cardinality(S)
  <2>1. Leavers(parents) = Slots \ S /\ Slots \cap S = S
    BY DEF Leavers, Stayers
  <2>2. Cardinality(Slots \ S) = Cardinality(Slots) - Cardinality(Slots \cap S)
    BY SlotsFinite, FS_Difference
  <2>. QED  BY <2>1, <2>2, SlotsFinite
<1>10. Cardinality(F) \in Nat
  BY <1>2, FS_CardinalityType
<1>11. Room(last, parents) = Cardinality(F)
  BY RoomIs
<1>. HIDE DEF F, taken, S
<1>. QED  BY <1>7, <1>8, <1>9, <1>10, <1>11, Sizes

\* A leaver goes to the first worker that has room for all leavers up to it.
Turn(c, parents) == Place(Leavers(parents), c)

LEMMA LeaverTarget ==
  ASSUME NEW parents, Plannable(parents), NEW c \in Leavers(parents), NEW t \in Workers
  PROVE  /\ Target(c, parents) \in Workers
         /\ Turn(c, parents) \in 1..Cardinality(Leavers(parents))
         /\ Target(c, parents) = t <=>
              /\ Turn(c, parents) <= Room(t, parents)
              /\ (IF t = 0 THEN 0 ELSE Room(t - 1, parents)) < Turn(c, parents)
<1>. DEFINE L == Leavers(parents)
            n == Turn(c, parents)
            T == {u \in Workers : Room(u, parents) >= n}
            First(u) == Room(u, parents) >= n /\ \A v \in 0..(u - 1) : Room(v, parents) < n
<1>1. L \in SUBSET Slots
  BY DEF Leavers
<1>2. L \in SUBSET Int /\ IsFiniteSet(L)
  BY <1>1, SlotSet
<1>3. n \in 1..Cardinality(L)
  BY <1>2, PlaceTyped DEF Turn
<1>4. Target(c, parents) = CHOOSE u \in Workers : First(u)
  <2>1. ~Stays(c, parents)
    BY DEF Leavers
  <2>2. Cardinality({d \in 0..c : ~Stays(d, parents)}) = n
    <3>1. \A d : d \in 0..c /\ ~Stays(d, parents) <=> d \in L /\ d <= c
      BY <1>1, Sizes DEF Leavers, Slots
    <3>2. {d \in 0..c : ~Stays(d, parents)} = {d \in L : d <= c}
      BY <3>1
    <3>. QED  BY <3>2 DEF Turn, Place
  <2>. QED  BY <2>1, <2>2 DEF Target
<1>5. \A u \in Workers : Room(u, parents) \in Nat /\ u \in Nat
  BY FreePlaces, Sizes
<1>. HIDE DEF n, L
<1>6. T # {}
  <2>1. WorkerCount - 1 \in Workers
    BY Sizes DEF Workers
  <2>2. Room(WorkerCount - 1, parents) = Cardinality(L)
    BY LeaversCounted DEF L
  <2>3. Room(WorkerCount - 1, parents) >= n
    BY <1>3, <2>2
  <2>. QED  BY <2>1, <2>3
<1>7. \E u \in Workers : First(u)
  <2>1. T \subseteq Nat
    BY <1>5
  <2>2. PICK u \in T : \A v \in T : u <= v
    BY <1>6, <2>1, LeastExists
  <2>3. \A v \in 0..(u - 1) : Room(v, parents) < n
    <3>. TAKE v \in 0..(u - 1)
    <3>1. v \in Workers /\ ~(u <= v)
      BY <1>5, <2>2, Sizes DEF Workers
    <3>2. v \notin T
      BY <2>2, <3>1
    <3>. QED  BY <1>3, <1>5, <3>1, <3>2
  <2>. QED  BY <2>2, <2>3
<1>8. \A u \in Workers :
        First(u) <=> n <= Room(u, parents)
                     /\ (IF u = 0 THEN 0 ELSE Room(u - 1, parents)) < n
  <2>. TAKE u \in Workers
  <2>1. CASE u = 0
    BY <1>3, <1>5, <2>1
  <2>2. CASE u # 0
    <3>1. u - 1 \in Workers /\ u - 1 \in 0..(u - 1)
      BY <1>5, <2>2, Sizes DEF Workers
    <3>2. \A v \in 0..(u - 1) : v \in Workers /\ v <= u - 1
      BY <1>5, Sizes DEF Workers
    <3>3. \A v \in 0..(u - 1) : Room(v, parents) <= Room(u - 1, parents)
      BY <3>1, <3>2, RoomGrows
    <3>4. Room(u - 1, parents) < n => \A v \in 0..(u - 1) : Room(v, parents) < n
      BY <1>3, <1>5, <3>1, <3>2, <3>3
    <3>. QED  BY <1>3, <1>5, <2>2, <3>1, <3>4
  <2>. QED  BY <2>1, <2>2
<1>9. \A u, v \in Workers : First(u) /\ First(v) => u = v
  <2>. SUFFICES ASSUME NEW u \in Workers, NEW v \in Workers, First(u), First(v), u # v
                PROVE  FALSE
    OBVIOUS
  <2>1. u \in 0..(v - 1) \/ v \in 0..(u - 1)
    BY <1>5
  <2>. QED  BY <1>3, <1>5, <2>1
<1>. HIDE DEF First
<1>10. Target(c, parents) \in Workers /\ First(Target(c, parents))
  BY <1>4, <1>7
<1>11. Target(c, parents) = t <=> First(t)
  BY <1>9, <1>10
<1>. QED  BY <1>3, <1>8, <1>10, <1>11 DEF n, L

LEMMA TargetTyped ==
  ASSUME NEW parents, Plannable(parents), NEW c \in Slots
  PROVE  /\ Target(c, parents) \in Workers
         /\ Stays(c, parents) => Target(c, parents) = Home(c, parents)
<1>1. CASE Stays(c, parents)
  <2>1. Target(c, parents) = Home(c, parents)
    BY <1>1 DEF Target, Home
  <2>. QED  BY <2>1, Homes
<1>2. CASE ~Stays(c, parents)
  <2>1. c \in Leavers(parents) /\ 0 \in Workers
    BY <1>2, Sizes DEF Leavers
  <2>. QED  BY <1>2, <2>1, LeaverTarget
<1>. QED  BY <1>1, <1>2

\* The children that a worker has after a balanced resampling.
Kids(w, parents) == {c \in Slots : Target(c, parents) = w}

\* They are its capacity.
LEMMA SharesAreEven ==
  ASSUME NEW parents, Plannable(parents), NEW w \in Workers
  PROVE  /\ Kids(w, parents) \in SUBSET Slots
         /\ IsFiniteSet(Kids(w, parents))
         /\ Cardinality(Kids(w, parents)) = Capacity(w)
<1>. DEFINE A == {c \in Children(w, parents) : Stays(c, parents)}
            L == Leavers(parents)
            hi == Room(w, parents)
            lo == IF w = 0 THEN 0 ELSE Room(w - 1, parents)
            B == {c \in L : Target(c, parents) = w}
            Upper == {c \in L : Place(L, c) <= hi}
            Lower == {c \in L : Place(L, c) <= lo}
<1>1. IsFiniteSet(A) /\ Cardinality(A) = Least(Capacity(w), Brood(w, parents))
  BY StayingCounted
<1>2. L \in SUBSET Slots
  BY DEF Leavers
<1>3. L \in SUBSET Int /\ IsFiniteSet(L) /\ Cardinality(L) \in Nat
  BY <1>2, SlotSet
<1>4. lo \in Nat /\ hi \in Nat /\ lo <= hi /\ hi <= Cardinality(L)
  <2>1. w \in Nat /\ (w # 0 => w - 1 \in Workers /\ w - 1 <= w)
        /\ WorkerCount - 1 \in Workers /\ w <= WorkerCount - 1
    BY Sizes DEF Workers
  <2>2. hi <= Room(WorkerCount - 1, parents)
    BY <2>1, RoomGrows
  <2>3. w # 0 => Room(w - 1, parents) <= hi /\ Room(w - 1, parents) \in Nat
    BY <2>1, RoomGrows, FreePlaces
  <2>4. hi \in Nat
    BY FreePlaces
  <2>. HIDE DEF hi, L
  <2>. QED  BY <2>2, <2>3, <2>4, LeaversCounted DEF L
<1>5. B = Upper \ Lower
  <2>1. \A c \in L : /\ Place(L, c) \in Int
                     /\ Target(c, parents) = w <=> Place(L, c) <= hi /\ lo < Place(L, c)
    <3>. TAKE c \in L
    <3>1. /\ Turn(c, parents) \in 1..Cardinality(L)
          /\ Target(c, parents) = w <=> Turn(c, parents) <= hi /\ lo < Turn(c, parents)
      BY LeaverTarget
    <3>. QED  BY <3>1 DEF Turn
  <2>. HIDE DEF L, hi, lo
  <2>. QED  BY <1>4, <2>1
<1>6. /\ IsFiniteSet(Upper) /\ Cardinality(Upper) = hi
      /\ IsFiniteSet(Lower) /\ Cardinality(Lower) = lo
  <2>. HIDE DEF L, hi, lo
  <2>1. hi \in 0..Cardinality(L) /\ lo \in 0..Cardinality(L)
    BY <1>3, <1>4
  <2>. QED  BY <1>3, <2>1, PlacesUpTo
<1>7. Upper \cap Lower = Lower
  <2>1. \A c \in L : Place(L, c) \in Int
    BY <1>3, PlaceTyped
  <2>. HIDE DEF L, hi, lo
  <2>. QED  BY <1>4, <2>1
<1>8. IsFiniteSet(B) /\ Cardinality(B) = hi - lo
  <2>1. /\ IsFiniteSet(Upper \ Lower)
        /\ Cardinality(Upper \ Lower) = Cardinality(Upper) - Cardinality(Upper \cap Lower)
    BY <1>6, FS_Difference
  <2>2. Cardinality(Upper \cap Lower) = lo
    BY <1>6, <1>7
  <2>. QED  BY <1>5, <1>6, <2>1, <2>2
<1>9. hi - lo = Capacity(w) - Least(Capacity(w), Brood(w, parents))
  BY RoomOfOne
<1>10. Kids(w, parents) = A \cup B /\ A \cap B = {}
  <2>1. \A c \in Slots : Stays(c, parents) =>
          (Target(c, parents) = w <=> c \in Children(w, parents))
    BY TargetTyped DEF Home, Children
  <2>2. Children(w, parents) \subseteq Slots
    BY DEF Children
  <2>. QED  BY <2>1, <2>2 DEF Kids, Leavers
<1>11. Cardinality(A \cup B) = Cardinality(A) + Cardinality(B) - Cardinality(A \cap B)
       /\ IsFiniteSet(A \cup B)
  <2>. HIDE DEF A, B
  <2>. QED  BY <1>1, <1>8, FS_Union
<1>12. Cardinality(A \cap B) = 0
  BY <1>10, FS_EmptySet
<1>13. Least(Capacity(w), Brood(w, parents)) \in Int /\ Capacity(w) \in Int
  BY Homes, CapacityTyped, LeastIs
<1>14. Kids(w, parents) \in SUBSET Slots
  BY DEF Kids
<1>. HIDE DEF A, B, hi, lo
<1>15. Cardinality(Kids(w, parents)) = Capacity(w)
  BY <1>1, <1>8, <1>9, <1>10, <1>11, <1>12, <1>13
<1>. QED  BY <1>10, <1>11, <1>14, <1>15

\* No other way to give each worker its capacity moves fewer children.
LEMMA MovesAreFewest ==
  ASSUME NEW parents, Plannable(parents), NEW owner \in [Slots -> Workers],
         \A w \in Workers : Cardinality({c \in Slots : owner[c] = w}) = Capacity(w)
  PROVE  Cardinality({c \in Slots : Target(c, parents) # Home(c, parents)})
           <= Cardinality({c \in Slots : owner[c] # Home(c, parents)})
<1>. DEFINE A == {c \in Slots : owner[c] = Home(c, parents)}
            B == Stayers(parents)
            moved == {c \in Slots : Target(c, parents) # Home(c, parents)}
            displaced == {c \in Slots : owner[c] # Home(c, parents)}
            class == [c \in Slots |-> Home(c, parents)]
<1>1. A \in SUBSET Slots /\ B \in SUBSET Slots /\ moved \in SUBSET Slots /\ displaced \in SUBSET Slots
  BY DEF Stayers
<1>2. \A a \in A : Cardinality({x \in A : class[x] = class[a]})
                     <= Cardinality({x \in B : class[x] = class[a]})
  <2>. TAKE a \in A
  <2>. DEFINE w == Home(a, parents)
              AA == {x \in A : class[x] = class[a]}
              BB == {x \in B : class[x] = class[a]}
              K == Children(w, parents)
              Of == {c \in Slots : owner[c] = w}
  <2>1. w \in Workers
    BY Homes
  <2>2. BB = {c \in K : Stays(c, parents)}
    BY DEF Stayers, Children, Home
  <2>3. Cardinality(BB) = Least(Capacity(w), Brood(w, parents))
    BY <2>1, <2>2, StayingCounted
  <2>4. AA \subseteq K /\ AA \subseteq Of /\ K \in SUBSET Slots /\ Of \in SUBSET Slots
    BY DEF Children, Home
  <2>. HIDE DEF AA, BB, K, Of, w
  <2>5. /\ IsFiniteSet(K) /\ IsFiniteSet(Of)
    BY <2>4, SlotSet
  <2>6. Cardinality(AA) <= Cardinality(K) /\ Cardinality(AA) <= Cardinality(Of)
    BY <2>4, <2>5, FS_Subset
  <2>7. Cardinality(K) = Brood(w, parents) /\ Cardinality(Of) = Capacity(w)
    BY <2>1 DEF Brood, K, Of
  <2>8. Cardinality(AA) <= Least(Capacity(w), Brood(w, parents))
    BY <2>6, <2>7 DEF Least
  <2>. QED  BY <2>3, <2>8 DEF AA, BB
<1>3. /\ A \in SUBSET Int /\ IsFiniteSet(A) /\ Cardinality(A) \in Nat
      /\ B \in SUBSET Int /\ IsFiniteSet(B) /\ Cardinality(B) \in Nat
  BY <1>1, SlotSet
<1>4. Cardinality(A) <= Cardinality(B)
  <2>. HIDE DEF A, B, class
  <2>. QED  BY <1>2, <1>3, ClassByClass
<1>5. Cardinality(displaced) = ParticleCount - Cardinality(A)
  <2>1. displaced = Slots \ A /\ Slots \cap A = A
    OBVIOUS
  <2>2. Cardinality(Slots \ A) = Cardinality(Slots) - Cardinality(Slots \cap A)
    BY SlotsFinite, FS_Difference
  <2>. QED  BY <2>1, <2>2, SlotsFinite
<1>6. Cardinality(Slots \ B) = ParticleCount - Cardinality(B) /\ IsFiniteSet(Slots \ B)
  <2>1. Slots \cap B = B
    BY <1>1
  <2>2. Cardinality(Slots \ B) = Cardinality(Slots) - Cardinality(Slots \cap B)
        /\ IsFiniteSet(Slots \ B)
    BY SlotsFinite, FS_Difference
  <2>. QED  BY <2>1, <2>2, SlotsFinite
<1>7. moved \subseteq Slots \ B
  BY TargetTyped DEF Stayers
<1>8. Cardinality(moved) <= Cardinality(Slots \ B)
  BY <1>6, <1>7, FS_Subset
<1>9. Cardinality(moved) \in Nat
  BY <1>1, SlotSet
<1>. HIDE DEF A, B, moved, displaced
<1>10. Cardinality(moved) <= Cardinality(displaced)
  BY <1>3, <1>4, <1>5, <1>6, <1>8, <1>9, Sizes
<1>. QED  BY <1>10 DEF moved, displaced

-----------------------------------------------------------------------------
(* The invariant of the pool.                                              *)

\* A sequence, whatever of.
IsSeq(q) == q \in Seq(Range(q))

\* A call is taken as a whole: what a slot is to hold when it is over, who is to
\* hold it, what a worker holds before and after, and what it answers.
Balancing == call.op = "resample_balanced"

Gets(s) ==
  CASE call.op = "propagate" -> Store!Advanced(content[s], call.arg)
    [] call.op \in {"resample", "resample_balanced"} ->
         Store!Forked(content[call.arg[s]], s)
    [] OTHER -> content[s]

Owned(w) == {s \in Slots : assignment[s] = w}
Share(w) == {s \in Slots : Reassigned[s] = w}
Before(w) == [s \in Owned(w) |-> content[s]]
After(w) == [s \in Share(w) |-> Gets(s)]
FileOf(s) == [state |-> content[s], era |-> era]
Kept(w) == {c \in Children(w, call.arg) : Target(c, call.arg) = w}

PayloadOf(op, arg) ==
  CASE op = "evaluate_nonmutating" -> JobsOf(arg)
    [] op = "resample" -> ChildrenOf(arg)
    [] op = "resample_balanced" -> PlansOf(arg)
    [] OTHER -> ForAll(arg)

AskedOf(w) == <<[op |-> call.op, arg |-> PayloadOf(call.op, call.arg)[w]]>>

ReplyOf(w) ==
  CASE call.op = "evaluate_nonmutating" ->
         [j \in DOMAIN JobsOf(call.arg)[w] |->
            Store!Forked(content[call.arg[j].slot], call.arg[j].sample)]
    [] call.op \in {"resample", "metrics"} -> <<>>
    [] call.op = "persist" -> [s \in Owned(w) |-> FileOf(s)]
    [] call.op = "resample_balanced" ->
         [exported |-> Cardinality(Children(w, call.arg) \ Kept(w)),
          imported |-> Capacity(w) - Cardinality(Kept(w))]
    [] OTHER -> After(w)

\* Where a worker is in a call: ended by an exception; yet to take the command, if
\* there is one; writing its states; waiting for children; done, and perhaps heard.
DeadOne(w) ==
  /\ phase[w] = "ended" /\ results[w] = <<[op |-> "error", got |-> <<>>]>>
  /\ call.next <= w

Ready(w) ==
  /\ phase[w] \in {"serving", "loading"} /\ results[w] = <<>> /\ call.next <= w
  /\ commands[w][Coordinator] = IF Calling THEN AskedOf(w) ELSE <<>>
  /\ states[w] = Before(w)
  /\ IF Balancing
     THEN /\ DOMAIN imports[w] \subseteq Share(w)
          /\ \A c \in DOMAIN imports[w] : imports[w][c] = Gets(c)
     ELSE imports[w] = <<>>

Saving(w) ==
  /\ call.op = "persist"
  /\ phase[w] = "persisting" /\ results[w] = <<>> /\ call.next <= w
  /\ commands[w][Coordinator] = <<>> /\ imports[w] = <<>>
  /\ states[w] = Before(w)
  /\ doing[w] = [key |-> call.arg, rows |-> doing[w].rows]
  /\ DOMAIN doing[w].rows \subseteq Owned(w)
  /\ doing[w].rows = [s \in DOMAIN doing[w].rows |-> FileOf(s)]
  /\ \A s \in DOMAIN doing[w].rows : files[<<call.arg, s>>] = FileOf(s)

Awaiting(w) ==
  /\ Balancing
  /\ phase[w] = "importing" /\ results[w] = <<>> /\ call.next <= w
  /\ commands[w][Coordinator] = <<>> /\ imports[w] = <<>>
  /\ DOMAIN doing[w].next \subseteq Share(w)
  /\ doing[w] = [next |-> [c \in DOMAIN doing[w].next |-> Gets(c)],
                 exported |-> Cardinality(Children(w, call.arg) \ Kept(w)),
                 expected |-> Capacity(w), own |-> Cardinality(Kept(w))]

Finished(w) ==
  /\ Calling
  /\ phase[w] = "serving"
  /\ commands[w][Coordinator] = <<>> /\ imports[w] = <<>>
  /\ states[w] = After(w)
  /\ IF call.next <= w THEN results[w] = <<[op |-> call.op, got |-> ReplyOf(w)]>>
     ELSE results[w] = <<>> /\ call.got[w + 1] = ReplyOf(w)
  /\ call.op = "persist" => \A s \in Owned(w) : files[<<call.arg, s>>] = FileOf(s)

InCall(w) == DeadOne(w) \/ Ready(w) \/ Saving(w) \/ Awaiting(w) \/ Finished(w)

\* The children a worker has, in a balanced resampling.
GotBy(w) == IF phase[w] = "importing" THEN DOMAIN doing[w].next
            ELSE IF commands[w][Coordinator] = <<>> THEN Share(w) ELSE DOMAIN imports[w]

\* A bundle from v to w, of children that w has not got.
IsBundle(bundle, w, v) ==
  /\ bundle.op = "import_parent_bundle"
  /\ bundle.arg.children # {}
  /\ bundle.arg.children \subseteq Children(v, call.arg) \cap Share(w)
  /\ bundle.arg.children \cap GotBy(w) = {}
  /\ \A c \in bundle.arg.children : bundle.arg.state = content[call.arg[c]]

\* What v has for w: nothing before it has its command, and no child twice.
Between(w, v) ==
  /\ IsSeq(commands[w][v])
  /\ \A i \in DOMAIN commands[w][v] : IsBundle(commands[w][v][i], w, v)
  /\ \A i, j \in DOMAIN commands[w][v] :
       i # j => commands[w][v][i].arg.children \cap commands[w][v][j].arg.children = {}
  /\ v = w \/ commands[v][Coordinator] # <<>> => commands[w][v] = <<>>
  /\ v # w /\ commands[v][Coordinator] # <<>> => GotBy(w) \cap Children(v, call.arg) = {}

InTransit ==
  \A w, v \in Workers : phase[w] # "ended" =>
    IF Balancing THEN Between(w, v) ELSE commands[w][v] = <<>>

Started == era > 0 /\ stage # "starting"
Live == ~broken /\ ~closed /\ Started

LiveInv ==
  /\ \A w \in Workers : InCall(w)
  /\ InTransit
  /\ IsSeq(call.got) /\ Len(call.got) = call.next

Inboxes ==
  /\ DOMAIN commands = Workers
  /\ \A v \in Workers : /\ DOMAIN commands[v] = Workers \cup {Coordinator}
                        /\ IsSeq(commands[v][Coordinator])

Rooms ==
  /\ DOMAIN states = Workers /\ DOMAIN phase = Workers /\ DOMAIN doing = Workers
  /\ DOMAIN imports = Workers /\ DOMAIN results = Workers /\ DOMAIN files = Keys \X Slots

Shapes ==
  /\ Inboxes /\ Rooms
  /\ assignment \in [Slots -> Workers]
  /\ era \in Nat /\ broken \in BOOLEAN /\ closed \in BOOLEAN

CallOps == {"propagate", "evaluate_nonmutating", "resample", "resample_balanced", "persist",
            "snapshot", "summarize", "metrics", "shutdown"}

\* What may be asked.
Asked(op, arg) ==
  /\ op \in CallOps
  /\ op = "propagate" => arg \in Nat
  /\ op = "persist" => arg \in Keys
  /\ op \in {"resample", "resample_balanced"} => arg \in [Slots -> Slots]
  /\ op = "evaluate_nonmutating" => \A j \in DOMAIN arg : arg[j].slot \in Slots

CallInv ==
  /\ call = [op |-> call.op, arg |-> call.arg, next |-> call.next, got |-> call.got]
  /\ call # NoCall => Asked(call.op, call.arg) /\ Started
  /\ call.next \in Workers
  /\ Calling => (closed <=> call.op = "shutdown")

\* A pool that is broken has a worker that ended and from which nothing comes, and
\* the coordinator does not get past it.
BrokenInv ==
  broken /\ ~closed /\ Started =>
    /\ \E v \in Workers : /\ phase[v] = "ended" /\ results[v] = <<>>
                          /\ call.next <= v
    /\ Calling => call.op = "metrics"

\* Nobody writes what is published.
Unwritten(key) == key \in Keys /\ manifests[key] = Nothing

PersistInv ==
  \A w \in Workers : phase[w] # "ended" =>
    /\ \A i \in DOMAIN commands[w][Coordinator] :
         commands[w][Coordinator][i].op = "persist" => Unwritten(commands[w][Coordinator][i].arg)
    /\ phase[w] = "persisting" =>
         /\ doing[w] = [key |-> doing[w].key, rows |-> doing[w].rows]
         /\ Unwritten(doing[w].key)

PoolInv == Shapes /\ CallInv /\ BrokenInv /\ PersistInv /\ (Live => LiveInv)

-----------------------------------------------------------------------------
(* The invariant of the run.                                               *)

Training == {"training", "assimilating", "saving", "publishing", "publishing posterior"}
Ending == {"tearing down", "closing", "closed", "over"}

StudyInv ==
  /\ stage \in Training \cup Ending
       \cup {"starting", "summarizing", "forecasting", "consuming", "any"}
  /\ week \in 0..Weeks
  /\ stage # "any" => /\ draws \in [1..Weeks -> Draws]
                      /\ picks \in Selections /\ enough \in Stops
  /\ DOMAIN metadata = Keys /\ DOMAIN manifests = Keys
  /\ stage \notin {"starting", "any"} => era > 0
  /\ closed => stage \in {"closed", "over", "any"}

\* What is published is the filter after a week, and on disk.
WeekOf(key) == IF key = Posterior THEN Weeks ELSE key

PublishedInv ==
  \A key \in Keys : manifests[key] # Nothing =>
    /\ stage # "any"
    /\ metadata[key] = manifests[key].metadata /\ metadata[key].week = WeekOf(key)
    /\ \A s \in Slots : /\ files[<<key, s>>] = manifests[key].particles[s]
                        /\ files[<<key, s>>].state = Reference[WeekOf(key)][s]

\* A run is past what is published, and before what it will publish.
FrontInv ==
  /\ stage \in {"training", "assimilating"} =>
       \A key \in 1..Weeks : manifests[key] # Nothing => key <= week
  /\ stage \in {"saving", "publishing"} =>
       week >= 1 /\ \A key \in 1..Weeks : manifests[key] # Nothing => key < week
  /\ stage \in Training => manifests[Posterior] = Nothing
  /\ stage = "assimilating" => week < Weeks
  /\ stage \in {"publishing posterior", "summarizing", "forecasting", "consuming"} =>
       week = Weeks

\* What the pool holds, or will when the call is over.
Coming(at) == \A s \in Slots : Gets(s) = Reference[at][s]

Written(key) ==
  /\ metadata[key] = [week |-> week, era |-> era]
  /\ Calling => call.op = "persist" /\ call.arg = key
  /\ ~Calling => /\ answer.got = [s \in Slots |-> FileOf(s)]
                 /\ \A s \in Slots : files[<<key, s>>] = FileOf(s)

FilterInv ==
  /\ stage \in {"training", "saving"} =>
       Coming(week) /\ call.op \in {"none", "resample_balanced"}
  /\ stage = "assimilating" =>
       /\ call.op \in {"none", "propagate"}
       /\ \A s \in Slots : Gets(s) = Store!Advanced(Reference[week][s], week + 1)
  /\ stage = "publishing" => Coming(week) /\ Written(week)
  /\ stage = "publishing posterior" => Coming(Weeks) /\ Written(Posterior)
  /\ stage \in {"summarizing", "forecasting", "consuming"} => Coming(Weeks)
  /\ stage = "summarizing" => call.op = "none"
  /\ stage = "forecasting" => call.op \in {"none", "summarize"}

\* The batch asked for, or evaluated.
Trajectory(j) == Store!Forked(Reference[Weeks][picks[j]], j)

BatchSize == Least(2 * WorkerCount, MaxTrajectories - Len(forecast))

BatchInv ==
  stage = "consuming" =>
    /\ Calling =>
         /\ call.op = "evaluate_nonmutating"
         /\ call.arg = [j \in 1..BatchSize |-> [slot |-> picks[Len(forecast) + j],
                                                sample |-> Len(forecast) + j]]
    /\ ~Calling => answer.got = [j \in 1..BatchSize |-> Trajectory(Len(forecast) + j)]

ForecastInv ==
  /\ IsSeq(forecast) /\ Len(forecast) <= enough
  /\ \A j \in 1..Len(forecast) : forecast[j] = Trajectory(j)
  /\ stage \in Training \cup {"starting", "any", "summarizing"} => forecast = <<>>
  /\ stage \in {"forecasting", "consuming"} => Len(forecast) < enough
  /\ stage \in Ending /\ ~broken => Len(forecast) = enough

RunInv ==
  /\ StudyInv /\ PublishedInv /\ FrontInv /\ ForecastInv
  /\ ~broken => FilterInv /\ BatchInv

-----------------------------------------------------------------------------
(* Sequences.                                                              *)

LEMMA SeqIs ==
  ASSUME NEW q, IsSeq(q)
  PROVE  /\ Len(q) \in Nat /\ DOMAIN q = 1..Len(q) /\ q = [i \in 1..Len(q) |-> q[i]]
         /\ q = <<>> <=> Len(q) = 0
BY DEF IsSeq

LEMMA SequenceIs ==
  ASSUME NEW n \in Nat, NEW f, f = [i \in 1..n |-> f[i]]
  PROVE  IsSeq(f) /\ Len(f) = n
<1>1. \A i \in 1..n : f[i] \in Range(f)
  BY DEF Range
<1>2. f \in Seq(Range(f))
  BY <1>1
<1> QED
  BY <1>2 DEF IsSeq

LEMMA SeqEmpty == IsSeq(<<>>) /\ Len(<<>>) = 0 /\ DOMAIN <<>> = {}
BY DEF IsSeq

LEMMA SeqAppend ==
  ASSUME NEW q, IsSeq(q), NEW e
  PROVE  /\ IsSeq(Append(q, e)) /\ Len(Append(q, e)) = Len(q) + 1
         /\ Append(q, e)[Len(q) + 1] = e
         /\ \A i \in 1..Len(q) : Append(q, e)[i] = q[i]
<1> DEFINE S == Range(q) \cup {e}
           a == Append(q, e)
<1>1. q \in Seq(S)
  BY DEF IsSeq
<1>2. a \in Seq(S) /\ Len(a) = Len(q) + 1 /\ a[Len(q) + 1] = e
  BY <1>1
<1>3. \A i \in 1..Len(q) : a[i] = q[i]
  BY <1>1
<1>4. Len(a) \in Nat /\ a = [i \in 1..Len(a) |-> a[i]]
  <2> HIDE DEF a, S
  <2> QED BY <1>2
<1>5. IsSeq(a)
  <2> HIDE DEF a
  <2> QED BY <1>4, SequenceIs
<1> QED
  BY <1>2, <1>3, <1>5

LEMMA SeqTail ==
  ASSUME NEW q, IsSeq(q), q # <<>>
  PROVE  /\ IsSeq(Tail(q)) /\ Len(Tail(q)) = Len(q) - 1 /\ Len(q) >= 1
         /\ Head(q) = q[1]
         /\ \A i \in 1..Len(q) - 1 : Tail(q)[i] = q[i + 1]
<1> DEFINE S == Range(q)
           a == Tail(q)
<1>1. q \in Seq(S)
  BY DEF IsSeq
<1>2. a \in Seq(S) /\ Len(a) = Len(q) - 1 /\ Len(q) >= 1 /\ Head(q) = q[1]
  BY <1>1
<1>3. \A i \in 1..Len(q) - 1 : a[i] = q[i + 1]
  BY <1>1
<1>4. Len(a) \in Nat /\ a = [i \in 1..Len(a) |-> a[i]]
  <2> HIDE DEF a, S
  <2> QED BY <1>2
<1>5. IsSeq(a)
  <2> HIDE DEF a
  <2> QED BY <1>4, SequenceIs
<1> QED
  BY <1>2, <1>3, <1>5

\* One message: taken, nothing is left.
LEMMA OneMessage ==
  ASSUME NEW e
  PROVE  /\ Head(<<e>>) = e /\ Tail(<<e>>) = <<>> /\ <<e>> # <<>>
         /\ Append(<<>>, e) = <<e>> /\ IsSeq(<<e>>) /\ Len(<<e>>) = 1
<1>1. <<e>> = [i \in 1..1 |-> <<e>>[i]]
  OBVIOUS
<1>2. IsSeq(<<e>>) /\ Len(<<e>>) = 1
  BY <1>1, SequenceIs
<1>3. Head(<<e>>) = e /\ <<e>> # <<>> /\ Append(<<>>, e) = <<e>>
  OBVIOUS
<1>4. Tail(<<e>>) = <<>>
  <2> DEFINE q == <<e>>
  <2>1. IsSeq(q) /\ Len(q) = 1 /\ q # <<>>
    BY <1>2, <1>3
  <2> HIDE DEF q
  <2>2. IsSeq(Tail(q)) /\ Len(Tail(q)) = 0
    BY <2>1, SeqTail
  <2>3. Tail(q) = <<>>
    BY <2>2, SeqIs
  <2> QED BY <2>3 DEF q
<1> QED
  BY <1>2, <1>3, <1>4

-----------------------------------------------------------------------------
(* What a call is to do changes only with the call.                        *)

Same == /\ call'.op = call.op /\ call'.arg = call.arg
        /\ assignment' = assignment /\ content' = content /\ era' = era

LEMMA SameLayout ==
  ASSUME Same, NEW u
  PROVE  /\ Calling' = Calling /\ Balancing' = Balancing
         /\ Owned(u)' = Owned(u) /\ Children(u, call.arg)' = Children(u, call.arg)
<1> USE DEF Same
<1>1. Calling' = Calling /\ Balancing' = Balancing
  BY DEF Calling, Balancing
<1>2. Owned(u)' = Owned(u)
  BY DEF Owned
<1>3. Children(u, call.arg)' = Children(u, call.arg)
  BY DEF Children
<1> QED
  BY <1>1, <1>2, <1>3

LEMMA SameTarget ==
  ASSUME Same, NEW c
  PROVE  Target(c, call.arg)' = Target(c, call.arg)
BY DEF Same, Target, Stays, Room, Children, Capacity, Slots, Workers, WorkerCount

LEMMA SameGoal ==
  ASSUME Same, NEW u
  PROVE  /\ Share(u)' = Share(u) /\ Kept(u)' = Kept(u)
         /\ Before(u)' = Before(u) /\ After(u)' = After(u)
         /\ \A s : Gets(s)' = Gets(s) /\ FileOf(s)' = FileOf(s)
<1>1. Share(u)' = Share(u)
  BY SameTarget DEF Same, Share, Reassigned
<1>2. Kept(u)' = Kept(u)
  BY SameTarget, SameLayout DEF Kept
<1>3. ASSUME NEW s PROVE Gets(s)' = Gets(s) /\ FileOf(s)' = FileOf(s)
  BY DEF Same, Gets, FileOf, Store!Advanced, Store!Forked
<1>4. Before(u)' = Before(u)
  BY SameLayout DEF Same, Before
<1>5. After(u)' = After(u)
  BY <1>1, <1>3 DEF After
<1> QED
  BY <1>1, <1>2, <1>3, <1>4, <1>5

LEMMA SameWords ==
  ASSUME Same, NEW u
  PROVE  AskedOf(u)' = AskedOf(u) /\ ReplyOf(u)' = ReplyOf(u)
<1>1. JobsOf(call.arg)' = JobsOf(call.arg)
  BY DEF Same, JobsOf
<1>2. ChildrenOf(call.arg)' = ChildrenOf(call.arg)
  BY DEF Same, ChildrenOf, Children
<1>3. PlansOf(call.arg)' = PlansOf(call.arg)
  BY SameTarget DEF Same, PlansOf, Children
<1>4. PayloadOf(call.op, call.arg)' = PayloadOf(call.op, call.arg)
  BY <1>1, <1>2, <1>3 DEF Same, PayloadOf, ForAll
<1>5. AskedOf(u)' = AskedOf(u)
  BY <1>4 DEF Same, AskedOf
<1>6. [s \in Owned(u) |-> FileOf(s)]' = [s \in Owned(u) |-> FileOf(s)]
  BY SameGoal, SameLayout
<1>7. [j \in DOMAIN JobsOf(call.arg)[u] |->
         Store!Forked(content[call.arg[j].slot], call.arg[j].sample)]'
      = [j \in DOMAIN JobsOf(call.arg)[u] |->
         Store!Forked(content[call.arg[j].slot], call.arg[j].sample)]
  BY <1>1 DEF Same, Store!Forked
<1>8. /\ Cardinality(Children(u, call.arg) \ Kept(u))'
           = Cardinality(Children(u, call.arg) \ Kept(u))
      /\ (Capacity(u) - Cardinality(Kept(u)))' = Capacity(u) - Cardinality(Kept(u))
  BY SameGoal, SameLayout DEF Capacity, WorkerCount
<1>9. ReplyOf(u)' = ReplyOf(u)
  BY <1>6, <1>7, <1>8, SameGoal DEF Same, ReplyOf
<1> QED
  BY <1>5, <1>9

-----------------------------------------------------------------------------
(* A worker that a step leaves alone is where it was in the call.          *)

Unmoved(u) ==
  /\ phase'[u] = phase[u] /\ results'[u] = results[u] /\ states'[u] = states[u]
  /\ imports'[u] = imports[u] /\ doing'[u] = doing[u]
  /\ commands'[u][Coordinator] = commands[u][Coordinator]

LEMMA StaysInCall ==
  ASSUME Same, NEW u, InCall(u), Unmoved(u),
         call'.next <= u <=> call.next <= u,
         ~(call.next <= u) => call'.got[u + 1] = call.got[u + 1],
         call.op = "persist" => \A s \in Owned(u) : files'[<<call.arg, s>>] = files[<<call.arg, s>>]
  PROVE  InCall(u)'
<1> USE DEF Unmoved
<1>1. CASE DeadOne(u)
  <2>1. DeadOne(u)'
    BY <1>1 DEF DeadOne
  <2> QED BY <2>1 DEF InCall
<1>2. CASE Ready(u)
  <2>1. AskedOf(u)' = AskedOf(u) /\ Before(u)' = Before(u) /\ Share(u)' = Share(u)
    BY SameGoal, SameWords
  <2>2. Calling' = Calling /\ Balancing' = Balancing
    BY SameLayout
  <2>3. \A c : Gets(c)' = Gets(c)
    BY SameGoal
  <2>4. (IF Calling THEN AskedOf(u) ELSE <<>>)' = (IF Calling THEN AskedOf(u) ELSE <<>>)
    BY <2>1, <2>2
  <2>5. Coordinator' = Coordinator
    BY DEF Coordinator, WorkerCount
  <2>6. Ready(u)'
    BY <1>2, <2>1, <2>2, <2>3, <2>4, <2>5 DEF Ready
  <2> QED BY <2>6 DEF InCall
<1>3. CASE Saving(u)
  <2>1. Owned(u)' = Owned(u) /\ Before(u)' = Before(u)
    BY SameGoal, SameLayout
  <2>2. \A s : FileOf(s)' = FileOf(s)
    BY SameGoal
  <2>3. /\ DOMAIN doing'[u].rows \subseteq Owned(u)
        /\ doing'[u].rows = [s \in DOMAIN doing'[u].rows |-> FileOf(s)']
        /\ \A s \in DOMAIN doing'[u].rows : files'[<<call'.arg, s>>] = FileOf(s)'
    BY <1>3, <2>2 DEF Saving, Same
  <2>4. Saving(u)'
    BY <1>3, <2>1, <2>3 DEF Saving, Same
  <2> QED BY <2>4 DEF InCall
<1>4. CASE Awaiting(u)
  <2>1. Share(u)' = Share(u) /\ Kept(u)' = Kept(u)
    BY SameGoal
  <2>2. Children(u, call.arg)' = Children(u, call.arg) /\ Balancing' = Balancing
    BY SameLayout
  <2>3. \A c : Gets(c)' = Gets(c)
    BY SameGoal
  <2>4. Capacity(u)' = Capacity(u)
    BY DEF Capacity, WorkerCount
  <2>5. Awaiting(u)'
    BY <1>4, <2>1, <2>2, <2>3, <2>4 DEF Awaiting
  <2> QED BY <2>5 DEF InCall
<1>5. CASE Finished(u)
  <2>1. After(u)' = After(u) /\ ReplyOf(u)' = ReplyOf(u) /\ Owned(u)' = Owned(u)
    BY SameGoal, SameWords, SameLayout
  <2>2. \A s : FileOf(s)' = FileOf(s)
    BY SameGoal
  <2>3. Calling' = Calling
    BY SameLayout
  <2>4. (IF call.next <= u THEN results[u] = <<[op |-> call.op, got |-> ReplyOf(u)]>>
         ELSE results[u] = <<>> /\ call.got[u + 1] = ReplyOf(u))'
    BY <1>5, <2>1 DEF Finished, Same
  <2>5. call'.op = "persist" => \A s \in Owned(u)' : files'[<<call'.arg, s>>] = FileOf(s)'
    BY <1>5, <2>1, <2>2 DEF Finished, Same
  <2>6. Finished(u)'
    BY <1>5, <2>1, <2>3, <2>4, <2>5 DEF Finished
  <2> QED BY <2>6 DEF InCall
<1> QED
  BY <1>1, <1>2, <1>3, <1>4, <1>5 DEF InCall

-----------------------------------------------------------------------------
(* A step of a worker touches its own part of the pool, and what it sends.  *)

LEMMA TookIs ==
  ASSUME Inboxes, NEW w \in Workers, NEW from \in Workers \cup {Coordinator},
         commands' = Took(w, from), commands[w][from] # <<>>
  PROVE  /\ Inboxes'
         /\ commands'[w][from] = Tail(commands[w][from])
         /\ \A v \in Workers, x \in Workers \cup {Coordinator} :
              v # w \/ x # from => commands'[v][x] = commands[v][x]
<1>1. /\ DOMAIN commands' = Workers
      /\ \A v \in Workers : DOMAIN commands'[v] = Workers \cup {Coordinator}
  BY DEF Took, Inboxes
<1>2. /\ commands'[w][from] = Tail(commands[w][from])
      /\ \A v \in Workers, x \in Workers \cup {Coordinator} :
              v # w \/ x # from => commands'[v][x] = commands[v][x]
  BY DEF Took, Inboxes
<1>3. ASSUME NEW v \in Workers PROVE IsSeq(commands'[v][Coordinator])
  <2>1. CASE v = w /\ from = Coordinator
    BY <1>2, <2>1, SeqTail DEF Inboxes
  <2>2. CASE ~(v = w /\ from = Coordinator)
    <3>1. commands'[v][Coordinator] = commands[v][Coordinator]
      BY <1>2, <2>2
    <3> QED BY <3>1 DEF Inboxes
  <2> QED BY <2>1, <2>2
<1>4. Workers' = Workers /\ Coordinator' = Coordinator
  BY DEF Workers, Coordinator, WorkerCount
<1>5. Inboxes'
  BY <1>1, <1>3, <1>4 DEF Inboxes
<1> QED
  BY <1>2, <1>5

Alone(w) ==
  /\ phase[w] # "ended"
  /\ UNCHANGED coordinatorVars
  /\ \A u \in Workers : u # w => Unmoved(u)

LEMMA TakesAlone ==
  ASSUME Inboxes, Rooms, NEW w \in Workers, NEW from \in Workers \cup {Coordinator},
         commands' = Took(w, from), commands[w][from] # <<>>, phase[w] # "ended",
         UNCHANGED coordinatorVars, DOMAIN files' = DOMAIN files,
         DOMAIN phase' = Workers, DOMAIN states' = Workers, DOMAIN doing' = Workers,
         DOMAIN imports' = Workers, DOMAIN results' = Workers,
         \A u \in Workers : u # w =>
           /\ phase'[u] = phase[u] /\ states'[u] = states[u] /\ doing'[u] = doing[u]
           /\ imports'[u] = imports[u] /\ results'[u] = results[u]
  PROVE  Alone(w) /\ Inboxes' /\ Rooms'
<1>1. /\ Inboxes'
      /\ \A v \in Workers : v # w => commands'[v][Coordinator] = commands[v][Coordinator]
  BY TookIs
<1>2. Workers' = Workers /\ Slots' = Slots
  BY DEF Workers, WorkerCount, Slots
<1>3. Rooms'
  BY <1>2 DEF Rooms
<1>4. Alone(w)
  BY <1>1 DEF Alone, Unmoved
<1> QED
  BY <1>1, <1>3, <1>4

LEMMA QuietAlone ==
  ASSUME Inboxes, Rooms, NEW w \in Workers,
         commands' = commands, phase[w] # "ended",
         UNCHANGED coordinatorVars, DOMAIN files' = DOMAIN files,
         DOMAIN phase' = Workers, DOMAIN states' = Workers, DOMAIN doing' = Workers,
         DOMAIN imports' = Workers, DOMAIN results' = Workers,
         \A u \in Workers : u # w =>
           /\ phase'[u] = phase[u] /\ states'[u] = states[u] /\ doing'[u] = doing[u]
           /\ imports'[u] = imports[u] /\ results'[u] = results[u]
  PROVE  Alone(w) /\ Inboxes' /\ Rooms'
<1>2. Workers' = Workers /\ Slots' = Slots /\ Coordinator' = Coordinator
  BY DEF Workers, WorkerCount, Slots, Coordinator
<1>3. Rooms' /\ Inboxes'
  BY <1>2 DEF Rooms, Inboxes
<1>4. Alone(w)
  BY DEF Alone, Unmoved
<1> QED
  BY <1>3, <1>4

\* A worker that resamples takes its command and sends children to the others.
LEMMA SendsBundles ==
  ASSUME Inboxes, NEW w \in Workers, ResampleBalanced(w)
  PROVE  /\ Inboxes'
         /\ commands'[w][Coordinator] = Tail(commands[w][Coordinator])
         /\ \A v \in Workers :
              /\ v # w => commands'[v][Coordinator] = commands[v][Coordinator]
              /\ \A x \in Workers : x # w \/ v = w => commands'[v][x] = commands[v][x]
              /\ v # w => commands'[v][w]
                            = commands[v][w] \o Bundles(w, v, Payload(w, Coordinator).plan)
<1> DEFINE T == Took(w, Coordinator)
           sent(v) == Bundles(w, v, Payload(w, Coordinator).plan)
<1>1. /\ commands' = [v \in Workers |->
                       [T[v] EXCEPT ![w] = IF v = w THEN @ ELSE @ \o sent(v)]]
      /\ commands[w][Coordinator] # <<>>
  BY DEF ResampleBalanced, Serving, Command
<1>2. /\ DOMAIN T = Workers
      /\ \A v \in Workers : DOMAIN T[v] = Workers \cup {Coordinator}
      /\ \A v \in Workers, x \in Workers \cup {Coordinator} :
           T[v][x] = IF v = w /\ x = Coordinator THEN Tail(commands[w][Coordinator])
                     ELSE commands[v][x]
  BY DEF Took, Inboxes
<1>3. Coordinator \notin Workers
  BY Sizes
<1> HIDE DEF T, sent
<1>4. /\ DOMAIN commands' = Workers
      /\ \A v \in Workers : DOMAIN commands'[v] = Workers \cup {Coordinator}
  BY <1>1, <1>2
<1>5. ASSUME NEW v \in Workers
      PROVE  /\ \A x \in Workers \cup {Coordinator} :
                   x # w \/ v = w => commands'[v][x] = T[v][x]
             /\ v # w => commands'[v][w] = T[v][w] \o sent(v)
  BY <1>1, <1>2
<1>6. commands'[w][Coordinator] = Tail(commands[w][Coordinator])
  BY <1>5, <1>2
<1>7. \A v \in Workers :
        /\ v # w => commands'[v][Coordinator] = commands[v][Coordinator]
        /\ \A x \in Workers : x # w \/ v = w => commands'[v][x] = commands[v][x]
        /\ v # w => commands'[v][w] = commands[v][w] \o sent(v)
  <2> TAKE v \in Workers
  <2>1. v # w => commands'[v][Coordinator] = commands[v][Coordinator]
    BY <1>5, <1>2, <1>3
  <2>2. \A x \in Workers : x # w \/ v = w => commands'[v][x] = commands[v][x]
    BY <1>5, <1>2, <1>3
  <2>3. T[v][w] = commands[v][w]
    BY <1>2, <1>3
  <2>4. v # w => commands'[v][w] = commands[v][w] \o sent(v)
    BY <1>5, <2>3
  <2> QED BY <2>1, <2>2, <2>4
<1>8. ASSUME NEW v \in Workers PROVE IsSeq(commands'[v][Coordinator])
  <2>1. CASE v = w
    BY <1>1, <1>6, <2>1, SeqTail DEF Inboxes
  <2>2. CASE v # w
    BY <1>7, <2>2 DEF Inboxes
  <2> QED BY <2>1, <2>2
<1>9. Workers' = Workers /\ Coordinator' = Coordinator
  BY DEF Workers, Coordinator, WorkerCount
<1>10. Inboxes'
  BY <1>4, <1>8, <1>9 DEF Inboxes
<1> QED
  BY <1>6, <1>7, <1>10 DEF sent

LEMMA WorkerAlone ==
  ASSUME Inboxes, Rooms, NEW w \in Workers, Worker(w)
  PROVE  Alone(w) /\ Inboxes' /\ Rooms'
<1> USE DEF Rooms
<1>1. CASE Load(w)
  BY <1>1, QuietAlone DEF Load
<1>2. CASE Raises(w)
  <2>1. PICK from \in Workers \cup {Coordinator} :
          \/ phase[w] \in {"loading", "persisting"} /\ UNCHANGED commands
          \/ /\ phase[w] \in {"serving", "importing"} /\ commands[w][from] # <<>>
             /\ commands' = Took(w, from)
    BY <1>2 DEF Raises
  <2>2. CASE UNCHANGED commands
    BY <1>2, <2>1, <2>2, QuietAlone DEF Raises, Ends, Put
  <2>3. CASE commands' = Took(w, from) /\ commands[w][from] # <<>>
    BY <1>2, <2>1, <2>3, TakesAlone DEF Raises, Ends, Put
  <2> QED BY <2>1, <2>2, <2>3
<1>3. CASE Refuses(w)
  BY <1>3, TakesAlone DEF Refuses, Ends, Put
<1>4. CASE Propagate(w)
  BY <1>4, TakesAlone DEF Propagate, Serving, Command, Put
<1>5. CASE Evaluate(w)
  BY <1>5, TakesAlone DEF Evaluate, Serving, Command, Put
<1>6. CASE Resample(w)
  BY <1>6, TakesAlone DEF Resample, Serving, Command, Put
<1>7. CASE ResampleBalanced(w)
  <2>1. Inboxes' /\ \A v \in Workers : v # w => commands'[v][Coordinator] = commands[v][Coordinator]
    BY <1>7, SendsBundles
  <2>2. /\ phase[w] # "ended" /\ UNCHANGED <<coordinatorVars, raises, files>>
        /\ imports' = [imports EXCEPT ![w] = <<>>]
    BY <1>7 DEF ResampleBalanced, Serving
  <2>3. PICK next, exported, expected, own : Settle(w, next, exported, expected, own)
    BY <1>7 DEF ResampleBalanced
  <2>4. /\ DOMAIN phase' = Workers /\ DOMAIN states' = Workers /\ DOMAIN doing' = Workers
        /\ DOMAIN results' = Workers
        /\ \A u \in Workers : u # w =>
             /\ phase'[u] = phase[u] /\ states'[u] = states[u] /\ doing'[u] = doing[u]
             /\ results'[u] = results[u]
    BY <2>3 DEF Settle, Put
  <2>5. Workers' = Workers /\ Slots' = Slots
    BY DEF Workers, WorkerCount, Slots
  <2>6. Rooms'
    BY <2>2, <2>4, <2>5
  <2> QED BY <2>1, <2>2, <2>4, <2>6 DEF Alone, Unmoved
<1>8. CASE Persist(w)
  BY <1>8, TakesAlone DEF Persist, Serving, Command, Put
<1>9. CASE PersistSlot(w)
  BY <1>9, QuietAlone DEF PersistSlot
<1>10. CASE Persisted(w)
  BY <1>10, QuietAlone DEF Persisted, Put
<1>11. CASE Shutdown(w)
  BY <1>11, TakesAlone DEF Shutdown, Serving, Command, Put
<1>12. ASSUME NEW name \in {"snapshot", "summarize", "metrics"}, Read(w, name)
       PROVE  Alone(w) /\ Inboxes' /\ Rooms'
  BY <1>12, TakesAlone DEF Read, Serving, Command, Put
<1>13. ASSUME NEW from \in Workers, Import(w, from)
       PROVE  Alone(w) /\ Inboxes' /\ Rooms'
  BY <1>13, TakesAlone DEF Import, Settle, Command, Put
<1> QED
  BY <1>1, <1>2, <1>3, <1>4, <1>5, <1>6, <1>7, <1>8, <1>9, <1>10, <1>11, <1>12, <1>13
     DEF Worker

-----------------------------------------------------------------------------
(* What a worker may yet write.                                            *)

LEMMA WorkerInbox ==
  ASSUME Inboxes, Rooms, NEW w \in Workers, Worker(w)
  PROVE  \/ commands'[w][Coordinator] = commands[w][Coordinator]
         \/ /\ commands[w][Coordinator] # <<>>
            /\ commands'[w][Coordinator] = Tail(commands[w][Coordinator])
<1> DEFINE Goal == \/ commands'[w][Coordinator] = commands[w][Coordinator]
                   \/ /\ commands[w][Coordinator] # <<>>
                      /\ commands'[w][Coordinator] = Tail(commands[w][Coordinator])
<1>1. ASSUME NEW from \in Workers \cup {Coordinator}, commands' = Took(w, from),
             commands[w][from] # <<>>
      PROVE  Goal
  BY <1>1, TookIs
<1> SUFFICES Goal
  OBVIOUS
<1> HIDE DEF Goal
<1>2. commands' = commands => Goal
  BY DEF Goal
<1>3. CASE \/ Propagate(w) \/ Evaluate(w) \/ Resample(w) \/ Persist(w) \/ Shutdown(w)
           \/ \E name \in {"snapshot", "summarize", "metrics"} : Read(w, name)
  <2>1. commands' = Took(w, Coordinator) /\ commands[w][Coordinator] # <<>>
    BY <1>3 DEF Propagate, Evaluate, Resample, Persist, Shutdown, Read, Serving, Command
  <2> QED BY <2>1, <1>1
<1>4. CASE Load(w) \/ PersistSlot(w) \/ Persisted(w)
  BY <1>4, <1>2 DEF Load, PersistSlot, Persisted
<1>5. CASE Raises(w)
  BY <1>5, <1>1, <1>2 DEF Raises
<1>6. CASE Refuses(w)
  BY <1>6, <1>1 DEF Refuses
<1>7. CASE ResampleBalanced(w)
  BY <1>7, SendsBundles DEF ResampleBalanced, Serving, Command, Goal
<1>8. CASE \E from \in Workers : Import(w, from)
  BY <1>8, <1>1 DEF Import, Command
<1> QED
  BY <1>3, <1>4, <1>5, <1>6, <1>7, <1>8 DEF Worker

LEMMA WorkerSaves ==
  ASSUME Inboxes, Rooms, NEW w \in Workers, Worker(w), phase'[w] = "persisting",
         phase[w] = "persisting" => doing[w] = [key |-> doing[w].key, rows |-> doing[w].rows]
  PROVE  /\ doing'[w] = [key |-> doing'[w].key, rows |-> doing'[w].rows]
         /\ \/ /\ phase[w] = "persisting" /\ doing'[w].key = doing[w].key
            \/ /\ Command(w, Coordinator, "persist") /\ doing'[w].key = Payload(w, Coordinator)
<1> USE DEF Rooms
<1>1. CASE Persist(w)
  BY <1>1 DEF Persist, Serving
<1>2. CASE PersistSlot(w)
  BY <1>2 DEF PersistSlot
<1>3. CASE \/ Propagate(w) \/ Evaluate(w) \/ Resample(w) \/ Shutdown(w)
           \/ \E name \in {"snapshot", "summarize", "metrics"} : Read(w, name)
  BY <1>3 DEF Propagate, Evaluate, Resample, Shutdown, Read, Serving
<1>4. CASE Load(w) \/ Persisted(w) \/ Raises(w) \/ Refuses(w)
  BY <1>4 DEF Load, Persisted, Raises, Refuses, Ends
<1>5. CASE ResampleBalanced(w)
  BY <1>5 DEF ResampleBalanced, Settle, Serving
<1>6. CASE \E from \in Workers : Import(w, from)
  BY <1>6 DEF Import, Settle
<1> QED
  BY <1>1, <1>2, <1>3, <1>4, <1>5, <1>6 DEF Worker

LEMMA WorkerPersists ==
  ASSUME Inboxes, Rooms, PersistInv, NEW w \in Workers, Worker(w), manifests' = manifests
  PROVE  PersistInv'
<1>1. Alone(w) /\ Inboxes'
  BY WorkerAlone
<1>2. Workers' = Workers /\ Coordinator' = Coordinator /\ \A key : Unwritten(key)' = Unwritten(key)
  BY DEF Workers, Coordinator, WorkerCount, Unwritten
<1> SUFFICES ASSUME NEW u \in Workers, phase'[u] # "ended"
    PROVE  /\ \A i \in DOMAIN commands'[u][Coordinator] :
                commands'[u][Coordinator][i].op = "persist" =>
                  Unwritten(commands'[u][Coordinator][i].arg)
           /\ phase'[u] = "persisting" =>
                /\ doing'[u] = [key |-> doing'[u].key, rows |-> doing'[u].rows]
                /\ Unwritten(doing'[u].key)
  BY <1>2 DEF PersistInv
<1>3. CASE u # w
  BY <1>1, <1>3 DEF Alone, Unmoved, PersistInv
<1>4. CASE u = w
  <2>1. phase[w] # "ended"
    BY <1>1 DEF Alone
  <2>2. /\ \A i \in DOMAIN commands[w][Coordinator] :
             commands[w][Coordinator][i].op = "persist" =>
               Unwritten(commands[w][Coordinator][i].arg)
        /\ phase[w] = "persisting" =>
             /\ doing[w] = [key |-> doing[w].key, rows |-> doing[w].rows]
             /\ Unwritten(doing[w].key)
    BY <2>1 DEF PersistInv
  <2> DEFINE q == commands[w][Coordinator]
             r == commands'[w][Coordinator]
  <2>3. r = q \/ (q # <<>> /\ r = Tail(q))
    BY WorkerInbox
  <2>4. IsSeq(q)
    BY DEF Inboxes
  <2>5. \A i \in DOMAIN r : r[i].op = "persist" => Unwritten(r[i].arg)
    <3> HIDE DEF q, r
    <3>1. CASE r = q
      BY <3>1, <2>2 DEF q
    <3>2. CASE q # <<>> /\ r = Tail(q)
      <4>1. /\ IsSeq(r) /\ Len(r) = Len(q) - 1
            /\ \A i \in 1..Len(q) - 1 : r[i] = q[i + 1]
        BY <3>2, <2>4, SeqTail
      <4>2. DOMAIN r = 1..Len(q) - 1 /\ DOMAIN q = 1..Len(q) /\ Len(q) \in Nat
        BY <4>1, <2>4, SeqIs
      <4>3. \A i \in 1..Len(q) : q[i].op = "persist" => Unwritten(q[i].arg)
        BY <4>2, <2>2 DEF q
      <4>4. ASSUME NEW i \in 1..Len(q) - 1
            PROVE  r[i].op = "persist" => Unwritten(r[i].arg)
        <5>1. i + 1 \in 1..Len(q) /\ r[i] = q[i + 1]
          BY <4>1, <4>2
        <5> QED BY <5>1, <4>3
      <4>5. DOMAIN r = 1..Len(q) - 1
        BY <4>1, SeqIs
      <4> QED BY <4>4, <4>5
    <3> QED BY <3>1, <3>2, <2>3
  <2>6. phase'[w] = "persisting" =>
          /\ doing'[w] = [key |-> doing'[w].key, rows |-> doing'[w].rows]
          /\ Unwritten(doing'[w].key)
    <3> SUFFICES ASSUME phase'[w] = "persisting"
        PROVE  /\ doing'[w] = [key |-> doing'[w].key, rows |-> doing'[w].rows]
               /\ Unwritten(doing'[w].key)
      OBVIOUS
    <3>1. CASE phase[w] = "persisting" /\ doing'[w].key = doing[w].key
      BY <3>1, <2>2, WorkerSaves
    <3>2. CASE Command(w, Coordinator, "persist") /\ doing'[w].key = Payload(w, Coordinator)
      <4>1. q # <<>> /\ Head(q).op = "persist" /\ doing'[w].key = Head(q).arg
        BY <3>2 DEF Command, Payload
      <4>2. Head(q) = q[1] /\ 1 \in DOMAIN q
        <5> HIDE DEF q
        <5> QED BY <4>1, <2>4, SeqTail, SeqIs
      <4> QED BY <4>1, <4>2, <2>2, WorkerSaves
    <3> QED BY <3>1, <3>2, <2>2, WorkerSaves
  <2> QED BY <2>5, <2>6, <1>4
<1> QED
  BY <1>3, <1>4

-----------------------------------------------------------------------------
(* A worker takes its command.                                             *)

LEMMA TakesCall ==
  ASSUME NEW w \in Workers, InCall(w), phase[w] # "ended",
         commands[w][Coordinator] # <<>>
  PROVE  /\ Ready(w) /\ Calling /\ call.next <= w /\ results[w] = <<>>
         /\ Head(commands[w][Coordinator]).op = call.op
         /\ Payload(w, Coordinator) = PayloadOf(call.op, call.arg)[w]
         /\ Tail(commands[w][Coordinator]) = <<>>
<1>1. Ready(w)
  BY DEF InCall, DeadOne, Saving, Awaiting, Finished
<1>2. Calling /\ commands[w][Coordinator] = AskedOf(w)
  BY <1>1 DEF Ready
<1> DEFINE e == [op |-> call.op, arg |-> PayloadOf(call.op, call.arg)[w]]
<1>3. commands[w][Coordinator] = <<e>>
  BY <1>2 DEF AskedOf
<1>4. Head(<<e>>) = e /\ Tail(<<e>>) = <<>>
  BY OneMessage
<1>5. e.op = call.op /\ e.arg = PayloadOf(call.op, call.arg)[w]
  OBVIOUS
<1> HIDE DEF e
<1> QED
  BY <1>1, <1>2, <1>3, <1>4, <1>5 DEF Payload, Ready

\* It is done: it holds what it is to hold, and has said so.
LEMMA Finishes ==
  ASSUME NEW w \in Workers, UNCHANGED coordinatorVars, Calling, call.next <= w,
         phase'[w] = "serving", results'[w] = <<[op |-> call.op, got |-> ReplyOf(w)]>>,
         commands'[w][Coordinator] = <<>>, imports'[w] = <<>>, states'[w] = After(w),
         call.op = "persist" =>
           \A s \in Owned(w) : files'[<<call.arg, s>>] = FileOf(s)
  PROVE  InCall(w)'
<1>1. Same /\ call' = call
  BY DEF Same, coordinatorVars
<1>2. After(w)' = After(w) /\ ReplyOf(w)' = ReplyOf(w) /\ Owned(w)' = Owned(w) /\ Calling' = Calling
  BY <1>1, SameGoal, SameWords, SameLayout
<1>3. \A s : FileOf(s)' = FileOf(s)
  BY <1>1, SameGoal
<1>4. Coordinator' = Coordinator
  BY DEF Coordinator, WorkerCount
<1>5. Finished(w)'
  BY <1>1, <1>2, <1>3, <1>4 DEF Finished
<1> QED
  BY <1>5 DEF InCall

\* A worker ends with an error.
LEMMA EndsDead ==
  ASSUME Rooms, NEW w \in Workers, UNCHANGED call, call.next <= w, results[w] = <<>>, Ends(w)
  PROVE  InCall(w)' /\ phase'[w] = "ended"
<1>1. phase'[w] = "ended" /\ results'[w] = Append(<<>>, [op |-> "error", got |-> <<>>])
  BY DEF Ends, Put, Rooms
<1>2. DeadOne(w)'
  BY <1>1, OneMessage DEF DeadOne
<1> QED
  BY <1>1, <1>2 DEF InCall

\* A live worker before it is done has not been heard.
LEMMA NotHeard ==
  ASSUME NEW w \in Workers, InCall(w), ~Finished(w)
  PROVE  call.next <= w
BY DEF InCall, DeadOne, Ready, Saving, Awaiting

Reassigns == call.op \in {"resample", "resample_balanced"}

LEMMA SharesKept ==
  ASSUME ~Reassigns, NEW w
  PROVE  /\ Share(w) = Owned(w)
         /\ After(w) = [s \in Owned(w) |-> Gets(s)]
<1>1. Share(w) = Owned(w)
  BY DEF Share, Owned, Reassigned, Reassigns
<1> QED
  BY <1>1 DEF After

\* What a worker has put, when it had put nothing.
LEMMA PutFirst ==
  ASSUME Rooms, NEW w \in Workers, NEW reply, Put(w, reply), results[w] = <<>>
  PROVE  results'[w] = <<reply>>
<1>1. results'[w] = Append(<<>>, reply)
  BY DEF Put, Rooms
<1> QED
  BY <1>1, OneMessage

\* The calls that need no exchange, each in one step.
LEMMA PropagateDone ==
  ASSUME Inboxes, Rooms, assignment \in [Slots -> Workers], NEW w \in Workers, InCall(w),
         Propagate(w)
  PROVE  InCall(w)'
<1>1. /\ commands[w][Coordinator] # <<>> /\ Head(commands[w][Coordinator]).op = "propagate"
      /\ phase[w] = "serving" /\ UNCHANGED <<coordinatorVars, files>>
      /\ commands' = Took(w, Coordinator)
      /\ UNCHANGED <<phase, doing, imports>>
  BY DEF Propagate, Serving, Command
<1>2. /\ Ready(w) /\ Calling /\ call.next <= w /\ results[w] = <<>>
      /\ call.op = "propagate" /\ Payload(w, Coordinator) = call.arg
      /\ Tail(commands[w][Coordinator]) = <<>>
  BY <1>1, TakesCall DEF PayloadOf, ForAll
<1>3. states[w] = Before(w) /\ imports[w] = <<>>
  BY <1>2 DEF Ready, Balancing
<1> DEFINE moved == [s \in DOMAIN states[w] |->
                       Store!Advanced(states[w][s], Payload(w, Coordinator))]
<1>4. moved = After(w)
  <2>1. DOMAIN states[w] = Owned(w) /\ \A s \in Owned(w) : states[w][s] = content[s]
    BY <1>3 DEF Before
  <2>2. \A s \in Owned(w) : Gets(s) = Store!Advanced(content[s], call.arg)
    BY <1>2 DEF Gets
  <2>3. After(w) = [s \in Owned(w) |-> Gets(s)]
    BY <1>2, SharesKept DEF Reassigns
  <2> QED BY <1>2, <2>1, <2>2, <2>3
<1>5. ReplyOf(w) = After(w)
  BY <1>2 DEF ReplyOf
<1>6. states'[w] = After(w) /\ results'[w] = <<[op |-> "propagate", got |-> After(w)]>>
  <2>1. states' = [states EXCEPT ![w] = moved] /\ Put(w, [op |-> "propagate", got |-> moved])
    BY DEF Propagate
  <2> HIDE DEF moved
  <2> QED BY <2>1, <1>4, <1>2, PutFirst DEF Rooms
<1>7. commands'[w][Coordinator] = <<>>
  BY <1>1, <1>2, TookIs
<1> QED
  BY <1>1, <1>2, <1>3, <1>5, <1>6, <1>7, Finishes

LEMMA EvaluateDone ==
  ASSUME Inboxes, Rooms, assignment \in [Slots -> Workers], NEW w \in Workers, InCall(w),
         CallInv, Evaluate(w)
  PROVE  InCall(w)'
<1>1. /\ commands[w][Coordinator] # <<>>
      /\ Head(commands[w][Coordinator]).op = "evaluate_nonmutating"
      /\ phase[w] = "serving" /\ UNCHANGED <<coordinatorVars, files>>
      /\ commands' = Took(w, Coordinator)
      /\ UNCHANGED <<states, phase, doing, imports>>
  BY DEF Evaluate, Serving, Command
<1>2. /\ Ready(w) /\ Calling /\ call.next <= w /\ results[w] = <<>>
      /\ call.op = "evaluate_nonmutating" /\ Payload(w, Coordinator) = JobsOf(call.arg)[w]
      /\ Tail(commands[w][Coordinator]) = <<>>
  BY <1>1, TakesCall DEF PayloadOf
<1>3. states[w] = Before(w) /\ imports[w] = <<>>
  BY <1>2 DEF Ready, Balancing
<1>4. states[w] = After(w)
  <2>1. \A s \in Owned(w) : Gets(s) = content[s]
    BY <1>2 DEF Gets
  <2>2. After(w) = [s \in Owned(w) |-> Gets(s)]
    BY <1>2, SharesKept DEF Reassigns
  <2> QED BY <1>3, <2>1, <2>2 DEF Before
<1> DEFINE jobs == Payload(w, Coordinator)
           got == [j \in DOMAIN jobs |-> Store!Forked(states[w][jobs[j].slot], jobs[j].sample)]
<1>5. got = ReplyOf(w)
  <2>1. jobs = JobsOf(call.arg)[w]
    BY <1>2
  <2>2. jobs = [j \in {i \in DOMAIN call.arg : assignment[call.arg[i].slot] = w} |-> call.arg[j]]
    BY <2>1 DEF JobsOf, Restrict
  <2>3. \A j \in DOMAIN call.arg : call.arg[j].slot \in Slots
    BY <1>2 DEF CallInv, Asked, Calling, NoCall
  <2>4. ASSUME NEW j \in DOMAIN jobs
        PROVE  /\ jobs[j] = call.arg[j]
               /\ states[w][jobs[j].slot] = content[call.arg[j].slot]
    <3>1. jobs[j] = call.arg[j] /\ j \in DOMAIN call.arg /\ assignment[call.arg[j].slot] = w
      BY <2>2
    <3>2. call.arg[j].slot \in Owned(w)
      BY <3>1, <2>3 DEF Owned
    <3> QED BY <3>1, <3>2, <1>3 DEF Before
  <2>5. ReplyOf(w) = [j \in DOMAIN jobs |->
                        Store!Forked(content[call.arg[j].slot], call.arg[j].sample)]
    BY <1>2 DEF ReplyOf
  <2> HIDE DEF jobs
  <2> QED BY <2>4, <2>5
<1>6. results'[w] = <<[op |-> call.op, got |-> ReplyOf(w)]>>
  <2>1. Put(w, [op |-> "evaluate_nonmutating", got |-> got])
    BY DEF Evaluate
  <2> HIDE DEF got
  <2> QED BY <2>1, <1>5, <1>2, PutFirst
<1>7. commands'[w][Coordinator] = <<>>
  BY <1>1, <1>2, TookIs
<1> QED
  BY <1>1, <1>2, <1>3, <1>4, <1>6, <1>7, Finishes

LEMMA ResampleDone ==
  ASSUME Inboxes, Rooms, assignment \in [Slots -> Workers], NEW w \in Workers, InCall(w),
         CallInv, Resample(w)
  PROVE  InCall(w)'
<1>1. /\ commands[w][Coordinator] # <<>> /\ Head(commands[w][Coordinator]).op = "resample"
      /\ phase[w] = "serving" /\ UNCHANGED <<coordinatorVars, files>>
      /\ commands' = Took(w, Coordinator)
      /\ UNCHANGED <<phase, doing, imports>>
  BY DEF Resample, Serving, Command
<1>2. /\ Ready(w) /\ Calling /\ call.next <= w /\ results[w] = <<>>
      /\ call.op = "resample" /\ Payload(w, Coordinator) = ChildrenOf(call.arg)[w]
      /\ Tail(commands[w][Coordinator]) = <<>>
  BY <1>1, TakesCall DEF PayloadOf
<1>3. states[w] = Before(w) /\ imports[w] = <<>>
  BY <1>2 DEF Ready, Balancing
<1>4. call.arg \in [Slots -> Slots]
  BY <1>2 DEF CallInv, Asked, Calling, NoCall
<1> DEFINE moved == Offspring(w, Payload(w, Coordinator))
<1>5. moved = After(w)
  <2>1. Payload(w, Coordinator) = [c \in Children(w, call.arg) |-> call.arg[c]]
    BY <1>2 DEF ChildrenOf, Restrict
  <2>2. Share(w) = Children(w, call.arg)
    BY <1>2 DEF Share, Reassigned, Children
  <2>3. ASSUME NEW c \in Children(w, call.arg)
        PROVE  Store!Forked(states[w][call.arg[c]], c) = Gets(c)
    <3>1. call.arg[c] \in Owned(w)
      BY <1>4 DEF Children, Owned
    <3>2. states[w][call.arg[c]] = content[call.arg[c]]
      BY <3>1, <1>3 DEF Before
    <3> QED BY <3>2, <1>2 DEF Gets
  <2>4. moved = [c \in Children(w, call.arg) |-> Store!Forked(states[w][call.arg[c]], c)]
    BY <2>1 DEF Offspring
  <2> QED BY <2>2, <2>3, <2>4 DEF After
<1>6. states'[w] = After(w) /\ results'[w] = <<[op |-> call.op, got |-> ReplyOf(w)]>>
  <2>1. states' = [states EXCEPT ![w] = moved] /\ Put(w, [op |-> "resample", got |-> <<>>])
    BY DEF Resample
  <2>2. ReplyOf(w) = <<>>
    BY <1>2 DEF ReplyOf
  <2> HIDE DEF moved
  <2> QED BY <2>1, <2>2, <1>5, <1>2, PutFirst DEF Rooms
<1>7. commands'[w][Coordinator] = <<>>
  BY <1>1, <1>2, TookIs
<1> QED
  BY <1>1, <1>2, <1>3, <1>6, <1>7, Finishes

LEMMA ReadDone ==
  ASSUME Inboxes, Rooms, assignment \in [Slots -> Workers], NEW w \in Workers, InCall(w),
         NEW name \in {"snapshot", "summarize", "metrics"}, Read(w, name)
  PROVE  InCall(w)'
<1>1. /\ commands[w][Coordinator] # <<>> /\ Head(commands[w][Coordinator]).op = name
      /\ phase[w] = "serving" /\ UNCHANGED <<coordinatorVars, files>>
      /\ commands' = Took(w, Coordinator)
      /\ UNCHANGED <<states, phase, doing, imports>>
  BY DEF Read, Serving, Command
<1>2. /\ Ready(w) /\ Calling /\ call.next <= w /\ results[w] = <<>>
      /\ call.op = name /\ Tail(commands[w][Coordinator]) = <<>>
  BY <1>1, TakesCall
<1>3. states[w] = Before(w) /\ imports[w] = <<>>
  BY <1>2 DEF Ready, Balancing
<1>4. states[w] = After(w)
  <2>1. \A s \in Owned(w) : Gets(s) = content[s]
    BY <1>2 DEF Gets
  <2>2. After(w) = [s \in Owned(w) |-> Gets(s)]
    BY <1>2, SharesKept DEF Reassigns
  <2> QED BY <1>3, <2>1, <2>2 DEF Before
<1>5. ReplyOf(w) = IF name = "metrics" THEN <<>> ELSE states[w]
  BY <1>2, <1>4 DEF ReplyOf
<1>6. results'[w] = <<[op |-> call.op, got |-> ReplyOf(w)]>>
  <2>1. Put(w, [op |-> name, got |-> IF name = "metrics" THEN <<>> ELSE states[w]])
    BY DEF Read
  <2> QED BY <2>1, <1>5, <1>2, PutFirst
<1>7. commands'[w][Coordinator] = <<>>
  BY <1>1, <1>2, TookIs
<1> QED
  BY <1>1, <1>2, <1>3, <1>4, <1>6, <1>7, Finishes

LEMMA ReadyAgain ==
  ASSUME Same, NEW w, Ready(w), call'.next <= w, phase'[w] \in {"serving", "loading"},
         results'[w] = <<>>, commands'[w][Coordinator] = commands[w][Coordinator],
         states'[w] = states[w],
         IF Balancing
         THEN /\ DOMAIN imports'[w] \subseteq Share(w)
              /\ \A c \in DOMAIN imports'[w] : imports'[w][c] = Gets(c)
         ELSE imports'[w] = <<>>
  PROVE  InCall(w)'
<1>1. AskedOf(w)' = AskedOf(w) /\ Before(w)' = Before(w) /\ Share(w)' = Share(w)
  BY SameGoal, SameWords
<1>2. Calling' = Calling /\ Balancing' = Balancing /\ \A c : Gets(c)' = Gets(c)
  BY SameLayout, SameGoal
<1>3. (IF Calling THEN AskedOf(w) ELSE <<>>)' = (IF Calling THEN AskedOf(w) ELSE <<>>)
  BY <1>1, <1>2
<1>4. Coordinator' = Coordinator
  BY DEF Coordinator, WorkerCount
<1>5. commands'[w][Coordinator] = (IF Calling THEN AskedOf(w) ELSE <<>>)'
  BY <1>3 DEF Ready
<1>6. (IF Balancing
       THEN /\ DOMAIN imports[w] \subseteq Share(w)
            /\ \A c \in DOMAIN imports[w] : imports[w][c] = Gets(c)
       ELSE imports[w] = <<>>)'
  BY <1>1, <1>2
<1>7. Ready(w)'
  BY <1>1, <1>4, <1>5, <1>6 DEF Ready
<1> QED
  BY <1>7 DEF InCall

LEMMA LoadDone ==
  ASSUME Rooms, NEW w \in Workers, InCall(w), Load(w)
  PROVE  InCall(w)' /\ Ready(w)
<1>1. Ready(w)
  BY DEF InCall, DeadOne, Saving, Awaiting, Finished, Load
<1>2. Same /\ phase'[w] = "serving" /\ call' = call
  BY DEF Same, Load, coordinatorVars, Rooms
<1>3. /\ results'[w] = <<>> /\ commands'[w][Coordinator] = commands[w][Coordinator]
      /\ states'[w] = states[w] /\ imports'[w] = imports[w] /\ call'.next <= w
  BY <1>1, <1>2 DEF Load, Ready
<1>4. IF Balancing
      THEN /\ DOMAIN imports'[w] \subseteq Share(w)
           /\ \A c \in DOMAIN imports'[w] : imports'[w][c] = Gets(c)
      ELSE imports'[w] = <<>>
  BY <1>1, <1>3 DEF Ready
<1> QED
  BY <1>1, <1>2, <1>3, <1>4, ReadyAgain

LEMMA PersistBegun ==
  ASSUME Inboxes, Rooms, NEW w \in Workers, InCall(w), Persist(w)
  PROVE  InCall(w)'
<1>1. /\ commands[w][Coordinator] # <<>> /\ Head(commands[w][Coordinator]).op = "persist"
      /\ phase[w] = "serving" /\ UNCHANGED <<coordinatorVars, files>>
      /\ commands' = Took(w, Coordinator)
      /\ UNCHANGED <<states, imports, results>>
      /\ phase'[w] = "persisting"
      /\ doing'[w] = [key |-> Payload(w, Coordinator), rows |-> <<>>]
  BY DEF Persist, Serving, Command, Rooms
<1>2. /\ Ready(w) /\ Calling /\ call.next <= w /\ results[w] = <<>>
      /\ call.op = "persist" /\ Payload(w, Coordinator) = call.arg
      /\ Tail(commands[w][Coordinator]) = <<>>
  BY <1>1, TakesCall DEF PayloadOf, ForAll
<1>3. states[w] = Before(w) /\ imports[w] = <<>>
  BY <1>2 DEF Ready, Balancing
<1>4. Same /\ call' = call
  BY <1>1 DEF Same, coordinatorVars
<1>5. Before(w)' = Before(w)
  BY <1>4, SameGoal
<1>6. commands'[w][Coordinator] = <<>> /\ Coordinator' = Coordinator
  BY <1>1, <1>2, TookIs DEF Coordinator, WorkerCount
<1>7. /\ DOMAIN doing'[w].rows = {}
      /\ doing'[w].rows = [s \in DOMAIN doing'[w].rows |-> FileOf(s)']
      /\ doing'[w] = [key |-> call.arg, rows |-> doing'[w].rows]
  BY <1>1, <1>2
<1>8. Saving(w)'
  BY <1>1, <1>2, <1>3, <1>4, <1>5, <1>6, <1>7 DEF Saving
<1> QED
  BY <1>8 DEF InCall

LEMMA MinIs ==
  ASSUME NEW S \in SUBSET Nat, S # {}
  PROVE  Min(S) \in S
BY LeastExists DEF Min

LEMMA IsSaving ==
  ASSUME NEW w \in Workers, InCall(w), phase[w] = "persisting"
  PROVE  Saving(w)
BY DEF InCall, DeadOne, Ready, Awaiting, Finished

LEMMA PersistWritten ==
  ASSUME Rooms, CallInv, NEW w \in Workers, InCall(w), PersistSlot(w)
  PROVE  /\ InCall(w)'
         /\ \A s \in Slots \ Owned(w) : files'[<<call.arg, s>>] = files[<<call.arg, s>>]
<1>1. Saving(w)
  BY IsSaving DEF PersistSlot
<1> DEFINE rows == doing[w].rows
           left == DOMAIN states[w] \ DOMAIN rows
           slot == Min(left)
           file == [state |-> states[w][slot], era |-> era]
<1>2. /\ left # {}
      /\ files' = [files EXCEPT ![<<doing[w].key, slot>>] = file]
      /\ doing' = [doing EXCEPT ![w].rows = Updated(@, [s \in {slot} |-> file])]
      /\ UNCHANGED <<states, phase, imports, commands, results, coordinatorVars>>
  BY DEF PersistSlot
<1>3. slot \in Owned(w) /\ slot \in Slots /\ slot \notin DOMAIN rows
  <2>1. left \subseteq Owned(w) /\ Owned(w) \subseteq Nat
    BY <1>1, Sizes DEF Saving, Before, Owned
  <2>2. slot \in left
    <3> HIDE DEF left
    <3> QED BY <1>2, <2>1, MinIs
  <2> QED BY <2>1, <2>2 DEF Owned
<1>4. file = FileOf(slot)
  BY <1>1, <1>3 DEF Saving, Before, FileOf
<1>5. call.op = "persist" /\ call.arg \in Keys /\ doing[w].key = call.arg
  <2>1. call.op = "persist" /\ doing[w] = [key |-> call.arg, rows |-> doing[w].rows]
    BY <1>1 DEF Saving
  <2> QED BY <2>1 DEF CallInv, Asked, NoCall
<1> HIDE DEF slot, file
<1>6. /\ files'[<<call.arg, slot>>] = FileOf(slot)
      /\ \A s \in Slots : s # slot => files'[<<call.arg, s>>] = files[<<call.arg, s>>]
  BY <1>2, <1>3, <1>4, <1>5 DEF Rooms
<1> DEFINE after == Updated(rows, [s \in {slot} |-> file])
<1>7. doing'[w] = [key |-> call.arg, rows |-> after]
  BY <1>1, <1>2 DEF Rooms, Saving
<1>8. DOMAIN after = DOMAIN rows \cup {slot}
  BY DEF Updated
<1>9. after = [s \in DOMAIN after |-> FileOf(s)]
  <2>1. \A s \in DOMAIN rows : rows[s] = FileOf(s)
    BY <1>1 DEF Saving
  <2>2. \A s \in DOMAIN after : after[s] = FileOf(s)
    BY <2>1, <1>4, <1>8 DEF Updated
  <2>3. after = [s \in DOMAIN after |-> after[s]]
    BY DEF Updated
  <2> HIDE DEF after
  <2> QED BY <2>2, <2>3
<1>10. \A s \in DOMAIN after : files'[<<call.arg, s>>] = FileOf(s)
  BY <1>1, <1>6, <1>8 DEF Saving, Owned
<1>11. DOMAIN after \subseteq Owned(w)
  BY <1>1, <1>3, <1>8 DEF Saving
<1> HIDE DEF after
<1>12. Same /\ call' = call
  BY <1>2 DEF Same, coordinatorVars
<1>13. Before(w)' = Before(w) /\ Owned(w)' = Owned(w) /\ \A s : FileOf(s)' = FileOf(s)
  BY <1>12, SameGoal, SameLayout
<1>14. Coordinator' = Coordinator
  BY DEF Coordinator, WorkerCount
<1>15. doing'[w].rows = after
  BY <1>7
<1>16. /\ doing'[w].rows = [s \in DOMAIN doing'[w].rows |-> FileOf(s)']
       /\ \A s \in DOMAIN doing'[w].rows : files'[<<call'.arg, s>>] = FileOf(s)'
       /\ DOMAIN doing'[w].rows \subseteq Owned(w)'
       /\ doing'[w] = [key |-> call'.arg, rows |-> doing'[w].rows]
  BY <1>7, <1>9, <1>10, <1>11, <1>12, <1>13, <1>15
<1>17. Saving(w)'
  BY <1>1, <1>2, <1>12, <1>13, <1>14, <1>16 DEF Saving
<1> QED
  BY <1>3, <1>6, <1>17 DEF InCall

LEMMA PersistDone ==
  ASSUME Rooms, assignment \in [Slots -> Workers], NEW w \in Workers, InCall(w), Persisted(w)
  PROVE  InCall(w)'
<1>1. Saving(w)
  BY IsSaving DEF Persisted
<1>2. /\ DOMAIN doing[w].rows = DOMAIN states[w]
      /\ Put(w, [op |-> "persist", got |-> doing[w].rows])
      /\ phase'[w] = "serving"
      /\ UNCHANGED <<states, imports, commands, coordinatorVars, files>>
  BY DEF Persisted, Rooms
<1>3. call.op = "persist" /\ Calling /\ results[w] = <<>> /\ call.next <= w
  BY <1>1 DEF Saving, Calling
<1>4. DOMAIN doing[w].rows = Owned(w)
  BY <1>1, <1>2 DEF Saving, Before
<1>5. doing[w].rows = ReplyOf(w)
  BY <1>1, <1>3, <1>4 DEF Saving, ReplyOf
<1>6. results'[w] = <<[op |-> call.op, got |-> ReplyOf(w)]>>
  BY <1>2, <1>3, <1>5, PutFirst
<1>7. states'[w] = After(w)
  <2>1. \A s \in Owned(w) : Gets(s) = content[s]
    BY <1>3 DEF Gets
  <2>2. After(w) = [s \in Owned(w) |-> Gets(s)]
    BY <1>3, SharesKept DEF Reassigns
  <2> QED BY <1>1, <1>2, <2>1, <2>2 DEF Before, Saving
<1>8. \A s \in Owned(w) : files'[<<call.arg, s>>] = FileOf(s)
  BY <1>1, <1>2, <1>4 DEF Saving
<1>9. commands'[w][Coordinator] = <<>> /\ imports'[w] = <<>>
  BY <1>1, <1>2 DEF Saving
<1> QED
  BY <1>2, <1>3, <1>6, <1>7, <1>8, <1>9, Finishes

-----------------------------------------------------------------------------
(* The exchange of children.                                               *)

LEMMA BalanceFacts ==
  ASSUME assignment \in [Slots -> Workers], CallInv, Balancing, NEW w \in Workers
  PROVE  /\ Plannable(call.arg) /\ call.arg \in [Slots -> Slots]
         /\ Share(w) \in SUBSET Slots /\ IsFiniteSet(Share(w))
         /\ Cardinality(Share(w)) = Capacity(w)
         /\ Share(w) = {s \in Slots : Target(s, call.arg) = w}
         /\ Kept(w) = Children(w, call.arg) \cap Share(w)
         /\ Children(w, call.arg) \in SUBSET Slots
<1>1. call.arg \in [Slots -> Slots]
  BY DEF CallInv, Asked, Balancing, NoCall
<1>2. Plannable(call.arg)
  BY <1>1 DEF Plannable
<1>3. Share(w) = {s \in Slots : Target(s, call.arg) = w}
  BY DEF Share, Reassigned, Balancing
<1>4. Share(w) = Kids(w, call.arg)
  BY <1>3 DEF Kids
<1>5. Kept(w) = Children(w, call.arg) \cap Share(w)
  BY <1>3 DEF Kept, Children
<1>6. Children(w, call.arg) \in SUBSET Slots
  BY DEF Children
<1> QED
  BY <1>1, <1>2, <1>3, <1>4, <1>5, <1>6, SharesAreEven

\* A part of a worker's share that is as large is the share.
LEMMA WholeShare ==
  ASSUME assignment \in [Slots -> Workers], CallInv, Balancing, NEW w \in Workers,
         NEW D \in SUBSET Share(w)
  PROVE  Cardinality(D) \in Nat /\ (Cardinality(D) >= Capacity(w) <=> D = Share(w))
<1>1. IsFiniteSet(Share(w)) /\ Cardinality(Share(w)) = Capacity(w)
  BY BalanceFacts
<1>2. Capacity(w) \in Nat
  BY CapacityTyped, Sizes
<1>3. IsFiniteSet(D) /\ Cardinality(D) \in Nat /\ Cardinality(D) <= Capacity(w)
  BY <1>1, FS_Subset, FS_CardinalityType
<1>4. Cardinality(D) = Capacity(w) => D = Share(w)
  BY <1>1, FS_Subset
<1> QED
  BY <1>1, <1>2, <1>3, <1>4

LEMMA Settles ==
  ASSUME Rooms, assignment \in [Slots -> Workers], CallInv, Balancing, NEW w \in Workers,
         UNCHANGED coordinatorVars, call.next <= w, results[w] = <<>>,
         commands'[w][Coordinator] = <<>>, imports'[w] = <<>>,
         NEW next, DOMAIN next \subseteq Share(w), next = [c \in DOMAIN next |-> Gets(c)],
         Settle(w, next, Cardinality(Children(w, call.arg) \ Kept(w)), Capacity(w),
                Cardinality(Kept(w)))
  PROVE  InCall(w)' /\ GotBy(w)' = DOMAIN next /\ phase'[w] # "ended"
<1>1. Same /\ call' = call
  BY DEF Same, coordinatorVars
<1>2. Calling /\ call.op = "resample_balanced"
  BY DEF Calling, Balancing
<1> DEFINE away == Cardinality(Children(w, call.arg) \ Kept(w))
           own == Cardinality(Kept(w))
           size == Cardinality(DOMAIN next)
<1>3. size \in Nat /\ (size >= Capacity(w) <=> DOMAIN next = Share(w))
  BY WholeShare
<1>4. Share(w)' = Share(w) /\ Coordinator' = Coordinator
  BY <1>1, SameGoal DEF Coordinator, WorkerCount
<1>5. CASE size >= Capacity(w)
  <2>1. /\ states' = [states EXCEPT ![w] = next]
        /\ phase' = [phase EXCEPT ![w] = "serving"]
        /\ Put(w, [op |-> "resample_balanced",
                   got |-> [exported |-> away, imported |-> size - own]])
    BY <1>5 DEF Settle
  <2>2. states'[w] = next /\ phase'[w] = "serving"
    BY <2>1 DEF Rooms
  <2>3. next = After(w)
    BY <1>3, <1>5 DEF After
  <2>4. size = Capacity(w)
    BY <1>3, <1>5, BalanceFacts
  <2>5. ReplyOf(w) = [exported |-> away, imported |-> size - own]
    BY <2>4, <1>2 DEF ReplyOf
  <2>6. results'[w] = <<[op |-> call.op, got |-> ReplyOf(w)]>>
    <3> HIDE DEF size, own, away
    <3> QED BY <2>1, <2>5, <1>2, PutFirst
  <2>7. InCall(w)'
    BY <1>2, <2>2, <2>3, <2>6, Finishes
  <2>8. GotBy(w)' = DOMAIN next
    BY <2>2, <1>3, <1>4, <1>5 DEF GotBy
  <2> QED BY <2>2, <2>7, <2>8
<1>6. CASE ~(size >= Capacity(w))
  <2>1. /\ phase' = [phase EXCEPT ![w] = "importing"]
        /\ doing' = [doing EXCEPT ![w] = [next |-> next, exported |-> away,
                                          expected |-> Capacity(w), own |-> own]]
        /\ UNCHANGED <<states, results>>
    BY <1>6 DEF Settle
  <2>2. /\ phase'[w] = "importing" /\ results'[w] = <<>>
        /\ doing'[w] = [next |-> next, exported |-> away,
                        expected |-> Capacity(w), own |-> own]
    BY <2>1 DEF Rooms
  <2>3. /\ Kept(w)' = Kept(w) /\ Children(w, call.arg)' = Children(w, call.arg)
        /\ Balancing' = Balancing /\ (\A c : Gets(c)' = Gets(c)) /\ Capacity(w)' = Capacity(w)
    BY <1>1, SameGoal, SameLayout DEF Capacity, WorkerCount
  <2>4. away' = away /\ own' = own
    BY <2>3
  <2> HIDE DEF away, own
  <2>5. doing'[w].next = next
    BY <2>2
  <2>6. [c \in DOMAIN next |-> Gets(c)'] = next
    BY <2>3
  <2>7. doing'[w] = [next |-> [c \in DOMAIN doing'[w].next |-> Gets(c)'],
                     exported |-> away', expected |-> Capacity(w)', own |-> own']
    BY <2>2, <2>3, <2>4, <2>5, <2>6
  <2>8. DOMAIN doing'[w].next \subseteq Share(w)'
    BY <2>5, <1>4
  <2>9. Awaiting(w)'
    BY <1>1, <1>4, <2>2, <2>3, <2>7, <2>8 DEF Awaiting, away, own
  <2>10. GotBy(w)' = DOMAIN next
    BY <2>2, <2>5 DEF GotBy
  <2> QED BY <2>2, <2>9, <2>10 DEF InCall
<1> QED
  BY <1>5, <1>6

LEMMA ResampleSettles ==
  ASSUME Inboxes, Rooms, assignment \in [Slots -> Workers], CallInv, NEW w \in Workers,
         InCall(w), ResampleBalanced(w)
  PROVE  /\ Balancing /\ Ready(w) /\ Payload(w, Coordinator) = PlansOf(call.arg)[w]
         /\ InCall(w)' /\ phase'[w] # "ended" /\ GotBy(w) = DOMAIN imports[w]
         /\ GotBy(w)' = GotBy(w) \cup Kept(w)
         /\ commands[w][Coordinator] # <<>> /\ commands'[w][Coordinator] = <<>>
<1>1. /\ commands[w][Coordinator] # <<>>
      /\ Head(commands[w][Coordinator]).op = "resample_balanced"
      /\ phase[w] = "serving" /\ UNCHANGED <<coordinatorVars, files>>
      /\ imports' = [imports EXCEPT ![w] = <<>>]
  BY DEF ResampleBalanced, Serving, Command
<1>2. /\ Ready(w) /\ Calling /\ call.next <= w /\ results[w] = <<>>
      /\ call.op = "resample_balanced" /\ Payload(w, Coordinator) = PlansOf(call.arg)[w]
      /\ Tail(commands[w][Coordinator]) = <<>>
  BY <1>1, TakesCall DEF PayloadOf
<1>3. Balancing
  BY <1>2 DEF Balancing
<1>4. /\ states[w] = Before(w) /\ DOMAIN imports[w] \subseteq Share(w)
      /\ \A c \in DOMAIN imports[w] : imports[w][c] = Gets(c)
  BY <1>2, <1>3 DEF Ready
<1>5. GotBy(w) = DOMAIN imports[w]
  BY <1>1 DEF GotBy
<1>6. commands'[w][Coordinator] = <<>> /\ imports'[w] = <<>>
  BY <1>1, <1>2, SendsBundles DEF Rooms
<1> DEFINE plan == Payload(w, Coordinator).plan
           own == {c \in DOMAIN plan : plan[c].target = w}
           kept == Offspring(w, [c \in own |-> plan[c].parent])
           next == Adopted(w, kept)
<1>7. /\ plan = [c \in Children(w, call.arg) |->
                   [parent |-> call.arg[c], target |-> Target(c, call.arg)]]
      /\ Payload(w, Coordinator).expected = Capacity(w)
  BY <1>2 DEF PlansOf
<1>8. /\ DOMAIN plan = Children(w, call.arg)
      /\ \A c \in Children(w, call.arg) : /\ plan[c].target = Target(c, call.arg)
                                          /\ plan[c].parent = call.arg[c]
  <2> HIDE DEF plan
  <2> QED BY <1>7
<1>9. own = Kept(w)
  <2> HIDE DEF plan
  <2> QED BY <1>8 DEF Kept
<1>10. /\ Settle(w, next, Cardinality(DOMAIN plan \ own), Payload(w, Coordinator).expected,
                 Cardinality(own))
  BY DEF ResampleBalanced
<1> HIDE DEF plan, own
<1>11. kept = [c \in Kept(w) |-> Gets(c)]
  <2>1. kept = [c \in Kept(w) |-> Store!Forked(states[w][plan[c].parent], c)]
    BY <1>9 DEF Offspring
  <2>2. ASSUME NEW c \in Kept(w)
        PROVE  Store!Forked(states[w][plan[c].parent], c) = Gets(c)
    <3>1. c \in Children(w, call.arg) /\ call.arg[c] \in Slots
      BY <1>3, BalanceFacts DEF Kept
    <3>2. plan[c].parent = call.arg[c] /\ call.arg[c] \in Owned(w)
      BY <1>8, <3>1 DEF Owned, Children
    <3>3. states[w][call.arg[c]] = content[call.arg[c]]
      BY <1>4, <3>2 DEF Before
    <3> QED BY <3>2, <3>3, <1>2 DEF Gets
  <2> QED BY <2>1, <2>2
<1> HIDE DEF kept
<1>12. next = Updated(imports[w], kept)
  BY DEF Adopted
<1> HIDE DEF next
<1>13. DOMAIN next = DOMAIN imports[w] \cup Kept(w)
  BY <1>11, <1>12 DEF Updated
<1>14. next = [c \in DOMAIN next |-> Gets(c)]
  <2>1. \A c \in DOMAIN next : next[c] = Gets(c)
    BY <1>4, <1>11, <1>12, <1>13 DEF Updated
  <2>2. next = [c \in DOMAIN next |-> next[c]]
    BY <1>12 DEF Updated
  <2> QED BY <2>1, <2>2
<1>15. DOMAIN next \subseteq Share(w)
  BY <1>3, <1>4, <1>13, BalanceFacts
<1>16. Settle(w, next, Cardinality(Children(w, call.arg) \ Kept(w)), Capacity(w),
              Cardinality(Kept(w)))
  BY <1>7, <1>8, <1>9, <1>10
<1>17. InCall(w)' /\ GotBy(w)' = DOMAIN next /\ phase'[w] # "ended"
  BY <1>1, <1>2, <1>3, <1>6, <1>14, <1>15, <1>16, Settles
<1> QED
  BY <1>1, <1>2, <1>3, <1>5, <1>6, <1>13, <1>17

\* A worker that has its share is owed nothing.
LEMMA OwedNothing ==
  ASSUME NEW w \in Workers, NEW v \in Workers, Between(w, v), Share(w) \subseteq GotBy(w)
  PROVE  commands[w][v] = <<>>
<1>1. \A i \in DOMAIN commands[w][v] : FALSE
  BY DEF Between, IsBundle
<1> DEFINE q == commands[w][v]
<1>2. DOMAIN q = {} /\ IsSeq(q)
  BY <1>1 DEF Between
<1> HIDE DEF q
<1>3. Len(q) \in Nat /\ 1..Len(q) = {}
  BY <1>2, SeqIs
<1>4. Len(q) = 0
  <2>1. 1 \in 1..Len(q) \/ Len(q) = 0
    BY <1>3
  <2> QED BY <2>1, <1>3
<1>5. q = <<>>
  BY <1>2, <1>4, SeqIs
<1> QED
  BY <1>5 DEF q

LEMMA Imports ==
  ASSUME Inboxes, Rooms, assignment \in [Slots -> Workers], CallInv,
         NEW w \in Workers, NEW from \in Workers, InCall(w), Import(w, from),
         Balancing, Between(w, from)
  PROVE  /\ commands[w][from] # <<>> /\ IsBundle(Head(commands[w][from]), w, from)
         /\ InCall(w)' /\ phase'[w] # "ended"
         /\ GotBy(w)' = GotBy(w) \cup Head(commands[w][from]).arg.children
         /\ commands'[w][Coordinator] = commands[w][Coordinator]
         /\ commands[from][Coordinator] = <<>> /\ from # w
<1> DEFINE q == commands[w][from]
           bundle == Payload(w, from)
           children == [c \in bundle.children |-> Store!Forked(bundle.state, c)]
           waits == doing[w]
<1>1. /\ phase[w] \in {"serving", "importing"} /\ q # <<>>
      /\ commands' = Took(w, from)
      /\ UNCHANGED <<coordinatorVars, files>>
      /\ \/ /\ phase[w] = "serving"
            /\ imports' = [imports EXCEPT ![w] = Updated(@, children)]
            /\ UNCHANGED <<states, phase, doing, results>>
         \/ /\ phase[w] = "importing" /\ UNCHANGED imports
            /\ Settle(w, Updated(waits.next, children), waits.exported, waits.expected,
                      waits.own)
  BY DEF Import, Command
<1>2. IsSeq(q) /\ IsBundle(Head(q), w, from)
  <2>1. IsSeq(q) /\ \A i \in DOMAIN q : IsBundle(q[i], w, from)
    BY DEF Between
  <2> HIDE DEF q
  <2> QED BY <1>1, <2>1, SeqTail, SeqIs
<1>3. bundle = Head(q).arg
  BY DEF Payload
<1>4. from # w /\ commands[from][Coordinator] = <<>>
  BY <1>1 DEF Between
<1> HIDE DEF bundle, q
<1>5. /\ bundle.children # {} /\ bundle.children \subseteq Children(from, call.arg)
      /\ bundle.children \subseteq Share(w) /\ bundle.children \cap GotBy(w) = {}
      /\ \A c \in bundle.children : bundle.state = content[call.arg[c]]
  BY <1>2, <1>3 DEF IsBundle
<1>6. children = [c \in bundle.children |-> Gets(c)]
  <2>1. \A c \in bundle.children : Store!Forked(bundle.state, c) = Gets(c)
    BY <1>5 DEF Gets, Balancing
  <2> QED BY <2>1
<1> HIDE DEF children
<1>7. from # Coordinator /\ Coordinator \in Workers \cup {Coordinator}
  BY Sizes
<1>8. commands'[w][Coordinator] = commands[w][Coordinator]
  BY <1>1, <1>7, TookIs DEF q
<1>9. Same /\ call' = call
  BY <1>1 DEF Same, coordinatorVars
<1>10. Share(w)' = Share(w) /\ Coordinator' = Coordinator
  BY <1>9, SameGoal DEF Coordinator, WorkerCount
<1>11. CASE phase[w] = "serving"
  <2>1. ~Finished(w)
    <3>1. Finished(w) => GotBy(w) = Share(w)
      BY <1>11 DEF Finished, GotBy
    <3> QED BY <3>1, <1>5
  <2>2. Ready(w)
    BY <2>1, <1>11 DEF InCall, DeadOne, Saving, Awaiting
  <2>3. /\ imports'[w] = Updated(imports[w], children)
        /\ UNCHANGED <<states, phase, doing, results>>
    BY <1>1, <1>11 DEF Rooms
  <2>4. DOMAIN imports'[w] = DOMAIN imports[w] \cup bundle.children
    BY <2>3, <1>6 DEF Updated
  <2>5. /\ DOMAIN imports'[w] \subseteq Share(w)
        /\ \A c \in DOMAIN imports'[w] : imports'[w][c] = Gets(c)
    <3>1. DOMAIN imports[w] \subseteq Share(w) /\ \A c \in DOMAIN imports[w] : imports[w][c] = Gets(c)
      BY <2>2 DEF Ready
    <3> QED BY <2>3, <2>4, <1>5, <1>6, <3>1 DEF Updated
  <2>6. InCall(w)'
    BY <1>8, <1>9, <1>11, <2>2, <2>3, <2>5, ReadyAgain DEF Ready
  <2>7. commands[w][Coordinator] # <<>>
    <3>1. Calling
      BY DEF Balancing, Calling
    <3> QED BY <2>2, <3>1, OneMessage DEF Ready, AskedOf
  <2>8. GotBy(w) = DOMAIN imports[w] /\ GotBy(w)' = DOMAIN imports'[w]
    BY <1>8, <1>10, <1>11, <2>3, <2>7 DEF GotBy
  <2> QED BY <1>1, <1>2, <1>3, <1>4, <1>8, <1>11, <2>3, <2>4, <2>6, <2>8 DEF q
<1>12. CASE phase[w] = "importing"
  <2>1. Awaiting(w)
    BY <1>12 DEF InCall, DeadOne, Ready, Saving, Finished
  <2> DEFINE next == Updated(waits.next, children)
             away == Cardinality(Children(w, call.arg) \ Kept(w))
             own == Cardinality(Kept(w))
  <2>2. /\ waits = [next |-> [c \in DOMAIN waits.next |-> Gets(c)],
                    exported |-> away, expected |-> Capacity(w), own |-> own]
        /\ DOMAIN waits.next \subseteq Share(w)
        /\ call.next <= w /\ results[w] = <<>> /\ commands[w][Coordinator] = <<>>
        /\ imports[w] = <<>>
    BY <2>1 DEF Awaiting
  <2> HIDE DEF away, own
  <2>3. /\ waits.next = [c \in DOMAIN waits.next |-> Gets(c)]
        /\ waits.exported = away /\ waits.expected = Capacity(w) /\ waits.own = own
    BY <2>2
  <2>4. Settle(w, next, away, Capacity(w), own) /\ imports' = imports
    BY <1>1, <1>12, <2>3
  <2>5. DOMAIN next = DOMAIN waits.next \cup bundle.children
    BY <1>6 DEF Updated
  <2>6. next = [c \in DOMAIN next |-> Gets(c)]
    <3>1. \A c \in DOMAIN next : next[c] = Gets(c)
      BY <2>3, <2>5, <1>6 DEF Updated
    <3>2. next = [c \in DOMAIN next |-> next[c]]
      BY DEF Updated
    <3> QED BY <3>1, <3>2
  <2> HIDE DEF next
  <2>7. DOMAIN next \subseteq Share(w)
    BY <2>2, <2>5, <1>5
  <2>8. InCall(w)' /\ GotBy(w)' = DOMAIN next /\ phase'[w] # "ended"
    BY <1>1, <1>8, <2>2, <2>4, <2>6, <2>7, Settles DEF away, own
  <2>9. GotBy(w) = DOMAIN waits.next
    BY <1>12 DEF GotBy
  <2> QED BY <1>1, <1>2, <1>3, <1>4, <1>8, <2>5, <2>8, <2>9 DEF q
<1> QED
  BY <1>1, <1>11, <1>12

\* Children that a worker got from another, or had, are not what a third has for it.
LEMMA GrownTransit ==
  ASSUME Same, NEW w \in Workers, NEW v \in Workers, Between(w, v), NEW D,
         GotBy(w)' = GotBy(w) \cup D, D \cap Children(v, call.arg) = {},
         commands'[w][v] = commands[w][v],
         commands'[v][Coordinator] \in {commands[v][Coordinator], <<>>}
  PROVE  Between(w, v)'
<1>1. /\ Share(w)' = Share(w) /\ Children(v, call.arg)' = Children(v, call.arg)
      /\ Coordinator' = Coordinator /\ call'.arg = call.arg /\ content' = content
  BY SameGoal, SameLayout DEF Same, Coordinator, WorkerCount
<1>2. ASSUME NEW b, IsBundle(b, w, v) PROVE IsBundle(b, w, v)'
  BY <1>1, <1>2 DEF IsBundle
<1>3. IsSeq(commands'[w][v])
  BY DEF Between
<1>4. /\ \A i \in DOMAIN commands'[w][v] : IsBundle(commands[w][v][i], w, v)'
      /\ \A i, j \in DOMAIN commands'[w][v] :
           i # j => commands'[w][v][i].arg.children \cap commands'[w][v][j].arg.children = {}
  BY <1>2 DEF Between
<1>5. v = w \/ commands'[v][Coordinator] # <<>> => commands'[w][v] = <<>>
  BY DEF Between
<1>6. v # w /\ commands'[v][Coordinator] # <<>> => GotBy(w)' \cap Children(v, call.arg) = {}
  BY DEF Between
<1> QED
  BY <1>1, <1>3, <1>4, <1>5, <1>6 DEF Between, IsSeq, Range

LEMMA TailTransit ==
  ASSUME Same, NEW w \in Workers, NEW v \in Workers, Between(w, v),
         v # w, commands[v][Coordinator] = <<>>, commands'[v][Coordinator] = <<>>,
         commands[w][v] # <<>>, commands'[w][v] = Tail(commands[w][v]),
         GotBy(w)' = GotBy(w) \cup Head(commands[w][v]).arg.children
  PROVE  Between(w, v)'
<1> DEFINE q == commands[w][v]
           r == commands'[w][v]
<1>1. /\ Share(w)' = Share(w) /\ Children(v, call.arg)' = Children(v, call.arg)
      /\ Coordinator' = Coordinator /\ call'.arg = call.arg /\ content' = content
  BY SameGoal, SameLayout DEF Same, Coordinator, WorkerCount
<1>2. /\ IsSeq(q) /\ q # <<>> /\ r = Tail(q)
      /\ \A i \in DOMAIN q : IsBundle(q[i], w, v)
      /\ \A i, j \in DOMAIN q : i # j => q[i].arg.children \cap q[j].arg.children = {}
  BY DEF Between
<1>3. GotBy(w)' = GotBy(w) \cup Head(q).arg.children
  OBVIOUS
<1> HIDE DEF q, r
<1>4. /\ IsSeq(r) /\ DOMAIN r = 1..Len(q) - 1 /\ Head(q) = q[1]
      /\ \A i \in 1..Len(q) - 1 : r[i] = q[i + 1]
      /\ DOMAIN q = 1..Len(q) /\ Len(q) \in Nat /\ Len(q) >= 1
  BY <1>2, SeqTail, SeqIs
<1>5. ASSUME NEW i \in DOMAIN r
      PROVE  /\ i + 1 \in DOMAIN q /\ r[i] = q[i + 1]
             /\ r[i].arg.children \cap Head(q).arg.children = {}
  <2>1. i + 1 \in DOMAIN q /\ r[i] = q[i + 1] /\ 1 \in DOMAIN q /\ i + 1 # 1
    BY <1>4
  <2>2. q[i + 1].arg.children \cap q[1].arg.children = {}
    BY <1>2, <2>1
  <2> QED BY <1>4, <2>1, <2>2
<1>6. ASSUME NEW b, IsBundle(b, w, v), b.arg.children \cap Head(q).arg.children = {}
      PROVE  IsBundle(b, w, v)'
  BY <1>1, <1>3, <1>6 DEF IsBundle
<1>7. \A i \in DOMAIN r : /\ i + 1 \in DOMAIN q /\ r[i] = q[i + 1]
                          /\ IsBundle(q[i + 1], w, v)
                          /\ q[i + 1].arg.children \cap Head(q).arg.children = {}
  BY <1>2, <1>5
<1>8. \A b : (\E i \in DOMAIN r : b = r[i]) => IsBundle(b, w, v)'
  BY <1>6, <1>7
<1>9. \A i, j \in DOMAIN r : i # j => r[i].arg.children \cap r[j].arg.children = {}
  <2> SUFFICES ASSUME NEW i \in DOMAIN r, NEW j \in DOMAIN r, i # j
      PROVE  r[i].arg.children \cap r[j].arg.children = {}
    OBVIOUS
  <2>1. i + 1 # j + 1
    BY <1>4
  <2>2. q[i + 1].arg.children \cap q[j + 1].arg.children = {}
    BY <1>2, <1>7, <2>1
  <2> QED BY <1>7, <2>2
<1>10. /\ IsSeq(commands'[w][v])
       /\ \A i, j \in DOMAIN commands'[w][v] :
            i # j => commands'[w][v][i].arg.children \cap commands'[w][v][j].arg.children = {}
       /\ \A b : (\E i \in DOMAIN commands'[w][v] : b = commands'[w][v][i]) => IsBundle(b, w, v)'
  BY <1>4, <1>8, <1>9 DEF r
<1>11. \A i \in DOMAIN commands'[w][v] : IsBundle(commands[w][v][i], w, v)'
  BY <1>10
<1> QED
  BY <1>1, <1>10, <1>11 DEF Between, IsSeq, Range

\* What a worker sends another: its children for it, a bundle for each parent.
LEMMA BundlesAre ==
  ASSUME assignment \in [Slots -> Workers], CallInv, Balancing,
         NEW w \in Workers, NEW v \in Workers, states[w] = Before(w),
         GotBy(v) \cap Children(w, call.arg) = {}
  PROVE  LET q == Bundles(w, v, PlansOf(call.arg)[w].plan)
         IN  /\ IsSeq(q)
             /\ \A i \in DOMAIN q : IsBundle(q[i], v, w)
             /\ \A i, j \in DOMAIN q : i # j => q[i].arg.children \cap q[j].arg.children = {}
<1> DEFINE plan == PlansOf(call.arg)[w].plan
           parents == {plan[c].parent : c \in {d \in DOMAIN plan : plan[d].target = v}}
           n == Cardinality(parents)
           parent(i) == Ith(parents, i)
           kids(i) == {c \in DOMAIN plan : plan[c].parent = parent(i) /\ plan[c].target = v}
           q == Bundles(w, v, plan)
<1>1. plan = [c \in Children(w, call.arg) |->
                [parent |-> call.arg[c], target |-> Target(c, call.arg)]]
  BY DEF PlansOf
<1>2. /\ DOMAIN plan = Children(w, call.arg)
      /\ \A c \in Children(w, call.arg) : /\ plan[c].target = Target(c, call.arg)
                                          /\ plan[c].parent = call.arg[c]
  <2> HIDE DEF plan
  <2> QED BY <1>1
<1>3. q = [i \in 1..n |-> [op |-> "import_parent_bundle",
                           arg |-> [state |-> states[w][parent(i)], children |-> kids(i)]]]
  BY DEF Bundles
<1>4. call.arg \in [Slots -> Slots] /\ Children(w, call.arg) \in SUBSET Slots
  BY BalanceFacts
<1> HIDE DEF plan
<1>5. parents \in SUBSET Slots
  BY <1>2, <1>4
<1>6. parents \in SUBSET Int /\ IsFiniteSet(parents) /\ n \in Nat
  BY <1>5, SlotSet
<1>7. \A i \in 1..n : parent(i) \in parents /\ Place(parents, parent(i)) = i
  <2> HIDE DEF parents
  <2> QED BY <1>6, IthPlace
<1> HIDE DEF q
<1>8. IsSeq(q) /\ DOMAIN q = 1..n
  <2>1. DOMAIN q = 1..n /\ q = [i \in 1..n |-> q[i]]
    BY <1>3
  <2> HIDE DEF parents
  <2> QED BY <2>1, <1>6, SequenceIs
<1>9. \A i \in 1..n : /\ q[i].op = "import_parent_bundle"
                      /\ q[i].arg.state = states[w][parent(i)]
                      /\ q[i].arg.children = kids(i)
  <2> HIDE DEF parents, parent, kids
  <2> QED BY <1>3
<1>10. ASSUME NEW i \in 1..n PROVE IsBundle(q[i], v, w)
  <2>1. PICK d \in DOMAIN plan : plan[d].target = v /\ plan[d].parent = parent(i)
    BY <1>7
  <2>2. d \in kids(i)
    BY <2>1
  <2>3. kids(i) \subseteq Children(w, call.arg) \cap Share(v)
    <3>1. Share(v) = {s \in Slots : Target(s, call.arg) = v}
      BY BalanceFacts
    <3> QED BY <1>2, <1>4, <3>1
  <2>4. ASSUME NEW c \in kids(i) PROVE states[w][parent(i)] = content[call.arg[c]]
    <3>1. c \in Children(w, call.arg) /\ plan[c].parent = parent(i)
      BY <1>2
    <3>2. call.arg[c] = parent(i) /\ call.arg[c] \in Owned(w)
      BY <3>1, <1>2, <1>4 DEF Children, Owned
    <3> QED BY <3>2 DEF Before
  <2> HIDE DEF kids, parents, parent
  <2> QED BY <1>9, <2>2, <2>3, <2>4 DEF IsBundle
<1>11. ASSUME NEW i \in 1..n, NEW j \in 1..n, i # j
       PROVE  q[i].arg.children \cap q[j].arg.children = {}
  <2>1. parent(i) # parent(j)
    <3>1. Place(parents, parent(i)) = i /\ Place(parents, parent(j)) = j
      BY <1>7
    <3> HIDE DEF parents, parent
    <3> QED BY <3>1, <1>11
  <2>2. kids(i) \cap kids(j) = {}
    BY <2>1
  <2> HIDE DEF kids, parents
  <2> QED BY <1>9, <2>2
<1> QED
  <2>1. \A i \in DOMAIN q : IsBundle(q[i], v, w)
    BY <1>8, <1>10
  <2>2. \A i, j \in DOMAIN q : i # j => q[i].arg.children \cap q[j].arg.children = {}
    BY <1>8, <1>11
  <2> QED BY <1>8, <2>1, <2>2 DEF q, plan

LEMMA SentTransit ==
  ASSUME Same, assignment \in [Slots -> Workers], CallInv, Balancing,
         NEW w \in Workers, NEW v \in Workers, w # v, Between(v, w), states[w] = Before(w),
         commands[w][Coordinator] # <<>>, commands'[w][Coordinator] = <<>>,
         GotBy(v)' = GotBy(v),
         commands'[v][w] = commands[v][w] \o Bundles(w, v, PlansOf(call.arg)[w].plan)
  PROVE  Between(v, w)'
<1> DEFINE q == Bundles(w, v, PlansOf(call.arg)[w].plan)
<1>1. GotBy(v) \cap Children(w, call.arg) = {} /\ commands[v][w] = <<>>
  BY DEF Between
<1>2. /\ IsSeq(q)
      /\ \A i \in DOMAIN q : IsBundle(q[i], v, w)
      /\ \A i, j \in DOMAIN q : i # j => q[i].arg.children \cap q[j].arg.children = {}
  BY <1>1, BundlesAre
<1> HIDE DEF q
<1>3. commands'[v][w] = q
  <2>1. q \in Seq(Range(q))
    BY <1>2 DEF IsSeq
  <2>2. <<>> \o q = q
    BY <2>1
  <2> QED BY <1>1, <2>2 DEF q
<1>4. /\ Share(v)' = Share(v) /\ Children(w, call.arg)' = Children(w, call.arg)
      /\ Coordinator' = Coordinator /\ call'.arg = call.arg /\ content' = content
  BY SameGoal, SameLayout DEF Same, Coordinator, WorkerCount
<1>5. ASSUME NEW b, IsBundle(b, v, w) PROVE IsBundle(b, v, w)'
  BY <1>4, <1>5 DEF IsBundle
<1>6. \A i \in DOMAIN commands'[v][w] : IsBundle(commands[v][w][i], v, w)'
  <2>1. \A i \in DOMAIN q : IsBundle(q[i], v, w)
    BY <1>2
  <2>2. \A b : (\E i \in DOMAIN commands'[v][w] : b = commands'[v][w][i]) => IsBundle(b, v, w)'
    BY <1>3, <1>5, <2>1
  <2> QED BY <2>2
<1>7. /\ IsSeq(commands'[v][w])
      /\ \A i, j \in DOMAIN commands'[v][w] :
           i # j => commands'[v][w][i].arg.children \cap commands'[v][w][j].arg.children = {}
  BY <1>2, <1>3
<1> QED
  BY <1>4, <1>6, <1>7 DEF Between, IsSeq, Range

-----------------------------------------------------------------------------
(* Every step of a worker.                                                 *)

LEMMA OthersStay ==
  ASSUME Inboxes, Rooms, assignment \in [Slots -> Workers], CallInv, NEW w \in Workers,
         InCall(w), Worker(w), NEW u \in Workers, u # w, InCall(u)
  PROVE  InCall(u)' /\ Same /\ call' = call /\ phase'[u] = phase[u]
<1>1. Alone(w)
  BY WorkerAlone
<1>2. Same /\ call' = call /\ Unmoved(u)
  BY <1>1 DEF Alone, Same, coordinatorVars
<1>3. call.op = "persist" => \A s \in Owned(u) : files'[<<call.arg, s>>] = files[<<call.arg, s>>]
  <2>1. CASE PersistSlot(w)
    <3>1. \A s \in Slots \ Owned(w) : files'[<<call.arg, s>>] = files[<<call.arg, s>>]
      BY <2>1, PersistWritten
    <3>2. \A s \in Owned(u) : s \in Slots \ Owned(w)
      BY DEF Owned
    <3> QED BY <3>1, <3>2
  <2>2. CASE ~PersistSlot(w)
    <3>1. files' = files
      BY <2>2 DEF Worker, Load, Raises, Refuses, Ends, Propagate, Evaluate, Resample,
                  ResampleBalanced, Persist, Persisted, Shutdown, Read, Import, Serving
    <3> QED BY <3>1
  <2> QED BY <2>1, <2>2
<1> QED
  BY <1>2, <1>3, StaysInCall DEF Unmoved

\* In any call but a balanced resampling workers have nothing for each other.
LEMMA QuietStep ==
  ASSUME Inboxes, Rooms, assignment \in [Slots -> Workers], CallInv, ~closed,
         NEW w \in Workers, InCall(w), Worker(w), ~Balancing,
         \A v \in Workers : commands[w][v] = <<>>
  PROVE  /\ InCall(w)'
         /\ \A u, v \in Workers : commands'[u][v] = commands[u][v]
<1>1. ASSUME commands' = Took(w, Coordinator), commands[w][Coordinator] # <<>>
      PROVE  \A u, v \in Workers : commands'[u][v] = commands[u][v]
  BY <1>1, TookIs, Sizes
<1>2. CASE Propagate(w)
  BY <1>1, <1>2, PropagateDone DEF Propagate, Serving, Command
<1>3. CASE Evaluate(w)
  BY <1>1, <1>3, EvaluateDone DEF Evaluate, Serving, Command
<1>4. CASE Resample(w)
  BY <1>1, <1>4, ResampleDone DEF Resample, Serving, Command
<1>5. ASSUME NEW name \in {"snapshot", "summarize", "metrics"}, Read(w, name)
      PROVE  /\ InCall(w)' /\ \A u, v \in Workers : commands'[u][v] = commands[u][v]
  BY <1>1, <1>5, ReadDone DEF Read, Serving, Command
<1>6. CASE Persist(w)
  BY <1>1, <1>6, PersistBegun DEF Persist, Serving, Command
<1>7. CASE PersistSlot(w)
  BY <1>7, PersistWritten DEF PersistSlot
<1>8. CASE Persisted(w)
  BY <1>8, PersistDone DEF Persisted
<1>9. CASE Load(w)
  BY <1>9, LoadDone DEF Load
<1>10. CASE ResampleBalanced(w)
  BY <1>10, ResampleSettles
<1>11. CASE \E from \in Workers : Import(w, from)
  BY <1>11 DEF Import, Command
<1>12. CASE Shutdown(w)
  <2>1. commands[w][Coordinator] # <<>> /\ Head(commands[w][Coordinator]).op = "shutdown"
        /\ phase[w] # "ended"
    BY <1>12 DEF Shutdown, Serving, Command
  <2>2. call.op = "shutdown" /\ Calling
    BY <2>1, TakesCall
  <2> QED BY <2>2 DEF CallInv
<1>13. CASE Refuses(w)
  <2>1. Ready(w)
    BY <1>13, TakesCall DEF Refuses
  <2> QED BY <1>13, <2>1 DEF Refuses, Ready
<1>14. CASE Raises(w)
  <2>1. Ends(w)
    BY <1>14 DEF Raises
  <2>2. \A u, v \in Workers : commands'[u][v] = commands[u][v]
    BY <1>1, <1>14 DEF Raises
  <2>3. ~Finished(w) /\ ~DeadOne(w)
    BY <1>14 DEF Raises, Finished, DeadOne
  <2>4. call.next <= w /\ results[w] = <<>>
    BY <2>3 DEF InCall, Ready, Saving, Awaiting
  <2>5. UNCHANGED call
    BY <2>1 DEF Ends, coordinatorVars
  <2> QED BY <2>1, <2>2, <2>4, <2>5, EndsDead
<1> QED
  BY <1>2, <1>3, <1>4, <1>5, <1>6, <1>7, <1>8, <1>9, <1>10, <1>11, <1>12, <1>13, <1>14
     DEF Worker

\* In a balanced resampling a worker loads, raises, resamples or imports.
LEMMA BalancedActs ==
  ASSUME Inboxes, Rooms, CallInv, NEW w \in Workers, InCall(w), Worker(w), Balancing
  PROVE  \/ Load(w) \/ Raises(w) \/ ResampleBalanced(w)
         \/ \E from \in Workers : Import(w, from)
<1>1. ASSUME commands[w][Coordinator] # <<>>, phase[w] # "ended"
      PROVE  Head(commands[w][Coordinator]).op = "resample_balanced" /\ phase[w] # "importing"
  BY <1>1, TakesCall DEF Balancing, Ready
<1>2. phase[w] # "persisting"
  BY IsSaving DEF Saving, Balancing
<1>3. ~Refuses(w)
  BY <1>1 DEF Refuses
<1>4. ~PersistSlot(w) /\ ~Persisted(w)
  BY <1>2 DEF PersistSlot, Persisted
<1>5. \A name : Serving(w, name) => name = "resample_balanced"
  BY <1>1 DEF Serving, Command
<1>6. ~Propagate(w) /\ ~Evaluate(w) /\ ~Resample(w) /\ ~Persist(w) /\ ~Shutdown(w)
  BY <1>5 DEF Propagate, Evaluate, Resample, Persist, Shutdown
<1>7. \A name \in {"snapshot", "summarize", "metrics"} : ~Read(w, name)
  BY <1>5 DEF Read
<1> QED
  BY <1>3, <1>4, <1>6, <1>7 DEF Worker

LEMMA GotBySame ==
  ASSUME Same, NEW u, Unmoved(u)
  PROVE  GotBy(u)' = GotBy(u)
<1>1. Share(u)' = Share(u) /\ Coordinator' = Coordinator
  BY SameGoal DEF Coordinator, WorkerCount
<1> QED
  BY <1>1 DEF GotBy, Unmoved

LEMMA BalancedStep ==
  ASSUME Inboxes, Rooms, assignment \in [Slots -> Workers], CallInv,
         NEW w \in Workers, InCall(w), Worker(w), Balancing, InTransit
  PROVE  /\ InCall(w)'
         /\ \A u, v \in Workers : phase'[u] # "ended" => Between(u, v)'
<1>1. Alone(w)
  BY WorkerAlone
<1>2. Same /\ call' = call /\ phase[w] # "ended" /\ \A u \in Workers : u # w => Unmoved(u)
  BY <1>1 DEF Alone, Same, coordinatorVars
<1>3. \A u, v \in Workers : phase[u] # "ended" => Between(u, v)
  BY DEF InTransit
<1>4. \A u \in Workers : u # w => GotBy(u)' = GotBy(u) \cup {}
  BY <1>2, GotBySame
<1>5. /\ commands'[w][Coordinator] \in {commands[w][Coordinator], <<>>}
      /\ \A v \in Workers : v # w => commands'[v][Coordinator] \in {commands[v][Coordinator], <<>>}
  <2>1. commands[w][Coordinator] # <<>> => Tail(commands[w][Coordinator]) = <<>>
    BY <1>2, TakesCall
  <2> QED BY <1>2, <2>1, WorkerInbox DEF Unmoved
<1>6. ASSUME NEW u \in Workers, u # w, NEW v \in Workers, phase'[u] # "ended",
             commands'[u][v] = commands[u][v]
      PROVE  Between(u, v)'
  <2>1. Between(u, v)
    BY <1>2, <1>3, <1>6 DEF Unmoved
  <2>2. commands'[v][Coordinator] \in {commands[v][Coordinator], <<>>}
    BY <1>5
  <2>3. GotBy(u)' = GotBy(u) \cup {} /\ {} \cap Children(v, call.arg) = {}
    BY <1>4, <1>6
  <2> QED BY <1>2, <1>6, <2>1, <2>2, <2>3, GrownTransit
<1>7. CASE Load(w)
  <2>1. /\ InCall(w)' /\ commands' = commands /\ doing' = doing /\ imports' = imports
        /\ phase[w] = "loading" /\ phase'[w] = "serving"
    BY <1>7, LoadDone DEF Load, Rooms
  <2>2. GotBy(w)' = GotBy(w) \cup {}
    BY <1>2, <2>1, SameGoal DEF GotBy, Coordinator, WorkerCount
  <2>3. ASSUME NEW v \in Workers PROVE Between(w, v)'
    <3>1. commands'[w][v] = commands[w][v] /\ {} \cap Children(v, call.arg) = {}
          /\ commands'[v][Coordinator] \in {commands[v][Coordinator], <<>>}
      BY <2>1
    <3> QED BY <1>2, <1>3, <2>2, <3>1, GrownTransit
  <2> QED BY <1>6, <2>1, <2>3
<1>8. CASE Raises(w)
  <2>1. Ends(w) /\ UNCHANGED call
    BY <1>8 DEF Raises, Ends, coordinatorVars
  <2>2. \A u, v \in Workers : u # w => commands'[u][v] = commands[u][v]
    BY <1>8, TookIs, Sizes DEF Raises
  <2>3. ~Finished(w)
    <3>1. ASSUME Finished(w) PROVE FALSE
      <4>1. /\ commands[w][Coordinator] = <<>> /\ phase[w] = "serving"
        BY <3>1 DEF Finished
      <4>2. Share(w) \subseteq GotBy(w)
        BY <4>1 DEF GotBy
      <4>3. \A v \in Workers : commands[w][v] = <<>>
        BY <1>2, <1>3, <4>2, OwedNothing
      <4> QED BY <1>8, <4>1, <4>3 DEF Raises
    <3> QED BY <3>1
  <2>4. call.next <= w /\ results[w] = <<>>
    BY <1>2, <2>3 DEF InCall, DeadOne, Ready, Saving, Awaiting
  <2>5. InCall(w)' /\ phase'[w] = "ended"
    BY <2>1, <2>4, EndsDead
  <2> QED BY <1>6, <2>2, <2>5
<1>9. CASE ResampleBalanced(w)
  <2>1. /\ Ready(w) /\ Payload(w, Coordinator) = PlansOf(call.arg)[w]
        /\ InCall(w)' /\ phase'[w] # "ended"
        /\ GotBy(w)' = GotBy(w) \cup Kept(w)
        /\ commands[w][Coordinator] # <<>> /\ commands'[w][Coordinator] = <<>>
    BY <1>9, ResampleSettles
  <2>2. states[w] = Before(w)
    BY <2>1 DEF Ready
  <2>3. /\ \A v \in Workers : commands'[w][v] = commands[w][v]
        /\ \A u \in Workers : u # w =>
             /\ \A v \in Workers : v # w => commands'[u][v] = commands[u][v]
             /\ commands'[u][w] = commands[u][w] \o Bundles(w, u, PlansOf(call.arg)[w].plan)
    BY <1>9, <2>1, SendsBundles
  <2>4. ASSUME NEW u \in Workers, u # w, phase'[u] # "ended" PROVE Between(u, w)'
    <3>1. Between(u, w) /\ GotBy(u)' = GotBy(u)
      BY <1>2, <1>3, <1>4, <2>4 DEF Unmoved
    <3>2. commands'[u][w] = commands[u][w] \o Bundles(w, u, PlansOf(call.arg)[w].plan)
      BY <2>3, <2>4
    <3> QED BY <1>2, <2>1, <2>2, <2>4, <3>1, <3>2, SentTransit
  <2>5. ASSUME NEW v \in Workers, v # w PROVE Between(w, v)'
    <3>1. Kept(w) \cap Children(v, call.arg) = {}
      BY <2>5 DEF Kept, Children
    <3>2. commands'[v][Coordinator] \in {commands[v][Coordinator], <<>>}
      BY <1>5
    <3> QED BY <1>2, <1>3, <2>1, <2>3, <3>1, <3>2, GrownTransit
  <2>6. Between(w, w)'
    <3>1. commands[w][w] = <<>>
      BY <1>2, <1>3 DEF Between
    <3>2. commands'[w][w] = <<>> /\ commands'[w][Coordinator] = <<>>
      BY <2>1, <2>3, <3>1
    <3>3. Coordinator' = Coordinator
      BY DEF Coordinator, WorkerCount
    <3>4. IsSeq(commands'[w][w]) /\ DOMAIN commands'[w][w] = {}
      BY <3>2, SeqEmpty
    <3> QED BY <3>2, <3>3, <3>4 DEF Between, IsSeq, Range
  <2>7. ASSUME NEW u \in Workers, NEW v \in Workers, u # w, v # w, phase'[u] # "ended"
        PROVE  Between(u, v)'
    BY <1>6, <2>3, <2>7
  <2> QED BY <2>1, <2>4, <2>5, <2>6, <2>7
<1>10. ASSUME NEW from \in Workers, Import(w, from)
       PROVE  /\ InCall(w)'
              /\ \A u, v \in Workers : phase'[u] # "ended" => Between(u, v)'
  <2>1. Between(w, from)
    BY <1>2, <1>3
  <2> DEFINE new == Head(commands[w][from]).arg.children
  <2>2. /\ commands[w][from] # <<>> /\ IsBundle(Head(commands[w][from]), w, from)
        /\ InCall(w)' /\ phase'[w] # "ended"
        /\ GotBy(w)' = GotBy(w) \cup new
        /\ commands'[w][Coordinator] = commands[w][Coordinator]
        /\ commands[from][Coordinator] = <<>> /\ from # w
    BY <1>10, <2>1, Imports
  <2>3. /\ commands'[w][from] = Tail(commands[w][from])
        /\ \A u, v \in Workers : u # w \/ v # from => commands'[u][v] = commands[u][v]
    BY <1>10, <2>2, TookIs DEF Import
  <2>4. Between(w, from)'
    <3>1. commands'[from][Coordinator] = <<>>
      BY <1>5, <2>2
    <3> QED BY <1>2, <2>1, <2>2, <2>3, <3>1, TailTransit
  <2>5. ASSUME NEW v \in Workers, v # from PROVE Between(w, v)'
    <3>1. new \cap Children(v, call.arg) = {}
      BY <2>2, <2>5 DEF IsBundle, Children
    <3>2. commands'[v][Coordinator] \in {commands[v][Coordinator], <<>>}
      BY <1>5
    <3>3. commands'[w][v] = commands[w][v]
      BY <2>3, <2>5
    <3> HIDE DEF new
    <3> QED BY <1>2, <1>3, <2>2, <3>1, <3>2, <3>3, GrownTransit
  <2>6. ASSUME NEW u \in Workers, NEW v \in Workers, u # w, phase'[u] # "ended"
        PROVE  Between(u, v)'
    BY <1>6, <2>3, <2>6
  <2> QED BY <2>2, <2>4, <2>5, <2>6
<1> QED
  BY <1>7, <1>8, <1>9, <1>10, BalancedActs

LEMMA ShapesTyped ==
  ASSUME Shapes
  PROVE  /\ Inboxes /\ Rooms /\ assignment \in [Slots -> Workers]
         /\ era \in Nat /\ broken \in BOOLEAN /\ closed \in BOOLEAN
BY DEF Shapes

\* The invariant's parts that look at no worker.
LEMMA CallStays ==
  ASSUME CallInv, UNCHANGED coordinatorVars, UNCHANGED stage
  PROVE  CallInv'
<1>1. Workers' = Workers
  BY DEF Workers, WorkerCount
<1> QED
  BY <1>1 DEF CallInv, coordinatorVars, NoCall, Calling, Asked, Slots, CallOps, Started

LEMMA WorkerStep ==
  ASSUME PoolInv, NEW w \in Workers, Worker(w), UNCHANGED <<stage, manifests>>
  PROVE  PoolInv'
<1>1. /\ Inboxes /\ Rooms /\ assignment \in [Slots -> Workers] /\ CallInv /\ BrokenInv
      /\ PersistInv /\ (Live => LiveInv) /\ Shapes
  BY ShapesTyped DEF PoolInv
<1>2. Alone(w) /\ Inboxes' /\ Rooms'
  BY <1>1, WorkerAlone
<1>3. /\ UNCHANGED <<call, assignment, broken, closed, era, content>>
      /\ phase[w] # "ended" /\ \A u \in Workers : u # w => Unmoved(u)
  BY <1>2 DEF Alone, coordinatorVars
<1>4. Workers' = Workers /\ Slots' = Slots
  BY DEF Workers, WorkerCount, Slots
<1>5. Shapes'
  BY <1>1, <1>2, <1>3, <1>4 DEF Shapes
<1>6. CallInv'
  BY <1>1, <1>2, CallStays DEF Alone
<1>7. PersistInv'
  BY <1>1, WorkerPersists
<1>8. BrokenInv'
  <2>1. Calling' = Calling /\ Started' = Started
    BY <1>3 DEF Calling, Started
  <2>2. ASSUME broken, ~closed, Started
        PROVE  /\ \E v \in Workers : /\ phase'[v] = "ended" /\ results'[v] = <<>>
                                     /\ call.next <= v
               /\ Calling => call.op = "metrics"
    <3>1. PICK v \in Workers : phase[v] = "ended" /\ results[v] = <<>> /\ call.next <= v
      BY <1>1, <2>2 DEF BrokenInv
    <3>2. phase'[v] = "ended" /\ results'[v] = <<>>
      BY <1>3, <3>1 DEF Unmoved
    <3>3. Calling => call.op = "metrics"
      BY <1>1, <2>2 DEF BrokenInv
    <3> QED BY <3>1, <3>2, <3>3
  <2> QED BY <1>3, <1>4, <2>1, <2>2 DEF BrokenInv
<1>9. ASSUME Live PROVE LiveInv'
  <2>1. /\ \A u \in Workers : InCall(u)
        /\ InTransit /\ IsSeq(call.got) /\ Len(call.got) = call.next /\ ~closed
    BY <1>1, <1>9 DEF LiveInv, Live
  <2>2. \A u \in Workers : u # w => InCall(u)'
    BY <1>1, <2>1, OthersStay
  <2>3. Balancing' = Balancing
    BY <1>3 DEF Balancing
  <2>4. CASE Balancing
    <3>1. InCall(w)' /\ \A u, v \in Workers : phase'[u] # "ended" => Between(u, v)'
      BY <1>1, <2>1, <2>4, BalancedStep
    <3>2. InTransit'
      BY <1>4, <2>3, <2>4, <3>1 DEF InTransit
    <3> QED BY <1>3, <1>4, <2>1, <2>2, <3>1, <3>2 DEF LiveInv, IsSeq, Range
  <2>5. CASE ~Balancing
    <3>1. \A v \in Workers : commands[w][v] = <<>>
      BY <1>3, <2>1, <2>5 DEF InTransit
    <3>2. /\ InCall(w)'
          /\ \A u, v \in Workers : commands'[u][v] = commands[u][v]
      BY <1>1, <2>1, <2>5, <3>1, QuietStep
    <3>3. InTransit'
      BY <1>3, <1>4, <2>1, <2>3, <2>5, <3>2 DEF InTransit, Unmoved
    <3> QED BY <1>3, <1>4, <2>1, <2>2, <3>2, <3>3 DEF LiveInv, IsSeq, Range
  <2> QED BY <2>4, <2>5
<1>10. Live' = Live
  BY <1>3 DEF Live, Started
<1> QED
  BY <1>5, <1>6, <1>7, <1>8, <1>9, <1>10 DEF PoolInv

-----------------------------------------------------------------------------
(* The coordinator takes the replies.                                      *)

LEMMA ReassignedTyped ==
  ASSUME assignment \in [Slots -> Workers], CallInv
  PROVE  Reassigned \in [Slots -> Workers]
<1>1. CASE call.op = "resample_balanced"
  <2>1. Plannable(call.arg)
    BY <1>1, Sizes, BalanceFacts DEF Balancing
  <2>2. \A s \in Slots : Target(s, call.arg) \in Workers
    BY <2>1, TargetTyped
  <2> QED BY <1>1, <2>2 DEF Reassigned
<1>2. CASE call.op = "resample"
  <2>1. call.arg \in [Slots -> Slots]
    BY <1>2 DEF CallInv, Asked, NoCall
  <2> QED BY <1>2, <2>1 DEF Reassigned
<1>3. CASE ~Reassigns
  BY <1>3 DEF Reassigned, Reassigns
<1> QED
  BY <1>1, <1>2, <1>3 DEF Reassigns

\* What the coordinator gets next: an error of a worker that ended, or the reply.
LEMMA NextResult ==
  ASSUME PoolInv, Live, Calling, call.op # "shutdown", NEW w \in Workers, w = call.next,
         results[w] # <<>>
  PROVE  /\ Tail(results[w]) = <<>>
         /\ \/ DeadOne(w) /\ Misfits
            \/ Finished(w) /\ ~Misfits /\ Head(results[w]).got = ReplyOf(w)
<1>1. InCall(w) /\ w <= w
  BY Sizes DEF PoolInv, LiveInv
<1>2. call.op # "error"
  BY DEF PoolInv, CallInv, Asked, CallOps, Calling, NoCall
<1>3. CASE DeadOne(w)
  <2>1. results[w] = <<[op |-> "error", got |-> <<>>]>>
    BY <1>3 DEF DeadOne
  <2> QED BY <1>2, <1>3, <2>1, OneMessage DEF Misfits
<1>4. CASE Finished(w)
  <2>1. results[w] = <<[op |-> call.op, got |-> ReplyOf(w)]>>
    BY <1>1, <1>4 DEF Finished
  <2> DEFINE e == [op |-> call.op, got |-> ReplyOf(w)]
  <2>2. e.op = call.op /\ e.got = ReplyOf(w)
    OBVIOUS
  <2>3. results[w] = <<e>>
    BY <2>1
  <2> HIDE DEF e
  <2> QED BY <1>4, <2>2, <2>3, OneMessage DEF Misfits
<1> QED
  BY <1>1, <1>3, <1>4 DEF InCall, Ready, Saving, Awaiting

LEMMA HeardOne ==
  ASSUME PoolInv, Live, Receive, ~Misfits, NEW w \in Workers, w = call.next,
         w + 1 < WorkerCount
  PROVE  LiveInv' /\ Same /\ call'.next = w + 1
         /\ UNCHANGED <<broken, assignment, content, answer>>
<1> DEFINE replies == Append(call.got, Head(results[w]).got)
<1>1. /\ Inboxes /\ Rooms /\ CallInv
      /\ (\A u \in Workers : InCall(u)) /\ InTransit
      /\ IsSeq(call.got) /\ Len(call.got) = w
  BY ShapesTyped DEF PoolInv, LiveInv
<1>2. w \in Nat /\ Calling /\ call.op # "shutdown" /\ results[w] # <<>>
  BY Sizes DEF Receive
<1>3. /\ results' = [results EXCEPT ![w] = Tail(@)]
      /\ call' = [call EXCEPT !.next = @ + 1, !.got = replies]
      /\ UNCHANGED <<assignment, answer, broken, content>>
      /\ UNCHANGED <<states, phase, doing, imports, commands, closed, era, raises, files>>
  BY Sizes DEF Receive
<1>4. Tail(results[w]) = <<>> /\ Finished(w) /\ Head(results[w]).got = ReplyOf(w)
  BY <1>2, NextResult
<1> HIDE DEF replies
<1>5. /\ call'.op = call.op /\ call'.arg = call.arg /\ call'.next = w + 1 /\ call'.got = replies
  BY <1>1, <1>3 DEF CallInv
<1>6. /\ IsSeq(replies) /\ Len(replies) = w + 1 /\ replies[w + 1] = ReplyOf(w)
      /\ \A i \in 1..w : replies[i] = call.got[i]
  BY <1>1, <1>4, SeqAppend DEF replies
<1>7. Same
  BY <1>3, <1>5 DEF Same
<1>8. ASSUME NEW u \in Workers, u # w PROVE InCall(u)'
  <2>1. Unmoved(u)
    BY <1>1, <1>3, <1>8 DEF Unmoved, Rooms
  <2>2. u \in Nat /\ (call'.next <= u <=> call.next <= u)
    BY <1>2, <1>5, <1>8, Sizes
  <2>3. ~(call.next <= u) => call'.got[u + 1] = call.got[u + 1]
    <3> SUFFICES ASSUME ~(call.next <= u) PROVE call'.got[u + 1] = call.got[u + 1]
      OBVIOUS
    <3>1. u + 1 \in 1..w
      BY <1>2, <2>2
    <3> QED BY <1>5, <1>6, <3>1
  <2>4. call.op = "persist" => \A s \in Owned(u) : files'[<<call.arg, s>>] = files[<<call.arg, s>>]
    BY <1>3
  <2> QED BY <1>1, <1>7, <2>1, <2>2, <2>3, <2>4, StaysInCall
<1>9. InCall(w)'
  <2>1. /\ After(w)' = After(w) /\ ReplyOf(w)' = ReplyOf(w) /\ Owned(w)' = Owned(w)
        /\ Calling' = Calling /\ (\A s : FileOf(s)' = FileOf(s)) /\ Coordinator' = Coordinator
    BY <1>7, SameGoal, SameWords, SameLayout DEF Coordinator, WorkerCount
  <2>2. results'[w] = <<>>
    BY <1>1, <1>3, <1>4 DEF Rooms
  <2>3. ~(call'.next <= w) /\ call'.got[w + 1] = ReplyOf(w)
    BY <1>2, <1>5, <1>6
  <2>4. call'.op = "persist" => \A s \in Owned(w)' : files'[<<call'.arg, s>>] = FileOf(s)'
    BY <1>3, <1>4, <1>5, <2>1 DEF Finished
  <2>5. Finished(w)'
    BY <1>3, <1>4, <2>1, <2>2, <2>3, <2>4 DEF Finished
  <2> QED BY <2>5 DEF InCall
<1>10. Workers' = Workers /\ Coordinator' = Coordinator
  BY DEF Workers, Coordinator, WorkerCount
<1>11. InTransit'
  <2>1. \A u, v \in Workers : Between(u, v)' = Between(u, v)
    <3> SUFFICES ASSUME NEW u \in Workers, NEW v \in Workers PROVE Between(u, v)' = Between(u, v)
      OBVIOUS
    <3>1. /\ Share(u)' = Share(u) /\ Children(v, call.arg)' = Children(v, call.arg)
      BY <1>7, SameGoal, SameLayout
    <3>2. GotBy(u)' = GotBy(u)
      BY <1>3, <1>10, <3>1 DEF GotBy
    <3> QED BY <1>3, <1>5, <1>10, <3>1, <3>2 DEF Between, IsBundle, IsSeq, Range
  <2>2. Balancing' = Balancing
    BY <1>7, SameLayout
  <2> QED BY <1>1, <1>3, <1>10, <2>1, <2>2 DEF InTransit
<1>12. LiveInv'
  <2>1. IsSeq(call'.got) /\ Len(call'.got) = call'.next
    BY <1>5, <1>6
  <2> QED BY <1>8, <1>9, <1>10, <1>11, <2>1 DEF LiveInv, IsSeq, Range
<1> QED
  BY <1>3, <1>5, <1>7, <1>12

\* Replies by slot or by job, one from each worker for those that it has.
ByOwner(replies, D, f, owner) ==
  /\ owner \in [D -> Workers] /\ DOMAIN replies = 1..WorkerCount
  /\ \A u \in Workers, x \in D : owner[x] = u => replies[u + 1][x] = f[x]
  /\ \A u \in Workers : \A x : x \in DOMAIN replies[u + 1] <=> x \in D /\ owner[x] = u

LEMMA TogetherOf ==
  ASSUME NEW D, NEW f, NEW owner, NEW replies, ByOwner(replies, D, f, owner)
  PROVE  /\ DOMAIN Together(replies) = D
         /\ \A x \in D : Together(replies)[x] = f[x]
         /\ Together(replies) = [x \in DOMAIN Together(replies) |-> Together(replies)[x]]
<1> USE DEF ByOwner
<1>1. \A i \in 1..WorkerCount : i - 1 \in Workers /\ (i - 1) + 1 = i
  BY Sizes DEF Workers
<1>2. ASSUME NEW i \in 1..WorkerCount
      PROVE  /\ \A x : x \in DOMAIN replies[i] <=> x \in D /\ owner[x] = i - 1
             /\ \A x \in D : owner[x] = i - 1 => replies[i][x] = f[x]
  <2>1. PICK u \in Workers : u = i - 1 /\ u + 1 = i
    BY <1>1
  <2> QED BY <2>1
<1>3. \A u \in Workers : u + 1 \in 1..WorkerCount /\ (u + 1) - 1 = u
  BY Sizes DEF Workers
<1>4. UNION {DOMAIN replies[i] : i \in DOMAIN replies} = D
  <2>1. \A x \in D : /\ owner[x] + 1 \in 1..WorkerCount
                     /\ x \in DOMAIN replies[owner[x] + 1]
    BY <1>2, <1>3
  <2>2. \A i \in 1..WorkerCount : DOMAIN replies[i] \subseteq D
    BY <1>2
  <2> QED BY <2>1, <2>2
<1>5. ASSUME NEW x \in D
      PROVE  replies[CHOOSE i \in DOMAIN replies :
                       /\ x \in DOMAIN replies[i]
                       /\ \A j \in DOMAIN replies : x \in DOMAIN replies[j] => j <= i][x] = f[x]
  <2> DEFINE R(i) == /\ x \in DOMAIN replies[i]
                     /\ \A j \in DOMAIN replies : x \in DOMAIN replies[j] => j <= i
             k == owner[x] + 1
             m == CHOOSE i \in DOMAIN replies : R(i)
  <2>1. k \in DOMAIN replies /\ k \in Int /\ x \in DOMAIN replies[k]
    BY <1>2, <1>3
  <2>2. \A j \in DOMAIN replies : x \in DOMAIN replies[j] => j = k
    BY <1>2, <1>1
  <2>3. R(k)
    BY <2>1, <2>2
  <2>4. m \in DOMAIN replies /\ R(m)
    <3> HIDE DEF R, k
    <3> QED BY <2>1, <2>3
  <2>5. m = k
    BY <2>2, <2>4
  <2>6. replies[k][x] = f[x]
    BY <1>2, <1>3
  <2> QED BY <2>5, <2>6
<1> QED
  BY <1>4, <1>5 DEF Together

\* When all have done it, what they hold is what the slots are to get.
LEMMA HeldIs ==
  ASSUME Rooms, assignment \in [Slots -> Workers], CallInv,
         \A u \in Workers : states[u] = After(u)
  PROVE  Held = [s \in Slots |-> Gets(s)]
<1>1. Reassigned \in [Slots -> Workers]
  BY ReassignedTyped
<1>2. \A u \in Workers : DOMAIN states[u] = Share(u) /\ \A s \in Share(u) : states[u][s] = Gets(s)
  BY DEF After
<1>3. UNION {DOMAIN states[u] : u \in Workers} = Slots
  <2>1. \A u \in Workers : DOMAIN states[u] \subseteq Slots
    BY <1>2 DEF Share
  <2>2. \A s \in Slots : Reassigned[s] \in Workers /\ s \in DOMAIN states[Reassigned[s]]
    BY <1>1, <1>2 DEF Share
  <2> QED BY <2>1, <2>2
<1>4. ASSUME NEW s \in Slots
      PROVE  states[CHOOSE u \in Workers : s \in DOMAIN states[u]][s] = Gets(s)
  <2> DEFINE m == CHOOSE u \in Workers : s \in DOMAIN states[u]
  <2>1. \E u \in Workers : s \in DOMAIN states[u]
    BY <1>3
  <2>2. m \in Workers /\ s \in DOMAIN states[m]
    BY <2>1
  <2> HIDE DEF m
  <2>3. states[m][s] = Gets(s)
    BY <1>2, <2>2
  <2> QED BY <2>3 DEF m
<1> QED
  BY <1>3, <1>4 DEF Held

\* What the caller gets for the collection of all particles.
AllReplies ==
  CASE call.op = "evaluate_nonmutating" ->
         [j \in DOMAIN call.arg |->
            Store!Forked(content[call.arg[j].slot], call.arg[j].sample)]
    [] call.op = "persist" -> [s \in Slots |-> FileOf(s)]
    [] OTHER -> [s \in Slots |-> Gets(s)]

LEMMA JoinedIs ==
  ASSUME assignment \in [Slots -> Workers], CallInv, Calling, NEW replies,
         DOMAIN replies = 1..WorkerCount, \A u \in Workers : replies[u + 1] = ReplyOf(u),
         call.op \in {"propagate", "snapshot", "summarize", "persist", "evaluate_nonmutating"}
  PROVE  Joined(replies) = AllReplies /\ DOMAIN AllReplies = Expected
<1>1. Joined(replies) = Together(replies)
  BY DEF Joined
<1>2. CASE call.op = "evaluate_nonmutating"
  <2> DEFINE owner == [j \in DOMAIN call.arg |-> assignment[call.arg[j].slot]]
             f == [j \in DOMAIN call.arg |->
                     Store!Forked(content[call.arg[j].slot], call.arg[j].sample)]
  <2>1. \A j \in DOMAIN call.arg : call.arg[j].slot \in Slots
    BY <1>2 DEF CallInv, Asked, NoCall
  <2>2. owner \in [DOMAIN call.arg -> Workers]
    BY <2>1
  <2>3. ASSUME NEW u \in Workers
        PROVE  /\ \A x : x \in DOMAIN replies[u + 1] <=> x \in DOMAIN call.arg /\ owner[x] = u
               /\ \A x \in DOMAIN call.arg : owner[x] = u => replies[u + 1][x] = f[x]
    <3>1. DOMAIN JobsOf(call.arg)[u] = {j \in DOMAIN call.arg : assignment[call.arg[j].slot] = u}
      BY DEF JobsOf, Restrict
    <3>2. DOMAIN JobsOf(call.arg)[u] = {y \in DOMAIN call.arg : owner[y] = u}
      BY <3>1
    <3>3. replies[u + 1] = [j \in DOMAIN JobsOf(call.arg)[u] |->
                              Store!Forked(content[call.arg[j].slot], call.arg[j].sample)]
      BY <1>2 DEF ReplyOf
    <3> QED BY <3>2, <3>3
  <2>4. /\ DOMAIN Together(replies) = DOMAIN call.arg
        /\ \A x \in DOMAIN call.arg : Together(replies)[x] = f[x]
        /\ Together(replies) = [x \in DOMAIN Together(replies) |-> Together(replies)[x]]
    <3> HIDE DEF owner, f
    <3>1. ByOwner(replies, DOMAIN call.arg, f, owner)
      BY <2>2, <2>3 DEF ByOwner
    <3> QED BY <3>1, TogetherOf
  <2> QED BY <1>1, <1>2, <2>4 DEF AllReplies, Expected
<1>3. CASE call.op # "evaluate_nonmutating"
  <2> DEFINE f == [s \in Slots |-> IF call.op = "persist" THEN FileOf(s) ELSE Gets(s)]
  <2>1. ASSUME NEW u \in Workers
        PROVE  /\ \A x : x \in DOMAIN replies[u + 1] <=> x \in Slots /\ assignment[x] = u
               /\ \A x \in Slots : assignment[x] = u => replies[u + 1][x] = f[x]
    <3>1. CASE call.op = "persist"
      <4>1. ReplyOf(u) = [s \in Owned(u) |-> FileOf(s)]
        BY <3>1 DEF ReplyOf
      <4>2. \A s \in Slots : f[s] = FileOf(s)
        BY <3>1
      <4> HIDE DEF f
      <4> QED BY <4>1, <4>2 DEF Owned
    <3>2. CASE call.op # "persist"
      <4>1. After(u) = [s \in Owned(u) |-> Gets(s)]
        BY SharesKept DEF Reassigns
      <4>2. ReplyOf(u) = After(u)
        BY <1>3, <3>2 DEF ReplyOf
      <4>3. \A s \in Slots : f[s] = Gets(s)
        BY <3>2
      <4> HIDE DEF f
      <4> QED BY <4>1, <4>2, <4>3 DEF Owned
    <3> QED BY <3>1, <3>2
  <2>2. /\ DOMAIN Together(replies) = Slots
        /\ \A x \in Slots : Together(replies)[x] = f[x]
        /\ Together(replies) = [x \in DOMAIN Together(replies) |-> Together(replies)[x]]
    <3> HIDE DEF f
    <3>1. ByOwner(replies, Slots, f, assignment)
      BY <2>1 DEF ByOwner
    <3> QED BY <3>1, TogetherOf
  <2>3. AllReplies = [x \in Slots |-> f[x]]
    BY <1>3 DEF AllReplies
  <2> QED BY <1>1, <1>3, <2>2, <2>3 DEF Expected
<1> QED
  BY <1>2, <1>3

\* The last reply of a call: it has done what it was to do, to every slot.
LEMMA HeardAll ==
  ASSUME PoolInv, Live, Receive, ~Misfits, NEW w \in Workers, w = call.next,
         w + 1 = WorkerCount
  PROVE  /\ Shapes' /\ LiveInv' /\ call' = NoCall /\ ~broken'
         /\ content' = [s \in Slots |-> Gets(s)] /\ assignment' = Reassigned
         /\ call.op \in {"propagate", "snapshot", "summarize", "persist",
                         "evaluate_nonmutating"} =>
              answer' = [op |-> call.op, got |-> AllReplies]
         /\ call.op = "resample_balanced" =>
              \E replies : /\ DOMAIN replies = 1..WorkerCount
                           /\ \A u \in Workers : replies[u + 1] = ReplyOf(u)
                           /\ answer' = [op |-> call.op, got |-> Joined(replies)]
         /\ call.op \in {"metrics", "resample"} => answer' = answer
         /\ call.op = "persist" => \A s \in Slots : files[<<call.arg, s>>] = FileOf(s)
<1> DEFINE replies == Append(call.got, Head(results[w]).got)
<1>1. /\ Inboxes /\ Rooms /\ CallInv /\ assignment \in [Slots -> Workers] /\ era \in Nat
      /\ closed \in BOOLEAN
      /\ (\A u \in Workers : InCall(u)) /\ InTransit
      /\ IsSeq(call.got) /\ Len(call.got) = w
  BY ShapesTyped DEF PoolInv, LiveInv
<1>2. /\ w \in Nat /\ Calling /\ call.op # "shutdown" /\ results[w] # <<>>
      /\ \A u \in Workers : u \in Nat /\ u <= w
  BY Sizes DEF Receive, Workers
<1>3. /\ results' = [results EXCEPT ![w] = Tail(@)]
      /\ call' = NoCall /\ assignment' = Reassigned /\ content' = Held
      /\ answer' = IF call.op \in {"metrics", "resample"} THEN answer
                   ELSE [op |-> call.op, got |-> Joined(replies)]
      /\ broken' = (broken \/ (Expected # {} /\ DOMAIN answer'.got # Expected))
      /\ UNCHANGED <<states, phase, doing, imports, commands, closed, era, raises, files>>
  BY <1>2, Sizes DEF Receive
<1>4. Tail(results[w]) = <<>> /\ Finished(w) /\ Head(results[w]).got = ReplyOf(w)
  BY <1>2, NextResult
<1>5. \A u \in Workers : Finished(u) /\ (u # w => results[u] = <<>> /\ call.got[u + 1] = ReplyOf(u))
  <2> SUFFICES ASSUME NEW u \in Workers, u # w
      PROVE  Finished(u) /\ results[u] = <<>> /\ call.got[u + 1] = ReplyOf(u)
    BY <1>4
  <2>1. ~(call.next <= u)
    BY <1>2
  <2>2. Finished(u)
    BY <1>1, <2>1 DEF InCall, DeadOne, Ready, Saving, Awaiting
  <2> QED BY <2>1, <2>2 DEF Finished
<1>6. /\ IsSeq(replies) /\ DOMAIN replies = 1..WorkerCount /\ replies[w + 1] = ReplyOf(w)
      /\ \A i \in 1..w : replies[i] = call.got[i]
  <2>1. /\ IsSeq(replies) /\ Len(replies) = w + 1 /\ replies[w + 1] = ReplyOf(w)
        /\ \A i \in 1..w : replies[i] = call.got[i]
    BY <1>1, <1>4, SeqAppend
  <2> HIDE DEF replies
  <2> QED BY <2>1, SeqIs
<1> HIDE DEF replies
<1>7. \A u \in Workers : replies[u + 1] = ReplyOf(u)
  <2> SUFFICES ASSUME NEW u \in Workers PROVE replies[u + 1] = ReplyOf(u)
    OBVIOUS
  <2>1. CASE u = w
    BY <1>6, <2>1
  <2>2. CASE u # w
    <3>1. u + 1 \in 1..w
      BY <1>2, <2>2
    <3> QED BY <1>5, <1>6, <2>2, <3>1
  <2> QED BY <2>1, <2>2
<1>8. /\ \A u \in Workers : /\ states[u] = After(u) /\ phase[u] = "serving"
                            /\ commands[u][Coordinator] = <<>> /\ imports[u] = <<>>
      /\ call.op = "persist" => \A u \in Workers : \A s \in Owned(u) :
                                   files[<<call.arg, s>>] = FileOf(s)
  BY <1>5 DEF Finished
<1>9. content' = [s \in Slots |-> Gets(s)]
  BY <1>1, <1>3, <1>8, HeldIs
<1>10. Reassigned \in [Slots -> Workers]
  BY <1>1, ReassignedTyped
<1>11. Workers' = Workers /\ Slots' = Slots /\ Coordinator' = Coordinator
  BY DEF Workers, WorkerCount, Slots, Coordinator
<1>12. call.op \in {"propagate", "snapshot", "summarize", "persist", "evaluate_nonmutating"} =>
         Joined(replies) = AllReplies /\ DOMAIN AllReplies = Expected
  BY <1>1, <1>2, <1>6, <1>7, JoinedIs
<1>13. ~(Expected # {} /\ DOMAIN answer'.got # Expected)
  <2>1. Expected # {} => call.op \in {"propagate", "snapshot", "summarize", "persist",
                                      "evaluate_nonmutating"}
    BY DEF Expected
  <2>2. CASE call.op \in {"propagate", "snapshot", "summarize", "persist",
                          "evaluate_nonmutating"}
    <3>1. answer'.got = AllReplies
      BY <1>3, <1>12, <2>2
    <3> QED BY <1>12, <2>2, <3>1
  <2> QED BY <2>1, <2>2
<1>14. ~broken'
  BY <1>3, <1>13 DEF Live
<1>15. broken' \in BOOLEAN
  BY <1>14, <1>3
<1>16. Shapes'
  <2>1. Inboxes' /\ Rooms'
    BY <1>1, <1>3, <1>11 DEF Inboxes, Rooms, IsSeq, Range
  <2> QED BY <1>1, <1>3, <1>10, <1>11, <1>15, <2>1 DEF Shapes
<1>17. \A u \in Workers : results'[u] = <<>>
  BY <1>1, <1>3, <1>4, <1>5 DEF Rooms
<1>18. ~Calling' /\ ~Balancing' /\ call'.next = 0 /\ call'.got = <<>>
  BY <1>3 DEF Calling, Balancing, NoCall
<1>19. ASSUME NEW u \in Workers PROVE InCall(u)'
  <2>1. Owned(u)' = Share(u)
    BY <1>3, <1>11 DEF Owned, Share
  <2>2. Before(u)' = After(u)
    <3>1. \A s \in Share(u) : content'[s] = Gets(s)
      BY <1>9 DEF Share
    <3> QED BY <2>1, <3>1 DEF Before, After
  <2>3. 0 <= u
    BY <1>2
  <2>4. Ready(u)'
    BY <1>3, <1>8, <1>11, <1>17, <1>18, <2>2, <2>3 DEF Ready
  <2> QED BY <2>4 DEF InCall
<1>20. \A u, v \in Workers : commands[u][v] = <<>>
  <2> SUFFICES ASSUME NEW u \in Workers, NEW v \in Workers PROVE commands[u][v] = <<>>
    OBVIOUS
  <2>1. phase[u] # "ended"
    BY <1>8
  <2>2. CASE Balancing
    <3>1. Between(u, v)
      BY <1>1, <2>1, <2>2 DEF InTransit
    <3>2. GotBy(u) = Share(u)
      BY <1>8 DEF GotBy
    <3> QED BY <3>1, <3>2, OwedNothing
  <2>3. CASE ~Balancing
    BY <1>1, <2>1, <2>3 DEF InTransit
  <2> QED BY <2>2, <2>3
<1>21. InTransit'
  BY <1>3, <1>11, <1>18, <1>20 DEF InTransit
<1>22. LiveInv'
  BY <1>11, <1>18, <1>19, <1>21, SeqEmpty DEF LiveInv, IsSeq, Range
<1>23. call.op = "persist" => \A s \in Slots : files[<<call.arg, s>>] = FileOf(s)
  BY <1>1, <1>8 DEF Owned
<1>24. /\ call.op \in {"propagate", "snapshot", "summarize", "persist",
                      "evaluate_nonmutating"} =>
            answer' = [op |-> call.op, got |-> AllReplies]
       /\ call.op = "resample_balanced" =>
            answer' = [op |-> call.op, got |-> Joined(replies)]
       /\ call.op \in {"metrics", "resample"} => answer' = answer
  BY <1>3, <1>12
<1> QED
  BY <1>3, <1>6, <1>7, <1>9, <1>14, <1>16, <1>22, <1>23, <1>24

\* A step that leaves what the workers have to take alone.
LEMMA PersistStays ==
  ASSUME PersistInv, UNCHANGED <<commands, doing, manifests>>,
         \A u \in Workers : phase'[u] \in {phase[u], "ended"}
  PROVE  PersistInv'
<1>1. Workers' = Workers /\ Coordinator' = Coordinator /\ \A key : Unwritten(key)' = Unwritten(key)
  BY DEF Workers, Coordinator, WorkerCount, Unwritten
<1> QED
  BY <1>1 DEF PersistInv

LEMMA ReceiveStep ==
  ASSUME PoolInv, Receive, UNCHANGED <<stage, manifests>>
  PROVE  PoolInv'
<1> DEFINE w == call.next
<1>1. /\ Inboxes /\ Rooms /\ assignment \in [Slots -> Workers] /\ CallInv /\ BrokenInv
      /\ PersistInv /\ (Live => LiveInv) /\ Shapes /\ broken \in BOOLEAN
  BY ShapesTyped DEF PoolInv
<1>2. /\ w \in Workers /\ w \in Nat /\ Calling /\ call.op # "shutdown" /\ results[w] # <<>>
      /\ Started /\ ~closed
  BY <1>1, Sizes DEF Receive, CallInv, Calling, NoCall
<1>3. /\ results' = [results EXCEPT ![w] = Tail(@)]
      /\ UNCHANGED <<states, phase, doing, imports, commands, closed, era, raises, files>>
  BY DEF Receive
<1>4. Workers' = Workers /\ Slots' = Slots /\ Coordinator' = Coordinator
  BY DEF Workers, WorkerCount, Slots, Coordinator
<1>5. PersistInv'
  BY <1>1, <1>3, PersistStays
<1>6. Inboxes' /\ Rooms'
  BY <1>1, <1>3, <1>4 DEF Inboxes, Rooms, IsSeq, Range
<1>7. Started' = Started
  BY <1>3 DEF Started
<1>8. call' = NoCall => CallInv'
  <2> SUFFICES ASSUME call' = NoCall PROVE CallInv'
    OBVIOUS
  <2>1. /\ call'.op = "none" /\ call'.next = 0
        /\ call' = [op |-> call'.op, arg |-> call'.arg, next |-> call'.next, got |-> call'.got]
    BY DEF NoCall
  <2> QED BY <2>1, <1>4, Sizes DEF CallInv, Calling, NoCall
<1>9. ASSUME ~Misfits, w + 1 < WorkerCount
      PROVE  /\ call' = [call EXCEPT !.next = @ + 1, !.got = Append(call.got, Head(results[w]).got)]
             /\ UNCHANGED <<assignment, answer, broken, content>>
             /\ w + 1 \in Workers
             /\ call'.next = w + 1 /\ call'.op = call.op /\ call'.arg = call.arg
             /\ Shapes' /\ CallInv'
  <2>1. /\ call' = [call EXCEPT !.next = @ + 1, !.got = Append(call.got, Head(results[w]).got)]
        /\ UNCHANGED <<assignment, answer, broken, content>>
    BY <1>2, <1>9, Sizes DEF Receive
  <2>2. w + 1 \in Workers
    BY <1>2, <1>9, Sizes DEF Workers
  <2>3. /\ call' = [op |-> call'.op, arg |-> call'.arg, next |-> call'.next, got |-> call'.got]
        /\ call'.op = call.op /\ call'.arg = call.arg /\ call'.next = w + 1
    BY <1>1, <2>1 DEF CallInv
  <2>4. Calling' = Calling /\ Asked(call.op, call.arg) /\ call' # NoCall
    BY <1>1, <1>2, <2>3 DEF Calling, CallInv, NoCall
  <2>5. Asked(call.op, call.arg)' = Asked(call.op, call.arg)
    BY <2>3 DEF Asked, CallOps, Slots
  <2>6. CallInv'
    BY <1>1, <1>2, <1>3, <1>4, <1>7, <2>2, <2>3, <2>4, <2>5 DEF CallInv
  <2>7. Shapes'
    BY <1>1, <1>3, <1>4, <1>6, <2>1 DEF Shapes
  <2> QED BY <2>1, <2>2, <2>3, <2>6, <2>7
<1>10. CASE broken
  <2>1. PICK v \in Workers : phase[v] = "ended" /\ results[v] = <<>> /\ call.next <= v
    BY <1>1, <1>2, <1>10 DEF BrokenInv
  <2>2. v # w /\ v \in Nat /\ w < v /\ v <= WorkerCount - 1 /\ WorkerCount \in Nat
    BY <1>2, <2>1, Sizes DEF Workers
  <2>3. phase'[v] = "ended" /\ results'[v] = <<>>
    BY <1>1, <1>2, <1>3, <2>1, <2>2 DEF Rooms
  <2>4. call.op = "metrics"
    BY <1>1, <1>2, <1>10 DEF BrokenInv
  <2>5. CASE ~Misfits
    <3>1. w + 1 < WorkerCount
      BY <1>2, <2>2
    <3>2. w + 1 <= v
      BY <1>2, <2>2
    <3>3. BrokenInv'
      BY <1>4, <1>9, <2>1, <2>3, <2>4, <2>5, <3>1, <3>2 DEF BrokenInv
    <3>4. ~Live'
      BY <1>9, <1>10, <2>5, <3>1 DEF Live
    <3> QED BY <1>5, <1>9, <2>5, <3>1, <3>3, <3>4 DEF PoolInv
  <2>6. CASE Misfits
    <3>1. call' = NoCall /\ broken' = TRUE /\ UNCHANGED <<assignment, answer, content>>
      BY <2>6 DEF Receive
    <3>2. ~Calling' /\ call'.next = 0
      BY <3>1 DEF Calling, NoCall
    <3>3. BrokenInv'
      BY <1>4, <2>1, <2>2, <2>3, <3>2 DEF BrokenInv
    <3>4. ~Live' /\ Shapes'
      BY <1>1, <1>3, <1>4, <1>6, <3>1 DEF Live, Shapes
    <3> QED BY <1>5, <1>8, <3>1, <3>3, <3>4 DEF PoolInv
  <2> QED BY <2>5, <2>6
<1>11. CASE ~broken
  <2>1. Live
    BY <1>2, <1>11 DEF Live
  <2>2. CASE ~Misfits /\ w + 1 < WorkerCount
    <3>1. LiveInv' /\ UNCHANGED broken
      BY <1>2, <2>1, <2>2, HeardOne
    <3>2. BrokenInv'
      BY <1>11, <3>1 DEF BrokenInv
    <3> QED BY <1>5, <1>9, <2>2, <3>1, <3>2 DEF PoolInv
  <2>3. CASE ~Misfits /\ w + 1 = WorkerCount
    <3>1. Shapes' /\ LiveInv' /\ call' = NoCall /\ ~broken'
      BY <1>2, <2>1, <2>3, HeardAll
    <3>2. BrokenInv'
      BY <3>1 DEF BrokenInv
    <3> QED BY <1>5, <1>8, <3>1, <3>2 DEF PoolInv
  <2>4. CASE Misfits
    <3>1. call' = NoCall /\ broken' = TRUE /\ UNCHANGED <<assignment, answer, content>>
      BY <2>4 DEF Receive
    <3>2. ~Calling' /\ call'.next = 0
      BY <3>1 DEF Calling, NoCall
    <3>3. DeadOne(w) /\ Tail(results[w]) = <<>>
      BY <1>2, <2>1, <2>4, NextResult
    <3>4. phase'[w] = "ended" /\ results'[w] = <<>> /\ 0 <= w
      BY <1>1, <1>2, <1>3, <3>3 DEF DeadOne, Rooms
    <3> HIDE DEF w
    <3>5. BrokenInv'
      BY <1>2, <1>4, <3>2, <3>4 DEF BrokenInv
    <3>6. ~Live' /\ Shapes'
      BY <1>1, <1>3, <1>4, <1>6, <3>1 DEF Live, Shapes
    <3> QED BY <1>5, <1>8, <3>1, <3>5, <3>6 DEF PoolInv
  <2>5. w + 1 < WorkerCount \/ w + 1 = WorkerCount
    BY <1>2, Sizes DEF Workers
  <2> QED BY <2>2, <2>3, <2>4, <2>5
<1> QED
  BY <1>10, <1>11

LEMMA JoinsStep ==
  ASSUME PoolInv, Joins, UNCHANGED <<stage, manifests>>
  PROVE  PoolInv'
<1> DEFINE w == call.next
<1>1. /\ Inboxes /\ Rooms /\ CallInv /\ PersistInv /\ Shapes
  BY ShapesTyped DEF PoolInv
<1>2. /\ w \in Workers /\ w \in Nat /\ Calling /\ call.op = "shutdown" /\ closed
  BY <1>1, Sizes DEF Joins, CallInv
<1>3. /\ phase' = [phase EXCEPT ![w] = "ended"]
      /\ broken' \in {broken, TRUE}
      /\ call' \in {[call EXCEPT !.next = @ + 1], NoCall}
      /\ call' # NoCall => w + 1 < WorkerCount
      /\ results' \in {results, [results EXCEPT ![w] = Tail(@)]}
      /\ UNCHANGED <<states, doing, imports, commands, assignment, answer, closed,
                     era, content, raises, files>>
  BY DEF Joins
<1>4. Workers' = Workers /\ Slots' = Slots /\ Coordinator' = Coordinator
  BY DEF Workers, WorkerCount, Slots, Coordinator
<1>5. PersistInv'
  BY <1>1, <1>3, PersistStays DEF Rooms
<1>6. Inboxes' /\ Rooms'
  BY <1>1, <1>3, <1>4 DEF Inboxes, Rooms, IsSeq, Range
<1>7. broken' \in BOOLEAN
  BY <1>1, <1>3 DEF Shapes
<1>8. Shapes'
  BY <1>1, <1>3, <1>4, <1>6, <1>7 DEF Shapes
<1>9. CallInv'
  <2>1. CASE call' = NoCall
    <3>1. /\ call'.op = "none" /\ call'.next = 0
          /\ call' = [op |-> call'.op, arg |-> call'.arg, next |-> call'.next, got |-> call'.got]
      BY <2>1 DEF NoCall
    <3> QED BY <2>1, <3>1, <1>4, Sizes DEF CallInv, Calling, NoCall
  <2>2. CASE call' # NoCall
    <3>1. call' = [call EXCEPT !.next = @ + 1] /\ w + 1 < WorkerCount
      BY <1>3, <2>2
    <3>2. w + 1 \in Workers
      BY <1>2, <3>1, Sizes DEF Workers
    <3>3. /\ call' = [op |-> call'.op, arg |-> call'.arg, next |-> call'.next, got |-> call'.got]
          /\ call'.op = call.op /\ call'.arg = call.arg /\ call'.next = w + 1
      BY <1>1, <3>1 DEF CallInv
    <3>4. Calling' = Calling /\ Asked(call.op, call.arg) /\ Started
      BY <1>1, <1>2, <3>3 DEF Calling, CallInv, NoCall
    <3>5. Asked(call.op, call.arg)' = Asked(call.op, call.arg) /\ Started' = Started
      BY <1>3, <3>3 DEF Asked, CallOps, Slots, Started
    <3> QED BY <1>2, <1>3, <1>4, <2>2, <3>2, <3>3, <3>4, <3>5 DEF CallInv
  <2> QED BY <2>1, <2>2
<1>10. BrokenInv' /\ ~Live'
  BY <1>2, <1>3 DEF BrokenInv, Live
<1> QED
  BY <1>5, <1>8, <1>9, <1>10 DEF PoolInv

\* A call begins: every worker gets its part of it.
LEMMA AskStep ==
  ASSUME PoolInv, NEW op, NEW arg, Ask(op, arg, PayloadOf(op, arg)), Asked(op, arg),
         op = "persist" => Unwritten(arg),
         stage # "starting", stage' # "starting", UNCHANGED manifests,
         broken => op \in {"metrics", "shutdown"}
  PROVE  PoolInv'
<1> DEFINE message(u) == [op |-> op, arg |-> PayloadOf(op, arg)[u]]
<1>1. /\ Inboxes /\ Rooms /\ CallInv /\ PersistInv /\ Shapes /\ BrokenInv /\ (Live => LiveInv)
      /\ assignment \in [Slots -> Workers]
  BY ShapesTyped DEF PoolInv
<1>2. /\ ~Calling /\ era > 0 /\ ~closed
      /\ call' = [op |-> op, arg |-> arg, next |-> 0, got |-> <<>>]
      /\ closed' = (op = "shutdown")
      /\ commands' = [u \in Workers |->
           [commands[u] EXCEPT ![Coordinator] = Append(@, message(u))]]
      /\ UNCHANGED <<states, phase, doing, imports, results, assignment, answer, broken,
                     era, content, raises, files>>
  BY DEF Ask, Idle
<1>3. /\ call'.op = op /\ call'.arg = arg /\ call'.next = 0 /\ call'.got = <<>>
      /\ call' = [op |-> call'.op, arg |-> call'.arg, next |-> call'.next, got |-> call'.got]
  BY <1>2
<1>4. op # "none" /\ op \in CallOps
  BY DEF Asked, CallOps
<1>5. Workers' = Workers /\ Slots' = Slots /\ Coordinator' = Coordinator
      /\ CallOps' = CallOps
  BY DEF Workers, WorkerCount, Slots, Coordinator, CallOps
<1>6. Calling' /\ call' # NoCall
  BY <1>3, <1>4 DEF Calling, NoCall
<1>7. Started /\ Started'
  BY <1>2 DEF Started
<1> HIDE DEF message
<1>8. \A u \in Workers :
        /\ DOMAIN commands'[u] = Workers \cup {Coordinator}
        /\ commands'[u][Coordinator] = Append(commands[u][Coordinator], message(u))
        /\ \A v \in Workers : commands'[u][v] = commands[u][v]
  BY <1>1, <1>2, Sizes DEF Inboxes
<1>9. Inboxes'
  <2>1. ASSUME NEW u \in Workers PROVE IsSeq(commands'[u][Coordinator])
    <3>1. IsSeq(commands[u][Coordinator])
      BY <1>1 DEF Inboxes
    <3>2. IsSeq(Append(commands[u][Coordinator], message(u)))
      BY <3>1, SeqAppend
    <3>3. commands'[u][Coordinator] = Append(commands[u][Coordinator], message(u))
      BY <1>8
    <3> HIDE DEF IsSeq
    <3> QED BY <3>2, <3>3 DEF IsSeq
  <2> QED BY <1>2, <1>5, <1>8, <2>1 DEF Inboxes
<1>10. Shapes'
  <2>1. Rooms' /\ closed' \in BOOLEAN
    BY <1>1, <1>2, <1>5 DEF Rooms
  <2>2. broken' \in BOOLEAN /\ era' \in Nat /\ assignment' \in [Slots -> Workers]
    BY <1>1, <1>2 DEF Shapes
  <2> QED BY <1>5, <1>9, <2>1, <2>2 DEF Shapes
<1>11. CallInv'
  <2>1. Asked(call'.op, call'.arg)
    BY <1>3
  <2>2. Asked(call.op, call.arg)'
    BY <1>5, <2>1 DEF Asked
  <2>3. closed' <=> op = "shutdown"
    BY <1>2
  <2> QED BY <1>3, <1>5, <1>6, <1>7, <2>2, <2>3, Sizes DEF CallInv
<1>12. PersistInv'
  <2>1. \A key : Unwritten(key)' = Unwritten(key)
    BY DEF Unwritten
  <2>2. ASSUME NEW u \in Workers, phase[u] # "ended",
               NEW i \in DOMAIN commands'[u][Coordinator],
               commands'[u][Coordinator][i].op = "persist"
        PROVE  Unwritten(commands'[u][Coordinator][i].arg)
    <3> DEFINE q == commands[u][Coordinator]
               r == commands'[u][Coordinator]
    <3>1. IsSeq(q) /\ r = Append(q, message(u))
      BY <1>1, <1>8 DEF Inboxes
    <3>2. \A j \in DOMAIN q : q[j].op = "persist" => Unwritten(q[j].arg)
      BY <1>1, <2>2 DEF PersistInv
    <3>3. i \in DOMAIN r /\ r[i].op = "persist"
      BY <2>2
    <3>4. message(u).op = "persist" => Unwritten(message(u).arg)
      BY DEF message, PayloadOf, ForAll
    <3> HIDE DEF q, r
    <3>5. /\ IsSeq(r) /\ Len(r) = Len(q) + 1 /\ r[Len(q) + 1] = message(u)
          /\ \A j \in 1..Len(q) : r[j] = q[j]
      BY <3>1, SeqAppend
    <3>6. DOMAIN r = 1..Len(q) + 1 /\ DOMAIN q = 1..Len(q) /\ Len(q) \in Nat
      BY <3>1, <3>5, SeqIs
    <3>7. i \in 1..Len(q) \/ i = Len(q) + 1
      BY <3>3, <3>6
    <3>8. Unwritten(r[i].arg)
      BY <3>2, <3>3, <3>4, <3>5, <3>6, <3>7
    <3> QED BY <3>8 DEF r
  <2> QED BY <1>1, <1>2, <1>5, <2>1, <2>2 DEF PersistInv
<1>13. BrokenInv'
  <2> SUFFICES ASSUME broken', ~closed', Started'
      PROVE  /\ \E v \in Workers : phase'[v] = "ended" /\ results'[v] = <<>> /\ call'.next <= v
             /\ Calling' => call'.op = "metrics"
    BY <1>5 DEF BrokenInv
  <2>1. broken /\ op = "metrics"
    BY <1>2
  <2>2. PICK v \in Workers : phase[v] = "ended" /\ results[v] = <<>>
    BY <1>1, <1>2, <1>7, <2>1 DEF BrokenInv
  <2>3. 0 <= v
    BY <2>2, Sizes
  <2> QED BY <1>2, <1>3, <2>1, <2>2, <2>3
<1>14. ASSUME Live' PROVE LiveInv'
  <2>1. Live
    BY <1>2, <1>7, <1>14 DEF Live
  <2>2. (\A u \in Workers : InCall(u)) /\ InTransit
    BY <1>1, <2>1 DEF LiveInv
  <2>3. ~Balancing /\ call.op = "none"
    BY <1>2 DEF Calling, Balancing
  <2>4. \A u, v \in Workers : phase[u] # "ended" => commands[u][v] = <<>>
    BY <2>2, <2>3 DEF InTransit
  <2>5. ASSUME NEW u \in Workers PROVE InCall(u)' /\ (DeadOne(u) \/ (Ready(u) /\ Ready(u)'))
    <3>1. 0 <= u
      BY Sizes
    <3>2. CASE DeadOne(u)
      <4>1. DeadOne(u)'
        BY <1>2, <1>3, <3>1, <3>2 DEF DeadOne
      <4> QED BY <3>2, <4>1 DEF InCall
    <3>3. CASE Ready(u)
      <4>1. /\ commands[u][Coordinator] = <<>> /\ states[u] = Before(u) /\ imports[u] = <<>>
            /\ phase[u] \in {"serving", "loading"} /\ results[u] = <<>>
        BY <1>2, <2>3, <3>3 DEF Ready
      <4>2. Before(u)' = Before(u)
        BY <1>2, <1>5 DEF Before, Owned
      <4>3. commands'[u][Coordinator] = <<message(u)>>
        BY <1>8, <4>1, OneMessage
      <4>4. AskedOf(u)' = <<message(u)>>
        <5>1. PayloadOf(call.op, call.arg)' = PayloadOf(op, arg)
          <6>1. JobsOf(arg)' = JobsOf(arg) /\ ChildrenOf(arg)' = ChildrenOf(arg)
                /\ PlansOf(arg)' = PlansOf(arg) /\ ForAll(arg)' = ForAll(arg)
            BY <1>2 DEF JobsOf, ChildrenOf, PlansOf, ForAll, Children, Target, Stays, Room,
                        Capacity, Slots, Workers, WorkerCount
          <6>2. /\ JobsOf(call.arg)' = JobsOf(arg)' /\ ChildrenOf(call.arg)' = ChildrenOf(arg)'
                /\ PlansOf(call.arg)' = PlansOf(arg)' /\ ForAll(call.arg)' = ForAll(arg)'
            BY <1>3
          <6> QED BY <1>3, <6>1, <6>2 DEF PayloadOf
        <5> QED BY <1>3, <5>1 DEF AskedOf, message
      <4>5. imports'[u] = <<>> /\ DOMAIN imports'[u] = {}
        BY <1>2, <4>1, SeqEmpty
      <4>6. Ready(u)'
        BY <1>2, <1>3, <1>5, <1>6, <3>1, <4>1, <4>2, <4>3, <4>4, <4>5 DEF Ready
      <4> QED BY <3>3, <4>6 DEF InCall
    <3> QED BY <1>2, <2>2, <2>3, <3>2, <3>3 DEF InCall, Saving, Awaiting, Finished, Balancing
  <2>6. InTransit'
    <3>1. CASE op # "resample_balanced"
      BY <1>2, <1>3, <1>5, <1>8, <2>4, <3>1 DEF InTransit, Balancing
    <3>2. CASE op = "resample_balanced"
      <4>1. ASSUME NEW u \in Workers, NEW v \in Workers, phase'[u] # "ended"
            PROVE  Between(u, v)'
        <5>1. commands'[u][v] = <<>>
          BY <1>2, <1>8, <2>4, <4>1
        <5>2. IsSeq(commands'[u][v]) /\ DOMAIN commands'[u][v] = {}
          BY <5>1, SeqEmpty
        <5>3. Ready(u)'
          BY <1>2, <2>5, <4>1 DEF DeadOne
        <5>4. phase'[u] # "importing" /\ commands'[u][Coordinator] # <<>>
          BY <5>3, <1>5, <1>6, OneMessage DEF Ready, AskedOf
        <5>5. imports'[u] = <<>>
          BY <1>2, <2>3, <2>5, <4>1 DEF Ready, DeadOne
        <5>6. GotBy(u)' = {}
          BY <1>5, <5>4, <5>5, SeqEmpty DEF GotBy
        <5> QED BY <1>5, <5>1, <5>2, <5>6 DEF Between, IsSeq, Range
      <4> QED BY <1>3, <1>5, <3>2, <4>1 DEF InTransit, Balancing
    <3> QED BY <3>1, <3>2
  <2> QED BY <1>3, <1>5, <2>5, <2>6, SeqEmpty DEF LiveInv, IsSeq, Range
<1> QED
  BY <1>10, <1>11, <1>12, <1>13, <1>14 DEF PoolInv

LEMMA EmptyInboxes ==
  ASSUME commands' = NoCommands
  PROVE  Inboxes' /\ \A u \in Workers : \A x \in Workers \cup {Coordinator} : commands'[u][x] = <<>>
<1>1. Workers' = Workers /\ Coordinator' = Coordinator
  BY DEF Workers, WorkerCount, Coordinator
<1> QED
  BY <1>1, SeqEmpty DEF NoCommands, Inboxes, IsSeq, Range

\* A call is over, or there was none.
LEMMA NoCallInv ==
  ASSUME call' = NoCall
  PROVE  CallInv'
<1>1. /\ call'.op = "none" /\ call'.next = 0
      /\ call' = [op |-> call'.op, arg |-> call'.arg, next |-> call'.next, got |-> call'.got]
  BY DEF NoCall
<1>2. Workers' = Workers
  BY DEF Workers, WorkerCount
<1> QED
  BY <1>1, <1>2, Sizes DEF CallInv, Calling, NoCall

LEMMA OpenStep ==
  ASSUME Rooms, era \in Nat, NEW initial, NEW first \in {"serving", "loading"}, Open(initial, first)
  PROVE  PoolInv' /\ call' = NoCall /\ ~broken'
<1>1. /\ era' = era + 1
      /\ states' = [w \in Workers |-> Restrict(initial, {s \in Slots : s % WorkerCount = w})]
      /\ assignment' = [s \in Slots |-> s % WorkerCount]
      /\ phase' = [w \in Workers |-> first]
      /\ doing' = ForAll(Nothing) /\ imports' = ForAll(<<>>) /\ results' = ForAll(<<>>)
      /\ commands' = NoCommands
      /\ content' = initial
      /\ call' = NoCall /\ answer' = Nothing /\ broken' = FALSE /\ closed' = FALSE
      /\ UNCHANGED files
  BY DEF Open
<1>2. Workers' = Workers /\ Slots' = Slots /\ Coordinator' = Coordinator
  BY DEF Workers, WorkerCount, Slots, Coordinator
<1>3. Inboxes' /\ \A u \in Workers : \A x \in Workers \cup {Coordinator} : commands'[u][x] = <<>>
  BY <1>1, EmptyInboxes
<1>4. \A u \in Workers : /\ phase'[u] = first /\ results'[u] = <<>> /\ imports'[u] = <<>>
                         /\ commands'[u][Coordinator] = <<>>
  BY <1>1, <1>3 DEF ForAll
<1>5. assignment' \in [Slots -> Workers]
  <2>1. \A s \in Slots : s % WorkerCount \in Workers
    BY Sizes, Division DEF Workers
  <2> QED BY <1>1, <2>1
<1>6. Shapes'
  <2>1. Rooms'
    BY <1>1, <1>2 DEF Rooms, ForAll
  <2>2. era' \in Nat /\ broken' \in BOOLEAN /\ closed' \in BOOLEAN
    <3>1. era' \in Nat
      BY <1>1
    <3>2. broken' = FALSE /\ closed' = FALSE
      BY <1>1
    <3> QED BY <3>1, <3>2
  <2> QED BY <1>2, <1>3, <1>5, <2>1, <2>2 DEF Shapes
<1>7. CallInv'
  BY <1>1, NoCallInv
<1>8. BrokenInv'
  BY <1>1 DEF BrokenInv
<1>9. PersistInv'
  <2>1. \A u \in Workers : DOMAIN commands'[u][Coordinator] = {} /\ phase'[u] # "persisting"
    BY <1>4, SeqEmpty
  <2> QED BY <1>2, <2>1 DEF PersistInv
<1>10. ~Calling' /\ ~Balancing' /\ call'.next = 0 /\ call'.got = <<>>
  BY <1>1 DEF Calling, Balancing, NoCall
<1>11. ASSUME NEW u \in Workers PROVE InCall(u)'
  <2>1. 0 <= u
    BY Sizes
  <2>2. Owned(u)' = {s \in Slots : s % WorkerCount = u}
    BY <1>1, <1>2 DEF Owned
  <2>3. states'[u] = [s \in {s \in Slots : s % WorkerCount = u} |-> initial[s]]
    BY <1>1 DEF Restrict
  <2>4. states'[u] = Before(u)'
    BY <1>1, <2>2, <2>3 DEF Before
  <2>5. Ready(u)'
    BY <1>2, <1>4, <1>10, <2>1, <2>4 DEF Ready
  <2> QED BY <2>5 DEF InCall
<1>12. InTransit'
  BY <1>2, <1>3, <1>10 DEF InTransit
<1>13. LiveInv'
  BY <1>2, <1>10, <1>11, <1>12, SeqEmpty DEF LiveInv, IsSeq, Range
<1> QED
  BY <1>1, <1>6, <1>7, <1>8, <1>9, <1>13 DEF PoolInv

LEMMA KilledStep ==
  ASSUME PoolInv, Killed, stage' = "starting"
  PROVE  PoolInv'
<1>1. /\ phase' = ForAll("ended")
      /\ doing' = ForAll(Nothing) /\ imports' = ForAll(<<>>) /\ results' = ForAll(<<>>)
      /\ commands' = NoCommands
      /\ call' = NoCall /\ broken' = (broken \/ Calling) /\ closed' = FALSE
      /\ UNCHANGED <<states, assignment, answer, era, content, raises, files>>
  BY DEF Killed
<1>2. Workers' = Workers /\ Slots' = Slots
  BY DEF Workers, WorkerCount, Slots
<1>3. Inboxes'
  BY <1>1, EmptyInboxes
<1>4. broken' \in BOOLEAN
  BY <1>1
<1>5. Shapes'
  <2>1. Rooms /\ era \in Nat /\ assignment \in [Slots -> Workers]
    BY ShapesTyped DEF PoolInv
  <2>2. Rooms'
    BY <1>1, <1>2, <2>1 DEF Rooms, ForAll
  <2>3. era' \in Nat /\ assignment' \in [Slots -> Workers] /\ closed' \in BOOLEAN
    BY <1>1, <2>1
  <2> QED BY <1>2, <1>3, <1>4, <2>2, <2>3 DEF Shapes
<1>6. ~Started'
  BY DEF Started
<1>7. CallInv'
  BY <1>1, NoCallInv
<1>8. PersistInv'
  BY <1>1, <1>2 DEF PersistInv, ForAll
<1> QED
  BY <1>5, <1>6, <1>7, <1>8 DEF PoolInv, BrokenInv, Live

LEMMA PoolStart ==
  ASSUME Init
  PROVE  PoolInv
<1>1. /\ era = 0 /\ phase = ForAll("ended") /\ states = ForAll(<<>>)
      /\ doing = ForAll(Nothing) /\ imports = ForAll(<<>>) /\ results = ForAll(<<>>)
      /\ commands = NoCommands
      /\ assignment = [s \in Slots |-> s % WorkerCount]
      /\ call = NoCall /\ broken = FALSE /\ closed = FALSE
      /\ files = [place \in Keys \X Slots |-> Nothing]
  BY DEF Init, PoolInit
<1>2. assignment \in [Slots -> Workers]
  <2>1. \A s \in Slots : s % WorkerCount \in Workers
    BY Sizes, Division DEF Workers
  <2> QED BY <1>1, <2>1
<1>3. Inboxes
  BY <1>1, SeqEmpty DEF NoCommands, Inboxes
<1>4. Shapes
  BY <1>1, <1>2, <1>3 DEF Shapes, Rooms, ForAll
<1>5. /\ call.op = "none" /\ call.next = 0
      /\ call = [op |-> call.op, arg |-> call.arg, next |-> call.next, got |-> call.got]
  BY <1>1 DEF NoCall
<1>6. CallInv
  BY <1>1, <1>5, Sizes DEF CallInv, Calling
<1>7. ~Started
  BY <1>1 DEF Started
<1>8. PersistInv
  BY <1>1 DEF PersistInv, ForAll
<1> QED
  BY <1>4, <1>6, <1>7, <1>8 DEF PoolInv, BrokenInv, Live

\* Between calls every worker that lives is at rest.
LEMMA AtRest ==
  ASSUME PoolInv, Idle, ~broken, stage # "starting"
  PROVE  /\ Live
         /\ \A u \in Workers : phase[u] # "ended" => Ready(u) /\ commands[u][Coordinator] = <<>>
         /\ \A u, v \in Workers : phase[u] # "ended" => commands[u][v] = <<>>
<1>1. Live
  BY DEF Live, Idle, Started
<1>2. LiveInv /\ ~Calling
  BY <1>1 DEF PoolInv, Idle
<1>3. ~Balancing /\ call.op = "none"
  BY <1>2 DEF Calling, Balancing
<1>4. ASSUME NEW u \in Workers, phase[u] # "ended"
      PROVE  Ready(u) /\ commands[u][Coordinator] = <<>>
  <2>1. InCall(u)
    BY <1>2 DEF LiveInv
  <2>2. Ready(u)
    BY <1>2, <1>3, <1>4, <2>1 DEF InCall, DeadOne, Saving, Awaiting, Finished
  <2> QED BY <1>2, <2>2 DEF Ready
<1>5. \A u, v \in Workers : phase[u] # "ended" => commands[u][v] = <<>>
  BY <1>2, <1>3 DEF LiveInv, InTransit
<1> QED
  BY <1>1, <1>4, <1>5

\* A step of the program that leaves its pool alone; what it publishes is not
\* what a worker is to write.
LEMMA AloneStep ==
  ASSUME PoolInv, UNCHANGED poolVars, stage = "starting" <=> stage' = "starting",
         UNCHANGED manifests \/ (Idle /\ ~broken /\ stage # "starting")
  PROVE  PoolInv'
<1>1. UNCHANGED <<states, phase, doing, imports, commands, results, call, assignment, answer,
                  broken, closed, era, content, raises, files>>
  BY DEF poolVars, workerVars, coordinatorVars
<1>2. Workers' = Workers /\ Slots' = Slots /\ Coordinator' = Coordinator /\ Started' = Started
  BY <1>1 DEF Workers, WorkerCount, Slots, Coordinator, Started
<1>3. Same /\ call' = call
  BY <1>1 DEF Same
<1>4. Shapes'
  BY <1>1, <1>2 DEF PoolInv, Shapes, Inboxes, Rooms, IsSeq, Range
<1>5. CallInv'
  BY <1>1, <1>2 DEF PoolInv, CallInv, NoCall, Calling, Asked, Slots, CallOps
<1>6. BrokenInv'
  BY <1>1, <1>2 DEF PoolInv, BrokenInv, Calling
<1>7. PersistInv'
  <2>1. CASE UNCHANGED manifests
    BY <1>1, <2>1, PersistStays DEF PoolInv
  <2>2. CASE Idle /\ ~broken /\ stage # "starting"
    <3>1. \A u \in Workers : phase[u] # "ended" =>
             DOMAIN commands[u][Coordinator] = {} /\ phase[u] # "persisting"
      BY <2>2, AtRest, SeqEmpty DEF Ready
    <3> QED BY <1>1, <1>2, <3>1 DEF PersistInv
  <2> QED BY <2>1, <2>2
<1>8. ASSUME Live PROVE LiveInv'
  <2>1. LiveInv
    BY <1>8 DEF PoolInv
  <2>2. ASSUME NEW u \in Workers PROVE InCall(u)'
    <3>1. InCall(u) /\ Unmoved(u)
      BY <1>1, <2>1 DEF LiveInv, Unmoved
    <3> QED BY <1>1, <1>3, <3>1, StaysInCall
  <2>3. InTransit'
    <3>1. ASSUME NEW u \in Workers, NEW v \in Workers PROVE Between(u, v)' = Between(u, v)
      <4>1. /\ Share(u)' = Share(u) /\ Children(v, call.arg)' = Children(v, call.arg)
        BY <1>3, SameGoal, SameLayout
      <4>2. GotBy(u)' = GotBy(u)
        BY <1>1, <1>2, <4>1 DEF GotBy
      <4> QED BY <1>1, <1>2, <4>1, <4>2 DEF Between, IsBundle, IsSeq, Range
    <3>2. Balancing' = Balancing
      BY <1>3, SameLayout
    <3> QED BY <1>1, <1>2, <2>1, <3>1, <3>2 DEF LiveInv, InTransit
  <2> QED BY <1>1, <1>2, <2>1, <2>2, <2>3 DEF LiveInv, IsSeq, Range
<1>9. Live' = Live
  BY <1>1, <1>2 DEF Live
<1> QED
  BY <1>4, <1>5, <1>6, <1>7, <1>8, <1>9 DEF PoolInv

-----------------------------------------------------------------------------
(* The filter of an uninterrupted serial run, week by week.                *)

OneWeek(before, w) ==
  LET moved == [s \in Slots |-> Store!Advanced(before[s], w)]
  IN IF draws[w] = <<>> THEN moved ELSE [s \in Slots |-> Store!Forked(moved[draws[w][s]], s)]

LEMMA ReferenceStays ==
  ASSUME UNCHANGED draws
  PROVE  Reference' = Reference
BY DEF Reference, Store!Advanced, Store!Forked, Roots, Slots

\* There are as many weeks of it as the filter has.
LEMMA WeeksExist ==
  \A n \in Nat : \E f : /\ DOMAIN f = 0..n /\ f[0] = Roots
                        /\ \A w \in 1..n : f[w] = OneWeek(f[w - 1], w)
<1> DEFINE Good(f, n) == /\ DOMAIN f = 0..n /\ f[0] = Roots
                         /\ \A w \in 1..n : f[w] = OneWeek(f[w - 1], w)
           T == {n \in Nat : \E f : Good(f, n)}
<1>1. 0 \in T
  <2>1. Good([w \in 0..0 |-> Roots], 0)
    OBVIOUS
  <2> QED BY <2>1
<1>2. ASSUME NEW n \in Nat, n \in T PROVE n + 1 \in T
  <2>1. PICK f : Good(f, n)
    BY <1>2
  <2> DEFINE g == [w \in 0..n + 1 |-> IF w = n + 1 THEN OneWeek(f[n], n + 1) ELSE f[w]]
  <2>2. DOMAIN g = 0..n + 1 /\ g[0] = Roots
    BY <2>1
  <2>3. ASSUME NEW w \in 1..n + 1 PROVE g[w] = OneWeek(g[w - 1], w)
    <3>1. g[w - 1] = f[w - 1] /\ w \in 0..n + 1
      BY <2>1
    <3>2. CASE w = n + 1
      <4>1. g[w] = OneWeek(f[n], n + 1) /\ w - 1 = n
        BY <3>2
      <4> HIDE DEF g
      <4> QED BY <3>1, <3>2, <4>1
    <3>3. CASE w # n + 1
      <4>1. g[w] = f[w] /\ w \in 1..n
        BY <3>3
      <4> HIDE DEF g
      <4> QED BY <2>1, <3>1, <4>1
    <3> QED BY <3>2, <3>3
  <2> HIDE DEF g
  <2>4. Good(g, n + 1)
    BY <2>2, <2>3
  <2> HIDE DEF Good
  <2> QED BY <2>4
<1>3. \A n \in Nat : n \in T
  <2> HIDE DEF T
  <2> QED BY <1>1, <1>2, Induction
<1> QED
  BY <1>3

LEMMA ReferenceIs ==
  /\ Reference[0] = Roots
  /\ \A w \in 1..Weeks : Reference[w] = OneWeek(Reference[w - 1], w)
<1> DEFINE G(f) == [w \in 0..Weeks |-> IF w = 0 THEN Roots ELSE OneWeek(f[w - 1], w)]
<1>1. Reference = CHOOSE f : f = G(f)
  BY DEF Reference, OneWeek
<1>2. Weeks \in Nat
  BY RunnerAssumption
<1>3. PICK f : /\ DOMAIN f = 0..Weeks /\ f[0] = Roots
               /\ \A w \in 1..Weeks : f[w] = OneWeek(f[w - 1], w)
  BY <1>2, WeeksExist
<1> DEFINE g == [w \in 0..Weeks |-> f[w]]
<1>4. g = G(g)
  <2>1. ASSUME NEW w \in 0..Weeks PROVE g[w] = IF w = 0 THEN Roots ELSE OneWeek(g[w - 1], w)
    <3>1. w # 0 => w \in 1..Weeks /\ w - 1 \in 0..Weeks
      BY <1>2
    <3>2. w # 0 => g[w - 1] = f[w - 1]
      BY <3>1
    <3> QED BY <1>3, <3>1, <3>2
  <2> QED BY <2>1
<1>5. Reference = G(Reference)
  <2> HIDE DEF G
  <2>1. \E h : h = G(h)
    BY <1>4
  <2> QED BY <1>1, <2>1
<1>6. ASSUME NEW w \in 0..Weeks
      PROVE  Reference[w] = IF w = 0 THEN Roots ELSE OneWeek(Reference[w - 1], w)
  BY <1>5
<1>7. Reference[0] = Roots
  BY <1>2, <1>6
<1>8. \A w \in 1..Weeks : w \in 0..Weeks /\ w # 0
  BY <1>2
<1> QED
  BY <1>6, <1>7, <1>8

LEMMA ReferenceTyped ==
  ASSUME NEW w \in 0..Weeks
  PROVE  Reference[w] = [s \in Slots |-> Reference[w][s]]
<1>1. CASE w = 0
  BY <1>1, ReferenceIs DEF Roots
<1>2. CASE w # 0
  <2>1. w \in 1..Weeks
    BY <1>2, RunnerAssumption
  <2>2. Reference[w] = OneWeek(Reference[w - 1], w)
    BY <2>1, ReferenceIs
  <2> QED BY <2>2 DEF OneWeek
<1> QED
  BY <1>1, <1>2

\* The last restart that there is.
LEMMA LastRestart ==
  ASSUME Restarts # {}
  PROVE  /\ Max(Restarts) \in Restarts
         /\ \A key \in Restarts : key <= Max(Restarts)
<1>1. Weeks \in Nat /\ Restarts \subseteq 1..Weeks
  BY RunnerAssumption DEF Restarts
<1>2. \E m \in Restarts : \A key \in Restarts : key <= m
  <2> DEFINE T == {Weeks - key : key \in Restarts}
  <2>1. T \subseteq Nat /\ T # {}
    <3>1. \A key \in Restarts : Weeks - key \in Nat
      BY <1>1
    <3>2. PICK key \in Restarts : TRUE
      OBVIOUS
    <3> QED BY <3>1, <3>2
  <2>2. PICK m \in T : \A n \in T : m <= n
    <3> HIDE DEF T
    <3> QED BY <2>1, LeastExists
  <2>3. PICK k \in Restarts : m = Weeks - k
    BY <2>2
  <2>4. \A key \in Restarts : Weeks - key \in T
    OBVIOUS
  <2>5. ASSUME NEW key \in Restarts PROVE key <= k
    <3>1. Weeks - k <= Weeks - key
      BY <2>2, <2>3, <2>4
    <3>2. k \in Int /\ key \in Int
      BY <1>1
    <3> QED BY <1>1, <3>1, <3>2
  <2> QED BY <2>5
<1> QED
  BY <1>2 DEF Max

-----------------------------------------------------------------------------
(* What a step of the pool leaves as it was.                               *)

LEMMA StudyStays ==
  ASSUME StudyInv, FrontInv, UNCHANGED <<stage, week, draws, picks, enough, metadata, manifests>>,
         closed' => closed \/ stage \in {"closed", "over", "any"},
         era \in Nat, era' \in Nat, era' >= era
  PROVE  StudyInv' /\ FrontInv'
<1>1. Training' = Training /\ Ending' = Ending /\ Slots' = Slots /\ Posterior' = Posterior
  BY DEF Training, Ending, Slots, Posterior
<1>2. StudyInv'
  <2>1. stage \notin {"starting", "any"} => era' > 0
    BY DEF StudyInv
  <2>2. closed' => stage \in {"closed", "over", "any"}
    BY DEF StudyInv
  <2> QED BY <1>1, <2>1, <2>2 DEF StudyInv
<1>3. FrontInv'
  BY <1>1 DEF FrontInv
<1> QED
  BY <1>2, <1>3

LEMMA PublishedStays ==
  ASSUME PublishedInv, UNCHANGED <<stage, draws, metadata, manifests>>,
         \A key \in Keys : manifests[key] # Nothing =>
           \A s \in Slots : files'[<<key, s>>] = files[<<key, s>>]
  PROVE  PublishedInv'
<1>1. Reference' = Reference /\ Slots' = Slots /\ \A key : WeekOf(key)' = WeekOf(key)
  BY ReferenceStays DEF Slots, WeekOf, Posterior
<1> QED
  BY <1>1 DEF PublishedInv

LEMMA TrajectoryStays ==
  ASSUME UNCHANGED <<draws, picks>>, NEW j
  PROVE  Trajectory(j)' = Trajectory(j)
BY ReferenceStays DEF Trajectory, Store!Forked

LEMMA ForecastStays ==
  ASSUME ForecastInv, UNCHANGED <<stage, draws, picks, enough, forecast>>, broken => broken'
  PROVE  ForecastInv'
<1>1. Training' = Training /\ Ending' = Ending /\ \A j : Trajectory(j)' = Trajectory(j)
  BY TrajectoryStays DEF Training, Ending
<1>2. IsSeq(forecast)' = IsSeq(forecast)
  BY DEF IsSeq, Range
<1> QED
  BY <1>1, <1>2 DEF ForecastInv

LEMMA ComingStays ==
  ASSUME UNCHANGED draws, NEW at, Coming(at), \A s \in Slots : Gets(s)' = Gets(s)
  PROVE  Coming(at)'
<1>1. Slots' = Slots /\ Reference' = Reference
  BY ReferenceStays DEF Slots
<1> QED
  BY <1>1 DEF Coming

LEMMA FilterStays ==
  ASSUME FilterInv, BatchInv, Same, UNCHANGED <<runVars, answer>>,
         ~Calling => UNCHANGED files
  PROVE  FilterInv' /\ BatchInv'
<1>1. UNCHANGED <<stage, week, draws, picks, metadata, forecast>>
  BY DEF runVars, studyVars
<1>2. Slots' = Slots /\ Reference' = Reference /\ Posterior' = Posterior /\ Weeks' = Weeks
      /\ WorkerCount' = WorkerCount
  BY <1>1, ReferenceStays DEF Slots, Posterior, WorkerCount
<1>3. Calling' = Calling /\ \A s : Gets(s)' = Gets(s) /\ FileOf(s)' = FileOf(s)
  BY SameLayout, SameGoal
<1>4. \A at : Coming(at)' = Coming(at)
  BY <1>2, <1>3 DEF Coming
<1>5. ASSUME NEW key PROVE Written(key) => Written(key)'
  BY <1>1, <1>2, <1>3 DEF Written, Same
<1>6. \A s \in Slots : (Store!Advanced(Reference[week][s], week + 1))'
                         = Store!Advanced(Reference[week][s], week + 1)
  BY <1>1, <1>2 DEF Store!Advanced
<1>7. FilterInv'
  BY <1>1, <1>2, <1>3, <1>4, <1>5, <1>6 DEF FilterInv, Same
<1>8. BatchSize' = BatchSize /\ \A j : Trajectory(j)' = Trajectory(j)
  BY <1>1, <1>2, TrajectoryStays DEF BatchSize, Least
<1>9. BatchInv'
  BY <1>1, <1>2, <1>3, <1>8 DEF BatchInv, Same
<1> QED
  BY <1>7, <1>9

\* There is nothing to say of the filter before the pool is open and after the forecast.
LEMMA NoFilter ==
  ASSUME stage' \in Ending \cup {"starting", "any"}
  PROVE  FilterInv' /\ BatchInv'
BY DEF FilterInv, BatchInv, Ending

\* A batch is of trajectories that there are, of members that there are.
LEMMA BatchTyped ==
  ASSUME StudyInv, ForecastInv, stage \in {"forecasting", "consuming"}
  PROVE  /\ Len(forecast) \in Nat /\ BatchSize \in Nat /\ enough \in Nat
         /\ Len(forecast) < enough /\ Len(forecast) + BatchSize <= MaxTrajectories
         /\ \A j \in 1..BatchSize : picks[Len(forecast) + j] \in Slots
<1>1. /\ picks \in [1..MaxTrajectories -> Slots] /\ enough \in 1..MaxTrajectories
      /\ MaxTrajectories \in Nat
  BY RunnerAssumption DEF StudyInv
<1>2. Len(forecast) \in Nat
  BY SeqIs DEF ForecastInv
<1>3. Len(forecast) < enough
  BY DEF ForecastInv
<1>4. WorkerCount \in Nat /\ 2 * WorkerCount \in Nat
  BY Sizes
<1>5. MaxTrajectories - Len(forecast) \in Nat
  BY <1>1, <1>2, <1>3
<1>6. BatchSize \in Nat /\ BatchSize <= MaxTrajectories - Len(forecast)
  BY <1>4, <1>5, LeastIs DEF BatchSize, Least
<1>7. \A j \in 1..BatchSize : Len(forecast) + j \in 1..MaxTrajectories
  BY <1>1, <1>2, <1>6
<1> QED
  BY <1>1, <1>2, <1>3, <1>6, <1>7

\* A call that returns has done what was to come of it.
LEMMA ReturnStep ==
  ASSUME PoolInv, RunInv, Live, FilterInv, BatchInv, Receive, ~Misfits, NEW w \in Workers,
         w = call.next, w + 1 = WorkerCount, UNCHANGED runVars
  PROVE  FilterInv' /\ BatchInv'
<1>1. UNCHANGED <<stage, week, draws, picks, enough, metadata, manifests, forecast>>
  BY DEF runVars, studyVars
<1>2. /\ call' = NoCall /\ content' = [s \in Slots |-> Gets(s)]
      /\ call.op \in {"propagate", "snapshot", "summarize", "persist", "evaluate_nonmutating"} =>
           answer' = [op |-> call.op, got |-> AllReplies]
      /\ call.op = "persist" => \A s \in Slots : files[<<call.arg, s>>] = FileOf(s)
  BY HeardAll
<1>3. UNCHANGED <<files, era>> /\ Calling
  BY DEF Receive
<1>4. ~Calling' /\ call'.op = "none"
  BY <1>2 DEF Calling, NoCall
<1>5. Slots' = Slots /\ Reference' = Reference /\ Posterior' = Posterior /\ Weeks' = Weeks
      /\ WorkerCount' = WorkerCount
  BY <1>1, ReferenceStays DEF Slots, Posterior, WorkerCount
<1>6. \A s \in Slots : Gets(s)' = Gets(s)
  BY <1>2, <1>4 DEF Gets
<1>7. \A at : Coming(at)' = Coming(at)
  BY <1>5, <1>6 DEF Coming
<1>8. ASSUME NEW key, Written(key) PROVE Written(key)'
  <2>1. call.op = "persist" /\ call.arg = key
    BY <1>3, <1>8 DEF Written
  <2>2. \A s \in Slots : Gets(s) = content[s]
    BY <2>1 DEF Gets
  <2>3. \A s \in Slots : FileOf(s)' = FileOf(s)
    BY <1>2, <1>3, <2>2 DEF FileOf
  <2>4. answer'.got = [s \in Slots |-> FileOf(s)]
    BY <1>2, <2>1 DEF AllReplies
  <2>5. /\ answer'.got = [s \in Slots |-> FileOf(s)']
        /\ \A s \in Slots : files'[<<key, s>>] = FileOf(s)'
    BY <1>2, <1>3, <2>1, <2>3, <2>4
  <2>6. metadata'[key] = [week |-> week', era |-> era']
    BY <1>1, <1>3, <1>8 DEF Written
  <2> QED BY <1>4, <1>5, <2>5, <2>6 DEF Written
<1>9. \A s \in Slots : (Store!Advanced(Reference[week][s], week + 1))'
                         = Store!Advanced(Reference[week][s], week + 1)
  BY <1>1, <1>5 DEF Store!Advanced
<1>10. FilterInv'
  BY <1>1, <1>4, <1>5, <1>6, <1>7, <1>8, <1>9 DEF FilterInv
<1>11. BatchInv'
  <2> SUFFICES ASSUME stage = "consuming"
      PROVE  answer'.got = [j \in 1..BatchSize |-> Trajectory(Len(forecast) + j)]'
    BY <1>1, <1>4 DEF BatchInv
  <2>1. /\ call.op = "evaluate_nonmutating"
        /\ call.arg = [j \in 1..BatchSize |-> [slot |-> picks[Len(forecast) + j],
                                               sample |-> Len(forecast) + j]]
        /\ Coming(Weeks)
    BY <1>3 DEF BatchInv, FilterInv
  <2>2. answer'.got = [j \in DOMAIN call.arg |->
                         Store!Forked(content[call.arg[j].slot], call.arg[j].sample)]
    BY <1>2, <2>1 DEF AllReplies
  <2>3. \A s \in Slots : content[s] = Reference[Weeks][s]
    BY <2>1 DEF Coming, Gets
  <2>4. \A j \in 1..BatchSize : call.arg[j].slot = picks[Len(forecast) + j]
                                /\ call.arg[j].sample = Len(forecast) + j
    BY <2>1
  <2>5. \A j \in 1..BatchSize : picks[Len(forecast) + j] \in Slots
    BY BatchTyped DEF RunInv
  <2>6. \A j \in 1..BatchSize : Store!Forked(content[call.arg[j].slot], call.arg[j].sample)
                                  = Trajectory(Len(forecast) + j)
    BY <2>3, <2>4, <2>5 DEF Trajectory, Store!Forked
  <2>7. answer'.got = [j \in 1..BatchSize |-> Trajectory(Len(forecast) + j)]
    BY <2>1, <2>2, <2>6
  <2>8. BatchSize' = BatchSize /\ \A j : Trajectory(j)' = Trajectory(j)
    BY <1>1, <1>5, TrajectoryStays DEF BatchSize, Least
  <2> QED BY <1>1, <2>7, <2>8
<1> QED
  BY <1>10, <1>11

\* A worker's step, and the coordinator's.
LEMMA WorksStep ==
  ASSUME PoolInv, RunInv, NEW w \in Workers, Works(w)
  PROVE  PoolInv' /\ RunInv'
<1>1. Worker(w) /\ UNCHANGED runVars
  BY DEF Works
<1>2. UNCHANGED <<stage, week, draws, picks, enough, metadata, manifests, forecast>>
  BY <1>1 DEF runVars, studyVars
<1>3. PoolInv'
  BY <1>1, <1>2, WorkerStep
<1>4. /\ Inboxes /\ Rooms /\ CallInv /\ PersistInv /\ era \in Nat /\ (Live => LiveInv)
  BY ShapesTyped DEF PoolInv
<1>5. Alone(w)
  BY <1>1, <1>4, WorkerAlone
<1>6. /\ UNCHANGED <<call, assignment, answer, broken, closed, era, content>>
      /\ phase[w] # "ended"
  BY <1>5 DEF Alone, coordinatorVars
<1>7. files' = files \/ (PersistSlot(w) /\ phase[w] = "persisting")
  BY <1>1 DEF Worker, Load, Raises, Refuses, Ends, Propagate, Evaluate, Resample,
              ResampleBalanced, Persist, Persisted, PersistSlot, Shutdown, Read, Import, Serving
<1>8. StudyInv' /\ FrontInv'
  BY <1>2, <1>4, <1>6, StudyStays DEF RunInv
<1>9. ForecastInv'
  BY <1>2, <1>6, ForecastStays DEF RunInv
<1>10. PublishedInv'
  <2>1. ASSUME NEW key \in Keys, manifests[key] # Nothing, NEW s \in Slots
        PROVE  files'[<<key, s>>] = files[<<key, s>>]
    <3>1. CASE files' = files
      BY <3>1
    <3>2. CASE PersistSlot(w) /\ phase[w] = "persisting"
      <4>1. doing[w].key # key
        BY <1>4, <1>6, <2>1, <3>2 DEF PersistInv, Unwritten
      <4>2. PICK slot, file : files' = [files EXCEPT ![<<doing[w].key, slot>>] = file]
        BY <3>2 DEF PersistSlot
      <4> QED BY <1>4, <4>1, <4>2 DEF Rooms
    <3> QED BY <1>7, <3>1, <3>2
  <2> QED BY <1>2, <2>1, PublishedStays DEF RunInv
<1>11. ASSUME ~broken PROVE FilterInv' /\ BatchInv'
  <2>1. CASE stage \in Ending \cup {"starting", "any"}
    BY <1>2, <2>1, NoFilter DEF Ending
  <2>2. CASE stage \notin Ending \cup {"starting", "any"}
    <3>1. Live
      BY <1>11, <2>2 DEF RunInv, StudyInv, Live, Started, Ending
    <3>2. ~Calling => UNCHANGED files
      <4>1. ~Calling => Idle /\ stage # "starting"
        BY <3>1 DEF Idle, Live, Started
      <4>2. ~Calling => phase[w] # "persisting"
        BY <1>6, <1>11, <4>1, AtRest DEF Ready
      <4> QED BY <1>7, <4>2
    <3>3. Same
      BY <1>6 DEF Same
    <3> QED BY <1>1, <1>6, <1>11, <3>2, <3>3, FilterStays DEF RunInv
  <2> QED BY <2>1, <2>2
<1> QED
  BY <1>3, <1>6, <1>8, <1>9, <1>10, <1>11 DEF RunInv

LEMMA JoinStep ==
  ASSUME PoolInv, RunInv, Joins, UNCHANGED runVars
  PROVE  PoolInv' /\ RunInv'
<1>1. UNCHANGED <<stage, week, draws, picks, enough, metadata, manifests, forecast>>
  BY DEF runVars, studyVars
<1>2. PoolInv'
  BY <1>1, JoinsStep
<1>3. /\ era \in Nat /\ UNCHANGED <<closed, era, files>> /\ (broken => broken') /\ closed
  <2>1. Calling /\ call.op = "shutdown" /\ CallInv
    BY DEF Joins, PoolInv
  <2>2. closed
    BY <2>1 DEF CallInv
  <2>3. UNCHANGED <<closed, era, files>> /\ (UNCHANGED broken \/ broken' = TRUE)
    BY DEF Joins
  <2>4. broken => broken'
    BY <2>3
  <2> QED BY <2>2, <2>3, <2>4, ShapesTyped DEF PoolInv
<1>4. StudyInv' /\ FrontInv'
  BY <1>1, <1>3, StudyStays DEF RunInv
<1>5. ForecastInv'
  BY <1>1, <1>3, ForecastStays DEF RunInv
<1>6. PublishedInv'
  BY <1>1, <1>3, PublishedStays DEF RunInv
<1>7. stage' \in Ending \cup {"starting", "any"}
  BY <1>1, <1>3 DEF RunInv, StudyInv, Ending
<1> QED
  BY <1>2, <1>4, <1>5, <1>6, <1>7, NoFilter DEF RunInv

LEMMA ReceivesStep ==
  ASSUME PoolInv, RunInv, Receive, UNCHANGED runVars
  PROVE  PoolInv' /\ RunInv'
<1>1. UNCHANGED <<stage, week, draws, picks, enough, metadata, manifests, forecast>>
  BY DEF runVars, studyVars
<1>2. PoolInv'
  BY <1>1, ReceiveStep
<1>3. /\ era \in Nat /\ CallInv /\ BrokenInv /\ UNCHANGED <<closed, era, files>>
      /\ Calling /\ call.op # "shutdown"
  BY ShapesTyped DEF PoolInv, Receive
<1>4. PICK w \in Workers : w = call.next
  BY <1>3 DEF CallInv
<1>5. ~closed /\ Started
  BY <1>3 DEF CallInv, Calling, NoCall
<1>6. w + 1 < WorkerCount \/ w + 1 = WorkerCount
  BY Sizes DEF Workers
<1>7. broken => broken'
  BY <1>4 DEF Receive
<1>8. StudyInv' /\ FrontInv'
  BY <1>1, <1>3, StudyStays DEF RunInv
<1>9. ForecastInv'
  BY <1>1, <1>7, ForecastStays DEF RunInv
<1>10. PublishedInv'
  BY <1>1, <1>3, PublishedStays DEF RunInv
<1>11. ASSUME ~broken' PROVE FilterInv' /\ BatchInv'
  <2>1. ~broken /\ Live /\ FilterInv /\ BatchInv
    BY <1>5, <1>7, <1>11 DEF Live, RunInv
  <2>2. ~Misfits
    BY <1>11 DEF Receive
  <2>3. CASE w + 1 < WorkerCount
    <3>1. Same /\ UNCHANGED answer
      BY <1>4, <2>1, <2>2, <2>3, HeardOne
    <3> QED BY <1>3, <2>1, <3>1, FilterStays
  <2>4. CASE w + 1 = WorkerCount
    BY <1>1, <1>3, <1>4, <2>1, <2>2, <2>4, ReturnStep
  <2> QED BY <1>6, <2>3, <2>4
<1> QED
  BY <1>2, <1>8, <1>9, <1>10, <1>11 DEF RunInv

-----------------------------------------------------------------------------
(* The steps of the run.                                                   *)

\* What is common to its keys and weeks.
LEMMA StudyFacts ==
  /\ Weeks \in Nat /\ Weeks >= 1 /\ Posterior = Weeks + 1 /\ Posterior \in Keys
  /\ \A key \in 1..Weeks : key \in Keys /\ key # Posterior /\ WeekOf(key) = key
  /\ WeekOf(Posterior) = Weeks
  /\ \A key \in Keys : key = Posterior \/ key \in 1..Weeks
  /\ 1 \in Keys
BY RunnerAssumption DEF Posterior, WeekOf

LEMMA StudyPrimes ==
  /\ Slots' = Slots /\ Posterior' = Posterior /\ Training' = Training /\ Ending' = Ending
  /\ Weeks' = Weeks /\ WorkerCount' = WorkerCount /\ MaxTrajectories' = MaxTrajectories
  /\ \A key : WeekOf(key)' = WeekOf(key)
BY DEF Slots, Posterior, Training, Ending, WorkerCount, WeekOf

\* A call begins.
LEMMA Asks ==
  ASSUME NEW op, NEW arg, NEW payload, Ask(op, arg, payload), op # "none"
  PROVE  /\ ~Calling /\ era > 0 /\ ~closed /\ call.op = "none"
         /\ call'.op = op /\ call'.arg = arg /\ Calling' /\ (closed' <=> op = "shutdown")
         /\ UNCHANGED <<assignment, answer, broken, era, content, files>>
         /\ \A s : Gets(s) = content[s]
BY DEF Ask, Idle, Calling, Gets

\* Until a call begins the particles are what they were to be after the last one.
LEMMA AtHand ==
  ASSUME ~Calling
  PROVE  call.op = "none" /\ \A s : Gets(s) = content[s]
BY DEF Calling, Gets

\* A step within a run that writes no file of the caches and publishes nothing.
LEMMA PublishedIdle ==
  ASSUME PublishedInv, stage # "any" => stage' # "any",
         UNCHANGED <<draws, metadata, manifests, files>>
  PROVE  PublishedInv'
<1>1. Reference' = Reference
  BY ReferenceStays
<1> QED
  BY <1>1, StudyPrimes DEF PublishedInv

\* A step within a run that consumes nothing.
LEMMA ForecastIdle ==
  ASSUME ForecastInv, UNCHANGED <<draws, picks, enough, forecast>>,
         stage' \in Training \cup {"starting", "any", "summarizing"} => forecast = <<>>,
         stage' \in {"forecasting", "consuming"} => Len(forecast) < enough,
         stage' \in Ending /\ ~broken' => Len(forecast) = enough
  PROVE  ForecastInv'
<1>1. \A j : Trajectory(j)' = Trajectory(j)
  BY TrajectoryStays
<1>2. IsSeq(forecast)' = IsSeq(forecast)
  BY DEF IsSeq, Range
<1> QED
  BY <1>1, <1>2, StudyPrimes DEF ForecastInv

LEMMA AdvanceStep ==
  ASSUME PoolInv, RunInv, Advance
  PROVE  PoolInv' /\ RunInv'
<1>1. /\ stage = "training" /\ ~broken /\ week < Weeks
      /\ AskPropagate(week + 1) /\ stage' = "assimilating"
      /\ UNCHANGED <<week, draws, picks, enough, metadata, manifests, forecast>>
  BY DEF Advance, studyVars
<1>2. week \in 0..Weeks /\ week + 1 \in Nat
  BY RunnerAssumption DEF RunInv, StudyInv
<1>3. Ask("propagate", week + 1, PayloadOf("propagate", week + 1))
  BY <1>1 DEF AskPropagate, PayloadOf
<1>4. Asked("propagate", week + 1)
  BY <1>2 DEF Asked, CallOps
<1>5. PoolInv'
  BY <1>1, <1>3, <1>4, AskStep
<1>6. /\ ~Calling /\ era > 0 /\ ~closed /\ call.op = "none"
      /\ call'.op = "propagate" /\ call'.arg = week + 1 /\ Calling' /\ ~closed'
      /\ UNCHANGED <<assignment, answer, broken, era, content, files>>
      /\ \A s : Gets(s) = content[s]
  BY <1>3, Asks
<1>7. StudyInv'
  BY <1>1, <1>6, StudyPrimes DEF RunInv, StudyInv, Training
<1>8. PublishedInv'
  BY <1>1, <1>6, PublishedIdle DEF RunInv
<1>9. FrontInv'
  BY <1>1, StudyPrimes DEF RunInv, FrontInv, Training
<1>10. ForecastInv'
  BY <1>1, ForecastIdle DEF RunInv, ForecastInv, Training, Ending
<1>11. FilterInv'
  <2>1. \A s \in Slots : content[s] = Reference[week][s]
    BY <1>1, <1>6 DEF RunInv, FilterInv, Coming
  <2>2. \A s \in Slots : Gets(s)' = Store!Advanced(content[s], week + 1)
    BY <1>6 DEF Gets, Store!Advanced
  <2>3. Reference' = Reference
    BY <1>1, ReferenceStays
  <2>4. \A s \in Slots : Gets(s)' = Store!Advanced(Reference[week][s], week + 1)'
    BY <1>1, <2>1, <2>2, <2>3 DEF Store!Advanced
  <2> QED BY <1>1, <1>6, <2>4, StudyPrimes DEF FilterInv
<1>12. BatchInv'
  BY <1>1 DEF BatchInv
<1> QED
  BY <1>5, <1>7, <1>8, <1>9, <1>10, <1>11, <1>12 DEF RunInv

LEMMA AssimilateStep ==
  ASSUME PoolInv, RunInv, Assimilate
  PROVE  PoolInv' /\ RunInv'
<1>1. /\ stage = "assimilating" /\ Idle /\ ~broken /\ week' = week + 1
      /\ stage' = IF RestartDue(week + 1) THEN "saving" ELSE "training"
      /\ \/ draws[week + 1] = <<>> /\ UNCHANGED poolVars
         \/ draws[week + 1] # <<>> /\ AskResampleBalanced(draws[week + 1])
      /\ UNCHANGED <<draws, picks, enough, metadata, manifests, forecast>>
  BY DEF Assimilate, studyVars
<1> DEFINE parents == draws[week + 1]
<1>2. /\ week \in 0..Weeks /\ week < Weeks /\ week + 1 \in 1..Weeks /\ week' \in 1..Weeks
      /\ stage' \in {"saving", "training"} /\ Weeks \in Nat
  BY <1>1, RunnerAssumption DEF RunInv, StudyInv, FrontInv
<1>3. parents # <<>> => parents \in [Slots -> Slots]
  <2>1. parents \in Draws
    BY <1>1, <1>2 DEF RunInv, StudyInv
  <2> QED BY <2>1, RunnerAssumption
<1>5. /\ ~Calling /\ era > 0 /\ ~closed /\ call.op = "none" /\ \A s : Gets(s) = content[s]
  BY <1>1, AtHand DEF Idle
<1>6. \/ parents = <<>> /\ UNCHANGED <<call, assignment, answer, broken, closed, era, content, files>>
      \/ /\ parents # <<>> /\ Ask("resample_balanced", parents, PayloadOf("resample_balanced", parents))
         /\ call'.op = "resample_balanced" /\ call'.arg = parents /\ ~closed'
         /\ UNCHANGED <<assignment, answer, broken, era, content, files>>
  <2>1. CASE parents = <<>>
    BY <1>1, <2>1 DEF poolVars, coordinatorVars
  <2>2. CASE parents # <<>>
    <3>1. Ask("resample_balanced", parents, PayloadOf("resample_balanced", parents))
      BY <1>1, <2>2 DEF AskResampleBalanced, PayloadOf
    <3> HIDE DEF parents
    <3> QED BY <2>2, <3>1, Asks
  <2> QED BY <2>1, <2>2
<1>7. PoolInv'
  <2>1. CASE parents = <<>>
    BY <1>1, <1>2, <2>1, AloneStep
  <2>2. CASE parents # <<>>
    <3>1. Asked("resample_balanced", parents)
      BY <1>3, <2>2 DEF Asked, CallOps
    <3>2. Ask("resample_balanced", parents, PayloadOf("resample_balanced", parents))
      BY <1>6, <2>2
    <3> HIDE DEF parents
    <3> QED BY <1>1, <1>2, <3>1, <3>2, AskStep
  <2> QED BY <2>1, <2>2
<1>8. UNCHANGED <<assignment, answer, broken, era, content, files>> /\ ~closed'
  BY <1>5, <1>6
<1>9. StudyInv'
  BY <1>1, <1>2, <1>5, <1>8, StudyPrimes DEF RunInv, StudyInv, Training
<1>10. PublishedInv'
  BY <1>1, <1>2, <1>8, PublishedIdle DEF RunInv
<1>11. FrontInv'
  <2>1. /\ \A key \in 1..Weeks : manifests[key] # Nothing => key <= week
        /\ manifests[Posterior] = Nothing
    BY <1>1 DEF RunInv, FrontInv, Training
  <2>2. \A key \in 1..Weeks : manifests[key] # Nothing => key < week' /\ key <= week'
    BY <1>1, <1>2, <2>1
  <2> QED BY <1>1, <1>2, <2>1, <2>2, StudyPrimes DEF FrontInv, Training
<1>12. ForecastInv'
  BY <1>1, <1>2, ForecastIdle DEF RunInv, ForecastInv, Training, Ending
<1>13. FilterInv'
  <2>1. \A s \in Slots : content[s] = Store!Advanced(Reference[week][s], week + 1)
    BY <1>1, <1>5 DEF RunInv, FilterInv
  <2>2. Reference' = Reference
    BY <1>1, ReferenceStays
  <2>3. Reference[week + 1] = OneWeek(Reference[week], week + 1)
    <3>1. Reference[week + 1] = OneWeek(Reference[(week + 1) - 1], week + 1)
      BY <1>2, ReferenceIs
    <3>2. (week + 1) - 1 = week
      BY <1>2
    <3> QED BY <3>1, <3>2
  <2>4. ASSUME NEW s \in Slots PROVE Gets(s)' = Reference[week + 1][s]
    <3>1. CASE parents = <<>>
      <4>1. Gets(s)' = content[s]
        BY <1>5, <1>6, <3>1 DEF Gets
      <4>2. OneWeek(Reference[week], week + 1)[s] = Store!Advanced(Reference[week][s], week + 1)
        BY <3>1 DEF OneWeek
      <4> QED BY <2>1, <2>3, <4>1, <4>2
    <3>2. CASE parents # <<>>
      <4>1. Gets(s)' = Store!Forked(content[parents[s]], s)
        BY <1>6, <3>2 DEF Gets, Store!Forked
      <4>2. parents[s] \in Slots
        BY <1>3, <3>2
      <4>3. OneWeek(Reference[week], week + 1)[s]
              = Store!Forked(Store!Advanced(Reference[week][parents[s]], week + 1), s)
        BY <3>2, <4>2 DEF OneWeek
      <4> HIDE DEF parents
      <4>4. content[parents[s]] = Store!Advanced(Reference[week][parents[s]], week + 1)
        BY <2>1, <4>2
      <4> QED BY <2>3, <4>1, <4>3, <4>4
    <3> QED BY <3>1, <3>2
  <2>5. Coming(week)'
    BY <1>1, <2>2, <2>4, StudyPrimes DEF Coming
  <2>6. call'.op \in {"none", "resample_balanced"}
    BY <1>5, <1>6
  <2> QED BY <1>2, <2>5, <2>6 DEF FilterInv
<1>14. BatchInv'
  BY <1>2 DEF BatchInv
<1> QED
  BY <1>7, <1>9, <1>10, <1>11, <1>12, <1>13, <1>14 DEF RunInv

\* States are asked to be written under a key that nothing is published under.
LEMMA SaveStep ==
  ASSUME PoolInv, RunInv, NEW key \in Keys, NEW next, Save(key, next), Unwritten(key),
         stage \in {"training", "saving"}, WeekOf(key) = week,
         next \in {"publishing", "publishing posterior"},
         next = "publishing" => key = week /\ week >= 1
                                /\ \A k \in 1..Weeks : manifests[k] # Nothing => k < week,
         next = "publishing posterior" => key = Posterior /\ week = Weeks
  PROVE  PoolInv' /\ RunInv'
<1>1. /\ ~broken /\ AskPersist(key) /\ stage' = next
      /\ metadata' = [metadata EXCEPT ![key] = [week |-> week, era |-> era]]
      /\ UNCHANGED <<week, draws, picks, enough, manifests, forecast>>
  BY DEF Save, studyVars
<1>2. Ask("persist", key, PayloadOf("persist", key))
  BY <1>1 DEF AskPersist, PayloadOf
<1>3. Asked("persist", key)
  BY DEF Asked, CallOps
<1>4. PoolInv'
  BY <1>1, <1>2, <1>3, AskStep
<1>5. /\ ~Calling /\ era > 0 /\ ~closed /\ call.op = "none"
      /\ call'.op = "persist" /\ call'.arg = key /\ Calling' /\ ~closed'
      /\ UNCHANGED <<assignment, answer, broken, era, content, files>>
      /\ \A s : Gets(s) = content[s]
  <2>1. "persist" # "none" /\ "persist" # "shutdown"
    OBVIOUS
  <2> QED BY <1>2, <2>1, Asks
<1>6. DOMAIN metadata = Keys
  BY DEF RunInv, StudyInv
<1>7. StudyInv'
  BY <1>1, <1>5, <1>6, StudyPrimes DEF RunInv, StudyInv, Training
<1>8. PublishedInv'
  <2>1. Reference' = Reference
    BY <1>1, ReferenceStays
  <2>2. \A k \in Keys : manifests[k] # Nothing => metadata'[k] = metadata[k]
    BY <1>1, <1>6 DEF Unwritten
  <2> QED BY <1>1, <1>5, <2>1, <2>2, StudyPrimes DEF RunInv, PublishedInv
<1>9. FrontInv'
  <2>1. manifests[Posterior] = Nothing
    BY <1>1 DEF RunInv, FrontInv, Training
  <2> QED BY <1>1, <2>1, StudyPrimes DEF FrontInv, Training
<1>10. ForecastInv'
  BY <1>1, ForecastIdle DEF RunInv, ForecastInv, Training, Ending
<1>11. FilterInv'
  <2>1. Coming(week)
    BY <1>1 DEF RunInv, FilterInv
  <2>2. \A s : Gets(s)' = Gets(s)
    BY <1>5 DEF Gets
  <2>3. Coming(week)'
    BY <1>1, <2>1, <2>2, ComingStays
  <2>4. metadata'[key] = [week |-> week, era |-> era]
    BY <1>1, <1>6
  <2>5. Written(key)'
    BY <1>1, <1>5, <2>4 DEF Written
  <2>6. next = "publishing" => Coming(week)' /\ Written(week)'
    BY <1>1, <2>3, <2>5
  <2>7. next = "publishing posterior" => Coming(Weeks)' /\ Written(Posterior)'
    BY <1>1, <2>3, <2>5, StudyPrimes
  <2> QED BY <1>1, <2>6, <2>7, StudyPrimes DEF FilterInv
<1>12. BatchInv'
  BY <1>1 DEF BatchInv
<1> QED
  BY <1>4, <1>7, <1>8, <1>9, <1>10, <1>11, <1>12 DEF RunInv

LEMMA SaveRestartStep ==
  ASSUME PoolInv, RunInv, SaveRestart
  PROVE  PoolInv' /\ RunInv'
<1>1. stage = "saving" /\ Save(week, "publishing")
  BY DEF SaveRestart
<1>2. week >= 1 /\ \A k \in 1..Weeks : manifests[k] # Nothing => k < week
  BY <1>1 DEF RunInv, FrontInv
<1>3. week \in 1..Weeks
  BY <1>2, StudyFacts DEF RunInv, StudyInv
<1>4. Unwritten(week)
  BY <1>2, <1>3, StudyFacts DEF Unwritten
<1> QED
  BY <1>1, <1>2, <1>3, <1>4, StudyFacts, SaveStep

LEMMA SavePosteriorStep ==
  ASSUME PoolInv, RunInv, SavePosterior
  PROVE  PoolInv' /\ RunInv'
<1>1. stage = "training" /\ week = Weeks /\ Save(Posterior, "publishing posterior")
  BY DEF SavePosterior
<1>2. Unwritten(Posterior)
  BY <1>1, StudyFacts DEF RunInv, FrontInv, Training, Unwritten
<1> QED
  BY <1>1, <1>2, StudyFacts, SaveStep

LEMMA PublishStep ==
  ASSUME PoolInv, RunInv, Publish
  PROVE  PoolInv' /\ RunInv'
<1>1. /\ Idle /\ ~broken
      /\ stage \in {"publishing", "publishing posterior"}
      /\ stage' = IF stage = "publishing" THEN "training" ELSE "summarizing"
      /\ UNCHANGED <<poolVars, week, draws, picks, enough, metadata, forecast>>
  BY DEF Publish, studyVars
<1> DEFINE key == IF stage = "publishing" THEN week ELSE Posterior
<1>2. manifests' = [manifests EXCEPT ![key] = Published(key)]
  BY DEF Publish
<1>3. UNCHANGED <<call, assignment, answer, broken, closed, era, content, files>>
  BY <1>1 DEF poolVars, coordinatorVars
<1>4. PoolInv'
  BY <1>1, AloneStep
<1>5. /\ stage = "publishing" => /\ week \in 1..Weeks
                                 /\ \A k \in 1..Weeks : manifests[k] # Nothing => k < week
      /\ stage = "publishing posterior" => week = Weeks
      /\ manifests[Posterior] = Nothing /\ DOMAIN manifests = Keys
  <2>1. week \in 0..Weeks /\ DOMAIN manifests = Keys
    BY DEF RunInv, StudyInv
  <2>2. stage = "publishing" => week >= 1 /\ \A k \in 1..Weeks : manifests[k] # Nothing => k < week
    BY DEF RunInv, FrontInv
  <2>3. stage = "publishing posterior" => week = Weeks
    BY DEF RunInv, FrontInv
  <2>4. manifests[Posterior] = Nothing
    BY <1>1 DEF RunInv, FrontInv, Training
  <2>5. stage = "publishing" => week \in 1..Weeks
    BY <2>1, <2>2, StudyFacts
  <2> QED BY <2>1, <2>2, <2>3, <2>4, <2>5
<1>6. /\ key \in Keys /\ WeekOf(key) = week /\ Coming(week) /\ Written(key)
      /\ manifests[key] = Nothing
  <2>1. CASE stage = "publishing"
    <3>1. Coming(week) /\ Written(week)
      BY <1>1, <2>1 DEF RunInv, FilterInv
    <3> QED BY <1>5, <2>1, <3>1, StudyFacts
  <2>2. CASE stage = "publishing posterior"
    <3>1. Coming(Weeks) /\ Written(Posterior)
      BY <1>1, <2>2 DEF RunInv, FilterInv
    <3> QED BY <1>5, <2>2, <3>1, StudyFacts
  <2> QED BY <1>1, <2>1, <2>2
<1>7. ~Calling /\ call.op = "none" /\ \A s : Gets(s) = content[s]
  BY <1>1, AtHand DEF Idle
<1>8. ~Calling'
  BY <1>3, <1>7 DEF Calling
<1>9. stage = "publishing" => week # Posterior
  BY <1>5, StudyFacts
<1> HIDE DEF key
<1>10. StudyInv'
  BY <1>1, <1>2, <1>3, <1>5, StudyPrimes DEF RunInv, StudyInv, Training
<1>11. Reference' = Reference
  BY <1>1, ReferenceStays
<1>12. PublishedInv'
  <2> SUFFICES ASSUME NEW k \in Keys, manifests'[k] # Nothing
      PROVE  /\ stage' # "any"
             /\ metadata'[k] = manifests'[k].metadata /\ metadata'[k].week = WeekOf(k)'
             /\ \A s \in Slots : /\ files'[<<k, s>>] = manifests'[k].particles[s]
                                 /\ files'[<<k, s>>].state = Reference'[WeekOf(k)'][s]
    BY StudyPrimes DEF PublishedInv
  <2>1. CASE k # key
    <3>1. manifests'[k] = manifests[k]
      BY <1>2, <1>5, <2>1
    <3> QED BY <1>1, <1>3, <1>11, <3>1, StudyPrimes DEF RunInv, PublishedInv
  <2>2. CASE k = key
    <3>1. manifests'[key] = [metadata |-> metadata[key], particles |-> answer.got]
      BY <1>2, <1>5, <1>6 DEF Published, Returned
    <3>2. /\ metadata[key] = [week |-> week, era |-> era]
          /\ answer.got = [s \in Slots |-> FileOf(s)]
          /\ \A s \in Slots : files[<<key, s>>] = FileOf(s)
      BY <1>6, <1>7 DEF Written
    <3>3. \A s \in Slots : FileOf(s).state = Reference[week][s]
      BY <1>6, <1>7 DEF Coming, FileOf
    <3>4. manifests'[key].metadata = metadata[key]
          /\ \A s \in Slots : manifests'[key].particles[s] = FileOf(s)
      BY <3>1, <3>2
    <3>5. metadata[key].week = week
      BY <3>2
    <3> QED BY <1>1, <1>3, <1>6, <1>11, <2>2, <3>2, <3>3, <3>4, <3>5, StudyPrimes
  <2> QED BY <2>1, <2>2
<1>13. FrontInv'
  <2>1. stage = "publishing" =>
          /\ manifests'[Posterior] = Nothing
          /\ \A k \in 1..Weeks : manifests'[k] # Nothing => k <= week
    <3> SUFFICES ASSUME stage = "publishing"
        PROVE  /\ manifests'[Posterior] = Nothing
               /\ \A k \in 1..Weeks : manifests'[k] # Nothing => k <= week
      OBVIOUS
    <3>1. key = week
      BY DEF key
    <3>2. manifests'[Posterior] = Nothing
      BY <1>2, <1>5, <1>9, <3>1
    <3>3. ASSUME NEW k \in 1..Weeks, manifests'[k] # Nothing PROVE k <= week
      <4>1. k = week \/ manifests'[k] = manifests[k]
        BY <1>2, <1>5, <3>1, StudyFacts
      <4> QED BY <1>5, <3>3, <4>1
    <3> QED BY <3>2, <3>3
  <2> QED BY <1>1, <1>5, <2>1, StudyPrimes DEF FrontInv, Training
<1>14. ForecastInv'
  BY <1>1, ForecastIdle DEF RunInv, ForecastInv, Training, Ending
<1>15. FilterInv'
  <2>1. \A s : Gets(s)' = Gets(s)
    BY <1>3 DEF Gets, Store!Advanced, Store!Forked
  <2>2. Coming(week)'
    BY <1>1, <1>6, <2>1, ComingStays
  <2>3. call'.op = "none"
    BY <1>3, <1>7
  <2>4. stage' = "summarizing" => Coming(Weeks)'
    BY <1>1, <1>5, <2>2, StudyPrimes
  <2> QED BY <1>1, <2>2, <2>3, <2>4, StudyPrimes DEF FilterInv
<1>16. BatchInv'
  BY <1>1 DEF BatchInv
<1> QED
  BY <1>4, <1>10, <1>12, <1>13, <1>14, <1>15, <1>16 DEF RunInv

LEMMA SummarizeStep ==
  ASSUME PoolInv, RunInv, Summarize
  PROVE  PoolInv' /\ RunInv'
<1>1. /\ stage = "summarizing" /\ ~broken /\ AskRead("summarize") /\ stage' = "forecasting"
      /\ UNCHANGED <<week, draws, picks, enough, metadata, manifests, forecast>>
  BY DEF Summarize, studyVars
<1>2. Ask("summarize", Nothing, PayloadOf("summarize", Nothing))
  BY <1>1 DEF AskRead, PayloadOf
<1>3. Asked("summarize", Nothing)
  BY DEF Asked, CallOps
<1>4. PoolInv'
  BY <1>1, <1>2, <1>3, AskStep
<1>5. /\ ~Calling /\ era > 0 /\ ~closed /\ call.op = "none"
      /\ call'.op = "summarize" /\ Calling' /\ ~closed'
      /\ UNCHANGED <<assignment, answer, broken, era, content, files>>
      /\ \A s : Gets(s) = content[s]
  BY <1>2, Asks
<1>6. StudyInv'
  BY <1>1, <1>5, StudyPrimes DEF RunInv, StudyInv, Training
<1>7. PublishedInv'
  BY <1>1, <1>5, PublishedIdle DEF RunInv
<1>8. FrontInv'
  BY <1>1, StudyPrimes DEF RunInv, FrontInv, Training
<1>9. ForecastInv'
  <2>1. forecast = <<>> /\ Len(forecast) = 0
    BY <1>1, SeqEmpty DEF RunInv, ForecastInv
  <2>2. enough \in Stops
    BY <1>1 DEF RunInv, StudyInv
  <2>3. 0 < enough
    BY <2>2, RunnerAssumption
  <2> QED BY <1>1, <2>1, <2>3, ForecastIdle DEF RunInv, Training, Ending
<1>10. FilterInv'
  <2>1. \A s : Gets(s)' = Gets(s)
    BY <1>5 DEF Gets
  <2>2. Coming(Weeks)
    BY <1>1 DEF RunInv, FilterInv
  <2>3. Coming(Weeks)'
    BY <1>1, <2>1, <2>2, ComingStays, StudyPrimes
  <2> QED BY <1>1, <1>5, <2>3, StudyPrimes DEF FilterInv
<1>11. BatchInv'
  BY <1>1 DEF BatchInv
<1> QED
  BY <1>4, <1>6, <1>7, <1>8, <1>9, <1>10, <1>11 DEF RunInv

LEMMA BatchStep ==
  ASSUME PoolInv, RunInv, Batch
  PROVE  PoolInv' /\ RunInv'
<1> DEFINE jobs == [j \in 1..BatchSize |-> [slot |-> picks[Len(forecast) + j],
                                            sample |-> Len(forecast) + j]]
<1>1. /\ stage = "forecasting" /\ ~broken /\ AskEvaluate(jobs) /\ stage' = "consuming"
      /\ UNCHANGED <<week, draws, picks, enough, metadata, manifests, forecast>>
  BY DEF Batch, BatchSize, studyVars
<1>2. Ask("evaluate_nonmutating", jobs, PayloadOf("evaluate_nonmutating", jobs))
  BY <1>1 DEF AskEvaluate, PayloadOf
<1>3. Asked("evaluate_nonmutating", jobs)
  <2>1. \A j \in 1..BatchSize : picks[Len(forecast) + j] \in Slots
    BY <1>1, BatchTyped DEF RunInv
  <2>2. \A j \in DOMAIN jobs : jobs[j].slot \in Slots
    BY <2>1
  <2> HIDE DEF jobs
  <2> QED BY <2>2 DEF Asked, CallOps
<1>4. PoolInv'
  <2> HIDE DEF jobs
  <2> QED BY <1>1, <1>2, <1>3, AskStep
<1>5. /\ ~Calling /\ era > 0 /\ ~closed /\ call.op = "none"
      /\ call'.op = "evaluate_nonmutating" /\ call'.arg = jobs /\ Calling' /\ ~closed'
      /\ UNCHANGED <<assignment, answer, broken, era, content, files>>
      /\ \A s : Gets(s) = content[s]
  <2> HIDE DEF jobs
  <2> QED BY <1>2, Asks
<1>6. StudyInv'
  BY <1>1, <1>5, StudyPrimes DEF RunInv, StudyInv, Training
<1>7. PublishedInv'
  BY <1>1, <1>5, PublishedIdle DEF RunInv
<1>8. FrontInv'
  BY <1>1, StudyPrimes DEF RunInv, FrontInv, Training
<1>9. ForecastInv'
  BY <1>1, ForecastIdle DEF RunInv, ForecastInv, Training, Ending
<1>10. FilterInv'
  <2>1. \A s : Gets(s)' = Gets(s)
    BY <1>5 DEF Gets
  <2>2. Coming(Weeks)
    BY <1>1 DEF RunInv, FilterInv
  <2>3. Coming(Weeks)'
    BY <1>1, <2>1, <2>2, ComingStays, StudyPrimes
  <2> QED BY <1>1, <1>5, <2>3, StudyPrimes DEF FilterInv
<1>11. BatchInv'
  <2>1. BatchSize' = BatchSize
    BY <1>1, StudyPrimes DEF BatchSize, Least
  <2>2. call'.arg = [j \in 1..BatchSize' |-> [slot |-> picks'[Len(forecast') + j],
                                              sample |-> Len(forecast') + j]]
    BY <1>1, <1>5, <2>1
  <2> QED BY <1>5, <2>2 DEF BatchInv
<1> QED
  BY <1>4, <1>6, <1>7, <1>8, <1>9, <1>10, <1>11 DEF RunInv

\* Sequences after each other.
LEMMA SeqJoin ==
  ASSUME NEW q, IsSeq(q), NEW n \in Nat, NEW more, DOMAIN more = 1..n,
         more = [j \in 1..n |-> more[j]]
  PROVE  /\ IsSeq(q \o more) /\ Len(q \o more) = Len(q) + n
         /\ \A j \in 1..Len(q) : (q \o more)[j] = q[j]
         /\ \A j \in 1..n : (q \o more)[Len(q) + j] = more[j]
<1> DEFINE T == Range(q) \cup Range(more)
<1>1. q \in Seq(T)
  <2>1. q \in Seq(Range(q)) /\ Range(q) \subseteq T
    BY DEF IsSeq
  <2>2. DOMAIN q = 1..Len(q) /\ Len(q) \in Nat
    BY SeqIs
  <2>3. q \in [1..Len(q) -> T]
    BY <2>1, <2>2
  <2> HIDE DEF T
  <2> QED BY <2>2, <2>3
<1>2. more \in Seq(T) /\ Len(more) = n
  <2>1. more \in [1..n -> T]
    <3>1. \A j \in 1..n : more[j] \in T
      BY DEF Range
    <3> HIDE DEF T
    <3> QED BY <3>1
  <2> HIDE DEF T
  <2> QED BY <2>1
<1> HIDE DEF T
<1>3. /\ q \o more \in Seq(T) /\ Len(q \o more) = Len(q) + n
      /\ \A j \in 1..Len(q) : (q \o more)[j] = q[j]
      /\ \A j \in 1..n : (q \o more)[Len(q) + j] = more[j]
  BY <1>1, <1>2
<1>4. IsSeq(q \o more)
  <2> DEFINE r == q \o more
             m == Len(q) + n
  <2>1. r \in Seq(T) /\ Len(r) = m /\ m \in Nat
    BY <1>3, SeqIs
  <2> HIDE DEF r, m
  <2>2. r = [i \in 1..m |-> r[i]]
    BY <2>1
  <2>3. IsSeq(r)
    BY <2>1, <2>2, SequenceIs
  <2> QED BY <2>3 DEF r
<1> QED
  BY <1>3, <1>4

LEMMA NeitherMore ==
  ASSUME NEW a \in Nat, NEW b \in Nat, a <= b, ~(a < b)
  PROVE  a = b
OBVIOUS

LEMMA ConsumeStep ==
  ASSUME PoolInv, RunInv, Consume
  PROVE  PoolInv' /\ RunInv'
<1>1. /\ stage = "consuming" /\ Idle /\ ~broken /\ forecast' = forecast \o Consumed
      /\ stage' = IF Len(forecast') < enough THEN "forecasting" ELSE "tearing down"
      /\ UNCHANGED <<poolVars, week, draws, picks, enough, metadata, manifests>>
  BY DEF Consume, studyVars
<1>2. UNCHANGED <<call, assignment, answer, broken, closed, era, content, files>>
  BY <1>1 DEF poolVars, coordinatorVars
<1>3. stage' \in {"forecasting", "tearing down"}
  BY <1>1
<1>4. PoolInv'
  BY <1>1, <1>3, AloneStep
<1>5. ~Calling /\ call.op = "none" /\ (\A s : Gets(s) = content[s]) /\ era > 0 /\ ~closed
  BY <1>1, AtHand DEF Idle
<1>6. answer.got = [j \in 1..BatchSize |-> Trajectory(Len(forecast) + j)]
  BY <1>1, <1>5 DEF RunInv, BatchInv
<1>7. /\ Len(forecast) \in Nat /\ BatchSize \in Nat /\ enough \in Nat /\ Len(forecast) < enough
  BY <1>1, BatchTyped DEF RunInv
<1>8. Cardinality(DOMAIN Returned) = BatchSize
  <2>1. DOMAIN Returned = 1..BatchSize
    BY <1>6 DEF Returned
  <2> QED BY <1>7, <2>1, FS_Interval
<1> DEFINE n == Least(BatchSize, enough - Len(forecast))
<1>9. n \in Nat /\ n <= BatchSize /\ n <= enough - Len(forecast)
  <2> DEFINE left == enough - Len(forecast)
  <2>1. left \in Nat
    BY <1>7
  <2>2. n = Least(BatchSize, left)
    OBVIOUS
  <2> HIDE DEF left, n
  <2>3. n \in {BatchSize, left} /\ n <= BatchSize /\ n <= left
    BY <1>7, <2>1, <2>2 DEF Least
  <2> QED BY <1>7, <2>1, <2>3 DEF left
<1>10. Consumed = [j \in 1..n |-> Trajectory(Len(forecast) + j)]
  <2>1. Consumed = [j \in 1..n |-> answer.got[j]]
    BY <1>8 DEF Consumed, Returned
  <2>2. \A j \in 1..n : answer.got[j] = Trajectory(Len(forecast) + j)
    <3> HIDE DEF n
    <3> QED BY <1>6, <1>7, <1>9
  <2> HIDE DEF n
  <2> QED BY <2>1, <2>2
<1> HIDE DEF n
<1>11. IsSeq(forecast)
  BY DEF RunInv, ForecastInv
<1>12. /\ IsSeq(forecast \o Consumed) /\ Len(forecast \o Consumed) = Len(forecast) + n
       /\ \A j \in 1..Len(forecast) : (forecast \o Consumed)[j] = forecast[j]
       /\ \A j \in 1..n : (forecast \o Consumed)[Len(forecast) + j] = Trajectory(Len(forecast) + j)
  <2>1. DOMAIN Consumed = 1..n /\ Consumed = [j \in 1..n |-> Consumed[j]]
        /\ \A j \in 1..n : Consumed[j] = Trajectory(Len(forecast) + j)
    BY <1>10
  <2> QED BY <1>9, <1>11, <2>1, SeqJoin
<1>13. Len(forecast') = Len(forecast) + n /\ Len(forecast') \in Nat /\ Len(forecast') <= enough
  <2>1. Len(forecast') = Len(forecast) + n
    BY <1>1, <1>12
  <2> QED BY <1>7, <1>9, <2>1
<1>14. ForecastInv'
  <2>1. IsSeq(forecast')
    BY <1>1, <1>12
  <2>2. IsSeq(forecast)'
    BY <2>1 DEF IsSeq, Range
  <2>3. \A j : Trajectory(j)' = Trajectory(j)
    BY <1>1, TrajectoryStays
  <2>4. ASSUME NEW j \in 1..Len(forecast') PROVE forecast'[j] = Trajectory(j)
    <3>1. CASE j \in 1..Len(forecast)
      BY <1>1, <1>12, <3>1 DEF RunInv, ForecastInv
    <3>2. CASE j \notin 1..Len(forecast)
      <4>1. j - Len(forecast) \in 1..n /\ Len(forecast) + (j - Len(forecast)) = j
        BY <1>7, <1>9, <1>13, <3>2
      <4> QED BY <1>1, <1>12, <4>1
    <3> QED BY <3>1, <3>2
  <2>5. stage' = "forecasting" => Len(forecast') < enough
    BY <1>1
  <2>6. stage' = "tearing down" => Len(forecast') = enough
    <3> SUFFICES ASSUME stage' = "tearing down" PROVE Len(forecast') = enough
      OBVIOUS
    <3>1. ~(Len(forecast') < enough)
      BY <1>1
    <3> QED BY <1>7, <1>13, <3>1, NeitherMore
  <2> QED BY <1>1, <1>3, <1>13, <2>2, <2>3, <2>4, <2>5, <2>6, StudyPrimes
          DEF ForecastInv, Training, Ending
<1>15. StudyInv'
  BY <1>1, <1>2, <1>3, <1>5, StudyPrimes DEF RunInv, StudyInv, Training, Ending
<1>16. PublishedInv'
  BY <1>1, <1>2, <1>3, PublishedIdle DEF RunInv
<1>17. FrontInv'
  BY <1>1, <1>3, StudyPrimes DEF RunInv, FrontInv, Training
<1>18. FilterInv'
  <2>1. \A s : Gets(s)' = Gets(s)
    BY <1>2 DEF Gets, Store!Advanced, Store!Forked
  <2>2. Coming(Weeks)
    BY <1>1 DEF RunInv, FilterInv
  <2>3. Coming(Weeks)'
    BY <1>1, <2>1, <2>2, ComingStays, StudyPrimes
  <2> QED BY <1>2, <1>3, <1>5, <2>3, StudyPrimes DEF FilterInv
<1>19. BatchInv'
  BY <1>3 DEF BatchInv
<1> QED
  BY <1>4, <1>14, <1>15, <1>16, <1>17, <1>18, <1>19 DEF RunInv

\* A step by which the run leaves the filter and the forecast behind.
LEMMA EndingStep ==
  ASSUME RunInv, era \in Nat, era' = era, UNCHANGED <<files, broken>>, stage' \in Ending,
         UNCHANGED <<week, draws, picks, enough, metadata, manifests, forecast>>,
         stage \notin {"starting", "any"},
         closed' => stage' \in {"closed", "over"},
         stage \in Ending \/ broken
  PROVE  RunInv'
<1>1. StudyInv'
  <2>1. stage' \notin {"starting", "any"} => era' > 0
    BY DEF RunInv, StudyInv
  <2> QED BY <2>1, StudyPrimes DEF RunInv, StudyInv
<1>2. PublishedInv'
  BY PublishedIdle DEF RunInv, Ending
<1>3. FrontInv'
  BY StudyPrimes DEF FrontInv, Training, Ending
<1>4. ForecastInv'
  BY ForecastIdle DEF RunInv, ForecastInv, Training, Ending
<1> QED
  BY <1>1, <1>2, <1>3, <1>4, NoFilter DEF RunInv

LEMMA EscapeStep ==
  ASSUME PoolInv, RunInv, Escape
  PROVE  PoolInv' /\ RunInv'
<1>1. /\ Idle /\ broken /\ stage' \in {"over", "tearing down"}
      /\ stage \notin {"starting", "any"}
      /\ UNCHANGED <<poolVars, week, draws, picks, enough, metadata, manifests, forecast>>
  BY DEF Escape, studyVars
<1>2. PoolInv'
  BY <1>1, AloneStep
<1>3. UNCHANGED <<era, files, broken, closed>> /\ era \in Nat /\ ~closed
  BY <1>1, ShapesTyped DEF PoolInv, poolVars, coordinatorVars, Idle
<1>4. stage' \in Ending
  BY <1>1 DEF Ending
<1> QED
  BY <1>1, <1>2, <1>3, <1>4, EndingStep

LEMMA MeasureStep ==
  ASSUME PoolInv, RunInv, Measure
  PROVE  PoolInv' /\ RunInv'
<1>1. /\ stage = "tearing down" /\ AskRead("metrics") /\ stage' = "closing"
      /\ UNCHANGED <<week, draws, picks, enough, metadata, manifests, forecast>>
  BY DEF Measure, studyVars
<1>2. Ask("metrics", Nothing, PayloadOf("metrics", Nothing))
  BY <1>1 DEF AskRead, PayloadOf
<1>3. Asked("metrics", Nothing)
  BY DEF Asked, CallOps
<1>4. PoolInv'
  BY <1>1, <1>2, <1>3, AskStep
<1>5. ~closed' /\ UNCHANGED <<broken, era, files>>
  BY <1>2, Asks
<1>6. era \in Nat
  BY ShapesTyped DEF PoolInv
<1>7. RunInv'
  BY <1>1, <1>5, <1>6, EndingStep DEF Ending
<1> QED
  BY <1>4, <1>7

LEMMA CloseStep ==
  ASSUME PoolInv, RunInv, Close
  PROVE  PoolInv' /\ RunInv'
<1>1. /\ stage = "closing" /\ AskRead("shutdown") /\ stage' = "closed"
      /\ UNCHANGED <<week, draws, picks, enough, metadata, manifests, forecast>>
  BY DEF Close, studyVars
<1>2. Ask("shutdown", Nothing, PayloadOf("shutdown", Nothing))
  BY <1>1 DEF AskRead, PayloadOf
<1>3. Asked("shutdown", Nothing)
  BY DEF Asked, CallOps
<1>4. PoolInv'
  BY <1>1, <1>2, <1>3, AskStep
<1>5. UNCHANGED <<broken, era, files>>
  BY <1>2, Asks
<1>6. era \in Nat
  BY ShapesTyped DEF PoolInv
<1>7. RunInv'
  BY <1>1, <1>5, <1>6, EndingStep DEF Ending
<1> QED
  BY <1>4, <1>7

LEMMA EndStep ==
  ASSUME PoolInv, RunInv, End
  PROVE  PoolInv' /\ RunInv'
<1>1. /\ stage = "closed" /\ stage' = "over"
      /\ UNCHANGED <<poolVars, week, draws, picks, enough, metadata, manifests, forecast>>
  BY DEF End, studyVars
<1>2. PoolInv'
  BY <1>1, AloneStep
<1>3. UNCHANGED <<era, files, broken>> /\ era \in Nat
  BY <1>1, ShapesTyped DEF PoolInv, poolVars, coordinatorVars
<1>4. RunInv'
  BY <1>1, <1>3, EndingStep DEF Ending
<1> QED
  BY <1>2, <1>4

LEMMA RerunStep ==
  ASSUME PoolInv, RunInv, Rerun
  PROVE  PoolInv' /\ RunInv'
<1>1. /\ stage \notin {"starting", "any"} /\ Killed
      /\ stage' = "starting" /\ week' = 0 /\ forecast' = <<>>
      /\ UNCHANGED <<draws, picks, enough, metadata, manifests>>
  BY DEF Rerun, studyVars
<1>2. PoolInv'
  BY <1>1, KilledStep
<1>3. UNCHANGED <<files>> /\ closed' = FALSE
  BY <1>1 DEF Killed
<1>4. StudyInv'
  BY <1>1, <1>3, StudyFacts, StudyPrimes DEF RunInv, StudyInv
<1>5. PublishedInv'
  BY <1>1, <1>3, PublishedIdle DEF RunInv
<1>6. FrontInv'
  BY <1>1 DEF FrontInv, Training
<1>7. ForecastInv'
  <2>1. IsSeq(forecast') /\ Len(forecast') = 0
    BY <1>1, SeqEmpty
  <2>2. IsSeq(forecast)'
    BY <2>1 DEF IsSeq, Range
  <2>3. enough \in Nat
    <3>1. enough \in Stops
      BY <1>1 DEF RunInv, StudyInv
    <3> QED BY <3>1, RunnerAssumption
  <2> QED BY <1>1, <2>1, <2>2, <2>3, StudyPrimes DEF ForecastInv, Ending
<1> QED
  BY <1>1, <1>2, <1>4, <1>5, <1>6, <1>7, NoFilter DEF RunInv

\* A caller that makes any calls has published nothing.
LEMMA AnyStep ==
  ASSUME RunInv, era \in Nat, era' \in Nat, era' >= era, stage = "any",
         UNCHANGED <<stage, week, draws, picks, enough, metadata, manifests, forecast>>
  PROVE  RunInv'
<1>1. StudyInv' /\ FrontInv'
  BY StudyStays DEF RunInv
<1>2. PublishedInv'
  BY StudyPrimes DEF RunInv, PublishedInv
<1>3. ForecastInv'
  BY ForecastIdle DEF RunInv, ForecastInv, Ending
<1> QED
  BY <1>1, <1>2, <1>3, NoFilter DEF RunInv

LEMMA OpenAnyStep ==
  ASSUME PoolInv, RunInv, OpenAny
  PROVE  PoolInv' /\ RunInv'
<1>1. stage = "any" /\ Open(Roots, "serving") /\ UNCHANGED runVars
  BY DEF OpenAny
<1>2. Rooms /\ era \in Nat
  BY ShapesTyped DEF PoolInv
<1>3. PoolInv'
  BY <1>1, <1>2, OpenStep
<1>4. era' = era + 1
  BY <1>1 DEF Open
<1>5. RunInv'
  BY <1>1, <1>2, <1>4, AnyStep DEF runVars, studyVars
<1> QED
  BY <1>3, <1>5

LEMMA CallAnyStep ==
  ASSUME PoolInv, RunInv, CallAny
  PROVE  PoolInv' /\ RunInv'
<1>1. /\ stage = "any" /\ Idle
      /\ UNCHANGED <<stage, week, draws, picks, enough, metadata, manifests, forecast>>
  BY DEF CallAny, studyVars
<1>2. PICK op, arg :
        /\ Ask(op, arg, PayloadOf(op, arg)) /\ Asked(op, arg)
        /\ op = "persist" => Unwritten(arg)
        /\ broken => op = "shutdown"
  <2>1. CASE AskRead("shutdown")
    <3>1. Ask("shutdown", Nothing, PayloadOf("shutdown", Nothing))
      BY <2>1 DEF AskRead, PayloadOf
    <3>2. Asked("shutdown", Nothing)
      BY DEF Asked, CallOps
    <3> QED BY <3>1, <3>2
  <2>2. CASE AskPropagate(1) /\ ~broken
    <3>1. Ask("propagate", 1, PayloadOf("propagate", 1))
      BY <2>2 DEF AskPropagate, PayloadOf
    <3>2. Asked("propagate", 1)
      BY DEF Asked, CallOps
    <3> QED BY <2>2, <3>1, <3>2
  <2>3. CASE AskPersist(1) /\ ~broken
    <3>1. Ask("persist", 1, PayloadOf("persist", 1))
      BY <2>3 DEF AskPersist, PayloadOf
    <3>2. Asked("persist", 1)
      BY StudyFacts DEF Asked, CallOps
    <3>3. Unwritten(1)
      BY <1>1, StudyFacts DEF Unwritten, RunInv, PublishedInv
    <3> QED BY <2>3, <3>1, <3>2, <3>3
  <2>4. ASSUME NEW name \in {"snapshot", "summarize", "metrics"}, AskRead(name), ~broken
        PROVE  /\ Ask(name, Nothing, PayloadOf(name, Nothing)) /\ Asked(name, Nothing)
               /\ name # "persist"
    BY <2>4 DEF AskRead, PayloadOf, Asked, CallOps
  <2>5. ASSUME NEW slots \in Selections, ~broken,
               AskEvaluate([j \in DOMAIN slots |-> [slot |-> slots[j], sample |-> j]])
        PROVE  \E jobs : /\ Ask("evaluate_nonmutating", jobs, PayloadOf("evaluate_nonmutating", jobs))
                         /\ Asked("evaluate_nonmutating", jobs)
    <3> DEFINE jobs == [j \in DOMAIN slots |-> [slot |-> slots[j], sample |-> j]]
    <3>1. Ask("evaluate_nonmutating", jobs, PayloadOf("evaluate_nonmutating", jobs))
      BY <2>5 DEF AskEvaluate, PayloadOf
    <3>2. \A j \in DOMAIN jobs : jobs[j].slot \in Slots
      BY RunnerAssumption
    <3> HIDE DEF jobs
    <3>3. Asked("evaluate_nonmutating", jobs)
      BY <3>2 DEF Asked, CallOps
    <3> QED BY <3>1, <3>3
  <2>6. ASSUME NEW parents \in Draws \ {<<>>}, ~broken,
               AskResample(parents) \/ AskResampleBalanced(parents)
        PROVE  \E op \in {"resample", "resample_balanced"} :
                 Ask(op, parents, PayloadOf(op, parents)) /\ Asked(op, parents)
    <3>1. parents \in [Slots -> Slots]
      BY RunnerAssumption
    <3>2. Asked("resample", parents) /\ Asked("resample_balanced", parents)
      BY <3>1 DEF Asked, CallOps
    <3> QED BY <2>6, <3>2 DEF AskResample, AskResampleBalanced, PayloadOf
  <2>7. \/ AskRead("shutdown")
        \/ /\ ~broken
           /\ \/ AskPropagate(1) \/ AskPersist(1)
              \/ \E name \in {"snapshot", "summarize", "metrics"} : AskRead(name)
              \/ \E slots \in Selections :
                   AskEvaluate([j \in DOMAIN slots |-> [slot |-> slots[j], sample |-> j]])
              \/ \E parents \in Draws \ {<<>>} : AskResample(parents) \/ AskResampleBalanced(parents)
    BY DEF CallAny
  <2> QED BY <2>1, <2>2, <2>3, <2>4, <2>5, <2>6, <2>7
<1>3. PoolInv'
  BY <1>1, <1>2, AskStep
<1>4. era \in Nat /\ era' = era
  BY <1>2, ShapesTyped DEF PoolInv, Ask
<1>5. RunInv'
  BY <1>1, <1>4, AnyStep
<1> QED
  BY <1>3, <1>5

\* The week that a run goes on from, and the particles after it.
Resumes(initial, first) ==
  /\ Open(initial, first) /\ week' \in 0..Weeks
  /\ \A s \in Slots : initial[s] = Reference[week'][s]
  /\ \/ stage' = "summarizing" /\ week' = Weeks
     \/ /\ stage' = "training" /\ manifests[Posterior] = Nothing
        /\ \A key \in 1..Weeks : manifests[key] # Nothing => key <= week'

\* A pool opened with what a cache holds, or with the first particles.
LEMMA ResumesStep ==
  ASSUME PoolInv, RunInv, NEW initial, NEW first \in {"serving", "loading"},
         Resumes(initial, first), stage = "starting",
         UNCHANGED <<draws, picks, enough, metadata, manifests, forecast>>
  PROVE  PoolInv' /\ RunInv'
<1> USE DEF Resumes
<1>1. Rooms /\ era \in Nat
  BY ShapesTyped DEF PoolInv
<1>2. PoolInv' /\ call' = NoCall /\ ~broken'
  BY <1>1, OpenStep
<1>3. era' = era + 1 /\ content' = initial /\ closed' = FALSE /\ files' = files
  BY DEF Open
<1>4. stage' \in {"summarizing", "training"}
  OBVIOUS
<1>5. StudyInv'
  <2>1. era' > 0
    BY <1>1, <1>3
  <2> QED BY <1>3, <1>4, <2>1, StudyPrimes DEF RunInv, StudyInv, Training
<1>6. PublishedInv'
  BY <1>3, <1>4, PublishedIdle DEF RunInv
<1>7. FrontInv'
  BY StudyPrimes DEF FrontInv, Training
<1>8. ForecastInv'
  BY <1>4, ForecastIdle DEF RunInv, ForecastInv, Ending
<1>9. FilterInv'
  <2>1. call'.op = "none"
    BY <1>2 DEF NoCall
  <2>2. \A s : Gets(s)' = content'[s]
    BY <2>1 DEF Gets
  <2>3. Reference' = Reference
    BY ReferenceStays
  <2>4. \A s \in Slots : Gets(s)' = Reference'[week'][s]
    BY <1>3, <2>2, <2>3
  <2>5. Coming(week)'
    BY <2>4, StudyPrimes DEF Coming
  <2>6. stage' = "summarizing" => Coming(Weeks)'
    BY <2>5, StudyPrimes
  <2> QED BY <1>4, <2>1, <2>5, <2>6, StudyPrimes DEF FilterInv
<1>10. BatchInv'
  BY <1>4 DEF BatchInv
<1> QED
  BY <1>2, <1>5, <1>6, <1>7, <1>8, <1>9, <1>10 DEF RunInv

LEMMA StartStep ==
  ASSUME PoolInv, RunInv, Start
  PROVE  PoolInv' /\ RunInv'
<1>1. /\ stage = "starting"
      /\ UNCHANGED <<draws, picks, enough, metadata, manifests, forecast>>
  BY DEF Start, studyVars
<1>2. \A key \in Keys : manifests[key] # Nothing =>
        /\ metadata[key].week = WeekOf(key) /\ Loadable(key)
        /\ \A s \in Slots : Stored(key)[s] = Reference[WeekOf(key)][s]
  BY DEF RunInv, PublishedInv, Loadable, Stored
<1>3. CASE /\ manifests[Posterior] # Nothing /\ Open(Stored(Posterior), "loading")
           /\ week' = metadata[Posterior].week /\ stage' = "summarizing"
  <2>1. week' = Weeks /\ \A s \in Slots : Stored(Posterior)[s] = Reference[Weeks][s]
    BY <1>2, <1>3, StudyFacts
  <2>2. week' \in 0..Weeks
    BY <2>1, StudyFacts
  <2>3. Resumes(Stored(Posterior), "loading")
    BY <1>3, <2>1, <2>2 DEF Resumes
  <2> QED BY <1>1, <2>3, ResumesStep
<1>4. CASE /\ manifests[Posterior] = Nothing /\ Restarts # {}
           /\ Open(Stored(Max(Restarts)), "loading")
           /\ week' = metadata[Max(Restarts)].week /\ stage' = "training"
  <2>1. PICK last \in Restarts : last = Max(Restarts) /\ \A key \in Restarts : key <= last
    BY <1>4, LastRestart
  <2>2. last \in 1..Weeks /\ manifests[last] # Nothing
    BY DEF Restarts, Loadable
  <2>3. week' = last /\ \A s \in Slots : Stored(last)[s] = Reference[last][s]
    BY <1>2, <1>4, <2>1, <2>2, StudyFacts
  <2>4. \A key \in 1..Weeks : manifests[key] # Nothing => key <= week'
    BY <1>2, <2>1, <2>3, StudyFacts DEF Restarts
  <2>5. week' \in 0..Weeks
    BY <2>2, <2>3, StudyFacts
  <2>6. Resumes(Stored(last), "loading")
    BY <1>4, <2>1, <2>3, <2>4, <2>5 DEF Resumes
  <2> QED BY <1>1, <2>6, ResumesStep
<1>5. CASE /\ manifests[Posterior] = Nothing /\ Restarts = {}
           /\ Open(Roots, "serving") /\ week' = 0 /\ stage' = "training"
  <2>1. \A key \in 1..Weeks : manifests[key] = Nothing
    BY <1>2, <1>5, StudyFacts DEF Restarts
  <2>2. \A s \in Slots : Roots[s] = Reference[0][s]
    BY ReferenceIs
  <2>3. week' \in 0..Weeks
    BY <1>5, StudyFacts
  <2>4. Resumes(Roots, "serving")
    BY <1>5, <2>1, <2>2, <2>3 DEF Resumes
  <2> QED BY <1>1, <2>4, ResumesStep
<1> QED
  BY <1>3, <1>4, <1>5 DEF Start

LEMMA StutterStep ==
  ASSUME PoolInv, RunInv, UNCHANGED poolVars, UNCHANGED runVars
  PROVE  PoolInv' /\ RunInv'
<1>1. UNCHANGED <<states, phase, doing, imports, commands, results, call, assignment, answer,
                  broken, closed, era, content, files>>
  BY DEF poolVars, workerVars, coordinatorVars
<1>2. UNCHANGED <<stage, week, draws, picks, enough, metadata, manifests, forecast>>
  BY DEF runVars, studyVars
<1>3. PoolInv'
  BY <1>2, AloneStep
<1>4. StudyInv' /\ FrontInv'
  <2>1. era \in Nat
    BY ShapesTyped DEF PoolInv
  <2> QED BY <1>1, <1>2, <2>1, StudyStays DEF PoolInv, RunInv
<1>5. PublishedInv' /\ ForecastInv'
  BY <1>1, <1>2, PublishedStays, ForecastStays DEF RunInv
<1>6. ~broken => FilterInv' /\ BatchInv'
  BY <1>1, FilterStays DEF RunInv, Same
<1> QED
  BY <1>1, <1>3, <1>4, <1>5, <1>6 DEF RunInv

-----------------------------------------------------------------------------
(* The invariant, and what follows from it.                                *)

LEMMA RunStart ==
  ASSUME Init
  PROVE  RunInv
<1>1. /\ era = 0 /\ call = NoCall /\ broken = FALSE /\ closed = FALSE
      /\ week = 0 /\ forecast = <<>>
      /\ metadata = [key \in Keys |-> Nothing] /\ manifests = [key \in Keys |-> Nothing]
      /\ \/ /\ stage = "starting" /\ enough \in Stops /\ picks \in Selections
            /\ draws \in [1..Weeks -> Draws]
         \/ /\ stage = "any" /\ enough = 0
  BY DEF Init, PoolInit
<1>2. stage \in {"starting", "any"} /\ \A key \in Keys : manifests[key] = Nothing
  BY <1>1
<1>3. StudyInv
  BY <1>1, <1>2, StudyFacts DEF StudyInv
<1>4. PublishedInv /\ FrontInv
  BY <1>2 DEF PublishedInv, FrontInv, Training
<1>5. ForecastInv
  <2>1. IsSeq(forecast) /\ Len(forecast) = 0
    BY <1>1, SeqEmpty
  <2>2. enough \in Nat
    <3>1. CASE enough \in Stops
      BY <3>1, RunnerAssumption
    <3>2. CASE enough = 0
      BY <3>2
    <3> QED BY <1>1, <3>1, <3>2
  <2>3. 0 <= enough
    BY <2>2
  <2>4. stage \notin Ending \cup {"forecasting", "consuming"}
    BY <1>2 DEF Ending
  <2> QED BY <1>1, <2>1, <2>3, <2>4 DEF ForecastInv
<1>6. FilterInv /\ BatchInv
  BY <1>2 DEF FilterInv, BatchInv
<1> QED
  BY <1>3, <1>4, <1>5, <1>6 DEF RunInv

\* Before a run opens its pool no worker of an earlier one is left.
Stopped == stage = "starting" => \A w \in Workers : phase[w] = "ended"

LEMMA StoppedStays ==
  ASSUME PoolInv, Stopped, [Next]_vars
  PROVE  Stopped'
<1> SUFFICES ASSUME stage' = "starting", NEW w \in Workers PROVE phase'[w] = "ended"
  BY DEF Stopped, Workers, WorkerCount
<1>1. CASE Rerun
  BY <1>1 DEF Rerun, Killed, ForAll
<1>2. CASE UNCHANGED vars \/ Coordinates \/ \E u \in Workers : Works(u)
  <2>1. stage = "starting" /\ phase[w] = "ended"
    BY <1>2 DEF vars, runVars, Coordinates, Works, Stopped
  <2>2. CASE UNCHANGED vars
    BY <2>1, <2>2 DEF vars, poolVars, workerVars
  <2>3. CASE Coordinates
    <3>1. Calling /\ call # NoCall
      BY <2>3 DEF Coordinates, Receive, Joins, Calling, NoCall
    <3> QED BY <2>1, <3>1 DEF PoolInv, CallInv, Started
  <2>4. ASSUME NEW u \in Workers, Works(u) PROVE FALSE
    <3>1. Alone(u)
      BY <2>4, ShapesTyped, WorkerAlone DEF PoolInv, Works
    <3> QED BY <2>1, <3>1 DEF Alone, Stopped
  <2> QED BY <1>2, <2>2, <2>3, <2>4
<1>3. CASE Runs
  BY <1>3 DEF Runs, Start, Advance, Assimilate, SaveRestart, SavePosterior, Save, Publish,
              Summarize, Batch, Consume, Escape, Measure, Close, End
<1>4. CASE OpenAny \/ CallAny
  BY <1>4 DEF OpenAny, CallAny, runVars
<1> QED
  BY <1>1, <1>2, <1>3, <1>4 DEF Next

StudyOnPool == PoolInv /\ RunInv /\ Stopped

\* The invariant of the pool and of the run that uses it: it holds of every number of
\* particles, workers, weeks and runs.
THEOREM StudyOnPoolInvariant == Spec => []StudyOnPool
<1>1. Init => StudyOnPool
  <2> SUFFICES ASSUME Init PROVE StudyOnPool
    OBVIOUS
  <2>1. Stopped
    BY DEF Init, PoolInit, ForAll, Stopped
  <2> QED BY <2>1, PoolStart, RunStart DEF StudyOnPool
<1>2. StudyOnPool /\ [Next]_vars => StudyOnPool'
  <2> SUFFICES ASSUME PoolInv, RunInv, Stopped, [Next]_vars PROVE PoolInv' /\ RunInv'
    BY StoppedStays DEF StudyOnPool
  <2>1. CASE Runs
    BY <2>1, StartStep, AdvanceStep, AssimilateStep, SaveRestartStep, SavePosteriorStep,
       PublishStep, SummarizeStep, BatchStep, ConsumeStep, EscapeStep, MeasureStep,
       CloseStep, EndStep DEF Runs
  <2>2. CASE Coordinates
    BY <2>2, ReceivesStep, JoinStep DEF Coordinates
  <2>3. CASE Rerun
    BY <2>3, RerunStep
  <2>4. CASE OpenAny \/ CallAny
    BY <2>4, OpenAnyStep, CallAnyStep
  <2>5. CASE \E w \in Workers : Works(w)
    BY <2>5, WorksStep
  <2>6. CASE UNCHANGED vars
    <3>1. UNCHANGED runVars /\ UNCHANGED poolVars
      BY <2>6 DEF vars
    <3> QED BY <3>1, StutterStep
  <2> QED BY <2>1, <2>2, <2>3, <2>4, <2>5, <2>6 DEF Next
<1> QED
  BY <1>1, <1>2, PTL DEF Spec

\* LayoutKept: the owners that the coordinator knows are those that hold the slots, and
\* a balanced resampling moves as few children as giving each worker its share allows.
THEOREM OwnersAndMoves == Spec => []LayoutKept
<1>1. StudyOnPool => LayoutKept
  <2> SUFFICES ASSUME PoolInv, RunInv, Stopped PROVE OwnersKnown /\ FewestMove
    BY DEF StudyOnPool, LayoutKept
  <2>1. OwnersKnown
    <3> SUFFICES ASSUME ~Calling, ~broken, ~closed, era > 0, NEW w \in Workers, phase[w] # "ended"
        PROVE  /\ DOMAIN states[w] = {s \in Slots : assignment[s] = w}
               /\ phase[w] # "importing" /\ \A v \in Workers : commands[w][v] = <<>>
      BY DEF OwnersKnown
    <3>1. Idle /\ stage # "starting"
      BY DEF Idle, Stopped
    <3>2. Ready(w) /\ \A v \in Workers : commands[w][v] = <<>>
      BY <3>1, AtRest
    <3> QED BY <3>2 DEF Ready, Before, Owned
  <2>2. FewestMove
    <3> SUFFICES ASSUME Calling, call.op = "resample_balanced"
        PROVE  LET Even(owner) == \A w \in Workers :
                                    Cardinality({c \in Slots : owner[c] = w}) = Capacity(w)
                   Moves(owner) == Cardinality({c \in Slots : owner[c] # assignment[call.arg[c]]})
               IN /\ Even(Reassigned)
                  /\ \A owner \in [Slots -> Workers] : Even(owner) => Moves(Reassigned) <= Moves(owner)
      BY DEF FewestMove
    <3>1. assignment \in [Slots -> Workers] /\ CallInv /\ Balancing
      BY ShapesTyped DEF PoolInv, Balancing
    <3>2. Plannable(call.arg)
      BY <3>1, Sizes, BalanceFacts
    <3>3. \A c \in Slots : Reassigned[c] = Target(c, call.arg)
      BY DEF Reassigned
    <3>4. ASSUME NEW w \in Workers
          PROVE  Cardinality({c \in Slots : Reassigned[c] = w}) = Capacity(w)
      <4>1. {c \in Slots : Reassigned[c] = w} = Kids(w, call.arg)
        BY <3>3 DEF Kids
      <4> QED BY <3>2, <4>1, SharesAreEven
    <3>5. ASSUME NEW owner \in [Slots -> Workers],
                 \A w \in Workers : Cardinality({c \in Slots : owner[c] = w}) = Capacity(w)
          PROVE  Cardinality({c \in Slots : Reassigned[c] # assignment[call.arg[c]]})
                   <= Cardinality({c \in Slots : owner[c] # assignment[call.arg[c]]})
      <4>1. {c \in Slots : Reassigned[c] # assignment[call.arg[c]]}
              = {c \in Slots : Target(c, call.arg) # Home(c, call.arg)}
        BY <3>3 DEF Home
      <4>2. {c \in Slots : owner[c] # assignment[call.arg[c]]}
              = {c \in Slots : owner[c] # Home(c, call.arg)}
        BY DEF Home
      <4> QED BY <3>2, <3>5, <4>1, <4>2, MovesAreFewest
    <3> QED BY <3>4, <3>5
  <2> QED BY <2>1, <2>2
<1> QED
  BY <1>1, StudyOnPoolInvariant, PTL

\* PublishedIsLoadable: what is published stays loadable, and is the filter after the
\* week it names, wherever a run is killed.
THEOREM CachesStayLoadable == Spec => []PublishedIsLoadable
<1>1. StudyOnPool => PublishedIsLoadable
  <2> SUFFICES ASSUME RunInv, NEW key \in Keys, manifests[key] # Nothing
      PROVE  Loadable(key) /\ Stored(key) = Reference[metadata[key].week]
    BY DEF StudyOnPool, PublishedIsLoadable
  <2>1. /\ metadata[key] = manifests[key].metadata /\ metadata[key].week = WeekOf(key)
        /\ \A s \in Slots : /\ files[<<key, s>>] = manifests[key].particles[s]
                            /\ files[<<key, s>>].state = Reference[WeekOf(key)][s]
    BY DEF RunInv, PublishedInv
  <2>2. WeekOf(key) \in 0..Weeks
    BY StudyFacts
  <2>3. Reference[WeekOf(key)] = [s \in Slots |-> Reference[WeekOf(key)][s]]
    BY <2>2, ReferenceTyped
  <2> QED BY <2>1, <2>3 DEF Loadable, Stored
<1> QED
  BY <1>1, StudyOnPoolInvariant, PTL

\* SameForecast: the forecast is the one of an uninterrupted serial run, however often
\* the program was killed and wherever its particles lived.
THEOREM ForecastIsSerial == Spec => []SameForecast
<1>1. StudyOnPool => SameForecast
  <2> SUFFICES ASSUME RunInv, Len(forecast) > 0
      PROVE  /\ Len(forecast) <= enough
             /\ stage \notin {"forecasting", "consuming"} /\ ~broken => Len(forecast) = enough
             /\ \A j \in DOMAIN forecast : forecast[j] = Store!Forked(Reference[Weeks][picks[j]], j)
    BY DEF StudyOnPool, SameForecast
  <2>1. IsSeq(forecast) /\ forecast # <<>> /\ DOMAIN forecast = 1..Len(forecast)
    BY SeqIs, SeqEmpty DEF RunInv, ForecastInv
  <2>2. stage \in Ending \cup {"forecasting", "consuming"}
    BY <2>1 DEF RunInv, StudyInv, ForecastInv
  <2>3. \A j \in DOMAIN forecast : forecast[j] = Trajectory(j)
    BY <2>1 DEF RunInv, ForecastInv
  <2> QED BY <2>2, <2>3 DEF RunInv, ForecastInv, Trajectory
<1> QED
  BY <1>1, StudyOnPoolInvariant, PTL

-----------------------------------------------------------------------------
(* Children that move, counted where they leave and where they come to.     *)

\* A finite set that is not empty loses one element with the one it loses.
LEMMA OneLess ==
  ASSUME NEW S, IsFiniteSet(S), S # {}, NEW x \in S
  PROVE  /\ IsFiniteSet(S \ {x}) /\ Cardinality(S) \in Nat /\ Cardinality(S) # 0
         /\ Cardinality(S \ {x}) = Cardinality(S) - 1 /\ Cardinality(S) - 1 \in Nat
<1>1. Cardinality(S) \in Nat
  BY FS_CardinalityType
<1>2. Cardinality(S) # 0
  BY FS_EmptySet
<1>3. IsFiniteSet(S \ {x}) /\ Cardinality(S \ {x}) = Cardinality(S) - 1
  BY FS_RemoveElement
<1> QED
  BY <1>1, <1>2, <1>3

\* The function behind a sum.
Fold(h, f, s) == IF s = {} THEN 0
                 ELSE f[CHOOSE x \in s : TRUE] + h[s \ {CHOOSE x \in s : TRUE}]
IsFold(h, f, S) == h = [s \in SUBSET S |-> Fold(h, f, s)]

LEMMA SumIsFold ==
  ASSUME NEW f, NEW S
  PROVE  SumFunctionOnSet(f, S) = (CHOOSE h : IsFold(h, f, S))[S]
  BY DEF SumFunctionOnSet, FoldFunctionOnSet, MapThenFoldSet, IsFold, Fold

LEMMA FoldExists ==
  ASSUME NEW f, NEW S, IsFiniteSet(S)
  PROVE  \E h : IsFold(h, f, S)
<1> DEFINE UpTo(h, n) == /\ h = [s \in SUBSET S |-> h[s]]
                         /\ \A s \in SUBSET S : Cardinality(s) <= n => h[s] = Fold(h, f, s)
           T == {n \in Nat : \E h : UpTo(h, n)}
<1>1. 0 \in T
  <2> DEFINE z == [s \in SUBSET S |-> 0]
  <2>1. ASSUME NEW s \in SUBSET S, Cardinality(s) <= 0 PROVE s = {}
    <3>1. IsFiniteSet(s) /\ Cardinality(s) \in Nat
      BY FS_Subset, FS_CardinalityType
    <3> QED
      BY <2>1, <3>1, FS_EmptySet
  <2>2. UpTo(z, 0)
    BY <2>1 DEF Fold
  <2> QED
    BY <2>2
<1>2. ASSUME NEW n \in Nat, n \in T PROVE n + 1 \in T
  <2>1. PICK h : UpTo(h, n)
    BY <1>2
  <2> DEFINE g == [s \in SUBSET S |-> IF Cardinality(s) <= n THEN h[s] ELSE Fold(h, f, s)]
  <2>2. ASSUME NEW s \in SUBSET S, Cardinality(s) <= n + 1
        PROVE  g[s] = Fold(g, f, s)
    <3>1. CASE s = {}
      <4>1. Fold(g, f, s) = 0 /\ Fold(h, f, s) = 0
        BY <3>1 DEF Fold
      <4> QED
        BY <2>1, <4>1
    <3>2. CASE s # {}
      <4> DEFINE x == CHOOSE y \in s : TRUE
      <4>1. x \in s
        BY <3>2
      <4>2. IsFiniteSet(s)
        BY FS_Subset
      <4>3. Cardinality(s) \in Nat /\ Cardinality(s \ {x}) = Cardinality(s) - 1
        BY <4>1, <4>2, <3>2, OneLess
      <4>4. Cardinality(s \ {x}) <= n /\ s \ {x} \in SUBSET S
        BY <4>3, <2>2
      <4>5. g[s \ {x}] = h[s \ {x}]
        BY <4>4
      <4>6. Fold(g, f, s) = Fold(h, f, s)
        BY <4>5, Zenon DEF Fold
      <4>7. g[s] = Fold(h, f, s)
        BY <2>1
      <4> QED
        BY <4>6, <4>7
    <3> QED
      BY <3>1, <3>2
  <2>3. UpTo(g, n + 1)
    BY <2>2
  <2>4. \E k : UpTo(k, n + 1)
    <3> HIDE DEF g, UpTo
    <3> QED
      BY <2>3
  <2> HIDE DEF UpTo
  <2> QED
    BY <2>4
<1>3. \A n \in Nat : n \in T
  <2> HIDE DEF T
  <2> QED
    BY <1>1, <1>2, Induction
<1>4. Cardinality(S) \in Nat
  BY FS_CardinalityType
<1>5. PICK h : UpTo(h, Cardinality(S))
  BY <1>3, <1>4
<1>6. \A s \in SUBSET S : Cardinality(s) <= Cardinality(S)
  BY FS_Subset
<1>7. \A s \in SUBSET S : h[s] = Fold(h, f, s)
  BY <1>5, <1>6
<1>8. IsFold(h, f, S)
  BY <1>5, <1>7 DEF IsFold
<1> QED
  BY <1>8

\* What is added first does not change what comes of the rest.
LEMMA FoldUnique ==
  ASSUME NEW f, NEW S, NEW R, IsFiniteSet(S), R \subseteq S,
         NEW g, NEW h, IsFold(g, f, S), IsFold(h, f, R)
  PROVE  g[R] = h[R]
<1> DEFINE T == {n \in Nat : \A s \in SUBSET R : Cardinality(s) = n => g[s] = h[s]}
<1>1. \A s \in SUBSET R : g[s] = Fold(g, f, s) /\ h[s] = Fold(h, f, s)
  BY DEF IsFold
<1>2. \A s \in SUBSET R : IsFiniteSet(s) /\ Cardinality(s) \in Nat
  <2>1. \A s \in SUBSET S : IsFiniteSet(s)
    BY FS_Subset
  <2> QED
    BY <2>1, FS_CardinalityType
<1>3. 0 \in T
  <2>1. ASSUME NEW s \in SUBSET R, Cardinality(s) = 0 PROVE g[s] = h[s]
    <3>1. s = {}
      BY <2>1, <1>2, FS_EmptySet
    <3> QED
      BY <3>1, <1>1 DEF Fold
  <2> QED
    BY <2>1
<1>4. ASSUME NEW n \in Nat, n \in T PROVE n + 1 \in T
  <2>1. ASSUME NEW s \in SUBSET R, Cardinality(s) = n + 1 PROVE g[s] = h[s]
    <3> DEFINE x == CHOOSE y \in s : TRUE
    <3>1. s # {}
      BY <2>1, FS_EmptySet
    <3>2. x \in s
      BY <3>1
    <3>3. Cardinality(s \ {x}) = n
      <4>1. Cardinality(s \ {x}) = Cardinality(s) - 1
        BY <3>1, <3>2, <1>2, OneLess
      <4> QED
        BY <4>1, <2>1
    <3>4. g[s \ {x}] = h[s \ {x}]
      BY <3>3, <1>4
    <3>5. Fold(g, f, s) = Fold(h, f, s)
      BY <3>4, Zenon DEF Fold
    <3> QED
      BY <3>5, <1>1
  <2> QED
    BY <2>1
<1>5. \A n \in Nat : n \in T
  <2> HIDE DEF T
  <2> QED
    BY <1>3, <1>4, Induction
<1>6. Cardinality(R) \in Nat
  BY <1>2
<1> QED
  BY <1>5, <1>6

\* The sum over no element, and over one more.
LEMMA SumChosen ==
  ASSUME NEW f, NEW S, IsFiniteSet(S)
  PROVE  SumFunctionOnSet(f, S) =
           IF S = {} THEN 0
           ELSE LET x == CHOOSE y \in S : TRUE IN f[x] + SumFunctionOnSet(f, S \ {x})
<1> DEFINE x == CHOOSE y \in S : TRUE
           g == CHOOSE h : IsFold(h, f, S)
           k == CHOOSE h : IsFold(h, f, S \ {x})
<1>1. IsFold(g, f, S)
  BY FoldExists
<1>2. IsFiniteSet(S \ {x})
  BY FS_RemoveElement
<1>3. IsFold(k, f, S \ {x})
  BY <1>2, FoldExists
<1>4. SumFunctionOnSet(f, S) = g[S] /\ SumFunctionOnSet(f, S \ {x}) = k[S \ {x}]
  BY SumIsFold
<1> HIDE DEF g, k
<1>5. g[S \ {x}] = k[S \ {x}]
  BY <1>1, <1>3, FoldUnique
<1>6. g[S] = Fold(g, f, S)
  BY <1>1 DEF IsFold
<1> QED
  BY <1>4, <1>5, <1>6 DEF Fold

\* The sum over classes of how many there are of each is how many there are.
LEMMA ClassesCounted ==
  ASSUME NEW C, IsFiniteSet(C), NEW class, \A c \in C : class[c] \in Workers,
         NEW f, \A w \in Workers : f[w] = Cardinality({c \in C : class[c] = w}),
         DOMAIN f = Workers
  PROVE  SumFunction(f) = Cardinality(C)
<1> DEFINE Within(S) == {c \in C : class[c] \in S}
           T == {n \in Nat : \A S \in SUBSET Workers :
                   Cardinality(S) = n => SumFunctionOnSet(f, S) = Cardinality(Within(S))}
<1>1. \A S \in SUBSET Workers : IsFiniteSet(S) /\ Cardinality(S) \in Nat
  <2>1. \A S \in SUBSET Workers : IsFiniteSet(S)
    BY WorkersFinite, FS_Subset
  <2> QED BY <2>1, FS_CardinalityType
<1>2. 0 \in T
  <2>1. ASSUME NEW S \in SUBSET Workers, Cardinality(S) = 0
        PROVE  SumFunctionOnSet(f, S) = Cardinality(Within(S))
    <3>1. S = {}
      BY <1>1, <2>1, FS_EmptySet
    <3>2. SumFunctionOnSet(f, S) = 0
      BY <1>1, <3>1, SumChosen
    <3>3. Within(S) = {}
      BY <3>1
    <3> QED BY <3>2, <3>3, FS_EmptySet
  <2> QED BY <2>1
<1>3. ASSUME NEW n \in Nat, n \in T PROVE n + 1 \in T
  <2>1. ASSUME NEW S \in SUBSET Workers, Cardinality(S) = n + 1
        PROVE  SumFunctionOnSet(f, S) = Cardinality(Within(S))
    <3> DEFINE w == CHOOSE y \in S : TRUE
               A == {c \in C : class[c] = w}
               B == Within(S \ {w})
    <3>1. S # {}
      BY <2>1, FS_EmptySet
    <3>2. w \in S /\ w \in Workers
      BY <3>1
    <3>3. Cardinality(S \ {w}) = n
      <4>1. Cardinality(S \ {w}) = Cardinality(S) - 1
        BY <1>1, <3>1, <3>2, OneLess
      <4> QED BY <2>1, <4>1
    <3>4. SumFunctionOnSet(f, S) = f[w] + SumFunctionOnSet(f, S \ {w})
      BY <1>1, <3>1, SumChosen
    <3>5. SumFunctionOnSet(f, S \ {w}) = Cardinality(B)
      <4>1. S \ {w} \in SUBSET Workers
        OBVIOUS
      <4> HIDE DEF Within, w
      <4> QED BY <1>3, <3>3, <4>1
    <3>6. f[w] = Cardinality(A)
      BY <3>2
    <3>7. IsFiniteSet(A) /\ IsFiniteSet(B) /\ A \cap B = {} /\ Within(S) = A \cup B
      <4>1. IsFiniteSet(A) /\ IsFiniteSet(B)
        BY FS_Subset
      <4>2. A \cap B = {}
        OBVIOUS
      <4>3. Within(S) = A \cup B
        BY <3>2
      <4> QED BY <4>1, <4>2, <4>3
    <3> HIDE DEF A, B, w, Within
    <3>8. Cardinality(A \cup B) = Cardinality(A) + Cardinality(B)
      <4>1. Cardinality(A \cap B) = 0
        BY <3>7, FS_EmptySet
      <4>2. Cardinality(A \cup B) = Cardinality(A) + Cardinality(B) - Cardinality(A \cap B)
        BY <3>7, FS_Union
      <4>3. Cardinality(A) \in Nat /\ Cardinality(B) \in Nat
        BY <3>7, FS_CardinalityType
      <4> QED BY <4>1, <4>2, <4>3
    <3> QED BY <3>4, <3>5, <3>6, <3>7, <3>8
  <2> QED BY <2>1
<1>4. \A n \in Nat : n \in T
  <2> HIDE DEF T
  <2> QED BY <1>2, <1>3, Induction
<1>5. SumFunctionOnSet(f, Workers) = Cardinality(Within(Workers))
  BY <1>1, <1>4
<1>6. Within(Workers) = C
  OBVIOUS
<1> QED
  BY <1>5, <1>6 DEF SumFunction

\* What is exported is what moves, and so is what is imported.
LEMMA MovedCounted ==
  ASSUME assignment \in [Slots -> Workers], CallInv, Balancing
  PROVE  LET moved == Cardinality(Moved(call.arg)) IN
         /\ moved \in 0..Cardinality(Slots)
         /\ SumFunction([w \in Workers |->
              Cardinality(Children(w, call.arg) \ Kept(w))]) = moved
         /\ SumFunction([w \in Workers |-> Capacity(w) - Cardinality(Kept(w))]) = moved
<1> DEFINE C == Moved(call.arg)
           home == [c \in C |-> assignment[call.arg[c]]]
           goal == [c \in C |-> Target(c, call.arg)]
           out == [w \in Workers |-> Cardinality(Children(w, call.arg) \ Kept(w))]
           in == [w \in Workers |-> Capacity(w) - Cardinality(Kept(w))]
<1>1. /\ Plannable(call.arg) /\ call.arg \in [Slots -> Slots] /\ 0 \in Workers
  BY Sizes, BalanceFacts
<1>2. \A c \in Slots : Target(c, call.arg) \in Workers /\ assignment[call.arg[c]] \in Workers
  <2>1. Reassigned \in [Slots -> Workers]
    BY ReassignedTyped
  <2>2. \A c \in Slots : Reassigned[c] = Target(c, call.arg)
    BY DEF Reassigned, Balancing
  <2> QED BY <1>1, <2>1, <2>2
<1>3. C \in SUBSET Slots /\ IsFiniteSet(C) /\ Cardinality(C) \in 0..Cardinality(Slots)
  <2>1. C \in SUBSET Slots
    BY DEF Moved
  <2>2. IsFiniteSet(C) /\ Cardinality(C) <= Cardinality(Slots)
    BY <2>1, SlotsFinite, FS_Subset
  <2>3. Cardinality(C) \in Nat /\ Cardinality(Slots) \in Nat
    BY <2>2, SlotsFinite, FS_CardinalityType
  <2> QED BY <2>1, <2>2, <2>3
<1>4. ASSUME NEW w \in Workers
      PROVE  /\ Children(w, call.arg) \ Kept(w) = {c \in C : home[c] = w}
             /\ Share(w) \ Kept(w) = {c \in C : goal[c] = w}
             /\ Kept(w) \subseteq Share(w)
             /\ IsFiniteSet(Share(w)) /\ Cardinality(Share(w)) = Capacity(w)
  <2>1. /\ Share(w) = {s \in Slots : Target(s, call.arg) = w}
        /\ Kept(w) = Children(w, call.arg) \cap Share(w)
        /\ IsFiniteSet(Share(w)) /\ Cardinality(Share(w)) = Capacity(w)
    BY BalanceFacts
  <2>2. Children(w, call.arg) = {c \in Slots : assignment[call.arg[c]] = w}
    BY DEF Children
  <2> QED BY <2>1, <2>2 DEF Moved
<1>5. SumFunction(out) = Cardinality(C)
  <2>1. \A c \in C : home[c] \in Workers
    BY <1>2, <1>3
  <2>2. \A w \in Workers : out[w] = Cardinality({c \in C : home[c] = w})
    BY <1>4
  <2>3. DOMAIN out = Workers
    OBVIOUS
  <2> HIDE DEF C, home, out
  <2> QED BY <1>3, <2>1, <2>2, <2>3, ClassesCounted
<1>6. SumFunction(in) = Cardinality(C)
  <2>1. \A c \in C : goal[c] \in Workers
    BY <1>2, <1>3
  <2>2. ASSUME NEW w \in Workers PROVE in[w] = Cardinality({c \in C : goal[c] = w})
    <3>1. IsFiniteSet(Share(w)) /\ Share(w) \cap Kept(w) = Kept(w)
      BY <1>4
    <3>2. Cardinality(Share(w) \ Kept(w)) = Cardinality(Share(w)) - Cardinality(Kept(w))
      <4> HIDE DEF C, home, goal, out, in
      <4>1. Cardinality(Share(w) \ Kept(w))
              = Cardinality(Share(w)) - Cardinality(Share(w) \cap Kept(w))
        BY <3>1, FS_Difference
      <4> QED BY <3>1, <4>1
    <3>3. in[w] = Capacity(w) - Cardinality(Kept(w))
      OBVIOUS
    <3> HIDE DEF C, goal, in
    <3> QED BY <1>4, <3>2, <3>3
  <2>3. DOMAIN in = Workers
    OBVIOUS
  <2> HIDE DEF C, goal, in
  <2> QED BY <1>3, <2>1, <2>2, <2>3, ClassesCounted
<1> QED
  BY <1>3, <1>5, <1>6

-----------------------------------------------------------------------------
(* The pool implements a collection of particles.                          *)

\* The history is of all slots.
Filled == content = [s \in Slots |-> content[s]]

\* A reply that comes while the pool is broken is not the last of its call.
LEMMA NotTheLast ==
  ASSUME PoolInv, Calling, call.op # "shutdown", results[call.next] # <<>>
  PROVE  /\ ~broken => Live
         /\ broken => call.next + 1 # WorkerCount
<1>1. CallInv /\ broken \in BOOLEAN /\ closed \in BOOLEAN
  BY ShapesTyped DEF PoolInv
<1>2. call # NoCall /\ ~closed
  BY <1>1 DEF CallInv, Calling, NoCall
<1>3. Started /\ call.next \in Workers
  BY <1>1, <1>2 DEF CallInv
<1>4. ASSUME broken PROVE call.next + 1 # WorkerCount
  <2>1. PICK v \in Workers : results[v] = <<>> /\ call.next <= v
    BY <1>2, <1>3, <1>4 DEF PoolInv, BrokenInv
  <2>2. v # call.next /\ v \in Nat /\ call.next \in Nat /\ v < WorkerCount
    BY <1>3, <2>1, Sizes DEF Workers
  <2> QED BY <2>1, <2>2, Sizes
<1> QED
  BY <1>2, <1>3, <1>4 DEF Live

\* A call that is there is whole, and there is none that has no name.
LEMMA NoneIsNoCall ==
  ASSUME PoolInv, ~Calling
  PROVE  call = NoCall
<1>1. call # NoCall => call.op \in CallOps
  BY DEF PoolInv, CallInv, Asked
<1> QED BY <1>1 DEF Calling, CallOps

\* Nothing happens to the collection.
Unseen ==
  UNCHANGED <<content, answer, broken, era>> /\ (broken \/ UNCHANGED <<call.op, call.arg>>)

LEMMA UnseenStutters ==
  ASSUME Unseen
  PROVE  UNCHANGED Store!storeVars
BY DEF Unseen, Store!storeVars

LEMMA AskRequests ==
  ASSUME NEW op, NEW arg, NEW payload, Ask(op, arg, payload), op # "none", PoolInv
  PROVE  [Store!Next]_(Store!storeVars)
<1>1. /\ call.op = "none" /\ call'.op = op
      /\ UNCHANGED <<answer, broken, era, content>>
  BY Asks
<1>2. CASE broken
  BY <1>1, <1>2, UnseenStutters DEF Unseen
<1>3. CASE ~broken
  <2>1. Store!Request
    BY <1>1, <1>3 DEF Store!Request, Store!Requested
  <2> QED BY <2>1 DEF Store!Next
<1> QED
  BY <1>2, <1>3

\* A call that ends in an exception, or with the program.
LEMMA BreaksRaises ==
  ASSUME broken' = TRUE, call' = NoCall, UNCHANGED <<content, answer, era>>, Calling \/ broken,
         broken \in BOOLEAN
  PROVE  [Store!Next]_(Store!storeVars)
<1>1. CASE broken
  BY <1>1, UnseenStutters DEF Unseen
<1>2. CASE ~broken
  <2>1. Store!Raise
    BY <1>2 DEF Store!Raise, Store!Requested, Store!NoRequest, Calling
  <2> QED BY <2>1 DEF Store!Next
<1> QED
  BY <1>1, <1>2

LEMMA StoreCounts ==
  Store!Cardinality(Slots) = Cardinality(Slots)
BY DEF Store!Cardinality, Cardinality

\* What a call returns is what it would of one collection of particles.
LEMMA HeardReturns ==
  ASSUME PoolInv, Live, Filled, Receive, ~Misfits, NEW w \in Workers, w = call.next,
         w + 1 = WorkerCount
  PROVE  [Store!Next]_(Store!storeVars) /\ Filled'
<1>1. /\ call' = NoCall /\ ~broken' /\ ~broken /\ era' = era
      /\ content' = [s \in Slots |-> Gets(s)]
      /\ call.op \in {"propagate", "snapshot", "summarize", "persist",
                      "evaluate_nonmutating"} =>
           answer' = [op |-> call.op, got |-> AllReplies]
      /\ call.op = "resample_balanced" =>
           \E replies : /\ DOMAIN replies = 1..WorkerCount
                        /\ \A u \in Workers : replies[u + 1] = ReplyOf(u)
                        /\ answer' = [op |-> call.op, got |-> Joined(replies)]
      /\ call.op \in {"metrics", "resample"} => answer' = answer
  BY HeardAll DEF Live, Receive
<1>2. /\ Inboxes /\ Rooms /\ assignment \in [Slots -> Workers] /\ CallInv
      /\ broken \in BOOLEAN /\ broken' \in BOOLEAN
  <2>1. Shapes'
    BY HeardAll
  <2> QED BY <2>1, ShapesTyped DEF PoolInv, Shapes
<1>3. Calling /\ call.op # "shutdown" /\ call.op \in CallOps
  BY <1>2 DEF Receive, CallInv, Asked, Calling, NoCall
<1>4. Filled'
  <2>1. Slots' = Slots
    BY DEF Slots
  <2>2. \A s \in Slots : content'[s] = Gets(s)
    BY <1>1
  <2> QED BY <1>1, <2>1, <2>2 DEF Filled
<1>5. broken' = broken
  BY <1>1, <1>2
<1>6. \A s \in Slots : call.op \notin {"propagate", "resample", "resample_balanced"} =>
                          Gets(s) = content[s]
  BY DEF Gets
<1>7. call.op \notin {"propagate", "resample", "resample_balanced"} => content' = content
  BY <1>1, <1>6 DEF Filled
<1>8. Store!Return
  <2>1. CASE call.op = "propagate"
    <3>1. \A s \in Slots : Gets(s) = Store!Advanced(content[s], call.arg)
      BY <2>1 DEF Gets
    <3>2. /\ content' = [s \in Slots |-> Store!Advanced(content[s], call.arg)]
          /\ AllReplies = content'
      BY <1>1, <2>1, <3>1 DEF AllReplies
    <3> QED BY <1>1, <1>5, <2>1, <3>2
        DEF Store!Return, Store!Requested, Store!NoRequest, Store!Answers, NoCall
  <2>2. CASE call.op = "evaluate_nonmutating"
    <3>1. AllReplies = [j \in DOMAIN call.arg |->
                          Store!Forked(content[call.arg[j].slot], call.arg[j].sample)]
      BY <2>2 DEF AllReplies
    <3> QED BY <1>1, <1>5, <1>7, <2>2, <3>1
        DEF Store!Return, Store!Requested, Store!NoRequest, Store!Answers, NoCall
  <2>3. CASE call.op = "resample"
    <3>1. \A s \in Slots : Gets(s) = Store!Forked(content[call.arg[s]], s)
      BY <2>3 DEF Gets
    <3>2. content' = [s \in Slots |-> Store!Forked(content[call.arg[s]], s)]
      BY <1>1, <3>1
    <3> QED BY <1>1, <1>5, <2>3, <3>2
        DEF Store!Return, Store!Resampled, Store!Requested, Store!NoRequest, NoCall
  <2>4. CASE call.op = "resample_balanced"
    <3>1. \A s \in Slots : Gets(s) = Store!Forked(content[call.arg[s]], s)
      BY <2>4 DEF Gets
    <3>2. content' = [s \in Slots |-> Store!Forked(content[call.arg[s]], s)]
      BY <1>1, <3>1
    <3>3. PICK replies : /\ DOMAIN replies = 1..WorkerCount
                         /\ \A u \in Workers : replies[u + 1] = ReplyOf(u)
                         /\ answer' = [op |-> call.op, got |-> Joined(replies)]
      BY <1>1, <2>4
    <3>4. PICK n \in 0..Cardinality(Slots) :
            /\ n = Cardinality(Moved(call.arg))
            /\ SumFunction([u \in Workers |->
                 Cardinality(Children(u, call.arg) \ Kept(u))]) = n
            /\ SumFunction([u \in Workers |-> Capacity(u) - Cardinality(Kept(u))]) = n
      BY <1>2, <2>4, MovedCounted DEF Balancing
    <3>5. \A u \in Workers :
            /\ replies[u + 1].exported = Cardinality(Children(u, call.arg) \ Kept(u))
            /\ replies[u + 1].imported = Capacity(u) - Cardinality(Kept(u))
      <4>1. \A u \in Workers :
              ReplyOf(u) = [exported |-> Cardinality(Children(u, call.arg) \ Kept(u)),
                            imported |-> Capacity(u) - Cardinality(Kept(u))]
        BY <2>4 DEF ReplyOf
      <4> QED BY <3>3, <4>1
    <3>6. /\ [u \in Workers |-> replies[u + 1].exported]
               = [u \in Workers |-> Cardinality(Children(u, call.arg) \ Kept(u))]
          /\ [u \in Workers |-> replies[u + 1].imported]
               = [u \in Workers |-> Capacity(u) - Cardinality(Kept(u))]
      BY <3>5
    <3>7. Joined(replies) = [migrated |-> n, exported |-> n, imported |-> n]
      BY <2>4, <3>4, <3>6 DEF Joined
    <3>8. Store!Answers([migrated |-> n, exported |-> n, imported |-> n])
      BY <1>1, <3>3, <3>7 DEF Store!Answers
    <3>9. Store!AnswersMoved
      BY <3>8, StoreCounts DEF Store!AnswersMoved, Store!Answers
    <3> QED BY <1>1, <1>5, <2>4, <3>2, <3>9
        DEF Store!Return, Store!Resampled, Store!Requested, Store!NoRequest, NoCall
  <2>5. CASE call.op \in {"snapshot", "summarize"}
    <3>1. AllReplies = content
      BY <1>6, <2>5 DEF AllReplies, Filled
    <3> QED BY <1>1, <1>5, <1>7, <2>5, <3>1
        DEF Store!Return, Store!Requested, Store!NoRequest, Store!Answers, NoCall
  <2>6. CASE call.op = "persist"
    <3>1. AllReplies = [s \in Slots |-> [state |-> content[s], era |-> era]]
      BY <2>6 DEF AllReplies, FileOf
    <3> QED BY <1>1, <1>5, <1>7, <2>6, <3>1
        DEF Store!Return, Store!Requested, Store!NoRequest, Store!Answers, NoCall
  <2>7. CASE call.op = "metrics"
    BY <1>1, <1>5, <1>7, <2>7 DEF Store!Return, Store!Requested, Store!NoRequest, NoCall
  <2> QED BY <1>3, <2>1, <2>2, <2>3, <2>4, <2>5, <2>6, <2>7 DEF CallOps
<1> QED
  BY <1>4, <1>8 DEF Store!Next

LEMMA ReceiveReturns ==
  ASSUME PoolInv, Filled, Receive
  PROVE  [Store!Next]_(Store!storeVars) /\ Filled'
<1>1. /\ broken \in BOOLEAN /\ CallInv
      /\ Calling /\ call.op # "shutdown" /\ results[call.next] # <<>> /\ era' = era
      /\ call.next \in Workers
  BY ShapesTyped DEF PoolInv, Receive, CallInv
<1>2. /\ ~broken => Live
      /\ broken => call.next + 1 # WorkerCount
  BY <1>1, NotTheLast
<1>3. Filled' <=> content' = [s \in Slots |-> content'[s]]
  BY DEF Filled, Slots
<1>4. CASE ~Misfits /\ call.next + 1 < WorkerCount
  <2>1. /\ call' = [call EXCEPT !.next = @ + 1, !.got = Append(call.got, Head(results[call.next]).got)]
        /\ UNCHANGED <<answer, broken, content>>
    BY <1>1, <1>4, Sizes DEF Receive
  <2>2. call'.op = call.op /\ call'.arg = call.arg
    BY <1>1, <2>1 DEF CallInv
  <2>3. Unseen
    BY <1>1, <2>1, <2>2 DEF Unseen
  <2> QED BY <1>3, <2>1, <2>3, UnseenStutters DEF Filled
<1>5. CASE ~Misfits /\ call.next + 1 = WorkerCount
  BY <1>1, <1>2, <1>5, HeardReturns
<1>6. CASE Misfits
  <2>1. call' = NoCall /\ broken' = TRUE /\ UNCHANGED <<answer, content>>
    BY <1>6 DEF Receive
  <2> QED BY <1>1, <1>3, <2>1, BreaksRaises DEF Filled
<1>7. ~Misfits => call.next + 1 < WorkerCount \/ call.next + 1 = WorkerCount
  BY DEF Receive
<1> QED
  BY <1>4, <1>5, <1>6, <1>7

LEMMA JoinsReturns ==
  ASSUME PoolInv, Filled, Joins
  PROVE  [Store!Next]_(Store!storeVars) /\ Filled'
<1>1. /\ broken \in BOOLEAN /\ CallInv
      /\ Calling /\ call.op = "shutdown" /\ UNCHANGED <<answer, era, content>>
  BY ShapesTyped DEF PoolInv, Joins
<1>2. Filled'
  BY <1>1 DEF Filled, Slots
<1>3. CASE /\ call' = [call EXCEPT !.next = @ + 1] /\ UNCHANGED broken
  <2>1. call'.op = call.op /\ call'.arg = call.arg
    BY <1>1, <1>3 DEF CallInv
  <2>2. Unseen
    BY <1>1, <1>3, <2>1 DEF Unseen
  <2> QED BY <1>2, <2>2, UnseenStutters
<1>4. CASE call' = NoCall /\ UNCHANGED broken
  <2>1. CASE broken
    BY <1>1, <1>2, <1>4, <2>1, UnseenStutters DEF Unseen
  <2>2. CASE ~broken
    <3>1. Store!Return
      BY <1>1, <1>4, <2>2 DEF Store!Return, Store!Requested, Store!NoRequest, NoCall
    <3> QED BY <1>2, <3>1 DEF Store!Next
  <2> QED BY <2>1, <2>2
<1>5. CASE call' = NoCall /\ broken' = TRUE
  BY <1>1, <1>2, <1>5, BreaksRaises
<1> QED
  BY <1>3, <1>4, <1>5 DEF Joins

LEMMA KilledRaises ==
  ASSUME PoolInv, Filled, Killed
  PROVE  [Store!Next]_(Store!storeVars) /\ Filled'
<1>1. /\ broken \in BOOLEAN /\ broken' = (broken \/ Calling) /\ call' = NoCall
      /\ UNCHANGED <<answer, era, content>>
  BY ShapesTyped DEF PoolInv, Killed
<1>2. Filled'
  BY <1>1 DEF Filled, Slots
<1>3. CASE broken \/ Calling
  BY <1>1, <1>2, <1>3, BreaksRaises
<1>4. CASE ~broken /\ ~Calling
  <2>1. call = NoCall
    BY <1>4, NoneIsNoCall
  <2>2. Unseen
    BY <1>1, <1>4, <2>1 DEF Unseen
  <2> QED BY <1>2, <2>2, UnseenStutters
<1> QED
  BY <1>3, <1>4

\* Particles as they are at some week, or at first.
LEMMA RootsAreContents ==
  Roots \in Store!Contents
<1>1. ASSUME NEW s \in Slots PROVE << <<"slot", s>> >> \in Seq(Store!Events)
  <2> DEFINE x == <<"slot", s>>
  <2>1. x \in Store!Events
    BY Sizes DEF Store!Events
  <2> HIDE DEF x
  <2>2. <<x>> \in Seq(Store!Events)
    BY <2>1
  <2> QED BY <2>2 DEF x
<1> QED
  BY <1>1 DEF Roots, Store!Contents

LEMMA StateAppended ==
  ASSUME NEW state \in Seq(Store!Events), NEW n \in Nat
  PROVE  /\ Store!Advanced(state, n) \in Seq(Store!Events)
         /\ Store!Forked(state, n) \in Seq(Store!Events)
<1>1. ASSUME NEW x \in Store!Events PROVE Append(state, x) \in Seq(Store!Events)
  OBVIOUS
<1>2. <<"advanced", n>> \in Store!Events /\ <<"forked", n>> \in Store!Events
  BY DEF Store!Events
<1> QED
  BY <1>1, <1>2 DEF Store!Advanced, Store!Forked

LEMMA ReferenceContents ==
  ASSUME RunInv, stage # "any"
  PROVE  \A w \in 0..Weeks : Reference[w] \in Store!Contents
<1> DEFINE T == {n \in Nat : n \in 0..Weeks => Reference[n] \in Store!Contents}
<1>1. 0 \in T
  BY ReferenceIs, RootsAreContents
<1>2. ASSUME NEW n \in Nat, n \in T PROVE n + 1 \in T
  <2> SUFFICES ASSUME n + 1 \in 0..Weeks PROVE Reference[n + 1] \in Store!Contents
    OBVIOUS
  <2>1. n \in 0..Weeks /\ n + 1 \in 1..Weeks /\ (n + 1) - 1 = n
    BY StudyFacts
  <2>2. Reference[n] \in Store!Contents
    BY <1>2, <2>1
  <2>3. Reference[n + 1] = OneWeek(Reference[n], n + 1)
    BY <2>1, ReferenceIs
  <2>4. draws[n + 1] \in {<<>>} \cup [Slots -> Slots]
    BY <2>1, RunnerAssumption DEF RunInv, StudyInv
  <2> HIDE DEF T
  <2>5. \A s \in Slots : Store!Advanced(Reference[n][s], n + 1) \in Seq(Store!Events)
    BY <2>2, StateAppended DEF Store!Contents
  <2>6. draws[n + 1] # <<>> => \A s \in Slots :
          Store!Forked(Store!Advanced(Reference[n][draws[n + 1][s]], n + 1), s)
            \in Seq(Store!Events)
    BY <2>4, <2>5, StateAppended, Sizes
  <2> QED BY <2>3, <2>4, <2>5, <2>6 DEF OneWeek, Store!Contents
<1>3. \A n \in Nat : n \in T
  <2> HIDE DEF T
  <2> QED BY <1>1, <1>2, Induction
<1> QED
  BY <1>3, StudyFacts

\* Of a step that leaves the particles, the call and the answer the collection sees nothing.
LEMMA NothingSeen ==
  ASSUME Filled, UNCHANGED coordinatorVars
  PROVE  [Store!Next]_(Store!storeVars) /\ Filled'
<1>1. UNCHANGED <<call, answer, broken, era, content>>
  BY DEF coordinatorVars
<1>2. Unseen
  BY <1>1 DEF Unseen
<1> QED
  BY <1>1, <1>2, UnseenStutters DEF Filled, Slots

LEMMA AskSeen ==
  ASSUME PoolInv, Filled, NEW op, NEW arg, NEW payload, Ask(op, arg, payload), op # "none"
  PROVE  [Store!Next]_(Store!storeVars) /\ Filled'
<1>1. content' = content
  BY Asks
<1> QED
  BY <1>1, AskRequests DEF Filled, Slots

LEMMA ReadSeen ==
  ASSUME PoolInv, Filled, NEW name, AskRead(name), name # "none"
  PROVE  [Store!Next]_(Store!storeVars) /\ Filled'
BY AskSeen DEF AskRead

LEMMA OpenReopens ==
  ASSUME NEW initial, NEW first, Open(initial, first), initial \in Store!Contents
  PROVE  [Store!Next]_(Store!storeVars) /\ Filled'
<1>1. /\ era' = era + 1 /\ content' = initial
      /\ call' = NoCall /\ answer' = Nothing /\ broken' = FALSE
  BY DEF Open
<1>2. Store!Reopen
  BY <1>1 DEF Store!Reopen, Store!NoRequest, NoCall
<1>3. Filled'
  BY <1>1 DEF Filled, Store!Contents, Slots
<1> QED
  BY <1>2, <1>3 DEF Store!Next

\* A pool begins with the particles of some week, from a cache or anew.
LEMMA StartReopens ==
  ASSUME RunInv, Start
  PROVE  [Store!Next]_(Store!storeVars) /\ Filled'
<1>1. stage = "starting"
  BY DEF Start
<1>2. ASSUME NEW key \in Keys, manifests[key] # Nothing PROVE Stored(key) \in Store!Contents
  <2>1. \A s \in Slots : files[<<key, s>>].state = Reference[WeekOf(key)][s]
    BY <1>2 DEF RunInv, PublishedInv
  <2>2. WeekOf(key) \in 0..Weeks
    BY StudyFacts
  <2>3. Reference[WeekOf(key)] \in Store!Contents
    BY <1>1, <2>2, ReferenceContents
  <2>4. \A s \in Slots : files[<<key, s>>].state \in Seq(Store!Events)
    BY <2>1, <2>3 DEF Store!Contents
  <2> QED BY <2>4 DEF Stored, Store!Contents
<1>3. CASE manifests[Posterior] # Nothing /\ Open(Stored(Posterior), "loading")
  BY <1>2, <1>3, OpenReopens, StudyFacts
<1>4. CASE Restarts # {} /\ Open(Stored(Max(Restarts)), "loading")
  <2>1. PICK last \in Restarts : last = Max(Restarts)
    BY <1>4, LastRestart
  <2>2. last \in Keys /\ manifests[last] # Nothing
    BY StudyFacts DEF Restarts, Loadable
  <2> QED BY <1>2, <1>4, <2>1, <2>2, OpenReopens
<1>5. CASE Open(Roots, "serving")
  BY <1>5, OpenReopens, RootsAreContents
<1> QED
  BY <1>3, <1>4, <1>5 DEF Start

LEMMA RunsSeen ==
  ASSUME StudyOnPool, Filled, Runs
  PROVE  [Store!Next]_(Store!storeVars) /\ Filled'
<1>1. PoolInv /\ RunInv
  BY DEF StudyOnPool
<1>2. CASE Start
  BY <1>1, <1>2, StartReopens
<1>3. CASE Advance
  BY <1>1, <1>3, AskSeen DEF Advance, AskPropagate
<1>4. CASE Assimilate
  <2>1. UNCHANGED poolVars \/ AskResampleBalanced(draws[week + 1])
    BY <1>4 DEF Assimilate
  <2>2. CASE UNCHANGED poolVars
    BY <2>2, NothingSeen DEF poolVars
  <2>3. CASE AskResampleBalanced(draws[week + 1])
    BY <1>1, <2>3, AskSeen DEF AskResampleBalanced
  <2> QED BY <2>1, <2>2, <2>3
<1>5. CASE SaveRestart \/ SavePosterior
  <2>1. PICK key : AskPersist(key)
    BY <1>5 DEF SaveRestart, SavePosterior, Save
  <2> QED BY <1>1, <2>1, AskSeen DEF AskPersist
<1>6. CASE Summarize
  BY <1>1, <1>6, ReadSeen DEF Summarize
<1>7. CASE Batch
  <2>1. PICK jobs : AskEvaluate(jobs)
    BY <1>7 DEF Batch
  <2> QED BY <1>1, <2>1, AskSeen DEF AskEvaluate
<1>8. CASE Measure
  BY <1>1, <1>8, ReadSeen DEF Measure
<1>9. CASE Close
  BY <1>1, <1>9, ReadSeen DEF Close
<1>10. CASE Publish \/ Consume \/ Escape \/ End
  <2>1. UNCHANGED poolVars
    BY <1>10 DEF Publish, Consume, Escape, End
  <2> QED BY <2>1, NothingSeen DEF poolVars
<1> QED
  BY <1>2, <1>3, <1>4, <1>5, <1>6, <1>7, <1>8, <1>9, <1>10 DEF Runs

LEMMA CallAnySeen ==
  ASSUME PoolInv, Filled, CallAny
  PROVE  [Store!Next]_(Store!storeVars) /\ Filled'
<1>1. CASE AskPropagate(1) \/ AskPersist(1)
  BY <1>1, AskSeen DEF AskPropagate, AskPersist
<1>2. CASE \E name \in {"snapshot", "summarize", "metrics", "shutdown"} : AskRead(name)
  BY <1>2, ReadSeen
<1>3. CASE \E slots \in Selections :
             AskEvaluate([j \in DOMAIN slots |-> [slot |-> slots[j], sample |-> j]])
  <2>1. PICK jobs : AskEvaluate(jobs)
    BY <1>3
  <2> QED BY <2>1, AskSeen DEF AskEvaluate
<1>4. CASE \E parents \in Draws \ {<<>>} : AskResample(parents) \/ AskResampleBalanced(parents)
  BY <1>4, AskSeen DEF AskResample, AskResampleBalanced
<1> QED
  BY <1>1, <1>2, <1>3, <1>4 DEF CallAny

\* Every step is one of the collection's, or none.
LEMMA NextSeen ==
  ASSUME StudyOnPool, Filled, [Next]_vars
  PROVE  [Store!Next]_(Store!storeVars) /\ Filled'
<1>1. PoolInv /\ RunInv
  BY DEF StudyOnPool
<1>2. CASE Runs
  BY <1>2, RunsSeen
<1>3. CASE Coordinates
  BY <1>1, <1>3, ReceiveReturns, JoinsReturns DEF Coordinates
<1>4. CASE Rerun
  BY <1>1, <1>4, KilledRaises DEF Rerun
<1>5. CASE OpenAny
  BY <1>5, OpenReopens, RootsAreContents DEF OpenAny
<1>6. CASE CallAny
  BY <1>1, <1>6, CallAnySeen
<1>7. CASE \E w \in Workers : Works(w)
  <2>1. PICK w \in Workers : Worker(w)
    BY <1>7 DEF Works
  <2>2. Alone(w)
    BY <1>1, <2>1, ShapesTyped, WorkerAlone DEF PoolInv
  <2> QED BY <2>2, NothingSeen DEF Alone
<1>8. CASE UNCHANGED vars
  BY <1>8, NothingSeen DEF vars, poolVars
<1> QED
  BY <1>2, <1>3, <1>4, <1>5, <1>6, <1>7, <1>8 DEF Next

\* ImplementsParticleStore: the pool, with its particles in several processes and its
\* children on their way between them, does to them and answers what one collection of
\* particles would, for every number of particles and workers.
THEOREM PoolIsOneCollection == Spec => ImplementsParticleStore
<1>1. Init => Store!Init /\ Filled
  <2> SUFFICES ASSUME PoolInit PROVE Store!Init /\ Filled
    BY DEF Init
  <2>1. /\ era = 0 /\ content = [s \in Slots |-> <<>>]
        /\ call = NoCall /\ answer = Nothing /\ broken = FALSE
    BY DEF PoolInit
  <2>2. content \in Store!Contents
    <3>1. <<>> \in Seq(Store!Events)
      OBVIOUS
    <3> QED BY <2>1, <3>1 DEF Store!Contents
  <2> QED BY <2>1, <2>2 DEF Store!Init, Store!NoRequest, NoCall, Filled
<1>2. StudyOnPool /\ Filled /\ [Next]_vars => [Store!Next]_(Store!storeVars) /\ Filled'
  BY NextSeen
<1> QED
  BY <1>1, <1>2, StudyOnPoolInvariant, PTL DEF Spec, ImplementsParticleStore, Store!Spec
=============================================================================
