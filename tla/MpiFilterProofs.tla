--------------------------- MODULE MpiFilterProofs ---------------------------
(***************************************************************************)
(* The single pass of systematic_resample is exact for every number of     *)
(* particles and all weights.                                              *)
(*                                                                         *)
(* The distributed filter, for every number of particles, ranks and        *)
(* boundaries and every job: the exchange of parents hands every rank its  *)
(* children; the ranks' collective calls match; and between boundaries the *)
(* ranks hold the single-process filter.                                   *)
(*                                                                         *)
(* No rank is in lockstep with another, so the invariant speaks of one     *)
(* rank at a time: where it is, and that each call it has made is the one  *)
(* a script, which only the job determines, has at that position.          *)
(***************************************************************************)
EXTENDS SystematicResample, MpiFilter, FiniteSetTheorems, SequenceTheorems,
        WellFoundedInduction, TLAPS

-----------------------------------------------------------------------------
(* The pass of systematic_resample.                                        *)

\* The input: prefix sums of weights with support, and a start below a step.
InputInv ==
  /\ prefix[0] = 0
  /\ \A i \in Indices : prefix[i] <= prefix[i + 1]
  /\ total > 0
  /\ start < total

\* cumulative is the weight before parent, and the next child lies beyond it.
PassInv ==
  /\ cumulative = prefix[parent]
  /\ N * prefix[parent] <= Target(start, child, total)

IInv == PassTypeOK /\ InputInv /\ PassInv /\ ParentsAreExact

-----------------------------------------------------------------------------

LEMMA TimesMonotonicBothWays ==
  ASSUME NEW a \in Nat, NEW b \in Nat, NEW c \in Nat, a <= b
  PROVE  c * a <= c * b /\ a * c <= b * c
  <1>1. b - a \in Nat  OBVIOUS
  <1>2. c * (b - a) \in Nat  BY <1>1
  <1>3. c * b = c * a + c * (b - a)  BY <1>1
  <1>4. c * a \in Nat /\ c * b \in Nat /\ a * c = c * a /\ b * c = c * b  OBVIOUS
  <1> QED BY <1>2, <1>3, <1>4

\* Every child's position lies before the end of the last particle's share, so
\* the cap on parent loses nothing.
LEMMA TargetInSupport ==
  ASSUME NEW n \in Nat \ {0}, NEW t \in Nat, NEW s \in Nat, s < t,
         NEW c \in 0 .. n - 1
  PROVE  Target(s, c, t) < n * t /\ Target(s, c, t) <= Target(s, c + 1, t)
                                 /\ Target(s, c, t) \in Nat
  <1>1. c \in Nat /\ n - 1 \in Nat /\ c <= n - 1  OBVIOUS
  <1>2. c * t <= (n - 1) * t  BY <1>1, TimesMonotonicBothWays
  <1>3. (n - 1) * t = n * t - t /\ (c + 1) * t = c * t + t  BY <1>1
  <1>4. c * t \in Nat /\ n * t \in Nat /\ (c + 1) * t \in Nat  BY <1>1
  <1> QED BY <1>2, <1>3, <1>4 DEF Target

\* Shares with a position between their bounds have weight.
LEMMA TimesStrict ==
  ASSUME NEW a \in Nat, NEW b \in Nat, NEW c \in Nat, c * a < c * b
  PROVE  a < b
  <1>1. SUFFICES ASSUME b <= a PROVE FALSE  OBVIOUS
  <1>2. c * b <= c * a  BY <1>1, TimesMonotonicBothWays
  <1>3. c * a \in Nat /\ c * b \in Nat  OBVIOUS
  <1> QED BY <1>2, <1>3

-----------------------------------------------------------------------------

LEMMA PassInitInv == PassInit => IInv
  <1> SUFFICES ASSUME PassInit PROVE IInv  OBVIOUS
  <1> USE NAssumption, MaxWeightAssumption
  <1>1. N * MaxWeight \in Nat  OBVIOUS
  <1>2. prefix \in [0 .. N -> Nat]  BY <1>1 DEF PassInit
  <1>3. \A i \in Indices : i \in 0 .. N /\ i + 1 \in 0 .. N  BY DEF Indices
  <1>4. total \in Nat /\ total > 0  BY <1>2 DEF PassInit, total
  <1>5. PassTypeOK
    <2>1. child = 0 /\ parent = 0 /\ cumulative = 0  BY DEF PassInit
    <2>2. start \in Nat  BY <1>4 DEF PassInit
    <2>3. 0 .. child - 1 = {}  BY <2>1
    <2>4. result \in [0 .. child - 1 -> Indices]  BY <2>3 DEF PassInit
    <2> QED BY <1>2, <2>1, <2>2, <2>4 DEF PassTypeOK, Indices
  <1>6. InputInv
    <2>1. ASSUME NEW i \in Indices PROVE prefix[i] <= prefix[i + 1]
      <3>1. prefix[i] \in Nat /\ prefix[i + 1] \in Nat  BY <1>2, <1>3
      <3>2. prefix[i + 1] - prefix[i] \in 0 .. MaxWeight  BY DEF PassInit, Weight
      <3> QED BY <3>1, <3>2
    <2> QED BY <1>4, <2>1 DEF InputInv, PassInit
  <1>7. PassInv
    <2>1. start \in Nat /\ total \in Nat  BY <1>4, <1>5 DEF PassTypeOK
    <2> QED BY <2>1 DEF PassInv, PassInit, Target
  <1>8. ParentsAreExact  BY DEF ParentsAreExact, PassInit
  <1> QED BY <1>5, <1>6, <1>7, <1>8 DEF IInv

LEMMA NextParentInv == IInv /\ NextParent => IInv'
  <1> SUFFICES ASSUME IInv, NextParent PROVE IInv'  OBVIOUS
  <1> USE NAssumption
  <1>1. PassTypeOK /\ InputInv /\ PassInv /\ ParentsAreExact  BY DEF IInv
  <1>2. parent \in Nat /\ parent + 1 < N /\ parent \in 0 .. N /\ parent + 1 \in 0 .. N
    BY <1>1 DEF NextParent, Beyond, PassTypeOK, Indices
  <1>3. prefix[parent] \in Nat /\ prefix[parent + 1] \in Nat  BY <1>1, <1>2 DEF PassTypeOK
  <1>4. cumulative + Weight(parent) = prefix[parent + 1]
    BY <1>1, <1>3 DEF PassInv, Weight
  <1>5. /\ cumulative' = prefix[parent + 1] /\ parent' = parent + 1
        /\ prefix' = prefix /\ start' = start /\ child' = child /\ result' = result
    BY <1>4 DEF NextParent
  <1>6. PassTypeOK'  BY <1>1, <1>2, <1>3, <1>5 DEF PassTypeOK, Indices
  <1>7. total' = total  BY <1>5 DEF total
  <1>8. InputInv'  BY <1>1, <1>5, <1>7 DEF InputInv
  <1>9. N * prefix[parent + 1] <= Target(start, child, total)
    BY <1>4 DEF NextParent, Beyond
  <1>10. PassInv'  BY <1>5, <1>7, <1>9 DEF PassInv, Target
  <1>11. ParentsAreExact'  BY <1>1, <1>5, <1>7 DEF ParentsAreExact, Target
  <1> QED BY <1>6, <1>8, <1>10, <1>11 DEF IInv

LEMMA AssignInv == IInv /\ Assign => IInv'
  <1> SUFFICES ASSUME IInv, Assign PROVE IInv'  OBVIOUS
  <1> USE NAssumption
  <1>1. PassTypeOK /\ InputInv /\ PassInv /\ ParentsAreExact  BY DEF IInv
  <1>2. child \in 0 .. N - 1 /\ parent \in 0 .. N - 1
    BY <1>1 DEF Assign, PassTypeOK, Indices
  <1>3. /\ child' = child + 1 /\ parent' = parent /\ cumulative' = cumulative
        /\ prefix' = prefix /\ start' = start
        /\ result' = [c \in 0 .. child |-> IF c = child THEN parent ELSE result[c]]
    BY DEF Assign
  <1>4. total' = total /\ total \in Nat /\ start \in Nat /\ start < total
    BY <1>1, <1>3 DEF total, PassTypeOK, InputInv
  <1>5. /\ prefix[parent] \in Nat /\ prefix[parent + 1] \in Nat
        /\ cumulative + Weight(parent) = prefix[parent + 1]
    <2>1. parent \in 0 .. N /\ parent + 1 \in 0 .. N  BY <1>2
    <2>2. prefix[parent] \in Nat /\ prefix[parent + 1] \in Nat
      BY <1>1, <2>1 DEF PassTypeOK
    <2> QED BY <1>1, <2>2 DEF PassInv, Weight
  <1>6. /\ Target(start, child, total) < N * total
        /\ Target(start, child, total) <= Target(start, child + 1, total)
        /\ Target(start, child, total) \in Nat
        /\ Target(start, child + 1, total) \in Int
    <2>1. Target(start, child + 1, total) \in Int  BY <1>2, <1>4 DEF Target
    <2> QED BY <1>2, <1>4, <2>1, TargetInSupport
  <1>7. Target(start, child, total) < N * prefix[parent + 1]
    <2>1. CASE parent + 1 < N
      <3>1. ~(Target(start, child, total) >= N * (cumulative + Weight(parent)))
        BY <2>1 DEF Assign, Beyond
      <3>2. N * prefix[parent + 1] \in Nat  BY <1>5
      <3> QED BY <1>5, <1>6, <3>1, <3>2
    <2>2. CASE ~(parent + 1 < N)
      <3>1. parent + 1 = N  BY <1>2, <2>2
      <3> QED BY <1>6, <3>1 DEF total
    <2> QED BY <2>1, <2>2
  <1>8. PassTypeOK'
    <2>1. 0 .. child' - 1 = 0 .. child  BY <1>2, <1>3
    <2>2. ASSUME NEW c \in 0 .. child
          PROVE  (IF c = child THEN parent ELSE result[c]) \in Indices
      <3>1. CASE c = child  BY <1>2, <3>1 DEF Indices
      <3>2. CASE c # child
        <4>1. c \in 0 .. child - 1  BY <1>2, <3>2
        <4> QED BY <1>1, <3>2, <4>1 DEF PassTypeOK
      <3> QED BY <3>1, <3>2
    <2>3. result' \in [0 .. child' - 1 -> Indices]  BY <1>3, <2>1, <2>2
    <2>4. child' \in 0 .. N  BY <1>2, <1>3
    <2> QED BY <1>1, <1>3, <2>3, <2>4 DEF PassTypeOK, Indices
  <1>9. InputInv'  BY <1>1, <1>3, <1>4 DEF InputInv
  <1>10. PassInv'
    <2>1. N * prefix[parent] \in Nat  BY <1>5
    <2>2. N * prefix[parent] <= Target(start, child + 1, total)
      BY <1>1, <1>6, <2>1 DEF PassInv
    <2> QED BY <1>1, <1>3, <1>4, <2>2 DEF PassInv
  <1>11. ParentsAreExact'
    <2>1. SUFFICES ASSUME NEW c \in 0 .. child' - 1
                   PROVE  /\ N * prefix[result'[c]] <= Target(start, c, total)
                          /\ Target(start, c, total) < N * prefix[result'[c] + 1]
      BY <1>3, <1>4 DEF ParentsAreExact, Target
    <2>2. c \in 0 .. child /\ result'[c] = IF c = child THEN parent ELSE result[c]
      BY <1>2, <1>3, <2>1
    <2>3. CASE c = child
      BY <1>1, <1>7, <2>2, <2>3 DEF PassInv
    <2>4. CASE c # child
      <3>1. c \in 0 .. child - 1 /\ result'[c] = result[c]  BY <1>2, <2>2, <2>4
      <3> QED BY <1>1, <3>1 DEF ParentsAreExact
    <2> QED BY <2>3, <2>4
  <1> QED BY <1>8, <1>9, <1>10, <1>11 DEF IInv

LEMMA StutterInv == IInv /\ UNCHANGED passVars => IInv'
  BY DEF IInv, PassTypeOK, InputInv, PassInv, ParentsAreExact, passVars, Target, total,
         Indices

\* The loop invariant.
LEMMA Invariant == PassSpec => []IInv
  <1>1. IInv /\ [PassNext]_passVars => IInv'
    BY NextParentInv, AssignInv, StutterInv DEF PassNext
  <1> QED BY PassInitInv, <1>1, PTL DEF PassSpec

\* parent stays an index of the weights, and result grows by one valid entry
\* per child, whatever the weights.
THEOREM PassTyped == PassSpec => []PassTypeOK
  <1>1. IInv => PassTypeOK  BY DEF IInv
  <1> QED BY Invariant, <1>1, PTL

\* The single pass gives every child the parent that holds its position.
THEOREM Exact == PassSpec => []ParentsAreExact
  <1>1. IInv => ParentsAreExact  BY DEF IInv
  <1> QED BY Invariant, <1>1, PTL

\* No child descends from a particle without weight.
THEOREM NoDead == PassSpec => []NoDeadParent
  <1>1. IInv => NoDeadParent
    <2> SUFFICES ASSUME IInv, NEW c \in 0 .. child - 1 PROVE Weight(result[c]) > 0
      BY DEF NoDeadParent
    <2> USE NAssumption
    <2>1. result[c] \in 0 .. N - 1  BY DEF IInv, PassTypeOK, Indices
    <2>2. result[c] \in 0 .. N /\ result[c] + 1 \in 0 .. N  BY <2>1
    <2>3. prefix[result[c]] \in Nat /\ prefix[result[c] + 1] \in Nat
      BY <2>2 DEF IInv, PassTypeOK
    <2>4. Target(start, c, total) \in Int
      <3>1. N \in 0 .. N /\ c \in Int  BY DEF IInv, PassTypeOK
      <3>2. total \in Nat /\ start \in Nat  BY <3>1 DEF IInv, PassTypeOK, total
      <3> QED BY <3>1, <3>2 DEF Target
    <2>5. N * prefix[result[c]] < N * prefix[result[c] + 1]
      <3>1. N * prefix[result[c]] \in Nat /\ N * prefix[result[c] + 1] \in Nat
        BY <2>3
      <3>2. /\ N * prefix[result[c]] <= Target(start, c, total)
            /\ Target(start, c, total) < N * prefix[result[c] + 1]
        BY DEF IInv, ParentsAreExact
      <3> QED BY <2>4, <3>1, <3>2
    <2>6. prefix[result[c]] < prefix[result[c] + 1]
      BY <2>3, <2>5, TimesStrict
    <2> QED BY <2>3, <2>6 DEF Weight
  <1> QED BY Invariant, <1>1, PTL

-----------------------------------------------------------------------------
(* How many children a particle gets.                                      *)

\* Every nonempty set of naturals has a least element.
LEMMA LeastOf ==
  ASSUME NEW T, T \subseteq Nat, T # {}
  PROVE  \E m \in T : \A n \in T : m <= n
<1>1. PICK m \in T : \A n \in T : <<n, m>> \notin OpToRel(<, Nat)
  BY NatLessThanWellFounded, WFMin, Zenon
<1>2. \A n \in T : ~(n < m)
  BY <1>1, Zenon DEF OpToRel
<1> QED
  BY <1>2

\* The positions of children with numbers from b on are those from bound on.
Reaches(s, t, bound, b) == \A c \in Nat : s + c * t >= bound <=> c >= b

LEMMA FirstBeyond ==
  ASSUME NEW t \in Nat \ {0}, NEW s \in Nat, s < t, NEW bound \in Nat
  PROVE  \E b \in Nat : /\ Reaches(s, t, bound, b)
                        /\ s + b * t >= bound /\ s + b * t < bound + t
<1> DEFINE T == {c \in Nat : s + c * t >= bound}
<1>1. bound \in T
  <2>1. 1 <= t  OBVIOUS
  <2>2. bound * 1 <= bound * t  BY <2>1, TimesMonotonicBothWays
  <2>3. bound * t \in Nat /\ bound * 1 = bound  OBVIOUS
  <2> QED  BY <2>2, <2>3
<1>2. PICK b \in T : \A c \in T : b <= c
  <2>1. T \subseteq Nat /\ T # {}  BY <1>1
  <2> HIDE DEF T
  <2> QED  BY <2>1, LeastOf
<1>3. b \in Nat /\ s + b * t >= bound  BY <1>2
<1>4. ASSUME NEW c \in Nat, c >= b PROVE s + c * t >= bound
  <2>1. b * t <= c * t  BY <1>3, <1>4, TimesMonotonicBothWays
  <2>2. b * t \in Nat /\ c * t \in Nat  BY <1>3
  <2> QED  BY <1>3, <2>1, <2>2
<1>5. Reaches(s, t, bound, b)
  BY <1>2, <1>3, <1>4 DEF Reaches
<1>6. s + b * t < bound + t
  <2>1. CASE b = 0
    <3>1. b * t = 0  BY <2>1
    <3> QED  BY <3>1
  <2>2. CASE b # 0
    <3>1. b - 1 \in Nat /\ ~(b - 1 >= b)  BY <1>3, <2>2
    <3>2. ~(s + (b - 1) * t >= bound)  BY <1>5, <3>1 DEF Reaches
    <3>3. (b - 1) * t = b * t - t /\ b * t \in Nat  BY <1>3, <3>1
    <3> QED  BY <3>2, <3>3
  <2> QED  BY <2>1, <2>2
<1> QED  BY <1>3, <1>5, <1>6

\* The prefix sums never fall.
LEMMA PrefixRises ==
  ASSUME IInv, NEW i \in 0 .. N, NEW k \in 0 .. N, i <= k
  PROVE  prefix[i] <= prefix[k]
<1> DEFINE T == {m \in Nat : i + m <= N /\ ~(prefix[i] <= prefix[i + m])}
<1> USE NAssumption
<1>1. \A m \in 0 .. N : prefix[m] \in Nat  BY DEF IInv, PassTypeOK
<1>2. T = {}
  <2> SUFFICES ASSUME T # {} PROVE FALSE  OBVIOUS
  <2>1. PICK m \in T : \A n \in T : m <= n
    <3>1. T \subseteq Nat  OBVIOUS
    <3> HIDE DEF T
    <3> QED  BY <3>1, LeastOf
  <2>2. m \in Nat /\ i + m <= N /\ ~(prefix[i] <= prefix[i + m])  BY <2>1
  <2>3. m # 0
    <3>1. i + 0 = i  OBVIOUS
    <3> QED  BY <1>1, <2>2, <3>1
  <2>4. m - 1 \in Nat /\ m - 1 \notin T  BY <2>1, <2>2, <2>3
  <2>5. i + (m - 1) \in 0 .. N - 1 /\ (i + (m - 1)) + 1 = i + m  BY <2>2, <2>3
  <2>6. prefix[i] <= prefix[i + (m - 1)]  BY <2>4, <2>5
  <2>7. prefix[i + (m - 1)] <= prefix[(i + (m - 1)) + 1]
    BY <2>5 DEF IInv, InputInv, Indices
  <2>8. prefix[i + (m - 1)] \in Nat /\ prefix[i + m] \in Nat /\ prefix[i] \in Nat
    BY <1>1, <2>2, <2>5
  <2> QED  BY <2>2, <2>5, <2>6, <2>7, <2>8
<1>3. k - i \in Nat /\ i + (k - i) = k  OBVIOUS
<1>4. k - i \notin T  BY <1>2
<1> HIDE DEF T
<1> QED  BY <1>3, <1>4 DEF T

\* The children of a particle are those whose position lies in its share.
LEMMA OwnShare ==
  ASSUME IInv, child = N, NEW i \in Indices, NEW c \in Indices
  PROVE  result[c] = i <=> /\ N * prefix[i] <= Target(start, c, total)
                           /\ Target(start, c, total) < N * prefix[i + 1]
<1> USE NAssumption
<1> DEFINE j == result[c]
<1>1. c \in 0 .. child - 1  BY DEF Indices
<1>2. j \in 0 .. N - 1 /\ i \in 0 .. N - 1  BY <1>1 DEF IInv, PassTypeOK, Indices
<1>3. /\ N * prefix[j] <= Target(start, c, total)
      /\ Target(start, c, total) < N * prefix[j + 1]
  BY <1>1 DEF IInv, ParentsAreExact
<1>4. \A m \in 0 .. N : prefix[m] \in Nat /\ N * prefix[m] \in Nat  BY DEF IInv, PassTypeOK
<1>5. Target(start, c, total) \in Int
  <2>1. total \in Nat /\ start \in Nat /\ c \in Nat
    BY DEF IInv, PassTypeOK, total, Indices
  <2> QED  BY <2>1 DEF Target
<1> HIDE DEF j
<1>6. CASE j = i
  BY <1>3, <1>6 DEF j
<1>7. CASE j < i
  <2>1. j + 1 \in 0 .. N /\ i \in 0 .. N /\ j + 1 <= i  BY <1>2, <1>7
  <2>2. N * prefix[j + 1] <= N * prefix[i]  BY <1>4, <2>1, PrefixRises, TimesMonotonicBothWays
  <2>3. N * prefix[j + 1] \in Nat /\ N * prefix[i] \in Nat  BY <1>4, <2>1
  <2> QED  BY <1>3, <1>5, <1>7, <2>2, <2>3 DEF j
<1>8. CASE i < j
  <2>1. i + 1 \in 0 .. N /\ j \in 0 .. N /\ i + 1 <= j  BY <1>2, <1>8
  <2>2. N * prefix[i + 1] <= N * prefix[j]  BY <1>4, <2>1, PrefixRises, TimesMonotonicBothWays
  <2>3. N * prefix[i + 1] \in Nat /\ N * prefix[j] \in Nat  BY <1>4, <2>1
  <2> QED  BY <1>3, <1>5, <1>8, <2>2, <2>3 DEF j
<1>9. j < i \/ j = i \/ i < j  BY <1>2
<1> QED  BY <1>6, <1>7, <1>8, <1>9

\* At the end of the pass every particle has the floor or the ceiling of its share
\* of the children.
THEOREM SharesAreWhole == PassSpec => []OffspringFollowsWeight
<1>1. IInv => OffspringFollowsWeight
  <2> SUFFICES ASSUME IInv, child = N, NEW i \in Indices
               PROVE  /\ (Offspring(i) - 1) * total < N * Weight(i)
                      /\ N * Weight(i) < (Offspring(i) + 1) * total
    BY DEF OffspringFollowsWeight
  <2> USE NAssumption
  <2> DEFINE t == total
             a == N * prefix[i]
             b == N * prefix[i + 1]
  <2>1. i \in 0 .. N - 1 /\ i \in 0 .. N /\ i + 1 \in 0 .. N /\ N \in 0 .. N  BY DEF Indices
  <2>2. prefix[i] \in Nat /\ prefix[i + 1] \in Nat /\ prefix[N] \in Nat
    BY <2>1 DEF IInv, PassTypeOK
  <2>3. t \in Nat \ {0} /\ start \in Nat /\ start < t
    BY <2>2 DEF IInv, PassTypeOK, InputInv, total
  <2>4. a \in Nat /\ b \in Nat /\ a <= b /\ b <= N * t
    <3>1. prefix[i] <= prefix[i + 1] /\ prefix[i + 1] <= prefix[N]  BY <2>1, PrefixRises
    <3> QED  BY <2>2, <3>1, TimesMonotonicBothWays DEF total
  <2>5. b - a = N * Weight(i)
    <3>1. N * (prefix[i + 1] - prefix[i]) = N * prefix[i + 1] - N * prefix[i]  BY <2>2
    <3> QED  BY <3>1 DEF Weight
  <2> HIDE DEF t, a, b
  <2>6. PICK l \in Nat : Reaches(start, t, a, l) /\ start + l * t >= a /\ start + l * t < a + t
    BY <2>3, <2>4, FirstBeyond
  <2>7. PICK h \in Nat : Reaches(start, t, b, h) /\ start + h * t >= b /\ start + h * t < b + t
    BY <2>3, <2>4, FirstBeyond
  <2>8. l <= h
    <3>1. h * t \in Nat  BY <2>3
    <3>2. start + h * t >= a  BY <2>3, <2>4, <2>7, <3>1
    <3>3. h >= l  BY <2>6, <3>2 DEF Reaches
    <3> QED  BY <3>3
  <2>9. h <= N
    <3>1. N * t \in Nat  BY <2>3
    <3>2. start + N * t >= b  BY <2>3, <2>4, <3>1
    <3>3. N >= h  BY <2>7, <3>2 DEF Reaches
    <3> QED  BY <3>3
  <2>10. {c \in Indices : result[c] = i} = l .. h - 1
    <3>1. ASSUME NEW c \in Indices PROVE result[c] = i <=> c \in l .. h - 1
      <4>1. c \in Nat  BY DEF Indices
      <4>2. result[c] = i <=> a <= start + c * t /\ start + c * t < b
        BY OwnShare DEF a, b, t, Target
      <4>3. c * t \in Nat  BY <2>3, <4>1
      <4>4. (start + c * t >= a <=> c >= l) /\ (start + c * t >= b <=> c >= h)
        BY <2>6, <2>7, <4>1 DEF Reaches
      <4> QED  BY <2>3, <2>4, <4>1, <4>2, <4>3, <4>4
    <3>2. \A c \in l .. h - 1 : c \in Indices  BY <2>9 DEF Indices
    <3> QED  BY <3>1, <3>2
  <2>11. Offspring(i) = h - l
    <3>1. Cardinality(l .. h - 1) = h - l
      <4>1. l \in Int /\ h - 1 \in Int  OBVIOUS
      <4>2. Cardinality(l .. h - 1) = IF l > h - 1 THEN 0 ELSE (h - 1) - l + 1
        BY <4>1, FS_Interval
      <4> QED  BY <2>8, <4>2
    <3> QED  BY <2>10, <3>1 DEF Offspring
  <2>12. ((h - l) - 1) * t = h * t - l * t - t /\ ((h - l) + 1) * t = h * t - l * t + t
    BY <2>3
  <2>13. h * t \in Nat /\ l * t \in Nat  BY <2>3
  <2>14. ((h - l) - 1) * t < b - a /\ b - a < ((h - l) + 1) * t
    BY <2>3, <2>4, <2>6, <2>7, <2>12, <2>13
  <2> QED  BY <2>5, <2>11, <2>14 DEF t
<1> QED  BY Invariant, <1>1, PTL

-----------------------------------------------------------------------------
(* The partition.                                                          *)

\* What integer division returns.
LEMMA Division ==
  ASSUME NEW a \in Nat, NEW b \in Nat \ {0}
  PROVE  /\ a \div b \in Nat
         /\ b * (a \div b) <= a
         /\ a < b * (a \div b) + b
OBVIOUS

\* Multiplying by a natural number is monotonic.
LEMMA TimesMonotonic ==
  ASSUME NEW a \in Int, NEW b \in Int, NEW c \in Nat, a <= b
  PROVE  c * a <= c * b
OBVIOUS

\* A rank's interval starts at the first particle p with r * M <= p * R.
LEMMA StartsAt ==
  ASSUME NEW M \in Nat \ {0}, NEW R \in Nat \ {0}, NEW r \in Nat, NEW p \in Nat
  PROVE  /\ RankStart(r, M, R) \in Nat
         /\ RankStart(r, M, R) <= p <=> r * M <= p * R
<1>. DEFINE c == RankStart(r, M, R)
<1>1. /\ r * M \in Nat /\ p * R \in Nat
      /\ r * M + R - 1 \in Nat
  OBVIOUS
<1>2. /\ c \in Nat
      /\ R * c <= r * M + R - 1
      /\ r * M + R - 1 < R * c + R
  BY <1>1, Division DEF RankStart, DivCeil
<1>. HIDE DEF c
<1>3. ASSUME c <= p PROVE r * M <= p * R
  <2>1. R * c <= R * p
    BY <1>2, <1>3, TimesMonotonic
  <2>2. r * M <= R * c
    BY <1>1, <1>2
  <2>. QED  BY <2>1, <2>2, <1>1, <1>2
<1>4. ASSUME ~(c <= p) PROVE ~(r * M <= p * R)
  <2>1. p <= c - 1 /\ c - 1 \in Int
    BY <1>2, <1>4
  <2>2. R * p <= R * (c - 1)
    BY <2>1, TimesMonotonic
  <2>3. R * (c - 1) = R * c - R
    BY <1>2
  <2>. QED  BY <2>2, <2>3, <1>1, <1>2
<1>. QED  BY <1>2, <1>3, <1>4 DEF c

\* The owner is the last rank r with r * M <= p * R.
LEMMA OwnsFrom ==
  ASSUME NEW M \in Nat \ {0}, NEW R \in Nat \ {0}, NEW r \in Nat, NEW p \in Nat
  PROVE  /\ Owner(p, M, R) \in Nat
         /\ r <= Owner(p, M, R) <=> r * M <= p * R
<1>. DEFINE q == Owner(p, M, R)
<1>1. r * M \in Nat /\ p * R \in Nat
  OBVIOUS
<1>2. /\ q \in Nat
      /\ M * q <= p * R
      /\ p * R < M * q + M
  BY <1>1, Division DEF Owner
<1>. HIDE DEF q
<1>3. ASSUME r <= q PROVE r * M <= p * R
  <2>1. M * r <= M * q
    BY <1>2, <1>3, TimesMonotonic
  <2>. QED  BY <2>1, <1>1, <1>2
<1>4. ASSUME ~(r <= q) PROVE ~(r * M <= p * R)
  <2>1. M * (q + 1) <= M * r
    BY <1>2, <1>4, TimesMonotonic
  <2>2. M * (q + 1) = M * q + M
    BY <1>2
  <2>. QED  BY <2>1, <2>2, <1>1, <1>2
<1>. QED  BY <1>2, <1>3, <1>4 DEF q

\* rank_particles(r) is exactly the set of particles canonical_owner gives to
\* rank r, for all M and R, even when R does not divide M or exceeds it.
THEOREM OwnerIffInRange ==
  ASSUME NEW M \in Nat \ {0}, NEW R \in Nat \ {0},
         NEW p \in 0 .. M - 1, NEW r \in 0 .. R - 1
  PROVE  Owner(p, M, R) = r <=> p \in RankParticles(r, M, R)
<1>1. /\ Owner(p, M, R) \in Nat
      /\ r <= Owner(p, M, R) <=> r * M <= p * R
      /\ r + 1 <= Owner(p, M, R) <=> (r + 1) * M <= p * R
  BY OwnsFrom
<1>2. p \in Nat /\ r \in Nat /\ r + 1 \in Nat
  OBVIOUS
<1>3. /\ RankStart(r, M, R) \in Nat
      /\ RankStart(r, M, R) <= p <=> r * M <= p * R
  BY <1>2, StartsAt
<1>4. /\ RankStart(r + 1, M, R) \in Nat
      /\ RankStart(r + 1, M, R) <= p <=> (r + 1) * M <= p * R
  BY <1>2, StartsAt
<1>. QED  BY <1>1, <1>2, <1>3, <1>4 DEF RankParticles

\* Every particle has an owner among the ranks.
THEOREM OwnerIsARank ==
  ASSUME NEW M \in Nat \ {0}, NEW R \in Nat \ {0}, NEW p \in 0 .. M - 1
  PROVE  Owner(p, M, R) \in 0 .. R - 1
<1>1. /\ Owner(p, M, R) \in Nat
      /\ R <= Owner(p, M, R) <=> R * M <= p * R
  BY OwnsFrom
<1>2. R * p <= R * (M - 1)
  BY TimesMonotonic
<1>3. /\ R * (M - 1) = R * M - R
      /\ R * M \in Nat /\ R * p \in Nat /\ p * R = R * p
  OBVIOUS
<1>4. ~(R * M <= p * R)
  BY <1>2, <1>3
<1>. QED  BY <1>1, <1>4

-----------------------------------------------------------------------------
(* The exchange of parents.                                                *)

\* The packet of child c when rank s holds the particles ps[s].
PacketOf(c, ps, parents, M, R) ==
  [source |-> Owner(parents[c], M, R), child |-> c, parent |-> parents[c],
   payload |-> ps[Owner(parents[c], M, R)][parents[c]]]

\* What all ranks send.
Sent(ps, parents, M, R) ==
  [s \in 0 .. R - 1 |-> [d \in 0 .. R - 1 |-> Bucket(s, d, ps[s], parents, M, R)]]

\* A rank's interval lies among the particles.
LEMMA InParticles ==
  ASSUME NEW M \in Nat \ {0}, NEW R \in Nat \ {0}, NEW d \in 0 .. R - 1
  PROVE  RankParticles(d, M, R) \in SUBSET (0 .. M - 1)
<1>1. d \in Nat /\ d + 1 \in Nat /\ M \in Nat
  OBVIOUS
<1>2. /\ RankStart(d, M, R) \in Nat
      /\ RankStart(d + 1, M, R) \in Nat
      /\ RankStart(d + 1, M, R) <= M <=> (d + 1) * M <= M * R
  BY <1>1, StartsAt
<1>3. (d + 1) * M <= M * R
  <2>1. M * (d + 1) <= M * R
    BY TimesMonotonic
  <2>. QED  BY <2>1
<1>4. RankStart(d + 1, M, R) <= M
  BY <1>2, <1>3
<1>. QED  BY <1>2, <1>4 DEF RankParticles

\* Rank d receives the packets of its own children and no other.
THEOREM ReceivesItsChildren ==
  ASSUME NEW M \in Nat \ {0}, NEW R \in Nat \ {0}, NEW ps,
         NEW parents \in [0 .. M - 1 -> 0 .. M - 1], NEW d \in 0 .. R - 1
  PROVE  Received(Sent(ps, parents, M, R), d) =
           {PacketOf(c, ps, parents, M, R) : c \in RankParticles(d, M, R)}
<1>. DEFINE sent == Sent(ps, parents, M, R)
<1>1. Received(sent, d) = UNION {Bucket(s, d, ps[s], parents, M, R) : s \in 0 .. R - 1}
  BY DEF Received, Sent
<1>2. \A c \in RankParticles(d, M, R) : c \in 0 .. M - 1
  BY InParticles
<1>3. ASSUME NEW s \in 0 .. R - 1, NEW packet \in Bucket(s, d, ps[s], parents, M, R)
      PROVE  \E c \in RankParticles(d, M, R) : packet = PacketOf(c, ps, parents, M, R)
  <2>1. PICK c \in 0 .. M - 1 :
          /\ Owner(parents[c], M, R) = s
          /\ Owner(c, M, R) = d
          /\ packet = [source |-> s, child |-> c, parent |-> parents[c],
                       payload |-> ps[s][parents[c]]]
    BY DEF Bucket
  <2>2. c \in RankParticles(d, M, R)
    BY <2>1, OwnerIffInRange
  <2>. QED  BY <2>1, <2>2 DEF PacketOf
<1>4. ASSUME NEW c \in RankParticles(d, M, R)
      PROVE  \E s \in 0 .. R - 1 :
               PacketOf(c, ps, parents, M, R) \in Bucket(s, d, ps[s], parents, M, R)
  <2>1. c \in 0 .. M - 1 /\ parents[c] \in 0 .. M - 1
    BY <1>2
  <2>2. Owner(parents[c], M, R) \in 0 .. R - 1
    BY <2>1, OwnerIsARank
  <2>3. Owner(c, M, R) = d
    BY <2>1, OwnerIffInRange
  <2>4. PacketOf(c, ps, parents, M, R) \in
          Bucket(Owner(parents[c], M, R), d, ps[Owner(parents[c], M, R)], parents, M, R)
    BY <2>1, <2>3 DEF Bucket, PacketOf
  <2>. QED  BY <2>2, <2>4
<1>5. Received(sent, d) \subseteq {PacketOf(c, ps, parents, M, R) : c \in RankParticles(d, M, R)}
  <2>. SUFFICES ASSUME NEW packet \in Received(sent, d)
                PROVE  packet \in {PacketOf(c, ps, parents, M, R) : c \in RankParticles(d, M, R)}
    OBVIOUS
  <2>1. PICK s \in 0 .. R - 1 : packet \in Bucket(s, d, ps[s], parents, M, R)
    BY <1>1
  <2>. QED  BY <1>3, <2>1
<1>6. {PacketOf(c, ps, parents, M, R) : c \in RankParticles(d, M, R)} \subseteq Received(sent, d)
  BY <1>1, <1>4
<1>. QED  BY <1>5, <1>6

\* The intervals of ranks are finite.
LEMMA IntervalFinite ==
  ASSUME NEW M \in Nat \ {0}, NEW R \in Nat \ {0}, NEW d \in 0 .. R - 1
  PROVE  IsFiniteSet(RankParticles(d, M, R))
<1>1. RankParticles(d, M, R) \in SUBSET (0 .. M - 1)
  BY InParticles
<1>2. IsFiniteSet(0 .. M - 1)
  BY FS_Interval
<1>. QED  BY <1>1, <1>2, FS_Subset

\* The count and the children of what is received are those that
\* materialize_children_for_range demands.
THEOREM ExchangeAccepted ==
  ASSUME NEW M \in Nat \ {0}, NEW R \in Nat \ {0}, NEW ps,
         NEW parents \in [0 .. M - 1 -> 0 .. M - 1], NEW d \in 0 .. R - 1
  PROVE  Accepted(Received(Sent(ps, parents, M, R), d), RankParticles(d, M, R))
<1>. DEFINE range == RankParticles(d, M, R)
            packets == {PacketOf(c, ps, parents, M, R) : c \in range}
            f == [c \in range |-> PacketOf(c, ps, parents, M, R)]
<1>1. Received(Sent(ps, parents, M, R), d) = packets
  BY ReceivesItsChildren
<1>2. \A c \in range : f[c].child = c
  BY DEF PacketOf
<1>3. f \in Bijection(range, packets)
  <2>1. f \in [range -> packets]
    OBVIOUS
  <2>2. \A a, b \in range : f[a] = f[b] => a = b
    BY <1>2
  <2>3. \A p \in packets : \E c \in range : f[c] = p
    OBVIOUS
  <2>. QED  BY <2>1, <2>2, <2>3 DEF Bijection, Injection, Surjection, IsInjective
<1>4. Cardinality(packets) = Cardinality(range)
  BY <1>3, IntervalFinite, FS_Bijection DEF ExistsBijection
<1>5. {packet.child : packet \in packets} = range
  <2>1. \A c \in range : PacketOf(c, ps, parents, M, R).child = c
    BY DEF PacketOf
  <2>. QED  BY <2>1
<1>. QED  BY <1>1, <1>4, <1>5 DEF Accepted

\* So child c of rank d is made from the state of its parent.
THEOREM ChildrenOfTheirParents ==
  ASSUME NEW M \in Nat \ {0}, NEW R \in Nat \ {0}, NEW ps, NEW b,
         NEW parents \in [0 .. M - 1 -> 0 .. M - 1], NEW d \in 0 .. R - 1
  PROVE  Children(Received(Sent(ps, parents, M, R), d), RankParticles(d, M, R),
                  RankStart(d, M, R), b) =
           [c \in RankParticles(d, M, R) |->
              MaterializedChild(PacketOf(c, ps, parents, M, R), RankStart(d, M, R), b)]
<1>. DEFINE range == RankParticles(d, M, R)
            packets == {PacketOf(c, ps, parents, M, R) : c \in range}
<1>1. Received(Sent(ps, parents, M, R), d) = packets
  BY ReceivesItsChildren
<1>2. ASSUME NEW c \in range
      PROVE  (CHOOSE packet \in packets : packet.child = c) = PacketOf(c, ps, parents, M, R)
  <2>1. \A a \in range : PacketOf(a, ps, parents, M, R).child = a
    BY DEF PacketOf
  <2>2. \A packet \in packets : packet.child = c => packet = PacketOf(c, ps, parents, M, R)
    BY <2>1
  <2>3. \E packet \in packets : packet.child = c
    BY <2>1
  <2>. QED  BY <2>2, <2>3
<1>. HIDE DEF packets
<1>3. Children(packets, range, RankStart(d, M, R), b) =
        [c \in range |-> MaterializedChild(CHOOSE packet \in packets : packet.child = c,
                                          RankStart(d, M, R), b)]
  BY DEF Children
<1>4. [c \in range |-> MaterializedChild(CHOOSE packet \in packets : packet.child = c,
                                        RankStart(d, M, R), b)] =
        [c \in range |-> MaterializedChild(PacketOf(c, ps, parents, M, R),
                                          RankStart(d, M, R), b)]
  <2>1. ASSUME NEW c \in range
        PROVE  MaterializedChild(CHOOSE packet \in packets : packet.child = c,
                                 RankStart(d, M, R), b)
                 = MaterializedChild(PacketOf(c, ps, parents, M, R), RankStart(d, M, R), b)
    BY <1>2, Zenon
  <2>. QED  BY <2>1, Zenon
<1>. QED  BY <1>1, <1>3, <1>4

\* The same, child by child.
LEMMA ChildFacts ==
  ASSUME NEW M \in Nat \ {0}, NEW R \in Nat \ {0}, NEW ps, NEW b,
         NEW parents \in [0 .. M - 1 -> 0 .. M - 1], NEW d \in 0 .. R - 1,
         NEW c \in RankParticles(d, M, R)
  PROVE  Children(Received(Sent(ps, parents, M, R), d), RankParticles(d, M, R),
                  RankStart(d, M, R), b)[c]
           = MaterializedChild(PacketOf(c, ps, parents, M, R), RankStart(d, M, R), b)
<1>. DEFINE k == Children(Received(Sent(ps, parents, M, R), d), RankParticles(d, M, R),
                          RankStart(d, M, R), b)
<1>1. k = [i \in RankParticles(d, M, R) |->
             MaterializedChild(PacketOf(i, ps, parents, M, R), RankStart(d, M, R), b)]
  BY ChildrenOfTheirParents
<1>. HIDE DEF k
<1>2. k[c] = MaterializedChild(PacketOf(c, ps, parents, M, R), RankStart(d, M, R), b)
  BY <1>1
<1>. QED  BY <1>2 DEF k

-----------------------------------------------------------------------------
(* Prefix sums, and the parents that systematic resampling chooses.        *)

\* Every nonempty set of naturals has a least element.
LEMMA Least ==
  ASSUME NEW T, T \subseteq Nat, T # {}
  PROVE  \E m \in T : \A n \in T : m <= n
<1>1. PICK m \in T : \A n \in T : <<n, m>> \notin OpToRel(<, Nat)
  BY NatLessThanWellFounded, WFMin, Zenon
<1>2. \A n \in T : ~(n < m)
  BY <1>1, Zenon DEF OpToRel
<1> QED
  BY <1>2

\* A set that holds 0 and with every number its successor holds them all.
LEMMA Induction ==
  ASSUME NEW T, 0 \in T, \A n \in Nat : n \in T => n + 1 \in T
  PROVE  \A n \in Nat : n \in T
<1> SUFFICES ASSUME Nat \ T # {} PROVE FALSE
  OBVIOUS
<1>1. PICK m \in Nat \ T : \A n \in Nat \ T : m <= n
  BY Least
<1>2. m - 1 \in Nat /\ m - 1 \in T
  BY <1>1
<1>3. (m - 1) + 1 = m /\ (m - 1) + 1 \in T
  BY <1>1, <1>2
<1> QED
  BY <1>1, <1>3

IsPrefix(f, w, M) ==
  f = [i \in 0 .. M |-> IF i = 0 THEN 0 ELSE f[i - 1] + w[i - 1]]

LEMMA PrefixExists ==
  ASSUME NEW w
  PROVE  \A M \in Nat : \E f : IsPrefix(f, w, M)
<1> DEFINE T == {M \in Nat : \E f : IsPrefix(f, w, M)}
<1>1. 0 \in T
  <2>1. IsPrefix([i \in 0 .. 0 |-> 0], w, 0)
    BY DEF IsPrefix
  <2> QED
    BY <2>1
<1>2. ASSUME NEW M \in Nat, M \in T PROVE M + 1 \in T
  <2>1. PICK f : IsPrefix(f, w, M)
    BY <1>2
  <2> DEFINE g == [i \in 0 .. M + 1 |-> IF i = M + 1 THEN f[M] + w[M] ELSE f[i]]
  <2>2. ASSUME NEW i \in 0 .. M + 1
        PROVE  g[i] = IF i = 0 THEN 0 ELSE g[i - 1] + w[i - 1]
    <3>1. CASE i = M + 1
      <4>1. i - 1 = M /\ i # 0 /\ i - 1 \in 0 .. M + 1 /\ i - 1 # M + 1
        BY <3>1
      <4> QED
        BY <3>1, <4>1
    <3>2. CASE i \in 0 .. M
      <4>1. f[i] = IF i = 0 THEN 0 ELSE f[i - 1] + w[i - 1]
        BY <2>1, <3>2 DEF IsPrefix
      <4>2. i # M + 1 /\ (i # 0 => i - 1 \in 0 .. M + 1 /\ i - 1 # M + 1)
        BY <3>2
      <4> QED
        BY <4>1, <4>2
    <3> QED
      BY <3>1, <3>2
  <2>3. IsPrefix(g, w, M + 1)
    BY <2>2 DEF IsPrefix
  <2> QED
    BY <2>3
<1> HIDE DEF T
<1>3. \A M \in Nat : M \in T
  BY <1>1, <1>2, Induction
<1> QED
  BY <1>3 DEF T

\* What the sums are.
LEMMA PrefixSums ==
  ASSUME NEW M \in Nat, NEW w
  PROVE  /\ Prefix(w, M)[0] = 0
         /\ \A i \in 0 .. M - 1 : Prefix(w, M)[i + 1] = Prefix(w, M)[i] + w[i]
<1> DEFINE P == Prefix(w, M)
<1>1. P = [i \in 0 .. M |-> IF i = 0 THEN 0 ELSE P[i - 1] + w[i - 1]]
  <2>1. \E f : f = [i \in 0 .. M |-> IF i = 0 THEN 0 ELSE f[i - 1] + w[i - 1]]
    BY PrefixExists DEF IsPrefix
  <2> QED
    BY <2>1 DEF Prefix
<1> HIDE DEF P
<1>2. P[0] = 0
  BY <1>1
<1>3. ASSUME NEW i \in 0 .. M - 1 PROVE P[i + 1] = P[i] + w[i]
  <2>1. i + 1 \in 0 .. M /\ i + 1 # 0 /\ (i + 1) - 1 = i
    OBVIOUS
  <2> QED
    BY <1>1, <2>1
<1> QED
  BY <1>2, <1>3 DEF P

LEMMA PrefixNatural ==
  ASSUME NEW M \in Nat, NEW w, \A i \in 0 .. M - 1 : w[i] \in Nat
  PROVE  \A i \in 0 .. M : Prefix(w, M)[i] \in Nat
<1> DEFINE T == {i \in Nat : i <= M => Prefix(w, M)[i] \in Nat}
<1>1. 0 \in T
  BY PrefixSums
<1>2. ASSUME NEW i \in Nat, i \in T PROVE i + 1 \in T
  <2>1. CASE i \in 0 .. M - 1
    BY <1>2, <2>1, PrefixSums
  <2>2. CASE i \notin 0 .. M - 1
    BY <2>2
  <2> QED
    BY <2>1, <2>2
<1> HIDE DEF T
<1>3. \A i \in Nat : i \in T
  BY <1>1, <1>2, Induction
<1> QED
  BY <1>3 DEF T

\* Every position below the total lies in the share of some particle.
LEMMA ParentExists ==
  ASSUME NEW M \in Nat \ {0}, NEW w, \A i \in 0 .. M - 1 : w[i] \in Nat,
         NEW position \in Nat, position < M * Total(w, M)
  PROVE  ParentAt(position, Prefix(w, M), M) \in 0 .. M - 1
<1> DEFINE P == Prefix(w, M)
           T == {i \in 0 .. M - 1 : position < M * P[i + 1]}
<1>1. P[0] = 0 /\ \A i \in 0 .. M : P[i] \in Nat
  BY PrefixSums, PrefixNatural
<1>2. position < M * P[M]
  BY DEF Total
<1> HIDE DEF P
<1>3. M - 1 \in T /\ T \subseteq Nat
  BY <1>2
<1> HIDE DEF T
<1>4. PICK m \in T : \A n \in T : m <= n
  BY <1>3, Least
<1>5. m \in 0 .. M - 1 /\ position < M * P[m + 1]
  BY <1>4 DEF T
<1>6. M * P[m] <= position
  <2>1. CASE m = 0
    BY <1>1, <2>1
  <2>2. CASE m # 0
    <3>1. m - 1 \in 0 .. M - 1 /\ m - 1 \notin T /\ (m - 1) + 1 = m
      BY <1>3, <1>4, <1>5, <2>2
    <3>2. ~(position < M * P[m])
      BY <3>1 DEF T
    <3>3. M * P[m] \in Nat
      BY <1>1, <1>5
    <3> QED
      BY <3>2, <3>3
  <2> QED
    BY <2>1, <2>2
<1> QED
  BY <1>5, <1>6 DEF ParentAt, P

\* So the parents of a boundary with support are particles.
LEMMA ParentsAreParticles ==
  ASSUME NEW M \in Nat \ {0}, NEW w, \A i \in 0 .. M - 1 : w[i] \in Nat,
         NEW origin \in Nat, origin < Total(w, M)
  PROVE  Parents(origin, w, M) \in [0 .. M - 1 -> 0 .. M - 1]
<1> DEFINE t == Total(w, M)
<1>1. t \in Nat
  BY PrefixNatural DEF Total
<1> HIDE DEF t
<1>2. ASSUME NEW c \in 0 .. M - 1
      PROVE  ParentAt(Target(origin, c, t), Prefix(w, M), M) \in 0 .. M - 1
  <2>1. t * c <= t * (M - 1)
    BY <1>1, TimesMonotonic
  <2>2. t * (M - 1) = t * M - t /\ t * M = M * t /\ t * c = c * t /\ c * t \in Nat
    BY <1>1
  <2>3. Target(origin, c, t) \in Nat /\ Target(origin, c, t) < M * t
    BY <1>1, <2>1, <2>2 DEF Target, t
  <2> QED
    BY <2>3, ParentExists DEF t
<1> QED
  BY <1>2 DEF Parents, t

-----------------------------------------------------------------------------
(* The single-process filter.                                              *)

\* The single-process filter at boundary b, and on its way to the next one.
Canon(j, b) == Canonical[j][b]
Moved(j, b) == [i \in Particles |-> Advanced(Canon(j, b).particles[i])]
Weighed(j, b) == Reweighted(j, b + 1, Canon(j, b).weights, Moved(j, b))
Decided(j, b) == Decision(j, Weighed(j, b), Canon(j, b).draws)

Lineages == Seq(Particles)
Forks == [boundary : Nat, child : Particles, parent : Particles]
Streams == [seed : Particles, forks : Seq(Forks)]
ParticleStates ==
  [logical_id : Particles, lineage : Lineages \ {<<>>}, rng : Streams,
   time : Nat, filter_boundary : Nat, weights_log : Nat, topology : {PinelandTopology}]
Decisions ==
  [resampled : BOOLEAN, weights : [Particles -> Nat], parents : [Particles -> Particles]]
UpdateRecords ==
  [boundary : Nat, decision : Decisions, ancestry : [Particles -> Lineages]]
Samples == [Particles -> [weight : Nat, of : Lineages, time : Nat]]
Filters(b) ==
  [particles : [Particles -> ParticleStates], weights : [Particles -> Nat],
   draws : 0 .. b, mcse : Seq(Samples), updates : Seq(UpdateRecords), failed : BOOLEAN]

LEMMA CanonSteps ==
  ASSUME NEW j \in Jobs
  PROVE  /\ Canon(j, 0) = Start
         /\ \A b \in 0 .. BoundaryCount - 1 : Canon(j, b + 1) = Updated(j, Canon(j, b), b + 1)
<1>1. \A b \in 0 .. BoundaryCount :
        Canon(j, b) = IF b = 0 THEN Start ELSE Updated(j, Canonical[j][b - 1], b)
  <2>1. Canonical[j] = [b \in 0 .. BoundaryCount |->
                          IF b = 0 THEN Start ELSE Updated(j, Canonical[j][b - 1], b)]
    BY CanonicalAssumption, Zenon
  <2> QED
    BY <2>1, Zenon DEF Canon
<1>2. Canon(j, 0) = Start
  BY <1>1, BoundaryCountAssumption
<1>3. ASSUME NEW b \in 0 .. BoundaryCount - 1
      PROVE  Canon(j, b + 1) = Updated(j, Canon(j, b), b + 1)
  <2>1. b + 1 \in 0 .. BoundaryCount /\ b + 1 # 0 /\ (b + 1) - 1 = b
    BY BoundaryCountAssumption
  <2>2. Canon(j, b + 1) = Updated(j, Canonical[j][(b + 1) - 1], b + 1)
    BY <1>1, <2>1
  <2> QED
    BY <2>1, <2>2 DEF Canon
<1> QED
  BY <1>2, <1>3

LEMMA StartTyped == Start \in Filters(0) /\ ~Start.failed /\ Len(Start.updates) = 0
<1>1. ASSUME NEW i \in Particles PROVE NewParticle(i) \in ParticleStates
  <2>1. <<i>> \in Lineages \ {<<>>}
    BY DEF Lineages
  <2>2. [seed |-> i, forks |-> <<>>] \in Streams
    BY DEF Streams
  <2> QED
    BY <2>1, <2>2 DEF NewParticle, ParticleStates
<1>2. [i \in Particles |-> NewParticle(i)] \in [Particles -> ParticleStates]
  BY <1>1
<1> QED
  BY <1>2 DEF Start, Filters

LEMMA AdvancedTyped ==
  ASSUME NEW p \in ParticleStates
  PROVE  /\ Advanced(p) \in ParticleStates
         /\ Advanced(p).lineage = p.lineage
BY DEF Advanced, ParticleStates

LEMMA StayTyped ==
  ASSUME NEW p \in ParticleStates, NEW b \in Nat, NEW w \in Nat
  PROVE  Stay(p, b, w) \in ParticleStates
BY DEF Stay, ParticleStates

LEMMA BranchTyped ==
  ASSUME NEW p \in ParticleStates, NEW b \in Nat, NEW c \in Particles,
         NEW from \in Particles
  PROVE  Branch(p, b, c, from) \in ParticleStates
<1> DEFINE fork == [boundary |-> b, child |-> c, parent |-> from]
           lineage == Append(p.lineage, c)
           rng == [p.rng EXCEPT !.forks = Append(p.rng.forks, fork)]
<1>1. fork \in Forks
  BY DEF Forks
<1>2. p.lineage \in Lineages /\ p.rng \in Streams
  BY DEF ParticleStates
<1>3. lineage \in Lineages \ {<<>>}
  <2>1. lineage \in Seq(Particles)
    BY <1>2 DEF Lineages
  <2>2. Len(lineage) = Len(p.lineage) + 1 /\ Len(p.lineage) \in Nat
    BY <1>2 DEF Lineages
  <2> QED
    BY <2>1, <2>2, EmptySeq DEF Lineages
<1>4. rng \in Streams
  <2> HIDE DEF fork
  <2>1. Append(p.rng.forks, fork) \in Seq(Forks)
    BY <1>1, <1>2 DEF Streams
  <2> QED
    BY <1>2, <2>1 DEF Streams
<1> DEFINE q == [p EXCEPT !.logical_id = c, !.filter_boundary = b, !.weights_log = 1]
<1>5. Branch(p, b, c, from) = [q EXCEPT !.lineage = lineage, !.rng = rng]
  BY DEF Branch, ParticleStates
<1>6. q \in ParticleStates
  BY DEF ParticleStates
<1> HIDE DEF lineage, rng, q
<1> QED
  BY <1>3, <1>4, <1>5, <1>6 DEF ParticleStates

\* The particles, the weights and the update of boundary b + 1.
Passed(j, b) ==
  IF Decided(j, b).resampled
  THEN [c \in Particles |->
          Branch(Moved(j, b)[Decided(j, b).parents[c]], b + 1, c, Decided(j, b).parents[c])]
  ELSE [i \in Particles |-> Stay(Moved(j, b)[i], b + 1, Weighed(j, b)[i])]
PassedWeights(j, b) ==
  IF Decided(j, b).resampled THEN [i \in Particles |-> 1] ELSE Weighed(j, b)
PassedDraws(j, b) ==
  IF Decided(j, b).resampled THEN Canon(j, b).draws + 1 ELSE Canon(j, b).draws
Sample(j, b) == [i \in Particles |-> Contribution(Moved(j, b)[i], Weighed(j, b)[i])]
UpdateOf(j, b) ==
  [boundary |-> b + 1, decision |-> Decided(j, b),
   ancestry |-> [i \in Particles |-> Passed(j, b)[i].lineage]]

LEMMA CanonStep ==
  ASSUME NEW j \in Jobs, NEW b \in 0 .. BoundaryCount - 1
  PROVE  Canon(j, b + 1) =
           IF Canon(j, b).failed \/ ~Normalizable(Weighed(j, b), ParticleCount)
           THEN [Canon(j, b) EXCEPT !.failed = TRUE]
           ELSE [particles |-> Passed(j, b), weights |-> PassedWeights(j, b),
                 draws |-> PassedDraws(j, b), mcse |-> Append(Canon(j, b).mcse, Sample(j, b)),
                 updates |-> Append(Canon(j, b).updates, UpdateOf(j, b)), failed |-> FALSE]
<1>1. Canon(j, b + 1) = Updated(j, Canon(j, b), b + 1)
  BY CanonSteps
<1>2. Updated(j, Canon(j, b), b + 1) =
           IF Canon(j, b).failed \/ ~Normalizable(Weighed(j, b), ParticleCount)
           THEN [Canon(j, b) EXCEPT !.failed = TRUE]
           ELSE [particles |-> Passed(j, b), weights |-> PassedWeights(j, b),
                 draws |-> PassedDraws(j, b), mcse |-> Append(Canon(j, b).mcse, Sample(j, b)),
                 updates |-> Append(Canon(j, b).updates, UpdateOf(j, b)), failed |-> FALSE]
  BY Zenon DEF Updated, Passed, PassedWeights, PassedDraws, Sample, UpdateOf, Decided,
               Weighed, Moved
<1> QED
  BY <1>1, <1>2, Zenon

LEMMA MovedTyped ==
  ASSUME NEW j \in Jobs, NEW b \in 0 .. BoundaryCount - 1, Canon(j, b) \in Filters(b)
  PROVE  /\ Moved(j, b) \in [Particles -> ParticleStates]
         /\ Weighed(j, b) \in [Particles -> Nat]
         /\ Sample(j, b) \in Samples
<1>1. \A i \in Particles : Canon(j, b).particles[i] \in ParticleStates
  BY DEF Filters
<1>2. Moved(j, b) \in [Particles -> ParticleStates]
  BY <1>1, AdvancedTyped DEF Moved
<1>3. \A i \in Particles : Moved(j, b)[i] \in ParticleStates
  BY <1>2
<1>4. Weighed(j, b) \in [Particles -> Nat]
  <2>1. ASSUME NEW i \in Particles
        PROVE  Canon(j, b).weights[i] * Likelihood(j, b + 1, Moved(j, b)[i]) \in Nat
    <3>1. Moved(j, b)[i].lineage \in Seq(Particles) /\ Moved(j, b)[i].lineage # <<>>
      BY <1>3 DEF ParticleStates, Lineages
    <3>2. 1 \in 1 .. Len(Moved(j, b)[i].lineage)
      BY <3>1, EmptySeq
    <3>3. Moved(j, b)[i].lineage[1] \in Particles
      BY <3>1, <3>2, ElementOfSeq
    <3>4. b + 1 \in 1 .. BoundaryCount
      BY BoundaryCountAssumption
    <3>5. Likelihood(j, b + 1, Moved(j, b)[i]) \in Nat
      BY <3>3, <3>4, JobsAssumption DEF Likelihood
    <3>6. Canon(j, b).weights[i] \in Nat
      BY DEF Filters
    <3> QED
      BY <3>5, <3>6
  <2>2. DOMAIN Moved(j, b) = Particles
    BY <1>2
  <2> QED
    BY <2>1, <2>2 DEF Weighed, Reweighted
<1>5. Sample(j, b) \in Samples
  <2>1. ASSUME NEW i \in Particles
        PROVE  Contribution(Moved(j, b)[i], Weighed(j, b)[i]) \in
                 [weight : Nat, of : Lineages, time : Nat]
    <3>1. /\ Moved(j, b)[i].lineage \in Lineages /\ Moved(j, b)[i].time \in Nat
          /\ Weighed(j, b)[i] \in Nat
      BY <1>3, <1>4 DEF ParticleStates
    <3> QED
      BY <3>1 DEF Contribution
  <2> QED
    BY <2>1 DEF Sample, Samples
<1> QED
  BY <1>2, <1>4, <1>5

LEMMA DecidedTyped ==
  ASSUME NEW j \in Jobs, NEW b \in 0 .. BoundaryCount - 1, Canon(j, b) \in Filters(b),
         Normalizable(Weighed(j, b), ParticleCount)
  PROVE  /\ Decided(j, b) \in Decisions
         /\ Decided(j, b).weights = Weighed(j, b)
         /\ ~Decided(j, b).resampled => Decided(j, b).parents = [c \in Particles |-> c]
<1> DEFINE w == Weighed(j, b)
           t == Total(w, ParticleCount)
           d == Canon(j, b).draws
           origin == ResampleStart(j, d, t)
<1>1. w \in [Particles -> Nat]
  BY MovedTyped
<1>2. t \in Nat /\ t > 0
  <2>1. \A i \in 0 .. ParticleCount - 1 : w[i] \in Nat
    BY <1>1 DEF Particles
  <2>2. t \in Nat
    BY <2>1, ParticleCountAssumption, PrefixNatural DEF Total
  <2> QED
    BY <2>2 DEF Normalizable
<1>3. d \in 0 .. BoundaryCount - 1
  BY BoundaryCountAssumption DEF Filters
<1>4. origin \in Nat /\ origin < t
  <2>1. j.draw[d] \in 0 .. DrawUnits - 1
    BY <1>3, JobsAssumption
  <2> HIDE DEF t
  <2>2. t * (j.draw[d]) <= t * (DrawUnits - 1)
    BY <1>2, <2>1, DrawUnitsAssumption, TimesMonotonic
  <2>3. /\ t * (DrawUnits - 1) = DrawUnits * t - t /\ DrawUnits * t \in Nat
        /\ t * (j.draw[d]) = (j.draw[d]) * t /\ (j.draw[d]) * t \in Nat
    BY <1>2, <2>1, DrawUnitsAssumption
  <2>4. (j.draw[d]) * t < DrawUnits * t
    BY <1>2, <2>2, <2>3
  <2> DEFINE q == ((j.draw[d]) * t) \div DrawUnits
  <2>5. q \in Nat /\ DrawUnits * q <= (j.draw[d]) * t
    BY <2>3, DrawUnitsAssumption, Division
  <2>6. q < t
    <3> HIDE DEF q
    <3> SUFFICES ASSUME t <= q PROVE FALSE
      BY <1>2, <2>5
    <3>1. DrawUnits * t <= DrawUnits * q
      BY <1>2, <2>5, DrawUnitsAssumption, TimesMonotonic
    <3>2. DrawUnits * q \in Nat
      BY <2>5, DrawUnitsAssumption
    <3> QED
      BY <2>3, <2>4, <2>5, <3>1, <3>2
  <2> QED
    BY <2>5, <2>6 DEF ResampleStart
<1>5. Parents(origin, w, ParticleCount) \in [Particles -> Particles]
  <2>1. \A i \in 0 .. ParticleCount - 1 : w[i] \in Nat
    BY <1>1 DEF Particles
  <2> HIDE DEF origin, w
  <2> QED
    BY <1>4, <2>1, ParticleCountAssumption, ParentsAreParticles DEF Particles, t
<1>6. Decided(j, b) = IF EssBelowHalf(w, ParticleCount)
                      THEN [resampled |-> TRUE, weights |-> w,
                            parents |-> Parents(origin, w, ParticleCount)]
                      ELSE [resampled |-> FALSE, weights |-> w,
                            parents |-> [c \in Particles |-> c]]
  BY Zenon DEF Decided, Decision
<1> HIDE DEF origin, w
<1>7. CASE EssBelowHalf(w, ParticleCount)
  BY <1>1, <1>5, <1>6, <1>7 DEF Decisions, w
<1>8. CASE ~EssBelowHalf(w, ParticleCount)
  BY <1>1, <1>6, <1>8 DEF Decisions, w
<1> QED
  BY <1>7, <1>8

LEMMA PassedTyped ==
  ASSUME NEW j \in Jobs, NEW b \in 0 .. BoundaryCount - 1, Canon(j, b) \in Filters(b),
         Normalizable(Weighed(j, b), ParticleCount)
  PROVE  /\ Passed(j, b) \in [Particles -> ParticleStates]
         /\ PassedWeights(j, b) \in [Particles -> Nat]
         /\ PassedDraws(j, b) \in 0 .. b + 1
         /\ UpdateOf(j, b) \in UpdateRecords
<1>1. Decided(j, b) \in Decisions
  BY DecidedTyped
<1>2. \A c \in Particles : Decided(j, b).parents[c] \in Particles
  BY <1>1 DEF Decisions
<1>3. /\ \A i \in Particles : Moved(j, b)[i] \in ParticleStates
      /\ \A i \in Particles : Weighed(j, b)[i] \in Nat
      /\ Weighed(j, b) \in [Particles -> Nat]
  BY MovedTyped
<1>4. Passed(j, b) \in [Particles -> ParticleStates]
  <2>1. ASSUME NEW c \in Particles
        PROVE  /\ Branch(Moved(j, b)[Decided(j, b).parents[c]], b + 1, c,
                         Decided(j, b).parents[c]) \in ParticleStates
               /\ Stay(Moved(j, b)[c], b + 1, Weighed(j, b)[c]) \in ParticleStates
    <3>1. b + 1 \in Nat
      OBVIOUS
    <3> QED
      BY <1>2, <1>3, <3>1, BranchTyped, StayTyped
  <2> QED
    BY <2>1 DEF Passed
<1>5. PassedWeights(j, b) \in [Particles -> Nat]
  BY <1>3 DEF PassedWeights
<1>6. PassedDraws(j, b) \in 0 .. b + 1
  BY DEF PassedDraws, Filters
<1>7. UpdateOf(j, b) \in UpdateRecords
  <2>1. \A i \in Particles : Passed(j, b)[i].lineage \in Lineages
    BY <1>4 DEF ParticleStates
  <2>2. [i \in Particles |-> Passed(j, b)[i].lineage] \in [Particles -> Lineages]
    BY <2>1
  <2> QED
    BY <1>1, <2>2 DEF UpdateOf, UpdateRecords
<1> QED
  BY <1>4, <1>5, <1>6, <1>7

LEMMA FilterRecord ==
  ASSUME NEW b \in Nat, NEW ps \in [Particles -> ParticleStates],
         NEW w \in [Particles -> Nat], NEW d \in 0 .. b, NEW m \in Seq(Samples),
         NEW u \in Seq(UpdateRecords)
  PROVE  [particles |-> ps, weights |-> w, draws |-> d, mcse |-> m, updates |-> u,
          failed |-> FALSE] \in Filters(b)
BY DEF Filters

\* The states of the single-process filter, and one update for each boundary.
LEMMA CanonTyped ==
  ASSUME NEW j \in Jobs
  PROVE  \A b \in 0 .. BoundaryCount :
           /\ Canon(j, b) \in Filters(b)
           /\ ~Canon(j, b).failed => Len(Canon(j, b).updates) = b
<1> DEFINE Typed(b) == /\ Canon(j, b) \in Filters(b)
                       /\ ~Canon(j, b).failed => Len(Canon(j, b).updates) = b
           T == {b \in Nat : b <= BoundaryCount => Typed(b)}
<1>1. 0 \in T
  BY StartTyped, CanonSteps
<1>2. ASSUME NEW b \in Nat, b \in T PROVE b + 1 \in T
  <2> SUFFICES ASSUME b + 1 <= BoundaryCount PROVE Typed(b + 1)
    OBVIOUS
  <2>1. b \in 0 .. BoundaryCount - 1 /\ Typed(b)
    BY <1>2, BoundaryCountAssumption
  <2> DEFINE s == Canon(j, b)
  <2>2. CASE s.failed \/ ~Normalizable(Weighed(j, b), ParticleCount)
    <3>1. Canon(j, b + 1) = [s EXCEPT !.failed = TRUE]
      BY <2>1, <2>2, CanonStep
    <3>2. s \in Filters(b)
      BY <2>1
    <3> HIDE DEF s
    <3>3. s \in Filters(b + 1)
      <4>1. s.draws \in 0 .. b + 1
        BY <3>2 DEF Filters
      <4> QED
        BY <3>2, <4>1 DEF Filters
    <3>4. [s EXCEPT !.failed = TRUE] \in Filters(b + 1)
      BY <3>3 DEF Filters
    <3>5. [s EXCEPT !.failed = TRUE].failed = TRUE
      BY <3>3 DEF Filters
    <3> QED
      BY <3>1, <3>4, <3>5
  <2>3. CASE ~s.failed /\ Normalizable(Weighed(j, b), ParticleCount)
    <3>1. Canon(j, b + 1) =
            [particles |-> Passed(j, b), weights |-> PassedWeights(j, b),
             draws |-> PassedDraws(j, b), mcse |-> Append(s.mcse, Sample(j, b)),
             updates |-> Append(s.updates, UpdateOf(j, b)), failed |-> FALSE]
      BY <2>1, <2>3, CanonStep
    <3>2. /\ Passed(j, b) \in [Particles -> ParticleStates]
          /\ PassedWeights(j, b) \in [Particles -> Nat]
          /\ PassedDraws(j, b) \in 0 .. b + 1
          /\ UpdateOf(j, b) \in UpdateRecords
          /\ Sample(j, b) \in Samples
      BY <2>1, <2>3, PassedTyped, MovedTyped
    <3>3. s.mcse \in Seq(Samples) /\ s.updates \in Seq(UpdateRecords) /\ Len(s.updates) = b
      BY <2>1, <2>3 DEF Filters
    <3> HIDE DEF s
    <3>4. Append(s.mcse, Sample(j, b)) \in Seq(Samples)
      BY <3>2, <3>3
    <3>5. /\ Append(s.updates, UpdateOf(j, b)) \in Seq(UpdateRecords)
          /\ Len(Append(s.updates, UpdateOf(j, b))) = b + 1
      BY <3>2, <3>3
    <3>6. Canon(j, b + 1) \in Filters(b + 1)
      <4>1. b + 1 \in Nat
        OBVIOUS
      <4>2. \A m \in Seq(Samples), u \in Seq(UpdateRecords) :
              [particles |-> Passed(j, b), weights |-> PassedWeights(j, b),
               draws |-> PassedDraws(j, b), mcse |-> m, updates |-> u,
               failed |-> FALSE] \in Filters(b + 1)
        BY <3>2, <4>1, FilterRecord
      <4> QED
        BY <3>1, <3>4, <3>5, <4>2, Zenon
    <3>7. Canon(j, b + 1).updates = Append(s.updates, UpdateOf(j, b))
      BY <3>1
    <3> QED
      BY <3>5, <3>6, <3>7
  <2> QED
    BY <2>2, <2>3
<1> HIDE DEF T
<1>3. \A b \in Nat : b \in T
  BY <1>1, <1>2, Induction
<1> QED
  BY <1>3 DEF T

-----------------------------------------------------------------------------
(* The script of a job's collective calls.                                 *)

\* The ranks of a job, and the interval of one of them.
RanksOf(j) == 0 .. j.world - 1
IntervalOf(j, r) == RankParticles(r, ParticleCount, j.world)

\* What rank r holds of a family over all particles.
Part(j, r, f) == [i \in IntervalOf(j, r) |-> f[i]]

\* The calls a rank has made when it is at boundary b: four for each boundary it
\* has passed, and one more where the filter resampled, which is where root drew.
Base(j, b) == 4 * (b - j.from) + (Canon(j, b).draws - Canon(j, j.from).draws)

\* The calls from boundary b to the next, and after the last boundary.
Width(j, b) ==
  IF b = BoundaryCount THEN 1 ELSE IF Decided(j, b).resampled THEN 5 ELSE 4

KindAt(j, b, o) ==
  CASE b = BoundaryCount -> "result"
    [] b # BoundaryCount /\ o = 1 -> "weights"
    [] b # BoundaryCount /\ o = 2 -> "decision"
    [] b # BoundaryCount /\ o = 3 -> "contributions"
    [] b # BoundaryCount /\ o = 4 /\ Decided(j, b).resampled -> "parents"
    [] OTHER -> "lineages"

ValueOf(j, r, b, kind) ==
  CASE kind = "result" -> Part(j, r, Canon(j, b).weights)
    [] kind = "weights" -> Part(j, r, Weighed(j, b))
    [] kind = "decision" -> IF r = 0 THEN Decided(j, b) ELSE Undecided
    [] kind = "contributions" ->
         [i \in IntervalOf(j, r) |-> Contribution(Moved(j, b)[i], Weighed(j, b)[i])]
    [] kind = "parents" ->
         [d \in RanksOf(j) |-> Bucket(r, d, Part(j, r, Moved(j, b)), Decided(j, b).parents,
                                      ParticleCount, j.world)]
    [] OTHER -> [i \in IntervalOf(j, r) |-> Canon(j, b + 1).particles[i].lineage]

\* Call o of rank r between boundary b and the next, and whether it is made: root
\* makes the second and the later ones only when the filter does not fail.
ScriptCall(j, r, b, o) ==
  [kind |-> KindAt(j, b, o), value |-> ValueOf(j, r, b, KindAt(j, b, o))]

Slot(j, r, b, o) ==
  /\ b \in j.from .. BoundaryCount /\ o \in 1 .. Width(j, b)
  /\ ~Canon(j, b).failed
  /\ r = 0 /\ o > 1 => ~Canon(j, b + 1).failed


\* One boundary of the single-process filter.
LEMMA CanonNext ==
  ASSUME NEW j \in Jobs, NEW b \in 0 .. BoundaryCount - 1, ~Canon(j, b).failed
  PROVE  /\ Canon(j, b + 1).failed <=> ~Normalizable(Weighed(j, b), ParticleCount)
         /\ ~Canon(j, b + 1).failed =>
              /\ Canon(j, b + 1).particles = Passed(j, b)
              /\ Canon(j, b + 1).weights = PassedWeights(j, b)
              /\ Canon(j, b + 1).draws = PassedDraws(j, b)
              /\ Canon(j, b + 1).mcse = Append(Canon(j, b).mcse, Sample(j, b))
              /\ Canon(j, b + 1).updates = Append(Canon(j, b).updates, UpdateOf(j, b))
<1> DEFINE s == Canon(j, b)
           m == Append(s.mcse, Sample(j, b))
           u == Append(s.updates, UpdateOf(j, b))
<1>1. CASE ~Normalizable(Weighed(j, b), ParticleCount)
  <2>1. Canon(j, b + 1) = [s EXCEPT !.failed = TRUE]
    BY <1>1, CanonStep
  <2>2. s \in Filters(b)
    BY CanonTyped, BoundaryCountAssumption
  <2> HIDE DEF s
  <2>3. Canon(j, b + 1).failed
    BY <2>1, <2>2 DEF Filters
  <2> QED
    BY <1>1, <2>3
<1>2. CASE Normalizable(Weighed(j, b), ParticleCount)
  <2>1. Canon(j, b + 1) =
            [particles |-> Passed(j, b), weights |-> PassedWeights(j, b),
             draws |-> PassedDraws(j, b), mcse |-> m, updates |-> u, failed |-> FALSE]
    BY <1>2, CanonStep
  <2> HIDE DEF m, u
  <2>2. /\ ~Canon(j, b + 1).failed
        /\ Canon(j, b + 1).particles = Passed(j, b)
        /\ Canon(j, b + 1).weights = PassedWeights(j, b)
        /\ Canon(j, b + 1).draws = PassedDraws(j, b)
        /\ Canon(j, b + 1).mcse = m
        /\ Canon(j, b + 1).updates = u
    BY <2>1
  <2> QED
    BY <1>2, <2>2 DEF m, u
<1> QED
  BY <1>1, <1>2

LEMMA FailureLasts ==
  ASSUME NEW j \in Jobs, NEW b \in 0 .. BoundaryCount - 1, Canon(j, b).failed
  PROVE  Canon(j, b + 1).failed
<1> DEFINE s == Canon(j, b)
<1>1. Canon(j, b + 1) = [s EXCEPT !.failed = TRUE]
  BY CanonStep
<1>2. s \in Filters(b)
  BY CanonTyped, BoundaryCountAssumption
<1> HIDE DEF s
<1> QED
  BY <1>1, <1>2 DEF Filters

\* A filter that has not failed had not before, and drew no more often.
LEMMA Progress ==
  ASSUME NEW j \in Jobs, NEW b \in 0 .. BoundaryCount
  PROVE  \A c \in 0 .. BoundaryCount :
           b <= c /\ ~Canon(j, c).failed =>
             ~Canon(j, b).failed /\ Canon(j, b).draws <= Canon(j, c).draws
<1> DEFINE Before(c) == b <= c /\ ~Canon(j, c).failed =>
                          ~Canon(j, b).failed /\ Canon(j, b).draws <= Canon(j, c).draws
           T == {c \in Nat : c <= BoundaryCount => Before(c)}
<1>1. \A c \in 0 .. BoundaryCount : Canon(j, c).draws \in Nat
  BY CanonTyped DEF Filters
<1>2. 0 \in T
  BY <1>1
<1>3. ASSUME NEW c \in Nat, c \in T PROVE c + 1 \in T
  <2> SUFFICES ASSUME c + 1 <= BoundaryCount, b <= c + 1, ~Canon(j, c + 1).failed
               PROVE  ~Canon(j, b).failed /\ Canon(j, b).draws <= Canon(j, c + 1).draws
    OBVIOUS
  <2>1. CASE b = c + 1
    BY <1>1, <2>1
  <2>2. CASE b <= c
    <3>1. c \in 0 .. BoundaryCount - 1 /\ c \in 0 .. BoundaryCount
          /\ c + 1 \in 0 .. BoundaryCount /\ Before(c)
      BY <1>3, BoundaryCountAssumption
    <3>2. ~Canon(j, c).failed
      BY <3>1, FailureLasts
    <3>3. Canon(j, c + 1).draws = PassedDraws(j, c)
      BY <3>1, <3>2, CanonNext
    <3>4. Canon(j, c).draws <= Canon(j, c + 1).draws
      BY <1>1, <3>1, <3>3 DEF PassedDraws
    <3> QED
      BY <1>1, <2>2, <3>1, <3>2, <3>4
  <2> QED
    BY <2>1, <2>2
<1> HIDE DEF T
<1>4. \A c \in Nat : c \in T
  BY <1>2, <1>3, Induction
<1> QED
  BY <1>4 DEF T

LEMMA BaseFacts ==
  ASSUME NEW j \in Jobs, NEW b \in j.from .. BoundaryCount
  PROVE  /\ j.from \in 0 .. BoundaryCount /\ b \in 0 .. BoundaryCount
         /\ Canon(j, b).draws \in Nat /\ Base(j, b) \in Int
         /\ Base(j, j.from) = 0
         /\ ~Canon(j, b).failed => Base(j, b) \in Nat
<1>1. j.from \in 0 .. BoundaryCount /\ b \in 0 .. BoundaryCount
  BY JobsAssumption, BoundaryCountAssumption
<1>2. Canon(j, b).draws \in Nat /\ Canon(j, j.from).draws \in Nat
  BY <1>1, CanonTyped DEF Filters
<1>3. ~Canon(j, b).failed => Canon(j, j.from).draws <= Canon(j, b).draws
  BY <1>1, Progress
<1> QED
  BY <1>1, <1>2, <1>3 DEF Base

LEMMA BaseNext ==
  ASSUME NEW j \in Jobs, NEW b \in j.from .. BoundaryCount - 1, ~Canon(j, b + 1).failed
  PROVE  /\ Base(j, b + 1) = Base(j, b) + Width(j, b)
         /\ ~Canon(j, b).failed
<1>1. /\ b \in 0 .. BoundaryCount - 1 /\ b + 1 \in 0 .. BoundaryCount
      /\ j.from \in 0 .. BoundaryCount /\ b # BoundaryCount /\ b \in 0 .. BoundaryCount
  BY JobsAssumption, BoundaryCountAssumption
<1>2. ~Canon(j, b).failed
  BY <1>1, FailureLasts
<1>3. Canon(j, b + 1).draws = PassedDraws(j, b)
  BY <1>1, <1>2, CanonNext
<1>4. Canon(j, b).draws \in Nat /\ Canon(j, j.from).draws \in Nat
  BY <1>1, CanonTyped DEF Filters
<1> QED
  BY <1>1, <1>2, <1>3, <1>4 DEF Base, Width, PassedDraws

LEMMA WidthFact ==
  ASSUME NEW j, NEW b
  PROVE  Width(j, b) \in {1, 4, 5}
BY DEF Width

\* A position of the script is one call of one boundary.
LEMMA SlotBefore ==
  ASSUME NEW j \in Jobs, NEW r, NEW s, NEW b, NEW o, NEW c, NEW p,
         Slot(j, r, b, o), Slot(j, s, c, p), b < c
  PROVE  Base(j, b) + o < Base(j, c) + p
<1>1. /\ b \in j.from .. BoundaryCount - 1 /\ c \in 0 .. BoundaryCount
      /\ b + 1 \in 0 .. BoundaryCount /\ j.from \in 0 .. BoundaryCount
      /\ b + 1 \in j.from .. BoundaryCount /\ c \in j.from .. BoundaryCount
      /\ b + 1 <= c /\ ~Canon(j, c).failed
  BY JobsAssumption, BoundaryCountAssumption DEF Slot
<1>2. ~Canon(j, b + 1).failed /\ Canon(j, b + 1).draws <= Canon(j, c).draws
  BY <1>1, Progress
<1>3. Base(j, b + 1) = Base(j, b) + Width(j, b)
  BY <1>1, <1>2, BaseNext
<1>4. Canon(j, b + 1).draws \in Nat /\ Canon(j, c).draws \in Nat
      /\ Canon(j, j.from).draws \in Nat
  BY <1>1, CanonTyped DEF Filters
<1>5. Base(j, b + 1) <= Base(j, c)
  BY <1>1, <1>2, <1>4 DEF Base
<1>6. o \in 1 .. Width(j, b) /\ p \in 1 .. Width(j, c)
  BY DEF Slot
<1>7. b \in j.from .. BoundaryCount
  BY <1>1, BoundaryCountAssumption
<1>8. Base(j, b) \in Int /\ Base(j, c) \in Int
  BY <1>1, <1>7, BaseFacts
<1> QED
  BY <1>3, <1>5, <1>6, <1>8, WidthFact

LEMMA SlotUnique ==
  ASSUME NEW j \in Jobs, NEW r, NEW s, NEW b, NEW o, NEW c, NEW p,
         Slot(j, r, b, o), Slot(j, s, c, p), Base(j, b) + o = Base(j, c) + p
  PROVE  b = c /\ o = p
<1>1. /\ b \in j.from .. BoundaryCount /\ c \in j.from .. BoundaryCount
      /\ o \in 1 .. Width(j, b) /\ p \in 1 .. Width(j, c) /\ j.from \in Int
  BY JobsAssumption DEF Slot
<1>2. Base(j, b) \in Int /\ Base(j, c) \in Int /\ o \in Int /\ p \in Int
  BY <1>1, BaseFacts, WidthFact
<1>3. ~(b < c) /\ ~(c < b)
  <2>1. b < c => Base(j, b) + o < Base(j, c) + p
    BY SlotBefore
  <2>2. c < b => Base(j, c) + p < Base(j, b) + o
    BY SlotBefore
  <2> QED
    BY <1>2, <2>1, <2>2
<1>4. b = c
  BY <1>1, <1>3, BoundaryCountAssumption
<1> QED
  BY <1>2, <1>4

-----------------------------------------------------------------------------
(* The invariant.                                                          *)

\* Every call of a rank is the one of the script at its position.
ScriptCalls(j, r) == {ScriptCall(j, r, b, o) : b \in j.from .. BoundaryCount, o \in 1 .. 5}
Scripted(j, r, cs) ==
  /\ cs \in Seq(ScriptCalls(j, r))
  /\ \A k \in 1 .. Len(cs) : \E b \in j.from .. BoundaryCount, o \in 1 .. 5 :
       Slot(j, r, b, o) /\ k = Base(j, b) + o /\ cs[k] = ScriptCall(j, r, b, o)

\* What a rank holds where it is, and how many calls it has made.
InPlace(j, r, phase, b, ps, w, d, m, n) ==
  /\ b \in j.from .. BoundaryCount
  /\ phase \in {"loop", "result", "done"} =>
       /\ ~Canon(j, b).failed /\ m = Canon(j, b).mcse
       /\ ps = Part(j, r, Canon(j, b).particles) /\ w = Part(j, r, Canon(j, b).weights)
  /\ phase = "loop" => n = Base(j, b)
  /\ phase = "result" => b = BoundaryCount /\ n = Base(j, b) + 1
  /\ phase \in {"weights", "decision", "contributions"} =>
       /\ b < BoundaryCount /\ ~Canon(j, b).failed /\ m = Canon(j, b).mcse
       /\ ps = Part(j, r, Moved(j, b)) /\ w = Part(j, r, Weighed(j, b))
  /\ phase = "weights" => n = Base(j, b) + 1
  /\ phase = "decision" => n = Base(j, b) + 2 /\ (r = 0 => ~Canon(j, b + 1).failed)
  /\ phase = "contributions" =>
       n = Base(j, b) + 3 /\ d = Decided(j, b) /\ ~Canon(j, b + 1).failed
  /\ phase \in {"parents", "lineages"} =>
       /\ b - 1 \in j.from .. BoundaryCount /\ ~Canon(j, b).failed
       /\ ~Canon(j, b - 1).failed
       /\ m = Canon(j, b).mcse /\ d = Decided(j, b - 1)
  /\ phase = "parents" =>
       /\ Decided(j, b - 1).resampled /\ n = Base(j, b - 1) + 4
       /\ ps = Part(j, r, Moved(j, b - 1))
  /\ phase = "lineages" =>
       /\ n = Base(j, b)
       /\ ps = Part(j, r, Canon(j, b).particles) /\ w = Part(j, r, Canon(j, b).weights)
  /\ phase = "no support" => b < BoundaryCount /\ Canon(j, b + 1).failed

\* Root's updates and draws.
RootInPlace(j, phase, b, dr, up) ==
  /\ phase \in {"loop", "weights", "result", "done", "parents", "lineages"} =>
       dr = Canon(j, b).draws
  /\ phase \in {"decision", "contributions"} => dr = Canon(j, b + 1).draws
  /\ phase \in {"loop", "weights", "decision", "contributions", "result", "done"} =>
       up = SubSeq(Canon(j, b).updates, j.from + 1, b)
  /\ phase \in {"parents", "lineages"} =>
       up = SubSeq(Canon(j, b - 1).updates, j.from + 1, b - 1)

RunInv(j) ==
  /\ job = j
  /\ DOMAIN pc = RanksOf(j) /\ DOMAIN boundary = RanksOf(j)
  /\ DOMAIN particles = RanksOf(j) /\ DOMAIN weights = RanksOf(j)
  /\ DOMAIN decision = RanksOf(j) /\ DOMAIN mcse = RanksOf(j) /\ DOMAIN calls = RanksOf(j)
  /\ \A r \in RanksOf(j) :
       /\ InPlace(j, r, pc[r], boundary[r], particles[r], weights[r], decision[r],
                  mcse[r], Len(calls[r]))
       /\ Scripted(j, r, calls[r])
  /\ RootInPlace(j, pc[0], boundary[0], draws, updates)

Inv == \E j \in Jobs : RunInv(j)

\* g differs from f at r at most.
OnlyAt(f, g, r) == DOMAIN g = DOMAIN f /\ \A s \in DOMAIN f : s # r => g[s] = f[s]

LEMMA ExceptOnlyAt ==
  ASSUME NEW f, NEW r \in DOMAIN f, NEW x
  PROVE  OnlyAt(f, [f EXCEPT ![r] = x], r) /\ [f EXCEPT ![r] = x][r] = x
BY DEF OnlyAt

\* A step of rank r leaves the other ranks, and what is root's, in place.
LEMMA Frame ==
  ASSUME NEW j \in Jobs, RunInv(j), NEW r \in RanksOf(j), job' = job,
         OnlyAt(pc, pc', r), OnlyAt(boundary, boundary', r),
         OnlyAt(particles, particles', r), OnlyAt(weights, weights', r),
         OnlyAt(decision, decision', r), OnlyAt(mcse, mcse', r), OnlyAt(calls, calls', r),
         InPlace(j, r, pc'[r], boundary'[r], particles'[r], weights'[r], decision'[r],
                 mcse'[r], Len(calls'[r])),
         Scripted(j, r, calls'[r]),
         r = 0 => RootInPlace(j, pc'[0], boundary'[0], draws', updates'),
         r # 0 => draws' = draws /\ updates' = updates
  PROVE  RunInv(j)'
<1>1. /\ job' = j
      /\ DOMAIN pc' = RanksOf(j) /\ DOMAIN boundary' = RanksOf(j)
      /\ DOMAIN particles' = RanksOf(j) /\ DOMAIN weights' = RanksOf(j)
      /\ DOMAIN decision' = RanksOf(j) /\ DOMAIN mcse' = RanksOf(j)
      /\ DOMAIN calls' = RanksOf(j)
  BY DEF RunInv, OnlyAt
<1>2. ASSUME NEW s \in RanksOf(j)
      PROVE  /\ InPlace(j, s, pc'[s], boundary'[s], particles'[s], weights'[s],
                        decision'[s], mcse'[s], Len(calls'[s]))
             /\ Scripted(j, s, calls'[s])
  <2>1. CASE s = r
    BY <2>1
  <2>2. CASE s # r
    <3>1. /\ pc'[s] = pc[s] /\ boundary'[s] = boundary[s]
          /\ particles'[s] = particles[s] /\ weights'[s] = weights[s]
          /\ decision'[s] = decision[s] /\ mcse'[s] = mcse[s] /\ calls'[s] = calls[s]
      BY <2>2 DEF RunInv, OnlyAt
    <3>2. /\ InPlace(j, s, pc[s], boundary[s], particles[s], weights[s],
                     decision[s], mcse[s], Len(calls[s]))
          /\ Scripted(j, s, calls[s])
      BY DEF RunInv
    <3> QED
      BY <3>1, <3>2
  <2> QED
    BY <2>1, <2>2
<1>3. RootInPlace(j, pc'[0], boundary'[0], draws', updates')
  <2>1. 0 \in RanksOf(j)
    BY JobsAssumption DEF RanksOf
  <2>2. CASE r # 0
    <3>1. pc'[0] = pc[0] /\ boundary'[0] = boundary[0]
      BY <2>1, <2>2 DEF RunInv, OnlyAt
    <3>2. RootInPlace(j, pc[0], boundary[0], draws, updates)
      BY DEF RunInv
    <3> QED
      BY <2>2, <3>1, <3>2
  <2> QED
    BY <2>2
<1> QED
  BY <1>1, <1>2, <1>3 DEF RunInv

\* What a rank owns are particles.
LEMMA OwnFacts ==
  ASSUME NEW j \in Jobs, NEW r \in RanksOf(j)
  PROVE  /\ IntervalOf(j, r) \subseteq Particles
         /\ \A i \in Particles :
              /\ Owner(i, ParticleCount, j.world) \in RanksOf(j)
              /\ i \in IntervalOf(j, Owner(i, ParticleCount, j.world))
<1>1. j.world \in Nat \ {0}
  BY JobsAssumption
<1>2. IntervalOf(j, r) \in SUBSET Particles
  BY <1>1, ParticleCountAssumption, InParticles DEF IntervalOf, RanksOf, Particles
<1>3. ASSUME NEW i \in Particles
      PROVE  /\ Owner(i, ParticleCount, j.world) \in RanksOf(j)
             /\ i \in IntervalOf(j, Owner(i, ParticleCount, j.world))
  <2>1. Owner(i, ParticleCount, j.world) \in 0 .. j.world - 1
    BY <1>1, ParticleCountAssumption, OwnerIsARank DEF Particles
  <2>2. i \in RankParticles(Owner(i, ParticleCount, j.world), ParticleCount, j.world)
    BY <1>1, <2>1, ParticleCountAssumption, OwnerIffInRange DEF Particles
  <2> QED
    BY <2>1, <2>2 DEF RanksOf, IntervalOf
<1> QED
  BY <1>2, <1>3

LEMMA RunFacts ==
  ASSUME NEW j \in Jobs, RunInv(j)
  PROVE  /\ job = j /\ Ranks = RanksOf(j) /\ 0 \in RanksOf(j)
         /\ \A s : Interval(s) = IntervalOf(j, s)
         /\ \A s : IntervalStart(s) = RankStart(s, ParticleCount, j.world)
BY JobsAssumption DEF RunInv, Ranks, RanksOf, Interval, IntervalOf, IntervalStart

LEMMA KindFacts ==
  ASSUME NEW j \in Jobs, NEW b \in j.from .. BoundaryCount - 1
  PROVE  /\ KindAt(j, b, 1) = "weights" /\ KindAt(j, b, 2) = "decision"
         /\ KindAt(j, b, 3) = "contributions"
         /\ Decided(j, b).resampled => KindAt(j, b, 4) = "parents" /\ Width(j, b) = 5
         /\ ~Decided(j, b).resampled => Width(j, b) = 4
         /\ KindAt(j, b, Width(j, b)) = "lineages"
<1>1. b # BoundaryCount
  BY JobsAssumption, BoundaryCountAssumption
<1> QED
  BY <1>1 DEF KindAt, Width

\* A rank that enters the next call of the script keeps to it.
LEMMA Enters ==
  ASSUME NEW j \in Jobs, RunInv(j), NEW r \in RanksOf(j), NEW b, NEW o, Slot(j, r, b, o),
         Len(calls[r]) = Base(j, b) + o - 1,
         NEW kind, NEW value, kind = KindAt(j, b, o), value = ValueOf(j, r, b, kind),
         Enter(r, kind, value)
  PROVE  /\ OnlyAt(pc, pc', r) /\ pc'[r] = kind
         /\ OnlyAt(calls, calls', r) /\ Scripted(j, r, calls'[r])
         /\ Len(calls'[r]) = Base(j, b) + o
<1> DEFINE call == [kind |-> kind, value |-> value]
           cs == calls[r]
<1>1. /\ calls' = [calls EXCEPT ![r] = Append(cs, call)]
      /\ pc' = [pc EXCEPT ![r] = kind]
      /\ r \in DOMAIN calls /\ r \in DOMAIN pc
  BY DEF Enter, RunInv
<1>2. calls'[r] = Append(cs, call)
  BY <1>1
<1>3. call = ScriptCall(j, r, b, o)
  BY DEF ScriptCall
<1>4. b \in j.from .. BoundaryCount /\ o \in 1 .. 5
  BY WidthFact DEF Slot
<1>5. Base(j, b) \in Int
  BY <1>4, BaseFacts
<1>6. cs \in Seq(ScriptCalls(j, r)) /\ call \in ScriptCalls(j, r)
  BY <1>3, <1>4 DEF RunInv, Scripted, ScriptCalls
<1>7. \A k \in 1 .. Len(cs) : \E c \in j.from .. BoundaryCount, p \in 1 .. 5 :
        Slot(j, r, c, p) /\ k = Base(j, c) + p /\ cs[k] = ScriptCall(j, r, c, p)
  BY DEF RunInv, Scripted
<1>8. Len(cs) = Base(j, b) + o - 1
  OBVIOUS
<1> HIDE DEF cs, call
<1>9. /\ Append(cs, call) \in Seq(ScriptCalls(j, r))
      /\ Len(cs) \in Nat
      /\ Len(Append(cs, call)) = Len(cs) + 1
      /\ \A k \in 1 .. Len(cs) : Append(cs, call)[k] = cs[k]
      /\ Append(cs, call)[Len(cs) + 1] = call
  BY <1>6
<1>10. ASSUME NEW k \in 1 .. Len(Append(cs, call))
       PROVE  \E c \in j.from .. BoundaryCount, p \in 1 .. 5 :
                /\ Slot(j, r, c, p) /\ k = Base(j, c) + p
                /\ Append(cs, call)[k] = ScriptCall(j, r, c, p)
  <2>1. CASE k \in 1 .. Len(cs)
    BY <1>7, <1>9, <2>1
  <2>2. CASE k = Len(cs) + 1
    <3>1. k = Base(j, b) + o
      BY <1>4, <1>5, <1>8, <2>2
    <3> QED
      BY <1>3, <1>4, <1>9, <2>2, <3>1
  <2> QED
    BY <1>9, <2>1, <2>2
<1>11. Scripted(j, r, Append(cs, call))
  BY <1>9, <1>10 DEF Scripted
<1>12. Len(Append(cs, call)) = Base(j, b) + o
  BY <1>4, <1>5, <1>8, <1>9
<1> QED
  BY <1>1, <1>2, <1>11, <1>12, ExceptOnlyAt

\* What rank r, in call o of boundary b, takes from a rank that has made as many
\* calls is that rank's call o of boundary b.
LEMMA Heard ==
  ASSUME NEW j \in Jobs, RunInv(j), NEW r, NEW s \in RanksOf(j), NEW b, NEW o,
         Slot(j, r, b, o), Len(calls[r]) = Base(j, b) + o, Len(calls[s]) >= Len(calls[r])
  PROVE  /\ From(s, r) = ValueOf(j, s, b, KindAt(j, b, o))
         /\ Slot(j, s, b, o)
<1> DEFINE n == Len(calls[r])
<1>1. b \in j.from .. BoundaryCount /\ o \in 1 .. 5 /\ ~Canon(j, b).failed
  BY WidthFact DEF Slot
<1>2. Base(j, b) \in Nat
  BY <1>1, BaseFacts
<1>3. Scripted(j, s, calls[s])
  BY DEF RunInv
<1>4. n \in Nat /\ n >= 1
  BY <1>1, <1>2
<1>5. Len(calls[s]) \in Nat
  BY <1>3 DEF Scripted
<1>6. n \in 1 .. Len(calls[s])
  BY <1>4, <1>5
<1>7. PICK c \in j.from .. BoundaryCount, p \in 1 .. 5 :
        Slot(j, s, c, p) /\ n = Base(j, c) + p /\ calls[s][n] = ScriptCall(j, s, c, p)
  BY <1>3, <1>6 DEF Scripted
<1>8. c = b /\ p = o
  BY <1>7, SlotUnique
<1> QED
  BY <1>7, <1>8 DEF From, ScriptCall

\* The gather that rank r completes is the family its call is about.
LEMMA GlobalIs ==
  ASSUME NEW j \in Jobs, RunInv(j), NEW r \in RanksOf(j), NEW b, NEW o,
         Slot(j, r, b, o), Len(calls[r]) = Base(j, b) + o, Gathered(r),
         NEW X, NEW f \in [Particles -> X],
         \A s \in RanksOf(j) : \A i \in IntervalOf(j, s) :
           ValueOf(j, s, b, KindAt(j, b, o))[i] = f[i]
  PROVE  Global(r) = f
<1>1. ASSUME NEW i \in Particles
      PROVE  From(Owner(i, ParticleCount, job.world), r)[i] = f[i]
  <2> DEFINE s == Owner(i, ParticleCount, j.world)
  <2>1. s \in RanksOf(j) /\ i \in IntervalOf(j, s) /\ job = j
    BY OwnFacts, RunFacts
  <2>2. Len(calls[s]) >= Len(calls[r])
    BY <2>1, RunFacts DEF Gathered
  <2> HIDE DEF s
  <2>3. From(s, r) = ValueOf(j, s, b, KindAt(j, b, o))
    BY <2>1, <2>2, Heard
  <2> QED
    BY <2>1, <2>3 DEF s
<1>2. Global(r) = [i \in Particles |-> f[i]]
  BY <1>1 DEF Global
<1> QED
  BY <1>2

-----------------------------------------------------------------------------
(* Every step keeps the invariant.                                         *)

LEMMA SubSeqAppend ==
  ASSUME NEW T, NEW u \in Seq(T), NEW x \in T, NEW a \in 1 .. Len(u) + 1
  PROVE  SubSeq(Append(u, x), a, Len(u) + 1) = Append(SubSeq(u, a, Len(u)), x)
<1> DEFINE n == Len(u)
           v == Append(u, x)
           left == SubSeq(v, a, n + 1)
           mid == SubSeq(u, a, n)
<1>1. /\ n \in Nat /\ v \in Seq(T) /\ Len(v) = n + 1 /\ v[n + 1] = x
      /\ \A k \in 1 .. n : v[k] = u[k] /\ u[k] \in T
      /\ \A k \in 1 .. n + 1 : v[k] \in T
  OBVIOUS
<1> HIDE DEF n, v
<1>2. a \in Int /\ a \in 1 .. n + 1
  BY DEF n
<1>3. /\ left \in Seq(T) /\ Len(left) = (n + 1) - a + 1
      /\ \A k \in 1 .. (n + 1) - a + 1 : left[k] = v[a + k - 1]
  <2>1. \A k \in a .. n + 1 : v[k] \in T
    BY <1>1, <1>2
  <2>2. n + 1 \in Int /\ a <= n + 1
    BY <1>1, <1>2
  <2> QED
    BY <1>2, <2>1, <2>2, SubSeqProperties
<1>4. /\ mid \in Seq(T) /\ Len(mid) = n - a + 1
      /\ \A k \in 1 .. n - a + 1 : mid[k] = u[a + k - 1]
  <2>1. \A k \in a .. n : u[k] \in T
    BY <1>1, <1>2
  <2>2. n \in Int
    BY <1>1
  <2>3. /\ mid \in Seq(T) /\ Len(mid) = (IF a <= n THEN n - a + 1 ELSE 0)
        /\ \A k \in 1 .. n - a + 1 : mid[k] = u[a + k - 1]
    BY <1>2, <2>1, <2>2, SubSeqProperties
  <2> QED
    BY <1>1, <1>2, <2>3
<1> HIDE DEF left, mid
<1>5. /\ Append(mid, x) \in Seq(T) /\ Len(Append(mid, x)) = n - a + 2
      /\ \A k \in 1 .. n - a + 1 : Append(mid, x)[k] = mid[k]
      /\ Append(mid, x)[n - a + 2] = x
  <2>1. /\ Append(mid, x) \in Seq(T) /\ Len(Append(mid, x)) = Len(mid) + 1
        /\ \A k \in 1 .. Len(mid) : Append(mid, x)[k] = mid[k]
        /\ Append(mid, x)[Len(mid) + 1] = x
    BY <1>4
  <2>2. Len(mid) = n - a + 1 /\ Len(mid) + 1 = n - a + 2
    BY <1>1, <1>2, <1>4
  <2> QED
    BY <2>1, <2>2
<1>6. ASSUME NEW k \in 1 .. Len(left) PROVE left[k] = Append(mid, x)[k]
  <2>1. k \in 1 .. n - a + 2
    BY <1>1, <1>2, <1>3
  <2>2. CASE k = n - a + 2
    <3>1. a + k - 1 = n + 1 /\ k \in 1 .. (n + 1) - a + 1
      BY <1>1, <1>2, <2>2
    <3> QED
      BY <1>1, <1>3, <1>5, <2>2, <3>1
  <2>3. CASE k \in 1 .. n - a + 1
    <3>1. a + k - 1 \in 1 .. n /\ k \in 1 .. (n + 1) - a + 1
      BY <1>1, <1>2, <2>3
    <3> QED
      BY <1>1, <1>3, <1>4, <1>5, <2>3, <3>1
  <2>4. k = n - a + 2 \/ k \in 1 .. n - a + 1
    <3>1. n \in Int /\ a \in Int
      BY <1>1, <1>2
    <3> QED
      BY <2>1, <3>1
  <2> QED
    BY <2>2, <2>3, <2>4
<1>7. Len(left) = Len(Append(mid, x))
  BY <1>1, <1>2, <1>3, <1>5
<1>8. left = Append(mid, x)
  BY <1>3, <1>5, <1>6, <1>7, SeqEqual
<1> QED
  BY <1>8 DEF left, mid, v, n

\* What InPlace and the domains say of rank r.
LEMMA RankFacts ==
  ASSUME NEW j \in Jobs, RunInv(j), NEW r \in RanksOf(j)
  PROVE  /\ InPlace(j, r, pc[r], boundary[r], particles[r], weights[r], decision[r],
                    mcse[r], Len(calls[r]))
         /\ Scripted(j, r, calls[r])
         /\ r \in DOMAIN pc /\ r \in DOMAIN boundary /\ r \in DOMAIN particles
         /\ r \in DOMAIN weights /\ r \in DOMAIN decision /\ r \in DOMAIN mcse
         /\ r \in DOMAIN calls
         /\ boundary[r] \in j.from .. BoundaryCount /\ boundary[r] \in 0 .. BoundaryCount
         /\ RootInPlace(j, pc[0], boundary[0], draws, updates)
<1>1. j.from \in 0 .. BoundaryCount
  BY JobsAssumption
<1>2. InPlace(j, r, pc[r], boundary[r], particles[r], weights[r], decision[r],
              mcse[r], Len(calls[r]))
  BY DEF RunInv
<1>3. boundary[r] \in j.from .. BoundaryCount
  BY <1>2 DEF InPlace
<1> QED
  BY <1>1, <1>2, <1>3, BoundaryCountAssumption DEF RunInv

LEMMA Unchanged ==
  ASSUME NEW f, NEW r PROVE OnlyAt(f, f, r)
BY DEF OnlyAt

LEMMA PropagateStep ==
  ASSUME NEW j \in Jobs, RunInv(j), NEW r \in RanksOf(j), Propagate(r)
  PROVE  RunInv(j)'
<1> DEFINE b == boundary[r]
           moved == [i \in Interval(r) |-> Advanced(particles[r][i])]
           w == Reweighted(job, boundary[r] + 1, weights[r], moved)
<1>1. /\ pc[r] = "loop" /\ b < BoundaryCount
      /\ particles' = [particles EXCEPT ![r] = moved]
      /\ weights' = [weights EXCEPT ![r] = w]
      /\ Enter(r, "weights", w)
      /\ UNCHANGED <<job, boundary, decision, draws, mcse, updates>>
  BY DEF Propagate
<1>2. /\ b \in j.from .. BoundaryCount - 1 /\ b \in j.from .. BoundaryCount
      /\ b \in 0 .. BoundaryCount - 1 /\ j.from \in 0 .. BoundaryCount
  BY <1>1, RankFacts, JobsAssumption, BoundaryCountAssumption
<1>3. /\ ~Canon(j, b).failed /\ mcse[r] = Canon(j, b).mcse
      /\ particles[r] = Part(j, r, Canon(j, b).particles)
      /\ weights[r] = Part(j, r, Canon(j, b).weights)
      /\ Len(calls[r]) = Base(j, b)
  BY <1>1, RankFacts DEF InPlace
<1>4. moved = Part(j, r, Moved(j, b))
  BY <1>3, RunFacts, OwnFacts DEF Moved, Part
<1>5. w = Part(j, r, Weighed(j, b))
  <2>1. \A i \in IntervalOf(j, r) : moved[i] = Moved(j, b)[i] /\ i \in Particles
    BY <1>4, OwnFacts DEF Part
  <2>2. DOMAIN moved = IntervalOf(j, r) /\ DOMAIN Moved(j, b) = Particles
    BY RunFacts DEF Moved
  <2> HIDE DEF moved
  <2>3. w = [i \in IntervalOf(j, r) |->
               weights[r][i] * Likelihood(j, b + 1, Moved(j, b)[i])]
    BY <2>1, <2>2, RunFacts DEF Reweighted
  <2>4. \A i \in IntervalOf(j, r) :
          Weighed(j, b)[i] = Canon(j, b).weights[i] * Likelihood(j, b + 1, Moved(j, b)[i])
    BY <2>1, <2>2 DEF Weighed, Reweighted
  <2>5. \A i \in IntervalOf(j, r) : weights[r][i] = Canon(j, b).weights[i]
    BY <1>3 DEF Part
  <2> HIDE DEF w
  <2> QED
    BY <2>3, <2>4, <2>5 DEF Part
<1>6. Slot(j, r, b, 1)
  BY <1>2, <1>3, WidthFact DEF Slot
<1>7. Base(j, b) \in Int
  BY <1>2, BaseFacts
<1> HIDE DEF moved, w
<1>8. "weights" = KindAt(j, b, 1) /\ w = ValueOf(j, r, b, "weights")
  BY <1>2, <1>5, KindFacts DEF ValueOf
<1>9. /\ OnlyAt(pc, pc', r) /\ pc'[r] = "weights"
      /\ OnlyAt(calls, calls', r) /\ Scripted(j, r, calls'[r])
      /\ Len(calls'[r]) = Base(j, b) + 1
  <2>1. Len(calls[r]) = Base(j, b) + 1 - 1
    BY <1>3, <1>7
  <2> QED
    BY <1>1, <1>6, <1>8, <2>1, Enters
<1>10. /\ OnlyAt(particles, particles', r) /\ particles'[r] = moved
       /\ OnlyAt(weights, weights', r) /\ weights'[r] = w
  BY <1>1, RankFacts, ExceptOnlyAt
<1>11. boundary'[r] = b /\ mcse'[r] = mcse[r]
  BY <1>1
<1>12. InPlace(j, r, pc'[r], boundary'[r], particles'[r], weights'[r], decision'[r],
               mcse'[r], Len(calls'[r]))
  BY <1>1, <1>2, <1>3, <1>4, <1>5, <1>9, <1>10, <1>11 DEF InPlace
<1>13. r = 0 => RootInPlace(j, pc'[0], boundary'[0], draws', updates')
  BY <1>1, <1>9, RankFacts DEF RootInPlace
<1> QED
  BY <1>1, <1>9, <1>10, <1>12, <1>13, Frame, Unchanged

LEMMA PropagateFailsStep ==
  ASSUME NEW j \in Jobs, RunInv(j), NEW r \in RanksOf(j), PropagateFails(r)
  PROVE  RunInv(j)'
<1>1. /\ pc' = [pc EXCEPT ![r] = "engine error"]
      /\ UNCHANGED <<job, boundary, particles, weights, decision, draws, mcse, updates, calls>>
  BY DEF PropagateFails, Fail
<1>2. OnlyAt(pc, pc', r) /\ pc'[r] = "engine error"
  BY <1>1, RankFacts, ExceptOnlyAt
<1>3. /\ OnlyAt(boundary, boundary', r) /\ OnlyAt(particles, particles', r)
      /\ OnlyAt(weights, weights', r) /\ OnlyAt(decision, decision', r)
      /\ OnlyAt(mcse, mcse', r) /\ OnlyAt(calls, calls', r)
  BY <1>1, Unchanged
<1>4. InPlace(j, r, pc'[r], boundary'[r], particles'[r], weights'[r], decision'[r],
              mcse'[r], Len(calls'[r]))
  BY <1>1, <1>2, RankFacts DEF InPlace
<1>5. r = 0 => RootInPlace(j, pc'[0], boundary'[0], draws', updates')
  BY <1>2 DEF RootInPlace
<1>6. Scripted(j, r, calls'[r])
  BY <1>1, RankFacts
<1> QED
  BY <1>1, <1>2, <1>3, <1>4, <1>5, <1>6, Frame

\* A family a rank holds, restricted to what it owns.
LEMMA PartFact ==
  ASSUME NEW j, NEW r, NEW f
  PROVE  \A i \in IntervalOf(j, r) : Part(j, r, f)[i] = f[i]
BY DEF Part

LEMMA DecideStep ==
  ASSUME NEW j \in Jobs, RunInv(j), NEW r \in RanksOf(j), Decide(r)
  PROVE  RunInv(j)'
<1> DEFINE b == boundary[r]
           d == Decision(job, Global(r), draws)
<1>1. /\ r = 0 /\ pc[r] = "weights" /\ Gathered(r)
      /\ UNCHANGED <<job, boundary, particles, weights, mcse, updates>>
  BY DEF Decide
<1>2. /\ b < BoundaryCount /\ ~Canon(j, b).failed /\ mcse[r] = Canon(j, b).mcse
      /\ particles[r] = Part(j, r, Moved(j, b)) /\ weights[r] = Part(j, r, Weighed(j, b))
      /\ Len(calls[r]) = Base(j, b) + 1
  BY <1>1, RankFacts DEF InPlace
<1>3. /\ b \in j.from .. BoundaryCount - 1 /\ b \in j.from .. BoundaryCount
      /\ b \in 0 .. BoundaryCount - 1 /\ j.from \in 0 .. BoundaryCount
      /\ b \in 0 .. BoundaryCount /\ b # BoundaryCount
  BY <1>2, RankFacts, JobsAssumption, BoundaryCountAssumption
<1>4. Slot(j, r, b, 1)
  BY <1>2, <1>3, WidthFact DEF Slot
<1>5. Global(r) = Weighed(j, b)
  <2>1. \A s \in RanksOf(j) : ValueOf(j, s, b, KindAt(j, b, 1)) = Part(j, s, Weighed(j, b))
    BY <1>3, KindFacts DEF ValueOf
  <2>2. \A s \in RanksOf(j) : \A i \in IntervalOf(j, s) :
          ValueOf(j, s, b, KindAt(j, b, 1))[i] = Weighed(j, b)[i]
    BY <2>1, PartFact
  <2>3. Weighed(j, b) \in [Particles -> Nat]
    BY <1>3, CanonTyped, MovedTyped
  <2>4. \A f \in [Particles -> Nat] :
          (\A s \in RanksOf(j) : \A i \in IntervalOf(j, s) :
             ValueOf(j, s, b, KindAt(j, b, 1))[i] = f[i])
          => Global(r) = f
    BY <1>1, <1>2, <1>4, GlobalIs
  <2> QED
    BY <2>2, <2>3, <2>4
<1>6. Base(j, b) \in Int
  BY <1>3, BaseFacts
<1>7. /\ OnlyAt(boundary, boundary', r) /\ OnlyAt(particles, particles', r)
      /\ OnlyAt(weights, weights', r) /\ OnlyAt(mcse, mcse', r)
  BY <1>1, Unchanged
<1>8. draws = Canon(j, b).draws /\ updates = SubSeq(Canon(j, b).updates, j.from + 1, b)
  BY <1>1, RankFacts DEF RootInPlace
<1>9. CASE Normalizable(Weighed(j, b), ParticleCount)
  <2>1. /\ decision' = [decision EXCEPT ![r] = d]
        /\ draws' = IF d.resampled THEN draws + 1 ELSE draws
        /\ Enter(r, "decision", d)
    BY <1>5, <1>9 DEF Decide
  <2>2. d = Decided(j, b)
    BY <1>5, <1>8, RunFacts DEF Decided
  <2>3. ~Canon(j, b + 1).failed /\ Canon(j, b + 1).draws = PassedDraws(j, b)
    BY <1>2, <1>3, <1>9, CanonNext
  <2>4. Slot(j, r, b, 2)
    BY <1>2, <1>3, <2>3, WidthFact DEF Slot, Width
  <2> HIDE DEF d
  <2>5. "decision" = KindAt(j, b, 2) /\ d = ValueOf(j, r, b, "decision")
    BY <1>1, <1>3, <2>2, KindFacts DEF ValueOf
  <2>6. /\ OnlyAt(pc, pc', r) /\ pc'[r] = "decision"
        /\ OnlyAt(calls, calls', r) /\ Scripted(j, r, calls'[r])
        /\ Len(calls'[r]) = Base(j, b) + 2
    <3>1. Len(calls[r]) = Base(j, b) + 2 - 1
      BY <1>2, <1>6
    <3> QED
      BY <2>1, <2>4, <2>5, <3>1, Enters
  <2>7. OnlyAt(decision, decision', r)
    BY <2>1, RankFacts, ExceptOnlyAt
  <2>8. InPlace(j, r, pc'[r], boundary'[r], particles'[r], weights'[r], decision'[r],
                mcse'[r], Len(calls'[r]))
    BY <1>1, <1>2, <1>3, <2>3, <2>6 DEF InPlace
  <2>9. draws' = Canon(j, b + 1).draws
    BY <1>8, <2>1, <2>2, <2>3 DEF PassedDraws
  <2>10. RootInPlace(j, pc'[0], boundary'[0], draws', updates')
    BY <1>1, <1>8, <2>6, <2>9 DEF RootInPlace
  <2> QED
    BY <1>1, <1>7, <2>6, <2>7, <2>8, <2>10, Frame
<1>10. CASE ~Normalizable(Weighed(j, b), ParticleCount)
  <2>1. /\ pc' = [pc EXCEPT ![r] = "no support"]
        /\ UNCHANGED <<decision, draws, calls>>
    BY <1>5, <1>10 DEF Decide, Fail
  <2>2. OnlyAt(pc, pc', r) /\ pc'[r] = "no support"
    BY <2>1, RankFacts, ExceptOnlyAt
  <2>3. Canon(j, b + 1).failed
    BY <1>2, <1>3, <1>10, CanonNext
  <2>4. InPlace(j, r, pc'[r], boundary'[r], particles'[r], weights'[r], decision'[r],
                mcse'[r], Len(calls'[r]))
    BY <1>1, <1>2, <1>3, <2>2, <2>3 DEF InPlace
  <2>5. RootInPlace(j, pc'[0], boundary'[0], draws', updates')
    BY <1>1, <2>2 DEF RootInPlace
  <2>6. Scripted(j, r, calls'[r]) /\ OnlyAt(calls, calls', r) /\ OnlyAt(decision, decision', r)
    BY <2>1, RankFacts, Unchanged
  <2> QED
    BY <1>1, <1>7, <2>1, <2>2, <2>4, <2>5, <2>6, Frame
<1> QED
  BY <1>9, <1>10

LEMMA AwaitDecisionStep ==
  ASSUME NEW j \in Jobs, RunInv(j), NEW r \in RanksOf(j), AwaitDecision(r)
  PROVE  RunInv(j)'
<1> DEFINE b == boundary[r]
<1>1. /\ r # 0 /\ pc[r] = "weights" /\ Enter(r, "decision", Undecided)
      /\ UNCHANGED <<job, boundary, particles, weights, decision, draws, mcse, updates>>
  BY DEF AwaitDecision
<1>2. /\ b < BoundaryCount /\ ~Canon(j, b).failed /\ mcse[r] = Canon(j, b).mcse
      /\ particles[r] = Part(j, r, Moved(j, b)) /\ weights[r] = Part(j, r, Weighed(j, b))
      /\ Len(calls[r]) = Base(j, b) + 1
  BY <1>1, RankFacts DEF InPlace
<1>3. /\ b \in j.from .. BoundaryCount - 1 /\ b \in j.from .. BoundaryCount
      /\ j.from \in 0 .. BoundaryCount /\ b # BoundaryCount
  BY <1>2, RankFacts, JobsAssumption, BoundaryCountAssumption
<1>4. Slot(j, r, b, 2)
  BY <1>1, <1>2, <1>3, WidthFact DEF Slot, Width
<1>5. "decision" = KindAt(j, b, 2) /\ Undecided = ValueOf(j, r, b, "decision")
  BY <1>1, <1>3, KindFacts DEF ValueOf
<1>6. Len(calls[r]) = Base(j, b) + 2 - 1
  BY <1>2, <1>3, BaseFacts
<1>7. /\ OnlyAt(pc, pc', r) /\ pc'[r] = "decision"
      /\ OnlyAt(calls, calls', r) /\ Scripted(j, r, calls'[r])
      /\ Len(calls'[r]) = Base(j, b) + 2
  BY <1>1, <1>4, <1>5, <1>6, Enters
<1>8. InPlace(j, r, pc'[r], boundary'[r], particles'[r], weights'[r], decision'[r],
              mcse'[r], Len(calls'[r]))
  BY <1>1, <1>2, <1>3, <1>7 DEF InPlace
<1>9. /\ OnlyAt(boundary, boundary', r) /\ OnlyAt(particles, particles', r)
      /\ OnlyAt(weights, weights', r) /\ OnlyAt(decision, decision', r)
      /\ OnlyAt(mcse, mcse', r)
  BY <1>1, Unchanged
<1> QED
  BY <1>1, <1>7, <1>8, <1>9, Frame

LEMMA ContributeStep ==
  ASSUME NEW j \in Jobs, RunInv(j), NEW r \in RanksOf(j), Contribute(r)
  PROVE  RunInv(j)'
<1> DEFINE b == boundary[r]
           d == From(0, r)
           value == [i \in Interval(r) |-> Contribution(particles[r][i], From(0, r).weights[i])]
<1>1. /\ pc[r] = "decision" /\ Len(calls[0]) >= Len(calls[r])
      /\ decision' = [decision EXCEPT ![r] = d]
      /\ Enter(r, "contributions", value)
      /\ UNCHANGED <<job, boundary, particles, weights, draws, mcse, updates>>
  BY DEF Contribute
<1>2. /\ b < BoundaryCount /\ ~Canon(j, b).failed /\ mcse[r] = Canon(j, b).mcse
      /\ particles[r] = Part(j, r, Moved(j, b)) /\ weights[r] = Part(j, r, Weighed(j, b))
      /\ Len(calls[r]) = Base(j, b) + 2 /\ (r = 0 => ~Canon(j, b + 1).failed)
  BY <1>1, RankFacts DEF InPlace
<1>3. /\ b \in j.from .. BoundaryCount - 1 /\ b \in j.from .. BoundaryCount
      /\ b \in 0 .. BoundaryCount - 1 /\ b \in 0 .. BoundaryCount
      /\ j.from \in 0 .. BoundaryCount /\ b # BoundaryCount
  BY <1>2, RankFacts, JobsAssumption, BoundaryCountAssumption
<1>4. Slot(j, r, b, 2)
  BY <1>2, <1>3, WidthFact DEF Slot, Width
<1>5. d = ValueOf(j, 0, b, KindAt(j, b, 2)) /\ Slot(j, 0, b, 2)
  BY <1>1, <1>2, <1>4, RunFacts, Heard
<1>6. d = Decided(j, b) /\ ~Canon(j, b + 1).failed
  BY <1>3, <1>5, KindFacts DEF ValueOf, Slot
<1>7. d.weights = Weighed(j, b)
  <2>1. Canon(j, b) \in Filters(b)
    BY <1>3, CanonTyped
  <2>2. Normalizable(Weighed(j, b), ParticleCount)
    BY <1>2, <1>3, <1>6, CanonNext
  <2>3. Decided(j, b).weights = Weighed(j, b)
    BY <1>3, <2>1, <2>2, DecidedTyped
  <2> HIDE DEF d
  <2> QED
    BY <1>6, <2>3
<1>8. value = ValueOf(j, r, b, "contributions")
  <2>1. \A i \in IntervalOf(j, r) : particles[r][i] = Moved(j, b)[i]
    BY <1>2, PartFact
  <2>2. Interval(r) = IntervalOf(j, r)
    BY RunFacts
  <2>3. value = [i \in IntervalOf(j, r) |-> Contribution(Moved(j, b)[i], Weighed(j, b)[i])]
    BY <1>7, <2>1, <2>2
  <2> HIDE DEF value
  <2> QED
    BY <2>3 DEF ValueOf
<1>9. Slot(j, r, b, 3)
  BY <1>2, <1>3, <1>6, WidthFact DEF Slot, Width
<1>10. "contributions" = KindAt(j, b, 3) /\ Len(calls[r]) = Base(j, b) + 3 - 1
  BY <1>2, <1>3, KindFacts, BaseFacts
<1> HIDE DEF value, d
<1>11. /\ OnlyAt(pc, pc', r) /\ pc'[r] = "contributions"
       /\ OnlyAt(calls, calls', r) /\ Scripted(j, r, calls'[r])
       /\ Len(calls'[r]) = Base(j, b) + 3
  BY <1>1, <1>8, <1>9, <1>10, Enters
<1>12. OnlyAt(decision, decision', r) /\ decision'[r] = d
  BY <1>1, RankFacts, ExceptOnlyAt
<1>13. InPlace(j, r, pc'[r], boundary'[r], particles'[r], weights'[r], decision'[r],
               mcse'[r], Len(calls'[r]))
  BY <1>1, <1>2, <1>3, <1>6, <1>11, <1>12 DEF InPlace
<1>14. /\ OnlyAt(boundary, boundary', r) /\ OnlyAt(particles, particles', r)
       /\ OnlyAt(weights, weights', r) /\ OnlyAt(mcse, mcse', r)
  BY <1>1, Unchanged
<1>15. r = 0 => RootInPlace(j, pc'[0], boundary'[0], draws', updates')
  BY <1>1, <1>11, RankFacts DEF RootInPlace
<1> QED
  BY <1>1, <1>11, <1>12, <1>13, <1>14, <1>15, Frame

\* What both actions after the posterior statistic find: the statistic of the
\* whole filter, and a filter that passes the boundary.
LEMMA AfterContributions ==
  ASSUME NEW j \in Jobs, RunInv(j), NEW r \in RanksOf(j), pc[r] = "contributions",
         Gathered(r)
  PROVE  LET b == boundary[r] IN
         /\ b \in j.from .. BoundaryCount - 1 /\ b + 1 \in j.from .. BoundaryCount
         /\ b \in 0 .. BoundaryCount - 1 /\ b \in 0 .. BoundaryCount /\ b # BoundaryCount
         /\ b \in j.from .. BoundaryCount
         /\ ~Canon(j, b).failed /\ ~Canon(j, b + 1).failed
         /\ Normalizable(Weighed(j, b), ParticleCount)
         /\ particles[r] = Part(j, r, Moved(j, b)) /\ weights[r] = Part(j, r, Weighed(j, b))
         /\ decision[r] = Decided(j, b) /\ Len(calls[r]) = Base(j, b) + 3
         /\ Append(mcse[r], Global(r)) = Canon(j, b + 1).mcse
<1> DEFINE b == boundary[r]
<1>1. /\ b < BoundaryCount /\ ~Canon(j, b).failed /\ mcse[r] = Canon(j, b).mcse
      /\ particles[r] = Part(j, r, Moved(j, b)) /\ weights[r] = Part(j, r, Weighed(j, b))
      /\ Len(calls[r]) = Base(j, b) + 3 /\ ~Canon(j, b + 1).failed
      /\ decision[r] = Decided(j, b)
  BY RankFacts DEF InPlace
<1>2. /\ b \in j.from .. BoundaryCount - 1 /\ b + 1 \in j.from .. BoundaryCount
      /\ b \in 0 .. BoundaryCount - 1 /\ b \in 0 .. BoundaryCount /\ b # BoundaryCount
      /\ b \in j.from .. BoundaryCount
  BY <1>1, RankFacts, JobsAssumption, BoundaryCountAssumption
<1>3. /\ Normalizable(Weighed(j, b), ParticleCount)
      /\ Canon(j, b + 1).mcse = Append(Canon(j, b).mcse, Sample(j, b))
  BY <1>1, <1>2, CanonNext
<1>4. Slot(j, r, b, 3)
  BY <1>1, <1>2, WidthFact DEF Slot, Width
<1>5. Sample(j, b) \in Samples
  BY <1>2, CanonTyped, MovedTyped
<1>6. ASSUME NEW s \in RanksOf(j), NEW i \in IntervalOf(j, s)
      PROVE  ValueOf(j, s, b, KindAt(j, b, 3))[i] = Sample(j, b)[i]
  <2>1. KindAt(j, b, 3) = "contributions"
    BY <1>2, KindFacts
  <2>2. ValueOf(j, s, b, "contributions") =
          [k \in IntervalOf(j, s) |-> Contribution(Moved(j, b)[k], Weighed(j, b)[k])]
    BY DEF ValueOf
  <2>3. i \in Particles
    BY OwnFacts
  <2> QED
    BY <2>1, <2>2, <2>3 DEF Sample
<1>7. \A f \in Samples :
        (\A s \in RanksOf(j) : \A i \in IntervalOf(j, s) :
           ValueOf(j, s, b, KindAt(j, b, 3))[i] = f[i])
        => Global(r) = f
  <2>1. PICK X : Samples = [Particles -> X]
    BY DEF Samples
  <2>2. Gathered(r) /\ Len(calls[r]) = Base(j, b) + 3
    BY <1>1
  <2> QED
    BY <1>4, <2>1, <2>2, GlobalIs
<1>8. Global(r) = Sample(j, b)
  BY <1>5, <1>6, <1>7
<1> QED
  BY <1>1, <1>2, <1>3, <1>8

LEMMA SendParentsStep ==
  ASSUME NEW j \in Jobs, RunInv(j), NEW r \in RanksOf(j), SendParents(r)
  PROVE  RunInv(j)'
<1> DEFINE b == boundary[r]
           value == [d \in Ranks |-> Bucket(r, d, particles[r], decision[r].parents,
                                            ParticleCount, job.world)]
<1>1. /\ pc[r] = "contributions" /\ Gathered(r) /\ decision[r].resampled
      /\ mcse' = [mcse EXCEPT ![r] = Append(mcse[r], Global(r))]
      /\ boundary' = [boundary EXCEPT ![r] = b + 1]
      /\ Enter(r, "parents", value)
      /\ UNCHANGED <<job, particles, weights, decision, draws, updates>>
  BY DEF SendParents
<1>2. /\ b \in j.from .. BoundaryCount - 1 /\ b + 1 \in j.from .. BoundaryCount
      /\ b # BoundaryCount /\ b \in j.from .. BoundaryCount
      /\ ~Canon(j, b).failed /\ ~Canon(j, b + 1).failed
      /\ particles[r] = Part(j, r, Moved(j, b))
      /\ decision[r] = Decided(j, b) /\ Len(calls[r]) = Base(j, b) + 3
      /\ Append(mcse[r], Global(r)) = Canon(j, b + 1).mcse
  BY <1>1, AfterContributions, Zenon
<1>3. Decided(j, b).resampled
  BY <1>1, <1>2
<1>4. Slot(j, r, b, 4)
  BY <1>2, <1>3 DEF Slot, Width
<1>5. "parents" = KindAt(j, b, 4) /\ Len(calls[r]) = Base(j, b) + 4 - 1
  BY <1>2, <1>3, KindFacts, BaseFacts
<1>6. value = ValueOf(j, r, b, "parents")
  <2>1. value = [d \in RanksOf(j) |->
                   Bucket(r, d, Part(j, r, Moved(j, b)), Decided(j, b).parents,
                          ParticleCount, j.world)]
    BY <1>2, RunFacts
  <2> HIDE DEF value
  <2> QED
    BY <2>1 DEF ValueOf
<1> HIDE DEF value
<1>7. /\ OnlyAt(pc, pc', r) /\ pc'[r] = "parents"
      /\ OnlyAt(calls, calls', r) /\ Scripted(j, r, calls'[r])
      /\ Len(calls'[r]) = Base(j, b) + 4
  BY <1>1, <1>4, <1>5, <1>6, Enters
<1>8. /\ OnlyAt(mcse, mcse', r) /\ mcse'[r] = Canon(j, b + 1).mcse
      /\ OnlyAt(boundary, boundary', r) /\ boundary'[r] = b + 1
  BY <1>1, <1>2, RankFacts, ExceptOnlyAt
<1>9. (b + 1) - 1 = b
  BY <1>2, JobsAssumption
<1>10. InPlace(j, r, pc'[r], boundary'[r], particles'[r], weights'[r], decision'[r],
               mcse'[r], Len(calls'[r]))
  BY <1>1, <1>2, <1>3, <1>7, <1>8, <1>9 DEF InPlace
<1>11. /\ OnlyAt(particles, particles', r)
       /\ OnlyAt(weights, weights', r) /\ OnlyAt(decision, decision', r)
  BY <1>1, Unchanged
<1>12. r = 0 => RootInPlace(j, pc'[0], boundary'[0], draws', updates')
  BY <1>1, <1>7, <1>8, <1>9, RankFacts DEF RootInPlace
<1> QED
  BY <1>1, <1>7, <1>8, <1>10, <1>11, <1>12, Frame

LEMMA KeepParticlesStep ==
  ASSUME NEW j \in Jobs, RunInv(j), NEW r \in RanksOf(j), KeepParticles(r)
  PROVE  RunInv(j)'
<1> DEFINE b == boundary[r]
           stay == [i \in Interval(r) |-> Stay(particles[r][i], boundary[r] + 1, weights[r][i])]
           value == [i \in Interval(r) |-> stay[i].lineage]
<1>1. /\ pc[r] = "contributions" /\ Gathered(r) /\ ~decision[r].resampled
      /\ mcse' = [mcse EXCEPT ![r] = Append(mcse[r], Global(r))]
      /\ boundary' = [boundary EXCEPT ![r] = b + 1]
      /\ particles' = [particles EXCEPT ![r] = stay]
      /\ Enter(r, "lineages", value)
      /\ UNCHANGED <<job, weights, decision, draws, updates>>
  BY DEF KeepParticles
<1>2. /\ b \in j.from .. BoundaryCount - 1 /\ b + 1 \in j.from .. BoundaryCount
      /\ b # BoundaryCount /\ b \in j.from .. BoundaryCount /\ b \in 0 .. BoundaryCount - 1
      /\ ~Canon(j, b).failed /\ ~Canon(j, b + 1).failed
      /\ particles[r] = Part(j, r, Moved(j, b)) /\ weights[r] = Part(j, r, Weighed(j, b))
      /\ decision[r] = Decided(j, b) /\ Len(calls[r]) = Base(j, b) + 3
      /\ Append(mcse[r], Global(r)) = Canon(j, b + 1).mcse
  BY <1>1, AfterContributions, Zenon
<1>3. ~Decided(j, b).resampled
  BY <1>1, <1>2
<1>4. /\ Canon(j, b + 1).particles = Passed(j, b)
      /\ Canon(j, b + 1).weights = Weighed(j, b)
      /\ Canon(j, b + 1).draws = Canon(j, b).draws
  BY <1>2, <1>3, CanonNext DEF PassedWeights, PassedDraws
<1>5. stay = Part(j, r, Canon(j, b + 1).particles)
  <2>1. Passed(j, b) = [i \in Particles |-> Stay(Moved(j, b)[i], b + 1, Weighed(j, b)[i])]
    BY <1>3 DEF Passed
  <2>2. \A i \in IntervalOf(j, r) :
          /\ i \in Particles
          /\ particles[r][i] = Moved(j, b)[i] /\ weights[r][i] = Weighed(j, b)[i]
    BY <1>2, PartFact, OwnFacts
  <2>3. \A i \in IntervalOf(j, r) :
          Stay(particles[r][i], boundary[r] + 1, weights[r][i]) = Canon(j, b + 1).particles[i]
    BY <1>4, <2>1, <2>2
  <2>4. Interval(r) = IntervalOf(j, r)
    BY RunFacts
  <2> QED
    BY <2>3, <2>4 DEF Part
<1>6. value = ValueOf(j, r, b, "lineages")
  <2>1. Interval(r) = IntervalOf(j, r)
    BY RunFacts
  <2> HIDE DEF stay
  <2>2. \A i \in IntervalOf(j, r) : stay[i] = Canon(j, b + 1).particles[i]
    BY <1>5, PartFact
  <2>3. value = [i \in IntervalOf(j, r) |-> Canon(j, b + 1).particles[i].lineage]
    BY <2>1, <2>2
  <2> HIDE DEF value
  <2> QED
    BY <2>3 DEF ValueOf
<1>7. Width(j, b) = 4 /\ "lineages" = KindAt(j, b, 4)
  BY <1>2, <1>3, KindFacts
<1>8. Slot(j, r, b, 4)
  BY <1>2, <1>7 DEF Slot
<1>9. /\ Len(calls[r]) = Base(j, b) + 4 - 1 /\ Base(j, b + 1) = Base(j, b) + 4
  BY <1>2, <1>7, BaseFacts, BaseNext
<1> HIDE DEF value, stay
<1>10. /\ OnlyAt(pc, pc', r) /\ pc'[r] = "lineages"
       /\ OnlyAt(calls, calls', r) /\ Scripted(j, r, calls'[r])
       /\ Len(calls'[r]) = Base(j, b) + 4
  BY <1>1, <1>6, <1>7, <1>8, <1>9, Enters
<1>11. /\ OnlyAt(mcse, mcse', r) /\ mcse'[r] = Canon(j, b + 1).mcse
       /\ OnlyAt(boundary, boundary', r) /\ boundary'[r] = b + 1
       /\ OnlyAt(particles, particles', r) /\ particles'[r] = stay
  BY <1>1, <1>2, RankFacts, ExceptOnlyAt
<1>12. (b + 1) - 1 = b
  BY <1>2, JobsAssumption
<1>13. InPlace(j, r, pc'[r], boundary'[r], particles'[r], weights'[r], decision'[r],
               mcse'[r], Len(calls'[r]))
  BY <1>1, <1>2, <1>3, <1>4, <1>5, <1>9, <1>10, <1>11, <1>12 DEF InPlace
<1>14. OnlyAt(weights, weights', r) /\ OnlyAt(decision, decision', r)
  BY <1>1, Unchanged
<1>15. r = 0 => RootInPlace(j, pc'[0], boundary'[0], draws', updates')
  BY <1>1, <1>10, <1>11, <1>12, RankFacts DEF RootInPlace
<1> QED
  BY <1>1, <1>10, <1>11, <1>13, <1>14, <1>15, Frame

\* The child a packet becomes is the branch of the parent it carries.
LEMMA ChildIsBranch ==
  ASSUME NEW p, NEW source, NEW c, NEW from, NEW origin, NEW b
  PROVE  MaterializedChild([source |-> source, child |-> c, parent |-> from, payload |-> p],
                           origin, b)
           = Branch(p, b, c, from)
<1> DEFINE packet == [source |-> source, child |-> c, parent |-> from, payload |-> p]
<1>1. packet.child = c /\ packet.parent = from /\ packet.payload = p
  OBVIOUS
<1> HIDE DEF packet
<1>2. MaterializedChild(packet, origin, b) = Branch(p, b, c, from)
  BY <1>1, Zenon DEF MaterializedChild, Branch
<1> QED
  BY <1>2 DEF packet

\* A rank that has exchanged parents is handed the children of the filter.
LEMMA Installed ==
  ASSUME NEW j \in Jobs, RunInv(j), NEW r \in RanksOf(j), pc[r] = "parents", Gathered(r)
  PROVE  LET packets == Received([s \in Ranks |-> From(s, r)], r) IN
         /\ Accepted(packets, Interval(r))
         /\ Children(packets, Interval(r), IntervalStart(r), boundary[r])
              = Part(j, r, Canon(j, boundary[r]).particles)
<1> DEFINE c == boundary[r]
           b == c - 1
           M == ParticleCount
           R == j.world
           parents == Decided(j, b).parents
           ps == [s \in RanksOf(j) |-> Part(j, s, Moved(j, b))]
           packets == Received([s \in Ranks |-> From(s, r)], r)
<1>1. /\ b \in j.from .. BoundaryCount /\ ~Canon(j, c).failed /\ ~Canon(j, b).failed
      /\ Decided(j, b).resampled /\ Len(calls[r]) = Base(j, b) + 4
  BY RankFacts DEF InPlace
<1>2. /\ c \in j.from .. BoundaryCount /\ b \in j.from .. BoundaryCount - 1
      /\ b \in 0 .. BoundaryCount - 1 /\ b # BoundaryCount /\ b + 1 = c
      /\ b \in 0 .. BoundaryCount
  BY <1>1, RankFacts, JobsAssumption, BoundaryCountAssumption
<1>3. Slot(j, r, b, 4)
  BY <1>1, <1>2 DEF Slot, Width
<1>4. ASSUME NEW s \in RanksOf(j)
      PROVE  From(s, r) = [d \in RanksOf(j) |-> Bucket(s, d, ps[s], parents, M, R)]
  <2>1. Len(calls[s]) >= Len(calls[r])
    BY RunFacts DEF Gathered
  <2>2. From(s, r) = ValueOf(j, s, b, KindAt(j, b, 4))
    BY <1>1, <1>3, <2>1, Heard
  <2>3. KindAt(j, b, 4) = "parents"
    BY <1>1, <1>2, KindFacts
  <2>4. ValueOf(j, s, b, "parents") =
          [d \in RanksOf(j) |-> Bucket(s, d, Part(j, s, Moved(j, b)), parents, M, R)]
    BY DEF ValueOf
  <2>5. ps[s] = Part(j, s, Moved(j, b))
    OBVIOUS
  <2> HIDE DEF ps
  <2> QED
    BY <2>2, <2>3, <2>4, <2>5
<1>5. M \in Nat \ {0} /\ R \in Nat \ {0} /\ RanksOf(j) = 0 .. R - 1 /\ Particles = 0 .. M - 1
  BY ParticleCountAssumption, JobsAssumption DEF RanksOf, Particles
<1>6. /\ Interval(r) = RankParticles(r, M, R) /\ IntervalStart(r) = RankStart(r, M, R)
      /\ Ranks = RanksOf(j) /\ IntervalOf(j, r) = RankParticles(r, M, R)
  BY RunFacts DEF IntervalOf
<1>7. parents \in [0 .. M - 1 -> 0 .. M - 1]
  <2>1. Canon(j, b) \in Filters(b)
    BY <1>2, CanonTyped
  <2>2. Normalizable(Weighed(j, b), ParticleCount)
    BY <1>1, <1>2, CanonNext
  <2>3. Decided(j, b) \in Decisions
    BY <1>2, <2>1, <2>2, DecidedTyped
  <2> QED
    BY <1>5, <2>3 DEF Decisions
<1>8. packets = Received(Sent(ps, parents, M, R), r)
  <2> HIDE DEF ps, parents, R, M
  <2>1. [s \in Ranks |-> From(s, r)] = Sent(ps, parents, M, R)
    BY <1>4, <1>5, <1>6 DEF Sent
  <2> QED
    BY <2>1
<1>9. Passed(j, b) =
        [i \in Particles |-> Branch(Moved(j, b)[parents[i]], b + 1, i, parents[i])]
  BY <1>1 DEF Passed
<1>10. ASSUME NEW i \in IntervalOf(j, r)
       PROVE  MaterializedChild(PacketOf(i, ps, parents, M, R), RankStart(r, M, R), c)
                = Canon(j, c).particles[i]
  <2>1. i \in Particles /\ parents[i] \in Particles
    <3>1. i \in Particles
      BY OwnFacts
    <3> QED
      BY <1>5, <1>7, <3>1
  <2> DEFINE s == Owner(parents[i], M, R)
  <2>2. s \in RanksOf(j) /\ parents[i] \in IntervalOf(j, s)
    BY <2>1, OwnFacts
  <2>3. ps[s][parents[i]] = Moved(j, b)[parents[i]]
    BY <2>2, PartFact
  <2>4. MaterializedChild(PacketOf(i, ps, parents, M, R), RankStart(r, M, R), c)
          = Branch(ps[s][parents[i]], c, i, parents[i])
    BY ChildIsBranch DEF PacketOf
  <2>5. Canon(j, c).particles = Passed(j, b)
    BY <1>1, <1>2, CanonNext
  <2> HIDE DEF ps, parents, s
  <2> QED
    BY <1>2, <1>9, <2>1, <2>3, <2>4, <2>5
<1>11. r \in 0 .. R - 1
  BY <1>5
<1> HIDE DEF ps, parents, M, R
<1>12. Accepted(packets, Interval(r))
  <2> HIDE DEF packets
  <2> QED
    BY <1>5, <1>6, <1>7, <1>8, <1>11, ExchangeAccepted
<1>13. Children(packets, Interval(r), IntervalStart(r), c) =
         [i \in RankParticles(r, M, R) |->
            MaterializedChild(PacketOf(i, ps, parents, M, R), RankStart(r, M, R), c)]
  <2> DEFINE k == Children(packets, Interval(r), IntervalStart(r), c)
  <2>1. k = [i \in RankParticles(r, M, R) |-> k[i]]
    BY <1>6 DEF Children
  <2>2. ASSUME NEW i \in RankParticles(r, M, R)
        PROVE  k[i] = MaterializedChild(PacketOf(i, ps, parents, M, R), RankStart(r, M, R), c)
    <3> HIDE DEF packets, c
    <3>1. \A q, d :
            Children(Received(Sent(q, parents, M, R), r), RankParticles(r, M, R),
                     RankStart(r, M, R), d)[i]
              = MaterializedChild(PacketOf(i, q, parents, M, R), RankStart(r, M, R), d)
      <4> TAKE q, d
      <4>1. M \in Nat \ {0} /\ R \in Nat \ {0}
        BY <1>5
      <4> QED
        BY <4>1, <1>7, <1>11, ChildFacts, SMTT(30)
    <3> QED
      BY <1>6, <1>8, <3>1
  <2> HIDE DEF k
  <2>3. k = [i \in RankParticles(r, M, R) |->
               MaterializedChild(PacketOf(i, ps, parents, M, R), RankStart(r, M, R), c)]
    BY <2>1, <2>2
  <2> QED
    BY <2>3 DEF k
<1>14. [i \in RankParticles(r, M, R) |->
            MaterializedChild(PacketOf(i, ps, parents, M, R), RankStart(r, M, R), c)]
         = Part(j, r, Canon(j, c).particles)
  BY <1>6, <1>10 DEF Part
<1> QED
  BY <1>12, <1>13, <1>14

LEMMA InstallChildrenStep ==
  ASSUME NEW j \in Jobs, RunInv(j), NEW r \in RanksOf(j), InstallChildren(r)
  PROVE  RunInv(j)'
<1> DEFINE c == boundary[r]
           b == c - 1
           packets == Received([s \in Ranks |-> From(s, r)], r)
           children == Children(packets, Interval(r), IntervalStart(r), boundary[r])
           ones == [i \in Interval(r) |-> 1]
           value == [i \in Interval(r) |-> children[i].lineage]
<1>1. /\ pc[r] = "parents" /\ Gathered(r)
      /\ UNCHANGED <<job, boundary, decision, draws, mcse, updates>>
  BY DEF InstallChildren
<1>2. /\ b \in j.from .. BoundaryCount /\ ~Canon(j, c).failed /\ ~Canon(j, b).failed
      /\ Decided(j, b).resampled /\ Len(calls[r]) = Base(j, b) + 4
      /\ mcse[r] = Canon(j, c).mcse /\ decision[r] = Decided(j, b)
  BY <1>1, RankFacts DEF InPlace
<1>3. /\ c \in j.from .. BoundaryCount /\ b \in j.from .. BoundaryCount - 1
      /\ b \in 0 .. BoundaryCount - 1 /\ b # BoundaryCount /\ b + 1 = c
  BY <1>2, RankFacts, JobsAssumption, BoundaryCountAssumption
<1>4. Accepted(packets, Interval(r)) /\ children = Part(j, r, Canon(j, c).particles)
  BY <1>1, Installed
<1>5. /\ OnlyAt(boundary, boundary', r) /\ OnlyAt(decision, decision', r)
      /\ OnlyAt(mcse, mcse', r)
  BY <1>1, Unchanged
<1>6. CASE \A i \in Interval(r) : Fits(children[i])
  <2>1. /\ particles' = [particles EXCEPT ![r] = children]
        /\ weights' = [weights EXCEPT ![r] = ones]
        /\ Enter(r, "lineages", value)
    BY <1>4, <1>6, Zenon DEF InstallChildren
  <2>2. /\ Canon(j, c).weights = [i \in Particles |-> 1]
        /\ Base(j, c) = Base(j, b) + 5 /\ Width(j, b) = 5
    <3>1. Canon(j, b + 1).weights = PassedWeights(j, b)
      BY <1>2, <1>3, CanonNext
    <3>2. Width(j, b) = 5
      BY <1>2, <1>3, KindFacts
    <3>3. Base(j, b + 1) = Base(j, b) + Width(j, b)
      BY <1>2, <1>3, BaseNext
    <3> QED
      BY <1>2, <1>3, <3>1, <3>2, <3>3 DEF PassedWeights
  <2>3. ones = Part(j, r, Canon(j, c).weights)
    BY <2>2, RunFacts, OwnFacts DEF Part
  <2>4. value = ValueOf(j, r, b, "lineages")
    <3>1. Interval(r) = IntervalOf(j, r)
      BY RunFacts
    <3> HIDE DEF children, c
    <3>2. \A i \in IntervalOf(j, r) : children[i] = Canon(j, c).particles[i]
      BY <1>4, PartFact
    <3>3. value = [i \in IntervalOf(j, r) |-> Canon(j, c).particles[i].lineage]
      BY <3>1, <3>2
    <3> HIDE DEF value
    <3>4. ValueOf(j, r, b, "lineages") =
            [i \in IntervalOf(j, r) |-> Canon(j, b + 1).particles[i].lineage]
      BY DEF ValueOf
    <3> QED
      BY <1>3, <3>3, <3>4
  <2>5. Slot(j, r, b, 5) /\ "lineages" = KindAt(j, b, 5)
    BY <1>2, <1>3, <2>2, KindFacts DEF Slot
  <2>6. Len(calls[r]) = Base(j, b) + 5 - 1
    BY <1>2, <1>3, BaseFacts
  <2> HIDE DEF children, ones, value, packets
  <2>7. /\ OnlyAt(pc, pc', r) /\ pc'[r] = "lineages"
        /\ OnlyAt(calls, calls', r) /\ Scripted(j, r, calls'[r])
        /\ Len(calls'[r]) = Base(j, b) + 5
    BY <2>1, <2>4, <2>5, <2>6, Enters
  <2>8. /\ OnlyAt(particles, particles', r) /\ particles'[r] = children
        /\ OnlyAt(weights, weights', r) /\ weights'[r] = ones
    BY <2>1, RankFacts, ExceptOnlyAt
  <2>9. InPlace(j, r, pc'[r], boundary'[r], particles'[r], weights'[r], decision'[r],
                mcse'[r], Len(calls'[r]))
    BY <1>1, <1>2, <1>3, <1>4, <2>2, <2>3, <2>7, <2>8 DEF InPlace
  <2>10. r = 0 => RootInPlace(j, pc'[0], boundary'[0], draws', updates')
    BY <1>1, <2>7, RankFacts DEF RootInPlace
  <2> QED
    BY <1>1, <1>5, <2>7, <2>8, <2>9, <2>10, Frame
<1>7. CASE ~\A i \in Interval(r) : Fits(children[i])
  <2>1. /\ pc' = [pc EXCEPT ![r] = "transfer error"]
        /\ UNCHANGED <<particles, weights, calls>>
    BY <1>7, Zenon DEF InstallChildren, Fail
  <2>2. OnlyAt(pc, pc', r) /\ pc'[r] = "transfer error"
    BY <2>1, RankFacts, ExceptOnlyAt
  <2>3. /\ OnlyAt(particles, particles', r) /\ OnlyAt(weights, weights', r)
        /\ OnlyAt(calls, calls', r) /\ Scripted(j, r, calls'[r])
    BY <2>1, RankFacts, Unchanged
  <2>4. InPlace(j, r, pc'[r], boundary'[r], particles'[r], weights'[r], decision'[r],
                mcse'[r], Len(calls'[r]))
    BY <1>1, <1>3, <2>2 DEF InPlace
  <2>5. r = 0 => RootInPlace(j, pc'[0], boundary'[0], draws', updates')
    BY <2>2 DEF RootInPlace
  <2> QED
    BY <1>1, <1>5, <2>2, <2>3, <2>4, <2>5, Frame
<1> QED
  BY <1>6, <1>7

LEMMA EndBoundaryStep ==
  ASSUME NEW j \in Jobs, RunInv(j), NEW r \in RanksOf(j), EndBoundary(r)
  PROVE  RunInv(j)'
<1> DEFINE c == boundary[r]
           b == c - 1
<1>1. /\ pc[r] = "lineages" /\ Gathered(r)
      /\ pc' = [pc EXCEPT ![r] = "loop"]
      /\ UNCHANGED <<job, boundary, particles, weights, decision, draws, mcse, calls>>
  BY DEF EndBoundary
<1>2. /\ b \in j.from .. BoundaryCount /\ ~Canon(j, c).failed /\ ~Canon(j, b).failed
      /\ Len(calls[r]) = Base(j, c)
      /\ mcse[r] = Canon(j, c).mcse /\ decision[r] = Decided(j, b)
      /\ particles[r] = Part(j, r, Canon(j, c).particles)
      /\ weights[r] = Part(j, r, Canon(j, c).weights)
  BY <1>1, RankFacts DEF InPlace
<1>3. /\ c \in j.from .. BoundaryCount /\ b \in j.from .. BoundaryCount - 1
      /\ b \in 0 .. BoundaryCount - 1 /\ b # BoundaryCount /\ b + 1 = c
      /\ b \in 0 .. BoundaryCount /\ b \in Nat /\ j.from \in 0 .. b
  BY <1>2, RankFacts, JobsAssumption, BoundaryCountAssumption
<1>4. OnlyAt(pc, pc', r) /\ pc'[r] = "loop"
  BY <1>1, RankFacts, ExceptOnlyAt
<1>5. InPlace(j, r, pc'[r], boundary'[r], particles'[r], weights'[r], decision'[r],
              mcse'[r], Len(calls'[r]))
  BY <1>1, <1>2, <1>3, <1>4 DEF InPlace
<1>6. /\ OnlyAt(boundary, boundary', r) /\ OnlyAt(particles, particles', r)
      /\ OnlyAt(weights, weights', r) /\ OnlyAt(decision, decision', r)
      /\ OnlyAt(mcse, mcse', r) /\ OnlyAt(calls, calls', r) /\ Scripted(j, r, calls'[r])
  BY <1>1, RankFacts, Unchanged
<1>7. ASSUME r = 0
      PROVE  RootInPlace(j, pc'[0], boundary'[0], draws', updates')
  <2>1. updates' = Append(updates, [boundary |-> c, decision |-> Decided(j, b),
                                    ancestry |-> Global(r)])
    BY <1>2, <1>7 DEF EndBoundary
  <2>2. draws = Canon(j, c).draws /\ updates = SubSeq(Canon(j, b).updates, j.from + 1, b)
    BY <1>1, <1>7, RankFacts DEF RootInPlace
  <2> DEFINE ancestry == [i \in Particles |-> Passed(j, b)[i].lineage]
             w == Width(j, b)
  <2>3. /\ Normalizable(Weighed(j, b), ParticleCount)
        /\ Canon(j, c).particles = Passed(j, b)
        /\ Canon(j, c).updates = Append(Canon(j, b).updates, UpdateOf(j, b))
    BY <1>2, <1>3, CanonNext
  <2>4. Canon(j, b) \in Filters(b) /\ Len(Canon(j, b).updates) = b
    BY <1>2, <1>3, CanonTyped
  <2>5. UpdateOf(j, b) \in UpdateRecords /\ Canon(j, b).updates \in Seq(UpdateRecords)
    BY <1>3, <2>3, <2>4, PassedTyped DEF Filters
  <2>6. ancestry \in [Particles -> Lineages]
    BY <2>5 DEF UpdateOf, UpdateRecords
  <2>7. Slot(j, r, b, w) /\ KindAt(j, b, w) = "lineages" /\ Len(calls[r]) = Base(j, b) + w
    <3>1. Base(j, b + 1) = Base(j, b) + w
      BY <1>2, <1>3, BaseNext
    <3> QED
      BY <1>2, <1>3, <3>1, KindFacts, WidthFact DEF Slot
  <2>8. ASSUME NEW s \in RanksOf(j), NEW i \in IntervalOf(j, s)
        PROVE  ValueOf(j, s, b, KindAt(j, b, w))[i] = ancestry[i]
    <3>1. ValueOf(j, s, b, "lineages") =
            [k \in IntervalOf(j, s) |-> Canon(j, b + 1).particles[k].lineage]
      BY DEF ValueOf
    <3>2. i \in Particles
      BY OwnFacts
    <3> QED
      BY <1>3, <2>3, <2>7, <3>1, <3>2
  <2> HIDE DEF ancestry, w
  <2>9. Global(r) = ancestry
    <3>1. \A f \in [Particles -> Lineages] :
            (\A s \in RanksOf(j) : \A i \in IntervalOf(j, s) :
               ValueOf(j, s, b, KindAt(j, b, w))[i] = f[i])
            => Global(r) = f
      BY <1>1, <2>7, GlobalIs
    <3> QED
      BY <2>6, <2>8, <3>1
  <2>10. [boundary |-> c, decision |-> Decided(j, b), ancestry |-> Global(r)] = UpdateOf(j, b)
    BY <1>3, <2>9 DEF UpdateOf, ancestry
  <2>11. SubSeq(Canon(j, c).updates, j.from + 1, c) =
           Append(SubSeq(Canon(j, b).updates, j.from + 1, b), UpdateOf(j, b))
    <3> DEFINE u == Canon(j, b).updates
    <3>1. j.from + 1 \in 1 .. Len(u) + 1
      BY <1>3, <2>4
    <3>2. SubSeq(Append(u, UpdateOf(j, b)), j.from + 1, Len(u) + 1) =
            Append(SubSeq(u, j.from + 1, Len(u)), UpdateOf(j, b))
      BY <2>5, <3>1, SubSeqAppend
    <3> QED
      BY <1>3, <2>3, <2>4, <3>2
  <2>12. updates' = SubSeq(Canon(j, c).updates, j.from + 1, c)
    BY <2>1, <2>2, <2>10, <2>11
  <2> QED
    BY <1>1, <1>4, <1>7, <2>2, <2>12 DEF RootInPlace
<1>8. r # 0 => draws' = draws /\ updates' = updates
  BY DEF EndBoundary
<1> QED
  BY <1>1, <1>4, <1>5, <1>6, <1>7, <1>8, Frame

LEMMA FinishStep ==
  ASSUME NEW j \in Jobs, RunInv(j), NEW r \in RanksOf(j), Finish(r)
  PROVE  RunInv(j)'
<1> DEFINE b == boundary[r]
<1>1. /\ pc[r] = "loop" /\ b = BoundaryCount /\ Enter(r, "result", weights[r])
      /\ UNCHANGED <<job, boundary, particles, weights, decision, draws, mcse, updates>>
  BY DEF Finish
<1>2. /\ ~Canon(j, b).failed /\ mcse[r] = Canon(j, b).mcse
      /\ particles[r] = Part(j, r, Canon(j, b).particles)
      /\ weights[r] = Part(j, r, Canon(j, b).weights)
      /\ Len(calls[r]) = Base(j, b) /\ b \in j.from .. BoundaryCount
  BY <1>1, RankFacts DEF InPlace
<1>3. Slot(j, r, b, 1)
  BY <1>1, <1>2 DEF Slot, Width
<1>4. "result" = KindAt(j, b, 1) /\ weights[r] = ValueOf(j, r, b, "result")
  BY <1>1, <1>2 DEF KindAt, ValueOf
<1>5. Len(calls[r]) = Base(j, b) + 1 - 1
  BY <1>2, BaseFacts
<1>6. /\ OnlyAt(pc, pc', r) /\ pc'[r] = "result"
      /\ OnlyAt(calls, calls', r) /\ Scripted(j, r, calls'[r])
      /\ Len(calls'[r]) = Base(j, b) + 1
  BY <1>1, <1>3, <1>4, <1>5, Enters
<1>7. InPlace(j, r, pc'[r], boundary'[r], particles'[r], weights'[r], decision'[r],
              mcse'[r], Len(calls'[r]))
  BY <1>1, <1>2, <1>6 DEF InPlace
<1>8. /\ OnlyAt(boundary, boundary', r) /\ OnlyAt(particles, particles', r)
      /\ OnlyAt(weights, weights', r) /\ OnlyAt(decision, decision', r)
      /\ OnlyAt(mcse, mcse', r)
  BY <1>1, Unchanged
<1>9. r = 0 => RootInPlace(j, pc'[0], boundary'[0], draws', updates')
  BY <1>1, <1>6, RankFacts DEF RootInPlace
<1> QED
  BY <1>1, <1>6, <1>7, <1>8, <1>9, Frame

LEMMA ReturnStep ==
  ASSUME NEW j \in Jobs, RunInv(j), NEW r \in RanksOf(j), Return(r)
  PROVE  RunInv(j)'
<1>1. /\ pc[r] = "result" /\ pc' = [pc EXCEPT ![r] = "done"]
      /\ UNCHANGED <<job, boundary, particles, weights, decision, draws, mcse, updates, calls>>
  BY DEF Return
<1>2. OnlyAt(pc, pc', r) /\ pc'[r] = "done"
  BY <1>1, RankFacts, ExceptOnlyAt
<1>3. InPlace(j, r, pc'[r], boundary'[r], particles'[r], weights'[r], decision'[r],
              mcse'[r], Len(calls'[r]))
  BY <1>1, <1>2, RankFacts DEF InPlace
<1>4. /\ OnlyAt(boundary, boundary', r) /\ OnlyAt(particles, particles', r)
      /\ OnlyAt(weights, weights', r) /\ OnlyAt(decision, decision', r)
      /\ OnlyAt(mcse, mcse', r) /\ OnlyAt(calls, calls', r) /\ Scripted(j, r, calls'[r])
  BY <1>1, RankFacts, Unchanged
<1>5. r = 0 => RootInPlace(j, pc'[0], boundary'[0], draws', updates')
  BY <1>1, <1>2, RankFacts DEF RootInPlace
<1> QED
  BY <1>1, <1>2, <1>3, <1>4, <1>5, Frame

LEMMA InitInv == Init => Inv
<1> SUFFICES ASSUME Init PROVE Inv
  OBVIOUS
<1>1. PICK j \in Jobs : j = job
  BY DEF Init
<1>2. /\ ~Canon(j, j.from).failed
      /\ pc = [r \in Ranks |-> "loop"] /\ boundary = [r \in Ranks |-> j.from]
      /\ particles = [r \in Ranks |-> [i \in Interval(r) |-> Canon(j, j.from).particles[i]]]
      /\ weights = [r \in Ranks |-> [i \in Interval(r) |-> Canon(j, j.from).weights[i]]]
      /\ decision = [r \in Ranks |-> Undecided] /\ draws = Canon(j, j.from).draws
      /\ mcse = [r \in Ranks |-> Canon(j, j.from).mcse]
      /\ updates = <<>> /\ calls = [r \in Ranks |-> <<>>]
  BY <1>1 DEF Init, Canon
<1>3. /\ Ranks = RanksOf(j) /\ 0 \in RanksOf(j)
      /\ \A s : Interval(s) = IntervalOf(j, s)
  BY <1>1, JobsAssumption DEF Ranks, RanksOf, Interval, IntervalOf
<1>4. /\ j.from \in j.from .. BoundaryCount /\ j.from \in Nat /\ j.from \in 0 .. BoundaryCount
  BY JobsAssumption, BoundaryCountAssumption
<1>5. Base(j, j.from) = 0
  BY <1>4, BaseFacts
<1>6. ASSUME NEW r \in RanksOf(j)
      PROVE  /\ InPlace(j, r, pc[r], boundary[r], particles[r], weights[r], decision[r],
                        mcse[r], Len(calls[r]))
             /\ Scripted(j, r, calls[r])
  <2>1. /\ pc[r] = "loop" /\ boundary[r] = j.from /\ mcse[r] = Canon(j, j.from).mcse
        /\ particles[r] = Part(j, r, Canon(j, j.from).particles)
        /\ weights[r] = Part(j, r, Canon(j, j.from).weights)
        /\ calls[r] = <<>>
    BY <1>2, <1>3 DEF Part
  <2>2. Len(calls[r]) = 0
    BY <2>1
  <2>3. Scripted(j, r, <<>>)
    BY DEF Scripted
  <2> QED
    BY <1>2, <1>4, <1>5, <2>1, <2>2, <2>3 DEF InPlace
<1>7. RootInPlace(j, pc[0], boundary[0], draws, updates)
  <2>1. SubSeq(Canon(j, j.from).updates, j.from + 1, j.from) = <<>>
    <3> DEFINE u == Canon(j, j.from).updates
    <3>1. u \in Seq(UpdateRecords)
      BY <1>4, CanonTyped DEF Filters
    <3> HIDE DEF u
    <3> QED
      BY <1>4, <3>1, SubSeqEmpty DEF u
  <2>2. pc[0] = "loop" /\ boundary[0] = j.from
    BY <1>2, <1>3
  <2> QED
    BY <1>2, <2>1, <2>2 DEF RootInPlace
<1>8. /\ DOMAIN pc = RanksOf(j) /\ DOMAIN boundary = RanksOf(j)
      /\ DOMAIN particles = RanksOf(j) /\ DOMAIN weights = RanksOf(j)
      /\ DOMAIN decision = RanksOf(j) /\ DOMAIN mcse = RanksOf(j)
      /\ DOMAIN calls = RanksOf(j)
  BY <1>2, <1>3
<1>9. RunInv(j)
  BY <1>1, <1>6, <1>7, <1>8 DEF RunInv
<1> QED
  BY <1>9 DEF Inv

LEMMA StutterStep ==
  ASSUME NEW j \in Jobs, RunInv(j), UNCHANGED vars
  PROVE  RunInv(j)'
BY DEF RunInv, vars

LEMMA NextInv == Inv /\ [Next]_vars => Inv'
<1> SUFFICES ASSUME Inv, [Next]_vars PROVE Inv'
  OBVIOUS
<1>1. PICK j \in Jobs : RunInv(j)
  BY DEF Inv
<1>2. ASSUME NEW r \in Ranks, Step(r) \/ PropagateFails(r)
      PROVE  RunInv(j)'
  <2> r \in RanksOf(j)
    BY <1>1, RunFacts
  <2>1. CASE Propagate(r)
    BY <1>1, <2>1, PropagateStep
  <2>2. CASE Decide(r)
    BY <1>1, <2>2, DecideStep
  <2>3. CASE AwaitDecision(r)
    BY <1>1, <2>3, AwaitDecisionStep
  <2>4. CASE Contribute(r)
    BY <1>1, <2>4, ContributeStep
  <2>5. CASE SendParents(r)
    BY <1>1, <2>5, SendParentsStep
  <2>6. CASE KeepParticles(r)
    BY <1>1, <2>6, KeepParticlesStep
  <2>7. CASE InstallChildren(r)
    BY <1>1, <2>7, InstallChildrenStep
  <2>8. CASE EndBoundary(r)
    BY <1>1, <2>8, EndBoundaryStep
  <2>9. CASE Finish(r)
    BY <1>1, <2>9, FinishStep
  <2>10. CASE Return(r)
    BY <1>1, <2>10, ReturnStep
  <2>11. CASE PropagateFails(r)
    BY <1>1, <2>11, PropagateFailsStep
  <2> QED
    BY <1>2, <2>1, <2>2, <2>3, <2>4, <2>5, <2>6, <2>7, <2>8, <2>9, <2>10, <2>11 DEF Step
<1>3. ASSUME UNCHANGED vars PROVE RunInv(j)'
  BY <1>1, <1>3, StutterStep
<1>4. RunInv(j)'
  BY <1>2, <1>3 DEF Next
<1> QED
  BY <1>4 DEF Inv

\* Every reachable state is one of a job whose ranks keep to its script and hold
\* their parts of the single-process filter.
THEOREM RunsInPlace == Spec => []Inv
BY InitInv, NextInv, PTL DEF Spec

-----------------------------------------------------------------------------
(* What it shows.                                                          *)

\* MPI matches only calls of the same exchange: for every number of ranks,
\* boundaries and particles, no rank takes one collective for another.
THEOREM CollectivesAlwaysMatch == Spec => []CollectivesMatch
<1>1. Inv => CollectivesMatch
  <2> SUFFICES ASSUME NEW j \in Jobs, RunInv(j), NEW r \in Ranks, NEW s \in Ranks,
                      NEW k \in 1 .. Len(calls[r]), k <= Len(calls[s])
               PROVE  calls[r][k].kind = calls[s][k].kind
    BY DEF Inv, CollectivesMatch
  <2>1. r \in RanksOf(j) /\ s \in RanksOf(j)
    BY RunFacts
  <2>2. Scripted(j, r, calls[r]) /\ Scripted(j, s, calls[s])
    BY <2>1, RankFacts
  <2>3. k \in 1 .. Len(calls[s])
    OBVIOUS
  <2>4. PICK b \in j.from .. BoundaryCount, o \in 1 .. 5 :
          Slot(j, r, b, o) /\ k = Base(j, b) + o /\ calls[r][k] = ScriptCall(j, r, b, o)
    BY <2>2 DEF Scripted
  <2>5. PICK c \in j.from .. BoundaryCount, p \in 1 .. 5 :
          Slot(j, s, c, p) /\ k = Base(j, c) + p /\ calls[s][k] = ScriptCall(j, s, c, p)
    BY <2>2, <2>3 DEF Scripted
  <2>6. b = c /\ o = p
    BY <2>4, <2>5, SlotUnique
  <2> QED
    BY <2>4, <2>5, <2>6 DEF ScriptCall
<1> QED
  BY <1>1, RunsInPlace, PTL

\* Between boundaries every rank of every world holds its part of the
\* single-process filter, and root its updates and random draws, from whichever
\* boundary the job was resumed.
THEOREM RunsFollowTheFilter == Spec => []FollowsCanonicalFilter
<1>1. Inv => FollowsCanonicalFilter
  <2> SUFFICES ASSUME NEW j \in Jobs, RunInv(j), NEW r \in Ranks, AtBoundary(r)
               PROVE  LET s == Canonical[job][boundary[r]]
                      IN /\ ~s.failed
                         /\ \A i \in Interval(r) : /\ particles[r][i] = s.particles[i]
                                                /\ weights[r][i] = s.weights[i]
                         /\ mcse[r] = s.mcse
                         /\ r = 0 => /\ updates = SubSeq(s.updates, job.from + 1, boundary[r])
                                     /\ draws = s.draws
    BY DEF Inv, FollowsCanonicalFilter
  <2> DEFINE s == Canonical[job][boundary[r]]
  <2>1. r \in RanksOf(j) /\ job = j /\ Interval(r) = IntervalOf(j, r)
    BY RunFacts
  <2>2. s = Canon(j, boundary[r])
    BY <2>1 DEF Canon
  <2>3. /\ ~s.failed /\ mcse[r] = s.mcse
        /\ particles[r] = Part(j, r, s.particles) /\ weights[r] = Part(j, r, s.weights)
    BY <2>1, <2>2, RankFacts DEF InPlace, AtBoundary
  <2>4. \A i \in Interval(r) : /\ particles[r][i] = s.particles[i]
                               /\ weights[r][i] = s.weights[i]
    <3> HIDE DEF s
    <3> QED
      BY <2>1, <2>3, PartFact
  <2>5. r = 0 => /\ updates = SubSeq(s.updates, job.from + 1, boundary[r])
                 /\ draws = s.draws
    BY <2>1, <2>2, RankFacts DEF RootInPlace, AtBoundary
  <2> HIDE DEF s
  <2> QED
    BY <2>3, <2>4, <2>5 DEF s
<1> QED
  BY <1>1, RunsInPlace, PTL

\* A rank that has exchanged parents has its packets and makes the children of the filter.
LEMMA Delivered ==
  ASSUME NEW j \in Jobs, RunInv(j), NEW r \in RanksOf(j), pc[r] = "parents", Gathered(r)
  PROVE  LET packets == Received([s \in Ranks |-> From(s, r)], r)
             children == Children(packets, Interval(r), IntervalStart(r), boundary[r])
         IN /\ Accepted(packets, Interval(r))
            /\ \A i \in Interval(r) : /\ children[i] = Canonical[job][boundary[r]].particles[i]
                                      /\ children[i].topology = PinelandTopology
<1> DEFINE packets == Received([s \in Ranks |-> From(s, r)], r)
           children == Children(packets, Interval(r), IntervalStart(r), boundary[r])
           ps == Canon(j, boundary[r]).particles
<1>1. Accepted(packets, Interval(r)) /\ children = Part(j, r, ps)
  BY Installed
<1>2. ps \in [Particles -> ParticleStates]
  BY RankFacts, CanonTyped DEF Filters
<1>3. Interval(r) = IntervalOf(j, r) /\ IntervalOf(j, r) \subseteq Particles
  BY RunFacts, OwnFacts
<1>4. ps = Canonical[job][boundary[r]].particles
  BY RunFacts DEF Canon
<1> HIDE DEF packets, children, ps
<1>5. ASSUME NEW i \in Interval(r)
      PROVE  /\ children[i] = Canonical[job][boundary[r]].particles[i]
             /\ children[i].topology = PinelandTopology
  <2>1. children[i] = ps[i] /\ ps[i] \in ParticleStates
    BY <1>1, <1>2, <1>3, PartFact
  <2> QED
    BY <1>4, <2>1 DEF ParticleStates
<1> QED
  BY <1>1, <1>5 DEF packets, children

\* Refused are only children of another geography.
Refused == \A r \in Ranks :
  pc[r] = "transfer error" => Interval(r) # {} /\ PinelandTopology # JobTopology

\* The exchange hands every rank its children and makes the right ones of them, for every
\* number of particles, ranks and localities: no rank refuses what it is sent unless the
\* geography of the particles is another one than the job's, and a rank finds no support
\* only where the single-process filter does.
THEOREM EveryChildDelivered == Spec => []ChildrenDelivered
<1>1. Init => Refused
  BY DEF Init, Refused
<1>2. Inv /\ Refused /\ [Next]_vars => Refused'
  <2> SUFFICES ASSUME NEW j \in Jobs, RunInv(j), Refused, [Next]_vars
               PROVE  Refused'
    BY DEF Inv
  <2>1. ASSUME NEW r \in Ranks, Step(r) \/ PropagateFails(r)
        PROVE  /\ pc'[r] = "transfer error" =>
                    Interval(r) # {} /\ PinelandTopology # JobTopology
               /\ OnlyAt(pc, pc', r) /\ job' = job
    <3>1. r \in RanksOf(j) /\ r \in DOMAIN pc
      BY RunFacts, RankFacts
    <3>2. \/ \E x \in {"weights", "decision", "contributions", "parents", "lineages", "loop",
                       "result", "done", "engine error", "no support"} :
               pc' = [pc EXCEPT ![r] = x]
          \/ /\ pc' = [pc EXCEPT ![r] = "transfer error"]
             /\ Interval(r) # {} /\ PinelandTopology # JobTopology
      <4>1. CASE InstallChildren(r)
        <5>1. pc[r] = "parents" /\ Gathered(r)
          BY <4>1 DEF InstallChildren
        <5> DEFINE packets == Received([s \in Ranks |-> From(s, r)], r)
                   children == Children(packets, Interval(r), IntervalStart(r), boundary[r])
        <5>2. /\ Accepted(packets, Interval(r))
              /\ \A i \in Interval(r) : children[i].topology = PinelandTopology
          BY <3>1, <5>1, Delivered
        <5>3. CASE \A i \in Interval(r) : Fits(children[i])
          <6>1. Enter(r, "lineages", [i \in Interval(r) |-> children[i].lineage])
            BY <4>1, <5>2, <5>3, Zenon DEF InstallChildren
          <6> QED
            BY <6>1 DEF Enter
        <5>4. CASE ~ \A i \in Interval(r) : Fits(children[i])
          <6>1. Fail(r, "transfer error")
            BY <4>1, <5>4, Zenon DEF InstallChildren
          <6>2. PICK i \in Interval(r) : children[i].topology # JobTopology
            BY <5>4 DEF Fits
          <6> HIDE DEF children, packets
          <6> QED
            BY <5>2, <6>1, <6>2 DEF Fail
        <5> QED
          BY <5>3, <5>4
      <4>2. CASE Propagate(r)
        BY <4>2 DEF Propagate, Enter
      <4>3. CASE Decide(r)
        BY <4>3 DEF Decide, Enter, Fail
      <4>4. CASE AwaitDecision(r) \/ Contribute(r) \/ Finish(r) \/ Return(r)
        BY <4>4 DEF AwaitDecision, Contribute, Finish, Return, Enter
      <4>5. CASE SendParents(r) \/ KeepParticles(r)
        BY <4>5 DEF SendParents, KeepParticles, Enter
      <4>6. CASE EndBoundary(r) \/ PropagateFails(r)
        BY <4>6 DEF EndBoundary, PropagateFails, Fail
      <4> QED
        BY <2>1, <4>1, <4>2, <4>3, <4>4, <4>5, <4>6 DEF Step
    <3>3. /\ pc'[r] = "transfer error" => Interval(r) # {} /\ PinelandTopology # JobTopology
          /\ OnlyAt(pc, pc', r)
      BY <3>1, <3>2 DEF OnlyAt
    <3>4. job' = job
      BY <2>1 DEF Step, Propagate, Decide, AwaitDecision, Contribute, SendParents,
                  KeepParticles, InstallChildren, EndBoundary, Finish, Return, PropagateFails
    <3> QED
      BY <3>3, <3>4
  <2>2. ASSUME NEW r \in Ranks, Step(r) \/ PropagateFails(r)
        PROVE  Refused'
    <3>1. Ranks' = Ranks /\ \A s \in Ranks : Interval(s)' = Interval(s)
      BY <2>1, <2>2 DEF Ranks, Interval
    <3>2. Ranks = DOMAIN pc
      BY RunFacts DEF RunInv
    <3>3. ASSUME NEW s \in Ranks, pc'[s] = "transfer error"
          PROVE  Interval(s) # {} /\ PinelandTopology # JobTopology
      <4>1. CASE s = r
        BY <2>1, <2>2, <3>3, <4>1
      <4>2. CASE s # r
        BY <2>1, <2>2, <3>2, <3>3, <4>2 DEF Refused, OnlyAt
      <4> QED
        BY <4>1, <4>2
    <3>4. PinelandTopology' = PinelandTopology /\ JobTopology' = JobTopology
      BY DEF PinelandTopology, JobTopology, DistrictCount
    <3> QED
      BY <3>1, <3>3, <3>4 DEF Refused
  <2>3. ASSUME UNCHANGED vars
        PROVE  Refused'
    BY <2>3 DEF Refused, Ranks, Interval, vars, PinelandTopology, JobTopology, DistrictCount
  <2> QED
    BY <2>2, <2>3 DEF Next
<1>3. Inv /\ Refused => ChildrenDelivered
  <2> SUFFICES ASSUME NEW j \in Jobs, RunInv(j), Refused PROVE ChildrenDelivered
    BY DEF Inv
  <2>1. ASSUME NEW r \in Ranks, pc[r] = "no support"
        PROVE  Canonical[job][boundary[r] + 1].failed
    <3>1. r \in RanksOf(j) /\ job = j
      BY RunFacts
    <3> QED
      BY <2>1, <3>1, RankFacts DEF InPlace, Canon
  <2>2. ASSUME NEW r \in Ranks, pc[r] = "parents", Gathered(r)
        PROVE  LET packets == Received([s \in Ranks |-> From(s, r)], r)
                   children == Children(packets, Interval(r), IntervalStart(r), boundary[r])
               IN /\ Accepted(packets, Interval(r))
                  /\ \A i \in Interval(r) :
                       children[i] = Canonical[job][boundary[r]].particles[i]
    <3>1. r \in RanksOf(j)
      BY RunFacts
    <3> QED
      BY <2>2, <3>1, Delivered
  <2> QED
    BY <2>1, <2>2 DEF ChildrenDelivered, Refused
<1> QED
  BY <1>1, <1>2, <1>3, RunsInPlace, PTL DEF Spec
==============================================================================
