---------------------------- MODULE ConflictProofs ----------------------------
(***************************************************************************)
(* The conflict world, whatever it opens with and however its processes    *)
(* follow one another: a formation marches under one order, a force that   *)
(* withdraws is out for good, no settlement or ceasefire outlives the      *)
(* agreement behind it, memberships read the same from both sides, and a   *)
(* record that names another names one that exists.                        *)
(*                                                                         *)
(* The arguments are about identity, place and status; what the handlers   *)
(* make of the amounts is the subject of ConflictAccountsProofs.           *)
(***************************************************************************)
EXTENDS ConflictWorld, SequenceTheorems, FiniteSetTheorems, WellFoundedInduction, TLAPS

\* A sequence, whatever is in it.
IsList(s) == s \in Seq({s[i] : i \in DOMAIN s})

LEMMA ListFacts ==
  ASSUME NEW s, IsList(s)
  PROVE  /\ Len(s) \in Nat /\ DOMAIN s = 1 .. Len(s)
         /\ s = [i \in 1 .. Len(s) |-> s[i]]
         /\ s = <<>> <=> Len(s) = 0
<1> DEFINE S == {s[i] : i \in DOMAIN s}
<1>1. s \in Seq(S)
  BY DEF IsList
<1> HIDE DEF S
<1>2. Len(s) \in Nat /\ s \in [1 .. Len(s) -> S] /\ DOMAIN s = 1 .. Len(s)
  BY <1>1, LenProperties
<1>3. s = <<>> <=> Len(s) = 0
  BY <1>1, EmptySeq
<1> QED
  BY <1>2, <1>3

LEMMA ListIntro ==
  ASSUME NEW n \in Nat, NEW s, s = [i \in 1 .. n |-> s[i]]
  PROVE  IsList(s) /\ Len(s) = n /\ DOMAIN s = 1 .. n
<1> DEFINE S == {s[i] : i \in DOMAIN s}
<1>1. DOMAIN s = 1 .. n /\ s \in [1 .. n -> S]
  OBVIOUS
<1> HIDE DEF S
<1>2. s \in Seq(S)
  BY <1>1, SeqDef
<1>3. IsList(s)
  BY <1>2 DEF S, IsList
<1>4. Len(s) \in Nat /\ DOMAIN s = 1 .. Len(s)
  BY <1>3, ListFacts
<1>5. \A k \in Nat : k \in 1 .. n <=> k \in 1 .. Len(s)
  BY <1>1, <1>4
<1>6. Len(s) = n
  BY <1>4, <1>5
<1> QED
  BY <1>1, <1>3, <1>6

LEMMA ListOf ==
  ASSUME NEW S, NEW s \in Seq(S)
  PROVE  IsList(s) /\ Len(s) \in Nat /\ DOMAIN s = 1 .. Len(s) /\ \A i \in DOMAIN s : s[i] \in S
<1>1. Len(s) \in Nat /\ DOMAIN s = 1 .. Len(s) /\ s \in [1 .. Len(s) -> S]
  BY LenProperties
<1>2. s = [i \in 1 .. Len(s) |-> s[i]]
  BY <1>1
<1>3. IsList(s)
  BY <1>1, <1>2, ListIntro
<1> QED
  BY <1>1, <1>3

LEMMA EmptyList == IsList(<<>>) /\ Len(<<>>) = 0 /\ DOMAIN <<>> = {}
<1>1. <<>> \in Seq({<<>>[i] : i \in DOMAIN <<>>}) /\ Len(<<>>) = 0
  BY EmptySeq
<1>2. IsList(<<>>)
  BY <1>1 DEF IsList
<1>3. DOMAIN <<>> = 1 .. 0
  BY <1>1, <1>2, ListFacts
<1> QED
  BY <1>1, <1>2, <1>3

LEMMA OneList ==
  ASSUME NEW e
  PROVE  IsList(<<e>>) /\ Len(<<e>>) = 1 /\ DOMAIN <<e>> = {1} /\ <<e>>[1] = e
<1>1. <<e>> \in Seq({<<e>>[i] : i \in DOMAIN <<e>>}) /\ Len(<<e>>) = 1
  OBVIOUS
<1> QED
  BY <1>1 DEF IsList

LEMMA ListMap ==
  ASSUME NEW s, IsList(s), NEW t, t = [i \in DOMAIN s |-> t[i]]
  PROVE  IsList(t) /\ Len(t) = Len(s) /\ DOMAIN t = DOMAIN s
<1>1. Len(s) \in Nat /\ DOMAIN s = 1 .. Len(s)
  BY ListFacts
<1>2. t = [i \in 1 .. Len(s) |-> t[i]]
  BY <1>1
<1> QED
  BY <1>1, <1>2, ListIntro

LEMMA ListAppend ==
  ASSUME NEW s, IsList(s), NEW e
  PROVE  /\ IsList(Append(s, e)) /\ Len(Append(s, e)) = Len(s) + 1
         /\ DOMAIN Append(s, e) = DOMAIN s \cup {Len(s) + 1}
         /\ Len(s) + 1 \notin DOMAIN s
         /\ \A i \in DOMAIN s : Append(s, e)[i] = s[i]
         /\ Append(s, e)[Len(s) + 1] = e
<1> DEFINE S == {s[i] : i \in DOMAIN s} \cup {e}
<1>1. Len(s) \in Nat /\ DOMAIN s = 1 .. Len(s)
  BY ListFacts
<1>2. s \in Seq(S)
  BY SeqMonotonic DEF IsList
<1>3. e \in S
  OBVIOUS
<1> HIDE DEF S
<1>4. /\ Append(s, e) \in Seq(S) /\ Len(Append(s, e)) = Len(s) + 1
      /\ \A i \in 1 .. Len(s) : Append(s, e)[i] = s[i]
      /\ Append(s, e)[Len(s) + 1] = e
  BY <1>2, <1>3, AppendProperties
<1>5. IsList(Append(s, e)) /\ DOMAIN Append(s, e) = 1 .. Len(Append(s, e))
  BY <1>4, ListOf
<1>6. 1 .. Len(s) + 1 = 1 .. Len(s) \cup {Len(s) + 1}
  BY <1>1
<1> QED
  BY <1>1, <1>4, <1>5, <1>6

LEMMA ListCat ==
  ASSUME NEW s, IsList(s), NEW t, IsList(t)
  PROVE  /\ IsList(s \o t) /\ Len(s \o t) = Len(s) + Len(t)
         /\ DOMAIN (s \o t) = 1 .. Len(s) + Len(t)
         /\ DOMAIN s \subseteq DOMAIN (s \o t)
         /\ \A i \in DOMAIN s : (s \o t)[i] = s[i]
         /\ \A i \in DOMAIN t : Len(s) + i \in DOMAIN (s \o t) /\ (s \o t)[Len(s) + i] = t[i]
         /\ \A i \in DOMAIN (s \o t) \ DOMAIN s : i - Len(s) \in DOMAIN t /\ (s \o t)[i] = t[i - Len(s)]
<1> DEFINE S == {s[i] : i \in DOMAIN s} \cup {t[i] : i \in DOMAIN t}
<1>1. Len(s) \in Nat /\ DOMAIN s = 1 .. Len(s) /\ Len(t) \in Nat /\ DOMAIN t = 1 .. Len(t)
  BY ListFacts
<1>2. s \in Seq(S) /\ t \in Seq(S)
  BY SeqMonotonic DEF IsList
<1> HIDE DEF S
<1>3. /\ s \o t \in Seq(S) /\ Len(s \o t) = Len(s) + Len(t)
      /\ \A i \in 1 .. Len(s) + Len(t) : (s \o t)[i] = IF i <= Len(s) THEN s[i] ELSE t[i - Len(s)]
  BY <1>2, ConcatProperties
<1>4. IsList(s \o t) /\ DOMAIN (s \o t) = 1 .. Len(s \o t)
  BY <1>3, ListOf
<1> DEFINE c == s \o t
<1>5. /\ IsList(c) /\ Len(c) = Len(s) + Len(t) /\ DOMAIN c = 1 .. Len(s) + Len(t)
      /\ \A i \in 1 .. Len(s) + Len(t) : c[i] = IF i <= Len(s) THEN s[i] ELSE t[i - Len(s)]
  BY <1>3, <1>4
<1> HIDE DEF c
<1>6. \A i \in DOMAIN s : i \in DOMAIN c /\ c[i] = s[i]
  BY <1>1, <1>5
<1>7. \A i \in DOMAIN t : Len(s) + i \in DOMAIN c /\ ~(Len(s) + i <= Len(s)) /\ (Len(s) + i) - Len(s) = i
  BY <1>1, <1>5
<1>8. \A i \in DOMAIN t : Len(s) + i \in DOMAIN c /\ c[Len(s) + i] = t[i]
  BY <1>5, <1>7
<1>9. \A i \in DOMAIN c \ DOMAIN s : i - Len(s) \in DOMAIN t /\ c[i] = t[i - Len(s)]
  BY <1>1, <1>5
<1> QED
  BY <1>5, <1>6, <1>8, <1>9 DEF c

LEMMA ListTail ==
  ASSUME NEW s, IsList(s), s # <<>>
  PROVE  /\ Head(s) = s[1] /\ 1 \in DOMAIN s
         /\ IsList(Tail(s)) /\ Len(Tail(s)) = Len(s) - 1 /\ Len(s) >= 1
         /\ \A i \in DOMAIN Tail(s) : i + 1 \in DOMAIN s /\ i + 1 # 1 /\ Tail(s)[i] = s[i + 1]
<1> DEFINE S == {s[i] : i \in DOMAIN s}
<1>1. Len(s) \in Nat /\ Len(s) # 0 /\ DOMAIN s = 1 .. Len(s)
  BY ListFacts
<1>2. s \in Seq(S)
  BY DEF IsList
<1> HIDE DEF S
<1>3. /\ Tail(s) \in Seq(S) /\ Len(Tail(s)) = Len(s) - 1
      /\ \A i \in 1 .. Len(Tail(s)) : Tail(s)[i] = s[i + 1]
  BY <1>2, HeadTailProperties
<1>4. IsList(Tail(s)) /\ DOMAIN Tail(s) = 1 .. Len(Tail(s))
  BY <1>3, ListOf
<1>5. Head(s) = s[1]
  BY <1>1, <1>2
<1> QED
  BY <1>1, <1>3, <1>4, <1>5

LEMMA ListFront ==
  ASSUME NEW s, IsList(s), s # <<>>
  PROVE  /\ IsList(Front(s)) /\ Len(Front(s)) = Len(s) - 1
         /\ \A i \in DOMAIN Front(s) : i \in DOMAIN s /\ i # Len(s) /\ Front(s)[i] = s[i]
<1> DEFINE S == {s[i] : i \in DOMAIN s}
<1>1. Len(s) \in Nat /\ Len(s) # 0 /\ DOMAIN s = 1 .. Len(s)
  BY ListFacts
<1>2. \A i \in 1 .. Len(s) - 1 : s[i] \in S
  BY <1>1
<1> HIDE DEF S
<1>3. /\ Front(s) \in Seq(S)
      /\ Len(Front(s)) = IF 1 <= Len(s) - 1 THEN (Len(s) - 1) - 1 + 1 ELSE 0
      /\ \A i \in 1 .. (Len(s) - 1) - 1 + 1 : Front(s)[i] = s[1 + i - 1]
  BY <1>1, <1>2, SubSeqProperties DEF Front
<1>4. Len(Front(s)) = Len(s) - 1
  <2>1. ASSUME NEW n \in Nat, NEW l, l = IF 1 <= n THEN n - 1 + 1 ELSE 0 PROVE l = n
    BY <2>1
  <2>2. Len(s) - 1 \in Nat
    BY <1>1
  <2> QED
    BY <1>3, <2>1, <2>2
<1>5. IsList(Front(s)) /\ DOMAIN Front(s) = 1 .. Len(Front(s))
  BY <1>3, ListOf
<1>6. \A i \in 1 .. Len(s) - 1 : Front(s)[i] = s[i]
  <2>1. ASSUME NEW i \in 1 .. Len(s) - 1 PROVE Front(s)[i] = s[i]
    <3>1. i \in 1 .. (Len(s) - 1) - 1 + 1 /\ 1 + i - 1 = i
      BY <1>1
    <3>2. Front(s)[i] = s[1 + i - 1]
      BY <1>3, <3>1
    <3> QED
      BY <3>1, <3>2
  <2> QED
    BY <2>1
<1> QED
  BY <1>1, <1>4, <1>5, <1>6
LEMMA Smallest ==
  ASSUME NEW T, T \subseteq Nat, T # {}
  PROVE  \E m \in T : \A n \in T : m <= n
<1>1. PICK m \in T : \A n \in T : <<n, m>> \notin OpToRel(<, Nat)
  BY NatLessThanWellFounded, WFMin, Zenon
<1>2. \A n \in T : ~(n < m)
  BY <1>1, Zenon DEF OpToRel
<1> QED
  BY <1>2

LEMMA Induction ==
  ASSUME NEW T, 0 \in T, \A n \in Nat : n \in T => n + 1 \in T
  PROVE  \A n \in Nat : n \in T
<1> SUFFICES ASSUME Nat \ T # {} PROVE FALSE
  OBVIOUS
<1>1. PICK m \in Nat \ T : \A n \in Nat \ T : m <= n
  BY Smallest
<1>2. m - 1 \in Nat /\ m - 1 \in T
  BY <1>1
<1>3. (m - 1) + 1 = m /\ (m - 1) + 1 \in T
  BY <1>1, <1>2
<1> QED
  BY <1>1, <1>3

\* A finite set that is not empty loses one element with the one it loses.
LEMMA OneLess ==
  ASSUME NEW S, IsFiniteSet(S), S # {}, NEW x \in S
  PROVE  /\ IsFiniteSet(S \ {x}) /\ Cardinality(S) \in Nat /\ Cardinality(S) # 0
         /\ Cardinality(S \ {x}) = Cardinality(S) - 1 /\ Cardinality(S) - 1 \in Nat
<1>1. Cardinality(S) \in Nat
  BY FS_CardinalityType
<1>2. Cardinality(S) # 0
  BY FS_EmptySet
<1>3. IsFiniteSet(S \ {x}) /\ Cardinality(S \ {x}) = Cardinality(S) - 1
  BY FS_RemoveElement
<1> QED
  BY <1>1, <1>2, <1>3

\* The function behind a sum.
Fold(h, f, s) == IF s = {} THEN 0
                 ELSE f[CHOOSE x \in s : TRUE] + h[s \ {CHOOSE x \in s : TRUE}]
IsFold(h, f, S) == h = [s \in SUBSET S |-> Fold(h, f, s)]

LEMMA SumIsFold ==
  ASSUME NEW f, NEW S
  PROVE  SumFunctionOnSet(f, S) = (CHOOSE h : IsFold(h, f, S))[S]
  BY DEF SumFunctionOnSet, FoldFunctionOnSet, MapThenFoldSet, IsFold, Fold

LEMMA FoldExists ==
  ASSUME NEW f, NEW S, IsFiniteSet(S)
  PROVE  \E h : IsFold(h, f, S)
<1> DEFINE UpTo(h, n) == /\ h = [s \in SUBSET S |-> h[s]]
                         /\ \A s \in SUBSET S : Cardinality(s) <= n => h[s] = Fold(h, f, s)
           T == {n \in Nat : \E h : UpTo(h, n)}
<1>1. 0 \in T
  <2> DEFINE z == [s \in SUBSET S |-> 0]
  <2>1. ASSUME NEW s \in SUBSET S, Cardinality(s) <= 0 PROVE s = {}
    <3>1. IsFiniteSet(s) /\ Cardinality(s) \in Nat
      BY FS_Subset, FS_CardinalityType
    <3> QED
      BY <2>1, <3>1, FS_EmptySet
  <2>2. UpTo(z, 0)
    BY <2>1 DEF Fold
  <2> QED
    BY <2>2
<1>2. ASSUME NEW n \in Nat, n \in T PROVE n + 1 \in T
  <2>1. PICK h : UpTo(h, n)
    BY <1>2
  <2> DEFINE g == [s \in SUBSET S |-> IF Cardinality(s) <= n THEN h[s] ELSE Fold(h, f, s)]
  <2>2. ASSUME NEW s \in SUBSET S, Cardinality(s) <= n + 1
        PROVE  g[s] = Fold(g, f, s)
    <3>1. CASE s = {}
      <4>1. Fold(g, f, s) = 0 /\ Fold(h, f, s) = 0
        BY <3>1 DEF Fold
      <4> QED
        BY <2>1, <4>1
    <3>2. CASE s # {}
      <4> DEFINE x == CHOOSE y \in s : TRUE
      <4>1. x \in s
        BY <3>2
      <4>2. IsFiniteSet(s)
        BY FS_Subset
      <4>3. Cardinality(s) \in Nat /\ Cardinality(s \ {x}) = Cardinality(s) - 1
        BY <4>1, <4>2, <3>2, OneLess
      <4>4. Cardinality(s \ {x}) <= n /\ s \ {x} \in SUBSET S
        BY <4>3, <2>2
      <4>5. g[s \ {x}] = h[s \ {x}]
        BY <4>4
      <4>6. Fold(g, f, s) = Fold(h, f, s)
        BY <4>5, Zenon DEF Fold
      <4>7. g[s] = Fold(h, f, s)
        BY <2>1
      <4> QED
        BY <4>6, <4>7
    <3> QED
      BY <3>1, <3>2
  <2>3. UpTo(g, n + 1)
    BY <2>2
  <2>4. \E k : UpTo(k, n + 1)
    <3> HIDE DEF g, UpTo
    <3> QED
      BY <2>3
  <2> HIDE DEF UpTo
  <2> QED
    BY <2>4
<1>3. \A n \in Nat : n \in T
  <2> HIDE DEF T
  <2> QED
    BY <1>1, <1>2, Induction
<1>4. Cardinality(S) \in Nat
  BY FS_CardinalityType
<1>5. PICK h : UpTo(h, Cardinality(S))
  BY <1>3, <1>4
<1>6. \A s \in SUBSET S : Cardinality(s) <= Cardinality(S)
  BY FS_Subset
<1>7. \A s \in SUBSET S : h[s] = Fold(h, f, s)
  BY <1>5, <1>6
<1>8. IsFold(h, f, S)
  BY <1>5, <1>7 DEF IsFold
<1> QED
  BY <1>8

\* What is added first does not change what comes of the rest.
LEMMA FoldUnique ==
  ASSUME NEW f, NEW S, NEW R, IsFiniteSet(S), R \subseteq S,
         NEW g, NEW h, IsFold(g, f, S), IsFold(h, f, R)
  PROVE  g[R] = h[R]
<1> DEFINE T == {n \in Nat : \A s \in SUBSET R : Cardinality(s) = n => g[s] = h[s]}
<1>1. \A s \in SUBSET R : g[s] = Fold(g, f, s) /\ h[s] = Fold(h, f, s)
  BY DEF IsFold
<1>2. \A s \in SUBSET R : IsFiniteSet(s) /\ Cardinality(s) \in Nat
  <2>1. \A s \in SUBSET S : IsFiniteSet(s)
    BY FS_Subset
  <2> QED
    BY <2>1, FS_CardinalityType
<1>3. 0 \in T
  <2>1. ASSUME NEW s \in SUBSET R, Cardinality(s) = 0 PROVE g[s] = h[s]
    <3>1. s = {}
      BY <2>1, <1>2, FS_EmptySet
    <3> QED
      BY <3>1, <1>1 DEF Fold
  <2> QED
    BY <2>1
<1>4. ASSUME NEW n \in Nat, n \in T PROVE n + 1 \in T
  <2>1. ASSUME NEW s \in SUBSET R, Cardinality(s) = n + 1 PROVE g[s] = h[s]
    <3> DEFINE x == CHOOSE y \in s : TRUE
    <3>1. s # {}
      BY <2>1, FS_EmptySet
    <3>2. x \in s
      BY <3>1
    <3>3. Cardinality(s \ {x}) = n
      <4>1. Cardinality(s \ {x}) = Cardinality(s) - 1
        BY <3>1, <3>2, <1>2, OneLess
      <4> QED
        BY <4>1, <2>1
    <3>4. g[s \ {x}] = h[s \ {x}]
      BY <3>3, <1>4
    <3>5. Fold(g, f, s) = Fold(h, f, s)
      BY <3>4, Zenon DEF Fold
    <3> QED
      BY <3>5, <1>1
  <2> QED
    BY <2>1
<1>5. \A n \in Nat : n \in T
  <2> HIDE DEF T
  <2> QED
    BY <1>3, <1>4, Induction
<1>6. Cardinality(R) \in Nat
  BY <1>2
<1> QED
  BY <1>5, <1>6

\* The sum over no element, and over one more.
LEMMA SumChosen ==
  ASSUME NEW f, NEW S, IsFiniteSet(S)
  PROVE  SumFunctionOnSet(f, S) =
           IF S = {} THEN 0
           ELSE LET x == CHOOSE y \in S : TRUE IN f[x] + SumFunctionOnSet(f, S \ {x})
<1> DEFINE x == CHOOSE y \in S : TRUE
           g == CHOOSE h : IsFold(h, f, S)
           k == CHOOSE h : IsFold(h, f, S \ {x})
<1>1. IsFold(g, f, S)
  BY FoldExists
<1>2. IsFiniteSet(S \ {x})
  BY FS_RemoveElement
<1>3. IsFold(k, f, S \ {x})
  BY <1>2, FoldExists
<1>4. SumFunctionOnSet(f, S) = g[S] /\ SumFunctionOnSet(f, S \ {x}) = k[S \ {x}]
  BY SumIsFold
<1> HIDE DEF g, k
<1>5. g[S \ {x}] = k[S \ {x}]
  BY <1>1, <1>3, FoldUnique
<1>6. g[S] = Fold(g, f, S)
  BY <1>1 DEF IsFold
<1> QED
  BY <1>4, <1>5, <1>6 DEF Fold


\* A sum of integers is one; of naturals, one that is not less than any of them.
LEMMA SumType ==
  ASSUME NEW f, NEW S, IsFiniteSet(S), \A x \in S : f[x] \in Int
  PROVE  /\ SumFunctionOnSet(f, S) \in Int
         /\ (\A x \in S : f[x] >= 0) => \A x \in S : SumFunctionOnSet(f, S) >= f[x]
         /\ (\A x \in S : f[x] >= 0) => SumFunctionOnSet(f, S) >= 0
<1> DEFINE Typed(s) == /\ SumFunctionOnSet(f, s) \in Int
                       /\ (\A x \in S : f[x] >= 0) => SumFunctionOnSet(f, s) >= 0
                       /\ (\A x \in S : f[x] >= 0) => \A x \in s : SumFunctionOnSet(f, s) >= f[x]
           T == {n \in Nat : \A s \in SUBSET S : Cardinality(s) = n => Typed(s)}
<1>1. \A s \in SUBSET S : IsFiniteSet(s) /\ Cardinality(s) \in Nat
  <2>1. \A s \in SUBSET S : IsFiniteSet(s)
    BY FS_Subset
  <2> QED
    BY <2>1, FS_CardinalityType
<1>2. 0 \in T
  <2>1. ASSUME NEW s \in SUBSET S, Cardinality(s) = 0 PROVE Typed(s)
    <3>1. s = {}
      BY <2>1, <1>1, FS_EmptySet
    <3>2. SumFunctionOnSet(f, s) = 0
      BY <3>1, <1>1, SumChosen
    <3> QED
      BY <3>1, <3>2
  <2> QED
    BY <2>1
<1>3. ASSUME NEW n \in Nat, n \in T PROVE n + 1 \in T
  <2>1. ASSUME NEW s \in SUBSET S, Cardinality(s) = n + 1 PROVE Typed(s)
    <3> DEFINE x == CHOOSE y \in s : TRUE
    <3>1. s # {}
      BY <2>1, FS_EmptySet
    <3>2. x \in s
      BY <3>1
    <3>3. Cardinality(s \ {x}) = n
      <4>1. Cardinality(s \ {x}) = Cardinality(s) - 1
        BY <3>1, <3>2, <1>1, OneLess
      <4> QED
        BY <4>1, <2>1
    <3>4. Typed(s \ {x})
      <4>1. s \ {x} \in SUBSET S
        OBVIOUS
      <4> HIDE DEF Typed, x
      <4> QED
        BY <3>3, <1>3, <4>1
    <3>5. SumFunctionOnSet(f, s) = f[x] + SumFunctionOnSet(f, s \ {x})
      BY <3>1, <1>1, SumChosen
    <3> HIDE DEF x
    <3> QED
      BY <3>2, <3>4, <3>5
  <2> HIDE DEF Typed
  <2> QED
    BY <2>1
<1>4. \A n \in Nat : n \in T
  <2> HIDE DEF T
  <2> QED
    BY <1>2, <1>3, Induction
<1>5. Cardinality(S) \in Nat
  BY <1>1
<1>6. Typed(S)
  <2> HIDE DEF Typed
  <2> QED
    BY <1>4, <1>5
<1> QED
  BY <1>6

Picks(h, s, among, n) ==
  h = [i \in 0 .. n |-> IF i = 0 THEN <<>>
                        ELSE IF s[i] \in among THEN Append(h[i - 1], s[i]) ELSE h[i - 1]]

LEMMA PicksExist ==
  ASSUME NEW s, NEW among
  PROVE  \A n \in Nat : \E h : Picks(h, s, among, n)
<1> DEFINE T == {n \in Nat : \E h : Picks(h, s, among, n)}
<1>1. 0 \in T
  <2>1. Picks([i \in 0 .. 0 |-> <<>>], s, among, 0)
    BY DEF Picks
  <2> QED
    BY <2>1
<1>2. ASSUME NEW n \in Nat, n \in T PROVE n + 1 \in T
  <2>1. PICK h : Picks(h, s, among, n)
    BY <1>2
  <2> DEFINE last == IF s[n + 1] \in among THEN Append(h[n], s[n + 1]) ELSE h[n]
             g == [i \in 0 .. n + 1 |-> IF i = n + 1 THEN last ELSE h[i]]
  <2>2. ASSUME NEW i \in 0 .. n + 1
        PROVE  g[i] = IF i = 0 THEN <<>>
                      ELSE IF s[i] \in among THEN Append(g[i - 1], s[i]) ELSE g[i - 1]
    <3>1. CASE i = n + 1
      <4>1. i - 1 = n /\ i # 0 /\ g[i - 1] = h[n]
        BY <3>1
      <4>2. g[i] = last
        BY <3>1
      <4> HIDE DEF g
      <4> QED
        BY <3>1, <4>1, <4>2
    <3>2. CASE i \in 0 .. n
      <4>1. h[i] = IF i = 0 THEN <<>>
                   ELSE IF s[i] \in among THEN Append(h[i - 1], s[i]) ELSE h[i - 1]
        BY <2>1, <3>2 DEF Picks
      <4>2. g[i] = h[i] /\ (i # 0 => g[i - 1] = h[i - 1])
        BY <3>2
      <4> HIDE DEF g
      <4> QED
        BY <4>1, <4>2
    <3> QED
      BY <3>1, <3>2
  <2>3. Picks(g, s, among, n + 1)
    BY <2>2 DEF Picks
  <2> HIDE DEF g
  <2> QED
    BY <2>3
<1> HIDE DEF T
<1>3. \A n \in Nat : n \in T
  BY <1>1, <1>2, Induction
<1> QED
  BY <1>3 DEF T

\* What is chosen is of the list and among the items asked for, and nothing twice
\* that the list does not hold twice.
LEMMA ChosenList ==
  ASSUME NEW s, IsList(s), NEW among
  PROVE  LET c == Chosen(s, among) IN
         /\ IsList(c)
         /\ \A k \in DOMAIN c : c[k] \in among /\ \E j \in DOMAIN s : c[k] = s[j]
         /\ (\A j, m \in DOMAIN s : s[j] = s[m] => j = m)
              => \A k, m \in DOMAIN c : c[k] = c[m] => k = m
<1> DEFINE h == CHOOSE g : Picks(g, s, among, Len(s))
           Once == \A j, m \in DOMAIN s : s[j] = s[m] => j = m
           Fine(n) == /\ IsList(h[n])
                      /\ \A k \in DOMAIN h[n] : /\ h[n][k] \in among
                                                /\ \E j \in 1 .. n : h[n][k] = s[j]
                      /\ Once => \A k, m \in DOMAIN h[n] : h[n][k] = h[n][m] => k = m
           T == {n \in Nat : n <= Len(s) => Fine(n)}
<1>1. Len(s) \in Nat /\ DOMAIN s = 1 .. Len(s)
  BY ListFacts
<1>2. Picks(h, s, among, Len(s))
  BY <1>1, PicksExist
<1>3. Chosen(s, among) = h[Len(s)]
  BY DEF Chosen, Picks
<1> HIDE DEF h
<1>4. /\ h[0] = <<>>
      /\ \A i \in 1 .. Len(s) : h[i] = IF s[i] \in among THEN Append(h[i - 1], s[i]) ELSE h[i - 1]
  <2>1. \A i \in 0 .. Len(s) : h[i] = IF i = 0 THEN <<>>
          ELSE IF s[i] \in among THEN Append(h[i - 1], s[i]) ELSE h[i - 1]
    BY <1>2 DEF Picks
  <2>2. 0 \in 0 .. Len(s) /\ \A i \in 1 .. Len(s) : i \in 0 .. Len(s) /\ i # 0
    BY <1>1
  <2> QED
    BY <2>1, <2>2
<1>5. 0 \in T
  BY <1>4, EmptyList
<1>6. ASSUME NEW n \in Nat, n \in T PROVE n + 1 \in T
  <2> SUFFICES ASSUME n + 1 <= Len(s) PROVE Fine(n + 1)
    BY <1>1
  <2>1. Fine(n) /\ n + 1 \in 1 .. Len(s) /\ (n + 1) - 1 = n
    BY <1>1, <1>6
  <2> DEFINE b == h[n]  c == h[n + 1]  e == s[n + 1]
  <2>2. c = IF e \in among THEN Append(b, e) ELSE b
    BY <1>4, <2>1
  <2>3. /\ IsList(b)
        /\ \A k \in DOMAIN b : b[k] \in among /\ \E j \in 1 .. n : b[k] = s[j]
        /\ Once => \A k, m \in DOMAIN b : b[k] = b[m] => k = m
    BY <2>1
  <2>4. \A j \in 1 .. n : j \in 1 .. n + 1
    BY <2>1
  <2>5. Once => \A j \in 1 .. n : s[j] # e
    BY <1>1, <2>1
  <2> HIDE DEF Once, b, c
  <2>6. CASE e \notin among
    BY <2>2, <2>3, <2>4, <2>6 DEF b, c
  <2>7. CASE e \in among
    <3>1. /\ IsList(c) /\ DOMAIN c = DOMAIN b \cup {Len(b) + 1}
          /\ \A i \in DOMAIN b : c[i] = b[i]
          /\ c[Len(b) + 1] = e
      BY <2>2, <2>3, <2>7, ListAppend
    <3>2. n + 1 \in 1 .. n + 1
      BY <2>1
    <3> DEFINE l == Len(b) + 1
    <3> HIDE DEF e, l
    <3>3. \A k \in DOMAIN c : c[k] \in among /\ \E j \in 1 .. n + 1 : c[k] = s[j]
      BY <2>3, <2>4, <2>7, <3>1, <3>2 DEF e, l
    <3>4. ASSUME Once, NEW k \in DOMAIN c, NEW m \in DOMAIN c, c[k] = c[m] PROVE k = m
      BY <2>3, <2>5, <3>1, <3>4 DEF l
    <3> QED
      BY <3>1, <3>3, <3>4 DEF c
  <2> QED
    BY <2>6, <2>7
<1>7. Fine(Len(s))
  <2> HIDE DEF T, Fine
  <2>1. Len(s) \in T
    BY <1>1, <1>5, <1>6, Induction
  <2> QED
    BY <1>1, <2>1 DEF T
<1> QED
  BY <1>1, <1>3, <1>7
-----------------------------------------------------------------------------
(* The invariant.  What the ledger holds is said of a ledger, since the    *)
(* handlers compute with ledgers they have not written yet.                *)

LedgerFields ==
  {"organizations", "formations", "sources", "pools", "reserves", "demobilized", "expected"}
OrganizationFields == {"kind", "status", "members", "resources", "party", "branches"}
FormationFields ==
  {"organization", "locality", "personnel", "stock", "capacity", "effective", "moving", "outside"}
SourceFields == {"organization", "locality", "stock"}
OrderFields == {"formation", "destination", "cost", "purpose", "status"}
InterventionFields == {"state", "status", "force"}
AgreementFields == {"status", "signatories", "progress"}

\* Lists of complete records.
Organizations(orgs) ==
  /\ IsList(orgs) /\ DOMAIN orgs \subseteq 1 .. MaxOrganizations
  /\ \A o \in DOMAIN orgs : DOMAIN orgs[o] = OrganizationFields /\ orgs[o].resources \in Int
Formations(forms) ==
  /\ IsList(forms)
  /\ \A f \in DOMAIN forms : /\ DOMAIN forms[f] = FormationFields
                             /\ forms[f].moving \in BOOLEAN /\ forms[f].outside \in BOOLEAN
                             /\ forms[f].locality \in Localities /\ forms[f].personnel \in Int
Sources(stores) ==
  /\ IsList(stores)
  /\ \A s \in DOMAIN stores : DOMAIN stores[s] = SourceFields /\ stores[s].locality \in Localities

Sound(w) ==
  /\ DOMAIN w = LedgerFields
  /\ Organizations(w.organizations) /\ Formations(w.formations) /\ Sources(w.sources)
  /\ w.pools \in [Keys -> Int] /\ w.reserves \in [Keys -> Int]

\* Who is not active has nothing unfielded; and who is gone has nothing at all.
Clean(w) ==
  /\ \A k \in Keys : k[1] \notin ActiveOf(w.organizations) => w.pools[k] = 0 /\ w.reserves[k] = 0
  /\ \A o \in DOMAIN w.organizations :
       /\ w.organizations[o].status \in {"fragmented", "merged"} =>
            /\ w.organizations[o].kind = "insurgent" /\ w.organizations[o].resources = 0
            /\ \A f \in DOMAIN w.formations : w.formations[f].organization # o
            /\ \A s \in DOMAIN w.sources : w.sources[s].organization # o
       /\ w.organizations[o].status \in {"fragmented", "merged", "collapsed"} =>
            w.organizations[o].members = {}

\* A person has an organization exactly when it has a fraction in it, and is on its
\* list, whatever became of it; only while the ecology runs, or when an agreement
\* revived an organization another had settled, may a list hold others as well.
Disjoint == \A a, b \in DOMAIN agreements :
              a # b => agreements[a].signatories \cap agreements[b].signatories = {}
Belong ==
  /\ people \in [Persons -> [organization: Nat, fraction: Nat]]
  /\ \A p \in Persons : (people[p].fraction > 0) = (people[p].organization # NoOrganization)
  /\ \A p \in Persons : people[p].organization # NoOrganization =>
       /\ people[p].organization \in DOMAIN organizations
       /\ p \in organizations[people[p].organization].members
  /\ protos \in [DOMAIN Community -> [founders: SUBSET Persons, fraction: Nat]]
  /\ \A c \in DOMAIN Community : protos[c].founders # {} => protos[c].fraction > 0
  /\ handler # "ecology" /\ Disjoint => \A o \in ActiveOf(organizations) :
       organizations[o].members \subseteq {p \in Persons : people[p].organization = o}

\* Who marches, marches under one order; and one shipment is under way to each.
Marches ==
  /\ \A i \in DOMAIN orders : /\ DOMAIN orders[i] = OrderFields
                              /\ orders[i].formation \in DOMAIN formations
                              /\ orders[i].destination \in Localities
  /\ \A i, k \in DOMAIN orders :
       orders[i].status = "moving" /\ orders[k].status = "moving"
         /\ orders[i].formation = orders[k].formation => i = k
  /\ \A f \in DOMAIN formations :
       formations[f].moving
         <=> \E i \in DOMAIN orders : orders[i].formation = f /\ orders[i].status = "moving"
  /\ \A s, t \in DOMAIN shipments : shipments[s].formation = shipments[t].formation => s = t

\* The forces are formations of foreign organizations, each of one intervention; who is
\* out belongs to one, stands behind its border and does not march; and when an
\* intervention is over, its force is out.
Foreigners(orgs) == {o \in DOMAIN orgs : orgs[o].kind = "foreign"}
Forced ==
  /\ IsList(interventions)
  /\ \A i \in DOMAIN interventions :
       /\ DOMAIN interventions[i] = InterventionFields
       /\ interventions[i].state \in DOMAIN ForeignStates
       /\ \A f \in interventions[i].force :
            /\ f \in DOMAIN formations
            /\ formations[f].organization \in Foreigners(organizations)
       /\ interventions[i].status = "withdrawn" =>
            \A f \in interventions[i].force : formations[f].outside
  /\ \A i, k \in DOMAIN interventions :
       \A f \in interventions[i].force : f \in interventions[k].force => i = k
  /\ \A f \in DOMAIN formations : formations[f].outside =>
       /\ ~formations[f].moving
       /\ \E i \in DOMAIN interventions :
            f \in interventions[i].force /\ formations[f].locality = Border[interventions[i].state]

\* Those who negotiate and sign are insurgents.
Insurgents(orgs) == {o \in DOMAIN orgs : orgs[o].kind = "insurgent"}
Seated ==
  /\ negotiation \subseteq Insurgents(organizations)
  /\ IsList(agreements)
  /\ \A a \in DOMAIN agreements : /\ DOMAIN agreements[a] = AgreementFields
                                  /\ agreements[a].signatories \subseteq Insurgents(organizations)

\* What is still to be visited: each ongoing agreement once; and each active
\* organization once, before the merger that ends the tick.
Visits ==
  /\ handler \in {"peace", "ecology"} => IsList(pending)
  /\ handler = "peace" =>
       /\ \A k \in DOMAIN pending : \E a \in DOMAIN agreements :
            pending[k] = <<"implement", a>> /\ Ongoing(agreements[a])
       /\ \A k, m \in DOMAIN pending : pending[k] = pending[m] => k = m
  /\ handler = "ecology" =>
       /\ pending # <<>>
       /\ \A k \in DOMAIN pending : pending[k] = <<"merge", 0>> <=> k = Len(pending)
       /\ \A k \in DOMAIN pending : \A o : pending[k] = <<"lifecycle", o>> =>
            o \in ActiveOf(organizations) /\ \A m \in DOMAIN pending : pending[m] = pending[k] => m = k

Inv ==
  /\ Sound(Ledger) /\ Clean(Ledger) /\ Belong
  /\ Marches /\ Forced /\ Seated /\ Visits /\ SettlementsStand

-----------------------------------------------------------------------------
(* What the operators on ledgers keep.                                     *)

\* Formations keep their place and their march; those of the organizations F keep
\* their owner, and nobody leaves one of them that is out.
Kept(F, f, g) ==
  /\ g.moving = f.moving /\ g.outside = f.outside /\ g.locality = f.locality
  /\ f.organization \in F => /\ g.organization = f.organization
                             /\ f.outside => g.personnel = f.personnel

\* Nothing is taken from the lists of a ledger, and what is new is at rest, inside.
Grows(F, v, w) ==
  /\ DOMAIN v.organizations \subseteq DOMAIN w.organizations
  /\ \A o \in DOMAIN v.organizations : w.organizations[o].kind = v.organizations[o].kind
  /\ DOMAIN v.formations \subseteq DOMAIN w.formations
  /\ \A f \in DOMAIN v.formations : Kept(F, v.formations[f], w.formations[f])
  /\ \A f \in DOMAIN w.formations \ DOMAIN v.formations :
       ~w.formations[f].moving /\ ~w.formations[f].outside

\* The organizations are those they were.
Ranks(v, w) ==
  /\ DOMAIN w.organizations = DOMAIN v.organizations
  /\ \A o \in DOMAIN v.organizations : /\ w.organizations[o].kind = v.organizations[o].kind
                                       /\ w.organizations[o].status = v.organizations[o].status

LEMMA GrowsTransitive ==
  ASSUME NEW F, NEW u, NEW v, NEW w, Grows(F, u, v), Grows(F, v, w)
  PROVE  Grows(F, u, w)
  BY DEF Grows, Kept

LEMMA RanksActive ==
  ASSUME NEW v, NEW w, Ranks(v, w)
  PROVE  ActiveOf(w.organizations) = ActiveOf(v.organizations)
  BY DEF Ranks, ActiveOf

\* No one gets what it had not, but those who are active.
LEMMA CleanStep ==
  ASSUME NEW v, NEW w, Clean(v), Ranks(v, w),
         \A k \in Keys : k[1] \notin ActiveOf(v.organizations) =>
           w.pools[k] = v.pools[k] /\ w.reserves[k] = v.reserves[k],
         \A o \in DOMAIN v.organizations : o \notin ActiveOf(v.organizations) =>
           /\ v.organizations[o].resources = 0 => w.organizations[o].resources = 0
           /\ v.organizations[o].members = {} => w.organizations[o].members = {},
         \A f \in DOMAIN w.formations :
           \/ w.formations[f].organization \in ActiveOf(v.organizations)
           \/ \E g \in DOMAIN v.formations :
                w.formations[f].organization = v.formations[g].organization,
         \A s \in DOMAIN w.sources : \E t \in DOMAIN v.sources :
           w.sources[s].organization = v.sources[t].organization
  PROVE  Clean(w)
<1>1. ActiveOf(w.organizations) = ActiveOf(v.organizations)
  BY RanksActive
<1>2. \A o \in ActiveOf(v.organizations) : v.organizations[o].status = "active"
  BY DEF ActiveOf
<1>3. \A k \in Keys : k[1] \notin ActiveOf(w.organizations) => w.pools[k] = 0 /\ w.reserves[k] = 0
  BY <1>1 DEF Clean
<1>4. ASSUME NEW o \in DOMAIN w.organizations
      PROVE  /\ w.organizations[o].status \in {"fragmented", "merged"} =>
                  /\ w.organizations[o].kind = "insurgent" /\ w.organizations[o].resources = 0
                  /\ \A f \in DOMAIN w.formations : w.formations[f].organization # o
                  /\ \A s \in DOMAIN w.sources : w.sources[s].organization # o
             /\ w.organizations[o].status \in {"fragmented", "merged", "collapsed"} =>
                  w.organizations[o].members = {}
  <2>1. /\ o \in DOMAIN v.organizations
        /\ w.organizations[o].status = v.organizations[o].status
        /\ w.organizations[o].kind = v.organizations[o].kind
    BY <1>4 DEF Ranks
  <2>2. w.organizations[o].status \in {"fragmented", "merged", "collapsed"} =>
          o \notin ActiveOf(v.organizations)
    BY <1>2, <2>1
  <2>3. w.organizations[o].status \in {"fragmented", "merged", "collapsed"} =>
          w.organizations[o].members = {}
    BY <2>1, <2>2 DEF Clean
  <2>4. ASSUME w.organizations[o].status \in {"fragmented", "merged"}
        PROVE  /\ w.organizations[o].kind = "insurgent" /\ w.organizations[o].resources = 0
               /\ \A f \in DOMAIN w.formations : w.formations[f].organization # o
               /\ \A s \in DOMAIN w.sources : w.sources[s].organization # o
    <3>1. o \notin ActiveOf(v.organizations)
      BY <2>2, <2>4
    <3>2. /\ v.organizations[o].kind = "insurgent" /\ v.organizations[o].resources = 0
          /\ \A f \in DOMAIN v.formations : v.formations[f].organization # o
          /\ \A s \in DOMAIN v.sources : v.sources[s].organization # o
      BY <2>1, <2>4 DEF Clean
    <3> QED
      BY <2>1, <3>1, <3>2
  <2> QED
    BY <2>3, <2>4
<1> QED
  BY <1>3, <1>4 DEF Clean

\* Lists and members of organizations, anew.
LEMMA NewOrganizations ==
  ASSUME NEW w, Sound(w), NEW orgs, Organizations(orgs)
  PROVE  LET v == [w EXCEPT !.organizations = orgs] IN
         /\ Sound(v) /\ v.organizations = orgs /\ v.formations = w.formations
         /\ v.sources = w.sources /\ v.pools = w.pools /\ v.reserves = w.reserves
         /\ v.expected = w.expected
  BY DEF Sound, LedgerFields

Following(who, o) == {p \in Persons : who[p].organization = o}

LEMMA SynchronizedLedger ==
  ASSUME NEW w, Sound(w), Clean(w), NEW who, NEW v, v = Synchronized(w, who)
  PROVE  /\ Sound(v) /\ Clean(v) /\ (\A F : Grows(F, w, v)) /\ Ranks(w, v)
         /\ \A o \in DOMAIN w.organizations : v.organizations[o].members =
              IF o \in ActiveOf(w.organizations) THEN Following(who, o)
              ELSE w.organizations[o].members
<1> DEFINE orgs == [o \in DOMAIN w.organizations |->
               IF o \in ActiveOf(w.organizations)
               THEN [w.organizations[o] EXCEPT !.members = {p \in Persons : who[p].organization = o}]
               ELSE w.organizations[o]]
<1>1. v = [w EXCEPT !.organizations = orgs]
  BY DEF Synchronized, Sound, LedgerFields
<1>2. \A o \in DOMAIN w.organizations :
        /\ DOMAIN orgs[o] = OrganizationFields /\ orgs[o].resources = w.organizations[o].resources
        /\ orgs[o].kind = w.organizations[o].kind /\ orgs[o].status = w.organizations[o].status
        /\ orgs[o].members = IF o \in ActiveOf(w.organizations)
                             THEN Following(who, o)
                             ELSE w.organizations[o].members
  BY DEF Sound, Organizations, OrganizationFields, Following
<1>3. IsList(orgs) /\ DOMAIN orgs = DOMAIN w.organizations
  BY ListMap DEF Sound, Organizations
<1> HIDE DEF orgs
<1>4. Organizations(orgs)
  BY <1>2, <1>3 DEF Sound, Organizations
<1>5. /\ Sound(v) /\ v.organizations = orgs /\ v.formations = w.formations
      /\ v.sources = w.sources /\ v.pools = w.pools /\ v.reserves = w.reserves
  BY <1>1, <1>4, NewOrganizations
<1>6. (\A F : Grows(F, w, v)) /\ Ranks(w, v)
  BY <1>2, <1>3, <1>5 DEF Grows, Kept, Ranks
<1>7. \A o \in DOMAIN w.organizations : o \notin ActiveOf(w.organizations) =>
        /\ v.organizations[o].resources = w.organizations[o].resources
        /\ v.organizations[o].members = w.organizations[o].members
  BY <1>2, <1>5
<1>8. Clean(v)
  BY <1>5, <1>6, <1>7, CleanStep
<1> QED
  BY <1>2, <1>3, <1>5, <1>6, <1>8

\* Fighters are counted in whole numbers, so that the formations they make are a list.
LEMMA LeastInt ==
  ASSUME NEW a \in Int, NEW b \in Int
  PROVE  Least(a, b) \in Int /\ Greatest(a, b) \in Int /\ a - Least(a, b) \in Nat
  BY DEF Least, Greatest

LEMMA NewSizesList ==
  ASSUME NEW n \in Nat
  PROVE  IsList(NewSizes(n)) /\ \A i \in DOMAIN NewSizes(n) : NewSizes(n)[i] \in Int
<1> DEFINE full == [i \in 1 .. (n \div TargetPersonnel) |-> TargetPersonnel]
           rest == IF n % TargetPersonnel < MinimumPersonnel THEN <<>> ELSE <<n % TargetPersonnel>>
<1>1. TargetPersonnel \in Nat /\ TargetPersonnel > 0
  BY EcologyAssumption
<1>2. n \div TargetPersonnel \in Nat /\ n % TargetPersonnel \in Int
  BY <1>1
<1>3. IsList(full) /\ \A i \in DOMAIN full : full[i] \in Int
  BY <1>1, <1>2, ListIntro
<1>4. IsList(rest) /\ \A i \in DOMAIN rest : rest[i] \in Int
  BY <1>2, EmptyList, OneList
<1> HIDE DEF full, rest
<1>5. IsList(full \o rest) /\ \A i \in DOMAIN (full \o rest) : (full \o rest)[i] \in Int
  BY <1>3, <1>4, ListCat
<1> QED
  BY <1>5 DEF NewSizes, full, rest

\* Whatever is added to or taken from it, a formation stays what it is.
SameFormation(f, g) ==
  /\ DOMAIN g = FormationFields /\ g.organization = f.organization /\ g.locality = f.locality
  /\ g.moving = f.moving /\ g.outside = f.outside /\ g.personnel \in Int

LEMMA ReinforcedFormation ==
  ASSUME NEW f, DOMAIN f = FormationFields, f.personnel \in Int, NEW n \in Int
  PROVE  SameFormation(f, Reinforced(f, n))
  BY DEF SameFormation, Reinforced, Resized, FormationFields

LEMMA FreshFormation ==
  ASSUME NEW o, NEW l, NEW n \in Int, NEW stock
  PROVE  LET f == Fresh(o, l, n, stock) IN
         /\ DOMAIN f = FormationFields /\ f.organization = o /\ f.locality = l
         /\ ~f.moving /\ ~f.outside /\ f.moving \in BOOLEAN /\ f.outside \in BOOLEAN /\ f.personnel = n
  BY DEF Fresh, Resized, FormationFields

\* The formations, after fighters came to those here and new ones were made.
Fielded(forms, o, l, here, gain, sizes) ==
  [f \in DOMAIN forms |-> IF f \in here THEN Reinforced(forms[f], gain[f]) ELSE forms[f]]
    \o [i \in DOMAIN sizes |-> Fresh(o, l, sizes[i], sizes[i])]

LEMMA FormationsFielded ==
  ASSUME NEW F, NEW forms, Formations(forms), NEW o, NEW l \in Localities, NEW here, NEW gain, NEW sizes,
         \A f \in here : gain[f] \in Int,
         IsList(sizes), \A i \in DOMAIN sizes : sizes[i] \in Int
  PROVE  LET after == Fielded(forms, o, l, here, gain, sizes) IN
            /\ Formations(after) /\ DOMAIN forms \subseteq DOMAIN after
            /\ \A f \in DOMAIN forms : /\ SameFormation(forms[f], after[f])
                                       /\ f \notin here => after[f] = forms[f]
            /\ \A f \in DOMAIN after \ DOMAIN forms :
                 after[f].organization = o /\ ~after[f].moving /\ ~after[f].outside
<1> DEFINE old == [f \in DOMAIN forms |-> IF f \in here THEN Reinforced(forms[f], gain[f])
                                          ELSE forms[f]]
           new == [i \in DOMAIN sizes |-> Fresh(o, l, sizes[i], sizes[i])]
           after == old \o new
<1>1. IsList(old) /\ DOMAIN old = DOMAIN forms /\ IsList(new) /\ DOMAIN new = DOMAIN sizes
  BY ListMap DEF Formations
<1>2. \A f \in DOMAIN forms : SameFormation(forms[f], old[f]) /\ (f \notin here => old[f] = forms[f])
  <2>1. ASSUME NEW f \in DOMAIN forms
        PROVE  SameFormation(forms[f], old[f]) /\ (f \notin here => old[f] = forms[f])
    <3>1. DOMAIN forms[f] = FormationFields /\ forms[f].personnel \in Int
      BY DEF Formations
    <3>2. CASE f \in here
      <4>1. SameFormation(forms[f], Reinforced(forms[f], gain[f]))
        BY <3>1, <3>2, ReinforcedFormation
      <4> QED
        BY <3>2, <4>1
    <3>3. CASE f \notin here
      BY <3>1, <3>3 DEF SameFormation
    <3> QED
      BY <3>2, <3>3
  <2> QED
    BY <2>1
<1>3. \A i \in DOMAIN sizes : /\ DOMAIN new[i] = FormationFields /\ new[i].organization = o
                              /\ ~new[i].moving /\ ~new[i].outside
                              /\ new[i].moving \in BOOLEAN /\ new[i].outside \in BOOLEAN
                              /\ new[i].personnel \in Int /\ new[i].locality = l
  <2>1. ASSUME NEW i \in DOMAIN sizes
        PROVE  /\ DOMAIN new[i] = FormationFields /\ new[i].organization = o
               /\ ~new[i].moving /\ ~new[i].outside
                              /\ new[i].moving \in BOOLEAN /\ new[i].outside \in BOOLEAN /\ new[i].personnel \in Int /\ new[i].locality = l
    <3>1. new[i] = Fresh(o, l, sizes[i], sizes[i]) /\ sizes[i] \in Int
      OBVIOUS
    <3> DEFINE f == Fresh(o, l, sizes[i], sizes[i])
    <3>2. /\ DOMAIN f = FormationFields /\ f.organization = o
          /\ ~f.moving /\ ~f.outside /\ f.moving \in BOOLEAN /\ f.outside \in BOOLEAN
          /\ f.personnel = sizes[i] /\ f.locality = l
      BY <3>1, FreshFormation
    <3> HIDE DEF new, f
    <3> QED
      BY <3>1, <3>2 DEF f
  <2> QED
    BY <2>1
<1> HIDE DEF old, new
<1>4. /\ IsList(after) /\ DOMAIN old \subseteq DOMAIN after
      /\ \A f \in DOMAIN old : after[f] = old[f]
      /\ \A f \in DOMAIN after \ DOMAIN old : f - Len(old) \in DOMAIN new
                                              /\ after[f] = new[f - Len(old)]
  BY <1>1, ListCat
<1> HIDE DEF after
<1>5. \A f \in DOMAIN forms : SameFormation(forms[f], after[f]) /\ (f \notin here => after[f] = forms[f])
  BY <1>1, <1>2, <1>4
<1>6. \A f \in DOMAIN after \ DOMAIN forms :
        /\ DOMAIN after[f] = FormationFields /\ after[f].organization = o
        /\ ~after[f].moving /\ ~after[f].outside
        /\ after[f].moving \in BOOLEAN /\ after[f].outside \in BOOLEAN
        /\ after[f].personnel \in Int /\ after[f].locality = l
  BY <1>1, <1>3, <1>4
<1>7. \A f \in DOMAIN after : /\ DOMAIN after[f] = FormationFields /\ after[f].personnel \in Int
                              /\ after[f].locality \in Localities
                              /\ after[f].moving \in BOOLEAN /\ after[f].outside \in BOOLEAN
  BY <1>5, <1>6 DEF SameFormation, Formations
<1> QED
  BY <1>1, <1>4, <1>5, <1>6, <1>7 DEF after, old, new, Fielded, Formations

\* The parts of AddFighters.
Pooled(w, o, l, n) == w.pools[<<o, l>>] + n
Converted(w, o, l, n) ==
  Least(Greatest(Pooled(w, o, l, n), w.reserves[<<o, l>>]) - w.reserves[<<o, l>>],
        w.organizations[o].resources)
EquippedOf(w, o, l, n) == Least(Pooled(w, o, l, n), w.reserves[<<o, l>>] + Converted(w, o, l, n))
Here(w, o, l) == {f \in DOMAIN formations : /\ w.formations[f].organization = o
                                            /\ w.formations[f].locality = l /\ Present(f)}
Room(w, here) == [f \in here |-> Greatest(TargetPersonnel, w.formations[f].personnel)
                                   - w.formations[f].personnel]
LeftOver(room, equipped, fs) == equipped - Least(equipped, SumFunctionOnSet(room, fs))
WeakerThan(w, f, g) == \/ w.formations[f].personnel < w.formations[g].personnel
                       \/ w.formations[f].personnel = w.formations[g].personnel /\ f < g
Gain(w, here, room, equipped) ==
  [f \in here |-> Least(room[f], LeftOver(room, equipped, {g \in here : WeakerThan(w, g, f)}))]

Fielding(w, o, l, pool, converted, here, gain, sizes) ==
  LET fielded == SumFunction(gain) + SumFunction(sizes) IN
  [w EXCEPT
       !.pools[<<o, l>>] = pool - fielded, !.reserves[<<o, l>>] = @ + converted - fielded,
       !.formations = Fielded(@, o, l, here, gain, sizes),
       !.organizations[o].resources = @ - converted,
       !.expected.resources = @ - converted, !.expected.supply = @ + converted]

LEMMA AddFightersIsFielding ==
  ASSUME NEW w, NEW o, NEW l, NEW n
  PROVE  LET here == Here(w, o, l)
             room == Room(w, here)
             equipped == EquippedOf(w, o, l, n)
             gain == Gain(w, here, room, equipped)
         IN AddFighters(w, o, l, n) =
              Fielding(w, o, l, Pooled(w, o, l, n), Converted(w, o, l, n), here, gain,
                       NewSizes(LeftOver(room, equipped, here)))
  BY Zenon DEF AddFighters, Fielding, Fielded, Here, Room, EquippedOf, Gain, LeftOver, WeakerThan, Pooled, Converted

LEMMA GainsAreInt ==
  ASSUME NEW w, Formations(w.formations), NEW here, here \subseteq DOMAIN w.formations,
         NEW equipped \in Int
  PROVE  LET room == Room(w, here)
             gain == Gain(w, here, room, equipped)
         IN /\ IsFiniteSet(here) /\ DOMAIN gain = here
            /\ \A f \in here : gain[f] \in Int
            /\ LeftOver(room, equipped, here) \in Nat
<1> DEFINE room == Room(w, here)
           gain == Gain(w, here, room, equipped)
<1>1. IsFiniteSet(here)
  <2>1. DOMAIN w.formations = 1 .. Len(w.formations) /\ Len(w.formations) \in Nat
    BY ListFacts DEF Formations
  <2>2. IsFiniteSet(DOMAIN w.formations)
    BY <2>1, FS_Interval
  <2> QED
    BY <2>2, FS_Subset
<1>2. \A f \in here : room[f] \in Int
  <2>1. \A f \in here : w.formations[f].personnel \in Int
    BY DEF Formations
  <2>2. TargetPersonnel \in Int
    BY EcologyAssumption
  <2>3. \A f \in here : Greatest(TargetPersonnel, w.formations[f].personnel) \in Int
    BY <2>1, <2>2, LeastInt
  <2>4. \A f \in here : room[f] = Greatest(TargetPersonnel, w.formations[f].personnel)
                                    - w.formations[f].personnel
    BY DEF Room
  <2> HIDE DEF room
  <2> QED
    BY <2>1, <2>3, <2>4
<1> HIDE DEF room
<1>3. \A fs \in SUBSET here : LeftOver(room, equipped, fs) \in Nat
  <2>1. ASSUME NEW fs \in SUBSET here PROVE LeftOver(room, equipped, fs) \in Nat
    <3>1. IsFiniteSet(fs) /\ \A f \in fs : room[f] \in Int
      BY <1>1, <1>2, FS_Subset
    <3>2. SumFunctionOnSet(room, fs) \in Int
      BY <3>1, SumType
    <3> QED
      BY <3>2, LeastInt DEF LeftOver
  <2> QED
    BY <2>1
<1>4. \A f \in here : gain[f] \in Int
  <2>1. ASSUME NEW f \in here PROVE gain[f] \in Int
    <3> DEFINE first == {g \in here : WeakerThan(w, g, f)}
    <3>1. LeftOver(room, equipped, first) \in Int
      BY <1>3
    <3>2. gain[f] = Least(room[f], LeftOver(room, equipped, first))
      BY DEF Gain
    <3> HIDE DEF first, gain
    <3> QED
      BY <1>2, <3>1, <3>2, LeastInt
  <2> QED
    BY <2>1
<1> QED
  BY <1>1, <1>3, <1>4 DEF Gain, room

\* A sum over a function is one over its domain.
LEMMA SumOfFunction ==
  ASSUME NEW f, IsFiniteSet(DOMAIN f), \A x \in DOMAIN f : f[x] \in Int
  PROVE  SumFunction(f) \in Int
  BY SumType DEF SumFunction

\* What an active organization gets in a place disturbs nobody else.
LEMMA AddFightersLedger ==
  ASSUME NEW w, Sound(w), Clean(w), NEW o \in ActiveOf(w.organizations),
         NEW l \in Localities, NEW n \in Int, DOMAIN formations \subseteq DOMAIN w.formations,
         NEW v, v = AddFighters(w, o, l, n)
  PROVE  /\ Sound(v) /\ Clean(v) /\ (\A F : o \notin F => Grows(F, w, v)) /\ Ranks(w, v)
         /\ \A x \in DOMAIN w.organizations : v.organizations[x].members = w.organizations[x].members
<1> DEFINE here == Here(w, o, l)
           room == Room(w, here)
           pool == Pooled(w, o, l, n)
           converted == Converted(w, o, l, n)
           equipped == EquippedOf(w, o, l, n)
           gain == Gain(w, here, room, equipped)
           sizes == NewSizes(LeftOver(room, equipped, here))
           fielded == SumFunction(gain) + SumFunction(sizes)
<1>1. v = Fielding(w, o, l, pool, converted, here, gain, sizes)
  BY AddFightersIsFielding
<1>2. o \in DOMAIN w.organizations /\ <<o, l>> \in Keys
  BY DEF ActiveOf, Sound, Organizations, Keys
<1>3. pool \in Int /\ converted \in Int /\ equipped \in Int
  <2>1. w.pools[<<o, l>>] \in Int /\ w.reserves[<<o, l>>] \in Int /\ w.organizations[o].resources \in Int
    BY <1>2 DEF Sound, Organizations
  <2>2. pool \in Int
    BY <2>1 DEF Pooled
  <2>3. converted \in Int
    <3> DEFINE most == Greatest(pool, w.reserves[<<o, l>>])
    <3>1. most \in Int
      BY <2>1, <2>2, LeastInt
    <3>2. converted = Least(most - w.reserves[<<o, l>>], w.organizations[o].resources)
      BY DEF Converted
    <3> HIDE DEF most, pool, converted
    <3>3. most - w.reserves[<<o, l>>] \in Int
      BY <2>1, <3>1
    <3> QED
      BY <2>1, <3>2, <3>3, LeastInt
  <2>4. equipped \in Int
    <3>1. equipped = Least(pool, w.reserves[<<o, l>>] + converted)
      BY DEF EquippedOf
    <3> HIDE DEF pool, converted, equipped
    <3>2. w.reserves[<<o, l>>] + converted \in Int
      BY <2>1, <2>3
    <3> QED
      BY <2>2, <3>1, <3>2, LeastInt
  <2> QED
    BY <2>2, <2>3, <2>4
<1>4. here \subseteq DOMAIN w.formations /\ \A f \in here : w.formations[f].organization = o
  BY DEF Here
<1> HIDE DEF pool, converted, equipped, here
<1>5. /\ IsFiniteSet(here) /\ DOMAIN gain = here
      /\ \A f \in here : gain[f] \in Int
      /\ LeftOver(room, equipped, here) \in Nat
  BY <1>3, <1>4, GainsAreInt DEF Sound
<1> HIDE DEF room, gain
<1>6. IsList(sizes) /\ \A i \in DOMAIN sizes : sizes[i] \in Int
  BY <1>5, NewSizesList
<1> HIDE DEF sizes
<1>7. fielded \in Int
  <2>1. SumFunction(gain) \in Int
    BY <1>5, SumOfFunction
  <2>2. IsFiniteSet(DOMAIN sizes)
    BY <1>6, ListFacts, FS_Interval
  <2>3. SumFunction(sizes) \in Int
    BY <1>6, <2>2, SumOfFunction
  <2> QED
    BY <2>1, <2>3
<1> HIDE DEF fielded
<1> DEFINE after == Fielded(w.formations, o, l, here, gain, sizes)
           orgs == [w.organizations EXCEPT ![o].resources = @ - converted]
<1>8. /\ v.organizations = orgs /\ v.formations = after /\ v.sources = w.sources
      /\ v.pools = [w.pools EXCEPT ![<<o, l>>] = pool - fielded]
      /\ v.reserves = [w.reserves EXCEPT ![<<o, l>>] = @ + converted - fielded]
      /\ DOMAIN v = LedgerFields
  BY <1>1 DEF Fielding, Sound, LedgerFields, fielded
<1>9. /\ Formations(after) /\ DOMAIN w.formations \subseteq DOMAIN after
      /\ \A f \in DOMAIN w.formations : /\ SameFormation(w.formations[f], after[f])
                                        /\ f \notin here => after[f] = w.formations[f]
      /\ \A f \in DOMAIN after \ DOMAIN w.formations :
           after[f].organization = o /\ ~after[f].moving /\ ~after[f].outside
  BY <1>5, <1>6, FormationsFielded DEF Sound
<1> HIDE DEF after
<1>10. /\ Organizations(orgs) /\ DOMAIN orgs = DOMAIN w.organizations
       /\ \A x \in DOMAIN w.organizations :
            /\ orgs[x].kind = w.organizations[x].kind /\ orgs[x].status = w.organizations[x].status
            /\ orgs[x].members = w.organizations[x].members
            /\ x # o => orgs[x].resources = w.organizations[x].resources
  <2>1. \A x \in DOMAIN w.organizations :
            /\ DOMAIN orgs[x] = OrganizationFields
            /\ orgs[x].kind = w.organizations[x].kind /\ orgs[x].status = w.organizations[x].status
            /\ orgs[x].members = w.organizations[x].members /\ orgs[x].resources \in Int
            /\ x # o => orgs[x].resources = w.organizations[x].resources
    BY <1>3 DEF Sound, Organizations, OrganizationFields
  <2>2. IsList(orgs) /\ DOMAIN orgs = DOMAIN w.organizations
    BY ListMap DEF Sound, Organizations
  <2> QED
    BY <2>1, <2>2 DEF Organizations, Sound
<1> HIDE DEF orgs
<1>11. /\ v.pools \in [Keys -> Int] /\ v.reserves \in [Keys -> Int]
       /\ \A k \in Keys : k # <<o, l>> => v.pools[k] = w.pools[k] /\ v.reserves[k] = w.reserves[k]
  <2>1. pool - fielded \in Int /\ w.reserves[<<o, l>>] + converted - fielded \in Int
    BY <1>2, <1>3, <1>7 DEF Sound
  <2> QED
    BY <1>8, <2>1 DEF Sound
<1>12. Sound(v)
  BY <1>8, <1>9, <1>10, <1>11 DEF Sound
<1>13. Ranks(w, v)
  BY <1>8, <1>10 DEF Ranks
<1>14. ASSUME NEW F, o \notin F PROVE Grows(F, w, v)
  <2>1. \A f \in DOMAIN w.formations : Kept(F, w.formations[f], after[f])
    BY <1>4, <1>9, <1>14 DEF Kept, SameFormation
  <2> QED
    BY <1>8, <1>9, <1>10, <2>1 DEF Grows
<1>15. Clean(v)
  <2>1. \A k \in Keys : k[1] \notin ActiveOf(w.organizations) => k # <<o, l>>
    OBVIOUS
  <2>2. \A f \in DOMAIN after : \/ after[f].organization \in ActiveOf(w.organizations)
                                \/ \E g \in DOMAIN w.formations :
                                     after[f].organization = w.formations[g].organization
    BY <1>9 DEF SameFormation
  <2>3. v.formations = after /\ v.sources = w.sources
    BY <1>8
  <2>4. \A k \in Keys : k[1] \notin ActiveOf(w.organizations) =>
          v.pools[k] = w.pools[k] /\ v.reserves[k] = w.reserves[k]
    BY <1>11, <2>1
  <2>5. \A s \in DOMAIN v.sources : \E t \in DOMAIN w.sources :
          v.sources[s].organization = w.sources[t].organization
    BY <2>3
  <2>6. \A x \in DOMAIN w.organizations : x \notin ActiveOf(w.organizations) =>
           /\ w.organizations[x].resources = 0 => v.organizations[x].resources = 0
           /\ w.organizations[x].members = {} => v.organizations[x].members = {}
    BY <1>8, <1>10
  <2>7. \A f \in DOMAIN v.formations :
           \/ v.formations[f].organization \in ActiveOf(w.organizations)
           \/ \E g \in DOMAIN w.formations :
                v.formations[f].organization = w.formations[g].organization
    BY <2>2, <2>3
  <2> QED
    BY <1>13, <2>4, <2>5, <2>6, <2>7, CleanStep
<1> QED
  BY <1>8, <1>10, <1>12, <1>13, <1>14, <1>15

\* The parts of RemoveFighters.
Owned(w, o) == {f \in DOMAIN formations : /\ w.formations[f].organization = o
                                          /\ w.formations[f].personnel > 0}
SoonerThan(w, l, f, g) ==
  LET a == w.formations[f]  b == w.formations[g] IN
  IF (a.locality = l) # (b.locality = l) THEN a.locality = l
  ELSE a.personnel > b.personnel \/ (a.personnel = b.personnel /\ f < g)
SizeOf(w, own) == [f \in own |-> w.formations[f].personnel]
TakenFrom(size, m, fs) == Least(m, SumFunctionOnSet(size, fs))
LossOf(w, l, own, size, m) ==
  [f \in own |-> Least(size[f], m - TakenFrom(size, m, {g \in own : SoonerThan(w, l, g, f)}))]
Withdrawn(forms, own, loss) ==
  [f \in DOMAIN forms |-> IF f \in own THEN Reduced(forms[f], loss[f]) ELSE forms[f]]

LEMMA RemoveFightersIs ==
  ASSUME NEW w, DOMAIN w = LedgerFields, NEW o, NEW l, NEW n
  PROVE  LET fromPool == Least(w.pools[<<o, l>>], n)
             m == n - fromPool
             own == Owned(w, o)
             size == SizeOf(w, own)
             loss == LossOf(w, l, own, size, m)
             r == RemoveFighters(w, o, l, n)
         IN /\ r.removed = fromPool + TakenFrom(size, m, own)
            /\ r.world.organizations = w.organizations /\ r.world.sources = w.sources
            /\ r.world.reserves = w.reserves /\ DOMAIN r.world = LedgerFields
            /\ r.world.pools = [w.pools EXCEPT ![<<o, l>>] = @ - fromPool]
            /\ r.world.formations = Withdrawn(w.formations, own, loss)
            /\ r.world.expected = w.expected
  BY DEF RemoveFighters, Owned, SoonerThan, SizeOf, TakenFrom, LossOf, Withdrawn, LedgerFields

LEMMA ReducedFormation ==
  ASSUME NEW f, DOMAIN f = FormationFields, f.personnel \in Int, NEW n \in Int
  PROVE  SameFormation(f, Reduced(f, n))
  BY DEF SameFormation, Reduced, Resized, FormationFields

LEMMA TakenIsInt ==
  ASSUME NEW w, Formations(w.formations), NEW own, own \subseteq DOMAIN w.formations,
         NEW m \in Int
  PROVE  \A fs \in SUBSET own : TakenFrom(SizeOf(w, own), m, fs) \in Int
<1> DEFINE size == SizeOf(w, own)
<1>1. IsFiniteSet(own)
  <2>1. DOMAIN w.formations = 1 .. Len(w.formations) /\ Len(w.formations) \in Nat
    BY ListFacts DEF Formations
  <2>2. IsFiniteSet(DOMAIN w.formations)
    BY <2>1, FS_Interval
  <2> QED
    BY <2>2, FS_Subset
<1>2. \A f \in own : size[f] \in Int
  BY DEF SizeOf, Formations
<1> HIDE DEF size
<1>3. ASSUME NEW fs \in SUBSET own PROVE TakenFrom(size, m, fs) \in Int
  <2>1. IsFiniteSet(fs) /\ \A f \in fs : size[f] \in Int
    BY <1>1, <1>2, FS_Subset
  <2>2. SumFunctionOnSet(size, fs) \in Int
    BY <2>1, SumType
  <2> QED
    BY <2>2, LeastInt DEF TakenFrom
<1> QED
  BY <1>3 DEF size

\* Fewer fighters of an active organization.
LEMMA RemoveFightersLedger ==
  ASSUME NEW w, Sound(w), Clean(w), NEW o \in ActiveOf(w.organizations),
         NEW l \in Localities, NEW n \in Int, DOMAIN formations \subseteq DOMAIN w.formations,
         NEW r, r = RemoveFighters(w, o, l, n), NEW v, v = r.world
  PROVE  /\ r.removed \in Int
         /\ Sound(v) /\ Clean(v) /\ (\A F : o \notin F => Grows(F, w, v))
         /\ v.organizations = w.organizations /\ DOMAIN v.formations = DOMAIN w.formations
<1> DEFINE fromPool == Least(w.pools[<<o, l>>], n)
           m == n - fromPool
           own == Owned(w, o)
           size == SizeOf(w, own)
           loss == LossOf(w, l, own, size, m)
           after == Withdrawn(w.formations, own, loss)
<1>1. /\ r.removed = fromPool + TakenFrom(size, m, own)
      /\ v.organizations = w.organizations /\ v.sources = w.sources
      /\ v.reserves = w.reserves /\ DOMAIN v = LedgerFields
      /\ v.pools = [w.pools EXCEPT ![<<o, l>>] = @ - fromPool]
      /\ v.formations = after
  BY RemoveFightersIs DEF Sound
<1>2. o \in DOMAIN w.organizations /\ <<o, l>> \in Keys
  BY DEF ActiveOf, Sound, Organizations, Keys
<1>3. fromPool \in Int /\ w.pools[<<o, l>>] \in Int
  BY <1>2, LeastInt DEF Sound
<1>4. own \subseteq DOMAIN w.formations /\ \A f \in own : w.formations[f].organization = o
  BY DEF Owned
<1> HIDE DEF fromPool, own
<1>5. m \in Int
  BY <1>3
<1> HIDE DEF m
<1>6. \A fs \in SUBSET own : TakenFrom(size, m, fs) \in Int
  BY <1>4, <1>5, TakenIsInt DEF Sound
<1>7. r.removed \in Int
  BY <1>1, <1>3, <1>6
<1>8. \A f \in own : loss[f] \in Int
  <2>1. ASSUME NEW f \in own PROVE loss[f] \in Int
    <3> DEFINE first == {g \in own : SoonerThan(w, l, g, f)}
    <3>1. TakenFrom(size, m, first) \in Int
      BY <1>6
    <3>2. loss[f] = Least(size[f], m - TakenFrom(size, m, first))
      BY DEF LossOf
    <3>3. size[f] \in Int
      BY <1>4 DEF SizeOf, Sound, Formations
    <3> HIDE DEF first, loss, size
    <3>4. m - TakenFrom(size, m, first) \in Int
      BY <1>5, <3>1
    <3> QED
      BY <3>2, <3>3, <3>4, LeastInt
  <2> QED
    BY <2>1
<1> HIDE DEF size, loss
<1>9. \A f \in DOMAIN w.formations : /\ SameFormation(w.formations[f], after[f])
                                     /\ f \notin own => after[f] = w.formations[f]
  <2>1. ASSUME NEW f \in DOMAIN w.formations
        PROVE  /\ SameFormation(w.formations[f], after[f])
               /\ f \notin own => after[f] = w.formations[f]
    <3>1. DOMAIN w.formations[f] = FormationFields /\ w.formations[f].personnel \in Int
      BY DEF Sound, Formations
    <3>2. CASE f \in own
      <4>1. after[f] = Reduced(w.formations[f], loss[f])
        BY <3>2 DEF Withdrawn
      <4> HIDE DEF after
      <4> QED
        BY <1>8, <3>1, <3>2, <4>1, ReducedFormation
    <3>3. CASE f \notin own
      BY <3>1, <3>3 DEF SameFormation, Withdrawn
    <3> QED
      BY <3>2, <3>3
  <2> QED
    BY <2>1
<1>10. IsList(after) /\ DOMAIN after = DOMAIN w.formations
  BY ListMap DEF Withdrawn, Sound, Formations
<1> HIDE DEF after
<1>11. Formations(after)
  BY <1>9, <1>10 DEF SameFormation, Sound, Formations
<1>12. /\ v.pools \in [Keys -> Int]
       /\ \A k \in Keys : k # <<o, l>> => v.pools[k] = w.pools[k]
  <2>1. w.pools[<<o, l>>] - fromPool \in Int
    BY <1>3
  <2> QED
    BY <1>1, <2>1 DEF Sound
<1>13. Sound(v)
  BY <1>1, <1>11, <1>12 DEF Sound
<1>14. ASSUME NEW F, o \notin F PROVE Grows(F, w, v)
  <2>1. \A f \in DOMAIN w.formations : Kept(F, w.formations[f], after[f])
    BY <1>4, <1>9, <1>14 DEF Kept, SameFormation
  <2> QED
    BY <1>1, <1>10, <2>1 DEF Grows
<1>15. Clean(v)
  <2>1. \A k \in Keys : k[1] \notin ActiveOf(w.organizations) => k # <<o, l>>
    OBVIOUS
  <2>2. \A f \in DOMAIN after : \E g \in DOMAIN w.formations :
                                  after[f].organization = w.formations[g].organization
    BY <1>9, <1>10 DEF SameFormation
  <2>3. Ranks(w, v)
    BY <1>1 DEF Ranks
  <2>4. \A k \in Keys : k[1] \notin ActiveOf(w.organizations) =>
          v.pools[k] = w.pools[k] /\ v.reserves[k] = w.reserves[k]
    BY <1>1, <1>12, <2>1
  <2>5. \A s \in DOMAIN v.sources : \E t \in DOMAIN w.sources :
          v.sources[s].organization = w.sources[t].organization
    BY <1>1
  <2>6. v.formations = after
    BY <1>1
  <2>7. \A o1 \in DOMAIN w.organizations : o1 \notin ActiveOf(w.organizations) =>
           /\ w.organizations[o1].resources = 0 => v.organizations[o1].resources = 0
           /\ w.organizations[o1].members = {} => v.organizations[o1].members = {}
    BY <1>1
  <2>8. \A f \in DOMAIN v.formations :
           \/ v.formations[f].organization \in ActiveOf(w.organizations)
           \/ \E g \in DOMAIN w.formations :
                v.formations[f].organization = w.formations[g].organization
    BY <2>2, <2>6
  <2> QED
    BY <2>3, <2>4, <2>5, <2>7, <2>8, CleanStep
<1> QED
  BY <1>1, <1>7, <1>10, <1>13, <1>14, <1>15

-----------------------------------------------------------------------------
(* What a step keeps that takes one ledger to another.                     *)

LEMMA LedgerBecomes ==
  ASSUME NEW w, Sound(w), Clean(w), Becomes(w)
  PROVE  Sound(Ledger)' /\ Clean(Ledger)'
<1>1. /\ Ledger'.organizations = w.organizations /\ Ledger'.formations = w.formations
      /\ Ledger'.sources = w.sources /\ Ledger'.pools = w.pools
      /\ Ledger'.reserves = w.reserves /\ DOMAIN Ledger' = LedgerFields
  BY DEF Becomes, Ledger, LedgerFields
<1> DEFINE v == Ledger'
<1> HIDE DEF v
<1>2. Sound(v) /\ Clean(v)
  BY <1>1 DEF v, Sound, Clean
<1> QED
  BY <1>2 DEF v, Sound, Clean

LEMMA LedgerIs ==
  /\ Ledger.organizations = organizations /\ Ledger.formations = formations
  /\ Ledger.sources = sources /\ Ledger.pools = pools /\ Ledger.reserves = reserves
  /\ DOMAIN Ledger = LedgerFields
  BY DEF Ledger, LedgerFields

LEMMA MarchesKept ==
  ASSUME Inv, NEW w, Grows(Foreigners(organizations), Ledger, w), Becomes(w),
         UNCHANGED logisticsVars
  PROVE  Marches'
<1>1. formations' = w.formations /\ orders' = orders /\ shipments' = shipments
  BY DEF Becomes, logisticsVars
<1>2. /\ DOMAIN formations \subseteq DOMAIN formations'
      /\ \A f \in DOMAIN formations : formations'[f].moving = formations[f].moving
      /\ \A f \in DOMAIN formations' \ DOMAIN formations : ~formations'[f].moving
  BY <1>1, LedgerIs DEF Grows, Kept
<1>3. Marches
  BY DEF Inv
<1> QED
  BY <1>1, <1>2, <1>3 DEF Marches

LEMMA ForcedKept ==
  ASSUME Inv, NEW w, Grows(Foreigners(organizations), Ledger, w), Becomes(w),
         UNCHANGED interventions
  PROVE  Forced'
<1> DEFINE F == Foreigners(organizations)
<1>1. formations' = w.formations /\ organizations' = w.organizations
  BY DEF Becomes
<1>2. /\ DOMAIN formations \subseteq DOMAIN formations'
      /\ \A f \in DOMAIN formations : Kept(F, formations[f], formations'[f])
      /\ \A f \in DOMAIN formations' \ DOMAIN formations :
           ~formations'[f].moving /\ ~formations'[f].outside
  BY <1>1, LedgerIs DEF Grows
<1>3. F \subseteq Foreigners(organizations')
  BY <1>1, LedgerIs DEF Grows, Foreigners
<1>4. Forced
  BY DEF Inv
<1> HIDE DEF F
<1>5. \A i \in DOMAIN interventions : \A f \in interventions[i].force :
        f \in DOMAIN formations /\ formations[f].organization \in F
  BY <1>4 DEF Forced, F
<1>6. \A i \in DOMAIN interventions : \A f \in interventions[i].force :
        /\ f \in DOMAIN formations'
        /\ formations'[f].organization \in Foreigners(organizations')
        /\ formations'[f].outside = formations[f].outside
  BY <1>2, <1>3, <1>5 DEF Kept
<1>7. \A f \in DOMAIN formations' : formations'[f].outside =>
       /\ ~formations'[f].moving
       /\ \E i \in DOMAIN interventions :
            f \in interventions[i].force /\ formations'[f].locality = Border[interventions[i].state]
  BY <1>2, <1>4 DEF Kept, Forced
<1> QED
  BY <1>4, <1>6, <1>7 DEF Forced

LEMMA SeatedKept ==
  ASSUME Inv, NEW F, NEW w, Grows(F, Ledger, w), Becomes(w), UNCHANGED peaceVars
  PROVE  Seated'
<1>1. organizations' = w.organizations /\ negotiation' = negotiation /\ agreements' = agreements
  BY DEF Becomes, peaceVars
<1>2. Insurgents(organizations) \subseteq Insurgents(organizations')
  BY <1>1, LedgerIs DEF Grows, Insurgents
<1>3. Seated
  BY DEF Inv
<1> QED
  BY <1>1, <1>2, <1>3 DEF Seated

\* Nobody becomes a political organization.
Unsettled(w) ==
  \A o \in DOMAIN w.organizations : w.organizations[o].status = "political" =>
    o \in DOMAIN organizations /\ organizations[o].status = "political"

LEMMA SettlementsKept ==
  ASSUME Inv, NEW w, Unsettled(w), Becomes(w), UNCHANGED peaceVars
  PROVE  SettlementsStand'
  BY DEF Inv, Unsettled, Becomes, peaceVars, SettlementsStand, Ongoing

\* A step in which no formation is moved, and none of a foreign organization changes hands.
Staying == \E w : Becomes(w) /\ Grows(Foreigners(organizations), Ledger, w)

\* A step of an organization, its people or its formations.
LEMMA InvKept ==
  ASSUME Inv, NEW w, Sound(w), Clean(w), Grows(Foreigners(organizations), Ledger, w),
         Unsettled(w), Becomes(w), UNCHANGED <<logisticsVars, interventions, peaceVars>>,
         Belong', Visits'
  PROVE  Inv' /\ Staying
  BY LedgerBecomes, MarchesKept, ForcedKept, SeatedKept, SettlementsKept DEF Inv, Staying

-----------------------------------------------------------------------------
(* Recruitment.                                                            *)

LEMMA InvSame ==
  ASSUME Inv, UNCHANGED <<ledgerVars, logisticsVars, interventions, peaceVars>>, Belong', Visits'
  PROVE  Inv' /\ Staying
<1>1. Becomes(Ledger)
  BY DEF Becomes, Ledger, ledgerVars
<1>2. Grows(Foreigners(organizations), Ledger, Ledger)
  BY DEF Grows, Kept, Inv, Sound, Formations
<1>3. Unsettled(Ledger)
  BY LedgerIs DEF Unsettled
<1> QED
  BY <1>1, <1>2, <1>3, InvKept DEF Inv

\* Ledgers with the same people on the same lists.
LEMMA BelongSame ==
  ASSUME Inv, NEW w, Becomes(w), Ranks(Ledger, w),
         \A o \in DOMAIN organizations : w.organizations[o].members = organizations[o].members,
         UNCHANGED <<ecologyVars, peaceVars>>, handler' # "ecology" => handler # "ecology"
  PROVE  Belong'
<1>1. ActiveOf(organizations') = ActiveOf(organizations)
  BY RanksActive, LedgerIs DEF Becomes
<1>2. /\ DOMAIN organizations' = DOMAIN organizations
      /\ \A o \in DOMAIN organizations : organizations'[o].members = organizations[o].members
  BY LedgerIs DEF Becomes, Ranks
<1>3. ActiveOf(organizations) \subseteq DOMAIN organizations
  BY DEF ActiveOf
<1>4. people' = people /\ protos' = protos /\ agreements' = agreements
  BY DEF ecologyVars, peaceVars
<1>5. Belong /\ (Disjoint' <=> Disjoint)
  BY <1>4 DEF Inv, Disjoint
<1> QED
  BY <1>1, <1>2, <1>3, <1>4, <1>5 DEF Belong

LEMMA InsurgentsAreNotForeign ==
  \A o \in ActiveOf(organizations) : o \notin Foreigners(organizations)
  BY DEF ActiveOf, Foreigners

\* Other members on the list of one organization.
Listing(orgs, o, m) == [orgs EXCEPT ![o].members = m]

LEMMA RelistedLedger ==
  ASSUME NEW w, Sound(w), Clean(w), NEW o \in ActiveOf(w.organizations), NEW m, NEW v,
         v.organizations = Listing(w.organizations, o, m),
         v.formations = w.formations, v.sources = w.sources, v.pools = w.pools,
         v.reserves = w.reserves, DOMAIN v = LedgerFields
  PROVE  /\ Sound(v) /\ Clean(v) /\ (\A F : Grows(F, w, v)) /\ Ranks(w, v)
         /\ \A x \in DOMAIN w.organizations : x # o => v.organizations[x] = w.organizations[x]
         /\ v.organizations[o].members = m
<1> DEFINE orgs == v.organizations
<1>1. /\ o \in DOMAIN w.organizations /\ orgs = [x \in DOMAIN w.organizations |-> orgs[x]]
      /\ DOMAIN orgs = DOMAIN w.organizations
  BY DEF ActiveOf, Sound, Organizations, Listing
<1>2. \A x \in DOMAIN w.organizations :
        /\ x # o => orgs[x] = w.organizations[x]
        /\ DOMAIN orgs[x] = OrganizationFields /\ orgs[x].resources = w.organizations[x].resources
        /\ orgs[x].kind = w.organizations[x].kind /\ orgs[x].status = w.organizations[x].status
  BY <1>1 DEF Sound, Organizations, OrganizationFields, Listing
<1>3. orgs[o].members = m
  BY <1>1 DEF Sound, Organizations, OrganizationFields, Listing
<1>4. IsList(orgs)
  BY <1>1, ListMap DEF Sound, Organizations
<1>5. Organizations(orgs)
  BY <1>1, <1>2, <1>4 DEF Sound, Organizations
<1>6. Sound(v)
  BY <1>5 DEF Sound
<1>7. Ranks(w, v) /\ \A F : Grows(F, w, v)
  BY <1>1, <1>2 DEF Ranks, Grows, Kept
<1>8. Clean(v)
  BY <1>2, <1>7, CleanStep
<1> QED
  BY <1>2, <1>3, <1>6, <1>7, <1>8

LEMMA RanksUnsettled ==
  ASSUME NEW w, Ranks(Ledger, w)
  PROVE  Unsettled(w)
  BY LedgerIs DEF Ranks, Unsettled

LEMMA RanksTransitive ==
  ASSUME NEW u, NEW v, NEW w, Ranks(u, v), Ranks(v, w)
  PROVE  Ranks(u, w)
  BY DEF Ranks

Moves(p, member) == people' = [people EXCEPT ![p] = member]

\* One person's membership changes: it leaves the list of one organization or enters
\* that of another, and nobody else does.
LEMMA OneMoves ==
  ASSUME Inv, NEW w, Becomes(w), Ranks(Ledger, w), NEW p \in Persons,
         UNCHANGED <<peaceVars, protos>>, handler # "ecology",
         NEW member, Moves(p, member),
         member \in [organization: Nat, fraction: Nat],
         (member.fraction > 0) = (member.organization # NoOrganization),
         member.organization # NoOrganization =>
           /\ member.organization \in DOMAIN organizations
           /\ p \in w.organizations[member.organization].members,
         \A o \in DOMAIN organizations :
           w.organizations[o].members \ {p} = organizations[o].members \ {p},
         \A o \in ActiveOf(organizations) : o # member.organization =>
           \/ p \notin w.organizations[o].members
           \/ people[p].organization # o /\ w.organizations[o].members = organizations[o].members
  PROVE  Belong'
<1>1. ActiveOf(organizations') = ActiveOf(organizations) /\ organizations' = w.organizations
  BY RanksActive, LedgerIs DEF Becomes
<1>2. DOMAIN organizations' = DOMAIN organizations
  BY LedgerIs DEF Becomes, Ranks
<1>3. ActiveOf(organizations) \subseteq DOMAIN organizations
  BY DEF ActiveOf
<1>4. protos' = protos /\ agreements' = agreements
  BY DEF peaceVars
<1>5. Belong /\ (Disjoint' <=> Disjoint)
  BY <1>4 DEF Inv, Disjoint
<1>6. /\ people' \in [Persons -> [organization: Nat, fraction: Nat]]
      /\ people'[p] = member /\ \A q \in Persons \ {p} : people'[q] = people[q]
  BY <1>5 DEF Belong, Moves
<1>7. ASSUME NEW q \in Persons
      PROVE  /\ (people'[q].fraction > 0) = (people'[q].organization # NoOrganization)
             /\ people'[q].organization # NoOrganization =>
                  /\ people'[q].organization \in DOMAIN organizations'
                  /\ q \in organizations'[people'[q].organization].members
  <2>1. CASE q = p
    BY <1>1, <1>2, <1>6, <2>1
  <2>2. CASE q # p
    BY <1>1, <1>2, <1>5, <1>6, <2>2 DEF Belong
  <2> QED
    BY <2>1, <2>2
<1>8. ASSUME Disjoint', NEW o \in ActiveOf(organizations)
      PROVE  organizations'[o].members \subseteq {q \in Persons : people'[q].organization = o}
  <2>1. organizations[o].members \subseteq {q \in Persons : people[q].organization = o}
    BY <1>5, <1>8 DEF Belong
  <2>2. ASSUME NEW q \in organizations'[o].members PROVE q \in Persons /\ people'[q].organization = o
    <3>1. CASE q = p
      BY <1>1, <1>3, <1>6, <2>1, <2>2, <3>1
    <3>2. CASE q # p
      BY <1>1, <1>3, <1>6, <2>1, <2>2, <3>2
    <3> QED
      BY <3>1, <3>2
  <2> QED
    BY <2>2
<1> QED
  BY <1>1, <1>4, <1>5, <1>6, <1>7, <1>8 DEF Belong

\* A visit in which an incumbent is asked: its organization is active.
LEMMA IncumbentIs ==
  ASSUME Inv, NEW p \in Persons, Incumbent(p)
  PROVE  /\ people[p].organization \in ActiveOf(organizations)
         /\ people[p].organization \in Nat /\ people[p].fraction \in Nat
         /\ people[p].organization # 0
  BY DEF Inv, Belong, Incumbent, Active, ActiveOf, NoOrganization

LEMMA PersonVisitedIs ==
  ASSUME NEW p, PersonVisited(p)
  PROVE  handler = "recruitment" /\ protos' = protos /\ Visits'
  BY DEF PersonVisited, Visiting, Begin, Visits

LEMMA RecruitKeeps ==
  ASSUME Inv, NEW p \in Persons, NEW o \in DOMAIN organizations, NEW n \in 1 .. Cohorts,
         Recruit(p, o, n), UNCHANGED <<logisticsVars, interventions, peaceVars>>
  PROVE  Inv' /\ Staying
<1> DEFINE held == IF Incumbent(p) THEN people[p].fraction ELSE 0
           members == organizations[o].members \cup {p}
           u == [Ledger EXCEPT !.organizations[o].members = @ \cup {p}, !.expected.manpower = @ + n]
           v == AddFighters(u, o, Residence[p], n)
           F == Foreigners(organizations)
<1>1. /\ PersonVisited(p) /\ Active(o) /\ (Incumbent(p) => o = people[p].organization)
      /\ n \in 1 .. (Cohorts - held)
      /\ people' = [people EXCEPT ![p] = Armed(o, held + n)]
      /\ Becomes(v)
  BY DEF Recruit
<1>2. o \in ActiveOf(organizations) /\ o \notin F
  BY <1>1, InsurgentsAreNotForeign DEF Active, ActiveOf
<1>3. /\ u.organizations = Listing(organizations, o, members)
      /\ u.formations = formations /\ u.sources = sources /\ u.pools = pools
      /\ u.reserves = reserves /\ DOMAIN u = LedgerFields
  BY DEF Ledger, LedgerFields, Listing
<1>4. Sound(Ledger) /\ Clean(Ledger) /\ Belong
  BY DEF Inv
<1> HIDE DEF u, members, F
<1>5. /\ Sound(u) /\ Clean(u) /\ (\A G : Grows(G, Ledger, u)) /\ Ranks(Ledger, u)
      /\ \A x \in DOMAIN organizations : x # o => u.organizations[x] = organizations[x]
      /\ u.organizations[o].members = members
  BY <1>2, <1>3, <1>4, RelistedLedger, LedgerIs
<1>6. ActiveOf(u.organizations) = ActiveOf(organizations) /\ DOMAIN u.organizations = DOMAIN organizations
  BY <1>5, RanksActive, LedgerIs DEF Ranks
<1>7. /\ Residence[p] \in Localities /\ n \in Int
      /\ o \in ActiveOf(u.organizations) /\ DOMAIN formations \subseteq DOMAIN u.formations
  BY <1>2, <1>3, <1>6, EcologyAssumption
<1>8. /\ Sound(v) /\ Clean(v) /\ Grows(F, u, v) /\ Ranks(u, v)
      /\ \A x \in DOMAIN organizations : v.organizations[x].members = u.organizations[x].members
  <2>1. /\ Sound(v) /\ Clean(v) /\ Grows(F, u, v) /\ Ranks(u, v)
        /\ \A x \in DOMAIN u.organizations : v.organizations[x].members = u.organizations[x].members
    BY <1>2, <1>5, <1>7, AddFightersLedger
  <2> QED
    BY <1>6, <2>1
<1> HIDE DEF v
<1>9. Grows(F, Ledger, v) /\ Ranks(Ledger, v)
  BY <1>5, <1>8, GrowsTransitive, RanksTransitive
<1>10. handler = "recruitment" /\ protos' = protos /\ Visits'
  BY <1>1, PersonVisitedIs
<1>11. held \in Nat /\ held + n \in Nat /\ held + n > 0
  BY <1>4, <1>7 DEF Belong
<1>12. Armed(o, held + n) = [organization |-> o, fraction |-> held + n] /\ o \in Nat /\ o # 0
  BY <1>4, <1>11, ListFacts, LedgerIs DEF Armed, Sound, Organizations
<1>13. Belong'
  <2> DEFINE member == [organization |-> o, fraction |-> held + n]
  <2>1. \A x \in ActiveOf(organizations) : x # o =>
          v.organizations[x].members = organizations[x].members
    BY <1>5, <1>8 DEF ActiveOf
  <2>2. \A x \in ActiveOf(organizations) : x # o => people[p].organization # x
    <3>1. \A x \in ActiveOf(organizations) : Active(x) /\ x # 0
      BY <1>4, ListFacts, LedgerIs DEF Active, ActiveOf, Sound, Organizations
    <3> QED
      BY <1>1, <3>1 DEF Incumbent, NoOrganization
  <2>3. \A x \in DOMAIN organizations :
          v.organizations[x].members \ {p} = organizations[x].members \ {p}
    BY <1>5, <1>8 DEF members
  <2>4. p \in v.organizations[o].members
    BY <1>5, <1>8 DEF members
  <2>5. /\ member \in [organization: Nat, fraction: Nat] /\ member.organization = o
        /\ member.fraction = held + n
    BY <1>11, <1>12
  <2>6. Moves(p, member)
    BY <1>1, <1>12 DEF Moves
  <2> HIDE DEF member, held
  <2>7. UNCHANGED <<peaceVars, protos>> /\ handler # "ecology" /\ Becomes(v)
    BY <1>1, <1>10
  <2>8. /\ (member.fraction > 0) = (member.organization # NoOrganization)
        /\ member.organization # NoOrganization =>
             /\ member.organization \in DOMAIN organizations
             /\ p \in v.organizations[member.organization].members
    BY <1>11, <1>12, <2>4, <2>5 DEF NoOrganization
  <2>9. \A x \in ActiveOf(organizations) : x # member.organization =>
          \/ p \notin v.organizations[x].members
          \/ people[p].organization # x /\ v.organizations[x].members = organizations[x].members
    BY <2>1, <2>2, <2>5
  <2> QED
    BY <1>9, <2>3, <2>5, <2>6, <2>7, <2>8, <2>9, OneMoves
<1> QED
  BY <1>1, <1>8, <1>9, <1>10, <1>13, InvKept, RanksUnsettled DEF F

LEMMA SameLedger ==
  ASSUME NEW w, Sound(w), Clean(w), NEW v, DOMAIN v = LedgerFields,
         v.organizations = w.organizations, v.formations = w.formations,
         v.sources = w.sources, v.pools = w.pools, v.reserves = w.reserves
  PROVE  Sound(v) /\ Clean(v) /\ (\A F : Grows(F, w, v)) /\ Ranks(w, v)
<1>1. Sound(v) /\ Clean(v)
  BY DEF Sound, Clean
<1>2. Ranks(w, v)
  BY DEF Ranks
<1>3. \A F : Grows(F, w, v)
  BY DEF Grows, Kept
<1> QED
  BY <1>1, <1>2, <1>3

\* What leaves the fighters of an organization and what joins those of another is
\* looked for among the formations there were.
LEMMA ExitKeeps ==
  ASSUME Inv, NEW p \in Persons, NEW n, Exit(p, n),
         UNCHANGED <<logisticsVars, interventions, peaceVars>>
  PROVE  Inv' /\ Staying
<1> DEFINE o == people[p].organization
           fraction == people[p].fraction
           left == RemoveFighters(Ledger, o, Residence[p], n)
           u == left.world
           w == [u EXCEPT !.expected.manpower = @ - left.removed]
           m == w.organizations[o].members \ {p}
           v == IF n < fraction THEN w ELSE [w EXCEPT !.organizations[o].members = @ \ {p}]
           F == Foreigners(organizations)
<1>1. /\ PersonVisited(p) /\ Incumbent(p) /\ n \in 1 .. fraction
      /\ people' = [people EXCEPT ![p] = Armed(o, fraction - n)]
      /\ Becomes(v)
  BY DEF Exit
<1>2. /\ o \in ActiveOf(organizations) /\ o \in Nat /\ o # 0 /\ fraction \in Nat
      /\ o \notin F /\ o \in DOMAIN organizations
  BY <1>1, IncumbentIs, InsurgentsAreNotForeign DEF ActiveOf
<1>3. Sound(Ledger) /\ Clean(Ledger) /\ Belong
  BY DEF Inv
<1>4. /\ Residence[p] \in Localities /\ n \in Int
      /\ o \in ActiveOf(Ledger.organizations) /\ DOMAIN formations \subseteq DOMAIN Ledger.formations
  BY <1>1, <1>2, EcologyAssumption, LedgerIs
<1> HIDE DEF o, fraction, F
<1>5. /\ Sound(u) /\ Clean(u) /\ (\A G : o \notin G => Grows(G, Ledger, u))
      /\ u.organizations = organizations
  BY <1>3, <1>4, RemoveFightersLedger, LedgerIs
<1> HIDE DEF left, u
<1>6. /\ w.organizations = u.organizations /\ w.formations = u.formations /\ w.sources = u.sources
      /\ w.pools = u.pools /\ w.reserves = u.reserves /\ DOMAIN w = LedgerFields
  BY <1>5 DEF Sound, LedgerFields
<1> HIDE DEF w
<1>7. Sound(w) /\ Clean(w) /\ (\A G : Grows(G, u, w)) /\ w.organizations = organizations
  BY <1>5, <1>6, SameLedger
<1>8. Grows(F, Ledger, w) /\ Ranks(Ledger, w)
  <2>1. Grows(F, Ledger, u)
    BY <1>2, <1>5
  <2>2. Grows(F, u, w)
    BY <1>7
  <2> QED
    BY <1>7, <2>1, <2>2, GrowsTransitive, LedgerIs DEF Ranks
<1>9. handler = "recruitment" /\ protos' = protos /\ Visits'
  BY <1>1, PersonVisitedIs
<1>10. p \in organizations[o].members
  BY <1>2, <1>3 DEF Belong, o, NoOrganization
<1>11. CASE n < fraction
  <2>1. v = w
    BY <1>11
  <2> DEFINE member == [organization |-> o, fraction |-> fraction - n]
  <2>2. fraction - n \in Nat /\ fraction - n > 0
    BY <1>1, <1>2, <1>11
  <2>3. Moves(p, member)
    <3>1. Armed(o, fraction - n) = member
      BY <2>2 DEF Armed
    <3> HIDE DEF member
    <3> QED
      BY <1>1, <3>1 DEF Moves
  <2>4. /\ member \in [organization: Nat, fraction: Nat] /\ member.organization = o
        /\ (member.fraction > 0) = (member.organization # NoOrganization)
    BY <1>2, <2>2 DEF NoOrganization
  <2>5. /\ member.organization \in DOMAIN organizations
        /\ p \in w.organizations[member.organization].members
    BY <1>2, <1>7, <1>10, <2>4
  <2>6. \A x \in DOMAIN organizations :
          w.organizations[x].members \ {p} = organizations[x].members \ {p}
    BY <1>7
  <2>7. \A x \in ActiveOf(organizations) : x # member.organization =>
          \/ p \notin w.organizations[x].members
          \/ people[p].organization # x /\ w.organizations[x].members = organizations[x].members
    BY <1>7, <2>4 DEF o
  <2>8. UNCHANGED <<peaceVars, protos>> /\ handler # "ecology" /\ Becomes(w)
    BY <1>1, <1>9, <2>1
  <2> HIDE DEF member, v
  <2>9. Belong'
    BY <1>8, <2>3, <2>4, <2>5, <2>6, <2>7, <2>8, OneMoves
  <2> QED
    BY <1>7, <1>8, <1>9, <2>8, <2>9, InvKept, RanksUnsettled DEF F
<1>12. CASE ~(n < fraction)
  <2>1. v = [w EXCEPT !.organizations[o].members = @ \ {p}]
    BY <1>12
  <2>2. /\ v.organizations = Listing(w.organizations, o, m) /\ v.formations = w.formations
        /\ v.sources = w.sources /\ v.pools = w.pools /\ v.reserves = w.reserves
        /\ DOMAIN v = LedgerFields
    BY <1>6, <2>1 DEF Listing, LedgerFields
  <2> HIDE DEF v, m
  <2>3. o \in ActiveOf(w.organizations) /\ Sound(w) /\ Clean(w)
    BY <1>2, <1>7
  <2>4. /\ Sound(v) /\ Clean(v) /\ (\A G : Grows(G, w, v)) /\ Ranks(w, v)
        /\ \A x \in DOMAIN w.organizations : x # o => v.organizations[x] = w.organizations[x]
        /\ v.organizations[o].members = m
    BY <2>2, <2>3, RelistedLedger
  <2>5. Grows(F, Ledger, v) /\ Ranks(Ledger, v)
    <3>1. Grows(F, w, v)
      BY <2>4
    <3> QED
      BY <1>8, <2>4, <3>1, GrowsTransitive, RanksTransitive
  <2>6. Armed(o, fraction - n) = Unaffiliated
    BY <1>1, <1>2, <1>12 DEF Armed
  <2>7. Moves(p, Unaffiliated)
    BY <1>1, <2>6 DEF Moves
  <2>8. /\ Unaffiliated \in [organization: Nat, fraction: Nat]
        /\ Unaffiliated.organization = NoOrganization
        /\ (Unaffiliated.fraction > 0) = (Unaffiliated.organization # NoOrganization)
    BY DEF NoOrganization, Unaffiliated
  <2>9. \A x \in DOMAIN organizations :
          v.organizations[x].members \ {p} = organizations[x].members \ {p}
    BY <1>7, <2>4 DEF m
  <2>10. \A x \in ActiveOf(organizations) : x # Unaffiliated.organization =>
          \/ p \notin v.organizations[x].members
          \/ people[p].organization # x /\ v.organizations[x].members = organizations[x].members
    BY <1>7, <2>4 DEF m, o, ActiveOf
  <2>11. UNCHANGED <<peaceVars, protos>> /\ handler # "ecology" /\ Becomes(v)
    BY <1>1, <1>9
  <2>12. Belong'
    BY <2>5, <2>7, <2>8, <2>9, <2>10, <2>11, OneMoves
  <2> QED
    BY <1>9, <2>4, <2>5, <2>11, <2>12, InvKept, RanksUnsettled DEF F
<1> QED
  BY <1>11, <1>12

LEMMA DefectKeeps ==
  ASSUME Inv, NEW p \in Persons, NEW rival \in DOMAIN organizations, Defect(p, rival),
         UNCHANGED <<logisticsVars, interventions, peaceVars>>
  PROVE  Inv' /\ Staying
<1> DEFINE o == people[p].organization
           fraction == people[p].fraction
           left == RemoveFighters(Ledger, o, Residence[p], fraction)
           u == left.world
           joined == IF left.removed = 0 THEN u
                     ELSE AddFighters(u, rival, Residence[p], left.removed)
           m == joined.organizations[o].members \ {p}
           w == [joined EXCEPT !.organizations = Listing(@, o, m)]
           n == joined.organizations[rival].members \cup {p}
           v == [joined EXCEPT !.organizations[o].members = @ \ {p},
                               !.organizations[rival].members = @ \cup {p}]
           F == Foreigners(organizations)
<1>1. /\ PersonVisited(p) /\ Incumbent(p) /\ Active(rival) /\ rival # o
      /\ people' = [people EXCEPT ![p].organization = rival]
      /\ Becomes(v)
  BY ZenonT(60) DEF Defect
<1>2. /\ o \in ActiveOf(organizations) /\ o # 0 /\ fraction \in Nat /\ o \notin F
      /\ rival \in ActiveOf(organizations) /\ rival \notin F
      /\ o \in DOMAIN organizations
  BY <1>1, IncumbentIs, InsurgentsAreNotForeign, Zenon DEF ActiveOf, Active
<1>3. Sound(Ledger) /\ Clean(Ledger) /\ Belong
  BY DEF Inv
<1>4. /\ Residence[p] \in Localities /\ fraction \in Int
      /\ o \in ActiveOf(Ledger.organizations) /\ DOMAIN formations \subseteq DOMAIN Ledger.formations
  <2>1. Residence[p] \in Localities
    BY EcologyAssumption
  <2> HIDE DEF o, fraction
  <2> QED
    BY <1>2, <2>1, LedgerIs
<1>5. p \in organizations[o].members /\ fraction > 0
  BY <1>2, <1>3 DEF Belong, NoOrganization
<1>6. rival \in Nat /\ rival # 0
  BY <1>3, ListFacts, LedgerIs DEF Sound, Organizations
<1> DEFINE member == [organization |-> rival, fraction |-> fraction]
<1>7. Moves(p, member) /\ people[p] = [organization |-> o, fraction |-> fraction]
  <2>1. people[p] = [organization |-> o, fraction |-> fraction]
    BY <1>3 DEF Belong
  <2>2. [people[p] EXCEPT !.organization = rival] = member
    BY <2>1
  <2>3. people' = [people EXCEPT ![p] = [people[p] EXCEPT !.organization = rival]]
    BY <1>1, <1>3, Zenon DEF Belong
  <2> HIDE DEF member
  <2> QED
    BY <2>1, <2>2, <2>3, Zenon DEF Moves
<1> HIDE DEF fraction, F
<1>8. /\ Sound(u) /\ Clean(u) /\ (\A G : o \notin G => Grows(G, Ledger, u))
      /\ u.organizations = organizations /\ left.removed \in Int
      /\ DOMAIN u.formations = DOMAIN formations
  <2> HIDE DEF o
  <2> QED
    BY <1>3, <1>4, RemoveFightersLedger, LedgerIs
<1>9. Grows(F, Ledger, u) /\ Ranks(Ledger, u)
  BY <1>2, <1>8, LedgerIs DEF Ranks
<1> HIDE DEF left, u, o
<1>10. /\ Sound(joined) /\ Clean(joined) /\ Grows(F, u, joined) /\ Ranks(u, joined)
       /\ \A x \in DOMAIN organizations : joined.organizations[x].members = organizations[x].members
  <2>1. CASE left.removed = 0
    <3>1. joined = u
      BY <2>1
    <3>2. Ranks(u, u) /\ Grows(F, u, u)
      BY <1>8 DEF Ranks, Grows, Kept
    <3> QED
      BY <1>8, <3>1, <3>2
  <2>2. CASE left.removed # 0
    <3> DEFINE j == AddFighters(u, rival, Residence[p], left.removed)
    <3>1. joined = j
      BY <2>2
    <3>2. rival \in ActiveOf(u.organizations) /\ DOMAIN formations \subseteq DOMAIN u.formations
      BY <1>2, <1>8
    <3>3. /\ Sound(j) /\ Clean(j) /\ (\A G : rival \notin G => Grows(G, u, j)) /\ Ranks(u, j)
          /\ \A x \in DOMAIN u.organizations : j.organizations[x].members = u.organizations[x].members
      BY <1>4, <1>8, <3>2, AddFightersLedger, ZenonT(60)
    <3> HIDE DEF joined, j
    <3> QED
      BY <1>2, <1>8, <3>1, <3>3
  <2> QED
    BY <2>1, <2>2
<1>11. Grows(F, Ledger, joined) /\ Ranks(Ledger, joined)
  BY <1>9, <1>10, GrowsTransitive, RanksTransitive
<1> HIDE DEF joined
<1>12. ActiveOf(joined.organizations) = ActiveOf(organizations)
  BY <1>11, RanksActive, LedgerIs
<1>13. /\ w.organizations = Listing(joined.organizations, o, m) /\ w.formations = joined.formations
       /\ w.sources = joined.sources /\ w.pools = joined.pools /\ w.reserves = joined.reserves
       /\ DOMAIN w = LedgerFields
  BY <1>10 DEF Sound, LedgerFields
<1>14. /\ Sound(w) /\ Clean(w) /\ (\A G : Grows(G, joined, w)) /\ Ranks(joined, w)
       /\ \A x \in DOMAIN joined.organizations : x # o => w.organizations[x] = joined.organizations[x]
       /\ w.organizations[o].members = m
  <2>1. o \in ActiveOf(joined.organizations) /\ Sound(joined) /\ Clean(joined)
    BY <1>2, <1>10, <1>12
  <2> HIDE DEF w, m
  <2>2. (\A G : Grows(G, joined, w)) /\ Ranks(joined, w)
    BY <1>13, <2>1, RelistedLedger
  <2>3. Sound(w) /\ Clean(w) /\ w.organizations[o].members = m
    BY <1>13, <2>1, <2>2, RelistedLedger
  <2>4. \A x \in DOMAIN joined.organizations : x # o => w.organizations[x] = joined.organizations[x]
    BY <1>13, <2>1 DEF Listing, Sound, Organizations
  <2> QED
    BY <2>2, <2>3, <2>4
<1>15. /\ v.organizations = Listing(w.organizations, rival, n) /\ v.formations = w.formations
       /\ v.sources = w.sources /\ v.pools = w.pools /\ v.reserves = w.reserves
       /\ DOMAIN v = LedgerFields
  <2>1. DOMAIN joined = LedgerFields /\ Organizations(joined.organizations)
    BY <1>10 DEF Sound
  <2>2. rival \in DOMAIN joined.organizations /\ o \in DOMAIN joined.organizations
    BY <1>2, <1>12 DEF ActiveOf
  <2>3. v.organizations = [[joined.organizations EXCEPT ![o].members = m] EXCEPT ![rival].members = n]
    BY <1>1, <2>1, <2>2 DEF LedgerFields, Organizations
  <2>4. v.organizations = Listing(Listing(joined.organizations, o, m), rival, n)
    BY <2>3 DEF Listing
  <2> QED
    BY <1>13, <2>1, <2>4 DEF LedgerFields
<1> HIDE DEF w, v, n, m
<1>16. /\ Sound(v) /\ Clean(v) /\ (\A G : Grows(G, w, v)) /\ Ranks(w, v)
       /\ \A x \in DOMAIN w.organizations : x # rival => v.organizations[x] = w.organizations[x]
       /\ v.organizations[rival].members = n
  <2>1. rival \in ActiveOf(w.organizations) /\ Sound(w) /\ Clean(w)
    BY <1>2, <1>12, <1>14, RanksActive
  <2> QED
    BY <1>15, <2>1, RelistedLedger
<1>17. Grows(F, Ledger, v) /\ Ranks(Ledger, v)
  <2>1. Grows(F, joined, w) /\ Grows(F, w, v)
    BY <1>14, <1>16
  <2>2. Grows(F, Ledger, w) /\ Ranks(Ledger, w)
    BY <1>11, <1>14, <2>1, GrowsTransitive, RanksTransitive
  <2> QED
    BY <1>16, <2>1, <2>2, GrowsTransitive, RanksTransitive
<1>18. handler = "recruitment" /\ protos' = protos /\ Visits'
  BY <1>1, PersonVisitedIs
<1>19. /\ DOMAIN joined.organizations = DOMAIN organizations
       /\ DOMAIN w.organizations = DOMAIN organizations
  BY <1>11, <1>14, LedgerIs DEF Ranks
<1>20. \A x \in DOMAIN organizations :
         /\ x # o /\ x # rival => v.organizations[x].members = organizations[x].members
         /\ x = o => v.organizations[x].members = organizations[x].members \ {p}
         /\ x = rival => v.organizations[x].members = organizations[x].members \cup {p}
  BY <1>1, <1>10, <1>14, <1>16, <1>19 DEF m, n
<1>21. /\ member \in [organization: Nat, fraction: Nat] /\ member.organization = rival
       /\ (member.fraction > 0) = (member.organization # NoOrganization)
  BY <1>2, <1>5, <1>6 DEF NoOrganization
<1>22. /\ member.organization \in DOMAIN organizations
       /\ p \in v.organizations[member.organization].members
  BY <1>20, <1>21
<1>23. \A x \in DOMAIN organizations :
         v.organizations[x].members \ {p} = organizations[x].members \ {p}
  BY <1>20
<1>24. \A x \in ActiveOf(organizations) : x # member.organization =>
          \/ p \notin v.organizations[x].members
          \/ people[p].organization # x /\ v.organizations[x].members = organizations[x].members
  BY <1>20, <1>21 DEF o, ActiveOf
<1>25. UNCHANGED <<peaceVars, protos>> /\ handler # "ecology" /\ Becomes(v)
  BY <1>1, <1>18
<1> HIDE DEF member
<1>26. Belong'
  BY <1>7, <1>17, <1>21, <1>22, <1>23, <1>24, <1>25, OneMoves
<1> QED
  BY <1>16, <1>17, <1>18, <1>25, <1>26, InvKept, RanksUnsettled, Zenon DEF F

LEMMA RecruitmentKeeps ==
  ASSUME Inv, RecruitmentNext, UNCHANGED <<logisticsVars, interventions, peaceVars>>
  PROVE  Inv' /\ Staying
<1>1. ASSUME UNCHANGED <<ledgerVars, ecologyVars>>, handler # "ecology" PROVE Belong'
  <2>1. Becomes(Ledger) /\ Ranks(Ledger, Ledger)
    BY <1>1 DEF Becomes, Ledger, ledgerVars, Ranks
  <2>2. \A o \in DOMAIN organizations : Ledger.organizations[o].members = organizations[o].members
    BY LedgerIs
  <2> QED
    BY <1>1, <2>1, <2>2, BelongSame
<1>2. CASE RecruitAndRetain
  <2>1. handler # "ecology" /\ Visits' /\ UNCHANGED <<ledgerVars, ecologyVars>>
    BY <1>2 DEF RecruitAndRetain, Begin, Visits, Idle
  <2> QED
    BY <1>1, <2>1, InvSame
<1>3. CASE SynchronizeMemberships
  <2> DEFINE v == Synchronized(Ledger, people)
             F == Foreigners(organizations)
  <2>1. handler = "recruitment" /\ Visits' /\ handler' # "ecology" /\ Becomes(v) /\ UNCHANGED ecologyVars
    BY <1>3 DEF SynchronizeMemberships, Visiting, Begin, Visits
  <2>2. /\ Sound(v) /\ Clean(v) /\ (\A G : Grows(G, Ledger, v)) /\ Ranks(Ledger, v)
        /\ \A o \in DOMAIN organizations : v.organizations[o].members =
             IF o \in ActiveOf(organizations) THEN Following(people, o)
             ELSE organizations[o].members
    BY SynchronizedLedger, LedgerIs DEF Inv
  <2> HIDE DEF v
  <2>3. ActiveOf(organizations') = ActiveOf(organizations) /\ DOMAIN organizations' = DOMAIN organizations
    BY <2>1, <2>2, RanksActive, LedgerIs DEF Becomes, Ranks
  <2>4. Belong'
    <3>1. Belong /\ people' = people /\ protos' = protos
      BY <2>1 DEF Inv, ecologyVars
    <3>2. organizations' = v.organizations /\ ActiveOf(organizations) \subseteq DOMAIN organizations
      BY <2>1 DEF Becomes, ActiveOf
    <3>3. \A p \in Persons : people[p].organization # NoOrganization =>
            /\ people[p].organization \in DOMAIN organizations'
            /\ p \in organizations'[people[p].organization].members
      BY <2>2, <2>3, <3>1, <3>2 DEF Belong, Following
    <3>4. \A o \in ActiveOf(organizations) :
            organizations'[o].members = {p \in Persons : people[p].organization = o}
      BY <2>2, <3>2 DEF Following
    <3> QED
      BY <2>3, <3>1, <3>3, <3>4 DEF Belong
  <2>5. Grows(F, Ledger, v)
    BY <2>2
  <2> QED
    BY <2>1, <2>2, <2>4, <2>5, InvKept, RanksUnsettled
<1>4. ASSUME NEW p \in Persons, Abide(p) PROVE Inv' /\ Staying
  <2>1. handler = "recruitment" /\ Visits' /\ UNCHANGED <<ledgerVars, ecologyVars>>
    BY <1>4, PersonVisitedIs DEF Abide, ecologyVars
  <2> QED
    BY <1>1, <2>1, InvSame
<1>5. ASSUME NEW p \in Persons, NEW n \in 1 .. Cohorts, Exit(p, n) PROVE Inv' /\ Staying
  BY <1>5, ExitKeeps
<1>6. ASSUME NEW p \in Persons, NEW n \in 1 .. Cohorts, NEW o \in DOMAIN organizations, Recruit(p, o, n)
      PROVE  Inv' /\ Staying
  BY <1>6, RecruitKeeps
<1>7. ASSUME NEW p \in Persons, NEW o \in DOMAIN organizations, Defect(p, o) PROVE Inv' /\ Staying
  BY <1>7, DefectKeeps
<1> QED
  BY <1>2, <1>3, <1>4, <1>5, <1>6, <1>7 DEF RecruitmentNext

\* Other values for the organizations there are.
LEMMA Rewritten ==
  ASSUME NEW F, NEW w, Sound(w), NEW orgs, orgs = [o \in DOMAIN w.organizations |-> orgs[o]],
         \A o \in DOMAIN w.organizations :
           /\ DOMAIN orgs[o] = OrganizationFields /\ orgs[o].resources \in Int
           /\ orgs[o].kind = w.organizations[o].kind
  PROVE  LET v == [w EXCEPT !.organizations = orgs] IN
         /\ Sound(v) /\ Grows(F, w, v) /\ v.organizations = orgs
         /\ DOMAIN orgs = DOMAIN w.organizations
         /\ v.formations = w.formations /\ v.sources = w.sources
         /\ v.pools = w.pools /\ v.reserves = w.reserves
<1> DEFINE v == [w EXCEPT !.organizations = orgs]
<1>1. IsList(orgs) /\ DOMAIN orgs = DOMAIN w.organizations
  BY ListMap DEF Sound, Organizations
<1>2. Organizations(orgs)
  BY <1>1 DEF Sound, Organizations
<1>3. /\ Sound(v) /\ v.organizations = orgs /\ v.formations = w.formations
      /\ v.sources = w.sources /\ v.pools = w.pools /\ v.reserves = w.reserves
  BY <1>2, NewOrganizations
<1> HIDE DEF v
<1>4. Grows(F, w, v)
  BY <1>1, <1>3 DEF Grows, Kept
<1> QED
  BY <1>1, <1>3, <1>4 DEF v

LEMMA SettledLedger ==
  ASSUME NEW w, Sound(w), NEW S, NEW from, NEW to,
         NEW v, v = Settled(w, S, from, to)
  PROVE  /\ Sound(v) /\ (\A F : Grows(F, w, v))
         /\ DOMAIN v.organizations = DOMAIN w.organizations
         /\ \A o \in DOMAIN w.organizations :
              /\ v.organizations[o].kind = w.organizations[o].kind
              /\ v.organizations[o].resources = w.organizations[o].resources
              /\ v.organizations[o].members = w.organizations[o].members
              /\ o \in S /\ w.organizations[o].status \in from => v.organizations[o].status = to
              /\ o \notin S \/ w.organizations[o].status \notin from =>
                   v.organizations[o].status = w.organizations[o].status
         /\ v.formations = w.formations /\ v.sources = w.sources
         /\ v.pools = w.pools /\ v.reserves = w.reserves
<1> DEFINE orgs == [o \in DOMAIN w.organizations |->
              IF o \in S /\ w.organizations[o].status \in from
              THEN [w.organizations[o] EXCEPT !.status = to] ELSE w.organizations[o]]
<1>1. v = [w EXCEPT !.organizations = orgs]
  BY DEF Settled, Sound, LedgerFields
<1>2. \A o \in DOMAIN w.organizations :
        /\ DOMAIN orgs[o] = OrganizationFields
        /\ orgs[o].kind = w.organizations[o].kind
        /\ orgs[o].resources = w.organizations[o].resources
        /\ orgs[o].resources \in Int
        /\ orgs[o].members = w.organizations[o].members
        /\ o \in S /\ w.organizations[o].status \in from => orgs[o].status = to
        /\ o \notin S \/ w.organizations[o].status \notin from =>
             orgs[o].status = w.organizations[o].status
  BY DEF Sound, Organizations, OrganizationFields
<1>3. orgs = [o \in DOMAIN w.organizations |-> orgs[o]]
  OBVIOUS
<1> HIDE DEF orgs
<1>4. /\ Sound(v) /\ (\A F : Grows(F, w, v)) /\ v.organizations = orgs
      /\ DOMAIN orgs = DOMAIN w.organizations
      /\ v.formations = w.formations /\ v.sources = w.sources
      /\ v.pools = w.pools /\ v.reserves = w.reserves
  BY <1>1, <1>2, <1>3, Rewritten
<1> QED
  BY <1>2, <1>4

\* The party is paid from what there is, of nothing nothing.
LEMMA EnsurePartyOrganization ==
  ASSUME NEW g, DOMAIN g = OrganizationFields, g.resources \in Int
  PROVE  LET h == EnsureParty(g) IN
         /\ DOMAIN h = OrganizationFields /\ h.resources \in Int
         /\ h.kind = g.kind /\ h.status = g.status /\ h.members = g.members
         /\ g.resources = 0 => h.resources = 0
<1>1. CASE g.party
  BY <1>1 DEF EnsureParty
<1>2. CASE ~g.party
  <2> DEFINE share == g.resources \div 2
  <2>1. share \in Int /\ (g.resources = 0 => share = 0)
    OBVIOUS
  <2>2. EnsureParty(g) = [g EXCEPT !.resources = @ - share, !.party = TRUE, !.branches = share]
    BY <1>2 DEF EnsureParty
  <2> HIDE DEF share
  <2> QED
    BY <2>1, <2>2 DEF OrganizationFields
<1> QED
  BY <1>1, <1>2

Incorporated(w, S) ==
  [w EXCEPT !.organizations = [o \in DOMAIN @ |-> IF o \in S THEN EnsureParty(@[o]) ELSE @[o]]]

LEMMA IncorporatedLedger ==
  ASSUME NEW w, Sound(w), Clean(w), NEW S, NEW v, v = Incorporated(w, S)
  PROVE  /\ Sound(v) /\ Clean(v) /\ (\A F : Grows(F, w, v)) /\ Ranks(w, v)
         /\ \A o \in DOMAIN w.organizations : v.organizations[o].members = w.organizations[o].members
<1> DEFINE orgs == [o \in DOMAIN w.organizations |->
              IF o \in S THEN EnsureParty(w.organizations[o]) ELSE w.organizations[o]]
<1>1. v = [w EXCEPT !.organizations = orgs]
  BY DEF Incorporated, Sound, LedgerFields
<1>2. \A o \in DOMAIN w.organizations :
        /\ DOMAIN orgs[o] = OrganizationFields /\ orgs[o].resources \in Int
        /\ orgs[o].kind = w.organizations[o].kind /\ orgs[o].status = w.organizations[o].status
        /\ orgs[o].members = w.organizations[o].members
        /\ w.organizations[o].resources = 0 => orgs[o].resources = 0
  BY EnsurePartyOrganization DEF Sound, Organizations
<1>3. orgs = [o \in DOMAIN w.organizations |-> orgs[o]]
  OBVIOUS
<1> HIDE DEF orgs
<1>4. /\ Sound(v) /\ (\A F : Grows(F, w, v)) /\ v.organizations = orgs
      /\ DOMAIN orgs = DOMAIN w.organizations
      /\ v.formations = w.formations /\ v.sources = w.sources
      /\ v.pools = w.pools /\ v.reserves = w.reserves
  BY <1>1, <1>2, <1>3, Rewritten
<1>5. Ranks(w, v)
  BY <1>2, <1>4 DEF Ranks
<1>6. Clean(v)
  BY <1>2, <1>4, <1>5, CleanStep
<1> QED
  BY <1>2, <1>4, <1>5, <1>6

LEMMA DemobilizedLedger ==
  ASSUME NEW F, NEW w, Sound(w), Clean(w), NEW amount, NEW arms,
         \A f \in DOMAIN amount : amount[f] \in Int,
         \A f \in DOMAIN amount \cap DOMAIN w.formations : w.formations[f].organization \notin F
  PROVE  LET v == Demobilized(w, amount, arms) IN
         /\ Sound(v) /\ Clean(v) /\ Grows(F, w, v) /\ v.organizations = w.organizations
<1> DEFINE forms == [f \in DOMAIN w.formations |->
              IF f \in DOMAIN amount
              THEN HandingIn(w.formations[f], amount[f], arms[f]) ELSE w.formations[f]]
           v == Demobilized(w, amount, arms)
<1>1. /\ v.organizations = w.organizations /\ v.formations = forms
      /\ v.sources = w.sources /\ v.pools = w.pools /\ v.reserves = w.reserves
      /\ DOMAIN v = LedgerFields
  <2>1. v = [w EXCEPT !.formations = forms,
                      !.demobilized = [personnel |-> @.personnel + SumFunction(amount),
                                       arms |-> @.arms + SumFunction(arms)]]
    BY DEF Demobilized, Sound, LedgerFields
  <2> HIDE DEF v, forms
  <2> QED
    BY <2>1 DEF Sound, LedgerFields
<1>2. \A f \in DOMAIN w.formations :
        /\ DOMAIN forms[f] = FormationFields /\ forms[f].organization = w.formations[f].organization
        /\ forms[f].locality = w.formations[f].locality
        /\ forms[f].moving = w.formations[f].moving /\ forms[f].outside = w.formations[f].outside
        /\ forms[f].personnel \in Int
        /\ f \notin DOMAIN amount => forms[f] = w.formations[f]
  <2>1. ASSUME NEW f \in DOMAIN w.formations
        PROVE  /\ DOMAIN forms[f] = FormationFields
               /\ forms[f].organization = w.formations[f].organization
               /\ forms[f].locality = w.formations[f].locality
               /\ forms[f].moving = w.formations[f].moving
               /\ forms[f].outside = w.formations[f].outside
               /\ forms[f].personnel \in Int
               /\ f \notin DOMAIN amount => forms[f] = w.formations[f]
    <3>1. DOMAIN w.formations[f] = FormationFields /\ w.formations[f].personnel \in Int
      BY DEF Sound, Formations
    <3>2. CASE f \notin DOMAIN amount
      BY <3>1, <3>2
    <3>3. CASE f \in DOMAIN amount
      <4>1. forms[f] = [w.formations[f] EXCEPT !.personnel = @ - amount[f], !.stock = @ - arms[f]]
        BY <3>3, Zenon DEF HandingIn
      <4>2. w.formations[f].personnel - amount[f] \in Int
        BY <3>1, <3>3
      <4> HIDE DEF forms
      <4> QED
        BY <3>1, <3>3, <4>1, <4>2 DEF FormationFields
    <3> QED
      BY <3>2, <3>3
  <2> QED
    BY <2>1
<1>3. IsList(forms) /\ DOMAIN forms = DOMAIN w.formations
  BY ListMap DEF Sound, Formations
<1> HIDE DEF forms, v
<1>4. Formations(forms)
  BY <1>2, <1>3 DEF Sound, Formations
<1>5. Sound(v)
  BY <1>1, <1>4 DEF Sound
<1>6. Grows(F, w, v)
  <2>1. \A f \in DOMAIN w.formations : Kept(F, w.formations[f], forms[f])
    BY <1>2 DEF Kept
  <2> QED
    BY <1>1, <1>3, <2>1 DEF Grows
<1>7. Clean(v)
  <2>1. Ranks(w, v)
    BY <1>1 DEF Ranks
  <2> QED
    BY <1>1, <1>2, <1>3, <2>1, CleanStep
<1> QED
  BY <1>1, <1>5, <1>6, <1>7 DEF v

LEMMA DemobilizedPoolsLedger ==
  ASSUME NEW w, Sound(w), NEW os, NEW v, v = DemobilizedPools(w, os)
  PROVE  /\ Sound(v) /\ (\A F : Grows(F, w, v))
         /\ v.organizations = w.organizations /\ v.formations = w.formations
         /\ v.sources = w.sources
         /\ \A k \in Keys : k[1] \in os => v.pools[k] = 0 /\ v.reserves[k] = 0
         /\ \A k \in Keys : k[1] \notin os =>
              v.pools[k] = w.pools[k] /\ v.reserves[k] = w.reserves[k]
<1>1. /\ v.organizations = w.organizations /\ v.formations = w.formations
      /\ v.sources = w.sources /\ DOMAIN v = LedgerFields
      /\ v.pools = [k \in Keys |-> IF k[1] \in os THEN 0 ELSE w.pools[k]]
      /\ v.reserves = [k \in Keys |-> IF k[1] \in os THEN 0 ELSE w.reserves[k]]
  BY DEF DemobilizedPools, Sound, LedgerFields
<1>2. Sound(v)
  BY <1>1 DEF Sound
<1>3. \A F : Grows(F, w, v)
  BY <1>1 DEF Grows, Kept
<1> QED
  BY <1>1, <1>2, <1>3

\* An agreement that is carried out makes political organizations of those who signed
\* it, with nothing unfielded; one that fails afterwards makes them active.
LEMMA CompletedLedger ==
  ASSUME NEW w, Sound(w), Clean(w), NEW S, NEW v, v = Completed(w, S)
  PROVE  /\ Sound(v) /\ Clean(v) /\ (\A F : Grows(F, w, v))
         /\ DOMAIN v.organizations = DOMAIN w.organizations
         /\ \A o \in DOMAIN w.organizations :
              /\ v.organizations[o].members = w.organizations[o].members
              /\ v.organizations[o].status = IF o \in S /\ w.organizations[o].status \in Statuses
                                             THEN "political" ELSE w.organizations[o].status
<1> DEFINE u == Settled(w, S, Statuses, "political")
<1>1. /\ Sound(u) /\ (\A F : Grows(F, w, u))
      /\ DOMAIN u.organizations = DOMAIN w.organizations
      /\ \A o \in DOMAIN w.organizations :
           /\ u.organizations[o].kind = w.organizations[o].kind
           /\ u.organizations[o].resources = w.organizations[o].resources
           /\ u.organizations[o].members = w.organizations[o].members
           /\ o \in S /\ w.organizations[o].status \in Statuses =>
                u.organizations[o].status = "political"
           /\ o \notin S \/ w.organizations[o].status \notin Statuses =>
                u.organizations[o].status = w.organizations[o].status
      /\ u.formations = w.formations /\ u.sources = w.sources
      /\ u.pools = w.pools /\ u.reserves = w.reserves
  BY SettledLedger
<1>2. v = DemobilizedPools(u, S)
  BY DEF Completed
<1> HIDE DEF u
<1>3. /\ Sound(v) /\ (\A F : Grows(F, u, v))
      /\ v.organizations = u.organizations /\ v.formations = u.formations
      /\ v.sources = u.sources
      /\ \A k \in Keys : k[1] \in S => v.pools[k] = 0 /\ v.reserves[k] = 0
      /\ \A k \in Keys : k[1] \notin S =>
           v.pools[k] = u.pools[k] /\ v.reserves[k] = u.reserves[k]
  BY <1>1, <1>2, DemobilizedPoolsLedger
<1>4. \A F : Grows(F, w, v)
  BY <1>1, <1>3, GrowsTransitive
<1>5. Clean(v)
  <2>1. ASSUME NEW k \in Keys, k[1] \notin ActiveOf(v.organizations)
        PROVE  v.pools[k] = 0 /\ v.reserves[k] = 0
    <3>1. k[1] \notin S => k[1] \notin ActiveOf(w.organizations)
      BY <1>1, <1>3, <2>1 DEF ActiveOf
    <3> QED
      BY <1>1, <1>3, <3>1 DEF Clean
  <2>2. \A o \in DOMAIN v.organizations :
          v.organizations[o].status \in {"fragmented", "merged", "collapsed"} =>
            v.organizations[o].status = w.organizations[o].status
    BY <1>1, <1>3
  <2>3. \A o \in DOMAIN v.organizations :
          v.organizations[o].status \in {"fragmented", "merged", "collapsed"} =>
            v.organizations[o].members = {}
    BY <1>1, <1>3, <2>2 DEF Clean
  <2>4. \A o \in DOMAIN v.organizations : v.organizations[o].status \in {"fragmented", "merged"} =>
          /\ v.organizations[o].kind = "insurgent" /\ v.organizations[o].resources = 0
          /\ \A f \in DOMAIN v.formations : v.formations[f].organization # o
          /\ \A s \in DOMAIN v.sources : v.sources[s].organization # o
    BY <1>1, <1>3, <2>2 DEF Clean
  <2> QED
    BY <2>1, <2>3, <2>4 DEF Clean
<1> QED
  BY <1>1, <1>3, <1>4, <1>5

LEMMA FailedLedger ==
  ASSUME NEW w, Sound(w), Clean(w), NEW S, NEW v, v = Failed(w, S)
  PROVE  /\ Sound(v) /\ Clean(v) /\ (\A F : Grows(F, w, v))
         /\ DOMAIN v.organizations = DOMAIN w.organizations
         /\ \A o \in DOMAIN w.organizations :
              /\ v.organizations[o].members = w.organizations[o].members
              /\ v.organizations[o].status = IF o \in S /\ w.organizations[o].status = "political"
                                             THEN "active" ELSE w.organizations[o].status
<1> DEFINE from == {"political"}
           to == "active"
<1>0. v = Settled(w, S, from, to)
  BY DEF Failed
<1> HIDE DEF from, to
<1>1. /\ Sound(v) /\ (\A F : Grows(F, w, v))
      /\ DOMAIN v.organizations = DOMAIN w.organizations
      /\ \A o \in DOMAIN w.organizations :
           /\ v.organizations[o].kind = w.organizations[o].kind
           /\ v.organizations[o].resources = w.organizations[o].resources
           /\ v.organizations[o].members = w.organizations[o].members
           /\ o \in S /\ w.organizations[o].status \in from => v.organizations[o].status = to
           /\ o \notin S \/ w.organizations[o].status \notin from =>
                v.organizations[o].status = w.organizations[o].status
      /\ v.formations = w.formations /\ v.sources = w.sources
      /\ v.pools = w.pools /\ v.reserves = w.reserves
  BY <1>0, SettledLedger
<1> USE DEF from, to
<1>2. Clean(v)
  <2>1. \A k \in Keys : k[1] \notin ActiveOf(v.organizations) => k[1] \notin ActiveOf(w.organizations)
    BY <1>1 DEF ActiveOf
  <2>2. \A k \in Keys : k[1] \notin ActiveOf(v.organizations) => v.pools[k] = 0 /\ v.reserves[k] = 0
    BY <1>1, <2>1 DEF Clean
  <2>3. \A o \in DOMAIN v.organizations :
          v.organizations[o].status \in {"fragmented", "merged", "collapsed"} =>
            v.organizations[o].status = w.organizations[o].status
    BY <1>1
  <2>4. \A o \in DOMAIN v.organizations :
          v.organizations[o].status \in {"fragmented", "merged", "collapsed"} =>
            v.organizations[o].members = {}
    BY <1>1, <2>3 DEF Clean
  <2>5. \A o \in DOMAIN v.organizations : v.organizations[o].status \in {"fragmented", "merged"} =>
          /\ v.organizations[o].kind = "insurgent" /\ v.organizations[o].resources = 0
          /\ \A f \in DOMAIN v.formations : v.formations[f].organization # o
          /\ \A s \in DOMAIN v.sources : v.sources[s].organization # o
    BY <1>1, <2>3 DEF Clean
  <2> QED
    BY <2>2, <2>4, <2>5 DEF Clean
<1> QED
  BY <1>1, <1>2

-----------------------------------------------------------------------------
(* Income, and the births, ends and mergers of organizations.              *)

\* Income goes to governments and to active insurgents, so the gone stay without.
LEMMA EconomyKeeps ==
  ASSUME Inv, NEW income \in [DOMAIN organizations -> {0, 1}], Economy(income),
         UNCHANGED <<logisticsVars, interventions, peaceVars>>
  PROVE  Inv' /\ Staying
<1> DEFINE orgs == [o \in DOMAIN organizations |-> Paid(organizations[o], income[o])]
           u == [Ledger EXCEPT !.organizations = orgs]
           v == [Ledger EXCEPT
                   !.organizations = [o \in DOMAIN @ |-> Paid(@[o], income[o])],
                   !.expected.resources = @ + SumFunction(income)]
           F == Foreigners(organizations)
<1>1. /\ Idle /\ Becomes(v) /\ UNCHANGED <<handler, pending, ecologyVars>>
      /\ \A o \in DOMAIN organizations : income[o] > 0 =>
           organizations[o].kind = "government" \/ Active(o)
  BY DEF Economy
<1>2. Sound(Ledger) /\ Clean(Ledger)
  BY DEF Inv
<1>3. \A o \in DOMAIN organizations :
        /\ DOMAIN orgs[o] = OrganizationFields /\ orgs[o].resources \in Int
        /\ orgs[o].kind = organizations[o].kind /\ orgs[o].status = organizations[o].status
        /\ orgs[o].members = organizations[o].members
        /\ income[o] = 0 => orgs[o].resources = organizations[o].resources
  <2>1. ASSUME NEW o \in DOMAIN organizations
        PROVE  /\ DOMAIN orgs[o] = OrganizationFields /\ orgs[o].resources \in Int
               /\ orgs[o].kind = organizations[o].kind /\ orgs[o].status = organizations[o].status
               /\ orgs[o].members = organizations[o].members
               /\ income[o] = 0 => orgs[o].resources = organizations[o].resources
    <3>1. DOMAIN organizations[o] = OrganizationFields /\ organizations[o].resources \in Int
      BY <1>2, LedgerIs DEF Sound, Organizations
    <3>2. orgs[o] = [organizations[o] EXCEPT !.resources = @ + income[o]] /\ income[o] \in {0, 1}
      BY DEF Paid
    <3> HIDE DEF orgs
    <3> QED
      BY <3>1, <3>2 DEF OrganizationFields
  <2> QED
    BY <2>1
<1>4. orgs = [o \in DOMAIN organizations |-> orgs[o]]
  OBVIOUS
<1>5. v.organizations = orgs /\ v.formations = formations /\ v.sources = sources
      /\ v.pools = pools /\ v.reserves = reserves /\ DOMAIN v = LedgerFields
  BY DEF Ledger, LedgerFields
<1> HIDE DEF orgs, v, F
<1>6. IsList(orgs) /\ DOMAIN orgs = DOMAIN organizations
  BY <1>2, <1>4, ListMap, LedgerIs DEF Sound, Organizations
<1>7. Organizations(orgs)
  BY <1>2, <1>3, <1>6, LedgerIs DEF Sound, Organizations
<1>8. Sound(v)
  BY <1>2, <1>5, <1>7, LedgerIs DEF Sound
<1>9. Ranks(Ledger, v)
  BY <1>3, <1>5, <1>6, LedgerIs DEF Ranks
<1>10. Grows(F, Ledger, v)
  BY <1>3, <1>5, <1>6, LedgerIs DEF Grows, Kept
<1>11. Clean(v)
  <2>1. ASSUME NEW o \in DOMAIN organizations,
               organizations[o].status \in {"fragmented", "merged"}
        PROVE  v.organizations[o].resources = organizations[o].resources
    <3>1. organizations[o].kind = "insurgent"
      BY <1>2, <2>1, LedgerIs DEF Clean
    <3>2. ~(income[o] > 0) /\ income[o] \in {0, 1}
      BY <1>1, <2>1, <3>1 DEF Active
    <3> QED
      BY <1>3, <1>5, <3>2
  <2>2. ActiveOf(v.organizations) = ActiveOf(organizations)
    BY <1>9, RanksActive, LedgerIs
  <2>3. DOMAIN v.organizations = DOMAIN organizations
    BY <1>5, <1>6
  <2>4. \A o \in DOMAIN organizations :
          /\ v.organizations[o].kind = organizations[o].kind
          /\ v.organizations[o].status = organizations[o].status
          /\ v.organizations[o].members = organizations[o].members
    BY <1>3, <1>5
  <2> QED
    BY <1>2, <1>5, <2>1, <2>2, <2>3, <2>4, LedgerIs DEF Clean
<1>12. \A o \in DOMAIN organizations : v.organizations[o].members = organizations[o].members
  BY <1>3, <1>5
<1>13. UNCHANGED <<ecologyVars, peaceVars>> /\ (handler' # "ecology" => handler # "ecology")
  BY <1>1
<1>14. Belong'
  BY <1>1, <1>9, <1>12, <1>13, BelongSame
<1>15. Visits'
  BY <1>1 DEF Idle, Visits
<1> QED
  BY <1>1, <1>8, <1>9, <1>10, <1>11, <1>14, <1>15, InvKept, RanksUnsettled DEF F

\* A community or an organization is visited: the merger is still to come, and whoever
\* is to be visited after it is still active.
LEMMA EcologyGoesOn ==
  ASSUME Inv, NEW kind, NEW x, Ecology(kind, x), kind # "merge",
         \A o \in ActiveOf(organizations) : <<kind, x>> # <<"lifecycle", o>> =>
           o \in ActiveOf(organizations')
  PROVE  handler = "ecology" /\ handler' = "ecology" /\ Visits'
<1>1. /\ handler = "ecology" /\ pending # <<>> /\ Head(pending) = <<kind, x>>
      /\ pending' = Tail(pending)
      /\ handler' = IF Tail(pending) = <<>> THEN "idle" ELSE "ecology"
  BY DEF Ecology, Visiting, Begin
<1>2. /\ IsList(pending)
      /\ \A k \in DOMAIN pending : pending[k] = <<"merge", 0>> <=> k = Len(pending)
      /\ \A k \in DOMAIN pending : \A o : pending[k] = <<"lifecycle", o>> =>
           /\ o \in ActiveOf(organizations)
           /\ \A m \in DOMAIN pending : pending[m] = pending[k] => m = k
  BY <1>1 DEF Inv, Visits
<1> DEFINE rest == Tail(pending)
<1>3. /\ pending[1] = <<kind, x>> /\ 1 \in DOMAIN pending
      /\ IsList(rest) /\ Len(rest) = Len(pending) - 1
      /\ \A k \in DOMAIN rest : k + 1 \in DOMAIN pending /\ k + 1 # 1 /\ rest[k] = pending[k + 1]
  BY <1>1, <1>2, ListTail
<1> HIDE DEF rest
<1>4. /\ Len(pending) \in Nat /\ DOMAIN pending = 1 .. Len(pending)
      /\ Len(rest) \in Nat /\ DOMAIN rest = 1 .. Len(rest)
      /\ rest = <<>> <=> Len(rest) = 0
  BY <1>2, <1>3, ListFacts
<1>5. 1 # Len(pending)
  <2>1. <<kind, x>> # <<"merge", 0>>
    OBVIOUS
  <2> QED
    BY <1>2, <1>3, <2>1
<1>6. rest # <<>> /\ handler' = "ecology" /\ pending' = rest
  BY <1>1, <1>3, <1>4, <1>5 DEF rest
<1>7. \A k \in DOMAIN rest : rest[k] = <<"merge", 0>> <=> k = Len(rest)
  BY <1>2, <1>3, <1>4
<1>8. ASSUME NEW k \in DOMAIN rest, NEW o, rest[k] = <<"lifecycle", o>>
      PROVE  /\ o \in ActiveOf(organizations')
             /\ \A m \in DOMAIN rest : rest[m] = rest[k] => m = k
  <2>1. /\ k + 1 \in DOMAIN pending /\ k + 1 # 1 /\ pending[k + 1] = <<"lifecycle", o>>
        /\ pending[k + 1] = rest[k]
    BY <1>3, <1>8
  <2>2. /\ o \in ActiveOf(organizations)
        /\ \A m \in DOMAIN pending : pending[m] = pending[k + 1] => m = k + 1
    BY <1>2, <2>1
  <2>3. <<kind, x>> # <<"lifecycle", o>>
    BY <1>3, <2>1, <2>2
  <2>4. \A m \in DOMAIN rest : rest[m] = rest[k] => m = k
    <3>1. \A m \in DOMAIN rest : m + 1 \in DOMAIN pending /\ rest[m] = pending[m + 1]
      BY <1>3
    <3>2. \A m \in DOMAIN rest : rest[m] = rest[k] => m + 1 = k + 1
      BY <2>1, <2>2, <3>1
    <3> QED
      BY <1>4, <3>2
  <2> QED
    BY <2>2, <2>3, <2>4
<1>9. /\ IsList(pending') /\ pending' # <<>>
      /\ \A k \in DOMAIN pending' : pending'[k] = <<"merge", 0>> <=> k = Len(pending')
      /\ \A k \in DOMAIN pending' : \A o : pending'[k] = <<"lifecycle", o>> =>
           /\ o \in ActiveOf(organizations')
           /\ \A m \in DOMAIN pending' : pending'[m] = pending'[k] => m = k
  BY <1>3, <1>6, <1>7, <1>8
<1> QED
  BY <1>1, <1>6, <1>9 DEF Visits

LEMMA LastVisit ==
  ASSUME Inv, Ecology("merge", 0)
  PROVE  handler = "ecology" /\ handler' = "idle" /\ Visits'
<1>1. /\ handler = "ecology" /\ pending # <<>> /\ Head(pending) = <<"merge", 0>>
      /\ handler' = IF Tail(pending) = <<>> THEN "idle" ELSE "ecology"
  BY DEF Ecology, Visiting, Begin
<1>2. /\ IsList(pending)
      /\ \A k \in DOMAIN pending : pending[k] = <<"merge", 0>> <=> k = Len(pending)
  BY <1>1 DEF Inv, Visits
<1>3. Len(pending) = 1
  BY <1>1, <1>2, ListTail
<1>4. Tail(pending) = <<>>
  BY <1>1, <1>2, <1>3, ListTail, ListFacts
<1> QED
  BY <1>1, <1>4 DEF Visits

\* Who is visited is active and on nobody else's turn.
LEMMA LifecycleVisit ==
  ASSUME Inv, NEW o, Ecology("lifecycle", o)
  PROVE  o \in ActiveOf(organizations)
<1>1. handler = "ecology" /\ pending # <<>> /\ Head(pending) = <<"lifecycle", o>>
  BY DEF Ecology, Visiting
<1>2. IsList(pending) /\ \A k \in DOMAIN pending : \A x : pending[k] = <<"lifecycle", x>> =>
        x \in ActiveOf(organizations)
  BY <1>1 DEF Inv, Visits
<1>3. pending[1] = <<"lifecycle", o>> /\ 1 \in DOMAIN pending
  BY <1>1, <1>2, ListTail
<1> QED
  BY <1>2, <1>3

LEMMA EcologyBegins ==
  ASSUME Inv, ProcessOrganizationEcology
  PROVE  handler' = "ecology" /\ Visits'
<1> DEFINE A == [c \in DOMAIN Community |-> <<"form", c>>]
           B == [c \in DOMAIN Community |-> <<"mature", c>>]
           R == [o \in DOMAIN organizations |-> <<"lifecycle", o>>]
           C == Chosen(R, {"lifecycle"} \X ActiveOf(organizations))
           D == A \o B
           E == D \o C
           items == E \o <<<<"merge", 0>>>>
<1>1. Begin("ecology", items) /\ UNCHANGED organizations
  BY DEF ProcessOrganizationEcology, ledgerVars
<1>2. /\ IsList(A) /\ IsList(B)
      /\ \A k \in DOMAIN A : \E c : A[k] = <<"form", c>>
      /\ \A k \in DOMAIN B : \E c : B[k] = <<"mature", c>>
  <2>1. Len(Community) \in Nat /\ DOMAIN Community = 1 .. Len(Community)
    BY EcologyAssumption, LenProperties
  <2>2. IsList(A)
    BY <2>1, ListIntro
  <2>3. IsList(B)
    BY <2>1, ListIntro
  <2> QED
    BY <2>2, <2>3
<1>3. /\ IsList(C)
      /\ \A k \in DOMAIN C : \A o : C[k] = <<"lifecycle", o>> => o \in ActiveOf(organizations)
      /\ \A k \in DOMAIN C : C[k] # <<"merge", 0>>
      /\ \A k, m \in DOMAIN C : C[k] = C[m] => k = m
  <2>1. IsList(organizations)
    BY LedgerIs DEF Inv, Sound, Organizations
  <2>2. R = [i \in DOMAIN organizations |-> R[i]]
    OBVIOUS
  <2>3. IsList(R)
    BY <2>1, <2>2, ListMap
  <2>4. \A j, m \in DOMAIN R : R[j] = R[m] => j = m
    OBVIOUS
  <2> DEFINE among == {"lifecycle"} \X ActiveOf(organizations)
  <2>5. \A e \in among : e # <<"merge", 0>> /\ \A o : e = <<"lifecycle", o>> => o \in ActiveOf(organizations)
    OBVIOUS
  <2> HIDE DEF R, among
  <2> DEFINE c == Chosen(R, among)
  <2>6. /\ IsList(c)
        /\ \A k \in DOMAIN c : c[k] \in among
        /\ \A k, m \in DOMAIN c : c[k] = c[m] => k = m
    BY <2>3, <2>4, ChosenList
  <2> HIDE DEF c
  <2>7. /\ IsList(c)
        /\ \A k \in DOMAIN c : \A o : c[k] = <<"lifecycle", o>> => o \in ActiveOf(organizations)
        /\ \A k \in DOMAIN c : c[k] # <<"merge", 0>>
        /\ \A k, m \in DOMAIN c : c[k] = c[m] => k = m
    BY <2>5, <2>6
  <2> QED
    BY <2>7 DEF c, among
<1> HIDE DEF A, B, C
<1>4. /\ IsList(D) /\ \A k \in DOMAIN D : \E c : D[k] = <<"form", c>> \/ D[k] = <<"mature", c>>
  <2>1. /\ IsList(D) /\ \A i \in DOMAIN A : D[i] = A[i]
        /\ \A i \in DOMAIN D \ DOMAIN A : i - Len(A) \in DOMAIN B /\ D[i] = B[i - Len(A)]
    BY <1>2, ListCat
  <2> HIDE DEF D
  <2> QED
    BY <1>2, <2>1
<1> HIDE DEF D
<1>5. \A k \in DOMAIN D : D[k] # <<"merge", 0>> /\ \A o : D[k] # <<"lifecycle", o>>
  <2>1. ASSUME NEW k \in DOMAIN D PROVE D[k] # <<"merge", 0>> /\ \A o : D[k] # <<"lifecycle", o>>
    <3>1. PICK c : D[k] = <<"form", c>> \/ D[k] = <<"mature", c>>
      BY <1>4
    <3> QED
      BY <3>1
  <2> QED
    BY <2>1
<1>6. /\ IsList(E)
      /\ \A k \in DOMAIN E : E[k] # <<"merge", 0>>
      /\ \A k \in DOMAIN E : \A o : E[k] = <<"lifecycle", o>> =>
           /\ o \in ActiveOf(organizations)
           /\ \A m \in DOMAIN E : E[m] = E[k] => m = k
  <2>1. /\ IsList(E) /\ DOMAIN D \subseteq DOMAIN E
        /\ \A i \in DOMAIN D : E[i] = D[i]
        /\ \A i \in DOMAIN E \ DOMAIN D : i - Len(D) \in DOMAIN C /\ E[i] = C[i - Len(D)]
    BY <1>3, <1>4, ListCat
  <2>2. Len(D) \in Nat /\ DOMAIN E \subseteq Nat
    BY <1>4, <2>1, ListFacts
  <2> HIDE DEF E
  <2>3. \A k \in DOMAIN E : E[k] # <<"merge", 0>>
    BY <1>3, <1>5, <2>1
  <2>4. ASSUME NEW k \in DOMAIN E, NEW o, E[k] = <<"lifecycle", o>>
        PROVE  o \in ActiveOf(organizations) /\ \A m \in DOMAIN E : E[m] = E[k] => m = k
    <3>1. \A m \in DOMAIN E : E[m] = E[k] => m \notin DOMAIN D
      BY <1>5, <2>1, <2>4
    <3>2. k - Len(D) \in DOMAIN C /\ C[k - Len(D)] = <<"lifecycle", o>>
      BY <2>1, <2>4, <3>1
    <3>3. \A m \in DOMAIN E : E[m] = E[k] => m - Len(D) = k - Len(D)
      BY <1>3, <2>1, <2>4, <3>1, <3>2
    <3> QED
      BY <1>3, <2>2, <3>2, <3>3
  <2> QED
    BY <2>1, <2>3, <2>4
<1> HIDE DEF E
<1>7. /\ IsList(items) /\ Len(items) = Len(E) + 1
      /\ DOMAIN items = 1 .. Len(E) + 1
      /\ \A i \in DOMAIN E : items[i] = E[i]
      /\ items[Len(E) + 1] = <<"merge", 0>>
  <2> DEFINE end == <<"merge", 0>>
  <2> HIDE DEF end
  <2>1. IsList(<<end>>) /\ Len(<<end>>) = 1 /\ DOMAIN <<end>> = {1} /\ <<end>>[1] = end
    BY OneList
  <2>2. items = E \o <<end>>
    BY DEF end
  <2> HIDE DEF items
  <2> DEFINE one == <<end>>
  <2>3. items = E \o one /\ IsList(one) /\ Len(one) = 1 /\ 1 \in DOMAIN one /\ one[1] = end
    BY <2>1, <2>2
  <2> HIDE DEF one
  <2>4. /\ IsList(items) /\ Len(items) = Len(E) + Len(one)
        /\ DOMAIN items = 1 .. Len(E) + Len(one)
    BY <1>6, <2>3, ListCat
  <2>6. \A i \in DOMAIN E : items[i] = E[i]
    BY <1>6, <2>3, ListCat
  <2>7. items[Len(E) + 1] = one[1]
    <3>1. \A i \in DOMAIN items \ DOMAIN E : i - Len(E) \in DOMAIN one /\ items[i] = one[i - Len(E)]
      BY <1>6, <2>3, ListCat
    <3>2. Len(E) \in Nat /\ DOMAIN E = 1 .. Len(E)
      BY <1>6, ListFacts
    <3>3. Len(E) + 1 \in DOMAIN items \ DOMAIN E /\ (Len(E) + 1) - Len(E) = 1
      BY <2>3, <2>4, <3>2
    <3> QED
      BY <3>1, <3>3
  <2>5. items[Len(E) + 1] = end
    BY <2>3, <2>7
  <2> QED
    BY <2>3, <2>4, <2>5, <2>6 DEF end
<1>8. Len(E) \in Nat /\ DOMAIN E = 1 .. Len(E)
  BY <1>6, ListFacts
<1> HIDE DEF items
<1>9. \A k \in DOMAIN items : k # Len(items) => k \in DOMAIN E
  BY <1>7, <1>8
<1>10. items # <<>>
  BY <1>7, <1>8, ListFacts
<1>11. \A k \in DOMAIN items : items[k] = <<"merge", 0>> <=> k = Len(items)
  BY <1>6, <1>7, <1>8, <1>9
<1>12. ASSUME NEW k \in DOMAIN items, NEW o, items[k] = <<"lifecycle", o>>
       PROVE  /\ o \in ActiveOf(organizations)
              /\ \A m \in DOMAIN items : items[m] = items[k] => m = k
  <2>1. \A m \in DOMAIN items : items[m] = items[k] => m \in DOMAIN E /\ items[m] = E[m]
    <3>1. items[k] # <<"merge", 0>>
      BY <1>12
    <3> QED
      BY <1>7, <1>9, <1>11, <3>1
  <2> QED
    BY <1>6, <1>12, <2>1
<1>13. pending' = items /\ handler' = "ecology"
  BY <1>1, <1>10 DEF Begin
<1> QED
  BY <1>1, <1>7, <1>10, <1>11, <1>12, <1>13 DEF Visits

\* Steps of the ecology that touch no organization.
LEMMA NobodyKeeps ==
  ASSUME Inv, UNCHANGED <<ledgerVars, people, logisticsVars, interventions, peaceVars>>,
         handler' = "ecology", Visits',
         protos' \in [DOMAIN Community -> [founders: SUBSET Persons, fraction: Nat]],
         \A c \in DOMAIN Community : protos'[c].founders # {} => protos'[c].fraction > 0
  PROVE  Inv' /\ Staying
<1>1. organizations' = organizations
  BY DEF ledgerVars
<1>2. Belong'
  BY <1>1 DEF Inv, Belong
<1> QED
  BY <1>2, InvSame

LEMMA FormProtoKeeps ==
  ASSUME Inv, NEW c \in DOMAIN Community, NEW founders \in SUBSET Persons, NEW n \in 1 .. Cohorts,
         FormProto(c, founders, n), UNCHANGED <<logisticsVars, interventions, peaceVars>>
  PROVE  Inv' /\ Staying
<1>1. /\ Ecology("form", c) /\ UNCHANGED <<ledgerVars, people>>
      /\ protos' = protos \/ protos' = [protos EXCEPT ![c] = [founders |-> founders, fraction |-> n]]
  BY DEF FormProto
<1>2. organizations' = organizations
  BY <1>1 DEF ledgerVars
<1>3. handler' = "ecology" /\ Visits'
  BY <1>1, <1>2, EcologyGoesOn
<1>4. /\ protos \in [DOMAIN Community -> [founders: SUBSET Persons, fraction: Nat]]
      /\ \A d \in DOMAIN Community : protos[d].founders # {} => protos[d].fraction > 0
  BY DEF Inv, Belong
<1>5. n \in Nat /\ n > 0
  BY EcologyAssumption
<1>6. /\ protos' \in [DOMAIN Community -> [founders: SUBSET Persons, fraction: Nat]]
      /\ \A d \in DOMAIN Community : protos'[d].founders # {} => protos'[d].fraction > 0
  <2>1. CASE protos' = protos
    BY <1>4, <2>1
  <2>2. CASE protos' = [protos EXCEPT ![c] = [founders |-> founders, fraction |-> n]]
    BY <1>4, <1>5, <2>2
  <2> QED
    BY <1>1, <2>1, <2>2
<1> QED
  BY <1>1, <1>3, <1>6, NobodyKeeps

LEMMA IncubateKeeps ==
  ASSUME Inv, NEW c \in DOMAIN Community,
         Incubate(c), UNCHANGED <<logisticsVars, interventions, peaceVars>>
  PROVE  Inv' /\ Staying
<1>1. /\ Ecology("mature", c) /\ UNCHANGED <<ledgerVars, people>>
      /\ protos' = protos \/ protos' = [protos EXCEPT ![c] = NoProto]
  BY DEF Incubate
<1>2. organizations' = organizations
  BY <1>1 DEF ledgerVars
<1>3. handler' = "ecology" /\ Visits'
  BY <1>1, <1>2, EcologyGoesOn
<1>4. /\ protos \in [DOMAIN Community -> [founders: SUBSET Persons, fraction: Nat]]
      /\ \A d \in DOMAIN Community : protos[d].founders # {} => protos[d].fraction > 0
  BY DEF Inv, Belong
<1>5. /\ protos' \in [DOMAIN Community -> [founders: SUBSET Persons, fraction: Nat]]
      /\ \A d \in DOMAIN Community : protos'[d].founders # {} => protos'[d].fraction > 0
  <2>1. CASE protos' = protos
    BY <1>4, <2>1
  <2>2. CASE protos' = [protos EXCEPT ![c] = NoProto]
    BY <1>4, <2>2 DEF NoProto
  <2> QED
    BY <1>1, <2>1, <2>2
<1> QED
  BY <1>1, <1>3, <1>5, NobodyKeeps

LEMMA PersistKeeps ==
  ASSUME Inv, NEW o, Persist(o), UNCHANGED <<logisticsVars, interventions, peaceVars>>
  PROVE  Inv' /\ Staying
<1>1. Ecology("lifecycle", o) /\ UNCHANGED <<ledgerVars, people, protos>>
  BY DEF Persist, ecologyVars
<1>2. organizations' = organizations
  BY <1>1 DEF ledgerVars
<1>3. handler' = "ecology" /\ Visits'
  BY <1>1, <1>2, EcologyGoesOn
<1> QED
  BY <1>1, <1>3, NobodyKeeps DEF Inv, Belong

\* Who collapses keeps its formations, which no longer obey anyone, and nothing else.
LEMMA CollapseKeeps ==
  ASSUME Inv, NEW o, Collapse(o), UNCHANGED <<logisticsVars, interventions, peaceVars>>
  PROVE  Inv' /\ Staying
<1> DEFINE u == DemobilizedPools(Ledger, {o})
           v == [u EXCEPT
             !.organizations[o] = [@ EXCEPT !.members = {}, !.status = "collapsed"],
             !.formations = [f \in DOMAIN @ |-> IF @[f].organization = o
                                                THEN [@[f] EXCEPT !.effective = FALSE] ELSE @[f]]]
           orgs == [organizations EXCEPT ![o] = [@ EXCEPT !.members = {}, !.status = "collapsed"]]
           forms == [f \in DOMAIN formations |-> IF formations[f].organization = o
                       THEN [formations[f] EXCEPT !.effective = FALSE] ELSE formations[f]]
           F == Foreigners(organizations)
<1>1. /\ Ecology("lifecycle", o) /\ protos' = protos
      /\ people' = [p \in Persons |-> IF people[p].organization = o
                                         /\ p \in organizations[o].members
                                      THEN Unaffiliated ELSE people[p]]
      /\ Becomes(v)
  BY DEF Collapse
<1>2. o \in ActiveOf(organizations) /\ o \in DOMAIN organizations
  BY <1>1, LifecycleVisit DEF ActiveOf
<1>3. Sound(Ledger) /\ Clean(Ledger) /\ Belong
  BY DEF Inv
<1>4. /\ Sound(u) /\ u.organizations = organizations /\ u.formations = formations
      /\ u.sources = sources
      /\ \A k \in Keys : k[1] \in {o} => u.pools[k] = 0 /\ u.reserves[k] = 0
      /\ \A k \in Keys : k[1] \notin {o} => u.pools[k] = pools[k] /\ u.reserves[k] = reserves[k]
  BY <1>3, DemobilizedPoolsLedger, LedgerIs
<1> HIDE DEF u
<1>5. /\ v.organizations = orgs /\ v.formations = forms /\ v.sources = sources
      /\ v.pools = u.pools /\ v.reserves = u.reserves /\ DOMAIN v = LedgerFields
  BY <1>4 DEF Sound, LedgerFields
<1>6. \A x \in DOMAIN organizations :
        /\ DOMAIN orgs[x] = OrganizationFields /\ orgs[x].resources = organizations[x].resources
        /\ orgs[x].kind = organizations[x].kind
        /\ x # o => orgs[x] = organizations[x]
        /\ x = o => orgs[x].members = {} /\ orgs[x].status = "collapsed"
  BY <1>2, <1>3, LedgerIs DEF Sound, Organizations, OrganizationFields
<1>7. IsList(orgs) /\ DOMAIN orgs = DOMAIN organizations
  BY <1>3, ListMap, LedgerIs DEF Sound, Organizations
<1>8. \A f \in DOMAIN formations :
        /\ DOMAIN forms[f] = FormationFields /\ forms[f].organization = formations[f].organization
        /\ forms[f].locality = formations[f].locality /\ forms[f].personnel = formations[f].personnel
        /\ forms[f].moving = formations[f].moving /\ forms[f].outside = formations[f].outside
  BY <1>3, LedgerIs DEF Sound, Formations, FormationFields
<1>9. IsList(forms) /\ DOMAIN forms = DOMAIN formations
  BY <1>3, ListMap, LedgerIs DEF Sound, Formations
<1> HIDE DEF orgs, forms, v, F
<1>10. Organizations(orgs) /\ Formations(forms)
  BY <1>3, <1>6, <1>7, <1>8, <1>9, LedgerIs DEF Sound, Organizations, Formations
<1>11. Sound(v)
  BY <1>3, <1>4, <1>5, <1>10, LedgerIs DEF Sound
<1>12. Grows(F, Ledger, v)
  BY <1>5, <1>6, <1>7, <1>8, <1>9, LedgerIs DEF Grows, Kept
<1>13. Unsettled(v)
  BY <1>5, <1>6, <1>7 DEF Unsettled
<1>14. ActiveOf(orgs) = ActiveOf(organizations) \ {o}
  BY <1>2, <1>6, <1>7 DEF ActiveOf
<1>15. Clean(v)
  <2>1. \A k \in Keys : k[1] \notin ActiveOf(orgs) => v.pools[k] = 0 /\ v.reserves[k] = 0
    BY <1>3, <1>4, <1>5, <1>14, LedgerIs DEF Clean
  <2>2. \A x \in DOMAIN orgs : orgs[x].status \in {"fragmented", "merged"} => x # o
    BY <1>6, <1>7
  <2>3. \A x \in DOMAIN orgs : orgs[x].status \in {"fragmented", "merged"} =>
          /\ orgs[x].kind = "insurgent" /\ orgs[x].resources = 0
          /\ \A f \in DOMAIN forms : forms[f].organization # x
          /\ \A s \in DOMAIN sources : sources[s].organization # x
    BY <1>3, <1>6, <1>7, <1>8, <1>9, <2>2, LedgerIs DEF Clean
  <2>4. \A x \in DOMAIN orgs : orgs[x].status \in {"fragmented", "merged", "collapsed"} =>
          orgs[x].members = {}
    BY <1>3, <1>6, <1>7, LedgerIs DEF Clean
  <2> QED
    BY <1>5, <2>1, <2>3, <2>4 DEF Clean
<1>16. organizations' = orgs
  BY <1>1, <1>5 DEF Becomes
<1>17. handler' = "ecology" /\ Visits'
  <2>1. \A x \in ActiveOf(organizations) : <<"lifecycle", o>> # <<"lifecycle", x>> =>
          x \in ActiveOf(organizations')
    BY <1>14, <1>16
  <2> QED
    BY <1>1, <2>1, EcologyGoesOn
<1>18. Belong'
  <2>1. \A p \in Persons : people'[p] = IF people[p].organization = o THEN Unaffiliated ELSE people[p]
    BY <1>1, <1>2, <1>3, LedgerIs, ListFacts DEF Belong, Sound, Organizations, NoOrganization
  <2>2. /\ Unaffiliated \in [organization: Nat, fraction: Nat]
        /\ Unaffiliated.organization = NoOrganization /\ ~(Unaffiliated.fraction > 0)
    BY DEF Unaffiliated, NoOrganization
  <2>3. people' \in [Persons -> [organization: Nat, fraction: Nat]]
    BY <1>1, <1>3, <2>2 DEF Belong
  <2>4. \A p \in Persons : (people'[p].fraction > 0) = (people'[p].organization # NoOrganization)
    BY <1>3, <2>1, <2>2 DEF Belong
  <2>5. \A p \in Persons : people'[p].organization # NoOrganization =>
       /\ people'[p].organization \in DOMAIN organizations'
       /\ p \in organizations'[people'[p].organization].members
    BY <1>3, <1>6, <1>7, <1>16, <2>1, <2>2 DEF Belong
  <2> QED
    BY <1>1, <1>3, <1>17, <2>3, <2>4, <2>5 DEF Belong
<1> QED
  BY <1>1, <1>11, <1>12, <1>13, <1>15, <1>17, <1>18, InvKept DEF F

LEMMA ListCatTwo ==
  ASSUME NEW s, IsList(s), NEW a, NEW b, NEW t, t = s \o <<a, b>>
  PROVE  /\ IsList(t) /\ Len(s) \in Nat /\ Len(t) = Len(s) + 2 /\ DOMAIN t = 1 .. Len(s) + 2
         /\ DOMAIN s = 1 .. Len(s) /\ \A i \in DOMAIN s : t[i] = s[i]
         /\ t[Len(s) + 1] = a /\ t[Len(s) + 2] = b
<1> DEFINE two == <<a, b>>
<1>1. two = [i \in 1 .. 2 |-> two[i]] /\ two[1] = a /\ two[2] = b
  OBVIOUS
<1> HIDE DEF two
<1>2. IsList(two) /\ Len(two) = 2 /\ DOMAIN two = 1 .. 2
  BY <1>1, ListIntro
<1>3. t = s \o two
  BY DEF two
<1>4. /\ IsList(t) /\ Len(t) = Len(s) + Len(two) /\ DOMAIN t = 1 .. Len(s) + Len(two)
  <2>1. IsList(s) /\ IsList(two)
    BY <1>2
  <2>2. IsList(t)
    BY <1>3, <2>1, ListCat
  <2>3. Len(t) = Len(s) + Len(two)
    BY <1>3, <2>1, ListCat
  <2>4. DOMAIN t = 1 .. Len(s) + Len(two)
    BY <1>3, <2>1, ListCat
  <2> QED
    BY <2>2, <2>3, <2>4
<1>5. \A i \in DOMAIN s : t[i] = s[i]
  BY <1>2, <1>3, ListCat
<1>6. \A i \in DOMAIN t \ DOMAIN s : i - Len(s) \in DOMAIN two /\ t[i] = two[i - Len(s)]
  BY <1>2, <1>3, ListCat
<1>7. Len(s) \in Nat /\ DOMAIN s = 1 .. Len(s)
  BY ListFacts
<1> DEFINE n == Len(s)
<1>8. n \in Nat /\ DOMAIN t = 1 .. n + 2 /\ DOMAIN s = 1 .. n
  BY <1>2, <1>4, <1>7
<1> HIDE DEF n
<1>9. /\ n + 1 \in DOMAIN t \ DOMAIN s /\ (n + 1) - n = 1
      /\ n + 2 \in DOMAIN t \ DOMAIN s /\ (n + 2) - n = 2
  BY <1>8
<1>10. t[n + 1] = a /\ t[n + 2] = b
  BY <1>1, <1>6, <1>9 DEF n
<1> QED
  BY <1>2, <1>4, <1>5, <1>7, <1>10 DEF n

\* A new organization is decided on before the merger.
LEMMA MatureVisits ==
  ASSUME Inv, NEW c, NEW o, o \notin DOMAIN organizations,
         handler = "ecology", pending # <<>>, Head(pending) = <<"mature", c>>,
         Begin("ecology", Front(Tail(pending)) \o <<<<"lifecycle", o>>, Last(pending)>>),
         ActiveOf(organizations) \cup {o} \subseteq ActiveOf(organizations')
  PROVE  handler' = "ecology" /\ Visits'
<1> DEFINE rest == Tail(pending)
           front == Front(rest)
           last == Last(pending)
           new == <<"lifecycle", o>>
           items == front \o <<new, last>>
<1>1. /\ IsList(pending)
      /\ \A k \in DOMAIN pending : pending[k] = <<"merge", 0>> <=> k = Len(pending)
      /\ \A k \in DOMAIN pending : \A x : pending[k] = <<"lifecycle", x>> =>
           /\ x \in ActiveOf(organizations)
           /\ \A m \in DOMAIN pending : pending[m] = pending[k] => m = k
  BY DEF Inv, Visits
<1>2. /\ pending[1] = <<"mature", c>> /\ 1 \in DOMAIN pending
      /\ IsList(rest) /\ Len(rest) = Len(pending) - 1
      /\ \A k \in DOMAIN rest : k + 1 \in DOMAIN pending /\ k + 1 # 1 /\ rest[k] = pending[k + 1]
  BY <1>1, ListTail
<1>3. Len(pending) \in Nat /\ DOMAIN pending = 1 .. Len(pending)
  BY <1>1, ListFacts
<1> HIDE DEF rest
<1>4. 1 # Len(pending)
  BY <1>1, <1>2
<1>5. last = <<"merge", 0>>
  BY <1>1, <1>2, <1>3 DEF Last
<1>6. rest # <<>>
  BY <1>2, <1>3, <1>4, ListFacts
<1>7. /\ IsList(front) /\ Len(front) = Len(rest) - 1
      /\ \A i \in DOMAIN front : i \in DOMAIN rest /\ i # Len(rest) /\ front[i] = rest[i]
  BY <1>2, <1>6, ListFront
<1> HIDE DEF last, front
<1>8. \A k \in DOMAIN front :
        /\ k + 1 \in DOMAIN pending /\ k + 1 # Len(pending) /\ front[k] = pending[k + 1]
  BY <1>2, <1>3, <1>7, ListFacts
<1> DEFINE n == Len(front)
<1>9. /\ IsList(items) /\ n \in Nat /\ Len(items) = n + 2 /\ DOMAIN items = 1 .. n + 2
      /\ DOMAIN front = 1 .. n /\ \A i \in DOMAIN front : items[i] = front[i]
      /\ items[n + 1] = new /\ items[n + 2] = last
  <2>1. items = front \o <<new, last>>
    OBVIOUS
  <2> HIDE DEF new, items
  <2>a. IsList(front)
    BY <1>7
  <2>b. Len(front) \in Nat /\ DOMAIN front = 1 .. Len(front)
    BY <2>a, ListFacts
  <2>c. IsList(items)
    BY <2>1, <2>a, ListCatTwo
  <2>d. Len(items) = Len(front) + 2
    BY <2>1, <2>a, ListCatTwo
  <2>e. DOMAIN items = 1 .. Len(front) + 2
    BY <2>1, <2>a, ListCatTwo
  <2>3. \A i \in DOMAIN front : items[i] = front[i]
    BY <1>7, <2>1, ListCatTwo
  <2>4. items[Len(front) + 1] = new /\ items[Len(front) + 2] = last
    BY <1>7, <2>1, ListCatTwo
  <2> QED
    BY <2>b, <2>c, <2>d, <2>e, <2>3, <2>4
<1>10. Begin("ecology", items)
  BY DEF items, front, last, rest, new
<1> HIDE DEF n, items, new
<1>11. items # <<>>
  BY <1>9, ListFacts
<1>12. \A k \in DOMAIN items : k = n + 1 \/ k = n + 2 \/ k \in DOMAIN front
  BY <1>9
<1>13. \A k \in DOMAIN front : items[k] = pending[k + 1] /\ items[k] # <<"merge", 0>>
  BY <1>1, <1>8, <1>9
<1>14. new # <<"merge", 0>>
  BY DEF new
<1>15. \A k \in DOMAIN items : items[k] = <<"merge", 0>> <=> k = Len(items)
  <2>1. n + 1 # n + 2 /\ \A k \in DOMAIN front : k # n + 2
    BY <1>9
  <2> QED
    BY <1>5, <1>9, <1>12, <1>13, <1>14, <2>1
<1>16. \A k \in DOMAIN front : items[k] # new
  <2>1. o \notin ActiveOf(organizations)
    BY DEF ActiveOf
  <2> QED
    BY <1>1, <1>8, <1>13, <2>1 DEF new
<1>17. ASSUME NEW k \in DOMAIN items, NEW x, items[k] = <<"lifecycle", x>>
       PROVE  /\ x \in ActiveOf(organizations')
              /\ \A m \in DOMAIN items : items[m] = items[k] => m = k
  <2>1. items[k] # <<"merge", 0>>
    BY <1>17
  <2>2. \A m \in DOMAIN items : items[m] = items[k] => m = n + 1 \/ m \in DOMAIN front
    BY <1>5, <1>9, <1>12, <2>1
  <2>3. CASE k = n + 1
    <3>1. items[k] = new
      BY <1>9, <2>3
    <3>2. x = o
      BY <1>17, <3>1 DEF new
    <3> QED
      BY <1>16, <2>2, <2>3, <3>1, <3>2
  <2>4. CASE k \in DOMAIN front
    <3>1. k + 1 \in DOMAIN pending /\ pending[k + 1] = <<"lifecycle", x>>
      BY <1>8, <1>13, <1>17, <2>4
    <3>2. /\ x \in ActiveOf(organizations)
          /\ \A m \in DOMAIN pending : pending[m] = pending[k + 1] => m = k + 1
      BY <1>1, <3>1
    <3>3. ASSUME NEW m \in DOMAIN items, items[m] = items[k] PROVE m = k
      <4>1. m # n + 1
        BY <1>9, <1>16, <2>4, <3>3
      <4>2. m \in DOMAIN front
        BY <2>2, <3>3, <4>1
      <4>3. m + 1 = k + 1
        BY <1>8, <1>13, <2>4, <3>2, <3>3, <4>2
      <4> QED
        BY <1>9, <2>4, <4>2, <4>3
    <3> QED
      BY <3>2, <3>3
  <2> QED
    BY <2>2, <2>3, <2>4
<1>18. pending' = items /\ handler' = "ecology"
  BY <1>10, <1>11 DEF Begin
<1> QED
  BY <1>9, <1>11, <1>15, <1>17, <1>18 DEF Visits

\* The founders mature into an organization with one formation.
LEMMA MatureKeeps ==
  ASSUME Inv, NEW c \in DOMAIN Community, NEW r \in Contributions, NEW stock \in 0 .. r,
         Mature(c, r, stock), UNCHANGED <<logisticsVars, interventions, peaceVars>>
  PROVE  Inv' /\ Staying
<1> DEFINE o == Len(organizations) + 1
           founders == protos[c].founders
           fraction == protos[c].fraction
           personnel == Cardinality(founders) * fraction
           born == [kind |-> "insurgent", status |-> "active", members |-> founders,
                    resources |-> r - stock, party |-> FALSE, branches |-> 0]
           fresh == Fresh(o, Community[c], personnel, stock)
           orgs == Append(organizations, born)
           forms == Append(formations, fresh)
           v == [Ledger EXCEPT
                   !.organizations = Append(@, born), !.formations = Append(@, fresh),
                   !.expected = [supply |-> @.supply + stock, manpower |-> @.manpower + personnel,
                                 resources |-> @.resources + r - stock]]
<1>1. /\ handler = "ecology" /\ pending # <<>> /\ Head(pending) = <<"mature", c>>
      /\ Begin("ecology", Front(Tail(pending)) \o <<<<"lifecycle", o>>, Last(pending)>>)
      /\ founders # {} /\ o <= MaxOrganizations
      /\ Becomes(v)
      /\ people' = [p \in Persons |-> IF p \in founders THEN Armed(o, fraction) ELSE people[p]]
      /\ protos' = [protos EXCEPT ![c] = NoProto]
  BY DEF Mature
<1>2. Sound(Ledger) /\ Clean(Ledger) /\ Belong
  BY DEF Inv
<1>3. founders \subseteq Persons /\ fraction \in Nat /\ fraction > 0
  BY <1>1, <1>2 DEF Belong
<1>4. personnel \in Int /\ r - stock \in Int
  <2>1. Cardinality(founders) \in Nat
    BY <1>3, EcologyAssumption, FS_Subset, FS_CardinalityType
  <2>2. r \in Nat
    BY EcologyAssumption
  <2> QED
    BY <1>3, <2>1, <2>2
<1>5. /\ DOMAIN fresh = FormationFields /\ fresh.organization = o
      /\ ~fresh.moving /\ ~fresh.outside /\ fresh.moving \in BOOLEAN /\ fresh.outside \in BOOLEAN
      /\ fresh.personnel \in Int /\ fresh.locality \in Localities
  BY <1>4, EcologyAssumption, ListOf, FreshFormation
<1>6. /\ DOMAIN born = OrganizationFields /\ born.kind = "insurgent" /\ born.status = "active"
      /\ born.members = founders /\ born.resources \in Int
  BY <1>4 DEF OrganizationFields
<1>7. /\ v.organizations = orgs /\ v.formations = forms /\ v.sources = sources
      /\ v.pools = pools /\ v.reserves = reserves /\ DOMAIN v = LedgerFields
  BY DEF Ledger, LedgerFields
<1> HIDE DEF v, fresh, born, fraction, founders
<1>8. IsList(organizations) /\ IsList(formations)
  BY <1>2, LedgerIs DEF Sound, Organizations, Formations
<1>9. /\ IsList(orgs) /\ DOMAIN orgs = DOMAIN organizations \cup {o} /\ o \notin DOMAIN organizations
      /\ \A x \in DOMAIN organizations : orgs[x] = organizations[x]
      /\ orgs[o] = born
  BY <1>8, ListAppend
<1>10. PICK n : /\ IsList(forms) /\ DOMAIN forms = DOMAIN formations \cup {n} /\ n \notin DOMAIN formations
                /\ \A f \in DOMAIN formations : forms[f] = formations[f]
                /\ forms[n] = fresh
  BY <1>8, ListAppend
<1>11. o \in 1 .. MaxOrganizations /\ o # NoOrganization /\ o \in Nat
  BY <1>1, <1>8, ListFacts, ConflictAssumption DEF NoOrganization
<1> HIDE DEF orgs, forms, o
<1>12. Organizations(orgs) /\ Formations(forms)
  BY <1>2, <1>5, <1>6, <1>9, <1>10, <1>11, LedgerIs DEF Sound, Organizations, Formations
<1>13. Sound(v)
  BY <1>2, <1>7, <1>12, LedgerIs DEF Sound
<1>14. Grows(Foreigners(organizations), Ledger, v)
  BY <1>5, <1>7, <1>9, <1>10, LedgerIs DEF Grows, Kept
<1>15. Unsettled(v)
  BY <1>6, <1>7, <1>9 DEF Unsettled
<1>16. ActiveOf(organizations) \cup {o} \subseteq ActiveOf(orgs)
  BY <1>6, <1>9 DEF ActiveOf
<1>17. Clean(v)
  <2>1. \A k \in Keys : k[1] \notin ActiveOf(orgs) => v.pools[k] = 0 /\ v.reserves[k] = 0
    BY <1>2, <1>7, <1>16, LedgerIs DEF Clean
  <2>2. \A x \in DOMAIN orgs : orgs[x].status \in {"fragmented", "merged", "collapsed"} =>
          x # o /\ x \in DOMAIN organizations /\ orgs[x] = organizations[x]
    BY <1>6, <1>9
  <2>3. \A x \in DOMAIN orgs : orgs[x].status \in {"fragmented", "merged"} =>
          /\ orgs[x].kind = "insurgent" /\ orgs[x].resources = 0
          /\ \A f \in DOMAIN forms : forms[f].organization # x
          /\ \A s \in DOMAIN sources : sources[s].organization # x
    BY <1>2, <1>5, <1>10, <2>2, LedgerIs DEF Clean
  <2>4. \A x \in DOMAIN orgs : orgs[x].status \in {"fragmented", "merged", "collapsed"} =>
          orgs[x].members = {}
    BY <1>2, <2>2, LedgerIs DEF Clean
  <2> QED
    BY <1>7, <2>1, <2>3, <2>4 DEF Clean
<1>18. organizations' = orgs
  BY <1>1, <1>7 DEF Becomes
<1>19. handler' = "ecology" /\ Visits'
  BY <1>1, <1>9, <1>16, <1>18, MatureVisits
<1>20. Belong'
  <2>1. Armed(o, fraction) = [organization |-> o, fraction |-> fraction]
    BY <1>3 DEF Armed
  <2>2. people' \in [Persons -> [organization: Nat, fraction: Nat]]
    BY <1>1, <1>2, <1>3, <1>11, <2>1 DEF Belong
  <2>3. \A p \in Persons : (people'[p].fraction > 0) = (people'[p].organization # NoOrganization)
    BY <1>1, <1>2, <1>3, <1>11, <2>1 DEF Belong
  <2>4. \A p \in Persons : people'[p].organization # NoOrganization =>
          /\ people'[p].organization \in DOMAIN organizations'
          /\ p \in organizations'[people'[p].organization].members
    BY <1>1, <1>2, <1>6, <1>9, <1>18, <2>1 DEF Belong
  <2>5. /\ protos' \in [DOMAIN Community -> [founders: SUBSET Persons, fraction: Nat]]
        /\ \A d \in DOMAIN Community : protos'[d].founders # {} => protos'[d].fraction > 0
    BY <1>1, <1>2 DEF Belong, NoProto
  <2> QED
    BY <1>19, <2>2, <2>3, <2>4, <2>5 DEF Belong
<1> QED
  BY <1>1, <1>13, <1>14, <1>15, <1>17, <1>19, <1>20, InvKept

\* What the parents own changes hands where it stands.
LEMMA InheritedFormations ==
  ASSUME NEW forms, Formations(forms), NEW parents, NEW heir,
         NEW v, v = Inherited(forms, parents, heir)
  PROVE  /\ Formations(v) /\ DOMAIN v = DOMAIN forms
         /\ \A f \in DOMAIN forms :
              /\ v[f].locality = forms[f].locality /\ v[f].personnel = forms[f].personnel
              /\ v[f].moving = forms[f].moving /\ v[f].outside = forms[f].outside
              /\ forms[f].organization \in parents => v[f].organization = heir[forms[f].locality]
              /\ forms[f].organization \notin parents => v[f] = forms[f]
<1>1. v = [i \in DOMAIN forms |-> IF forms[i].organization \in parents
             THEN [forms[i] EXCEPT !.organization = heir[forms[i].locality]] ELSE forms[i]]
  BY DEF Inherited
<1>2. IsList(v) /\ DOMAIN v = DOMAIN forms
  BY <1>1, ListMap DEF Formations
<1>3. \A f \in DOMAIN forms :
        /\ DOMAIN v[f] = FormationFields
        /\ v[f].locality = forms[f].locality /\ v[f].personnel = forms[f].personnel
        /\ v[f].moving = forms[f].moving /\ v[f].outside = forms[f].outside
        /\ forms[f].organization \in parents => v[f].organization = heir[forms[f].locality]
        /\ forms[f].organization \notin parents => v[f] = forms[f]
  BY <1>1 DEF Formations, FormationFields
<1> QED
  BY <1>2, <1>3 DEF Formations

LEMMA InheritedSources ==
  ASSUME NEW stores, Sources(stores), NEW parents, NEW heir,
         NEW v, v = Inherited(stores, parents, heir)
  PROVE  /\ Sources(v) /\ DOMAIN v = DOMAIN stores
         /\ \A s \in DOMAIN stores :
              /\ stores[s].organization \in parents => v[s].organization = heir[stores[s].locality]
              /\ stores[s].organization \notin parents => v[s] = stores[s]
<1>1. v = [i \in DOMAIN stores |-> IF stores[i].organization \in parents
             THEN [stores[i] EXCEPT !.organization = heir[stores[i].locality]] ELSE stores[i]]
  BY DEF Inherited
<1>2. IsList(v) /\ DOMAIN v = DOMAIN stores
  BY <1>1, ListMap DEF Sources
<1>3. \A s \in DOMAIN stores :
        /\ DOMAIN v[s] = SourceFields /\ v[s].locality = stores[s].locality
        /\ stores[s].organization \in parents => v[s].organization = heir[stores[s].locality]
        /\ stores[s].organization \notin parents => v[s] = stores[s]
  BY <1>1 DEF Sources, SourceFields
<1> QED
  BY <1>2, <1>3 DEF Sources

LEMMA Bequest ==
  ASSUME NEW stock, stock \in [Keys -> Int], NEW parents, NEW part,
         \A k \in DOMAIN part : part[k] \in Int,
         NEW v, v = Bequeathed(stock, parents, part)
  PROVE  /\ v \in [Keys -> Int]
         /\ \A k \in Keys : k[1] \in parents => v[k] = 0
         /\ \A k \in Keys : k[1] \notin parents /\ k \notin DOMAIN part => v[k] = stock[k]
<1>1. v = [k \in Keys |-> IF k[1] \in parents THEN 0
                          ELSE IF k \in DOMAIN part THEN part[k] ELSE stock[k]]
  BY DEF Bequeathed
<1> QED
  BY <1>1

LEMMA WeightNat ==
  ASSUME Belong, NEW m, m \subseteq Persons
  PROVE  /\ Weight(m) \in Nat
         /\ \A p \in m : people[p].organization # NoOrganization => Weight(m) > 0
<1> DEFINE f == [p \in m |-> people[p].fraction]
<1>1. IsFiniteSet(m)
  BY EcologyAssumption, FS_Subset
<1>2. \A p \in m : /\ f[p] \in Int /\ f[p] >= 0
                   /\ people[p].organization # NoOrganization => f[p] > 0
  BY DEF Belong
<1>3. Weight(m) = SumFunctionOnSet(f, m)
  BY DEF Weight, SumFunction
<1> HIDE DEF f
<1>4. SumFunctionOnSet(f, m) \in Int /\ \A p \in m : SumFunctionOnSet(f, m) >= f[p]
  BY <1>1, <1>2, SumType
<1>5. SumFunctionOnSet(f, m) >= 0
  BY <1>1, <1>2, SumType
<1> QED
  BY <1>2, <1>3, <1>4, <1>5

\* The places of two organizations that are new.
NextTwo(orgs, m, n) == m = Len(orgs) + 1 /\ n = m + 1 /\ n <= MaxOrganizations

\* Two factions of persons that bear arms, in one active organization.
MayPart(w, o, a, b) ==
  /\ o \in ActiveOf(w.organizations) /\ a \subseteq Persons /\ b \subseteq Persons
  /\ Weight(a \cup b) > 0

\* The parent ends, and its children, active, have all that was its own.
Division(w, o, a, b, m, n, v) ==
  /\ Sound(v) /\ Clean(v) /\ (\A F : o \notin F => Grows(F, w, v))
  /\ m \in 1 .. MaxOrganizations /\ n \in 1 .. MaxOrganizations /\ m # n
  /\ DOMAIN v.organizations = DOMAIN w.organizations \cup {m, n}
  /\ m \notin DOMAIN w.organizations /\ n \notin DOMAIN w.organizations
  /\ \A x \in DOMAIN w.organizations : x # o => v.organizations[x] = w.organizations[x]
  /\ v.organizations[o].status = "fragmented"
  /\ \A x \in {m, n} : v.organizations[x].kind = "insurgent" /\ v.organizations[x].status = "active"
  /\ v.organizations[m].members = a /\ v.organizations[n].members = b

LEMMA DividedLedger ==
  ASSUME Belong, NEW w, Sound(w), Clean(w), NEW o, NEW a, NEW b, MayPart(w, o, a, b),
         NEW m, NEW n, NextTwo(w.organizations, m, n), NEW v, v = Divided(w, o, a, b)
  PROVE  Division(w, o, a, b, m, n, v)
<1> DEFINE Share(quantity, l) ==
             LET local == LocalWeight(a, l) + LocalWeight(b, l) IN
             IF local = 0 THEN (quantity * Weight(a)) \div Weight(a \cup b)
             ELSE (quantity * LocalWeight(a, l)) \div local
           heir == [l \in Localities |-> IF LocalWeight(a, l) >= LocalWeight(b, l) THEN m ELSE n]
           Part(stock) == [k \in {m, n} \X Localities |->
             LET part == Share(stock[<<o, k[2]>>], k[2]) IN
             IF k[1] = m THEN part ELSE stock[<<o, k[2]>>] - part]
           parent == w.organizations[o]
           half == (parent.resources * Weight(a)) \div Weight(a \cup b)
           Child(faction, resources) ==
             [parent EXCEPT !.members = faction, !.resources = resources, !.party = FALSE, !.branches = 0]
           old == [w.organizations EXCEPT ![o] = Ended(parent, "fragmented")]
           first == Child(a, half)
           second == Child(b, parent.resources - half)
           orgs == old \o <<first, second>>
           forms == Inherited(w.formations, {o}, heir)
           stores == Inherited(w.sources, {o}, heir)
           pools1 == Bequeathed(w.pools, {o}, Part(w.pools))
           reserves1 == Bequeathed(w.reserves, {o}, Part(w.reserves))
<1>0. /\ m = Len(w.organizations) + 1 /\ n = m + 1 /\ n <= MaxOrganizations
      /\ o \in ActiveOf(w.organizations) /\ a \subseteq Persons /\ b \subseteq Persons
      /\ Weight(a \cup b) > 0
  BY Zenon DEF NextTwo, MayPart
<1>1. /\ v.organizations = orgs /\ v.formations = forms /\ v.sources = stores
      /\ v.pools = pools1 /\ v.reserves = reserves1 /\ DOMAIN v = LedgerFields
  BY <1>0, Zenon DEF Divided, Sound, LedgerFields
<1>2. o \in DOMAIN w.organizations /\ o \in 1 .. MaxOrganizations /\ parent.kind = "insurgent"
      /\ parent.status = "active" /\ DOMAIN parent = OrganizationFields /\ parent.resources \in Int
  BY <1>0 DEF ActiveOf, Sound, Organizations
<1>3. /\ Weight(a) \in Nat /\ Weight(a \cup b) \in Nat
      /\ \A l \in Localities : LocalWeight(a, l) \in Nat /\ LocalWeight(b, l) \in Nat
  <2>1. \A l : {p \in a : Residence[p] = l} \subseteq Persons /\ {p \in b : Residence[p] = l} \subseteq Persons
    BY <1>0
  <2>2. Weight(a) \in Nat /\ Weight(a \cup b) \in Nat
    BY <1>0, WeightNat
  <2> QED
    BY <2>1, <2>2, WeightNat DEF LocalWeight
<1>4. \A l \in Localities : \A q \in Int : Share(q, l) \in Int
  <2>1. \A x \in Int : \A y \in Nat : y > 0 => x \div y \in Int
    OBVIOUS
  <2>2. ASSUME NEW l \in Localities, NEW q \in Int PROVE Share(q, l) \in Int
    <3>1. q * Weight(a) \in Int /\ q * LocalWeight(a, l) \in Int
      BY <1>3
    <3>2. LocalWeight(a, l) + LocalWeight(b, l) \in Nat
      BY <1>3
    <3> QED
      BY <1>0, <1>3, <2>1, <3>1, <3>2
  <2> QED
    BY <2>2
<1>5. half \in Int
  <2>1. \A x \in Int : \A y \in Nat : y > 0 => x \div y \in Int
    OBVIOUS
  <2>2. parent.resources * Weight(a) \in Int
    BY <1>2, <1>3
  <2> QED
    BY <1>0, <1>3, <2>1, <2>2
<1>6. \A l \in Localities : heir[l] \in {m, n}
  OBVIOUS
<1> HIDE DEF Share, half, heir
<1>7. \A k \in {m, n} \X Localities : <<o, k[2]>> \in Keys
  BY <1>2 DEF Keys
<1>8. ASSUME NEW stock, stock \in [Keys -> Int]
      PROVE  /\ DOMAIN Part(stock) = {m, n} \X Localities
             /\ \A k \in DOMAIN Part(stock) : Part(stock)[k] \in Int
  <2>1. \A k \in {m, n} \X Localities : stock[<<o, k[2]>>] \in Int /\ k[2] \in Localities
    BY <1>7, <1>8
  <2>2. \A k \in {m, n} \X Localities : Share(stock[<<o, k[2]>>], k[2]) \in Int
    BY <1>4, <2>1
  <2>3. \A k \in {m, n} \X Localities :
          stock[<<o, k[2]>>] - Share(stock[<<o, k[2]>>], k[2]) \in Int
    BY <2>1, <2>2
  <2> QED
    BY <2>2, <2>3
<1> HIDE DEF Part
<1>9. /\ pools1 \in [Keys -> Int]
      /\ \A k \in Keys : k[1] \in {o} => pools1[k] = 0
      /\ \A k \in Keys : k[1] \notin {o} /\ k[1] \notin {m, n} => pools1[k] = w.pools[k]
  <2>1. w.pools \in [Keys -> Int]
    BY DEF Sound
  <2>2. DOMAIN Part(w.pools) = {m, n} \X Localities
    BY <1>8, <2>1
  <2>3. \A k \in DOMAIN Part(w.pools) : Part(w.pools)[k] \in Int
    BY <1>8, <2>1
  <2>4. pools1 = Bequeathed(w.pools, {o}, Part(w.pools))
    OBVIOUS
  <2> HIDE DEF pools1
  <2>5. pools1 \in [Keys -> Int]
    BY <2>1, <2>3, <2>4, Bequest
  <2>6. \A k \in Keys : k[1] \in {o} => pools1[k] = 0
    BY <2>1, <2>3, <2>4, Bequest
  <2>7. \A k \in Keys : k[1] \notin {o} /\ k \notin DOMAIN Part(w.pools) => pools1[k] = w.pools[k]
    BY <2>1, <2>3, <2>4, Bequest
  <2> QED
    BY <2>2, <2>5, <2>6, <2>7
<1>10. /\ reserves1 \in [Keys -> Int]
       /\ \A k \in Keys : k[1] \in {o} => reserves1[k] = 0
       /\ \A k \in Keys : k[1] \notin {o} /\ k[1] \notin {m, n} => reserves1[k] = w.reserves[k]
  <2>1. w.reserves \in [Keys -> Int]
    BY DEF Sound
  <2>2. DOMAIN Part(w.reserves) = {m, n} \X Localities
    BY <1>8, <2>1
  <2>3. \A k \in DOMAIN Part(w.reserves) : Part(w.reserves)[k] \in Int
    BY <1>8, <2>1
  <2>4. reserves1 = Bequeathed(w.reserves, {o}, Part(w.reserves))
    OBVIOUS
  <2> HIDE DEF reserves1
  <2>5. reserves1 \in [Keys -> Int]
    BY <2>1, <2>3, <2>4, Bequest
  <2>6. \A k \in Keys : k[1] \in {o} => reserves1[k] = 0
    BY <2>1, <2>3, <2>4, Bequest
  <2>7. \A k \in Keys : k[1] \notin {o} /\ k \notin DOMAIN Part(w.reserves) => reserves1[k] = w.reserves[k]
    BY <2>1, <2>3, <2>4, Bequest
  <2> QED
    BY <2>2, <2>5, <2>6, <2>7
<1>11. /\ Formations(forms) /\ DOMAIN forms = DOMAIN w.formations
       /\ \A f \in DOMAIN forms :
            /\ forms[f].locality = w.formations[f].locality /\ forms[f].personnel = w.formations[f].personnel
            /\ forms[f].moving = w.formations[f].moving /\ forms[f].outside = w.formations[f].outside
            /\ w.formations[f].organization = o => forms[f].organization \in {m, n}
            /\ w.formations[f].organization # o => forms[f] = w.formations[f]
  <2>1. Formations(w.formations)
    BY DEF Sound
  <2>2. Formations(forms) /\ DOMAIN forms = DOMAIN w.formations
    BY <2>1, InheritedFormations
  <2>3. \A f \in DOMAIN w.formations :
            /\ forms[f].locality = w.formations[f].locality /\ forms[f].personnel = w.formations[f].personnel
            /\ forms[f].moving = w.formations[f].moving /\ forms[f].outside = w.formations[f].outside
            /\ w.formations[f].organization \in {o} => forms[f].organization = heir[w.formations[f].locality]
            /\ w.formations[f].organization \notin {o} => forms[f] = w.formations[f]
    BY <2>1, InheritedFormations
  <2>4. \A f \in DOMAIN w.formations : heir[w.formations[f].locality] \in {m, n}
    BY <1>6, <2>1 DEF Formations
  <2> HIDE DEF forms
  <2> QED
    BY <2>2, <2>3, <2>4
<1>12. /\ Sources(stores) /\ DOMAIN stores = DOMAIN w.sources
       /\ \A s \in DOMAIN stores : /\ w.sources[s].organization = o => stores[s].organization \in {m, n}
                                   /\ w.sources[s].organization # o => stores[s] = w.sources[s]
  <2>1. Sources(w.sources)
    BY DEF Sound
  <2>2. Sources(stores) /\ DOMAIN stores = DOMAIN w.sources
    BY <2>1, InheritedSources
  <2>3. \A s \in DOMAIN w.sources :
            /\ w.sources[s].organization \in {o} => stores[s].organization = heir[w.sources[s].locality]
            /\ w.sources[s].organization \notin {o} => stores[s] = w.sources[s]
    BY <2>1, InheritedSources
  <2>4. \A s \in DOMAIN w.sources : heir[w.sources[s].locality] \in {m, n}
    BY <1>6, <2>1 DEF Sources
  <2> HIDE DEF stores
  <2> QED
    BY <2>2, <2>3, <2>4
<1> HIDE DEF forms, stores, pools1, reserves1
<1>13. /\ DOMAIN first = OrganizationFields /\ first.kind = "insurgent" /\ first.status = "active"
       /\ first.members = a /\ first.resources \in Int
       /\ DOMAIN second = OrganizationFields /\ second.kind = "insurgent"
       /\ second.status = "active" /\ second.members = b /\ second.resources \in Int
  BY <1>2, <1>5 DEF OrganizationFields
<1>14. /\ DOMAIN old = DOMAIN w.organizations
       /\ \A x \in DOMAIN w.organizations : x # o => old[x] = w.organizations[x]
       /\ DOMAIN old[o] = OrganizationFields /\ old[o].kind = "insurgent" /\ old[o].status = "fragmented"
       /\ old[o].members = {} /\ old[o].resources = 0
  BY <1>2 DEF Ended, OrganizationFields
<1>15. IsList(old) /\ Len(old) = Len(w.organizations) /\ Len(w.organizations) \in Nat
       /\ DOMAIN w.organizations = 1 .. Len(w.organizations)
  <2>1. IsList(w.organizations) /\ old = [x \in DOMAIN w.organizations |-> old[x]]
    BY DEF Sound, Organizations
  <2> QED
    BY <2>1, ListMap, ListFacts
<1> HIDE DEF old, first, second, parent
<1>16. IsList(orgs) /\ DOMAIN orgs = 1 .. Len(old) + 2
  <2>1. IsList(orgs)
    BY <1>15, ListCatTwo
  <2>2. DOMAIN orgs = 1 .. Len(old) + 2
    BY <1>15, ListCatTwo
  <2> QED
    BY <2>1, <2>2
<1>17. \A x \in DOMAIN old : orgs[x] = old[x]
  BY <1>15, ListCatTwo
<1>18. orgs[Len(old) + 1] = first /\ orgs[Len(old) + 2] = second
  BY <1>15, ListCatTwo
<1> HIDE DEF orgs
<1>19. /\ m = Len(old) + 1 /\ n = Len(old) + 2 /\ m # n
       /\ m \in 1 .. MaxOrganizations /\ n \in 1 .. MaxOrganizations
       /\ DOMAIN orgs = DOMAIN w.organizations \cup {m, n}
       /\ m \notin DOMAIN w.organizations /\ n \notin DOMAIN w.organizations
  BY <1>0, <1>15, <1>16, ConflictAssumption
<1>20. /\ \A x \in DOMAIN w.organizations : x # o => orgs[x] = w.organizations[x]
       /\ orgs[o] = old[o] /\ orgs[m] = first /\ orgs[n] = second
  BY <1>2, <1>14, <1>17, <1>18, <1>19
<1>21. Organizations(orgs)
  <2>1. \A x \in DOMAIN w.organizations : DOMAIN orgs[x] = OrganizationFields /\ orgs[x].resources \in Int
    BY <1>14, <1>20 DEF Sound, Organizations
  <2>2. \A x \in {m, n} : DOMAIN orgs[x] = OrganizationFields /\ orgs[x].resources \in Int
    BY <1>13, <1>20
  <2>3. DOMAIN orgs \subseteq 1 .. MaxOrganizations
    BY <1>19 DEF Sound, Organizations
  <2> QED
    BY <1>16, <1>19, <2>1, <2>2, <2>3 DEF Organizations
<1>22. Sound(v)
  BY <1>1, <1>9, <1>10, <1>11, <1>12, <1>21 DEF Sound
<1>23. ASSUME NEW F, o \notin F PROVE Grows(F, w, v)
  <2>1. \A f \in DOMAIN w.formations : Kept(F, w.formations[f], forms[f])
    BY <1>11, <1>23 DEF Kept
  <2>2. \A x \in DOMAIN w.organizations : orgs[x].kind = w.organizations[x].kind
    BY <1>2, <1>14, <1>20 DEF parent
  <2> QED
    BY <1>1, <1>11, <1>19, <2>1, <2>2 DEF Grows
<1>24. (ActiveOf(w.organizations) \ {o}) \cup {m, n} \subseteq ActiveOf(orgs)
  BY <1>13, <1>19, <1>20 DEF ActiveOf
<1>25. Clean(v)
  <2>1. \A k \in Keys : k[1] \notin ActiveOf(orgs) => pools1[k] = 0 /\ reserves1[k] = 0
    <3>1. \A k \in Keys : k[1] \notin ActiveOf(orgs) => k[1] \notin {m, n}
      BY <1>24
    <3>2. \A k \in Keys : k[1] \notin ActiveOf(orgs) /\ k[1] # o => k[1] \notin ActiveOf(w.organizations)
      BY <1>24
    <3> QED
      BY <1>9, <1>10, <3>1, <3>2 DEF Clean
  <2>2. \A x \in DOMAIN orgs : orgs[x].status \in {"fragmented", "merged", "collapsed"} =>
          x \notin {m, n} /\ x \in DOMAIN w.organizations
    BY <1>13, <1>19, <1>20
  <2>3. \A x \in DOMAIN orgs : orgs[x].status \in {"fragmented", "merged"} =>
          orgs[x].kind = "insurgent" /\ orgs[x].resources = 0
    BY <1>14, <1>20, <2>2 DEF Clean
  <2>4. \A x \in DOMAIN orgs : orgs[x].status \in {"fragmented", "merged"} =>
          \A f \in DOMAIN forms : forms[f].organization # x
    BY <1>11, <1>20, <2>2 DEF Clean
  <2>5. \A x \in DOMAIN orgs : orgs[x].status \in {"fragmented", "merged"} =>
          \A s \in DOMAIN stores : stores[s].organization # x
    BY <1>12, <1>20, <2>2 DEF Clean
  <2>6. \A x \in DOMAIN orgs : orgs[x].status \in {"fragmented", "merged", "collapsed"} =>
          orgs[x].members = {}
    BY <1>14, <1>20, <2>2 DEF Clean
  <2> QED
    BY <1>1, <2>1, <2>3, <2>4, <2>5, <2>6 DEF Clean
<1> QED
  BY <1>1, <1>13, <1>14, <1>19, <1>20, <1>22, <1>23, <1>25 DEF Division

LEMMA SameLength ==
  ASSUME NEW s, IsList(s), NEW t, IsList(t), DOMAIN s = DOMAIN t
  PROVE  Len(s) = Len(t)
<1>1. Len(s) \in Nat /\ DOMAIN s = 1 .. Len(s)
  BY ListFacts
<1>2. t = [i \in 1 .. Len(t) |-> t[i]] /\ DOMAIN t = 1 .. Len(t)
  BY ListFacts
<1>3. t = [i \in 1 .. Len(s) |-> t[i]]
  BY <1>1, <1>2, Zenon
<1> QED
  BY <1>1, <1>3, ListIntro

\* What the lists say after they were synchronized with the persons.
LEMMA SynchronizedLists ==
  ASSUME Inv, NEW w, w = Synchronized(Ledger, people)
  PROVE  /\ Sound(w) /\ Clean(w) /\ (\A F : Grows(F, Ledger, w)) /\ Ranks(Ledger, w)
         /\ \A o \in ActiveOf(organizations) : w.organizations[o].members = Following(people, o)
         /\ \A p \in Persons : people[p].organization # NoOrganization =>
              p \in w.organizations[people[p].organization].members
<1>1. Sound(Ledger) /\ Clean(Ledger) /\ Belong
  BY DEF Inv
<1>2. Sound(w) /\ Clean(w) /\ (\A F : Grows(F, Ledger, w))
  BY <1>1, SynchronizedLedger
<1>3. Ranks(Ledger, w)
  BY <1>1, SynchronizedLedger
<1>4. \A o \in DOMAIN organizations : w.organizations[o].members =
        IF o \in ActiveOf(organizations) THEN Following(people, o) ELSE organizations[o].members
  BY <1>1, SynchronizedLedger, LedgerIs
<1>5. \A o \in ActiveOf(organizations) : o \in DOMAIN organizations
  BY DEF ActiveOf
<1>6. \A p \in Persons : people[p].organization # NoOrganization =>
        p \in w.organizations[people[p].organization].members
  BY <1>1, <1>4 DEF Belong, Following
<1> QED
  BY <1>2, <1>3, <1>4, <1>5, <1>6

\* Everyone of the members follows one of two factions, and nobody else moves.
Parted(members, a, b) == a \subseteq members /\ b \subseteq members /\ a \cup b = members
PartWays(members, a, b, m, n) ==
  /\ people' = [p \in Persons |-> people'[p]]
  /\ \A p \in a : people'[p] = Armed(m, people[p].fraction)
  /\ \A p \in b : people'[p] = Armed(n, people[p].fraction)
  /\ \A p \in Persons \ members : people'[p] = people[p]

\* The members of an organization that splits, all of them armed, part.
LEMMA MembersPart ==
  ASSUME Belong, NEW o, o # NoOrganization, NEW w,
         DOMAIN w.organizations = DOMAIN organizations,
         \A p \in Persons : people[p].organization # NoOrganization =>
           p \in w.organizations[people[p].organization].members,
         NEW a, NEW b, Parted(Following(people, o), a, b),
         NEW m \in Nat \ {0}, NEW n \in Nat \ {0}, PartWays(Following(people, o), a, b, m, n),
         NEW orgs, DOMAIN organizations \cup {m, n} \subseteq DOMAIN orgs,
         \A x \in DOMAIN organizations : x # o => orgs[x] = w.organizations[x],
         orgs[m].members = a, orgs[n].members = b
  PROVE  /\ people' \in [Persons -> [organization: Nat, fraction: Nat]]
         /\ \A p \in Persons :
              /\ (people'[p].fraction > 0) = (people'[p].organization # NoOrganization)
              /\ people'[p].organization # NoOrganization =>
                   /\ people'[p].organization \in DOMAIN orgs
                   /\ p \in orgs[people'[p].organization].members
<1> DEFINE Fits(p) ==
             /\ people'[p] \in [organization: Nat, fraction: Nat]
             /\ (people'[p].fraction > 0) = (people'[p].organization # NoOrganization)
             /\ people'[p].organization # NoOrganization =>
                  /\ people'[p].organization \in DOMAIN orgs
                  /\ p \in orgs[people'[p].organization].members
<1>1. ASSUME NEW p \in Following(people, o)
      PROVE  people[p].organization = o /\ people[p].fraction \in Nat /\ people[p].fraction > 0
  BY <1>1 DEF Belong, Following
<1>2. ASSUME NEW p \in a PROVE Fits(p)
  <2>1. people[p].fraction \in Nat /\ people[p].fraction > 0
    BY <1>1 DEF Parted
  <2>2. people'[p] = Armed(m, people[p].fraction)
    BY DEF PartWays
  <2>3. people'[p] = [organization |-> m, fraction |-> people[p].fraction]
    BY <2>1, <2>2 DEF Armed
  <2>4. m \in DOMAIN orgs /\ p \in orgs[m].members /\ m # NoOrganization
    BY DEF NoOrganization
  <2> QED
    BY <2>1, <2>3, <2>4
<1>3. ASSUME NEW p \in b PROVE Fits(p)
  <2>1. people[p].fraction \in Nat /\ people[p].fraction > 0
    BY <1>1 DEF Parted
  <2>2. people'[p] = Armed(n, people[p].fraction)
    BY DEF PartWays
  <2>3. people'[p] = [organization |-> n, fraction |-> people[p].fraction]
    BY <2>1, <2>2 DEF Armed
  <2>4. n \in DOMAIN orgs /\ p \in orgs[n].members /\ n # NoOrganization
    BY DEF NoOrganization
  <2> QED
    BY <2>1, <2>3, <2>4
<1>4. ASSUME NEW p \in Persons \ Following(people, o) PROVE Fits(p)
  <2>1. people'[p] = people[p] /\ people[p].organization # o
    BY DEF PartWays, Following
  <2>2. people[p].organization # NoOrganization =>
          /\ people[p].organization \in DOMAIN orgs
          /\ p \in orgs[people[p].organization].members
    BY <2>1 DEF Belong
  <2> QED
    BY <2>1, <2>2 DEF Belong
<1>5. \A p \in Persons : Fits(p)
  BY <1>2, <1>3, <1>4 DEF Parted
<1>6. people' = [p \in Persons |-> people'[p]]
  BY DEF PartWays
<1> QED
  BY <1>5, <1>6

LEMMA DivisionKeeps ==
  ASSUME Inv, NEW o, Ecology("lifecycle", o),
         UNCHANGED <<protos, logisticsVars, interventions, peaceVars>>,
         NEW w, w = Synchronized(Ledger, people), Following(people, o) # {},
         NEW a, NEW b, Parted(Following(people, o), a, b),
         NEW m, NEW n, NextTwo(organizations, m, n),
         PartWays(Following(people, o), a, b, m, n),
         NEW v, v = Divided(w, o, a, b), Becomes(v)
  PROVE  Inv' /\ Staying
<1>1. o \in ActiveOf(organizations) /\ o \in DOMAIN organizations
  BY LifecycleVisit DEF ActiveOf
<1>2. Sound(Ledger) /\ Clean(Ledger) /\ Belong
  BY DEF Inv
<1>3. /\ Sound(w) /\ Clean(w) /\ (\A G : Grows(G, Ledger, w)) /\ Ranks(Ledger, w)
      /\ \A p \in Persons : people[p].organization # NoOrganization =>
           p \in w.organizations[people[p].organization].members
  BY SynchronizedLists
<1>4. /\ DOMAIN w.organizations = DOMAIN organizations
      /\ ActiveOf(w.organizations) = ActiveOf(organizations)
  BY <1>3, RanksActive, LedgerIs DEF Ranks
<1>5. o # NoOrganization
  BY <1>1, <1>2, LedgerIs, ListFacts DEF Sound, Organizations, NoOrganization
<1>6. MayPart(w, o, a, b)
  <2>1. a \subseteq Persons /\ b \subseteq Persons /\ a \cup b = Following(people, o)
    BY DEF Parted, Following
  <2>2. PICK p \in Following(people, o) : people[p].organization # NoOrganization
    BY <1>5 DEF Following
  <2>3. Following(people, o) \subseteq Persons
    BY DEF Following
  <2>4. Weight(Following(people, o)) > 0
    BY <1>2, <2>2, <2>3, WeightNat
  <2> QED
    BY <1>1, <1>4, <2>1, <2>4 DEF MayPart
<1>7. NextTwo(w.organizations, m, n)
  <2>1. IsList(w.organizations) /\ IsList(organizations)
    BY <1>2, <1>3, LedgerIs DEF Sound, Organizations
  <2>2. Len(w.organizations) = Len(organizations)
    BY <1>4, <2>1, SameLength
  <2> QED
    BY <2>2 DEF NextTwo
<1>7a. Division(w, o, a, b, m, n, v)
  BY <1>2, <1>3, <1>6, <1>7, DividedLedger
<1>8. Sound(v) /\ Clean(v) /\ (\A G : o \notin G => Grows(G, w, v))
  BY <1>7a DEF Division
<1>9. /\ m \in 1 .. MaxOrganizations /\ n \in 1 .. MaxOrganizations
      /\ DOMAIN v.organizations = DOMAIN w.organizations \cup {m, n}
      /\ m \notin DOMAIN w.organizations /\ n \notin DOMAIN w.organizations
  BY <1>7a DEF Division
<1>10. /\ \A x \in DOMAIN w.organizations : x # o => v.organizations[x] = w.organizations[x]
       /\ v.organizations[o].status = "fragmented"
       /\ \A x \in {m, n} : v.organizations[x].kind = "insurgent" /\ v.organizations[x].status = "active"
       /\ v.organizations[m].members = a /\ v.organizations[n].members = b
  BY <1>7a DEF Division
<1>11. organizations' = v.organizations
  BY DEF Becomes
<1>12. Grows(Foreigners(organizations), Ledger, v)
  <2>1. Grows(Foreigners(organizations), w, v)
    BY <1>1, <1>8, InsurgentsAreNotForeign
  <2> QED
    BY <1>3, <2>1, GrowsTransitive
<1>13. Unsettled(v)
  <2>1. Unsettled(w)
    BY <1>3, RanksUnsettled
  <2> QED
    BY <1>9, <1>10, <2>1 DEF Unsettled
<1>14. \A x \in ActiveOf(organizations) : x # o => x \in ActiveOf(organizations')
  <2>1. \A x \in ActiveOf(w.organizations) : x # o => x \in ActiveOf(v.organizations)
    BY <1>9, <1>10 DEF ActiveOf
  <2> QED
    BY <1>4, <1>11, <2>1
<1>15. handler' = "ecology" /\ Visits'
  BY <1>14, EcologyGoesOn
<1>16. Belong'
  <2> DEFINE orgs == v.organizations
  <2>1. m \in Nat \ {0} /\ n \in Nat \ {0}
    BY <1>9
  <2>2. /\ DOMAIN organizations \cup {m, n} \subseteq DOMAIN orgs
        /\ \A x \in DOMAIN organizations : x # o => orgs[x] = w.organizations[x]
        /\ orgs[m].members = a /\ orgs[n].members = b
    BY <1>4, <1>9, <1>10
  <2>3. orgs = organizations'
    BY <1>11
  <2> HIDE DEF orgs
  <2>4. people' \in [Persons -> [organization: Nat, fraction: Nat]]
    BY <1>2, <1>3, <1>4, <1>5, <2>1, <2>2, MembersPart
  <2>5. \A p \in Persons :
              /\ (people'[p].fraction > 0) = (people'[p].organization # NoOrganization)
              /\ people'[p].organization # NoOrganization =>
                   /\ people'[p].organization \in DOMAIN orgs
                   /\ p \in orgs[people'[p].organization].members
    BY <1>2, <1>3, <1>4, <1>5, <2>1, <2>2, MembersPart
  <2> QED
    BY <1>2, <1>15, <2>3, <2>4, <2>5 DEF Belong
<1> QED
  BY <1>8, <1>12, <1>13, <1>15, <1>16, InvKept

\* With less than two members it only brings the lists up to date.
LEMMA SplitKeeps ==
  ASSUME Inv, NEW o, Split(o), UNCHANGED <<logisticsVars, interventions, peaceVars>>
  PROVE  Inv' /\ Staying
<1> DEFINE w == Synchronized(Ledger, people)
           members == w.organizations[o].members
           m == Len(organizations) + 1
           n == Len(organizations) + 2
           F == Foreigners(organizations)
<1>1. /\ Ecology("lifecycle", o) /\ protos' = protos
      /\ \/ Becomes(w) /\ people' = people
         \/ /\ Cardinality(members) >= 2 /\ n <= MaxOrganizations
            /\ \E a \in Factions(members) :
                 /\ Becomes(Divided(w, o, a, members \ a))
                 /\ people' = [p \in Persons |-> IF p \in a THEN Armed(m, people[p].fraction)
                                ELSE IF p \in members THEN Armed(n, people[p].fraction)
                                ELSE people[p]]
  BY DEF Split
<1>2. o \in ActiveOf(organizations) /\ o \in DOMAIN organizations
  BY <1>1, LifecycleVisit DEF ActiveOf
<1>3. Sound(Ledger) /\ Clean(Ledger) /\ Belong
  BY DEF Inv
<1>4. /\ Sound(w) /\ Clean(w) /\ (\A G : Grows(G, Ledger, w)) /\ Ranks(Ledger, w)
      /\ \A x \in ActiveOf(organizations) : w.organizations[x].members = Following(people, x)
      /\ \A p \in Persons : people[p].organization # NoOrganization =>
           p \in w.organizations[people[p].organization].members
  BY SynchronizedLists
<1> HIDE DEF w
<1>5. /\ DOMAIN w.organizations = DOMAIN organizations
      /\ ActiveOf(w.organizations) = ActiveOf(organizations)
  BY <1>4, RanksActive, LedgerIs DEF Ranks
<1>6. CASE Becomes(w) /\ people' = people
  <2>1. organizations' = w.organizations
    BY <1>6 DEF Becomes
  <2>2. handler' = "ecology" /\ Visits'
    BY <1>1, <1>5, <2>1, EcologyGoesOn
  <2>3. Belong'
    BY <1>1, <1>3, <1>4, <1>5, <1>6, <2>1, <2>2 DEF Belong
  <2>4. Unsettled(w)
    BY <1>4, RanksUnsettled
  <2> QED
    BY <1>4, <1>6, <2>2, <2>3, <2>4, InvKept
<1>7. ASSUME Cardinality(members) >= 2, n <= MaxOrganizations,
             NEW a \in Factions(members), Becomes(Divided(w, o, a, members \ a)),
             people' = [p \in Persons |-> IF p \in a THEN Armed(m, people[p].fraction)
                          ELSE IF p \in members THEN Armed(n, people[p].fraction) ELSE people[p]]
      PROVE  Inv' /\ Staying
  <2> DEFINE b == members \ a
             v == Divided(w, o, a, b)
  <2>1. members = Following(people, o)
    BY <1>2, <1>4
  <2>2. Following(people, o) # {}
    <3>1. Cardinality({}) = 0
      BY FS_EmptySet
    <3>2. ~(0 >= 2)
      OBVIOUS
    <3>3. Cardinality(members) # 0
      BY <1>7, <3>2
    <3> QED
      BY <2>1, <3>1, <3>3
  <2>3. a \subseteq members
    BY DEF Factions
  <2>4. Parted(Following(people, o), a, b)
    BY <2>1, <2>3 DEF Parted
  <2>5. PartWays(Following(people, o), a, b, m, n)
    <3>1. Following(people, o) \subseteq Persons
      BY DEF Following
    <3> QED
      BY <1>7, <2>1, <2>3, <3>1 DEF PartWays
  <2>6. NextTwo(organizations, m, n)
    BY <1>3, <1>7, LedgerIs, ListFacts DEF Sound, Organizations, NextTwo
  <2>7. Becomes(v) /\ w = Synchronized(Ledger, people)
    BY <1>7 DEF w
  <2>8. v = Divided(w, o, a, b)
    OBVIOUS
  <2> HIDE DEF members, v, b, m, n
  <2> QED
    BY <1>1, <2>2, <2>4, <2>5, <2>6, <2>7, <2>8, DivisionKeeps
<1> QED
  BY <1>1, <1>6, <1>7

\* The place of one organization that is new, of two that are active.
MayMerge(w, x, y, n) ==
  /\ x \in ActiveOf(w.organizations) /\ y \in ActiveOf(w.organizations) /\ x # y
  /\ n = Len(w.organizations) + 1 /\ n <= MaxOrganizations

\* Both parents end, and their child, active, has all that was theirs.
LEMMA MergedLedger ==
  ASSUME NEW w, Sound(w), Clean(w), NEW x, NEW y, NEW n, MayMerge(w, x, y, n),
         NEW v, v = Merged(w, x, y)
  PROVE  /\ Sound(v) /\ Clean(v) /\ (\A F : x \notin F /\ y \notin F => Grows(F, w, v))
         /\ n \in 1 .. MaxOrganizations
         /\ DOMAIN v.organizations = DOMAIN w.organizations \cup {n} /\ n \notin DOMAIN w.organizations
         /\ \A o \in DOMAIN w.organizations : o \notin {x, y} => v.organizations[o] = w.organizations[o]
         /\ \A o \in {x, y} : v.organizations[o].status = "merged"
         /\ n \in ActiveOf(v.organizations)
<1> DEFINE heir == [l \in Localities |-> n]
           part(stock) == [k \in {n} \X Localities |-> stock[<<x, k[2]>>] + stock[<<y, k[2]>>]]
           child == [w.organizations[x] EXCEPT
                       !.members = @ \cup w.organizations[y].members,
                       !.resources = @ + w.organizations[y].resources, !.party = FALSE, !.branches = 0]
           old == [w.organizations EXCEPT ![x] = Ended(w.organizations[x], "merged"),
                                          ![y] = Ended(w.organizations[y], "merged")]
           orgs == Append(old, child)
           forms == Inherited(w.formations, {x, y}, heir)
           stores == Inherited(w.sources, {x, y}, heir)
           pools1 == Bequeathed(w.pools, {x, y}, part(w.pools))
           reserves1 == Bequeathed(w.reserves, {x, y}, part(w.reserves))
<1>0. /\ n = Len(w.organizations) + 1 /\ n <= MaxOrganizations /\ x # y
      /\ x \in ActiveOf(w.organizations) /\ y \in ActiveOf(w.organizations)
  BY DEF MayMerge
<1>1. /\ v.organizations = orgs /\ v.formations = forms /\ v.sources = stores
      /\ v.pools = pools1 /\ v.reserves = reserves1 /\ DOMAIN v = LedgerFields
  BY <1>0 DEF Merged, Sound, LedgerFields
<1>2. \A o \in {x, y} :
        /\ o \in DOMAIN w.organizations /\ o \in 1 .. MaxOrganizations
        /\ w.organizations[o].kind = "insurgent" /\ w.organizations[o].status = "active"
        /\ DOMAIN w.organizations[o] = OrganizationFields /\ w.organizations[o].resources \in Int
  BY <1>0 DEF ActiveOf, Sound, Organizations
<1>3. \A l \in Localities : heir[l] = n
  OBVIOUS
<1> HIDE DEF heir
<1>4. ASSUME NEW stock, stock \in [Keys -> Int]
      PROVE  /\ DOMAIN part(stock) = {n} \X Localities
             /\ \A k \in DOMAIN part(stock) : part(stock)[k] \in Int
  <2>1. \A k \in {n} \X Localities : <<x, k[2]>> \in Keys /\ <<y, k[2]>> \in Keys
    BY <1>2 DEF Keys
  <2>2. \A k \in {n} \X Localities : stock[<<x, k[2]>>] + stock[<<y, k[2]>>] \in Int
    BY <1>4, <2>1
  <2> QED
    BY <2>2
<1> HIDE DEF part
<1>5. /\ pools1 \in [Keys -> Int]
      /\ \A k \in Keys : k[1] \in {x, y} => pools1[k] = 0
      /\ \A k \in Keys : k[1] \notin {x, y} /\ k[1] # n => pools1[k] = w.pools[k]
  <2>1. w.pools \in [Keys -> Int]
    BY DEF Sound
  <2>2. DOMAIN part(w.pools) = {n} \X Localities
    BY <1>4, <2>1
  <2>3. \A k \in DOMAIN part(w.pools) : part(w.pools)[k] \in Int
    BY <1>4, <2>1
  <2>4. pools1 = Bequeathed(w.pools, {x, y}, part(w.pools))
    OBVIOUS
  <2> HIDE DEF pools1
  <2>5. pools1 \in [Keys -> Int]
    BY <2>1, <2>3, <2>4, Bequest
  <2>6. \A k \in Keys : k[1] \in {x, y} => pools1[k] = 0
    BY <2>1, <2>3, <2>4, Bequest
  <2>7. \A k \in Keys : k[1] \notin {x, y} /\ k \notin DOMAIN part(w.pools) => pools1[k] = w.pools[k]
    BY <2>1, <2>3, <2>4, Bequest
  <2> QED
    BY <2>2, <2>5, <2>6, <2>7
<1>6. /\ reserves1 \in [Keys -> Int]
      /\ \A k \in Keys : k[1] \in {x, y} => reserves1[k] = 0
      /\ \A k \in Keys : k[1] \notin {x, y} /\ k[1] # n => reserves1[k] = w.reserves[k]
  <2>1. w.reserves \in [Keys -> Int]
    BY DEF Sound
  <2>2. DOMAIN part(w.reserves) = {n} \X Localities
    BY <1>4, <2>1
  <2>3. \A k \in DOMAIN part(w.reserves) : part(w.reserves)[k] \in Int
    BY <1>4, <2>1
  <2>4. reserves1 = Bequeathed(w.reserves, {x, y}, part(w.reserves))
    OBVIOUS
  <2> HIDE DEF reserves1
  <2>5. reserves1 \in [Keys -> Int]
    BY <2>1, <2>3, <2>4, Bequest
  <2>6. \A k \in Keys : k[1] \in {x, y} => reserves1[k] = 0
    BY <2>1, <2>3, <2>4, Bequest
  <2>7. \A k \in Keys : k[1] \notin {x, y} /\ k \notin DOMAIN part(w.reserves) =>
          reserves1[k] = w.reserves[k]
    BY <2>1, <2>3, <2>4, Bequest
  <2> QED
    BY <2>2, <2>5, <2>6, <2>7
<1>7. /\ Formations(forms) /\ DOMAIN forms = DOMAIN w.formations
      /\ \A f \in DOMAIN forms :
           /\ forms[f].locality = w.formations[f].locality /\ forms[f].personnel = w.formations[f].personnel
           /\ forms[f].moving = w.formations[f].moving /\ forms[f].outside = w.formations[f].outside
           /\ w.formations[f].organization \in {x, y} => forms[f].organization = n
           /\ w.formations[f].organization \notin {x, y} => forms[f] = w.formations[f]
  <2>1. Formations(w.formations)
    BY DEF Sound
  <2>2. Formations(forms) /\ DOMAIN forms = DOMAIN w.formations
    BY <2>1, InheritedFormations
  <2>3. \A f \in DOMAIN w.formations :
           /\ forms[f].locality = w.formations[f].locality /\ forms[f].personnel = w.formations[f].personnel
           /\ forms[f].moving = w.formations[f].moving /\ forms[f].outside = w.formations[f].outside
           /\ w.formations[f].organization \in {x, y} => forms[f].organization = heir[w.formations[f].locality]
           /\ w.formations[f].organization \notin {x, y} => forms[f] = w.formations[f]
    BY <2>1, InheritedFormations
  <2>4. \A f \in DOMAIN w.formations : heir[w.formations[f].locality] = n
    BY <1>3, <2>1 DEF Formations
  <2> HIDE DEF forms
  <2> QED
    BY <2>2, <2>3, <2>4
<1>8. /\ Sources(stores) /\ DOMAIN stores = DOMAIN w.sources
      /\ \A s \in DOMAIN stores :
           /\ w.sources[s].organization \in {x, y} => stores[s].organization = n
           /\ w.sources[s].organization \notin {x, y} => stores[s] = w.sources[s]
  <2>1. Sources(w.sources)
    BY DEF Sound
  <2>2. Sources(stores) /\ DOMAIN stores = DOMAIN w.sources
    BY <2>1, InheritedSources
  <2>3. \A s \in DOMAIN w.sources :
           /\ w.sources[s].organization \in {x, y} => stores[s].organization = heir[w.sources[s].locality]
           /\ w.sources[s].organization \notin {x, y} => stores[s] = w.sources[s]
    BY <2>1, InheritedSources
  <2>4. \A s \in DOMAIN w.sources : heir[w.sources[s].locality] = n
    BY <1>3, <2>1 DEF Sources
  <2> HIDE DEF stores
  <2> QED
    BY <2>2, <2>3, <2>4
<1> HIDE DEF forms, stores, pools1, reserves1
<1>9. /\ DOMAIN child = OrganizationFields /\ child.kind = "insurgent" /\ child.status = "active"
      /\ child.resources \in Int
  BY <1>2 DEF OrganizationFields
<1>10. /\ DOMAIN old = DOMAIN w.organizations
       /\ \A o \in DOMAIN w.organizations : o \notin {x, y} => old[o] = w.organizations[o]
       /\ \A o \in {x, y} :
            /\ DOMAIN old[o] = OrganizationFields /\ old[o].kind = "insurgent" /\ old[o].status = "merged"
            /\ old[o].members = {} /\ old[o].resources = 0
  BY <1>0, <1>2 DEF Ended, OrganizationFields
<1>11. /\ IsList(old) /\ Len(old) = Len(w.organizations) /\ Len(w.organizations) \in Nat
       /\ DOMAIN w.organizations = 1 .. Len(w.organizations)
  <2>1. IsList(w.organizations) /\ old = [o \in DOMAIN w.organizations |-> old[o]]
    BY DEF Sound, Organizations
  <2> QED
    BY <2>1, ListMap, ListFacts
<1> HIDE DEF old, child
<1>12. /\ IsList(orgs) /\ DOMAIN orgs = DOMAIN old \cup {n} /\ n \notin DOMAIN old
       /\ \A o \in DOMAIN old : orgs[o] = old[o]
       /\ orgs[n] = child
  BY <1>0, <1>11, ListAppend
<1> HIDE DEF orgs
<1>13. n \in 1 .. MaxOrganizations
  BY <1>0, <1>11, ConflictAssumption
<1>14. /\ \A o \in DOMAIN w.organizations : o \notin {x, y} => orgs[o] = w.organizations[o]
       /\ \A o \in {x, y} : orgs[o] = old[o]
       /\ DOMAIN orgs = DOMAIN w.organizations \cup {n} /\ n \notin DOMAIN w.organizations
  BY <1>2, <1>10, <1>12
<1>15. Organizations(orgs)
  <2>1. \A o \in DOMAIN w.organizations : DOMAIN orgs[o] = OrganizationFields /\ orgs[o].resources \in Int
    BY <1>10, <1>14 DEF Sound, Organizations
  <2>2. DOMAIN orgs \subseteq 1 .. MaxOrganizations
    BY <1>13, <1>14 DEF Sound, Organizations
  <2> QED
    BY <1>9, <1>12, <1>14, <2>1, <2>2 DEF Organizations
<1>16. Sound(v)
  BY <1>1, <1>5, <1>6, <1>7, <1>8, <1>15 DEF Sound
<1>17. ASSUME NEW F, x \notin F /\ y \notin F PROVE Grows(F, w, v)
  <2>1. \A f \in DOMAIN w.formations : Kept(F, w.formations[f], forms[f])
    BY <1>7, <1>17 DEF Kept
  <2>2. \A o \in DOMAIN w.organizations : orgs[o].kind = w.organizations[o].kind
    BY <1>2, <1>10, <1>14
  <2> QED
    BY <1>1, <1>7, <1>14, <2>1, <2>2 DEF Grows
<1>18. (ActiveOf(w.organizations) \ {x, y}) \cup {n} \subseteq ActiveOf(orgs)
  BY <1>9, <1>12, <1>14 DEF ActiveOf
<1>19. Clean(v)
  <2>1. \A k \in Keys : k[1] \notin ActiveOf(orgs) => pools1[k] = 0 /\ reserves1[k] = 0
    <3>1. \A k \in Keys : k[1] \notin ActiveOf(orgs) => k[1] # n
      BY <1>18
    <3>2. \A k \in Keys : k[1] \notin ActiveOf(orgs) /\ k[1] \notin {x, y} => k[1] \notin ActiveOf(w.organizations)
      BY <1>18
    <3> QED
      BY <1>5, <1>6, <3>1, <3>2 DEF Clean
  <2>2. \A o \in DOMAIN orgs : orgs[o].status \in {"fragmented", "merged", "collapsed"} =>
          o # n /\ o \in DOMAIN w.organizations
    BY <1>9, <1>12, <1>14
  <2>3. \A o \in DOMAIN orgs : orgs[o].status \in {"fragmented", "merged"} =>
          orgs[o].kind = "insurgent" /\ orgs[o].resources = 0
    BY <1>10, <1>14, <2>2 DEF Clean
  <2>4. \A o \in DOMAIN orgs : orgs[o].status \in {"fragmented", "merged"} =>
          \A f \in DOMAIN forms : forms[f].organization # o
    BY <1>7, <1>14, <2>2 DEF Clean
  <2>5. \A o \in DOMAIN orgs : orgs[o].status \in {"fragmented", "merged"} =>
          \A s \in DOMAIN stores : stores[s].organization # o
    BY <1>8, <1>14, <2>2 DEF Clean
  <2>6. \A o \in DOMAIN orgs : orgs[o].status \in {"fragmented", "merged", "collapsed"} =>
          orgs[o].members = {}
    BY <1>10, <1>14, <2>2 DEF Clean
  <2> QED
    BY <1>1, <2>1, <2>3, <2>4, <2>5, <2>6 DEF Clean
<1> QED
  BY <1>1, <1>10, <1>13, <1>14, <1>16, <1>17, <1>18, <1>19

\* Whom the child of a merger takes on: those of the lists of its parents.
LEMMA MergerKeeps ==
  ASSUME Inv, Ecology("merge", 0), UNCHANGED <<protos, logisticsVars, interventions, peaceVars>>,
         NEW x, NEW y, NEW n, MayMerge(Ledger, x, y, n),
         NEW v, v = Merged(Ledger, x, y), NEW both,
         both = organizations[x].members \cup organizations[y].members,
         people' = [p \in Persons |-> people'[p]],
         \A p \in Persons \cap both : people'[p] = Armed(n, people[p].fraction),
         \A p \in Persons \ both : people'[p] = people[p],
         Becomes(Synchronized(v, people'))
  PROVE  Inv' /\ Staying
<1> DEFINE F == Foreigners(organizations)
           who == people'
<1>1. PICK u : u = Synchronized(v, who) /\ Becomes(u)
  OBVIOUS
<1>2. Sound(Ledger) /\ Clean(Ledger) /\ Belong
  BY DEF Inv
<1>3. /\ x \in ActiveOf(organizations) /\ y \in ActiveOf(organizations)
      /\ x \in DOMAIN organizations /\ y \in DOMAIN organizations
  BY LedgerIs DEF MayMerge, ActiveOf
<1>4. /\ Sound(v) /\ Clean(v) /\ (\A G : x \notin G /\ y \notin G => Grows(G, Ledger, v))
      /\ n \in 1 .. MaxOrganizations
      /\ DOMAIN v.organizations = DOMAIN organizations \cup {n} /\ n \notin DOMAIN organizations
      /\ \A o \in DOMAIN organizations : o \notin {x, y} => v.organizations[o] = organizations[o]
      /\ \A o \in {x, y} : v.organizations[o].status = "merged"
      /\ n \in ActiveOf(v.organizations)
  BY <1>2, MergedLedger, LedgerIs
<1>5. /\ Sound(u) /\ Clean(u) /\ (\A G : Grows(G, v, u)) /\ Ranks(v, u)
      /\ \A o \in DOMAIN v.organizations : u.organizations[o].members =
           IF o \in ActiveOf(v.organizations) THEN Following(who, o) ELSE v.organizations[o].members
  BY <1>1, <1>4, SynchronizedLedger
<1>6. Grows(F, Ledger, u)
  <2>1. Grows(F, Ledger, v)
    BY <1>3, <1>4, InsurgentsAreNotForeign
  <2> QED
    BY <1>5, <2>1, GrowsTransitive
<1>7. ActiveOf(u.organizations) = ActiveOf(v.organizations)
  BY <1>5, RanksActive
<1>8. Unsettled(u)
  <2>1. Unsettled(v)
    BY <1>4, LedgerIs DEF Unsettled, ActiveOf
  <2> QED
    BY <1>5, <2>1 DEF Unsettled, Ranks
<1>9. handler' = "idle" /\ Visits'
  BY LastVisit
<1>10. organizations' = u.organizations
  BY <1>1 DEF Becomes
<1>11. DOMAIN u.organizations = DOMAIN v.organizations
  BY <1>5 DEF Ranks
<1>12. Belong'
  <2> DEFINE Fits(p) ==
             /\ who[p] \in [organization: Nat, fraction: Nat]
             /\ (who[p].fraction > 0) = (who[p].organization # NoOrganization)
             /\ who[p].organization # NoOrganization =>
                  /\ who[p].organization \in DOMAIN u.organizations
                  /\ p \in u.organizations[who[p].organization].members
  <2>1. ASSUME NEW p \in Persons \cap both PROVE Fits(p)
    <3>1. people[p].fraction \in Nat /\ who[p] = Armed(n, people[p].fraction)
      BY <1>2 DEF Belong
    <3>2. CASE people[p].fraction = 0
      BY <3>1, <3>2 DEF Armed, Unaffiliated, NoOrganization
    <3>3. CASE people[p].fraction # 0
      <4>1. who[p] = [organization |-> n, fraction |-> people[p].fraction] /\ n # NoOrganization
        BY <1>4, <3>1, <3>3 DEF Armed, NoOrganization
      <4>2. n \in DOMAIN u.organizations /\ p \in u.organizations[n].members
        <5>1. p \in Following(who, n)
          BY <4>1 DEF Following
        <5>2. n \in DOMAIN v.organizations /\ n \in ActiveOf(v.organizations)
          BY <1>4
        <5> HIDE DEF who
        <5> QED
          BY <1>5, <1>11, <5>1, <5>2
      <4> QED
        BY <1>4, <3>1, <3>3, <4>1, <4>2
    <3> QED
      BY <3>2, <3>3
  <2>2. ASSUME NEW p \in Persons \ both PROVE Fits(p)
    <3>1. who[p] = people[p] /\ people[p] \in [organization: Nat, fraction: Nat]
      BY <1>2 DEF Belong
    <3>2. ASSUME people[p].organization # NoOrganization
          PROVE  /\ people[p].organization \in DOMAIN u.organizations
                 /\ p \in u.organizations[people[p].organization].members
      <4> DEFINE z == people[p].organization
      <4>1. z \in DOMAIN organizations /\ p \in organizations[z].members
        BY <1>2, <3>2 DEF Belong
      <4>2. z \notin {x, y}
        BY <4>1
      <4>3. p \in Following(who, z)
        BY <3>1 DEF Following
      <4> HIDE DEF z
      <4> QED
        BY <1>4, <1>5, <1>11, <4>1, <4>2, <4>3 DEF z
    <3> QED
      BY <1>2, <3>1, <3>2 DEF Belong
  <2>3. \A p \in Persons : Fits(p)
    BY <2>1, <2>2
  <2>4. who \in [Persons -> [organization: Nat, fraction: Nat]]
    BY <2>3
  <2>5. \A o \in ActiveOf(u.organizations) : u.organizations[o].members \subseteq Following(who, o)
    BY <1>5, <1>7 DEF ActiveOf
  <2>6. /\ protos' \in [DOMAIN Community -> [founders: SUBSET Persons, fraction: Nat]]
        /\ \A c \in DOMAIN Community : protos'[c].founders # {} => protos'[c].fraction > 0
    BY <1>2 DEF Belong
  <2> QED
    BY <1>10, <2>3, <2>4, <2>5, <2>6 DEF Belong, Following
<1> QED
  BY <1>1, <1>5, <1>6, <1>8, <1>9, <1>12, InvKept

LEMMA MergeKeeps ==
  ASSUME Inv, MergeOrganizations, UNCHANGED <<logisticsVars, interventions, peaceVars>>
  PROVE  Inv' /\ Staying
<1>1. /\ Ecology("merge", 0) /\ protos' = protos
      /\ \/ Becomes(Synchronized(Ledger, people)) /\ people' = people
         \/ /\ Len(organizations) < MaxOrganizations
            /\ \E x, y \in ActiveOf(organizations) :
                 LET both == organizations[x].members \cup organizations[y].members
                     who == [p \in Persons |-> IF p \in both
                               THEN Armed(Len(organizations) + 1, people[p].fraction) ELSE people[p]]
                 IN x < y /\ people' = who /\ Becomes(Synchronized(Merged(Ledger, x, y), who))
  BY DEF MergeOrganizations
<1>2. Sound(Ledger) /\ Clean(Ledger) /\ Belong
  BY DEF Inv
<1>3. CASE Becomes(Synchronized(Ledger, people)) /\ people' = people
  <2>1. PICK w : w = Synchronized(Ledger, people) /\ Becomes(w)
    BY <1>3
  <2>2. /\ Sound(w) /\ Clean(w) /\ (\A F : Grows(F, Ledger, w)) /\ Ranks(Ledger, w)
        /\ \A o \in ActiveOf(organizations) : w.organizations[o].members = Following(people, o)
        /\ \A p \in Persons : people[p].organization # NoOrganization =>
             p \in w.organizations[people[p].organization].members
    BY <2>1, SynchronizedLists
  <2>3. /\ DOMAIN w.organizations = DOMAIN organizations
        /\ ActiveOf(w.organizations) = ActiveOf(organizations)
    BY <2>2, RanksActive, LedgerIs DEF Ranks
  <2>4. organizations' = w.organizations
    BY <2>1 DEF Becomes
  <2>5. handler' = "idle" /\ Visits'
    BY <1>1, LastVisit
  <2>6. Belong'
    <3>1. \A o \in ActiveOf(organizations') :
            organizations'[o].members = {p \in Persons : people'[p].organization = o}
      BY <1>3, <2>2, <2>3, <2>4 DEF Following
    <3>2. \A p \in Persons : people'[p].organization # NoOrganization =>
            /\ people'[p].organization \in DOMAIN organizations'
            /\ p \in organizations'[people'[p].organization].members
      BY <1>2, <1>3, <2>2, <2>3, <2>4 DEF Belong
    <3> QED
      BY <1>1, <1>2, <1>3, <3>1, <3>2 DEF Belong
  <2>7. Unsettled(w)
    BY <2>2, RanksUnsettled
  <2> QED
    BY <2>1, <2>2, <2>5, <2>6, <2>7, InvKept
<1>4. ASSUME Len(organizations) < MaxOrganizations,
             NEW x \in ActiveOf(organizations), NEW y \in ActiveOf(organizations), x < y,
             NEW both, both = organizations[x].members \cup organizations[y].members,
             people' = [p \in Persons |-> IF p \in both
                          THEN Armed(Len(organizations) + 1, people[p].fraction) ELSE people[p]],
             Becomes(Synchronized(Merged(Ledger, x, y), people'))
      PROVE  Inv' /\ Staying
  <2>1. PICK n : n = Len(organizations) + 1
    OBVIOUS
  <2>2. PICK v : v = Merged(Ledger, x, y)
    OBVIOUS
  <2>3. MayMerge(Ledger, x, y, n)
    <3>1. Len(organizations) \in Nat /\ x \in Int /\ y \in Int
      BY <1>2, LedgerIs, ListFacts DEF Sound, Organizations, ActiveOf
    <3> QED
      BY <1>4, <2>1, <3>1, LedgerIs, ConflictAssumption DEF MayMerge
  <2>4. /\ people' = [p \in Persons |-> people'[p]]
        /\ \A p \in Persons \cap both : people'[p] = Armed(n, people[p].fraction)
        /\ \A p \in Persons \ both : people'[p] = people[p]
    BY <1>4, <2>1
  <2>5. Becomes(Synchronized(v, people'))
    BY <1>4, <2>2
  <2>6. /\ Ecology("merge", 0) /\ UNCHANGED <<protos, logisticsVars, interventions, peaceVars>>
        /\ both = organizations[x].members \cup organizations[y].members
    BY <1>1, <1>4
  <2> QED
    BY <2>2, <2>3, <2>4, <2>5, <2>6, MergerKeeps
<1>5. ASSUME \E x, y \in ActiveOf(organizations) :
                 LET both == organizations[x].members \cup organizations[y].members
                     who == [p \in Persons |-> IF p \in both
                               THEN Armed(Len(organizations) + 1, people[p].fraction) ELSE people[p]]
                 IN x < y /\ people' = who /\ Becomes(Synchronized(Merged(Ledger, x, y), who)),
             Len(organizations) < MaxOrganizations
      PROVE  Inv' /\ Staying
  BY <1>4, <1>5
<1> QED
  BY <1>1, <1>3, <1>5

LEMMA EcologyStarts ==
  ASSUME Inv, ProcessOrganizationEcology, UNCHANGED <<logisticsVars, interventions, peaceVars>>
  PROVE  Inv' /\ Staying
<1>1. UNCHANGED <<ledgerVars, people, protos>>
  BY DEF ProcessOrganizationEcology, ecologyVars
<1>2. handler' = "ecology" /\ Visits'
  BY EcologyBegins
<1>3. /\ protos' \in [DOMAIN Community -> [founders: SUBSET Persons, fraction: Nat]]
      /\ \A c \in DOMAIN Community : protos'[c].founders # {} => protos'[c].fraction > 0
  BY <1>1 DEF Inv, Belong
<1> QED
  BY <1>1, <1>2, <1>3, NobodyKeeps

LEMMA LifecycleKeeps ==
  ASSUME Inv, LifecycleNext, UNCHANGED <<logisticsVars, interventions, peaceVars>>
  PROVE  Inv' /\ Staying
<1>1. CASE ProcessOrganizationEcology
  BY <1>1, EcologyStarts
<1>2. CASE MergeOrganizations
  BY <1>2, MergeKeeps
<1>3. ASSUME NEW c \in DOMAIN Community, Incubate(c) PROVE Inv' /\ Staying
  BY <1>3, IncubateKeeps
<1>4. ASSUME NEW c \in DOMAIN Community, NEW founders \in SUBSET Persons, NEW n \in 1 .. Cohorts,
             FormProto(c, founders, n)
      PROVE  Inv' /\ Staying
  BY <1>4, FormProtoKeeps
<1>5. ASSUME NEW c \in DOMAIN Community, NEW r \in Contributions, NEW stock \in 0 .. r,
             Mature(c, r, stock)
      PROVE  Inv' /\ Staying
  BY <1>5, MatureKeeps
<1>6. ASSUME NEW o \in DOMAIN organizations, Persist(o) \/ Split(o) \/ Collapse(o) PROVE Inv' /\ Staying
  BY <1>6, PersistKeeps, SplitKeeps, CollapseKeeps
<1> QED
  BY <1>1, <1>2, <1>3, <1>4, <1>5, <1>6 DEF LifecycleNext

LEMMA MobilizationKeeps ==
  ASSUME Inv, Mobilization
  PROVE  Inv' /\ Staying
<1>1. UNCHANGED <<logisticsVars, interventions, peaceVars>>
  BY DEF Mobilization
<1>2. ASSUME NEW income \in [DOMAIN organizations -> {0, 1}], Economy(income) PROVE Inv' /\ Staying
  BY <1>1, <1>2, EconomyKeeps
<1> QED
  BY <1>1, <1>2, RecruitmentKeeps, LifecycleKeeps DEF Mobilization, EcologyNext

-----------------------------------------------------------------------------
(* Talks, agreements and what they settle.                                 *)

LEMMA LedgerStays ==
  ASSUME Inv, UNCHANGED ledgerVars
  PROVE  /\ Becomes(Ledger) /\ Sound(Ledger)' /\ Clean(Ledger)'
         /\ Grows(Foreigners(organizations), Ledger, Ledger)
<1>1. Becomes(Ledger)
  BY DEF Becomes, Ledger, ledgerVars
<1>2. Grows(Foreigners(organizations), Ledger, Ledger)
  BY DEF Grows, Kept, Inv, Sound, Formations
<1> QED
  BY <1>1, <1>2, LedgerBecomes DEF Inv

LEMMA PeaceStarts ==
  ASSUME Inv, NEW talks, NEW accepted, ProcessPeace(talks, accepted),
         UNCHANGED <<logisticsVars, interventions>>
  PROVE  Inv' /\ Staying
<1> DEFINE items == Chosen([a \in DOMAIN agreements' |-> <<"implement", a>>],
                           {"implement"} \X {a \in DOMAIN agreements' : Ongoing(agreements'[a])})
<1>1. /\ handler = "idle" /\ UNCHANGED <<ledgerVars, people, protos>>
      /\ talks = negotiation \/ talks = ActiveOf(organizations)
      /\ \/ negotiation' = talks /\ agreements' = agreements /\ ceasefires' = ceasefires
         \/ /\ accepted \subseteq talks /\ negotiation' = {}
            /\ agreements' = Append(agreements, Signed("signed", accepted))
            /\ ceasefires' = ceasefires \cup accepted
      /\ Begin("peace", items)
  BY DEF ProcessPeace, Idle, ecologyVars
<1> HIDE DEF items
<1>2. organizations' = organizations /\ people' = people /\ protos' = protos
  BY <1>1 DEF ledgerVars
<1>3. /\ Becomes(Ledger) /\ Sound(Ledger)' /\ Clean(Ledger)'
      /\ Grows(Foreigners(organizations), Ledger, Ledger)
  BY <1>1, LedgerStays
<1>4. Marches' /\ Forced'
  BY <1>3, MarchesKept, ForcedKept
<1>5. Seated /\ IsList(agreements) /\ SettlementsStand
  BY DEF Inv, Seated
<1>6. talks \subseteq Insurgents(organizations)
  BY <1>1, <1>5 DEF Seated, Insurgents, ActiveOf
<1>7. /\ IsList(agreements') /\ DOMAIN agreements \subseteq DOMAIN agreements'
      /\ \A a \in DOMAIN agreements : agreements'[a] = agreements[a]
      /\ \A a \in DOMAIN agreements' \ DOMAIN agreements :
           agreements'[a] = Signed("signed", accepted) /\ accepted \subseteq talks
      /\ \A o \in ceasefires' \ ceasefires : \E a \in DOMAIN agreements' \ DOMAIN agreements : o \in accepted
      /\ negotiation' \subseteq talks
  <2>1. CASE agreements' = agreements /\ negotiation' = talks /\ ceasefires' = ceasefires
    BY <1>5, <2>1
  <2>2. CASE /\ accepted \subseteq talks /\ negotiation' = {}
             /\ agreements' = Append(agreements, Signed("signed", accepted))
             /\ ceasefires' = ceasefires \cup accepted
    <3>1. PICK n, e : n = Len(agreements) + 1 /\ e = Signed("signed", accepted)
      OBVIOUS
    <3>2. /\ IsList(agreements') /\ DOMAIN agreements' = DOMAIN agreements \cup {n}
          /\ n \notin DOMAIN agreements /\ agreements'[n] = e
          /\ \A a \in DOMAIN agreements : agreements'[a] = agreements[a]
      BY <1>5, <2>2, <3>1, ListAppend
    <3> QED
      BY <2>2, <3>1, <3>2
  <2> QED
    BY <1>1, <2>1, <2>2
<1>8. /\ DOMAIN Signed("signed", accepted) = AgreementFields
      /\ Signed("signed", accepted).signatories = accepted
      /\ Ongoing(Signed("signed", accepted))
  BY DEF Signed, AgreementFields, Ongoing
<1>9. Seated'
  <2>1. \A a \in DOMAIN agreements' :
          /\ DOMAIN agreements'[a] = AgreementFields
          /\ agreements'[a].signatories \subseteq Insurgents(organizations)
    BY <1>5, <1>6, <1>7, <1>8 DEF Seated
  <2> QED
    BY <1>2, <1>6, <1>7, <2>1 DEF Seated
<1>10. SettlementsStand'
  <2>1. \A o \in DOMAIN organizations' : organizations'[o].status = "political" =>
          \E a \in DOMAIN agreements' : agreements'[a].status = "completed"
                                        /\ o \in agreements'[a].signatories
    BY <1>2, <1>5, <1>7 DEF SettlementsStand
  <2>2. \A o \in ceasefires' :
          \E a \in DOMAIN agreements' : Ongoing(agreements'[a]) /\ o \in agreements'[a].signatories
    <3>1. ASSUME NEW o \in ceasefires
          PROVE  \E a \in DOMAIN agreements' : Ongoing(agreements'[a]) /\ o \in agreements'[a].signatories
      BY <1>5, <1>7 DEF SettlementsStand
    <3>2. ASSUME NEW o \in ceasefires' \ ceasefires
          PROVE  \E a \in DOMAIN agreements' : Ongoing(agreements'[a]) /\ o \in agreements'[a].signatories
      BY <1>7, <1>8
    <3> QED
      BY <3>1, <3>2
  <2>3. SettlementsStand' <=>
          /\ \A o \in DOMAIN organizations' : organizations'[o].status = "political" =>
               \E a \in DOMAIN agreements' : agreements'[a].status = "completed"
                                             /\ o \in agreements'[a].signatories
          /\ \A o \in ceasefires' :
               \E a \in DOMAIN agreements' : Ongoing(agreements'[a]) /\ o \in agreements'[a].signatories
    BY DEF SettlementsStand, Ongoing
  <2> QED
    BY <2>1, <2>2, <2>3
<1>11. Visits' /\ handler' # "ecology"
  <2>1. PICK s, among : /\ s = [a \in DOMAIN agreements' |-> <<"implement", a>>]
                        /\ among = {"implement"} \X {a \in DOMAIN agreements' : Ongoing(agreements'[a])}
    OBVIOUS
  <2>2. IsList(s) /\ DOMAIN s = DOMAIN agreements'
    BY <1>7, <2>1, ListMap
  <2>3. \A j, m \in DOMAIN s : s[j] = s[m] => j = m
    BY <2>1
  <2>4. PICK c : c = Chosen(s, among)
    OBVIOUS
  <2>5. /\ IsList(c) /\ \A k \in DOMAIN c : c[k] \in among
        /\ \A k, m \in DOMAIN c : c[k] = c[m] => k = m
    BY <2>2, <2>3, <2>4, ChosenList
  <2>6. items = c
    BY <2>1, <2>4 DEF items
  <2>7. pending' = c /\ handler' \in {"idle", "peace"}
    BY <1>1, <2>6 DEF Begin
  <2>8. \A k \in DOMAIN c : \E a \in DOMAIN agreements' :
          c[k] = <<"implement", a>> /\ Ongoing(agreements'[a])
    BY <2>1, <2>5
  <2> QED
    BY <2>5, <2>7, <2>8 DEF Visits, Ongoing
<1>12. Belong'
  <2>1. Disjoint' => Disjoint
    BY <1>7 DEF Disjoint
  <2>2. handler # "ecology"
    BY <1>1
  <2> QED
    BY <1>2, <1>11, <2>1, <2>2 DEF Inv, Belong
<1>13. Staying
  BY <1>3 DEF Staying
<1> QED
  BY <1>3, <1>4, <1>9, <1>10, <1>11, <1>12, <1>13 DEF Inv

\* What the visit to an agreement makes of the ledger.
Carried(S, amount, arms, progress, completes, fails, w) ==
  \E handed, incorporated, completed :
    /\ handed = IF progress = "none" THEN Ledger ELSE Demobilized(Ledger, amount, arms)
    /\ incorporated = IF progress = "incorporating" THEN Incorporated(handed, S) ELSE handed
    /\ completed = IF completes THEN Completed(incorporated, S) ELSE incorporated
    /\ w = IF fails THEN Failed(completed, S) ELSE completed

\* What it makes of those who signed.
Outcome(S, completes, fails, w) ==
  /\ Sound(w) /\ Clean(w) /\ Grows(Foreigners(organizations), Ledger, w)
  /\ DOMAIN w.organizations = DOMAIN organizations
  /\ \A o \in DOMAIN organizations :
       /\ w.organizations[o].members = organizations[o].members
       /\ w.organizations[o].status = "political" =>
            \/ o \in S /\ completes /\ ~fails
            \/ organizations[o].status = "political" /\ ~(o \in S /\ fails)
       /\ w.organizations[o].status = "active" =>
            \/ organizations[o].status = "active"
            \/ o \in S /\ organizations[o].status \in Statuses

\* What an agreement makes of the ledger, and of whom: those who signed it.
LEMMA ImplementLedger ==
  ASSUME Inv, NEW S, S \subseteq Insurgents(organizations), NEW amount, NEW arms,
         \A f \in DOMAIN amount : amount[f] \in Int /\ formations[f].organization \in S,
         NEW progress, NEW completes \in BOOLEAN, NEW fails \in BOOLEAN,
         NEW w, Carried(S, amount, arms, progress, completes, fails, w)
  PROVE  Outcome(S, completes, fails, w)
<1> DEFINE F == Foreigners(organizations)
<1>0. PICK handed, incorporated, completed :
        /\ handed = IF progress = "none" THEN Ledger ELSE Demobilized(Ledger, amount, arms)
        /\ incorporated = IF progress = "incorporating" THEN Incorporated(handed, S) ELSE handed
        /\ completed = IF completes THEN Completed(incorporated, S) ELSE incorporated
        /\ w = IF fails THEN Failed(completed, S) ELSE completed
  BY DEF Carried
<1> USE <1>0
<1>1. Sound(Ledger) /\ Clean(Ledger) /\ Grows(F, Ledger, Ledger)
  BY DEF Grows, Kept, Inv, Sound, Formations
<1> HIDE DEF F
<1>2. /\ Sound(handed) /\ Clean(handed) /\ Grows(F, Ledger, handed)
      /\ handed.organizations = organizations
  <2>1. CASE progress = "none"
    BY <1>1, <2>1, LedgerIs
  <2>2. CASE progress # "none"
    <3>1. \A f \in DOMAIN amount : amount[f] \in Int
      OBVIOUS
    <3>2. \A f \in DOMAIN amount \cap DOMAIN Ledger.formations : Ledger.formations[f].organization \notin F
      BY LedgerIs DEF F, Foreigners, Insurgents
    <3>3. Sound(handed)
      BY <1>1, <2>2, <3>1, <3>2, DemobilizedLedger
    <3>4. Clean(handed)
      BY <1>1, <2>2, <3>1, <3>2, DemobilizedLedger
    <3>5. Grows(F, Ledger, handed)
      BY <1>1, <2>2, <3>1, <3>2, DemobilizedLedger
    <3>6. handed.organizations = Ledger.organizations
      BY <1>1, <2>2, <3>1, <3>2, DemobilizedLedger
    <3> QED
      BY <3>3, <3>4, <3>5, <3>6, LedgerIs
  <2> QED
    BY <2>1, <2>2
<1>3. /\ Sound(incorporated) /\ Clean(incorporated) /\ Grows(F, Ledger, incorporated)
      /\ DOMAIN incorporated.organizations = DOMAIN organizations
      /\ \A o \in DOMAIN organizations :
           /\ incorporated.organizations[o].members = organizations[o].members
           /\ incorporated.organizations[o].status = organizations[o].status
  <2>1. CASE progress = "incorporating"
    <3>1. incorporated = Incorporated(handed, S)
      BY <2>1
    <3>2. /\ Sound(incorporated) /\ Clean(incorporated) /\ (\A G : Grows(G, handed, incorporated))
          /\ Ranks(handed, incorporated)
          /\ \A o \in DOMAIN handed.organizations :
               incorporated.organizations[o].members = handed.organizations[o].members
      BY <1>2, <3>1, IncorporatedLedger
    <3> QED
      BY <1>2, <3>2, GrowsTransitive DEF Ranks
  <2> QED
    BY <1>2, <2>1
<1>4. /\ Sound(completed) /\ Clean(completed) /\ Grows(F, Ledger, completed)
      /\ DOMAIN completed.organizations = DOMAIN organizations
      /\ \A o \in DOMAIN organizations :
           /\ completed.organizations[o].members = organizations[o].members
           /\ completed.organizations[o].status =
                IF completes /\ o \in S /\ organizations[o].status \in Statuses
                THEN "political" ELSE organizations[o].status
  <2>1. CASE completes
    <3>1. completed = Completed(incorporated, S)
      BY <2>1
    <3>2. /\ Sound(completed) /\ Clean(completed) /\ (\A G : Grows(G, incorporated, completed))
          /\ DOMAIN completed.organizations = DOMAIN incorporated.organizations
          /\ \A o \in DOMAIN incorporated.organizations :
               /\ completed.organizations[o].members = incorporated.organizations[o].members
               /\ completed.organizations[o].status =
                    IF o \in S /\ incorporated.organizations[o].status \in Statuses
                    THEN "political" ELSE incorporated.organizations[o].status
      BY <1>3, <3>1, CompletedLedger
    <3> QED
      BY <1>3, <2>1, <3>2, GrowsTransitive
  <2> QED
    BY <1>3, <2>1
<1>5. /\ Sound(w) /\ Clean(w) /\ Grows(F, Ledger, w)
      /\ DOMAIN w.organizations = DOMAIN organizations
      /\ \A o \in DOMAIN organizations :
           /\ w.organizations[o].members = organizations[o].members
           /\ w.organizations[o].status =
                IF fails /\ o \in S /\ completed.organizations[o].status = "political"
                THEN "active" ELSE completed.organizations[o].status
  <2>1. CASE fails
    <3>1. w = Failed(completed, S)
      BY <2>1
    <3>2. /\ Sound(w) /\ Clean(w) /\ (\A G : Grows(G, completed, w))
          /\ DOMAIN w.organizations = DOMAIN completed.organizations
          /\ \A o \in DOMAIN completed.organizations :
               /\ w.organizations[o].members = completed.organizations[o].members
               /\ w.organizations[o].status =
                    IF o \in S /\ completed.organizations[o].status = "political"
                    THEN "active" ELSE completed.organizations[o].status
      BY <1>4, <3>1, FailedLedger
    <3> QED
      BY <1>4, <2>1, <3>2, GrowsTransitive
  <2> QED
    BY <1>4, <2>1
<1>6. "political" \in Statuses /\ "active" # "political"
  BY DEF Statuses
<1>7. ASSUME NEW o \in DOMAIN organizations
      PROVE  /\ w.organizations[o].status = "political" =>
                  \/ o \in S /\ completes /\ ~fails
                  \/ organizations[o].status = "political" /\ ~(o \in S /\ fails)
             /\ w.organizations[o].status = "active" =>
                  \/ organizations[o].status = "active"
                  \/ o \in S /\ organizations[o].status \in Statuses
  <2>1. /\ completed.organizations[o].status =
             IF completes /\ o \in S /\ organizations[o].status \in Statuses
             THEN "political" ELSE organizations[o].status
        /\ w.organizations[o].status =
             IF fails /\ o \in S /\ completed.organizations[o].status = "political"
             THEN "active" ELSE completed.organizations[o].status
    BY <1>4, <1>5
  <2> QED
    BY <1>6, <2>1
<1> QED
  BY <1>5, <1>7 DEF F, Outcome

\* The agreement that is visited is ongoing, and no other visit is to it.
LEMMA AgreementVisit ==
  ASSUME Inv, handler = "peace", NEW a, Visiting("implement", a),
         DOMAIN agreements' = DOMAIN agreements,
         \A b \in DOMAIN agreements : b # a => agreements'[b] = agreements[b]
  PROVE  /\ a \in DOMAIN agreements /\ Ongoing(agreements[a])
         /\ Visits' /\ handler' # "ecology"
<1>1. /\ pending # <<>> /\ Head(pending) = <<"implement", a>>
      /\ pending' = Tail(pending)
      /\ handler' = IF Tail(pending) = <<>> THEN "idle" ELSE "peace"
  BY DEF Visiting, Begin
<1>2. /\ IsList(pending)
      /\ \A k \in DOMAIN pending : \E b \in DOMAIN agreements :
           pending[k] = <<"implement", b>> /\ Ongoing(agreements[b])
      /\ \A k, m \in DOMAIN pending : pending[k] = pending[m] => k = m
  BY DEF Inv, Visits
<1> DEFINE rest == Tail(pending)
<1>3. /\ pending[1] = <<"implement", a>> /\ 1 \in DOMAIN pending
      /\ IsList(rest) /\ Len(rest) = Len(pending) - 1
      /\ \A k \in DOMAIN rest : k + 1 \in DOMAIN pending /\ k + 1 # 1 /\ rest[k] = pending[k + 1]
  BY <1>1, <1>2, ListTail
<1> HIDE DEF rest
<1>4. a \in DOMAIN agreements /\ Ongoing(agreements[a])
  BY <1>2, <1>3
<1>5. ASSUME NEW k \in DOMAIN rest
      PROVE  \E b \in DOMAIN agreements' : rest[k] = <<"implement", b>> /\ Ongoing(agreements'[b])
  <2>1. PICK b \in DOMAIN agreements : pending[k + 1] = <<"implement", b>> /\ Ongoing(agreements[b])
    BY <1>2, <1>3
  <2>2. b # a
    BY <1>2, <1>3, <2>1
  <2> QED
    BY <1>3, <2>1, <2>2 DEF Ongoing
<1>6. DOMAIN rest \subseteq Nat
  BY <1>3, ListFacts
<1>7. \A k, m \in DOMAIN rest : rest[k] = rest[m] => k = m
  <2>1. ASSUME NEW k \in DOMAIN rest, NEW m \in DOMAIN rest, rest[k] = rest[m] PROVE k = m
    <3>1. k + 1 = m + 1
      BY <1>2, <1>3, <2>1
    <3> QED
      BY <1>6, <3>1
  <2> QED
    BY <2>1
<1>8. pending' = rest /\ handler' \in {"idle", "peace"}
  BY <1>1 DEF rest
<1> QED
  BY <1>3, <1>4, <1>5, <1>7, <1>8 DEF Visits, Ongoing

\* No organization settles by a ceasefire, or keeps one, without its agreement; and one
\* that becomes active again has the people it had, or nobody.
LEMMA ImplementKeeps ==
  ASSUME Inv, NEW a, NEW violated, NEW progress, NEW completes \in BOOLEAN, NEW fails \in BOOLEAN,
         NEW amount, NEW arms, Implement(a, violated, progress, completes, fails, amount, arms),
         \A f \in DOMAIN amount :
           amount[f] \in Int /\ formations[f].organization \in agreements[a].signatories,
         handler = "peace", UNCHANGED <<logisticsVars, interventions>>
  PROVE  Inv' /\ Staying
<1>1. PICK S : S = agreements[a].signatories
  OBVIOUS
<1>2. PICK handed : handed = IF progress = "none" THEN Ledger ELSE Demobilized(Ledger, amount, arms)
  OBVIOUS
<1>3. PICK incorporated :
        incorporated = IF progress = "incorporating" THEN Incorporated(handed, S) ELSE handed
  OBVIOUS
<1>4. PICK completed :
        completed = IF completes THEN Completed(incorporated, S) ELSE incorporated
  OBVIOUS
<1>5. PICK w : w = IF fails THEN Failed(completed, S) ELSE completed
  OBVIOUS
<1>6. /\ Visiting("implement", a) /\ UNCHANGED <<people, protos, negotiation>>
      /\ Becomes(w)
      /\ ceasefires' = Lifted(S, violated, completes \/ fails)
      /\ agreements' = [agreements EXCEPT ![a] =
           IF completes \/ fails
           THEN Signed(IF fails THEN "failed" ELSE "completed", S)
           ELSE [status |-> "implementing", signatories |-> S, progress |-> progress]]
  BY <1>1, <1>2, <1>3, <1>4, <1>5 DEF Implement, Incorporated, ecologyVars
<1>7. DOMAIN agreements' = DOMAIN agreements
  BY <1>6
<1>8. \A b \in DOMAIN agreements : b # a => agreements'[b] = agreements[b]
  BY <1>6
<1>9. a \in DOMAIN agreements /\ Ongoing(agreements[a])
  BY <1>6, <1>7, <1>8, AgreementVisit
<1>10. Visits' /\ handler' # "ecology"
  BY <1>6, <1>7, <1>8, AgreementVisit
<1>11. /\ DOMAIN agreements'[a] = AgreementFields /\ agreements'[a].signatories = S
       /\ completes /\ ~fails => agreements'[a].status = "completed"
       /\ ~completes /\ ~fails => agreements'[a].status = "implementing"
  BY <1>6, <1>9 DEF Signed, AgreementFields
<1>12. Seated /\ IsList(agreements) /\ S \subseteq Insurgents(organizations)
  BY <1>1, <1>9 DEF Inv, Seated
<1>13. /\ Sound(w) /\ Clean(w) /\ Grows(Foreigners(organizations), Ledger, w)
       /\ DOMAIN w.organizations = DOMAIN organizations
       /\ \A o \in DOMAIN organizations :
            /\ w.organizations[o].members = organizations[o].members
            /\ w.organizations[o].status = "political" =>
                 \/ o \in S /\ completes /\ ~fails
                 \/ organizations[o].status = "political" /\ ~(o \in S /\ fails)
            /\ w.organizations[o].status = "active" =>
                 \/ organizations[o].status = "active"
                 \/ o \in S /\ organizations[o].status \in Statuses
  <2>1. Carried(S, amount, arms, progress, completes, fails, w)
    BY <1>2, <1>3, <1>4, <1>5 DEF Carried
  <2>2. \A f \in DOMAIN amount : amount[f] \in Int /\ formations[f].organization \in S
    BY <1>1
  <2>3. Outcome(S, completes, fails, w)
    BY <1>12, <2>1, <2>2, ImplementLedger
  <2> QED
    BY <2>3 DEF Outcome
<1>14. Sound(Ledger)' /\ Clean(Ledger)'
  BY <1>6, <1>13, LedgerBecomes
<1>15. Marches' /\ Forced'
  BY <1>6, <1>13, MarchesKept, ForcedKept
<1>16. organizations' = w.organizations
  BY <1>6 DEF Becomes
<1>17. \A o \in DOMAIN organizations : w.organizations[o].kind = organizations[o].kind
  BY <1>13, LedgerIs DEF Grows
<1>18. Insurgents(organizations') = Insurgents(organizations)
  BY <1>13, <1>16, <1>17 DEF Insurgents
<1>19. Seated'
  <2>1. agreements' = [b \in DOMAIN agreements |-> agreements'[b]]
    BY <1>6
  <2>2. IsList(agreements')
    BY <1>12, <2>1, ListMap
  <2>3. negotiation' \subseteq Insurgents(organizations')
    BY <1>6, <1>12, <1>18 DEF Seated
  <2>4. \A b \in DOMAIN agreements' : /\ DOMAIN agreements'[b] = AgreementFields
                                      /\ agreements'[b].signatories \subseteq Insurgents(organizations')
    BY <1>7, <1>8, <1>11, <1>12, <1>18 DEF Seated
  <2> QED
    BY <2>2, <2>3, <2>4 DEF Seated
<1>20. /\ \A o \in DOMAIN organizations : organizations[o].status = "political" =>
            \E b \in DOMAIN agreements : agreements[b].status = "completed"
                                         /\ o \in agreements[b].signatories
       /\ \A o \in ceasefires :
            \E b \in DOMAIN agreements : Ongoing(agreements[b]) /\ o \in agreements[b].signatories
  BY DEF Inv, SettlementsStand
<1>21. \A b \in DOMAIN agreements : agreements[b].status = "completed" => b # a
  BY <1>9 DEF Ongoing
<1>22. SettlementsStand'
  <2>1. ASSUME NEW o \in DOMAIN organizations, w.organizations[o].status = "political"
        PROVE  \E b \in DOMAIN agreements' : agreements'[b].status = "completed"
                                             /\ o \in agreements'[b].signatories
    <3>1. CASE o \in S /\ completes /\ ~fails
      BY <1>7, <1>9, <1>11, <3>1
    <3>2. CASE organizations[o].status = "political"
      <4>1. PICK b \in DOMAIN agreements : agreements[b].status = "completed"
                                           /\ o \in agreements[b].signatories
        BY <1>20, <3>2
      <4> QED
        BY <1>7, <1>8, <1>21, <4>1
    <3> QED
      BY <1>13, <2>1, <3>1, <3>2
  <2>2. ASSUME NEW o \in ceasefires'
        PROVE  \E b \in DOMAIN agreements' :
                 agreements'[b].status \in {"signed", "implementing"} /\ o \in agreements'[b].signatories
    <3>1. o \in ceasefires /\ (completes \/ fails => o \notin S)
      BY <1>6, <2>2 DEF Lifted
    <3>2. PICK b \in DOMAIN agreements : Ongoing(agreements[b]) /\ o \in agreements[b].signatories
      BY <1>20, <3>1
    <3>3. CASE b = a
      BY <1>1, <1>7, <1>9, <1>11, <3>1, <3>2, <3>3
    <3>4. CASE b # a
      BY <1>7, <1>8, <3>2, <3>4 DEF Ongoing
    <3> QED
      BY <3>3, <3>4
  <2> QED
    BY <1>13, <1>16, <2>1, <2>2 DEF SettlementsStand, Ongoing
<1>23. Belong'
  <2>1. Belong /\ Clean(Ledger)
    BY DEF Inv
  <2>2. Disjoint' => Disjoint
    BY <1>1, <1>7, <1>8, <1>11 DEF Disjoint
  <2>3. ASSUME Disjoint, NEW o \in ActiveOf(w.organizations)
        PROVE  w.organizations[o].members \subseteq {p \in Persons : people[p].organization = o}
    <3>1. o \in DOMAIN organizations /\ organizations[o].kind = "insurgent"
          /\ w.organizations[o].status = "active"
      BY <1>13, <1>17 DEF ActiveOf
    <3>2. CASE organizations[o].status = "active"
      BY <1>13, <2>1, <2>3, <3>1, <3>2 DEF Belong, ActiveOf
    <3>3. CASE organizations[o].status \in {"fragmented", "merged", "collapsed"}
      BY <1>13, <2>1, <3>1, <3>3, LedgerIs DEF Clean
    <3>4. CASE organizations[o].status = "political" /\ o \in S
      <4>1. PICK b \in DOMAIN agreements : agreements[b].status = "completed"
                                           /\ o \in agreements[b].signatories
        BY <1>20, <3>1, <3>4
      <4> QED
        BY <1>1, <1>9, <1>21, <2>3, <3>4, <4>1 DEF Disjoint
    <3> QED
      BY <1>13, <3>1, <3>2, <3>3, <3>4 DEF Statuses
  <2>4. handler # "ecology"
    OBVIOUS
  <2>5. \A p \in Persons : people[p].organization # NoOrganization =>
          /\ people[p].organization \in DOMAIN w.organizations
          /\ p \in w.organizations[people[p].organization].members
    BY <1>13, <2>1 DEF Belong
  <2>6. \A p \in Persons : (people[p].fraction > 0) = (people[p].organization # NoOrganization)
    BY <2>1 DEF Belong
  <2>7. /\ people \in [Persons -> [organization: Nat, fraction: Nat]]
        /\ protos \in [DOMAIN Community -> [founders: SUBSET Persons, fraction: Nat]]
        /\ \A c \in DOMAIN Community : protos[c].founders # {} => protos[c].fraction > 0
    BY <2>1 DEF Belong
  <2>8. organizations' = w.organizations /\ people' = people /\ protos' = protos
    BY <1>6, <1>16
  <2>9. Disjoint' => \A o \in ActiveOf(w.organizations) :
          w.organizations[o].members \subseteq {p \in Persons : people[p].organization = o}
    BY <2>2, <2>3
  <2> QED
    BY <2>5, <2>6, <2>7, <2>8, <2>9 DEF Belong
<1>24. Staying
  BY <1>6, <1>13 DEF Staying
<1> QED
  BY <1>10, <1>14, <1>15, <1>19, <1>22, <1>23, <1>24 DEF Inv

LEMMA PeaceKeeps ==
  ASSUME Inv, Peace
  PROVE  Inv' /\ Staying
<1>1. UNCHANGED <<logisticsVars, interventions>>
  BY DEF Peace
<1>2. ASSUME NEW talks, NEW accepted, ProcessPeace(talks, accepted) PROVE Inv' /\ Staying
  BY <1>1, <1>2, PeaceStarts
<1>3. CASE \E talks \in {negotiation, ActiveOf(organizations)} :
             \E accepted \in SUBSET talks : ProcessPeace(talks, accepted)
  BY <1>2, <1>3
<1>4. CASE ~\E talks \in {negotiation, ActiveOf(organizations)} :
              \E accepted \in SUBSET talks : ProcessPeace(talks, accepted)
  <2>1. PICK a, own : /\ a = Head(pending)[2]
                      /\ own = {f \in DOMAIN formations :
                                  formations[f].organization \in agreements[a].signatories}
    OBVIOUS
  <2>2. /\ handler = "peace"
        /\ \E progress \in Progress, completes, fails \in BOOLEAN :
           \E violated \in SUBSET (agreements[a].signatories \cap ceasefires),
              amount, arms \in [own -> IF progress = "none" THEN {0} ELSE {0, 1}] :
             Implement(a, violated, progress, completes, fails, amount, arms)
    BY <1>4, <2>1 DEF Peace, PeaceNext
  <2>3. PICK progress \in Progress, completes \in BOOLEAN, fails \in BOOLEAN :
          \E violated \in SUBSET (agreements[a].signatories \cap ceasefires),
             amount, arms \in [own -> IF progress = "none" THEN {0} ELSE {0, 1}] :
            Implement(a, violated, progress, completes, fails, amount, arms)
    BY <2>2
  <2>4. PICK violated \in SUBSET (agreements[a].signatories \cap ceasefires),
             amount \in [own -> IF progress = "none" THEN {0} ELSE {0, 1}],
             arms \in [own -> IF progress = "none" THEN {0} ELSE {0, 1}] :
          Implement(a, violated, progress, completes, fails, amount, arms)
    BY <2>3
  <2>5. \A f \in DOMAIN amount :
          amount[f] \in Int /\ formations[f].organization \in agreements[a].signatories
    BY <2>1
  <2> QED
    BY <1>1, <2>2, <2>4, <2>5, ImplementKeeps
<1> QED
  BY <1>3, <1>4

-----------------------------------------------------------------------------
(* Marches, supply and combat.                                             *)

\* Formations and sources are those they were; where they stand, how strong they are
\* and what they hold may change.
Rearranged ==
  /\ UNCHANGED <<organizations, pools, reserves>>
  /\ formations' = [f \in DOMAIN formations |-> formations'[f]]
  /\ \A f \in DOMAIN formations :
       /\ DOMAIN formations'[f] = FormationFields
       /\ formations'[f].organization = formations[f].organization
       /\ formations'[f].locality \in Localities /\ formations'[f].personnel \in Int
       /\ formations'[f].moving \in BOOLEAN /\ formations'[f].outside \in BOOLEAN
  /\ sources' = [s \in DOMAIN sources |-> sources'[s]]
  /\ \A s \in DOMAIN sources : /\ DOMAIN sources'[s] = SourceFields
                               /\ sources'[s].organization = sources[s].organization
                               /\ sources'[s].locality = sources[s].locality

LEMMA RearrangedLedger ==
  ASSUME Inv, Rearranged
  PROVE  Sound(Ledger)' /\ Clean(Ledger)'
<1>1. PICK w : w = [organizations |-> organizations, formations |-> formations',
                    sources |-> sources', pools |-> pools, reserves |-> reserves,
                    demobilized |-> demobilized', expected |-> expected']
  OBVIOUS
<1>2. /\ DOMAIN w = LedgerFields /\ w.organizations = organizations
      /\ w.formations = formations' /\ w.sources = sources'
      /\ w.pools = pools /\ w.reserves = reserves
      /\ w.demobilized = demobilized' /\ w.expected = expected'
  BY <1>1 DEF LedgerFields
<1>3. Becomes(w)
  BY <1>2 DEF Becomes, Rearranged
<1>4. /\ Organizations(organizations) /\ Formations(formations) /\ Sources(sources)
      /\ pools \in [Keys -> Int] /\ reserves \in [Keys -> Int]
  BY LedgerIs DEF Inv, Sound
<1>5. IsList(formations') /\ IsList(sources')
      /\ DOMAIN formations' = DOMAIN formations /\ DOMAIN sources' = DOMAIN sources
  BY <1>4, ListMap DEF Formations, Sources, Rearranged
<1>6. Sound(w)
  BY <1>2, <1>4, <1>5 DEF Sound, Formations, Sources, Rearranged
<1>7. Clean(w)
  BY <1>2, <1>5, LedgerIs DEF Inv, Clean, Rearranged
<1> QED
  BY <1>3, <1>6, <1>7, LedgerBecomes

\* What is neither an organization's nor a signatory's affair.
LEMMA ForcesFrame ==
  ASSUME Inv, handler # "ecology", handler' \notin {"ecology", "peace"},
         UNCHANGED <<ecologyVars, peaceVars>>,
         DOMAIN organizations \subseteq DOMAIN organizations',
         \A o \in DOMAIN organizations :
           /\ organizations'[o].kind = organizations[o].kind
           /\ organizations'[o].status = organizations[o].status
           /\ organizations'[o].members = organizations[o].members,
         \A o \in DOMAIN organizations' \ DOMAIN organizations :
           organizations'[o].kind # "insurgent" /\ organizations'[o].status = "active",
         Sound(Ledger)', Clean(Ledger)', Marches', Forced'
  PROVE  Inv'
<1>1. /\ people' = people /\ protos' = protos /\ negotiation' = negotiation
      /\ agreements' = agreements /\ ceasefires' = ceasefires
  BY DEF ecologyVars, peaceVars
<1>2. ActiveOf(organizations') \subseteq ActiveOf(organizations)
  BY DEF ActiveOf
<1>3. Belong'
  <2>1. Belong
    BY DEF Inv
  <2>2. \A o \in ActiveOf(organizations') :
          o \in ActiveOf(organizations) /\ organizations'[o].members = organizations[o].members
    BY <1>2 DEF ActiveOf
  <2> QED
    BY <1>1, <2>1, <2>2 DEF Belong, Disjoint
<1>4. Seated'
  <2>1. Insurgents(organizations) \subseteq Insurgents(organizations')
    BY DEF Insurgents
  <2> QED
    BY <1>1, <2>1 DEF Inv, Seated
<1>5. SettlementsStand'
  BY <1>1 DEF Inv, SettlementsStand, Ongoing
<1>6. Visits'
  BY DEF Visits
<1> QED
  BY <1>3, <1>4, <1>5, <1>6 DEF Inv

\* Nobody is moved, and no intervention ends.
LEMMA InPlace ==
  ASSUME Inv, Rearranged, UNCHANGED interventions,
         \A f \in DOMAIN formations : /\ formations'[f].moving = formations[f].moving
                                      /\ formations'[f].outside = formations[f].outside
                                      /\ formations'[f].locality = formations[f].locality
  PROVE  Forced'
  BY DEF Inv, Forced, Rearranged

\* Orders are given up or issued, and one shipment is sent to whom none was.
LEMMA PendingOrders ==
  ASSUME Inv, DOMAIN formations' = DOMAIN formations,
         \A f \in DOMAIN formations : formations'[f].moving = formations[f].moving,
         \A i \in DOMAIN orders :
           orders[i].status = "moving" => i \in DOMAIN orders' /\ orders'[i] = orders[i],
         \A i \in DOMAIN orders' :
           \/ i \in DOMAIN orders /\ orders'[i] = orders[i]
           \/ /\ DOMAIN orders'[i] = OrderFields /\ orders'[i].status = "pending"
              /\ orders'[i].formation \in DOMAIN formations
              /\ orders'[i].destination \in Localities,
         \A s, t \in DOMAIN shipments' :
           shipments'[s].formation = shipments'[t].formation => s = t
  PROVE  Marches'
<1>1. Marches
  BY DEF Inv
<1>2. \A i : i \in DOMAIN orders' /\ orders'[i].status = "moving" <=>
             i \in DOMAIN orders /\ orders[i].status = "moving"
  BY DEF OrderFields
<1>3. \A i \in DOMAIN orders' : orders'[i].status = "moving" => orders'[i] = orders[i]
  BY <1>2
<1>4. \A i \in DOMAIN orders' : /\ DOMAIN orders'[i] = OrderFields
                                /\ orders'[i].formation \in DOMAIN formations'
                                /\ orders'[i].destination \in Localities
  BY <1>1 DEF Marches
<1>5. \A i, k \in DOMAIN orders' :
        orders'[i].status = "moving" /\ orders'[k].status = "moving"
          /\ orders'[i].formation = orders'[k].formation => i = k
  BY <1>1, <1>2, <1>3 DEF Marches
<1>6. \A f \in DOMAIN formations' :
        formations'[f].moving
          <=> \E i \in DOMAIN orders' : orders'[i].formation = f /\ orders'[i].status = "moving"
  BY <1>1, <1>2, <1>3 DEF Marches
<1> QED
  BY <1>4, <1>5, <1>6 DEF Marches

LEMMA FreePlace ==
  ASSUME NEW N \in Nat, NEW taken, NEW free, free = (1 .. N) \ taken, free # {}
  PROVE  Min(free) \in free
<1>1. \E m \in free : \A n \in free : m <= n
  BY Smallest
<1> QED
  BY <1>1 DEF Min

\* Besides the orders there were, a command issues one that is pending.
LEMMA OrderIssued ==
  ASSUME Inv, NEW f \in DOMAIN formations, NEW d \in Localities, NEW cost, NEW purpose,
         CreateMovementOrder(f, d, cost, purpose)
  PROVE  /\ \A i \in DOMAIN orders : i \in DOMAIN orders' /\ orders'[i] = orders[i]
         /\ \A i \in DOMAIN orders' :
              \/ i \in DOMAIN orders /\ orders'[i] = orders[i]
              \/ /\ DOMAIN orders'[i] = OrderFields /\ orders'[i].status = "pending"
                 /\ orders'[i].formation \in DOMAIN formations
                 /\ orders'[i].destination \in Localities
<1>1. CASE UNCHANGED orders
  BY <1>1
<1>2. CASE ~UNCHANGED orders
  <2>1. PICK free : free = (1 .. MaxOrders) \ DOMAIN orders
    OBVIOUS
  <2>2. PICK e : e = [formation |-> f, destination |-> d, cost |-> cost,
                      purpose |-> purpose, status |-> "pending"]
    OBVIOUS
  <2>3. free # {} /\ orders' = With(orders, Min(free), e)
    BY <1>2, <2>1, <2>2 DEF CreateMovementOrder
  <2>4. PICK m : m = Min(free)
    OBVIOUS
  <2>5. m \in free
    BY <2>1, <2>3, <2>4, FreePlace, LogisticsAssumption
  <2>6. orders' = [i \in DOMAIN orders \cup {m} |-> IF i = m THEN e ELSE orders[i]]
    BY <2>3, <2>4 DEF With
  <2>7. /\ DOMAIN e = OrderFields /\ e.status = "pending"
        /\ e.formation = f /\ e.destination = d
    BY <2>2 DEF OrderFields
  <2> QED
    BY <2>1, <2>5, <2>6, <2>7
<1> QED
  BY <1>1, <1>2

\* A step of the forces: nobody is moved but who marches, and nobody is lost but who is
\* inside.
ForcesKept ==
  \A f \in DOMAIN formations :
    /\ formations'[f].outside = formations[f].outside
    /\ formations[f].outside => /\ formations'[f].personnel = formations[f].personnel
                                /\ formations'[f].locality = formations[f].locality

LEMMA ForcesStep ==
  ASSUME Inv, Rearranged, ForcesKept, handler # "ecology", handler' \notin {"ecology", "peace"},
         UNCHANGED <<interventions, ecologyVars, peaceVars>>, Marches', Forced'
  PROVE  Inv' /\ ForcesKept
<1>1. organizations' = organizations
  BY DEF Rearranged
<1> QED
  BY <1>1, RearrangedLedger, ForcesFrame

LEMMA FormationsAre ==
  ASSUME Inv
  PROVE  /\ formations = [f \in DOMAIN formations |-> formations[f]]
         /\ sources = [s \in DOMAIN sources |-> sources[s]]
         /\ \A f \in DOMAIN formations :
              /\ DOMAIN formations[f] = FormationFields
              /\ formations[f].moving \in BOOLEAN /\ formations[f].outside \in BOOLEAN
              /\ formations[f].locality \in Localities /\ formations[f].personnel \in Int
         /\ \A s \in DOMAIN sources : DOMAIN sources[s] = SourceFields
<1>1. Formations(formations) /\ Sources(sources)
  BY LedgerIs DEF Inv, Sound
<1> QED
  BY <1>1, ListFacts DEF Formations, Sources

\* A formation keeps all but what it holds, can carry and can do.
Provided(g, h) ==
  /\ DOMAIN h = DOMAIN g /\ h.organization = g.organization /\ h.locality = g.locality
  /\ h.personnel = g.personnel /\ h.moving = g.moving /\ h.outside = g.outside

Provisioned ==
  /\ UNCHANGED <<organizations, pools, reserves>>
  /\ formations' = [f \in DOMAIN formations |-> formations'[f]]
  /\ \A f \in DOMAIN formations : Provided(formations[f], formations'[f])
  /\ sources' = [s \in DOMAIN sources |-> sources'[s]]
  /\ \A s \in DOMAIN sources : /\ DOMAIN sources'[s] = DOMAIN sources[s]
                               /\ sources'[s].organization = sources[s].organization
                               /\ sources'[s].locality = sources[s].locality

LEMMA ProvisionedKept ==
  ASSUME Inv, Provisioned
  PROVE  Rearranged /\ ForcesKept /\ DOMAIN formations' = DOMAIN formations
         /\ \A f \in DOMAIN formations :
              /\ formations'[f].moving = formations[f].moving
              /\ formations'[f].outside = formations[f].outside
              /\ formations'[f].locality = formations[f].locality
  BY FormationsAre DEF Rearranged, ForcesKept, Provisioned, Provided

\* Supply is used, produced or sent; and what is under way, one shipment to each.
LEMMA SupplyKeeps ==
  ASSUME Inv, Provisioned, handler # "ecology", handler' \notin {"ecology", "peace"},
         UNCHANGED <<orders, interventions, ecologyVars, peaceVars>>,
         \A s, t \in DOMAIN shipments' :
           shipments'[s].formation = shipments'[t].formation => s = t
  PROVE  Inv' /\ ForcesKept
<1>1. Forced'
  BY ProvisionedKept, InPlace
<1>2. Marches'
  BY ProvisionedKept, PendingOrders
<1> QED
  BY <1>1, <1>2, ProvisionedKept, ForcesStep

LEMMA IdleKept ==
  UNCHANGED handler /\ Idle => handler # "ecology" /\ handler' \notin {"ecology", "peace"}
  BY DEF Idle

LEMMA PatrolKeeps ==
  ASSUME Inv, NEW f \in DOMAIN formations, NEW used, Patrol(f, used),
         UNCHANGED <<interventions, ecologyVars, peaceVars>>
  PROVE  Inv' /\ ForcesKept
<1>1. /\ Idle /\ formations' = [formations EXCEPT ![f].stock = @ - used]
      /\ UNCHANGED <<organizations, sources, pools, reserves, handler, orders, shipments>>
  BY DEF Patrol, logisticsVars
<1>2. Provisioned
  <2>1. formations' = [g \in DOMAIN formations |-> formations'[g]]
    BY <1>1, FormationsAre
  <2>2. ASSUME NEW g \in DOMAIN formations PROVE Provided(formations[g], formations'[g])
    BY <1>1, FormationsAre DEF Provided, FormationFields
  <2>3. /\ sources' = [x \in DOMAIN sources |-> sources'[x]]
       /\ \A x \in DOMAIN sources : /\ DOMAIN sources'[x] = DOMAIN sources[x]
                                    /\ sources'[x].organization = sources[x].organization
                                    /\ sources'[x].locality = sources[x].locality
    BY <1>1, FormationsAre DEF SourceFields
  <2> QED
    BY <1>1, <2>1, <2>2, <2>3 DEF Provisioned
<1>3. \A s, t \in DOMAIN shipments' : shipments'[s].formation = shipments'[t].formation => s = t
  BY <1>1 DEF Inv, Marches
<1> QED
  BY <1>1, <1>2, <1>3, IdleKept, SupplyKeeps

LEMMA UpdateLogisticsKeeps ==
  ASSUME Inv, NEW due, NEW made, UpdateLogistics(due, made),
         UNCHANGED <<interventions, ecologyVars, peaceVars>>
  PROVE  Inv' /\ ForcesKept
<1>1. /\ handler = "idle" /\ handler' \in {"idle", "logistics"}
      /\ sources' = [s \in DOMAIN sources |-> [sources[s] EXCEPT !.stock = @ + made[s]]]
      /\ formations' = [f \in DOMAIN formations |-> Resized(formations[f])]
      /\ UNCHANGED <<organizations, pools, reserves, orders, shipments>>
  BY DEF UpdateLogistics, logisticsVars, Idle, Begin
<1>2. Provisioned
  <2>1. formations' = [g \in DOMAIN formations |-> formations'[g]]
    BY <1>1, FormationsAre
  <2>2. ASSUME NEW g \in DOMAIN formations PROVE Provided(formations[g], formations'[g])
    BY <1>1, FormationsAre DEF Provided, FormationFields, Resized
  <2>3. /\ sources' = [x \in DOMAIN sources |-> sources'[x]]
       /\ \A x \in DOMAIN sources : /\ DOMAIN sources'[x] = DOMAIN sources[x]
                                    /\ sources'[x].organization = sources[x].organization
                                    /\ sources'[x].locality = sources[x].locality
    BY <1>1, FormationsAre DEF SourceFields
  <2> QED
    BY <1>1, <2>1, <2>2, <2>3 DEF Provisioned
<1>3. \A s, t \in DOMAIN shipments' : shipments'[s].formation = shipments'[t].formation => s = t
  BY <1>1 DEF Inv, Marches
<1> QED
  BY <1>1, <1>2, <1>3, SupplyKeeps

LEMMA DeliverKeeps ==
  ASSUME Inv, NEW s, Deliver(s), UNCHANGED <<interventions, ecologyVars, peaceVars>>
  PROVE  Inv' /\ ForcesKept
<1>1. PICK f, accepted :
        /\ formations' = [formations EXCEPT ![f].stock = @ + accepted]
        /\ shipments' = Without(shipments, s)
        /\ UNCHANGED <<organizations, sources, pools, reserves, orders>>
  BY DEF Deliver
<1>2. handler = "logistics" /\ handler' \in {"idle", "logistics"}
  BY DEF Deliver, Visiting, Begin
<1>3. Provisioned
  <2>1. formations' = [g \in DOMAIN formations |-> formations'[g]]
    BY <1>1, FormationsAre
  <2>2. ASSUME NEW g \in DOMAIN formations PROVE Provided(formations[g], formations'[g])
    BY <1>1, FormationsAre DEF Provided, FormationFields
  <2>3. /\ sources' = [x \in DOMAIN sources |-> sources'[x]]
       /\ \A x \in DOMAIN sources : /\ DOMAIN sources'[x] = DOMAIN sources[x]
                                    /\ sources'[x].organization = sources[x].organization
                                    /\ sources'[x].locality = sources[x].locality
    BY <1>1, FormationsAre DEF SourceFields
  <2> QED
    BY <1>1, <2>1, <2>2, <2>3 DEF Provisioned
<1>4. \A x, y \in DOMAIN shipments' : shipments'[x].formation = shipments'[y].formation => x = y
  BY <1>1 DEF Inv, Marches, Without
<1> QED
  BY <1>1, <1>2, <1>3, <1>4, SupplyKeeps

LEMMA SustainKeeps ==
  ASSUME Inv, NEW f \in DOMAIN formations, Sustain(f),
         UNCHANGED <<interventions, ecologyVars, peaceVars>>
  PROVE  Inv' /\ ForcesKept
<1>1. UNCHANGED <<organizations, pools, reserves, orders>>
  BY DEF Sustain
<1>2. handler = "logistics" /\ handler' \in {"idle", "logistics"}
  BY DEF Sustain, Visiting, Begin
<1>3. \A x, y \in DOMAIN shipments : shipments[x].formation = shipments[y].formation => x = y
  BY DEF Inv, Marches
<1>4. CASE UNCHANGED <<formations, sources, shipments>>
  <2>1. Provisioned
    <3>1. formations' = [g \in DOMAIN formations |-> formations'[g]]
      BY <1>1, <1>4, FormationsAre
    <3>2. ASSUME NEW g \in DOMAIN formations PROVE Provided(formations[g], formations'[g])
      BY <1>1, <1>4, FormationsAre DEF Provided, FormationFields
    <3>3. /\ sources' = [x \in DOMAIN sources |-> sources'[x]]
         /\ \A x \in DOMAIN sources : /\ DOMAIN sources'[x] = DOMAIN sources[x]
                                      /\ sources'[x].organization = sources[x].organization
                                      /\ sources'[x].locality = sources[x].locality
      BY <1>1, <1>4, FormationsAre DEF SourceFields
    <3> QED
      BY <1>1, <1>4, <3>1, <3>2, <3>3 DEF Provisioned
  <2> QED
    BY <1>1, <1>2, <1>3, <1>4, <2>1, SupplyKeeps
<1>5. CASE ~UNCHANGED <<formations, sources, shipments>>
  <2>1. PICK demand, after :
          /\ after \in Sustained(formations[f], demand)
          /\ formations' = [formations EXCEPT ![f] = after]
          /\ \/ UNCHANGED <<sources, shipments>>
             \/ /\ ~Supplied(f)
                /\ \E s \in DOMAIN sources : \E sent, deliverable : Ship(f, s, sent, deliverable)
    BY <1>5 DEF Sustain
  <2>2. PICK used, e : after = [formations[f] EXCEPT !.stock = @ - used, !.effective = e]
    BY <2>1, Zenon DEF Sustained
  <2>3. CASE UNCHANGED <<sources, shipments>>
    <3>1. Provisioned
      <4>1. formations' = [g \in DOMAIN formations |-> formations'[g]]
        BY <1>1, <2>1, <2>2, <2>3, FormationsAre
      <4>2. ASSUME NEW g \in DOMAIN formations PROVE Provided(formations[g], formations'[g])
        BY <1>1, <2>1, <2>2, <2>3, FormationsAre DEF Provided, FormationFields
      <4>3. /\ sources' = [x \in DOMAIN sources |-> sources'[x]]
           /\ \A x \in DOMAIN sources : /\ DOMAIN sources'[x] = DOMAIN sources[x]
                                        /\ sources'[x].organization = sources[x].organization
                                        /\ sources'[x].locality = sources[x].locality
        BY <1>1, <2>1, <2>2, <2>3, FormationsAre DEF SourceFields
      <4> QED
        BY <1>1, <2>1, <2>2, <2>3, <4>1, <4>2, <4>3 DEF Provisioned
    <3> QED
      BY <1>1, <1>2, <1>3, <2>3, <3>1, SupplyKeeps
  <2>4. CASE ~UNCHANGED <<sources, shipments>>
    <3>1. PICK s, sent, deliverable : s \in DOMAIN sources /\ Ship(f, s, sent, deliverable)
      BY <2>1, <2>4
    <3>2. PICK m, free : free = (1 .. MaxShipments) \ DOMAIN shipments /\ m = Min(free)
      OBVIOUS
    <3>3. /\ free # {} /\ sources' = [sources EXCEPT ![s].stock = @ - sent]
          /\ shipments' = With(shipments, m, [formation |-> f, deliverable |-> deliverable])
      BY <3>1, <3>2 DEF Ship
    <3>4. m \in free
      BY <3>2, <3>3, FreePlace, LogisticsAssumption
    <3>5. Provisioned
      <4>1. formations' = [g \in DOMAIN formations |-> formations'[g]]
        BY <1>1, <2>1, <2>2, <3>3, FormationsAre
      <4>2. ASSUME NEW g \in DOMAIN formations PROVE Provided(formations[g], formations'[g])
        BY <1>1, <2>1, <2>2, <3>3, FormationsAre DEF Provided, FormationFields
      <4>3. /\ sources' = [x \in DOMAIN sources |-> sources'[x]]
           /\ \A x \in DOMAIN sources : /\ DOMAIN sources'[x] = DOMAIN sources[x]
                                        /\ sources'[x].organization = sources[x].organization
                                        /\ sources'[x].locality = sources[x].locality
        BY <1>1, <2>1, <2>2, <3>3, FormationsAre DEF SourceFields
      <4> QED
        BY <1>1, <2>1, <2>2, <3>3, <4>1, <4>2, <4>3 DEF Provisioned
    <3>6. \A x \in DOMAIN shipments : shipments[x].formation # f
      BY <2>1, <2>4 DEF Supplied
    <3>7. \A x, y \in DOMAIN shipments' : shipments'[x].formation = shipments'[y].formation => x = y
      BY <1>3, <3>2, <3>3, <3>4, <3>6 DEF With
    <3> QED
      BY <1>1, <1>2, <3>5, <3>7, SupplyKeeps
  <2> QED
    BY <2>3, <2>4
<1> QED
  BY <1>4, <1>5

\* Fallen and spent supply apart, who fought is who it was.
LEMMA EngageKeeps ==
  ASSUME Inv, NEW a \in DOMAIN formations, NEW b \in DOMAIN formations,
         NEW lost \in [{a, b} -> Int], NEW used, NEW disengaged,
         Engage(a, b, lost, used, disengaged), UNCHANGED <<interventions, ecologyVars, peaceVars>>
  PROVE  Inv' /\ ForcesKept
<1>1. /\ handler = "idle" /\ handler' \in {"idle", "combat"}
      /\ Present(a) /\ Present(b)
      /\ UNCHANGED <<organizations, sources, pools, reserves, orders, shipments>>
  BY DEF Engage, Idle, Begin, logisticsVars
<1>2. PICK effective \in [{a, b} -> BOOLEAN] :
        formations' = [f \in DOMAIN formations |->
          IF f \in {a, b} THEN AfterCombat(formations[f], lost[f], used[f], effective[f])
          ELSE formations[f]]
  BY DEF Engage
<1>3. DOMAIN formations' = DOMAIN formations
      /\ formations' = [f \in DOMAIN formations |-> formations'[f]]
  BY <1>2
<1>4. ASSUME NEW f \in DOMAIN formations
      PROVE  /\ DOMAIN formations'[f] = DOMAIN formations[f]
             /\ formations'[f].organization = formations[f].organization
             /\ formations'[f].locality = formations[f].locality
             /\ formations'[f].moving = formations[f].moving
             /\ formations'[f].outside = formations[f].outside
             /\ formations'[f].personnel \in Int
             /\ f \notin {a, b} => formations'[f].personnel = formations[f].personnel
  <2>1. CASE f \in {a, b}
    <3>1. PICK l, u, e : /\ l = lost[f] /\ u = used[f]
                         /\ formations'[f] = [formations[f] EXCEPT !.personnel = @ - l,
                              !.stock = @ - u, !.effective = e /\ l < formations[f].personnel]
      BY <1>2, <2>1, Zenon DEF AfterCombat
    <3>2. l \in Int
      BY <2>1, <3>1
    <3> QED
      BY <2>1, <3>1, <3>2, FormationsAre DEF FormationFields
  <2>2. CASE f \notin {a, b}
    BY <1>2, <2>2, FormationsAre
  <2> QED
    BY <2>1, <2>2
<1>5. Rearranged
  BY <1>1, <1>3, <1>4, FormationsAre DEF Rearranged
<1>6. ForcesKept
  BY <1>1, <1>4 DEF ForcesKept, Present
<1>7. Forced'
  BY <1>4, <1>5, InPlace
<1>8. Marches'
  <2>1. \A x, y \in DOMAIN shipments' : shipments'[x].formation = shipments'[y].formation => x = y
    BY <1>1 DEF Inv, Marches
  <2> QED
    BY <1>1, <1>3, <1>4, <2>1, PendingOrders
<1> QED
  BY <1>1, <1>5, <1>6, <1>7, <1>8, ForcesStep

\* What an order may become that does not move its formation.
Reordered ==
  /\ \A i \in DOMAIN orders :
       orders[i].status = "moving" => i \in DOMAIN orders' /\ orders'[i] = orders[i]
  /\ \A i \in DOMAIN orders' :
       \/ i \in DOMAIN orders /\ orders'[i] = orders[i]
       \/ /\ DOMAIN orders'[i] = OrderFields /\ orders'[i].status = "pending"
          /\ orders'[i].formation \in DOMAIN formations
          /\ orders'[i].destination \in Localities

LEMMA OrdersKeep ==
  ASSUME Inv, Reordered, handler # "ecology", handler' \notin {"ecology", "peace"},
         UNCHANGED <<ledgerVars, shipments, interventions, ecologyVars, peaceVars>>
  PROVE  Inv' /\ ForcesKept
<1>1. /\ formations' = formations /\ organizations' = organizations
      /\ shipments' = shipments /\ interventions' = interventions
  BY DEF ledgerVars
<1>2. Sound(Ledger)' /\ Clean(Ledger)'
  BY LedgerStays
<1>3. Forced'
  BY <1>1 DEF Inv, Forced
<1>4. Marches'
  <2>1. \A s, t \in DOMAIN shipments : shipments[s].formation = shipments[t].formation => s = t
    BY DEF Inv, Marches
  <2> QED
    BY <1>1, <2>1, PendingOrders DEF Reordered
<1>5. ForcesKept
  BY <1>1 DEF ForcesKept
<1> QED
  BY <1>1, <1>2, <1>3, <1>4, <1>5, ForcesFrame

LEMMA ReallocateKeeps ==
  ASSUME Inv, NEW f \in DOMAIN formations, NEW d \in Localities, NEW cost,
         Reallocate(f, d, cost), UNCHANGED <<interventions, ecologyVars, peaceVars>>
  PROVE  Inv' /\ ForcesKept
<1>1. /\ Idle /\ CreateMovementOrder(f, d, cost, "reallocation")
      /\ UNCHANGED <<ledgerVars, handler, shipments>>
  BY DEF Reallocate, sharedVars
<1>2. Reordered
  BY <1>1, OrderIssued DEF Reordered
<1> QED
  BY <1>1, <1>2, IdleKept, OrdersKeep

LEMMA WithdrawKeeps ==
  ASSUME Inv, NEW f \in DOMAIN formations, NEW d \in Localities, NEW cost,
         Withdraw(f, d, cost), UNCHANGED <<interventions, ecologyVars, peaceVars>>
  PROVE  Inv' /\ ForcesKept
<1>1. /\ UNCHANGED orders \/ CreateMovementOrder(f, d, cost, "withdrawal")
      /\ UNCHANGED <<ledgerVars, shipments>>
  BY DEF Withdraw
<1>2. handler = "combat" /\ handler' \in {"idle", "combat"}
  BY DEF Withdraw, Visiting, Begin
<1>3. Reordered
  BY <1>1, OrderIssued DEF Reordered
<1> QED
  BY <1>1, <1>2, <1>3, OrdersKeep

LEMMA ReinforceKeeps ==
  ASSUME Inv, NEW f \in DOMAIN formations, NEW relief \in DOMAIN formations, NEW cost,
         Reinforce(f, relief, cost), UNCHANGED <<interventions, ecologyVars, peaceVars>>
  PROVE  Inv' /\ ForcesKept
<1>1. PICK d : d = formations[f].locality
  OBVIOUS
<1>2. /\ UNCHANGED orders \/ CreateMovementOrder(relief, d, cost, "reinforcement")
      /\ UNCHANGED <<ledgerVars, shipments>>
  BY <1>1 DEF Reinforce
<1>3. handler = "combat" /\ handler' \in {"idle", "combat"}
  BY DEF Reinforce, Visiting, Begin
<1>4. d \in Localities
  BY <1>1, FormationsAre
<1>5. Reordered
  BY <1>2, <1>4, OrderIssued DEF Reordered
<1> QED
  BY <1>2, <1>3, <1>5, OrdersKeep

LEMMA BlockKeeps ==
  ASSUME Inv, NEW i \in DOMAIN orders, Block(i), UNCHANGED <<interventions, ecologyVars, peaceVars>>
  PROVE  Inv' /\ ForcesKept
<1>1. /\ Idle /\ orders[i].status = "pending" /\ orders' = Without(orders, i)
      /\ UNCHANGED <<ledgerVars, handler, shipments>>
  BY DEF Block, sharedVars
<1>2. Reordered
  BY <1>1 DEF Reordered, Without
<1> QED
  BY <1>1, <1>2, IdleKept, OrdersKeep

\* A formation departs that is on no march, and so under no other order that is one.
LEMMA DepartKeeps ==
  ASSUME Inv, NEW i \in DOMAIN orders, Depart(i), UNCHANGED <<interventions, ecologyVars, peaceVars>>
  PROVE  Inv' /\ ForcesKept
<1>1. PICK f, cost : f = orders[i].formation /\ cost = orders[i].cost
  OBVIOUS
<1>2. /\ Idle /\ ~formations[f].moving /\ ~formations[f].outside
      /\ formations' = [formations EXCEPT ![f].moving = TRUE, ![f].stock = @ - cost]
      /\ orders' = [orders EXCEPT ![i].status = "moving"]
      /\ UNCHANGED <<organizations, sources, pools, reserves, handler, shipments>>
  BY <1>1 DEF Depart, Unavailable
<1>3. Marches
  BY DEF Inv
<1>4. f \in DOMAIN formations
  BY <1>1, <1>3 DEF Marches
<1>5. /\ DOMAIN formations' = DOMAIN formations
      /\ formations' = [g \in DOMAIN formations |-> formations'[g]]
  BY <1>2
<1>6. ASSUME NEW g \in DOMAIN formations
      PROVE  /\ DOMAIN formations'[g] = FormationFields
             /\ formations'[g].organization = formations[g].organization
             /\ formations'[g].locality = formations[g].locality
             /\ formations'[g].personnel = formations[g].personnel
             /\ formations'[g].outside = formations[g].outside
             /\ g # f => formations'[g] = formations[g]
  BY <1>2, FormationsAre DEF FormationFields
<1>7. formations'[f].moving = TRUE
  BY <1>2, <1>4, FormationsAre DEF FormationFields
<1>8. Rearranged
  <2>1. \A g \in DOMAIN formations : formations'[g].moving \in BOOLEAN
    BY <1>6, <1>7, FormationsAre
  <2> QED
    BY <1>2, <1>5, <1>6, <2>1, FormationsAre DEF Rearranged
<1>9. ForcesKept
  BY <1>6 DEF ForcesKept
<1>10. /\ DOMAIN orders' = DOMAIN orders
       /\ \A k \in DOMAIN orders : k # i => orders'[k] = orders[k]
       /\ DOMAIN orders'[i] = OrderFields /\ orders'[i].formation = f
       /\ orders'[i].destination = orders[i].destination /\ orders'[i].status = "moving"
  BY <1>1, <1>2, <1>3 DEF Marches, OrderFields
<1>11. \A k \in DOMAIN orders : orders[k].formation = f => orders[k].status # "moving"
  BY <1>2, <1>3, <1>4 DEF Marches
<1>12. Marches'
  <2>1. \A k \in DOMAIN orders' : /\ DOMAIN orders'[k] = OrderFields
                                  /\ orders'[k].formation \in DOMAIN formations'
                                  /\ orders'[k].destination \in Localities
    BY <1>3, <1>4, <1>5, <1>10 DEF Marches
  <2>2. \A k, m \in DOMAIN orders' :
          orders'[k].status = "moving" /\ orders'[m].status = "moving"
            /\ orders'[k].formation = orders'[m].formation => k = m
    BY <1>3, <1>10, <1>11 DEF Marches
  <2>3. ASSUME NEW g \in DOMAIN formations'
        PROVE  formations'[g].moving
                 <=> \E k \in DOMAIN orders' : orders'[k].formation = g /\ orders'[k].status = "moving"
    <3>1. CASE g = f
      BY <1>7, <1>10, <3>1
    <3>2. CASE g # f
      <4>1. formations'[g].moving = formations[g].moving
        BY <1>5, <1>6, <3>2
      <4>2. \A k \in DOMAIN orders :
              orders'[k].formation = g /\ orders'[k].status = "moving"
                <=> orders[k].formation = g /\ orders[k].status = "moving"
        BY <1>1, <1>10, <3>2
      <4> QED
        BY <1>3, <1>5, <1>10, <4>1, <4>2 DEF Marches
    <3> QED
      BY <3>1, <3>2
  <2>4. \A s, t \in DOMAIN shipments' : shipments'[s].formation = shipments'[t].formation => s = t
    BY <1>2, <1>3 DEF Marches
  <2> QED
    BY <2>1, <2>2, <2>3, <2>4 DEF Marches
<1>13. Forced'
  <2>1. Forced
    BY DEF Inv
  <2>2. \A g \in DOMAIN formations : formations'[g].outside => ~formations'[g].moving
    BY <1>2, <1>6, <2>1 DEF Forced
  <2> QED
    BY <1>2, <1>5, <1>6, <2>1, <2>2 DEF Forced
<1> QED
  BY <1>2, <1>8, <1>9, <1>12, <1>13, IdleKept, ForcesStep

\* A formation arrives that is on a march, and so not out.
LEMMA ArriveKeeps ==
  ASSUME Inv, NEW i \in DOMAIN orders, Arrive(i), UNCHANGED <<interventions, ecologyVars, peaceVars>>
  PROVE  Inv' /\ ForcesKept
<1>1. PICK f, d : f = orders[i].formation /\ d = orders[i].destination
  OBVIOUS
<1>2. /\ Idle /\ orders[i].status = "moving"
      /\ formations' = [formations EXCEPT ![f].moving = FALSE, ![f].locality = d]
      /\ orders' = Without(orders, i)
      /\ UNCHANGED <<organizations, sources, pools, reserves, handler, shipments>>
  BY <1>1 DEF Arrive
<1>3. Marches /\ Forced
  BY DEF Inv
<1>4. f \in DOMAIN formations /\ formations[f].moving /\ d \in Localities
  BY <1>1, <1>2, <1>3 DEF Marches
<1>5. /\ DOMAIN formations' = DOMAIN formations
      /\ formations' = [g \in DOMAIN formations |-> formations'[g]]
  BY <1>2
<1>6. ~formations[f].outside
  BY <1>3, <1>4 DEF Forced
<1>7. ASSUME NEW g \in DOMAIN formations
      PROVE  /\ DOMAIN formations'[g] = FormationFields
             /\ formations'[g].organization = formations[g].organization
             /\ formations'[g].personnel = formations[g].personnel
             /\ formations'[g].outside = formations[g].outside
             /\ g # f => formations'[g] = formations[g]
  BY <1>2, FormationsAre DEF FormationFields
<1>8. formations'[f].moving = FALSE /\ formations'[f].locality = d
  BY <1>2, <1>4, FormationsAre DEF FormationFields
<1>9. Rearranged
  <2>1. \A g \in DOMAIN formations : formations'[g].moving \in BOOLEAN
                                     /\ formations'[g].locality \in Localities
    BY <1>4, <1>7, <1>8, FormationsAre
  <2> QED
    BY <1>2, <1>5, <1>7, <2>1, FormationsAre DEF Rearranged
<1>10. ForcesKept
  BY <1>6, <1>7 DEF ForcesKept
<1>11. /\ DOMAIN orders' = DOMAIN orders \ {i}
       /\ \A k \in DOMAIN orders' : orders'[k] = orders[k]
  BY <1>2 DEF Without
<1>12. \A k \in DOMAIN orders : orders[k].formation = f /\ orders[k].status = "moving" => k = i
  BY <1>1, <1>2, <1>3 DEF Marches
<1>13. Marches'
  <2>1. \A k \in DOMAIN orders' : /\ DOMAIN orders'[k] = OrderFields
                                  /\ orders'[k].formation \in DOMAIN formations'
                                  /\ orders'[k].destination \in Localities
    BY <1>3, <1>5, <1>11 DEF Marches
  <2>2. \A k, m \in DOMAIN orders' :
          orders'[k].status = "moving" /\ orders'[m].status = "moving"
            /\ orders'[k].formation = orders'[m].formation => k = m
    BY <1>3, <1>11 DEF Marches
  <2>3. ASSUME NEW g \in DOMAIN formations'
        PROVE  formations'[g].moving
                 <=> \E k \in DOMAIN orders' : orders'[k].formation = g /\ orders'[k].status = "moving"
    <3>1. CASE g = f
      <4>1. formations'[g].moving = FALSE
        BY <1>8, <3>1
      <4> QED
        BY <1>11, <1>12, <3>1, <4>1
    <3>2. CASE g # f
      BY <1>1, <1>3, <1>5, <1>7, <1>11, <3>2 DEF Marches
    <3> QED
      BY <3>1, <3>2
  <2>4. \A s, t \in DOMAIN shipments' : shipments'[s].formation = shipments'[t].formation => s = t
    BY <1>2, <1>3 DEF Marches
  <2> QED
    BY <2>1, <2>2, <2>3, <2>4 DEF Marches
<1>14. Forced'
  <2>1. ASSUME NEW g \in DOMAIN formations, formations'[g].outside
        PROVE  formations'[g] = formations[g] /\ formations[g].outside
    BY <1>6, <1>7, <2>1
  <2>2. \A k \in DOMAIN interventions' : \A g \in interventions'[k].force :
          /\ g \in DOMAIN formations' /\ g \in DOMAIN formations
          /\ formations'[g].organization = formations[g].organization
          /\ formations'[g].outside = formations[g].outside
    BY <1>3, <1>5, <1>7 DEF Forced
  <2>3. organizations' = organizations /\ interventions' = interventions
    BY <1>2
  <2>4. \A g \in DOMAIN formations' : formations'[g].outside =>
          /\ ~formations'[g].moving
          /\ \E k \in DOMAIN interventions' :
               g \in interventions'[k].force
               /\ formations'[g].locality = Border[interventions'[k].state]
    BY <1>3, <1>5, <2>1, <2>3 DEF Forced
  <2> QED
    BY <1>3, <2>2, <2>3, <2>4 DEF Forced
<1> QED
  BY <1>2, <1>9, <1>10, <1>13, <1>14, IdleKept, ForcesStep

LEMMA ForcesKeep ==
  ASSUME Inv, Forces
  PROVE  Inv' /\ ForcesKept
<1> USE DEF Forces
<1>1. CASE ForcesBegin
  <2>1. CASE \E f \in DOMAIN formations, l \in Localities, c \in Costs : Reallocate(f, l, c)
    BY <2>1, ReallocateKeeps
  <2>2. CASE \E due, made : UpdateLogistics(due, made)
    BY <2>2, UpdateLogisticsKeeps
  <2>3. CASE \E f \in DOMAIN formations : \E used : Patrol(f, used)
    BY <2>3, PatrolKeeps
  <2>4. CASE \E a, b \in DOMAIN formations : \E disengaged, used :
               \E lost \in [{a, b} -> 0 .. formations[a].personnel + formations[b].personnel] :
                 Engage(a, b, lost, used, disengaged)
    <3>1. PICK a \in DOMAIN formations, b \in DOMAIN formations :
            \E disengaged, used :
              \E lost \in [{a, b} -> 0 .. formations[a].personnel + formations[b].personnel] :
                Engage(a, b, lost, used, disengaged)
      BY <2>4
    <3>2. PICK n : n = formations[a].personnel + formations[b].personnel
      OBVIOUS
    <3>3. PICK disengaged, used, lost :
            lost \in [{a, b} -> 0 .. n] /\ Engage(a, b, lost, used, disengaged)
      BY <3>1, <3>2
    <3>4. lost \in [{a, b} -> Int]
      BY <3>3
    <3> QED
      BY <3>3, <3>4, EngageKeeps
  <2> QED
    BY <1>1, <2>1, <2>2, <2>3, <2>4 DEF ForcesBegin
<1>2. CASE LogisticsStep
  BY <1>2, DeliverKeeps, SustainKeeps DEF LogisticsStep
<1>3. CASE CombatStep
  BY <1>3, WithdrawKeeps, ReinforceKeeps DEF CombatStep
<1>4. CASE \E i \in 1 .. MaxOrders : Advance(i)
  BY <1>4, BlockKeeps, DepartKeeps, ArriveKeeps DEF Advance
<1> QED
  BY <1>1, <1>2, <1>3, <1>4 DEF LogisticsNext

-----------------------------------------------------------------------------
(* Foreign states, and what a withdrawal may not take back.                *)

\* The step of WithdrawalIsFinal.
Final ==
  /\ \A i \in DOMAIN interventions : \A f \in interventions[i].force :
       /\ formations'[f].outside =>
            formations[f].locality = Border[interventions[i].state] /\ ~formations[f].moving
       /\ interventions'[i].status = "withdrawn" => formations'[f].outside
  /\ \A f \in DOMAIN formations : formations[f].outside =>
       /\ formations'[f].outside
       /\ formations'[f].personnel = formations[f].personnel
       /\ formations'[f].locality = formations[f].locality

\* The one intervention a force belongs to.
LEMMA ForceIs ==
  ASSUME Inv, NEW i \in DOMAIN interventions, NEW f \in interventions[i].force
  PROVE  /\ f \in DOMAIN formations
         /\ formations[f].organization \in Foreigners(organizations)
         /\ interventions[i].state \in DOMAIN ForeignStates
         /\ formations[f].outside =>
              formations[f].locality = Border[interventions[i].state] /\ ~formations[f].moving
         /\ interventions[i].status = "withdrawn" => formations[f].outside
  BY DEF Inv, Forced

LEMMA ForcesFinal ==
  ASSUME Inv, ForcesKept, UNCHANGED interventions
  PROVE  Final
  BY ForceIs DEF ForcesKept, Final

LEMMA StayingFinal ==
  ASSUME Inv, Staying, UNCHANGED interventions
  PROVE  Final
<1>1. PICK w : Becomes(w) /\ Grows(Foreigners(organizations), Ledger, w)
  BY DEF Staying
<1>2. \A f \in DOMAIN formations :
        Kept(Foreigners(organizations), formations[f], formations'[f])
  BY <1>1, LedgerIs DEF Grows, Becomes
<1>3. \A f \in DOMAIN formations : formations[f].outside =>
        formations[f].organization \in Foreigners(organizations)
  BY DEF Inv, Forced
<1> QED
  BY <1>2, <1>3, ForceIs DEF Kept, Final

\* A tick begins, and a state or an intervention is left as it is.
LEMMA PassKeeps ==
  ASSUME Inv, handler \in {"idle", "foreign"}, handler' \in {"idle", "foreign"},
         UNCHANGED <<ledgerVars, logisticsVars, interventions, ecologyVars, peaceVars>>
  PROVE  Inv' /\ Final
<1>1. orders' = orders /\ shipments' = shipments
  BY DEF logisticsVars
<1>2. Reordered
  BY <1>1 DEF Reordered
<1> QED
  BY <1>1, <1>2, OrdersKeep, ForcesFinal

LEMMA DeliverSupportKeeps ==
  ASSUME Inv, NEW s, NEW o \in DOMAIN organizations, NEW funds \in Funds, NEW materiel,
         DeliverSupport(s, o, funds, materiel), UNCHANGED <<ecologyVars, peaceVars>>
  PROVE  Inv' /\ Final
<1>1. PICK accepted :
        /\ handler = "foreign" /\ handler' = handler /\ Recipient(o)
        /\ organizations' = [organizations EXCEPT ![o].resources = @ + funds]
        /\ formations' = [f \in DOMAIN formations |->
                            [formations[f] EXCEPT !.stock = @ + accepted[f]]]
        /\ UNCHANGED <<sources, pools, reserves, logisticsVars, interventions>>
  BY DEF DeliverSupport
<1>2. Organizations(organizations) /\ Formations(formations) /\ Sources(sources)
      /\ pools \in [Keys -> Int] /\ reserves \in [Keys -> Int] /\ Clean(Ledger)
  BY LedgerIs DEF Inv, Sound
<1>3. PICK w : w = [organizations |-> organizations', formations |-> formations',
                    sources |-> sources, pools |-> pools, reserves |-> reserves,
                    demobilized |-> demobilized', expected |-> expected']
  OBVIOUS
<1>4. /\ DOMAIN w = LedgerFields /\ w.organizations = organizations'
      /\ w.formations = formations' /\ w.sources = sources
      /\ w.pools = pools /\ w.reserves = reserves
      /\ w.demobilized = demobilized' /\ w.expected = expected'
  BY <1>3 DEF LedgerFields
<1>5. Becomes(w)
  BY <1>1, <1>4 DEF Becomes
<1>6. funds \in Int
  BY ForeignAssumption
<1>7. /\ DOMAIN organizations' = DOMAIN organizations
      /\ organizations' = [x \in DOMAIN organizations |-> organizations'[x]]
  BY <1>1
<1>8. ASSUME NEW x \in DOMAIN organizations
      PROVE  /\ DOMAIN organizations'[x] = OrganizationFields
             /\ organizations'[x].resources \in Int
             /\ organizations'[x].kind = organizations[x].kind
             /\ organizations'[x].status = organizations[x].status
             /\ organizations'[x].members = organizations[x].members
             /\ x # o => organizations'[x] = organizations[x]
  BY <1>1, <1>2, <1>6 DEF Organizations, OrganizationFields
<1>9. /\ DOMAIN formations' = DOMAIN formations
      /\ formations' = [f \in DOMAIN formations |-> formations'[f]]
  BY <1>1
<1>10. ASSUME NEW f \in DOMAIN formations PROVE Provided(formations[f], formations'[f])
  BY <1>1, FormationsAre DEF Provided, FormationFields
<1>11. Sound(w)
  <2>1. Organizations(organizations')
    BY <1>2, <1>7, <1>8, ListMap DEF Organizations
  <2>2. IsList(formations')
    BY <1>2, <1>9, ListMap DEF Formations
  <2>3. Formations(formations')
    BY <1>2, <1>9, <1>10, <2>2 DEF Formations, Provided
  <2> QED
    BY <1>2, <1>4, <2>1, <2>3 DEF Sound
<1>12. ActiveOf(organizations') = ActiveOf(organizations)
  BY <1>7, <1>8 DEF ActiveOf
<1>13. Clean(w)
  <2>1. organizations[o].status \notin {"fragmented", "merged"}
    BY <1>1, <1>2, LedgerIs DEF Recipient, Active, Clean
  <2>2. \A k \in Keys : k[1] \notin ActiveOf(organizations) => pools[k] = 0 /\ reserves[k] = 0
    BY <1>2, LedgerIs DEF Clean
  <2>3. \A f \in DOMAIN formations : formations'[f].organization = formations[f].organization
    BY <1>10 DEF Provided
  <2>4. ASSUME NEW x \in DOMAIN organizations
        PROVE  /\ organizations[x].status \in {"fragmented", "merged"} =>
                    /\ organizations'[x].kind = "insurgent" /\ organizations'[x].resources = 0
                    /\ \A f \in DOMAIN formations : formations'[f].organization # x
                    /\ \A t \in DOMAIN sources : sources[t].organization # x
               /\ organizations[x].status \in {"fragmented", "merged", "collapsed"} =>
                    organizations'[x].members = {}
    BY <1>2, <1>8, <2>1, <2>3, LedgerIs DEF Clean
  <2> QED
    BY <1>4, <1>7, <1>8, <1>9, <1>12, <2>2, <2>4 DEF Clean
<1>14. Grows(Foreigners(organizations), Ledger, w)
  BY <1>4, <1>7, <1>8, <1>9, <1>10, LedgerIs DEF Grows, Kept, Provided
<1>15. Staying
  BY <1>5, <1>14 DEF Staying
<1>16. Sound(Ledger)' /\ Clean(Ledger)'
  BY <1>5, <1>11, <1>13, LedgerBecomes
<1>17. Marches' /\ Forced'
  BY <1>1, <1>5, <1>14, MarchesKept, ForcedKept
<1> QED
  BY <1>1, <1>7, <1>8, <1>15, <1>16, <1>17, ForcesFrame, StayingFinal

\* A state comes in again: with nobody, those it sent before having gone or going.
LEMMA ReturnKeeps ==
  ASSUME Inv, UNCHANGED <<ledgerVars, logisticsVars, ecologyVars, peaceVars>>,
         handler = "foreign", handler' \in {"idle", "foreign"},
         NEW s \in DOMAIN ForeignStates,
         interventions' = Append(interventions, [state |-> s, status |-> "active", force |-> {}])
  PROVE  Inv' /\ Final
<1>1. /\ formations' = formations /\ organizations' = organizations
      /\ orders' = orders /\ shipments' = shipments
  BY DEF ledgerVars, logisticsVars
<1>2. PICK e, n : /\ e = [state |-> s, status |-> "active", force |-> {}]
                  /\ n = Len(interventions) + 1
  OBVIOUS
<1>3. /\ IsList(interventions') /\ DOMAIN interventions' = DOMAIN interventions \cup {n}
      /\ n \notin DOMAIN interventions /\ interventions'[n] = e
      /\ \A i \in DOMAIN interventions : interventions'[i] = interventions[i]
  BY <1>2, ListAppend DEF Inv, Forced
<1>4. /\ DOMAIN e = InterventionFields /\ e.state = s /\ e.status = "active" /\ e.force = {}
  BY <1>2 DEF InterventionFields
<1>5. Forced'
  BY <1>1, <1>3, <1>4 DEF Inv, Forced
<1>6. Marches'
  BY <1>1 DEF Inv, Marches
<1>7. Final
  BY <1>1, <1>3, ForceIs DEF Final
<1> QED
  BY <1>1, <1>5, <1>6, <1>7, LedgerStays, ForcesFrame

\* A state comes in for the first time: its command, its formation and its source are new.
LEMMA ArrivalKeeps ==
  ASSUME Inv, UNCHANGED <<pools, reserves, logisticsVars, ecologyVars, peaceVars>>,
         handler = "foreign", handler' \in {"idle", "foreign"},
         NEW s \in DOMAIN ForeignStates, NEW o, o = Len(organizations) + 1,
         o <= MaxOrganizations, NEW f, f = Len(formations) + 1,
         NEW command, DOMAIN command = OrganizationFields, command.kind = "foreign",
         command.status = "active", command.members = {}, command.resources \in Int,
         NEW formation, DOMAIN formation = FormationFields, formation.organization = o,
         formation.locality = Border[s], formation.personnel \in Int,
         formation.moving = FALSE, formation.outside = FALSE,
         NEW source, DOMAIN source = SourceFields, source.organization = o,
         source.locality = Border[s],
         NEW e, DOMAIN e = InterventionFields, e.state = s, e.status = "active", e.force = {f},
         organizations' = Append(organizations, command),
         formations' = Append(formations, formation), sources' = Append(sources, source),
         interventions' = Append(interventions, e)
  PROVE  Inv' /\ Final
<1>1. Organizations(organizations) /\ Formations(formations) /\ Sources(sources)
      /\ pools \in [Keys -> Int] /\ reserves \in [Keys -> Int] /\ Clean(Ledger)
  BY LedgerIs DEF Inv, Sound
<1>2. IsList(organizations) /\ IsList(formations) /\ IsList(sources) /\ IsList(interventions)
  BY <1>1 DEF Organizations, Formations, Sources, Inv, Forced
<1>3. /\ IsList(organizations') /\ DOMAIN organizations' = DOMAIN organizations \cup {o}
      /\ o \notin DOMAIN organizations /\ organizations'[o] = command
      /\ \A x \in DOMAIN organizations : organizations'[x] = organizations[x]
  BY <1>2, ListAppend
<1>4. /\ IsList(formations') /\ DOMAIN formations' = DOMAIN formations \cup {f}
      /\ f \notin DOMAIN formations /\ formations'[f] = formation
      /\ \A x \in DOMAIN formations : formations'[x] = formations[x]
  BY <1>2, ListAppend
<1>5. PICK t : t = Len(sources) + 1
  OBVIOUS
<1>6. /\ IsList(sources') /\ DOMAIN sources' = DOMAIN sources \cup {t}
      /\ t \notin DOMAIN sources /\ sources'[t] = source
      /\ \A x \in DOMAIN sources : sources'[x] = sources[x]
  BY <1>2, <1>5, ListAppend, SMTT(30)
<1>7. PICK n : n = Len(interventions) + 1
  OBVIOUS
<1>8. /\ IsList(interventions') /\ DOMAIN interventions' = DOMAIN interventions \cup {n}
      /\ n \notin DOMAIN interventions /\ interventions'[n] = e
      /\ \A x \in DOMAIN interventions : interventions'[x] = interventions[x]
  BY <1>2, <1>7, ListAppend
<1>9. Border[s] \in Localities
  BY ForeignAssumption
<1>10. o \in 1 .. MaxOrganizations
  BY <1>2, ListFacts, ConflictAssumption
<1>11. PICK w : w = [organizations |-> organizations', formations |-> formations',
                     sources |-> sources', pools |-> pools, reserves |-> reserves,
                     demobilized |-> demobilized', expected |-> expected']
  OBVIOUS
<1>12. /\ DOMAIN w = LedgerFields /\ w.organizations = organizations'
       /\ w.formations = formations' /\ w.sources = sources'
       /\ w.pools = pools /\ w.reserves = reserves
       /\ w.demobilized = demobilized' /\ w.expected = expected'
  BY <1>11 DEF LedgerFields
<1>13. Becomes(w)
  BY <1>12 DEF Becomes
<1>14. Sound(w)
  <2>1. Organizations(organizations')
    BY <1>1, <1>3, <1>10 DEF Organizations
  <2>2. Formations(formations')
    BY <1>1, <1>4, <1>9 DEF Formations
  <2>3. Sources(sources')
    BY <1>1, <1>6, <1>9 DEF Sources
  <2> QED
    BY <1>1, <1>12, <2>1, <2>2, <2>3 DEF Sound
<1>15. ActiveOf(organizations') = ActiveOf(organizations)
  BY <1>3 DEF ActiveOf
<1>16. Clean(w)
  <2>1. \A k \in Keys : k[1] \notin ActiveOf(organizations) => pools[k] = 0 /\ reserves[k] = 0
    BY <1>1, LedgerIs DEF Clean
  <2>2. ASSUME NEW x \in DOMAIN organizations'
        PROVE  /\ organizations'[x].status \in {"fragmented", "merged"} =>
                    /\ organizations'[x].kind = "insurgent" /\ organizations'[x].resources = 0
                    /\ \A g \in DOMAIN formations' : formations'[g].organization # x
                    /\ \A g \in DOMAIN sources' : sources'[g].organization # x
               /\ organizations'[x].status \in {"fragmented", "merged", "collapsed"} =>
                    organizations'[x].members = {}
    <3>1. CASE x = o
      BY <1>3, <3>1
    <3>2. CASE x # o
      BY <1>1, <1>3, <1>4, <1>6, <3>2, LedgerIs DEF Clean
    <3> QED
      BY <3>1, <3>2
  <2> QED
    BY <1>12, <1>15, <2>1, <2>2 DEF Clean
<1>17. Grows(Foreigners(organizations), Ledger, w)
  BY <1>3, <1>4, <1>12, LedgerIs DEF Grows, Kept
<1>18. Sound(Ledger)' /\ Clean(Ledger)' /\ Marches'
  BY <1>13, <1>14, <1>16, <1>17, LedgerBecomes, MarchesKept
<1>19. Forced /\ \A i \in DOMAIN interventions : \A g \in interventions[i].force :
                   g \in DOMAIN formations /\ g # f
  BY <1>4, ForceIs DEF Inv
<1>20. Forced'
  <2>1. ASSUME NEW i \in DOMAIN interventions'
        PROVE  /\ DOMAIN interventions'[i] = InterventionFields
               /\ interventions'[i].state \in DOMAIN ForeignStates
               /\ \A g \in interventions'[i].force :
                    /\ g \in DOMAIN formations'
                    /\ formations'[g].organization \in Foreigners(organizations')
               /\ interventions'[i].status = "withdrawn" =>
                    \A g \in interventions'[i].force : formations'[g].outside
    <3>1. CASE i = n
      BY <1>3, <1>4, <1>8, <3>1 DEF Foreigners
    <3>2. CASE i # n
      BY <1>3, <1>4, <1>8, <1>19, <3>2 DEF Forced, Foreigners
    <3> QED
      BY <3>1, <3>2
  <2>2. \A i, k \in DOMAIN interventions' :
          \A g \in interventions'[i].force : g \in interventions'[k].force => i = k
    BY <1>8, <1>19 DEF Forced
  <2>3. ASSUME NEW g \in DOMAIN formations', formations'[g].outside
        PROVE  /\ ~formations'[g].moving
               /\ \E i \in DOMAIN interventions' :
                    g \in interventions'[i].force
                    /\ formations'[g].locality = Border[interventions'[i].state]
    <3>1. g \in DOMAIN formations /\ formations'[g] = formations[g]
      BY <1>4, <2>3
    <3>2. PICK i \in DOMAIN interventions :
            g \in interventions[i].force /\ formations[g].locality = Border[interventions[i].state]
      BY <1>19, <2>3, <3>1 DEF Forced
    <3> QED
      BY <1>8, <1>19, <2>3, <3>1, <3>2 DEF Forced
  <2> QED
    BY <1>8, <2>1, <2>2, <2>3 DEF Forced
<1>21. Final
  BY <1>4, <1>8, ForceIs DEF Final
<1> QED
  BY <1>3, <1>18, <1>20, <1>21, ForcesFrame

LEMMA InterveneKeeps ==
  ASSUME Inv, NEW s \in DOMAIN ForeignStates, Intervene(s), UNCHANGED <<ecologyVars, peaceVars>>
  PROVE  Inv' /\ Final
<1>1. /\ handler = "foreign" /\ handler' \in {"idle", "foreign"}
      /\ UNCHANGED <<pools, reserves, demobilized, logisticsVars>>
  BY DEF Intervene, StateVisited, Begin
<1>2. CASE UNCHANGED <<organizations, formations, sources, expected>>
           /\ interventions' = Append(interventions, [state |-> s, status |-> "active", force |-> {}])
  <2>1. UNCHANGED ledgerVars
    BY <1>1, <1>2 DEF ledgerVars
  <2> QED
    BY <1>1, <1>2, <2>1, ReturnKeeps
<1>3. PICK o, f : o = Len(organizations) + 1 /\ f = Len(formations) + 1
  OBVIOUS
<1>4. PICK command, formation, source, e :
        /\ command = [kind |-> "foreign", status |-> "active", members |-> {},
                      resources |-> Expedition.resources, party |-> FALSE, branches |-> 0]
        /\ formation = Fresh(o, Border[s], Expedition.personnel, Expedition.stock)
        /\ source = [organization |-> o, locality |-> Border[s], stock |-> Expedition.source]
        /\ e = [state |-> s, status |-> "active", force |-> {f}]
  OBVIOUS
<1>5. CASE /\ o <= MaxOrganizations
           /\ organizations' = Append(organizations, command)
           /\ formations' = Append(formations, formation)
           /\ sources' = Append(sources, source)
           /\ interventions' = Append(interventions, e)
  <2>1. Expedition.resources \in Int /\ Expedition.personnel \in Int
    BY ForeignAssumption
  <2>2. /\ DOMAIN command = OrganizationFields /\ command.kind = "foreign"
        /\ command.status = "active" /\ command.members = {} /\ command.resources \in Int
    BY <1>4, <2>1 DEF OrganizationFields
  <2>3. /\ DOMAIN formation = FormationFields /\ formation.organization = o
        /\ formation.locality = Border[s] /\ formation.personnel \in Int
        /\ formation.moving = FALSE /\ formation.outside = FALSE
    BY <1>4, <2>1 DEF Fresh, Resized, FormationFields
  <2>4. /\ DOMAIN source = SourceFields /\ source.organization = o
        /\ source.locality = Border[s]
    BY <1>4 DEF SourceFields
  <2>5. /\ DOMAIN e = InterventionFields /\ e.state = s /\ e.status = "active" /\ e.force = {f}
    BY <1>4 DEF InterventionFields
  <2> QED
    BY <1>1, <1>3, <1>5, <2>2, <2>3, <2>4, <2>5, ArrivalKeeps
<1> QED
  BY <1>2, <1>3, <1>4, <1>5 DEF Intervene

\* A formation is as it was, but that it may have got out: of the force that withdraws,
\* at the border, and on no march.
Outward(g, h) ==
  /\ DOMAIN h = DOMAIN g /\ h.organization = g.organization /\ h.locality = g.locality
  /\ h.personnel = g.personnel /\ h.moving = g.moving
  /\ h.outside \in BOOLEAN /\ (g.outside => h.outside)
GetsOut(i, g) ==
  /\ Outward(formations[g], formations'[g])
  /\ formations'[g].outside =>
       \/ formations[g].outside
       \/ /\ g \in interventions[i].force /\ ~formations[g].moving
          /\ formations[g].locality = Border[interventions[i].state]

LEMMA PulledOut ==
  ASSUME Inv, NEW i \in DOMAIN interventions, NEW f \in interventions[i].force, Pulled(i, f)
  PROVE  /\ formations' = [g \in DOMAIN formations |-> formations'[g]]
         /\ \A g \in DOMAIN formations : GetsOut(i, g)
         /\ Reordered
<1>1. PICK border : border = Border[interventions[i].state]
  OBVIOUS
<1>2. f \in DOMAIN formations /\ border \in Localities
  BY <1>1, ForceIs, ForeignAssumption
<1>3. CASE UNCHANGED formations
  <2>1. UNCHANGED orders \/ \E cost : CreateMovementOrder(f, border, cost, "reallocation")
    BY <1>1 DEF Pulled
  <2>2. Reordered
    BY <1>2, <2>1, OrderIssued DEF Reordered
  <2>3. \A g \in DOMAIN formations : GetsOut(i, g)
    BY <1>3, FormationsAre DEF GetsOut, Outward
  <2> QED
    BY <1>3, <2>2, <2>3, FormationsAre
<1>4. CASE ~UNCHANGED formations
  <2>1. /\ formations[f].locality = border /\ UNCHANGED orders /\ ~formations[f].moving
        /\ formations' = [formations EXCEPT ![f].outside = TRUE]
    BY <1>1, <1>4 DEF Pulled
  <2>2. Reordered
    BY <2>1 DEF Reordered
  <2>3. formations' = [g \in DOMAIN formations |-> formations'[g]]
    BY <2>1
  <2>4. ASSUME NEW g \in DOMAIN formations PROVE Outward(formations[g], formations'[g])
    BY <2>1, FormationsAre DEF Outward, FormationFields
  <2>5. \A g \in DOMAIN formations : g # f => formations'[g] = formations[g]
    BY <2>1
  <2>6. \A g \in DOMAIN formations : GetsOut(i, g)
    BY <1>1, <2>1, <2>4, <2>5 DEF GetsOut
  <2> QED
    BY <2>2, <2>3, <2>6
<1> QED
  BY <1>3, <1>4

LEMMA WithdrawalKeeps ==
  ASSUME Inv, NEW i \in DOMAIN interventions, Withdrawal(i), UNCHANGED <<ecologyVars, peaceVars>>
  PROVE  Inv' /\ Final
<1>1. /\ handler = "foreign" /\ handler' \in {"idle", "foreign"}
      /\ UNCHANGED <<organizations, sources, pools, reserves, demobilized, expected, shipments>>
  BY DEF Withdrawal, Visiting, Begin
<1>2. PICK status : /\ status = IF \A f \in interventions[i].force : formations'[f].outside
                                THEN "withdrawn" ELSE "withdrawing"
                    /\ interventions' = [interventions EXCEPT ![i].status = status]
  BY DEF Withdrawal
<1>3. /\ formations' = [g \in DOMAIN formations |-> formations'[g]]
      /\ \A g \in DOMAIN formations : GetsOut(i, g)
      /\ Reordered
  <2>1. CASE interventions[i].force = {} /\ UNCHANGED <<formations, orders>>
    <3>1. \A g \in DOMAIN formations : GetsOut(i, g)
      BY <2>1, FormationsAre DEF GetsOut, Outward
    <3> QED
      BY <2>1, <3>1, FormationsAre DEF Reordered
  <2>2. CASE \E f \in interventions[i].force : Pulled(i, f)
    BY <2>2, PulledOut
  <2> QED
    BY <2>1, <2>2 DEF Withdrawal
<1>4. \A g \in DOMAIN formations :
        /\ Outward(formations[g], formations'[g])
        /\ formations'[g].outside =>
             \/ formations[g].outside
             \/ /\ g \in interventions[i].force /\ ~formations[g].moving
                /\ formations[g].locality = Border[interventions[i].state]
  BY <1>3 DEF GetsOut
<1>5. DOMAIN formations' = DOMAIN formations
  BY <1>3
<1>6. Rearranged
  BY <1>1, <1>3, <1>4, FormationsAre DEF Rearranged, Outward
<1>7. Marches'
  <2>1. \A s, t \in DOMAIN shipments' : shipments'[s].formation = shipments'[t].formation => s = t
    BY <1>1 DEF Inv, Marches
  <2>2. \A g \in DOMAIN formations : formations'[g].moving = formations[g].moving
    BY <1>4 DEF Outward
  <2> QED
    BY <1>3, <1>5, <2>1, <2>2, PendingOrders DEF Reordered
<1>8. Forced
  BY DEF Inv
<1>9. /\ DOMAIN interventions' = DOMAIN interventions
      /\ interventions' = [k \in DOMAIN interventions |-> interventions'[k]]
  BY <1>2
<1>10. ASSUME NEW k \in DOMAIN interventions
       PROVE  /\ DOMAIN interventions'[k] = InterventionFields
              /\ interventions'[k].state = interventions[k].state
              /\ interventions'[k].force = interventions[k].force
              /\ interventions'[k].status = IF k = i THEN status ELSE interventions[k].status
  BY <1>2, <1>8 DEF Forced, InterventionFields
<1>11. \A k \in DOMAIN interventions : interventions'[k].status = "withdrawn" =>
         \A g \in interventions[k].force : formations'[g].outside
  <2>1. status = "withdrawn" => \A g \in interventions[i].force : formations'[g].outside
    BY <1>2
  <2>2. ASSUME NEW k \in DOMAIN interventions, interventions[k].status = "withdrawn",
               NEW g \in interventions[k].force
        PROVE  formations'[g].outside
    BY <1>4, <2>2, ForceIs DEF Outward
  <2> QED
    BY <1>10, <2>1, <2>2
<1>12. Forced'
  <2>1. IsList(interventions')
    BY <1>8, <1>9, ListMap DEF Forced
  <2>2. ASSUME NEW k \in DOMAIN interventions, NEW g \in interventions[k].force
        PROVE  /\ g \in DOMAIN formations'
               /\ formations'[g].organization \in Foreigners(organizations')
    BY <1>1, <1>4, <1>5, ForceIs DEF Outward
  <2>3. \A k, m \in DOMAIN interventions' :
          \A g \in interventions'[k].force : g \in interventions'[m].force => k = m
    BY <1>8, <1>9, <1>10 DEF Forced
  <2>4. ASSUME NEW g \in DOMAIN formations', formations'[g].outside
        PROVE  /\ ~formations'[g].moving
               /\ \E k \in DOMAIN interventions' :
                    g \in interventions'[k].force
                    /\ formations'[g].locality = Border[interventions'[k].state]
    <3>1. /\ g \in DOMAIN formations /\ formations'[g].moving = formations[g].moving
          /\ formations'[g].locality = formations[g].locality
      BY <1>4, <1>5, <2>4 DEF Outward
    <3>2. ~formations[g].moving /\ \E k \in DOMAIN interventions :
            g \in interventions[k].force /\ formations[g].locality = Border[interventions[k].state]
      BY <1>4, <1>8, <2>4, <3>1 DEF Forced
    <3> QED
      BY <1>9, <1>10, <3>1, <3>2
  <2>5. \A k \in DOMAIN interventions' : /\ DOMAIN interventions'[k] = InterventionFields
                                         /\ interventions'[k].state \in DOMAIN ForeignStates
    BY <1>8, <1>9, <1>10 DEF Forced
  <2> QED
    BY <1>9, <1>10, <1>11, <2>1, <2>2, <2>3, <2>4, <2>5 DEF Forced
<1>13. Final
  <2>1. ASSUME NEW k \in DOMAIN interventions, NEW f \in interventions[k].force, formations'[f].outside
        PROVE  formations[f].locality = Border[interventions[k].state] /\ ~formations[f].moving
    <3>1. f \in DOMAIN formations
      BY ForceIs
    <3>2. CASE formations[f].outside
      BY <3>2, ForceIs
    <3>3. CASE ~formations[f].outside
      <4>1. /\ f \in interventions[i].force /\ ~formations[f].moving
            /\ formations[f].locality = Border[interventions[i].state]
        BY <1>4, <2>1, <3>1, <3>3
      <4>2. k = i
        BY <1>8, <4>1 DEF Forced
      <4> QED
        BY <4>1, <4>2
    <3> QED
      BY <3>2, <3>3
  <2>2. \A f \in DOMAIN formations : formations[f].outside =>
          /\ formations'[f].outside
          /\ formations'[f].personnel = formations[f].personnel
          /\ formations'[f].locality = formations[f].locality
    BY <1>4 DEF Outward
  <2> QED
    BY <1>11, <2>1, <2>2 DEF Final
<1> QED
  BY <1>1, <1>6, <1>7, <1>12, <1>13, RearrangedLedger, ForcesFrame

LEMMA ForeignKeeps ==
  ASSUME Inv, Foreign
  PROVE  Inv' /\ Final
<1>1. UNCHANGED <<ecologyVars, peaceVars>>
  BY DEF Foreign
<1>2. CASE ProcessForeignAffairs
  BY <1>1, <1>2, PassKeeps DEF ProcessForeignAffairs, Idle, Begin
<1>3. ASSUME NEW s \in DOMAIN ForeignStates, StayOut(s) PROVE Inv' /\ Final
  BY <1>1, <1>3, PassKeeps DEF StayOut, StateVisited, Begin
<1>4. ASSUME NEW s \in DOMAIN ForeignStates, Intervene(s) PROVE Inv' /\ Final
  BY <1>1, <1>4, InterveneKeeps
<1>5. ASSUME NEW s, NEW o \in DOMAIN organizations, NEW funds \in Funds, NEW m,
             DeliverSupport(s, o, funds, m)
      PROVE  Inv' /\ Final
  BY <1>1, <1>5, DeliverSupportKeeps
<1>6. ASSUME NEW i \in DOMAIN interventions, Continue(i) PROVE Inv' /\ Final
  BY <1>1, <1>6, PassKeeps DEF Continue, Visiting, Begin
<1>7. ASSUME NEW i \in DOMAIN interventions, Withdrawal(i) PROVE Inv' /\ Final
  BY <1>1, <1>7, WithdrawalKeeps
<1> QED
  BY <1>2, <1>3, <1>4, <1>5, <1>6, <1>7 DEF Foreign, ForeignNext, ForeignStep

-----------------------------------------------------------------------------
(* The world.                                                              *)

LEMMA SeqIsList ==
  ASSUME NEW S, NEW s \in Seq(S)
  PROVE  IsList(s) /\ \A i \in DOMAIN s : s[i] \in S
<1>1. Len(s) \in Nat /\ s \in [1 .. Len(s) -> S]
  BY LenProperties
<1>2. PICK n \in Nat : n = Len(s)
  BY <1>1, Zenon
<1>3. s = [i \in 1 .. n |-> s[i]]
  BY <1>1, <1>2
<1> QED
  BY <1>1, <1>3, ListIntro

LEMMA OpeningLedger ==
  ASSUME WorldInit
  PROVE  /\ Sound(Ledger) /\ Clean(Ledger)
         /\ \A f \in DOMAIN formations : ~formations[f].moving /\ ~formations[f].outside
<1> USE DEF WorldInit
<1>1. /\ organizations \in Seq(Organization) /\ Len(organizations) <= MaxOrganizations
      /\ formations \in Seq(ArmedFormation) /\ sources \in Seq(SupplySource)
      /\ \A o \in DOMAIN organizations : organizations[o].status = "active"
      /\ \A f \in DOMAIN formations : ~formations[f].moving /\ ~formations[f].outside
  BY DEF Founded
<1>2. /\ pools = [k \in Keys |-> 0] /\ reserves = [k \in Keys |-> 0]
  BY DEF Opening
<1>3. Organizations(organizations)
  <2>1. IsList(organizations) /\ \A o \in DOMAIN organizations : organizations[o] \in Organization
    BY <1>1, SeqIsList
  <2>2. DOMAIN organizations = 1 .. Len(organizations) /\ Len(organizations) \in Nat
    BY <2>1, ListFacts
  <2>3. DOMAIN organizations \subseteq 1 .. MaxOrganizations
    BY <1>1, <2>2, ConflictAssumption
  <2>4. \A o \in DOMAIN organizations :
          DOMAIN organizations[o] = OrganizationFields /\ organizations[o].resources \in Int
    BY <2>1 DEF Organization, OrganizationFields
  <2> QED
    BY <2>1, <2>3, <2>4 DEF Organizations
<1>4. Formations(formations)
  <2>1. IsList(formations) /\ \A f \in DOMAIN formations : formations[f] \in ArmedFormation
    BY <1>1, SeqIsList
  <2> QED
    BY <2>1 DEF Formations, ArmedFormation, FormationFields
<1>5. Sources(sources)
  <2>1. IsList(sources) /\ \A s \in DOMAIN sources : sources[s] \in SupplySource
    BY <1>1, SeqIsList
  <2> QED
    BY <2>1 DEF Sources, SupplySource, SourceFields
<1>6. Sound(Ledger)
  BY <1>2, <1>3, <1>4, <1>5, LedgerIs DEF Sound
<1>7. Clean(Ledger)
  BY <1>1, <1>2, LedgerIs DEF Clean
<1> QED
  BY <1>1, <1>6, <1>7

LEMMA InitKeeps == WorldInit => Inv
<1> SUFFICES ASSUME WorldInit PROVE Inv
  OBVIOUS
<1>1. /\ orders = <<>> /\ shipments = <<>> /\ interventions = <<>>
      /\ protos = [c \in DOMAIN Community |-> NoProto]
      /\ negotiation = {} /\ agreements = <<>> /\ ceasefires = {}
      /\ handler = "idle"
  BY DEF WorldInit, Opening
<1>2. /\ people \in [Persons -> [organization: 0 .. MaxOrganizations, fraction: 0 .. Cohorts]]
      /\ \A o \in DOMAIN organizations : organizations[o].status = "active"
      /\ \A o \in ActiveOf(organizations) :
           organizations[o].members = {p \in Persons : people[p].organization = o}
      /\ \A p \in Persons :
           /\ people[p].organization \in {NoOrganization} \cup ActiveOf(organizations)
           /\ (people[p].fraction > 0) = (people[p].organization # NoOrganization)
  BY DEF WorldInit, Founded
<1>3. IsList(interventions) /\ IsList(agreements)
      /\ DOMAIN interventions = {} /\ DOMAIN agreements = {}
      /\ DOMAIN orders = {} /\ DOMAIN shipments = {}
  <2>1. \A s : s = <<>> => IsList(s) /\ DOMAIN s = {}
    <3>1. ASSUME NEW s, s = <<>> PROVE IsList(s) /\ DOMAIN s = {}
      BY <3>1 DEF IsList
    <3> QED
      BY <3>1
  <2> QED
    BY <1>1, <2>1
<1>4. Belong
  <2>1. people \in [Persons -> [organization: Nat, fraction: Nat]]
    BY <1>2
  <2>2. protos \in [DOMAIN Community -> [founders: SUBSET Persons, fraction: Nat]]
        /\ \A c \in DOMAIN Community : protos[c].founders = {}
    BY <1>1 DEF NoProto
  <2>3. \A p \in Persons : people[p].organization # NoOrganization =>
          /\ people[p].organization \in DOMAIN organizations
          /\ p \in organizations[people[p].organization].members
    BY <1>2 DEF ActiveOf
  <2> QED
    BY <1>2, <2>1, <2>2, <2>3 DEF Belong
<1>5. Marches /\ Forced /\ Seated
  BY <1>1, <1>3, OpeningLedger DEF Marches, Forced, Seated
<1>6. Visits /\ SettlementsStand
  BY <1>1, <1>2 DEF Visits, SettlementsStand
<1> QED
  BY <1>4, <1>5, <1>6, OpeningLedger DEF Inv

LEMMA NextKeeps ==
  ASSUME Inv, WorldNext
  PROVE  Inv' /\ Final
<1>1. CASE Forces
  BY <1>1, ForcesKeep, ForcesFinal DEF Forces
<1>2. CASE Foreign
  BY <1>2, ForeignKeeps
<1>3. CASE Mobilization
  BY <1>3, MobilizationKeeps, StayingFinal DEF Mobilization
<1>4. CASE Peace
  BY <1>4, PeaceKeeps, StayingFinal DEF Peace
<1> QED
  BY <1>1, <1>2, <1>3, <1>4 DEF WorldNext

LEMMA StutterKeeps ==
  ASSUME Inv, UNCHANGED worldVars
  PROVE  Inv'
<1>1. /\ organizations' = organizations /\ formations' = formations /\ sources' = sources
      /\ pools' = pools /\ reserves' = reserves /\ demobilized' = demobilized
      /\ expected' = expected /\ handler' = handler /\ pending' = pending
      /\ orders' = orders /\ shipments' = shipments /\ interventions' = interventions
      /\ people' = people /\ protos' = protos /\ negotiation' = negotiation
      /\ agreements' = agreements /\ ceasefires' = ceasefires
  BY DEF worldVars, foreignVars, sharedVars, ledgerVars, logisticsVars, ecologyVars, peaceVars
<1>2. Sound(Ledger)' /\ Clean(Ledger)'
  BY <1>1, LedgerStays DEF ledgerVars
<1>3. Belong' /\ Marches' /\ Forced' /\ Seated'
  BY <1>1 DEF Inv, Belong, Disjoint, Marches, Forced, Seated
<1>4. Visits' /\ SettlementsStand'
  BY <1>1 DEF Inv, Visits, SettlementsStand, Ongoing
<1> QED
  BY <1>2, <1>3, <1>4 DEF Inv

\* Whatever world opens and whatever its processes do, in whatever order, the
\* invariant holds: records are complete, names and memberships agree, marches,
\* forces, settlements and visits stand on what they refer to.
THEOREM WorldInvariant == WorldSpec => []Inv
<1>1. WorldInit => Inv
  BY InitKeeps
<1>2. Inv /\ [WorldNext]_worldVars => Inv'
  BY NextKeeps, StutterKeeps
<1> QED
  BY <1>1, <1>2, PTL DEF WorldSpec

\* A formation marches under exactly one order, and no formation has two shipments
\* under way (advance_movement_orders, update_logistics).
THEOREM OneMarch == WorldSpec => []OneUnderWay
<1>1. Inv => OneUnderWay
  <2> SUFFICES ASSUME Inv PROVE OneUnderWay
    OBVIOUS
  <2>1. Marches
    BY DEF Inv
  <2>2. ASSUME NEW f \in DOMAIN formations
        PROVE  Cardinality({i \in DOMAIN orders : orders[i].formation = f /\ orders[i].status = "moving"})
                 = IF formations[f].moving THEN 1 ELSE 0
    <3>1. PICK under : under = {i \in DOMAIN orders : orders[i].formation = f /\ orders[i].status = "moving"}
      OBVIOUS
    <3>2. CASE formations[f].moving
      <4>1. PICK i : i \in under
        BY <2>1, <3>1, <3>2 DEF Marches
      <4>2. under = {i}
        BY <2>1, <3>1, <4>1 DEF Marches
      <4>3. Cardinality({i}) = 1
        BY FS_Singleton
      <4> QED
        BY <3>1, <3>2, <4>2, <4>3
    <3>3. CASE ~formations[f].moving
      <4>1. under = {}
        BY <2>1, <3>1, <3>3 DEF Marches
      <4> QED
        BY <3>1, <3>3, <4>1, FS_EmptySet
    <3> QED
      BY <3>2, <3>3
  <2> QED
    BY <2>1, <2>2 DEF OneUnderWay, Marches
<1> QED
  BY <1>1, WorldInvariant, PTL

\* Nothing is left under the name of an organization that split, merged, collapsed or
\* settled, in whatever order its people, formations, pools and agreements changed.
THEOREM NobodyIsOrphaned == WorldSpec => []NothingOrphaned
<1>1. Inv => NothingOrphaned
  <2> SUFFICES ASSUME Inv PROVE NothingOrphaned
    OBVIOUS
  <2>1. Clean(Ledger)
    BY DEF Inv
  <2>2. \A k \in Keys : pools[k] + reserves[k] > 0 => k[1] \in ActiveOf(organizations)
    BY <2>1, LedgerIs DEF Clean
  <2>3. \A o \in DOMAIN organizations : organizations[o].status \in {"fragmented", "merged"} =>
          /\ organizations[o].resources = 0 /\ organizations[o].members = {}
          /\ \A f \in DOMAIN formations : formations[f].organization # o
          /\ \A s \in DOMAIN sources : sources[s].organization # o
    BY <2>1, LedgerIs DEF Clean
  <2> QED
    BY <2>2, <2>3 DEF NothingOrphaned
<1> QED
  BY <1>1, WorldInvariant, PTL

\* Persons and organizations agree on who belongs to whom, through recruitment, exit,
\* defection, birth, split, merger, collapse, settlement and return.
THEOREM MembersAgree == WorldSpec => []MembershipReciprocal
<1>1. Inv => MembershipReciprocal
  <2> SUFFICES ASSUME Inv PROVE MembershipReciprocal
    OBVIOUS
  <2>1. Belong
    BY DEF Inv
  <2>2. OwnedAreMembers
    BY <2>1, IncumbentIs DEF OwnedAreMembers, Belong, NoOrganization
  <2>3. ASSUME Idle, Disjoint, NEW o \in ActiveOf(organizations)
        PROVE  organizations[o].members = {p \in Persons : people[p].organization = o}
    <3>1. organizations[o].members \subseteq {p \in Persons : people[p].organization = o}
      BY <2>1, <2>3 DEF Belong, Idle
    <3>2. o # NoOrganization
      <4>1. Organizations(organizations)
        BY LedgerIs DEF Inv, Sound
      <4> QED
        BY <4>1 DEF Organizations, ActiveOf, NoOrganization
    <3> QED
      BY <2>1, <3>1, <3>2 DEF Belong
  <2> QED
    BY <2>2, <2>3 DEF MembershipReciprocal, Disjoint
<1> QED
  BY <1>1, WorldInvariant, PTL

\* A political organization has an agreement behind it that was carried out, and a
\* ceasefire one that is ongoing, though the organizations split and merge meanwhile
\* (process_peace, the ecology's splits and mergers).
THEOREM SettlementsHold == WorldSpec => []SettlementsStand
<1>1. Inv => SettlementsStand
  BY DEF Inv
<1> QED
  BY <1>1, WorldInvariant, PTL

\* A foreign force gets out only at its border and on no march; its intervention is
\* over only then; and nothing in the world moves, revives or harms who is out.
THEOREM WithdrawnIsOut == WorldSpec => WithdrawalIsFinal
<1>1. Inv /\ [WorldNext]_worldVars => [Final]_foreignVars
  BY NextKeeps DEF worldVars
<1> QED
  BY <1>1, WorldInvariant, PTL DEF WorldSpec, WithdrawalIsFinal, Final
================================================================================
