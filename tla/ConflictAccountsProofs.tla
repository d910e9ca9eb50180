------------------------- MODULE ConflictAccountsProofs -------------------------
(***************************************************************************)
(* The accounts of the conflict world, whatever it opens with and however  *)
(* its processes follow one another: whatever is raised, moved, lost or    *)
(* put back in place is recorded, so the people, the goods and the money   *)
(* of the country add up to what the run opened with and what came since,  *)
(* and no formation holds more than it can carry.                          *)
(***************************************************************************)
EXTENDS ConflictProofs

-----------------------------------------------------------------------------
(* Sums.                                                                   *)

\* What holds of no elements, and of those of which it holds without any one of
\* them, holds of all subsets.
LEMMA SetInduction ==
  ASSUME NEW S, IsFiniteSet(S), NEW P, {} \in P,
         \A s \in SUBSET S : s # {} /\ (\A x \in s : s \ {x} \in P) => s \in P
  PROVE  \A s \in SUBSET S : s \in P
<1> DEFINE T == {n \in Nat : \A s \in SUBSET S : Cardinality(s) = n => s \in P}
<1>1. \A s \in SUBSET S : IsFiniteSet(s) /\ Cardinality(s) \in Nat
  <2>1. \A s \in SUBSET S : IsFiniteSet(s)
    BY FS_Subset
  <2> QED
    BY <2>1, FS_CardinalityType
<1>2. 0 \in T
  <2>1. ASSUME NEW s \in SUBSET S, Cardinality(s) = 0 PROVE s \in P
    <3>1. s = {}
      BY <2>1, <1>1, FS_EmptySet
    <3> QED
      BY <3>1
  <2> QED
    BY <2>1
<1>3. ASSUME NEW n \in Nat, n \in T PROVE n + 1 \in T
  <2>1. ASSUME NEW s \in SUBSET S, Cardinality(s) = n + 1 PROVE s \in P
    <3>1. s # {}
      BY <2>1, FS_EmptySet
    <3>2. ASSUME NEW x \in s PROVE s \ {x} \in P
      <4>1. Cardinality(s \ {x}) = Cardinality(s) - 1
        BY <3>1, <1>1, OneLess
      <4>2. Cardinality(s \ {x}) = n /\ s \ {x} \in SUBSET S
        BY <4>1, <2>1
      <4> QED
        BY <4>2, <1>3
    <3> QED
      BY <3>1, <3>2
  <2> QED
    BY <2>1
<1>4. \A n \in Nat : n \in T
  <2> HIDE DEF T
  <2> QED
    BY <1>2, <1>3, Induction
<1> QED
  BY <1>1, <1>4

\* f has a number for each element of S.
Numbers(f, S) == IsFiniteSet(S) /\ \A x \in S : f[x] \in Int

\* A sum of integers over a subset of a finite set is an integer.
LEMMA SubsetSum ==
  ASSUME NEW f, NEW S, Numbers(f, S)
  PROVE  \A s \in SUBSET S : /\ IsFiniteSet(s) /\ Numbers(f, s)
                             /\ SumFunctionOnSet(f, s) \in Int
<1> SUFFICES ASSUME NEW s \in SUBSET S
             PROVE  IsFiniteSet(s) /\ Numbers(f, s) /\ SumFunctionOnSet(f, s) \in Int
  OBVIOUS
<1>1. IsFiniteSet(s) /\ \A x \in s : f[x] \in Int
  BY FS_Subset DEF Numbers
<1> QED
  BY <1>1, SumType DEF Numbers

LEMMA SumOfNone ==
  ASSUME NEW f
  PROVE  SumFunctionOnSet(f, {}) = 0
<1>1. IsFiniteSet({})
  BY FS_EmptySet
<1> QED
  BY <1>1, SumChosen

\* Any element may be added last.
LEMMA SumAny ==
  ASSUME NEW f, NEW S, Numbers(f, S)
  PROVE  \A x \in S : SumFunctionOnSet(f, S) = f[x] + SumFunctionOnSet(f, S \ {x})
<1> DEFINE Splits(s) == \A x \in s : SumFunctionOnSet(f, s) = f[x] + SumFunctionOnSet(f, s \ {x})
           P == {s \in SUBSET S : Splits(s)}
<1>1. \A s \in SUBSET S : IsFiniteSet(s) /\ SumFunctionOnSet(f, s) \in Int
  BY SubsetSum
<1>2. {} \in P
  OBVIOUS
<1>3. ASSUME NEW s \in SUBSET S, s # {}, \A x \in s : s \ {x} \in P PROVE s \in P
  <2> DEFINE c == CHOOSE z \in s : TRUE
  <2>1. c \in s
    BY <1>3
  <2>2. SumFunctionOnSet(f, s) = f[c] + SumFunctionOnSet(f, s \ {c})
    BY <1>1, <1>3, SumChosen
  <2> HIDE DEF c
  <2>3. ASSUME NEW x \in s, x # c
        PROVE  SumFunctionOnSet(f, s) = f[x] + SumFunctionOnSet(f, s \ {x})
    <3>1. SumFunctionOnSet(f, s \ {c}) = f[x] + SumFunctionOnSet(f, (s \ {c}) \ {x})
      BY <1>3, <2>1, <2>3
    <3>2. SumFunctionOnSet(f, s \ {x}) = f[c] + SumFunctionOnSet(f, (s \ {x}) \ {c})
      BY <1>3, <2>1, <2>3
    <3>3. (s \ {c}) \ {x} = (s \ {x}) \ {c}
      OBVIOUS
    <3>4. SumFunctionOnSet(f, (s \ {c}) \ {x}) \in Int /\ f[x] \in Int /\ f[c] \in Int
      BY <1>1, <2>1 DEF Numbers
    <3> DEFINE v == SumFunctionOnSet(f, s)
               vc == SumFunctionOnSet(f, s \ {c})
               vx == SumFunctionOnSet(f, s \ {x})
               r == SumFunctionOnSet(f, (s \ {c}) \ {x})
    <3>5. v = f[c] + vc /\ vc = f[x] + r /\ vx = f[c] + r /\ r \in Int
      BY <2>2, <3>1, <3>2, <3>3, <3>4
    <3> HIDE DEF v, vc, vx, r
    <3>6. v = f[x] + vx
      BY <3>4, <3>5
    <3> QED
      BY <3>6 DEF v, vx
  <2> QED
    BY <2>2, <2>3
<1>4. S \in P
  <2> HIDE DEF P
  <2>1. \A s \in SUBSET S : s # {} /\ (\A x \in s : s \ {x} \in P) => s \in P
    BY <1>3
  <2>2. IsFiniteSet(S)
    BY DEF Numbers
  <2>3. \A s \in SUBSET S : s \in P
    BY <1>2, <2>1, <2>2, SetInduction
  <2> QED
    BY <2>3
<1> QED
  BY <1>4

\* g is f with d added where T is.
Changes(f, g, d, S, T) ==
  /\ T \subseteq S
  /\ \A x \in T : d[x] \in Int /\ g[x] = f[x] + d[x]
  /\ \A x \in S : x \notin T => g[x] = f[x]

\* The sum follows what is added to some of the terms.
LEMMA SumChanged ==
  ASSUME NEW f, NEW g, NEW d, NEW S, NEW T, Numbers(f, S), Changes(f, g, d, S, T)
  PROVE  /\ SumFunctionOnSet(g, S) = SumFunctionOnSet(f, S) + SumFunctionOnSet(d, T)
         /\ SumFunctionOnSet(g, S) \in Int /\ SumFunctionOnSet(f, S) \in Int
         /\ SumFunctionOnSet(d, T) \in Int /\ Numbers(g, S)
<1> DEFINE Sums(s) == SumFunctionOnSet(g, s) = SumFunctionOnSet(f, s) + SumFunctionOnSet(d, s \cap T)
           P == {s \in SUBSET S : Sums(s)}
<1>0. /\ T \subseteq S /\ IsFiniteSet(S) /\ IsFiniteSet(T) /\ \A x \in S : f[x] \in Int
      /\ \A x \in T : d[x] \in Int /\ g[x] = f[x] + d[x]
      /\ \A x \in S : x \notin T => g[x] = f[x]
  BY FS_Subset DEF Numbers, Changes
<1>1. \A s \in SUBSET S : Numbers(f, s) /\ SumFunctionOnSet(f, s) \in Int
  BY SubsetSum
<1>2. Numbers(g, S)
  BY <1>0 DEF Numbers
<1>3. \A s \in SUBSET S : Numbers(g, s) /\ SumFunctionOnSet(g, s) \in Int
  BY <1>2, SubsetSum
<1>4. Numbers(d, T)
  BY <1>0 DEF Numbers
<1>5. \A s \in SUBSET T : Numbers(d, s) /\ SumFunctionOnSet(d, s) \in Int
  BY <1>4, SubsetSum
<1>6. {} \in P
  <2>1. {} \cap T = {}
    OBVIOUS
  <2> QED
    BY <2>1, SumOfNone
<1>7. ASSUME NEW s \in SUBSET S, s # {}, \A x \in s : s \ {x} \in P PROVE s \in P
  <2>1. PICK x \in s : s \ {x} \in P
    BY <1>7
  <2>2. SumFunctionOnSet(f, s) = f[x] + SumFunctionOnSet(f, s \ {x})
    BY <1>1, SumAny
  <2>3. SumFunctionOnSet(g, s) = g[x] + SumFunctionOnSet(g, s \ {x})
    BY <1>3, SumAny
  <2> DEFINE df == SumFunctionOnSet(f, s \ {x})
             dg == SumFunctionOnSet(g, s \ {x})
             dd == SumFunctionOnSet(d, (s \ {x}) \cap T)
  <2>4. dg = df + dd
    BY <2>1
  <2>5. df \in Int /\ f[x] \in Int /\ dd \in Int
    BY <1>0, <1>1, <1>5
  <2>6. CASE x \in T
    <3>1. SumFunctionOnSet(d, s \cap T) = d[x] + SumFunctionOnSet(d, (s \cap T) \ {x})
      <4>1. s \cap T \in SUBSET T /\ x \in s \cap T
        BY <2>6
      <4>2. Numbers(d, s \cap T)
        BY <1>5
      <4> QED
        BY <4>1, <4>2, SumAny
    <3>2. (s \cap T) \ {x} = (s \ {x}) \cap T
      OBVIOUS
    <3>3. g[x] = f[x] + d[x] /\ d[x] \in Int
      BY <1>0, <2>6
    <3>4. /\ SumFunctionOnSet(f, s) = f[x] + df /\ SumFunctionOnSet(g, s) = g[x] + dg
          /\ SumFunctionOnSet(d, s \cap T) = d[x] + dd
      BY <2>2, <2>3, <3>1, <3>2
    <3> HIDE DEF df, dg, dd
    <3>5. Sums(s)
      BY <2>4, <2>5, <3>3, <3>4
    <3> QED
      BY <3>5
  <2>7. CASE x \notin T
    <3>1. s \cap T = (s \ {x}) \cap T
      BY <2>7
    <3>2. g[x] = f[x]
      BY <1>0, <2>7
    <3>3. /\ SumFunctionOnSet(f, s) = f[x] + df /\ SumFunctionOnSet(g, s) = g[x] + dg
          /\ SumFunctionOnSet(d, s \cap T) = dd
      BY <2>2, <2>3, <3>1
    <3> HIDE DEF df, dg, dd
    <3>4. Sums(s)
      BY <2>4, <2>5, <3>2, <3>3
    <3> QED
      BY <3>4
  <2> QED
    BY <2>6, <2>7
<1>8. S \in P
  <2> HIDE DEF P
  <2>1. \A s \in SUBSET S : s # {} /\ (\A x \in s : s \ {x} \in P) => s \in P
    BY <1>7
  <2>2. IsFiniteSet(S)
    BY <1>0
  <2>3. \A s \in SUBSET S : s \in P
    BY <1>6, <2>1, <2>2, SetInduction
  <2> QED
    BY <2>3
<1>9. S \cap T = T
  BY <1>0
<1> QED
  BY <1>1, <1>2, <1>3, <1>5, <1>8, <1>9

\* g is f on S.
Agree(f, g, S) == \A x \in S : g[x] = f[x]

LEMMA SumSame ==
  ASSUME NEW f, NEW g, NEW S, Numbers(f, S), Agree(f, g, S)
  PROVE  /\ SumFunctionOnSet(g, S) = SumFunctionOnSet(f, S)
         /\ SumFunctionOnSet(f, S) \in Int /\ Numbers(g, S)
<1>1. Changes(f, g, f, S, {})
  BY DEF Changes, Agree
<1>2. /\ SumFunctionOnSet(g, S) = SumFunctionOnSet(f, S) + SumFunctionOnSet(f, {})
      /\ SumFunctionOnSet(f, S) \in Int /\ Numbers(g, S)
  BY <1>1, SumChanged
<1> QED
  BY <1>2, SumOfNone

LEMMA SumOfZeros ==
  ASSUME NEW f, NEW S, IsFiniteSet(S), \A x \in S : f[x] = 0
  PROVE  SumFunctionOnSet(f, S) = 0 /\ Numbers(f, S)
<1>1. Numbers(f, S)
  BY DEF Numbers
<1>2. Changes(f, f, f, S, S)
  BY DEF Changes
<1>3. /\ SumFunctionOnSet(f, S) = SumFunctionOnSet(f, S) + SumFunctionOnSet(f, S)
      /\ SumFunctionOnSet(f, S) \in Int
  BY <1>1, <1>2, SumChanged
<1> QED
  BY <1>1, <1>3

\* One term changes.
ChangesAt(f, g, S, x, n) == g[x] = f[x] + n /\ \A y \in S : y # x => g[y] = f[y]

LEMMA SumChangedAt ==
  ASSUME NEW f, NEW g, NEW S, NEW x \in S, NEW n \in Int, Numbers(f, S), ChangesAt(f, g, S, x, n)
  PROVE  /\ SumFunctionOnSet(g, S) = SumFunctionOnSet(f, S) + n
         /\ SumFunctionOnSet(f, S) \in Int /\ Numbers(g, S)
<1>1. SumFunctionOnSet(f, S) = f[x] + SumFunctionOnSet(f, S \ {x})
  BY SumAny
<1>2. Numbers(g, S) /\ f[x] \in Int /\ g[x] = f[x] + n
  BY DEF Numbers, ChangesAt
<1>3. SumFunctionOnSet(g, S) = g[x] + SumFunctionOnSet(g, S \ {x})
  BY <1>2, SumAny
<1>4. Numbers(f, S \ {x}) /\ SumFunctionOnSet(f, S \ {x}) \in Int
  BY SubsetSum
<1>5. SumFunctionOnSet(g, S \ {x}) = SumFunctionOnSet(f, S \ {x})
  <2>1. Agree(f, g, S \ {x})
    BY DEF Agree, ChangesAt
  <2> QED
    BY <2>1, <1>4, SumSame
<1> DEFINE df == SumFunctionOnSet(f, S \ {x})
<1>6. /\ SumFunctionOnSet(f, S) = f[x] + df /\ SumFunctionOnSet(g, S) = g[x] + df /\ df \in Int
  BY <1>1, <1>3, <1>4, <1>5
<1> HIDE DEF df
<1> QED
  BY <1>2, <1>6

LEMMA SumOfUnion ==
  ASSUME NEW f, NEW S, NEW T, S \cap T = {}, Numbers(f, S), Numbers(f, T)
  PROVE  /\ SumFunctionOnSet(f, S \cup T) = SumFunctionOnSet(f, S) + SumFunctionOnSet(f, T)
         /\ SumFunctionOnSet(f, S) \in Int /\ SumFunctionOnSet(f, T) \in Int
         /\ Numbers(f, S \cup T)
<1> DEFINE P == {s \in SUBSET T : SumFunctionOnSet(f, S \cup s) = SumFunctionOnSet(f, S)
                                                                  + SumFunctionOnSet(f, s)}
<1>1. Numbers(f, S \cup T) /\ IsFiniteSet(T) /\ \A x \in T : f[x] \in Int
  BY FS_Union DEF Numbers
<1>2. \A s \in SUBSET (S \cup T) : Numbers(f, s) /\ SumFunctionOnSet(f, s) \in Int
  BY <1>1, SubsetSum
<1>3. {} \in P
  <2>1. S \cup {} = S
    OBVIOUS
  <2> QED
    BY <1>2, <2>1, SumOfNone
<1>4. ASSUME NEW s \in SUBSET T, s # {}, \A x \in s : s \ {x} \in P PROVE s \in P
  <2>1. PICK x \in s : s \ {x} \in P
    BY <1>4
  <2>2. (S \cup s) \ {x} = S \cup (s \ {x})
    OBVIOUS
  <2>3. SumFunctionOnSet(f, S \cup s) = f[x] + SumFunctionOnSet(f, (S \cup s) \ {x})
    <3>1. Numbers(f, S \cup s) /\ x \in S \cup s
      BY <1>2
    <3> QED
      BY <3>1, SumAny
  <2>4. SumFunctionOnSet(f, s) = f[x] + SumFunctionOnSet(f, s \ {x})
    <3>1. Numbers(f, s)
      BY <1>2
    <3> QED
      BY <3>1, SumAny
  <2> DEFINE u == SumFunctionOnSet(f, S \cup s)
             v == SumFunctionOnSet(f, S \cup (s \ {x}))
             w == SumFunctionOnSet(f, s \ {x})
             m == SumFunctionOnSet(f, S)
  <2>5. u = f[x] + v /\ v = m + w /\ SumFunctionOnSet(f, s) = f[x] + w
    BY <2>1, <2>2, <2>3, <2>4
  <2>6. f[x] \in Int /\ m \in Int /\ w \in Int
    BY <1>1, <1>2
  <2> HIDE DEF u, v, w, m
  <2>7. u = m + SumFunctionOnSet(f, s)
    BY <2>5, <2>6
  <2> QED
    BY <2>7 DEF u, m
<1>5. T \in P
  <2> HIDE DEF P
  <2>1. \A s \in SUBSET T : s # {} /\ (\A x \in s : s \ {x} \in P) => s \in P
    BY <1>4
  <2>2. \A s \in SUBSET T : s \in P
    BY <1>1, <1>3, <2>1, SetInduction
  <2> QED
    BY <2>2
<1> QED
  BY <1>1, <1>2, <1>5

\* U are the names of S, and g counts under each name what f counts.
Renames(f, g, name, S, U) ==
  /\ \A x \in S : name[x] \in U /\ g[name[x]] = f[x]
  /\ \A x, y \in S : name[x] = name[y] => x = y
  /\ \A u \in U : \E x \in S : u = name[x]

\* Renaming the terms does not change a sum.
LEMMA SumRenamed ==
  ASSUME NEW f, NEW g, NEW S, NEW name, NEW U, Numbers(f, S), Renames(f, g, name, S, U)
  PROVE  /\ SumFunctionOnSet(g, U) = SumFunctionOnSet(f, S) /\ SumFunctionOnSet(f, S) \in Int
         /\ Numbers(g, U)
<1> DEFINE Names(s) == {name[x] : x \in s}
           P == {s \in SUBSET S : Numbers(g, Names(s)) /\ SumFunctionOnSet(g, Names(s)) = SumFunctionOnSet(f, s)}
<1>0. /\ IsFiniteSet(S) /\ \A x \in S : f[x] \in Int /\ g[name[x]] = f[x]
      /\ \A x, y \in S : name[x] = name[y] => x = y
  BY DEF Numbers, Renames
<1>1. \A s \in SUBSET S : Numbers(f, s) /\ SumFunctionOnSet(f, s) \in Int
  BY SubsetSum
<1>2. {} \in P
  <2>1. Names({}) = {}
    OBVIOUS
  <2> QED
    BY <2>1, SumOfNone, FS_EmptySet DEF Numbers
<1>3. ASSUME NEW s \in SUBSET S, s # {}, \A x \in s : s \ {x} \in P PROVE s \in P
  <2>1. PICK x \in s : s \ {x} \in P
    BY <1>3
  <2>2. Names(s) \ {name[x]} = Names(s \ {x})
    BY <1>0
  <2>3. Names(s) = Names(s \ {x}) \cup {name[x]}
    OBVIOUS
  <2>4. SumFunctionOnSet(f, s) = f[x] + SumFunctionOnSet(f, s \ {x})
    BY <1>1, SumAny
  <2>5. name[x] \in Names(s) /\ (\A y \in Names(s) : g[y] \in Int) /\ g[name[x]] = f[x]
    BY <1>0
  <2>6. /\ Numbers(g, Names(s \ {x}))
        /\ SumFunctionOnSet(g, Names(s \ {x})) = SumFunctionOnSet(f, s \ {x})
    BY <2>1
  <2> DEFINE A == Names(s)  B == Names(s \ {x})
  <2> HIDE DEF A, B, Names
  <2>7. Numbers(g, A)
    <3>1. IsFiniteSet(B) /\ A = B \cup {name[x]}
      BY <2>3, <2>6 DEF A, B, Numbers
    <3>2. IsFiniteSet(A)
      BY <3>1, FS_AddElement
    <3> QED
      BY <2>5, <3>2 DEF A, Numbers
  <2>8. SumFunctionOnSet(g, A) = g[name[x]] + SumFunctionOnSet(g, A \ {name[x]})
    BY <2>5, <2>7, SumAny DEF A
  <2>9. SumFunctionOnSet(g, A) = SumFunctionOnSet(f, s)
    BY <2>2, <2>4, <2>5, <2>6, <2>8 DEF A, B
  <2> QED
    BY <2>7, <2>9 DEF A
<1>4. S \in P
  <2> HIDE DEF P
  <2>1. \A s \in SUBSET S : s # {} /\ (\A x \in s : s \ {x} \in P) => s \in P
    BY <1>3
  <2>2. \A s \in SUBSET S : s \in P
    BY <1>0, <1>2, <2>1, SetInduction
  <2> QED
    BY <2>2
<1>5. U = Names(S)
  BY DEF Renames
<1> QED
  BY <1>1, <1>4, <1>5

\* a counts of s \o t what b counts of s and c of t.
Joins(a, b, c, s, t) ==
  /\ \A i \in DOMAIN s : a[i] = b[i]
  /\ \A i \in DOMAIN t : a[Len(s) + i] = c[i]

LEMMA SumOfCat ==
  ASSUME NEW s, IsList(s), NEW t, IsList(t), NEW a, NEW b, NEW c,
         Numbers(b, DOMAIN s), Numbers(c, DOMAIN t), Joins(a, b, c, s, t)
  PROVE  /\ SumFunctionOnSet(a, DOMAIN (s \o t)) = SumFunctionOnSet(b, DOMAIN s)
                                                   + SumFunctionOnSet(c, DOMAIN t)
         /\ SumFunctionOnSet(b, DOMAIN s) \in Int /\ SumFunctionOnSet(c, DOMAIN t) \in Int
         /\ Numbers(a, DOMAIN (s \o t))
<1> DEFINE S == DOMAIN s  T == DOMAIN t
           name == [i \in T |-> Len(s) + i]
           U == {name[i] : i \in T}
<1>1. Len(s) \in Nat /\ S = 1 .. Len(s) /\ Len(t) \in Nat /\ T = 1 .. Len(t)
  BY ListFacts
<1>2. Renames(c, a, name, T, U)
  <2>1. \A i \in T : name[i] = Len(s) + i
    OBVIOUS
  <2>2. \A i \in T : a[name[i]] = c[i]
    BY <2>1 DEF Joins
  <2>3. \A i, k \in T : name[i] = name[k] => i = k
    BY <1>1, <2>1
  <2> HIDE DEF T, name
  <2> QED
    BY <2>2, <2>3 DEF Renames
<1>3. S \cap U = {}
  BY <1>1
<1>4. DOMAIN (s \o t) = S \cup U
  <2>1. DOMAIN (s \o t) = 1 .. Len(s) + Len(t)
    BY ListCat
  <2>2. \A k \in 1 .. Len(s) + Len(t) : k \notin S => k - Len(s) \in T /\ name[k - Len(s)] = k
    BY <1>1
  <2>3. \A k \in 1 .. Len(s) + Len(t) : k \notin S => k \in U
    BY <2>2
  <2>4. \A i \in T : name[i] \in 1 .. Len(s) + Len(t)
    BY <1>1
  <2>5. S \subseteq 1 .. Len(s) + Len(t)
    BY <1>1
  <2> QED
    BY <2>1, <2>3, <2>4, <2>5
<1> HIDE DEF name, U
<1>5. SumFunctionOnSet(a, U) = SumFunctionOnSet(c, T) /\ SumFunctionOnSet(c, T) \in Int /\ Numbers(a, U)
  BY <1>2, SumRenamed
<1>6. Agree(b, a, S)
  BY DEF Agree, Joins
<1>7. SumFunctionOnSet(a, S) = SumFunctionOnSet(b, S) /\ SumFunctionOnSet(b, S) \in Int /\ Numbers(a, S)
  BY <1>6, SumSame
<1> HIDE DEF S, T
<1>8. SumFunctionOnSet(a, S \cup U) = SumFunctionOnSet(a, S) + SumFunctionOnSet(a, U)
      /\ Numbers(a, S \cup U)
  BY <1>3, <1>5, <1>7, SumOfUnion
<1> QED
  BY <1>4, <1>5, <1>7, <1>8 DEF S, T

-----------------------------------------------------------------------------
(* The accounts of a ledger.                                               *)

Soldiers(forms) == [f \in DOMAIN forms |-> forms[f].personnel]
Stock(list) == [i \in DOMAIN list |-> list[i].stock]
Holdings(orgs) == [o \in DOMAIN orgs |-> orgs[o].resources + orgs[o].branches]

Men(forms) == SumFunctionOnSet(Soldiers(forms), DOMAIN forms)
Goods(list) == SumFunctionOnSet(Stock(list), DOMAIN list)
Wealth(orgs) == SumFunctionOnSet(Holdings(orgs), DOMAIN orgs)
Pool(stock) == SumFunctionOnSet(stock, Keys)

\* What is in the records is counted in numbers, nobody carries more than he can,
\* and branches are of a party.
Carrying(forms) ==
  \A f \in DOMAIN forms : /\ forms[f].stock \in Nat /\ forms[f].capacity \in Int
                          /\ forms[f].stock <= forms[f].capacity
Branching(orgs) ==
  \A o \in DOMAIN orgs : orgs[o].branches \in Int /\ (orgs[o].branches = 0 \/ orgs[o].party = TRUE)
Counted(w) ==
  /\ Carrying(w.formations)
  /\ Branching(w.organizations)
  /\ \A s \in DOMAIN w.sources : w.sources[s].stock \in Int
  /\ w.demobilized \in [personnel: Int, arms: Int]
  /\ w.expected \in [supply: Int, manpower: Int, resources: Int]

\* What a ledger has is short of what there should be by so many men, so much
\* supply and so many resources.
MenOf(w) == Men(w.formations) + Pool(w.pools) + w.demobilized.personnel
GoodsOf(w) == Goods(w.sources) + Goods(w.formations) + Pool(w.reserves) + w.demobilized.arms
Short(w, men, goods, wealth) ==
  /\ MenOf(w) + men = w.expected.manpower
  /\ GoodsOf(w) + goods = w.expected.supply
  /\ Wealth(w.organizations) + wealth = w.expected.resources

LEMMA KeysFinite == IsFiniteSet(Keys)
<1>1. IsFiniteSet(1 .. MaxOrganizations) /\ IsFiniteSet(Localities)
  BY FS_Interval, ConflictAssumption
<1> QED
  BY <1>1, FS_Product DEF Keys

LEMMA ListFinite ==
  ASSUME NEW s, IsList(s)
  PROVE  IsFiniteSet(DOMAIN s)
  BY ListFacts, FS_Interval

\* Everything a ledger counts is a number.
LEMMA AccountsAreNumbers ==
  ASSUME NEW w, Sound(w), Counted(w)
  PROVE  /\ Numbers(Soldiers(w.formations), DOMAIN w.formations)
         /\ Numbers(Stock(w.formations), DOMAIN w.formations)
         /\ Numbers(Stock(w.sources), DOMAIN w.sources)
         /\ Numbers(Holdings(w.organizations), DOMAIN w.organizations)
         /\ Numbers(w.pools, Keys) /\ Numbers(w.reserves, Keys)
         /\ Men(w.formations) \in Int /\ Goods(w.formations) \in Int /\ Goods(w.sources) \in Int
         /\ Wealth(w.organizations) \in Int /\ Pool(w.pools) \in Int /\ Pool(w.reserves) \in Int
         /\ w.demobilized.personnel \in Int /\ w.demobilized.arms \in Int
         /\ w.expected.manpower \in Int /\ w.expected.supply \in Int /\ w.expected.resources \in Int
<1>1. /\ IsFiniteSet(DOMAIN w.formations) /\ IsFiniteSet(DOMAIN w.sources)
      /\ IsFiniteSet(DOMAIN w.organizations)
  BY ListFinite DEF Sound, Formations, Sources, Organizations
<1>2. Numbers(Soldiers(w.formations), DOMAIN w.formations)
  BY <1>1 DEF Numbers, Soldiers, Sound, Formations
<1>3. Numbers(Stock(w.formations), DOMAIN w.formations)
  BY <1>1 DEF Numbers, Stock, Counted, Carrying
<1>4. Numbers(Stock(w.sources), DOMAIN w.sources)
  BY <1>1 DEF Numbers, Stock, Counted
<1>5. Numbers(Holdings(w.organizations), DOMAIN w.organizations)
  BY <1>1 DEF Numbers, Holdings, Counted, Branching, Sound, Organizations
<1>6. Numbers(w.pools, Keys) /\ Numbers(w.reserves, Keys)
  BY KeysFinite DEF Numbers, Sound
<1>7. /\ Men(w.formations) \in Int /\ Goods(w.formations) \in Int /\ Goods(w.sources) \in Int
      /\ Wealth(w.organizations) \in Int /\ Pool(w.pools) \in Int /\ Pool(w.reserves) \in Int
  BY <1>2, <1>3, <1>4, <1>5, <1>6, SubsetSum DEF Men, Goods, Wealth, Pool
<1>8. /\ w.demobilized.personnel \in Int /\ w.demobilized.arms \in Int
      /\ w.expected.manpower \in Int /\ w.expected.supply \in Int /\ w.expected.resources \in Int
  BY DEF Counted
<1> QED
  BY <1>2, <1>3, <1>4, <1>5, <1>6, <1>7, <1>8

\* n more at one place of a pool.
LEMMA PoolChanged ==
  ASSUME NEW stock \in [Keys -> Int], NEW k \in Keys, NEW n \in Int, NEW after,
         after = [stock EXCEPT ![k] = @ + n]
  PROVE  Pool(after) = Pool(stock) + n /\ Pool(stock) \in Int
<1>1. Numbers(stock, Keys)
  BY KeysFinite DEF Numbers
<1>2. ChangesAt(stock, after, Keys, k, n)
  BY DEF ChangesAt
<1> QED
  BY <1>1, <1>2, SumChangedAt DEF Pool

\* n more of the resources of one organization.
LEMMA WealthChanged ==
  ASSUME NEW orgs, Organizations(orgs), Branching(orgs),
         NEW o \in DOMAIN orgs, NEW n \in Int, NEW after, after = [orgs EXCEPT ![o].resources = @ + n]
  PROVE  /\ Wealth(after) = Wealth(orgs) + n /\ Wealth(orgs) \in Int
         /\ Branching(after)
<1>1. Numbers(Holdings(orgs), DOMAIN orgs)
  BY ListFinite DEF Numbers, Holdings, Organizations, Branching
<1>2. /\ DOMAIN after = DOMAIN orgs
      /\ after[o].resources = orgs[o].resources + n /\ after[o].branches = orgs[o].branches
      /\ after[o].party = orgs[o].party
      /\ \A x \in DOMAIN orgs : x # o => after[x] = orgs[x]
  BY DEF Organizations, OrganizationFields
<1>3. Holdings(after)[o] = Holdings(orgs)[o] + n
  BY <1>2 DEF Holdings, Organizations, Branching
<1>4. ChangesAt(Holdings(orgs), Holdings(after), DOMAIN orgs, o, n)
  BY <1>2, <1>3 DEF ChangesAt, Holdings
<1>5. Branching(after)
  <2>1. \A x \in DOMAIN orgs : after[x].branches = orgs[x].branches /\ after[x].party = orgs[x].party
    BY <1>2
  <2> QED
    BY <1>2, <2>1 DEF Branching
<1> QED
  BY <1>1, <1>2, <1>4, <1>5, SumChangedAt DEF Wealth

-----------------------------------------------------------------------------
(* Fighters who come and go.                                               *)

\* c is s, followed by t.
Follows(c, s, t) ==
  /\ IsList(c) /\ DOMAIN s \subseteq DOMAIN c
  /\ \A i \in DOMAIN s : c[i] = s[i]
  /\ \A i \in DOMAIN t : Len(s) + i \in DOMAIN c /\ c[Len(s) + i] = t[i]
  /\ \A i \in DOMAIN c \ DOMAIN s : i - Len(s) \in DOMAIN t /\ c[i] = t[i - Len(s)]

LEMMA CatIs ==
  ASSUME NEW s, IsList(s), NEW t, IsList(t)
  PROVE  Follows(s \o t, s, t)
<1>1. IsList(s \o t) /\ DOMAIN s \subseteq DOMAIN (s \o t)
  BY ListCat
<1>2. \A i \in DOMAIN s : (s \o t)[i] = s[i]
  BY ListCat
<1>3. \A i \in DOMAIN t : Len(s) + i \in DOMAIN (s \o t) /\ (s \o t)[Len(s) + i] = t[i]
  BY ListCat
<1>4. \A i \in DOMAIN (s \o t) \ DOMAIN s : i - Len(s) \in DOMAIN t /\ (s \o t)[i] = t[i - Len(s)]
  BY ListCat
<1> QED
  BY <1>1, <1>2, <1>3, <1>4 DEF Follows

\* Formations that get as much supply as men.
LEMMA ReinforcedAccounts ==
  ASSUME NEW f, DOMAIN f = FormationFields, f.personnel \in Int, f.stock \in Nat, f.capacity \in Int,
         f.stock <= f.capacity, NEW n \in Nat, NEW g, g = Reinforced(f, n)
  PROVE  /\ g.personnel = f.personnel + n /\ g.stock = f.stock + n
         /\ g.stock \in Nat /\ g.capacity \in Int /\ g.stock <= g.capacity
<1>1. CASE n = 0
  BY <1>1 DEF Reinforced
<1>2. CASE n # 0
  <2> DEFINE h == [f EXCEPT !.personnel = @ + n, !.stock = @ + n]
  <2>1. h.personnel = f.personnel + n /\ h.stock = f.stock + n /\ DOMAIN h = FormationFields
    BY DEF FormationFields
  <2>2. g = [h EXCEPT !.capacity = Greatest(h.personnel * SupplyDays, h.stock)]
    BY <1>2 DEF Reinforced, Resized
  <2> HIDE DEF h
  <2>3. /\ g.personnel = h.personnel /\ g.stock = h.stock
        /\ g.capacity = Greatest(h.personnel * SupplyDays, h.stock)
    BY <2>1, <2>2 DEF FormationFields
  <2>4. h.personnel * SupplyDays \in Int
    BY <2>1, ConflictAssumption
  <2> QED
    BY <2>1, <2>3, <2>4 DEF Greatest
<1> QED
  BY <1>1, <1>2

LEMMA ReducedAccounts ==
  ASSUME NEW f, DOMAIN f = FormationFields, f.personnel \in Int, f.stock \in Nat, f.capacity \in Int,
         f.stock <= f.capacity, NEW n \in Int, NEW g, g = Reduced(f, n)
  PROVE  /\ g.personnel = f.personnel - n /\ g.stock = f.stock
         /\ g.stock \in Nat /\ g.capacity \in Int /\ g.stock <= g.capacity
<1>1. CASE n = 0
  BY <1>1 DEF Reduced
<1>2. CASE n # 0
  <2> DEFINE h == [f EXCEPT !.personnel = @ - n]
  <2>1. h.personnel = f.personnel - n /\ h.stock = f.stock /\ DOMAIN h = FormationFields
    BY DEF FormationFields
  <2>2. g = [h EXCEPT !.capacity = Greatest(h.personnel * SupplyDays, h.stock)]
    BY <1>2 DEF Reduced, Resized
  <2> HIDE DEF h
  <2>3. /\ g.personnel = h.personnel /\ g.stock = h.stock
        /\ g.capacity = Greatest(h.personnel * SupplyDays, h.stock)
    BY <2>1, <2>2 DEF FormationFields
  <2>4. h.personnel * SupplyDays \in Int
    BY <2>1, ConflictAssumption
  <2> QED
    BY <2>1, <2>3, <2>4 DEF Greatest
<1> QED
  BY <1>1, <1>2

LEMMA FreshAccounts ==
  ASSUME NEW o, NEW l, NEW n \in Int, NEW stock \in Nat, NEW g, g = Fresh(o, l, n, stock)
  PROVE  /\ g.personnel = n /\ g.stock = stock
         /\ g.capacity \in Int /\ g.stock <= g.capacity
<1>1. n * SupplyDays \in Int
  BY ConflictAssumption
<1>2. /\ g.personnel = n /\ g.stock = stock /\ g.capacity = Greatest(n * SupplyDays, stock)
  BY DEF Fresh, Resized
<1> QED
  BY <1>1, <1>2 DEF Greatest

LEMMA FormationsFieldedAccounts ==
  ASSUME NEW forms, Formations(forms), Carrying(forms), NEW o, NEW l, NEW here,
         here \subseteq DOMAIN forms, NEW gain, \A f \in here : gain[f] \in Nat,
         NEW sizes, IsList(sizes), \A i \in DOMAIN sizes : sizes[i] \in Nat,
         NEW after, after = Fielded(forms, o, l, here, gain, sizes)
  PROVE  LET fielded == SumFunctionOnSet(gain, here) + SumFunctionOnSet(sizes, DOMAIN sizes) IN
         /\ Carrying(after) /\ fielded \in Int
         /\ Men(after) = Men(forms) + fielded /\ Goods(after) = Goods(forms) + fielded
<1> DEFINE old == [f \in DOMAIN forms |-> IF f \in here THEN Reinforced(forms[f], gain[f])
                                          ELSE forms[f]]
           new == [i \in DOMAIN sizes |-> Fresh(o, l, sizes[i], sizes[i])]
<1>1. IsList(old) /\ DOMAIN old = DOMAIN forms /\ IsList(new) /\ DOMAIN new = DOMAIN sizes
  BY ListMap DEF Formations
<1>2. ASSUME NEW f \in DOMAIN forms
      PROVE  /\ f \in here => /\ old[f].personnel = forms[f].personnel + gain[f]
                              /\ old[f].stock = forms[f].stock + gain[f]
             /\ f \notin here => old[f] = forms[f]
             /\ old[f].stock \in Nat /\ old[f].capacity \in Int /\ old[f].stock <= old[f].capacity
  <2>1. /\ DOMAIN forms[f] = FormationFields /\ forms[f].personnel \in Int
        /\ forms[f].stock \in Nat /\ forms[f].capacity \in Int /\ forms[f].stock <= forms[f].capacity
    BY DEF Formations, Carrying
  <2>2. CASE f \in here
    <3>1. old[f] = Reinforced(forms[f], gain[f]) /\ gain[f] \in Nat
      BY <2>2
    <3> HIDE DEF old
    <3> QED
      BY <2>1, <2>2, <3>1, ReinforcedAccounts
  <2>3. CASE f \notin here
    BY <2>1, <2>3
  <2> QED
    BY <2>2, <2>3
<1>3. ASSUME NEW i \in DOMAIN sizes
      PROVE  /\ new[i].personnel = sizes[i] /\ new[i].stock = sizes[i] /\ sizes[i] \in Nat
             /\ new[i].capacity \in Int /\ new[i].stock <= new[i].capacity
  <2>1. new[i] = Fresh(o, l, sizes[i], sizes[i]) /\ sizes[i] \in Nat
    OBVIOUS
  <2> HIDE DEF new
  <2> QED
    BY <2>1, FreshAccounts
<1>4. after = old \o new
  BY DEF Fielded
<1> HIDE DEF old, new
<1>5. /\ IsList(after) /\ DOMAIN old \subseteq DOMAIN after
      /\ \A f \in DOMAIN old : after[f] = old[f]
      /\ \A i \in DOMAIN new : Len(old) + i \in DOMAIN after /\ after[Len(old) + i] = new[i]
      /\ \A f \in DOMAIN after \ DOMAIN old : f - Len(old) \in DOMAIN new
                                              /\ after[f] = new[f - Len(old)]
  <2>1. IsList(old) /\ IsList(new)
    BY <1>1
  <2>2. Follows(old \o new, old, new)
    BY <2>1, CatIs
  <2> QED
    BY <1>4, <2>2 DEF Follows
<1>6. Carrying(after)
  <2>1. ASSUME NEW f \in DOMAIN after
        PROVE  /\ after[f].stock \in Nat /\ after[f].capacity \in Int
               /\ after[f].stock <= after[f].capacity
    <3>1. CASE f \in DOMAIN old
      BY <1>1, <1>2, <1>5, <3>1
    <3>2. CASE f \notin DOMAIN old
      <4>1. f - Len(old) \in DOMAIN sizes /\ after[f] = new[f - Len(old)]
        BY <1>1, <1>5, <3>2
      <4> QED
        BY <1>3, <4>1
    <3> QED
      BY <3>1, <3>2
  <2> QED
    BY <2>1 DEF Carrying
<1>7. IsFiniteSet(DOMAIN forms) /\ IsFiniteSet(DOMAIN sizes)
  BY ListFinite DEF Formations
<1>8. Numbers(Soldiers(forms), DOMAIN forms) /\ Numbers(Stock(forms), DOMAIN forms)
  BY <1>7 DEF Numbers, Soldiers, Stock, Formations, Carrying
<1>9. /\ Changes(Soldiers(forms), Soldiers(old), gain, DOMAIN forms, here)
      /\ Changes(Stock(forms), Stock(old), gain, DOMAIN forms, here)
  <2>1. \A f \in DOMAIN forms : /\ Soldiers(forms)[f] = forms[f].personnel
                                /\ Soldiers(old)[f] = old[f].personnel
                                /\ Stock(forms)[f] = forms[f].stock /\ Stock(old)[f] = old[f].stock
    BY <1>1 DEF Soldiers, Stock
  <2>2. \A f \in here : gain[f] \in Int
    OBVIOUS
  <2> QED
    BY <1>2, <2>1, <2>2 DEF Changes
<1>10. /\ SumFunctionOnSet(Soldiers(old), DOMAIN forms) = Men(forms) + SumFunctionOnSet(gain, here)
       /\ SumFunctionOnSet(Stock(old), DOMAIN forms) = Goods(forms) + SumFunctionOnSet(gain, here)
       /\ Numbers(Soldiers(old), DOMAIN old) /\ Numbers(Stock(old), DOMAIN old)
       /\ Men(forms) \in Int /\ Goods(forms) \in Int /\ SumFunctionOnSet(gain, here) \in Int
  BY <1>1, <1>8, <1>9, SumChanged DEF Men, Goods
<1>11. Numbers(sizes, DOMAIN sizes)
  BY <1>7 DEF Numbers
<1>12. /\ Agree(sizes, Soldiers(new), DOMAIN sizes)
       /\ Agree(sizes, Stock(new), DOMAIN sizes)
  BY <1>1, <1>3 DEF Agree, Soldiers, Stock
<1>13. /\ SumFunctionOnSet(Soldiers(new), DOMAIN sizes) = SumFunctionOnSet(sizes, DOMAIN sizes)
       /\ SumFunctionOnSet(Stock(new), DOMAIN sizes) = SumFunctionOnSet(sizes, DOMAIN sizes)
       /\ Numbers(Soldiers(new), DOMAIN new) /\ Numbers(Stock(new), DOMAIN new)
       /\ SumFunctionOnSet(sizes, DOMAIN sizes) \in Int
  BY <1>1, <1>11, <1>12, SumSame
<1>14. /\ Joins(Soldiers(after), Soldiers(old), Soldiers(new), old, new)
       /\ Joins(Stock(after), Stock(old), Stock(new), old, new)
  BY <1>5 DEF Joins, Soldiers, Stock
<1>15. /\ Men(after) = SumFunctionOnSet(Soldiers(old), DOMAIN old) + SumFunctionOnSet(Soldiers(new), DOMAIN new)
       /\ Goods(after) = SumFunctionOnSet(Stock(old), DOMAIN old) + SumFunctionOnSet(Stock(new), DOMAIN new)
  BY <1>1, <1>4, <1>10, <1>13, <1>14, SumOfCat DEF Men, Goods
<1> DEFINE m == Men(after)  g == Goods(after)
           a == SumFunctionOnSet(gain, here)  b == SumFunctionOnSet(sizes, DOMAIN sizes)
<1>16. m = (Men(forms) + a) + b /\ g = (Goods(forms) + a) + b /\ a \in Int /\ b \in Int
       /\ Men(forms) \in Int /\ Goods(forms) \in Int
  BY <1>1, <1>10, <1>13, <1>15
<1> HIDE DEF m, g, a, b
<1>17. a + b \in Int /\ m = Men(forms) + (a + b) /\ g = Goods(forms) + (a + b)
  BY <1>16
<1> QED
  BY <1>6, <1>17 DEF m, g, a, b

LEMMA FieldingAccounts ==
  ASSUME NEW w, Sound(w), Counted(w), NEW o \in DOMAIN w.organizations, NEW l, <<o, l>> \in Keys,
         NEW n \in Int, NEW pool, pool = Pooled(w, o, l, n), NEW converted \in Int,
         NEW here, here \subseteq DOMAIN w.formations,
         NEW gain, DOMAIN gain = here, \A f \in here : gain[f] \in Nat,
         NEW sizes, IsList(sizes), \A i \in DOMAIN sizes : sizes[i] \in Nat,
         NEW v, v = Fielding(w, o, l, pool, converted, here, gain, sizes),
         NEW men \in Int, NEW goods \in Int, NEW wealth \in Int, Short(w, men, goods, wealth)
  PROVE  Counted(v) /\ Short(v, men - n, goods, wealth)
<1> DEFINE fielded == SumFunctionOnSet(gain, here) + SumFunctionOnSet(sizes, DOMAIN sizes)
           after == Fielded(w.formations, o, l, here, gain, sizes)
           k == <<o, l>>
<1>1. /\ Carrying(after) /\ fielded \in Int
      /\ Men(after) = Men(w.formations) + fielded /\ Goods(after) = Goods(w.formations) + fielded
  BY FormationsFieldedAccounts DEF Sound, Counted
<1>2. /\ v.formations = after /\ v.sources = w.sources
      /\ v.pools = [w.pools EXCEPT ![k] = pool - fielded]
      /\ v.reserves = [w.reserves EXCEPT ![k] = @ + converted - fielded]
      /\ v.organizations = [w.organizations EXCEPT ![o].resources = @ - converted]
      /\ v.demobilized = w.demobilized
      /\ v.expected = [w.expected EXCEPT !.resources = @ - converted, !.supply = @ + converted]
  <2>1. fielded = SumFunction(gain) + SumFunction(sizes)
    BY DEF SumFunction
  <2> HIDE DEF fielded
  <2> QED
    BY <2>1 DEF Fielding, Sound, LedgerFields
<1> HIDE DEF fielded, after, k
<1>3. k \in Keys /\ w.pools \in [Keys -> Int] /\ w.reserves \in [Keys -> Int]
  BY DEF Sound, k
<1>4. pool = w.pools[k] + n
  BY DEF Pooled, k
<1>5. n - fielded \in Int /\ converted - fielded \in Int /\ -converted \in Int
  BY <1>1
<1>6. v.pools = [w.pools EXCEPT ![k] = @ + (n - fielded)]
  <2>1. pool - fielded = w.pools[k] + (n - fielded)
    BY <1>1, <1>3, <1>4
  <2> QED
    BY <1>2, <2>1
<1>7. v.reserves = [w.reserves EXCEPT ![k] = @ + (converted - fielded)]
  <2>1. w.reserves[k] + converted - fielded = w.reserves[k] + (converted - fielded)
    BY <1>1, <1>3
  <2> QED
    BY <1>2, <2>1
<1>8. v.organizations = [w.organizations EXCEPT ![o].resources = @ + (-converted)]
  <2>1. w.organizations[o].resources - converted = w.organizations[o].resources + (-converted)
    BY DEF Sound, Organizations
  <2> QED
    BY <1>2, <2>1
<1>9. Pool(v.pools) = Pool(w.pools) + (n - fielded) /\ Pool(w.pools) \in Int
  BY <1>3, <1>5, <1>6, PoolChanged
<1>10. Pool(v.reserves) = Pool(w.reserves) + (converted - fielded) /\ Pool(w.reserves) \in Int
  BY <1>3, <1>5, <1>7, PoolChanged
<1>11. /\ Wealth(v.organizations) = Wealth(w.organizations) + (-converted)
       /\ Branching(v.organizations)
  BY <1>5, <1>8, WealthChanged DEF Sound, Counted
<1>12. /\ Men(w.formations) \in Int /\ Goods(w.formations) \in Int /\ Goods(w.sources) \in Int
       /\ Wealth(w.organizations) \in Int
       /\ w.demobilized.personnel \in Int /\ w.demobilized.arms \in Int
       /\ w.expected.manpower \in Int /\ w.expected.supply \in Int /\ w.expected.resources \in Int
  BY AccountsAreNumbers
<1>13. /\ v.expected \in [supply: Int, manpower: Int, resources: Int]
       /\ v.expected.manpower = w.expected.manpower
       /\ v.expected.supply = w.expected.supply + converted
       /\ v.expected.resources = w.expected.resources - converted
  <2>1. w.expected \in [supply: Int, manpower: Int, resources: Int]
    BY DEF Counted
  <2>2. /\ w.expected.supply + converted \in Int /\ w.expected.resources - converted \in Int
        /\ w.expected.manpower \in Int
    BY <1>12
  <2> QED
    BY <1>2, <2>1, <2>2
<1>14. Counted(v)
  BY <1>1, <1>2, <1>11, <1>13 DEF Counted
<1>15. MenOf(v) + (men - n) = v.expected.manpower
  BY <1>1, <1>2, <1>9, <1>12, <1>13 DEF MenOf, Short
<1>16. GoodsOf(v) + goods = v.expected.supply
  BY <1>1, <1>2, <1>10, <1>12, <1>13 DEF GoodsOf, Short
<1>17. Wealth(v.organizations) + wealth = v.expected.resources
  BY <1>11, <1>12, <1>13 DEF Short
<1> QED
  BY <1>14, <1>15, <1>16, <1>17 DEF Short

LEMMA NewSizesAreNat ==
  ASSUME NEW n \in Nat
  PROVE  IsList(NewSizes(n)) /\ \A i \in DOMAIN NewSizes(n) : NewSizes(n)[i] \in Nat
<1> DEFINE full == [i \in 1 .. (n \div TargetPersonnel) |-> TargetPersonnel]
           rest == IF n % TargetPersonnel < MinimumPersonnel THEN <<>> ELSE <<n % TargetPersonnel>>
<1>1. TargetPersonnel \in Nat /\ TargetPersonnel > 0
  BY EcologyAssumption
<1>2. n \div TargetPersonnel \in Nat /\ n % TargetPersonnel \in Nat
  BY <1>1
<1>3. IsList(full) /\ \A i \in DOMAIN full : full[i] \in Nat
  BY <1>1, <1>2, ListIntro
<1>4. IsList(rest) /\ \A i \in DOMAIN rest : rest[i] \in Nat
  BY <1>2, EmptyList, OneList
<1> HIDE DEF full, rest
<1>5. Follows(full \o rest, full, rest)
  BY <1>3, <1>4, CatIs
<1>6. \A i \in DOMAIN (full \o rest) : (full \o rest)[i] \in Nat
  BY <1>3, <1>4, <1>5 DEF Follows
<1> QED
  BY <1>5, <1>6 DEF NewSizes, full, rest, Follows

LEMMA GainsAreNat ==
  ASSUME NEW w, Formations(w.formations), NEW here, here \subseteq DOMAIN w.formations,
         NEW equipped \in Int
  PROVE  LET room == Room(w, here)
             gain == Gain(w, here, room, equipped)
         IN /\ \A f \in here : gain[f] \in Nat
            /\ LeftOver(room, equipped, here) \in Nat
<1> DEFINE room == Room(w, here)
           gain == Gain(w, here, room, equipped)
<1>1. IsFiniteSet(here)
  <2>1. IsFiniteSet(DOMAIN w.formations)
    BY ListFinite DEF Formations
  <2> QED
    BY <2>1, FS_Subset
<1>2. \A f \in here : room[f] \in Nat
  <2>1. \A f \in here : w.formations[f].personnel \in Int
    BY DEF Formations
  <2>2. TargetPersonnel \in Int
    BY EcologyAssumption
  <2>3. \A p \in Int : Greatest(TargetPersonnel, p) - p \in Nat
    BY <2>2 DEF Greatest
  <2>4. \A f \in here : room[f] = Greatest(TargetPersonnel, w.formations[f].personnel)
                                    - w.formations[f].personnel
    BY DEF Room
  <2> HIDE DEF room
  <2> QED
    BY <2>1, <2>3, <2>4
<1> HIDE DEF room
<1>3. \A fs \in SUBSET here : LeftOver(room, equipped, fs) \in Nat
  <2>1. ASSUME NEW fs \in SUBSET here PROVE LeftOver(room, equipped, fs) \in Nat
    <3>1. IsFiniteSet(fs) /\ \A f \in fs : room[f] \in Int
      BY <1>1, <1>2, FS_Subset
    <3>2. SumFunctionOnSet(room, fs) \in Int
      BY <3>1, SumType
    <3> QED
      BY <3>2, LeastInt DEF LeftOver
  <2> QED
    BY <2>1
<1>4. \A f \in here : gain[f] \in Nat
  <2>1. ASSUME NEW f \in here PROVE gain[f] \in Nat
    <3> DEFINE first == {g \in here : WeakerThan(w, g, f)}
    <3>1. LeftOver(room, equipped, first) \in Nat
      BY <1>3
    <3>2. gain[f] = Least(room[f], LeftOver(room, equipped, first))
      BY DEF Gain
    <3> HIDE DEF first, gain
    <3> QED
      BY <1>2, <3>1, <3>2 DEF Least
  <2> QED
    BY <2>1
<1> QED
  BY <1>3, <1>4 DEF Gain, room

\* Fighters that come are counted in the pool of the place or in the formations they join.
LEMMA AddFightersAccounts ==
  ASSUME NEW w, Sound(w), Counted(w), NEW o \in DOMAIN w.organizations, NEW l \in Localities,
         NEW n \in Int, DOMAIN formations \subseteq DOMAIN w.formations,
         NEW v, v = AddFighters(w, o, l, n),
         NEW men \in Int, NEW goods \in Int, NEW wealth \in Int, Short(w, men, goods, wealth)
  PROVE  Counted(v) /\ Short(v, men - n, goods, wealth)
<1> DEFINE here == Here(w, o, l)
           room == Room(w, here)
           pool == Pooled(w, o, l, n)
           converted == Converted(w, o, l, n)
           equipped == EquippedOf(w, o, l, n)
           gain == Gain(w, here, room, equipped)
           sizes == NewSizes(LeftOver(room, equipped, here))
<1>1. v = Fielding(w, o, l, pool, converted, here, gain, sizes)
  BY AddFightersIsFielding
<1>2. <<o, l>> \in Keys
  BY DEF Sound, Organizations, Keys
<1>3. converted \in Int /\ equipped \in Int
  <2> DEFINE stored == w.reserves[<<o, l>>]
             most == Greatest(pool, stored)
  <2>1. w.pools[<<o, l>>] \in Int /\ stored \in Int /\ w.organizations[o].resources \in Int
    BY <1>2 DEF Sound, Organizations
  <2>2. pool \in Int
    BY <2>1 DEF Pooled
  <2>3. converted = Least(most - stored, w.organizations[o].resources)
    BY DEF Converted
  <2>4. equipped = Least(pool, stored + converted)
    BY DEF EquippedOf
  <2> HIDE DEF stored, pool, converted, equipped
  <2>5. most \in Int
    BY <2>1, <2>2, LeastInt
  <2> HIDE DEF most
  <2>6. most - stored \in Int
    BY <2>1, <2>5
  <2>7. converted \in Int
    BY <2>1, <2>3, <2>6, LeastInt
  <2>8. stored + converted \in Int
    BY <2>1, <2>7
  <2> QED
    BY <2>2, <2>4, <2>7, <2>8, LeastInt
<1>4. here \subseteq DOMAIN w.formations
  BY DEF Here
<1> HIDE DEF converted, equipped, here
<1>5. (\A f \in here : gain[f] \in Nat) /\ LeftOver(room, equipped, here) \in Nat
  BY <1>3, <1>4, GainsAreNat DEF Sound
<1>6. DOMAIN gain = here
  BY DEF Gain
<1> HIDE DEF room, gain
<1>7. IsList(sizes) /\ \A i \in DOMAIN sizes : sizes[i] \in Nat
  BY <1>5, NewSizesAreNat
<1> HIDE DEF sizes
<1> QED
  BY <1>1, <1>2, <1>3, <1>4, <1>5, <1>6, <1>7, FieldingAccounts

\* Those of s that the others precede.
LastOf(w, l, s, x) == x \in s /\ \A g \in s : g # x => SoonerThan(w, l, g, x)

LEMMA SoonerIsOrder ==
  ASSUME NEW w, Formations(w.formations), NEW l
  PROVE  /\ \A f \in DOMAIN w.formations : ~SoonerThan(w, l, f, f)
         /\ \A f, g \in DOMAIN w.formations :
              f # g => SoonerThan(w, l, f, g) \/ SoonerThan(w, l, g, f)
         /\ \A f, g, h \in DOMAIN w.formations :
              SoonerThan(w, l, f, g) /\ SoonerThan(w, l, g, h) => SoonerThan(w, l, f, h)
<1>1. \A f \in DOMAIN w.formations : f \in Int /\ w.formations[f].personnel \in Int
  BY ListFacts DEF Formations
<1> QED
  BY <1>1 DEF SoonerThan

LEMMA SomeoneLast ==
  ASSUME NEW w, Formations(w.formations), NEW l
  PROVE  \A s \in SUBSET DOMAIN w.formations : s # {} => \E x : LastOf(w, l, s, x)
<1> DEFINE D == DOMAIN w.formations
           P == {s \in SUBSET D : s # {} => \E x : LastOf(w, l, s, x)}
<1>1. IsFiniteSet(D)
  BY ListFinite DEF Formations
<1>2. {} \in P
  OBVIOUS
<1>3. ASSUME NEW s \in SUBSET D, s # {}, \A x \in s : s \ {x} \in P PROVE s \in P
  <2>1. PICK x : x \in s
    BY <1>3
  <2>2. CASE s \ {x} = {}
    <3>1. LastOf(w, l, s, x)
      BY <2>1, <2>2 DEF LastOf
    <3> QED
      BY <3>1
  <2>3. CASE s \ {x} # {}
    <3>1. s \ {x} \in P
      BY <1>3, <2>1
    <3>2. PICK y : LastOf(w, l, s \ {x}, y)
      BY <2>3, <3>1
    <3>3. y \in s /\ y # x /\ \A g \in s : g # x /\ g # y => SoonerThan(w, l, g, y)
      BY <3>2 DEF LastOf
    <3>4. CASE SoonerThan(w, l, y, x)
      <4>1. \A g \in s : g # x => SoonerThan(w, l, g, x)
        BY <2>1, <3>3, <3>4, SoonerIsOrder
      <4> QED
        BY <2>1, <4>1 DEF LastOf
    <3>5. CASE ~SoonerThan(w, l, y, x)
      <4>1. SoonerThan(w, l, x, y)
        BY <2>1, <3>3, <3>5, SoonerIsOrder
      <4> QED
        BY <3>3, <4>1 DEF LastOf
    <3> QED
      BY <3>4, <3>5
  <2> QED
    BY <2>2, <2>3
<1>4. \A s \in SUBSET D : s # {} /\ (\A x \in s : s \ {x} \in P) => s \in P
  <2> HIDE DEF P, D
  <2> QED
    BY <1>3
<1>5. \A s \in SUBSET D : s \in P
  <2> HIDE DEF P, D
  <2> QED
    BY <1>1, <1>2, <1>4, SetInduction
<1> QED
  BY <1>5

\* Taken one after the other, up to m in all, they lose the least of m and what they have.
LEMMA LossesAddUp ==
  ASSUME NEW w, Formations(w.formations), NEW l, NEW own, own \subseteq DOMAIN w.formations,
         NEW size, \A f \in own : size[f] \in Nat, NEW m \in Nat,
         NEW loss, loss = LossOf(w, l, own, size, m)
  PROVE  /\ \A f \in own : loss[f] \in Int
         /\ SumFunctionOnSet(loss, own) = TakenFrom(size, m, own)
         /\ IsFiniteSet(own) /\ TakenFrom(size, m, own) \in Int
<1> DEFINE Closed(s) == \A f \in s, g \in own : SoonerThan(w, l, g, f) => g \in s
           P == {s \in SUBSET own : Closed(s) => SumFunctionOnSet(loss, s) = TakenFrom(size, m, s)}
<1>1. IsFiniteSet(own)
  <2>1. IsFiniteSet(DOMAIN w.formations)
    BY ListFinite DEF Formations
  <2> QED
    BY <2>1, FS_Subset
<1>2. Numbers(size, own)
  BY <1>1 DEF Numbers
<1>3. \A s \in SUBSET own : Numbers(size, s) /\ SumFunctionOnSet(size, s) \in Int
  BY <1>2, SubsetSum
<1>4. \A s \in SUBSET own : TakenFrom(size, m, s) \in Int
  <2>1. ASSUME NEW s \in SUBSET own PROVE TakenFrom(size, m, s) \in Int
    <3>1. SumFunctionOnSet(size, s) \in Int
      BY <1>3
    <3> QED
      BY <3>1, LeastInt DEF TakenFrom
  <2> QED
    BY <2>1
<1>5. \A f \in own : loss[f] = Least(size[f], m - TakenFrom(size, m, {g \in own : SoonerThan(w, l, g, f)}))
  BY DEF LossOf
<1>6. \A f \in own : loss[f] \in Int
  <2>1. ASSUME NEW f \in own PROVE loss[f] \in Int
    <3> DEFINE taken == TakenFrom(size, m, {g \in own : SoonerThan(w, l, g, f)})
    <3>1. taken \in Int
      BY <1>4
    <3>2. loss[f] = Least(size[f], m - taken) /\ size[f] \in Int
      BY <1>5
    <3> HIDE DEF taken
    <3>3. m - taken \in Int
      BY <3>1
    <3> QED
      BY <3>2, <3>3, LeastInt
  <2> QED
    BY <2>1
<1>7. Numbers(loss, own)
  BY <1>1, <1>6 DEF Numbers
<1>8. \A s \in SUBSET own : Numbers(loss, s) /\ SumFunctionOnSet(loss, s) \in Int
  BY <1>7, SubsetSum
<1>9. {} \in P
  <2>1. SumFunctionOnSet(loss, {}) = 0 /\ SumFunctionOnSet(size, {}) = 0
    BY SumOfNone
  <2>2. TakenFrom(size, m, {}) = 0
    BY <2>1 DEF TakenFrom, Least
  <2> QED
    BY <2>1, <2>2
<1>10. ASSUME NEW s \in SUBSET own, s # {}, \A x \in s : s \ {x} \in P PROVE s \in P
  <2> SUFFICES ASSUME Closed(s) PROVE SumFunctionOnSet(loss, s) = TakenFrom(size, m, s)
    OBVIOUS
  <2>1. s \in SUBSET DOMAIN w.formations
    OBVIOUS
  <2>2. PICK x : LastOf(w, l, s, x)
    BY <1>10, <2>1, SomeoneLast
  <2>3. x \in s /\ \A g \in s : g # x => SoonerThan(w, l, g, x)
    BY <2>2 DEF LastOf
  <2>4. {g \in own : SoonerThan(w, l, g, x)} = s \ {x}
    <3>1. ~SoonerThan(w, l, x, x)
      BY <2>1, <2>3, SoonerIsOrder
    <3> QED
      BY <2>3, <3>1
  <2>5. Closed(s \ {x})
    <3>1. ASSUME NEW f \in s \ {x}, NEW g \in own, SoonerThan(w, l, g, f) PROVE g \in s \ {x}
      <4>1. g \in s
        BY <3>1
      <4>2. SoonerThan(w, l, f, x)
        BY <2>3
      <4>3. f \in DOMAIN w.formations /\ x \in DOMAIN w.formations
        BY <2>1, <2>3
      <4>4. g # x
        BY <3>1, <4>2, <4>3, SoonerIsOrder
      <4> QED
        BY <4>1, <4>4
    <3> QED
      BY <3>1
  <2>6. SumFunctionOnSet(loss, s \ {x}) = TakenFrom(size, m, s \ {x})
    <3>1. s \ {x} \in P
      BY <1>10, <2>3
    <3> QED
      BY <2>5, <3>1
  <2>7. SumFunctionOnSet(loss, s) = loss[x] + SumFunctionOnSet(loss, s \ {x})
    <3>1. Numbers(loss, s)
      BY <1>8
    <3> QED
      BY <2>3, <3>1, SumAny
  <2>8. SumFunctionOnSet(size, s) = size[x] + SumFunctionOnSet(size, s \ {x})
    <3>1. Numbers(size, s)
      BY <1>3
    <3> QED
      BY <2>3, <3>1, SumAny
  <2> DEFINE a == SumFunctionOnSet(size, s \ {x})
             b == SumFunctionOnSet(loss, s)
  <2>9. /\ b = Least(size[x], m - Least(m, a)) + Least(m, a)
        /\ TakenFrom(size, m, s) = Least(m, size[x] + a)
    BY <1>5, <2>3, <2>4, <2>6, <2>7, <2>8 DEF TakenFrom
  <2>10. a \in Int /\ size[x] \in Nat
    BY <1>3, <2>3
  <2> HIDE DEF a, b
  <2>11. b = TakenFrom(size, m, s)
    BY <2>9, <2>10 DEF Least
  <2> QED
    BY <2>11 DEF b
<1>11. \A s \in SUBSET own : s # {} /\ (\A x \in s : s \ {x} \in P) => s \in P
  <2> HIDE DEF P
  <2> QED
    BY <1>10
<1>12. own \in P
  <2> HIDE DEF P
  <2>1. \A s \in SUBSET own : s \in P
    BY <1>1, <1>9, <1>11, SetInduction
  <2> QED
    BY <2>1
<1>13. Closed(own)
  OBVIOUS
<1> QED
  BY <1>1, <1>4, <1>6, <1>12, <1>13

\* Fighters that leave are counted no more, and nothing else.
LEMMA RemoveFightersAccounts ==
  ASSUME NEW w, Sound(w), Counted(w), NEW o \in DOMAIN w.organizations, NEW l \in Localities,
         NEW n \in Int, DOMAIN formations \subseteq DOMAIN w.formations,
         NEW r, r = RemoveFighters(w, o, l, n), NEW v, v = r.world,
         NEW men \in Int, NEW goods \in Int, NEW wealth \in Int, Short(w, men, goods, wealth)
  PROVE  /\ r.removed \in Int
         /\ Counted(v) /\ Short(v, men + r.removed, goods, wealth)
<1> DEFINE fromPool == Least(w.pools[<<o, l>>], n)
           m == n - fromPool
           own == Owned(w, o)
           size == SizeOf(w, own)
           loss == LossOf(w, l, own, size, m)
           after == Withdrawn(w.formations, own, loss)
           taken == TakenFrom(size, m, own)
           forms == w.formations
<1>1. /\ r.removed = fromPool + taken
      /\ v.organizations = w.organizations /\ v.sources = w.sources
      /\ v.reserves = w.reserves
      /\ v.pools = [w.pools EXCEPT ![<<o, l>>] = @ - fromPool]
      /\ v.formations = after /\ v.expected = w.expected
  BY RemoveFightersIs DEF Sound
<1>2. v.demobilized = w.demobilized
  BY Zenon DEF RemoveFighters, Sound, LedgerFields
<1>3. <<o, l>> \in Keys
  BY DEF Sound, Organizations, Keys
<1>4. fromPool \in Int /\ m \in Nat
  <2>1. w.pools[<<o, l>>] \in Int
    BY <1>3 DEF Sound
  <2>2. fromPool \in Int
    BY <2>1, LeastInt
  <2>3. m \in Nat
    BY <2>1 DEF Least
  <2> QED
    BY <2>2, <2>3
<1>5. own \subseteq DOMAIN forms /\ \A f \in own : size[f] = forms[f].personnel /\ size[f] \in Nat
  <2>1. own \subseteq DOMAIN forms /\ \A f \in own : size[f] = forms[f].personnel /\ forms[f].personnel > 0
    BY DEF Owned, SizeOf
  <2>2. \A f \in DOMAIN forms : forms[f].personnel \in Int
    BY DEF Sound, Formations
  <2> HIDE DEF own, size
  <2> QED
    BY <2>1, <2>2
<1> HIDE DEF fromPool, m, own, size
<1>6. /\ \A f \in own : loss[f] \in Int
      /\ SumFunctionOnSet(loss, own) = taken /\ IsFiniteSet(own) /\ taken \in Int
  <2>1. Formations(w.formations) /\ own \subseteq DOMAIN w.formations
    BY <1>5 DEF Sound
  <2>2. loss = LossOf(w, l, own, size, m)
    OBVIOUS
  <2>4. taken = TakenFrom(size, m, own)
    OBVIOUS
  <2>5. \A f \in own : size[f] \in Nat
    BY <1>5
  <2>6. m \in Nat
    BY <1>4
  <2> HIDE DEF loss, taken
  <2>3. /\ \A f \in own : loss[f] \in Int
        /\ SumFunctionOnSet(loss, own) = TakenFrom(size, m, own)
        /\ IsFiniteSet(own) /\ TakenFrom(size, m, own) \in Int
    BY <2>1, <2>2, <2>5, <2>6, LossesAddUp
  <2> QED
    BY <2>3, <2>4
<1> HIDE DEF loss, taken, after, forms
<1>7. /\ DOMAIN after = DOMAIN forms
      /\ \A f \in DOMAIN forms : after[f] = IF f \in own THEN Reduced(forms[f], loss[f]) ELSE forms[f]
  BY DEF after, forms, Withdrawn
<1>8. ASSUME NEW f \in DOMAIN forms
      PROVE  /\ after[f].personnel = IF f \in own THEN forms[f].personnel - loss[f] ELSE forms[f].personnel
             /\ after[f].stock = forms[f].stock
             /\ after[f].stock \in Nat /\ after[f].capacity \in Int /\ after[f].stock <= after[f].capacity
  <2>1. /\ DOMAIN forms[f] = FormationFields /\ forms[f].personnel \in Int
        /\ forms[f].stock \in Nat /\ forms[f].capacity \in Int /\ forms[f].stock <= forms[f].capacity
    BY DEF Sound, Formations, Counted, Carrying, forms
  <2>2. CASE f \in own
    <3>1. after[f] = Reduced(forms[f], loss[f]) /\ loss[f] \in Int
      BY <1>6, <1>7, <2>2
    <3> QED
      BY <2>1, <2>2, <3>1, ReducedAccounts
  <2>3. CASE f \notin own
    BY <1>7, <2>1, <2>3
  <2> QED
    BY <2>2, <2>3
<1>9. Carrying(after)
  BY <1>7, <1>8 DEF Carrying
<1>10. /\ Numbers(Soldiers(forms), DOMAIN forms) /\ Numbers(Stock(forms), DOMAIN forms)
  BY AccountsAreNumbers DEF forms
<1>11. Goods(after) = Goods(forms) /\ Goods(forms) \in Int
  <2>1. Agree(Stock(forms), Stock(after), DOMAIN forms)
    BY <1>7, <1>8 DEF Agree, Stock
  <2> QED
    BY <1>7, <1>10, <2>1, SumSame DEF Goods
<1>12. Men(after) = Men(forms) - taken /\ Men(forms) \in Int
  <2> DEFINE gone == [f \in own |-> - loss[f]]
  <2>1. Changes(Soldiers(after), Soldiers(forms), loss, DOMAIN forms, own)
    <3>1. \A f \in own : loss[f] \in Int /\ Soldiers(forms)[f] = Soldiers(after)[f] + loss[f]
      <4>1. \A f \in own : /\ Soldiers(forms)[f] = forms[f].personnel
                           /\ Soldiers(after)[f] = forms[f].personnel - loss[f]
                           /\ forms[f].personnel \in Int
        BY <1>5, <1>7, <1>8 DEF Soldiers, Sound, Formations, forms
      <4> QED
        BY <1>6, <4>1
    <3>2. \A f \in DOMAIN forms : f \notin own => Soldiers(forms)[f] = Soldiers(after)[f]
      BY <1>7, <1>8 DEF Soldiers
    <3> QED
      BY <1>5, <3>1, <3>2 DEF Changes
  <2>2. Numbers(Soldiers(after), DOMAIN forms)
    <3>1. \A f \in DOMAIN forms : forms[f].personnel \in Int
      BY DEF Sound, Formations, forms
    <3>2. \A f \in DOMAIN forms : after[f].personnel \in Int
      BY <1>6, <1>8, <3>1
    <3>3. IsFiniteSet(DOMAIN forms)
      BY <1>10 DEF Numbers
    <3> QED
      BY <1>7, <3>2, <3>3 DEF Numbers, Soldiers
  <2>3. /\ SumFunctionOnSet(Soldiers(forms), DOMAIN forms)
             = SumFunctionOnSet(Soldiers(after), DOMAIN forms) + SumFunctionOnSet(loss, own)
        /\ SumFunctionOnSet(Soldiers(forms), DOMAIN forms) \in Int
        /\ SumFunctionOnSet(Soldiers(after), DOMAIN forms) \in Int
    BY <2>1, <2>2, SumChanged
  <2>4. /\ Men(forms) = Men(after) + taken /\ Men(forms) \in Int /\ Men(after) \in Int
    BY <1>6, <1>7, <2>3 DEF Men
  <2> QED
    BY <1>6, <2>4
<1>13. Pool(v.pools) = Pool(w.pools) - fromPool /\ Pool(w.pools) \in Int
  <2>1. w.pools \in [Keys -> Int] /\ - fromPool \in Int
    BY <1>4 DEF Sound
  <2>2. v.pools = [w.pools EXCEPT ![<<o, l>>] = @ + (- fromPool)]
    <3>1. w.pools[<<o, l>>] - fromPool = w.pools[<<o, l>>] + (- fromPool)
      BY <1>3, <1>4, <2>1
    <3> QED
      BY <1>1, <3>1
  <2> DEFINE d == - fromPool  k == <<o, l>>
  <2>3. d \in Int /\ k \in Keys /\ v.pools = [w.pools EXCEPT ![k] = @ + d] /\ d = - fromPool
    BY <1>3, <2>1, <2>2
  <2> HIDE DEF d, k
  <2>4. Pool(v.pools) = Pool(w.pools) + d /\ Pool(w.pools) \in Int
    BY <2>1, <2>3, PoolChanged
  <2> QED
    BY <1>4, <2>3, <2>4
<1>14. Counted(v)
  BY <1>1, <1>2, <1>9 DEF Counted
<1>15. /\ w.demobilized.personnel \in Int /\ w.expected.manpower \in Int
  BY AccountsAreNumbers
<1>16. MenOf(v) + (men + r.removed) = v.expected.manpower
  <2> DEFINE a == Men(forms)  b == Pool(w.pools)  c == w.demobilized.personnel
  <2>1. MenOf(v) = (a - taken) + (b - fromPool) + c /\ a + b + c + men = v.expected.manpower
    BY <1>1, <1>2, <1>12, <1>13 DEF MenOf, Short, forms
  <2>2. a \in Int /\ b \in Int /\ c \in Int
    BY <1>12, <1>13, <1>15
  <2> HIDE DEF a, b, c
  <2> QED
    BY <1>1, <1>4, <1>6, <2>1, <2>2
<1>17. GoodsOf(v) + goods = v.expected.supply
  BY <1>1, <1>2, <1>11 DEF GoodsOf, Short, forms
<1>18. Wealth(v.organizations) + wealth = v.expected.resources
  BY <1>1 DEF Short
<1>19. r.removed \in Int
  BY <1>1, <1>4, <1>6
<1> QED
  BY <1>14, <1>16, <1>17, <1>18, <1>19 DEF Short

-----------------------------------------------------------------------------
(* What does not touch the accounts, and what moves between them.          *)

SameHoldings(a, b) ==
  /\ DOMAIN b = DOMAIN a
  /\ \A o \in DOMAIN a : /\ b[o].resources = a[o].resources /\ b[o].branches = a[o].branches
                         /\ b[o].party = a[o].party
SameForces(a, b) ==
  /\ DOMAIN b = DOMAIN a
  /\ \A f \in DOMAIN a : /\ b[f].personnel = a[f].personnel /\ b[f].stock = a[f].stock
                         /\ b[f].capacity = a[f].capacity
SameStocks(a, b) == DOMAIN b = DOMAIN a /\ \A s \in DOMAIN a : b[s].stock = a[s].stock

LEMMA SameWealth ==
  ASSUME NEW a, Organizations(a), Branching(a), NEW b, SameHoldings(a, b)
  PROVE  Wealth(b) = Wealth(a) /\ Branching(b)
<1>1. Numbers(Holdings(a), DOMAIN a)
  BY ListFinite DEF Numbers, Holdings, Organizations, Branching
<1>2. Agree(Holdings(a), Holdings(b), DOMAIN a)
  BY DEF Agree, Holdings, SameHoldings
<1>3. SumFunctionOnSet(Holdings(b), DOMAIN a) = SumFunctionOnSet(Holdings(a), DOMAIN a)
  BY <1>1, <1>2, SumSame
<1> QED
  BY <1>3 DEF Wealth, SameHoldings, Branching

LEMMA SameMen ==
  ASSUME NEW a, Formations(a), Carrying(a), NEW b, SameForces(a, b)
  PROVE  Men(b) = Men(a) /\ Goods(b) = Goods(a) /\ Carrying(b)
<1>1. Numbers(Soldiers(a), DOMAIN a) /\ Numbers(Stock(a), DOMAIN a)
  BY ListFinite DEF Numbers, Soldiers, Stock, Formations, Carrying
<1>2. Agree(Soldiers(a), Soldiers(b), DOMAIN a) /\ Agree(Stock(a), Stock(b), DOMAIN a)
  BY DEF Agree, Soldiers, Stock, SameForces
<1>3. /\ SumFunctionOnSet(Soldiers(b), DOMAIN a) = SumFunctionOnSet(Soldiers(a), DOMAIN a)
      /\ SumFunctionOnSet(Stock(b), DOMAIN a) = SumFunctionOnSet(Stock(a), DOMAIN a)
  BY <1>1, <1>2, SumSame
<1>4. Carrying(b)
  BY DEF Carrying, SameForces
<1> QED
  BY <1>3, <1>4 DEF Men, Goods, SameForces

Stocked(list) == \A s \in DOMAIN list : list[s].stock \in Int

LEMMA SameGoods ==
  ASSUME NEW a, IsList(a), Stocked(a), NEW b, SameStocks(a, b)
  PROVE  Goods(b) = Goods(a) /\ Stocked(b)
<1>1. Numbers(Stock(a), DOMAIN a)
  BY ListFinite DEF Numbers, Stock, Stocked
<1>2. Agree(Stock(a), Stock(b), DOMAIN a)
  BY DEF Agree, Stock, SameStocks
<1>3. SumFunctionOnSet(Stock(b), DOMAIN a) = SumFunctionOnSet(Stock(a), DOMAIN a)
  BY <1>1, <1>2, SumSame
<1> QED
  BY <1>3 DEF Goods, SameStocks, Stocked

\* Everything is where it was, whoever it belongs to.
SameAccounts(w, v) ==
  /\ SameHoldings(w.organizations, v.organizations)
  /\ SameForces(w.formations, v.formations) /\ SameStocks(w.sources, v.sources)
  /\ v.pools = w.pools /\ v.reserves = w.reserves
  /\ v.demobilized = w.demobilized

LEMMA AccountsSame ==
  ASSUME NEW w, Sound(w), Counted(w), NEW v, SameAccounts(w, v),
         v.expected \in [supply: Int, manpower: Int, resources: Int]
  PROVE  /\ Counted(v) /\ MenOf(v) = MenOf(w) /\ GoodsOf(v) = GoodsOf(w)
         /\ Wealth(v.organizations) = Wealth(w.organizations)
<1>1. Wealth(v.organizations) = Wealth(w.organizations) /\ Branching(v.organizations)
  BY SameWealth DEF Sound, Counted, SameAccounts
<1>2. /\ Men(v.formations) = Men(w.formations) /\ Goods(v.formations) = Goods(w.formations)
      /\ Carrying(v.formations)
  BY SameMen DEF Sound, Counted, SameAccounts
<1>3. Goods(v.sources) = Goods(w.sources) /\ Stocked(v.sources)
  BY SameGoods DEF Sound, Sources, Counted, SameAccounts, Stocked
<1> QED
  BY <1>1, <1>2, <1>3 DEF Counted, SameAccounts, Stocked, MenOf, GoodsOf

LEMMA AccountsStay ==
  ASSUME NEW w, Sound(w), Counted(w), NEW v, SameAccounts(w, v), v.expected = w.expected,
         NEW men, NEW goods, NEW wealth, Short(w, men, goods, wealth)
  PROVE  Counted(v) /\ Short(v, men, goods, wealth)
<1>1. v.expected \in [supply: Int, manpower: Int, resources: Int]
  BY DEF Counted
<1>2. /\ Counted(v) /\ MenOf(v) = MenOf(w) /\ GoodsOf(v) = GoodsOf(w)
      /\ Wealth(v.organizations) = Wealth(w.organizations)
  BY <1>1, AccountsSame
<1> QED
  BY <1>2 DEF Short

\* More or fewer are expected.
LEMMA AccountsExpected ==
  ASSUME NEW w, Sound(w), Counted(w), NEW v, SameAccounts(w, v), NEW n \in Int,
         v.expected = [w.expected EXCEPT !.manpower = @ + n],
         NEW men \in Int, NEW goods \in Int, NEW wealth \in Int, Short(w, men, goods, wealth)
  PROVE  Counted(v) /\ Short(v, men + n, goods, wealth)
<1>1. w.expected \in [supply: Int, manpower: Int, resources: Int]
  BY DEF Counted
<1>2. w.expected.manpower + n \in Int
  BY <1>1
<1>3. /\ v.expected \in [supply: Int, manpower: Int, resources: Int]
      /\ v.expected.manpower = w.expected.manpower + n
      /\ v.expected.supply = w.expected.supply /\ v.expected.resources = w.expected.resources
  BY <1>1, <1>2
<1>4. /\ Counted(v) /\ MenOf(v) = MenOf(w) /\ GoodsOf(v) = GoodsOf(w)
      /\ Wealth(v.organizations) = Wealth(w.organizations)
  BY <1>3, AccountsSame
<1>5. MenOf(w) \in Int
  BY AccountsAreNumbers DEF MenOf
<1> QED
  BY <1>3, <1>4, <1>5 DEF Short

\* The pools of some are handed in.
LEMMA PoolHandedIn ==
  ASSUME NEW stock \in [Keys -> Int], NEW own, own \subseteq Keys,
         NEW after, after = [k \in Keys |-> IF k \in own THEN 0 ELSE stock[k]]
  PROVE  /\ Pool(stock) = Pool(after) + SumFunctionOnSet(stock, own)
         /\ Pool(after) \in Int /\ SumFunctionOnSet(stock, own) \in Int
<1>1. Numbers(after, Keys)
  BY KeysFinite DEF Numbers
<1>2. Changes(after, stock, stock, Keys, own)
  <2>1. \A k \in own : stock[k] \in Int /\ stock[k] = after[k] + stock[k]
    OBVIOUS
  <2>2. \A k \in Keys : k \notin own => stock[k] = after[k]
    OBVIOUS
  <2> QED
    BY <2>1, <2>2 DEF Changes
<1> QED
  BY <1>1, <1>2, SumChanged DEF Pool

LEMMA DemobilizedPoolsAccounts ==
  ASSUME NEW w, Sound(w), Counted(w), NEW os, NEW v, v = DemobilizedPools(w, os),
         NEW men, NEW goods, NEW wealth, Short(w, men, goods, wealth)
  PROVE  Counted(v) /\ Short(v, men, goods, wealth)
<1> DEFINE own == {k \in Keys : k[1] \in os}
           p == SumFunctionOnSet(w.pools, own)
           q == SumFunctionOnSet(w.reserves, own)
<1>1. /\ v.organizations = w.organizations /\ v.formations = w.formations
      /\ v.sources = w.sources /\ v.expected = w.expected
      /\ v.pools = [k \in Keys |-> IF k \in own THEN 0 ELSE w.pools[k]]
      /\ v.reserves = [k \in Keys |-> IF k \in own THEN 0 ELSE w.reserves[k]]
      /\ v.demobilized = [personnel |-> w.demobilized.personnel + p, arms |-> w.demobilized.arms + q]
  BY DEF DemobilizedPools, Sound, LedgerFields
<1>2. own \subseteq Keys
  OBVIOUS
<1> HIDE DEF own
<1>3. /\ Pool(w.pools) = Pool(v.pools) + p /\ Pool(v.pools) \in Int /\ p \in Int
      /\ Pool(w.reserves) = Pool(v.reserves) + q /\ Pool(v.reserves) \in Int /\ q \in Int
  BY <1>1, <1>2, PoolHandedIn DEF Sound
<1> HIDE DEF p, q
<1>4. /\ Men(w.formations) \in Int /\ Goods(w.formations) \in Int /\ Goods(w.sources) \in Int
      /\ w.demobilized.personnel \in Int /\ w.demobilized.arms \in Int
  BY AccountsAreNumbers
<1>5. MenOf(v) = MenOf(w)
  BY <1>1, <1>3, <1>4 DEF MenOf
<1>6. GoodsOf(v) = GoodsOf(w)
  BY <1>1, <1>3, <1>4 DEF GoodsOf
<1>7. Counted(v)
  BY <1>1, <1>3, <1>4 DEF Counted
<1> QED
  BY <1>1, <1>5, <1>6, <1>7 DEF Short

\* Formations hand in fighters and arms.
Handed(w, amount, arms) ==
  /\ DOMAIN amount \subseteq DOMAIN w.formations /\ DOMAIN arms = DOMAIN amount
  /\ \A f \in DOMAIN amount : /\ amount[f] \in Int /\ arms[f] \in Nat
                              /\ arms[f] <= w.formations[f].stock

LEMMA DemobilizedAccounts ==
  ASSUME NEW w, Sound(w), Counted(w), NEW amount, NEW arms, Handed(w, amount, arms),
         NEW v, v = Demobilized(w, amount, arms),
         NEW men, NEW goods, NEW wealth, Short(w, men, goods, wealth)
  PROVE  Counted(v) /\ Short(v, men, goods, wealth)
<1> DEFINE own == DOMAIN amount
           p == SumFunctionOnSet(amount, own)
           q == SumFunctionOnSet(arms, own)
           forms == w.formations
           after == v.formations
<1>1. /\ v.organizations = w.organizations /\ v.pools = w.pools /\ v.reserves = w.reserves
      /\ v.sources = w.sources /\ v.expected = w.expected
      /\ v.formations = [f \in DOMAIN forms |-> IF f \in own THEN HandingIn(forms[f], amount[f], arms[f])
                                                ELSE forms[f]]
      /\ v.demobilized = [personnel |-> w.demobilized.personnel + p, arms |-> w.demobilized.arms + q]
  BY DEF Demobilized, Sound, LedgerFields, Handed, SumFunction
<1>2. own \subseteq DOMAIN forms /\ DOMAIN after = DOMAIN forms
  BY <1>1 DEF Handed
<1>3. ASSUME NEW f \in DOMAIN forms
      PROVE  /\ after[f].personnel = IF f \in own THEN forms[f].personnel - amount[f] ELSE forms[f].personnel
             /\ after[f].stock = IF f \in own THEN forms[f].stock - arms[f] ELSE forms[f].stock
             /\ after[f].stock \in Nat /\ after[f].capacity \in Int /\ after[f].stock <= after[f].capacity
             /\ forms[f].personnel \in Int /\ forms[f].stock \in Int
  <2>1. /\ DOMAIN forms[f] = FormationFields /\ forms[f].personnel \in Int
        /\ forms[f].stock \in Nat /\ forms[f].capacity \in Int /\ forms[f].stock <= forms[f].capacity
    BY DEF Sound, Formations, Counted, Carrying
  <2>2. CASE f \in own
    <3>1. after[f] = HandingIn(forms[f], amount[f], arms[f])
      BY <1>1, <2>2
    <3> HIDE DEF after, forms
    <3>2. /\ after[f].personnel = forms[f].personnel - amount[f]
          /\ after[f].stock = forms[f].stock - arms[f] /\ after[f].capacity = forms[f].capacity
      BY <2>1, <3>1 DEF HandingIn, FormationFields
    <3>3. amount[f] \in Int /\ arms[f] \in Nat /\ arms[f] <= forms[f].stock
      BY <2>2 DEF Handed, forms
    <3> QED
      BY <2>1, <2>2, <3>2, <3>3
  <2>3. CASE f \notin own
    BY <1>1, <2>1, <2>3
  <2> QED
    BY <2>2, <2>3
<1>4. /\ \A f \in own : amount[f] \in Int /\ arms[f] \in Int
  BY DEF Handed
<1>5. IsFiniteSet(DOMAIN forms)
  BY ListFinite DEF Sound, Formations
<1> HIDE DEF own, forms, after
<1>6. Carrying(after)
  BY <1>2, <1>3 DEF Carrying
<1>7. Men(forms) = Men(after) + p /\ Men(after) \in Int /\ p \in Int
  <2>1. \A f \in DOMAIN forms : /\ Soldiers(forms)[f] = forms[f].personnel
                                /\ Soldiers(after)[f] = after[f].personnel
    BY <1>2 DEF Soldiers
  <2>2. Changes(Soldiers(after), Soldiers(forms), amount, DOMAIN forms, own)
    <3>1. \A f \in own : amount[f] \in Int /\ Soldiers(forms)[f] = Soldiers(after)[f] + amount[f]
      BY <1>2, <1>3, <1>4, <2>1
    <3>2. \A f \in DOMAIN forms : f \notin own => Soldiers(forms)[f] = Soldiers(after)[f]
      BY <1>3, <2>1
    <3> QED
      BY <1>2, <3>1, <3>2 DEF Changes
  <2>3. Numbers(Soldiers(after), DOMAIN forms)
    BY <1>2, <1>3, <1>4, <1>5, <2>1 DEF Numbers
  <2> QED
    BY <1>2, <2>2, <2>3, SumChanged DEF Men
<1>8. Goods(forms) = Goods(after) + q /\ Goods(after) \in Int /\ q \in Int
  <2>1. \A f \in DOMAIN forms : /\ Stock(forms)[f] = forms[f].stock
                                /\ Stock(after)[f] = after[f].stock
    BY <1>2 DEF Stock
  <2>2. Changes(Stock(after), Stock(forms), arms, DOMAIN forms, own)
    <3>1. \A f \in own : arms[f] \in Int /\ Stock(forms)[f] = Stock(after)[f] + arms[f]
      BY <1>2, <1>3, <1>4, <2>1
    <3>2. \A f \in DOMAIN forms : f \notin own => Stock(forms)[f] = Stock(after)[f]
      BY <1>3, <2>1
    <3> QED
      BY <1>2, <3>1, <3>2 DEF Changes
  <2>3. Numbers(Stock(after), DOMAIN forms)
    BY <1>2, <1>3, <1>4, <1>5, <2>1 DEF Numbers
  <2> QED
    BY <1>2, <2>2, <2>3, SumChanged DEF Goods
<1> HIDE DEF p, q
<1>9. /\ Pool(w.pools) \in Int /\ Pool(w.reserves) \in Int /\ Goods(w.sources) \in Int
      /\ w.demobilized.personnel \in Int /\ w.demobilized.arms \in Int
  BY AccountsAreNumbers
<1>10. MenOf(v) = MenOf(w)
  BY <1>1, <1>7, <1>9 DEF MenOf, forms, after
<1>11. GoodsOf(v) = GoodsOf(w)
  BY <1>1, <1>8, <1>9 DEF GoodsOf, forms, after
<1>12. Counted(v)
  BY <1>1, <1>6, <1>7, <1>8, <1>9 DEF Counted, after
<1> QED
  BY <1>1, <1>10, <1>11, <1>12 DEF Short

LEMMA SumOneMore ==
  ASSUME NEW f, NEW S, Numbers(f, S), NEW x, x \notin S, f[x] \in Int
  PROVE  /\ SumFunctionOnSet(f, S \cup {x}) = SumFunctionOnSet(f, S) + f[x]
         /\ SumFunctionOnSet(f, S) \in Int /\ Numbers(f, S \cup {x})
<1>1. Numbers(f, S \cup {x})
  BY FS_AddElement DEF Numbers
<1>2. SumFunctionOnSet(f, S \cup {x}) = f[x] + SumFunctionOnSet(f, (S \cup {x}) \ {x})
  BY <1>1, SumAny
<1>3. (S \cup {x}) \ {x} = S
  OBVIOUS
<1>4. SumFunctionOnSet(f, S) \in Int
  BY SubsetSum
<1> DEFINE u == SumFunctionOnSet(f, S \cup {x})  r == SumFunctionOnSet(f, S)  v == f[x]
<1>5. u = v + r /\ r \in Int /\ v \in Int
  BY <1>2, <1>3, <1>4
<1> HIDE DEF u, r, v
<1>6. u = r + v
  BY <1>5
<1> QED
  BY <1>1, <1>4, <1>6 DEF u, r, v

\* The places of an organization.
Row(o) == {o} \X Localities

LEMMA RowSum ==
  ASSUME NEW o, NEW g, NEW q, Numbers(q, Localities), \A l \in Localities : g[<<o, l>>] = q[l]
  PROVE  /\ SumFunctionOnSet(g, Row(o)) = SumFunctionOnSet(q, Localities)
         /\ SumFunctionOnSet(q, Localities) \in Int /\ Numbers(g, Row(o))
<1> DEFINE name == [l \in Localities |-> <<o, l>>]
<1>1. Renames(q, g, name, Localities, Row(o))
  BY DEF Renames, Row
<1> HIDE DEF name
<1> QED
  BY <1>1, SumRenamed

\* The sum over the places of three organizations.
ThreeOf(f, x, y, z) == [l \in Localities |-> f[<<x, l>>] + f[<<y, l>>] + f[<<z, l>>]]
Others(x, y, z) == {k \in Keys : k[1] \notin {x, y, z}}

LEMMA ThreeRows ==
  ASSUME NEW f \in [Keys -> Int], NEW x \in 1 .. MaxOrganizations, NEW y \in 1 .. MaxOrganizations,
         NEW z \in 1 .. MaxOrganizations, x # y, x # z, y # z
  PROVE  /\ Pool(f) = SumFunctionOnSet(f, Others(x, y, z)) + SumFunctionOnSet(ThreeOf(f, x, y, z), Localities)
         /\ Numbers(f, Others(x, y, z))
<1> DEFINE fx == [l \in Localities |-> f[<<x, l>>]]
           fy == [l \in Localities |-> f[<<y, l>>]]
           fz == [l \in Localities |-> f[<<z, l>>]]
           fxy == [l \in Localities |-> f[<<x, l>>] + f[<<y, l>>]]
           all == ThreeOf(f, x, y, z)
           rest == Others(x, y, z)
<1>1. \A l \in Localities : f[<<x, l>>] \in Int /\ f[<<y, l>>] \in Int /\ f[<<z, l>>] \in Int
  BY DEF Keys
<1>2. IsFiniteSet(Localities)
  BY ConflictAssumption
<1>3. Numbers(fx, Localities) /\ Numbers(fy, Localities) /\ Numbers(fz, Localities)
  BY <1>1, <1>2 DEF Numbers
<1>4. Changes(fx, fxy, fy, Localities, Localities) /\ Changes(fxy, all, fz, Localities, Localities)
  BY <1>1 DEF Changes, ThreeOf
<1>5. /\ \A l \in Localities : f[<<x, l>>] = fx[l]
      /\ \A l \in Localities : f[<<y, l>>] = fy[l]
      /\ \A l \in Localities : f[<<z, l>>] = fz[l]
  OBVIOUS
<1>6. rest \subseteq Keys /\ rest \cap Row(x) = {} /\ (rest \cup Row(x)) \cap Row(y) = {}
      /\ ((rest \cup Row(x)) \cup Row(y)) \cap Row(z) = {}
      /\ Keys = ((rest \cup Row(x)) \cup Row(y)) \cup Row(z)
  BY DEF Others, Row, Keys
<1> HIDE DEF fx, fy, fz, fxy, all, rest
<1>7. /\ SumFunctionOnSet(f, Row(x)) = SumFunctionOnSet(fx, Localities)
      /\ SumFunctionOnSet(fx, Localities) \in Int /\ Numbers(f, Row(x))
  BY <1>3, <1>5, RowSum
<1>8. /\ SumFunctionOnSet(f, Row(y)) = SumFunctionOnSet(fy, Localities)
      /\ SumFunctionOnSet(fy, Localities) \in Int /\ Numbers(f, Row(y))
  BY <1>3, <1>5, RowSum
<1>9. /\ SumFunctionOnSet(f, Row(z)) = SumFunctionOnSet(fz, Localities)
      /\ SumFunctionOnSet(fz, Localities) \in Int /\ Numbers(f, Row(z))
  BY <1>3, <1>5, RowSum
<1>10. /\ SumFunctionOnSet(fxy, Localities)
            = SumFunctionOnSet(fx, Localities) + SumFunctionOnSet(fy, Localities)
       /\ Numbers(fxy, Localities)
  BY <1>3, <1>4, SumChanged
<1>11. SumFunctionOnSet(all, Localities)
            = SumFunctionOnSet(fxy, Localities) + SumFunctionOnSet(fz, Localities)
  BY <1>4, <1>10, SumChanged
<1>12. Numbers(f, rest)
  <2>1. Numbers(f, Keys)
    BY KeysFinite DEF Numbers
  <2> QED
    BY <1>6, <2>1, SubsetSum
<1>13. /\ SumFunctionOnSet(f, rest \cup Row(x)) = SumFunctionOnSet(f, rest) + SumFunctionOnSet(f, Row(x))
       /\ SumFunctionOnSet(f, rest) \in Int /\ Numbers(f, rest \cup Row(x))
  BY <1>6, <1>7, <1>12, SumOfUnion
<1>14. /\ SumFunctionOnSet(f, (rest \cup Row(x)) \cup Row(y))
            = SumFunctionOnSet(f, rest \cup Row(x)) + SumFunctionOnSet(f, Row(y))
       /\ Numbers(f, (rest \cup Row(x)) \cup Row(y))
  BY <1>6, <1>8, <1>13, SumOfUnion
<1>15. SumFunctionOnSet(f, ((rest \cup Row(x)) \cup Row(y)) \cup Row(z))
            = SumFunctionOnSet(f, (rest \cup Row(x)) \cup Row(y)) + SumFunctionOnSet(f, Row(z))
  BY <1>6, <1>9, <1>14, SumOfUnion
<1>16. Pool(f) = SumFunctionOnSet(f, ((rest \cup Row(x)) \cup Row(y)) \cup Row(z))
  BY <1>6 DEF Pool
<1> DEFINE a == SumFunctionOnSet(f, rest)  b == SumFunctionOnSet(fx, Localities)
           c == SumFunctionOnSet(fy, Localities)  d == SumFunctionOnSet(fz, Localities)
           e == SumFunctionOnSet(all, Localities)
<1>17. Pool(f) = ((a + b) + c) + d /\ e = (b + c) + d
  BY <1>7, <1>8, <1>9, <1>10, <1>11, <1>13, <1>14, <1>15, <1>16
<1>18. a \in Int /\ b \in Int /\ c \in Int /\ d \in Int
  BY <1>7, <1>8, <1>9, <1>13
<1> HIDE DEF a, b, c, d, e
<1>19. Pool(f) = a + e
  BY <1>17, <1>18
<1> QED
  BY <1>12, <1>19 DEF a, e, all, rest

\* What three organizations have between them in each place stays the same.
LEMMA PoolMoves ==
  ASSUME NEW f \in [Keys -> Int], NEW g \in [Keys -> Int],
         NEW x \in 1 .. MaxOrganizations, NEW y \in 1 .. MaxOrganizations,
         NEW z \in 1 .. MaxOrganizations, x # y, x # z, y # z,
         Agree(f, g, Others(x, y, z)), ThreeOf(f, x, y, z) = ThreeOf(g, x, y, z)
  PROVE  Pool(g) = Pool(f)
<1>1. /\ Pool(f) = SumFunctionOnSet(f, Others(x, y, z)) + SumFunctionOnSet(ThreeOf(f, x, y, z), Localities)
      /\ Numbers(f, Others(x, y, z))
  BY ThreeRows
<1>2. Pool(g) = SumFunctionOnSet(g, Others(x, y, z)) + SumFunctionOnSet(ThreeOf(g, x, y, z), Localities)
  BY ThreeRows
<1>3. SumFunctionOnSet(g, Others(x, y, z)) = SumFunctionOnSet(f, Others(x, y, z))
  BY <1>1, SumSame
<1> QED
  BY <1>1, <1>2, <1>3

\* One parent, two children.
PoolParted(f, g, o, m, n, part) ==
  /\ f \in [Keys -> Int] /\ g \in [Keys -> Int]
  /\ o \in 1 .. MaxOrganizations /\ m \in 1 .. MaxOrganizations /\ n \in 1 .. MaxOrganizations
  /\ o # m /\ o # n /\ m # n
  /\ DOMAIN part = {m, n} \X Localities
  /\ \A l \in Localities : part[<<n, l>>] = f[<<o, l>>] - part[<<m, l>>]
  /\ \A l \in Localities : f[<<m, l>>] = 0 /\ f[<<n, l>>] = 0
  /\ g = Bequeathed(f, {o}, part)

LEMMA PartedPool ==
  ASSUME NEW f, NEW g, NEW o, NEW m, NEW n, NEW part, PoolParted(f, g, o, m, n, part)
  PROVE  Pool(g) = Pool(f)
<1> USE DEF PoolParted
<1>1. \A k \in Keys : g[k] = IF k[1] \in {o} THEN 0 ELSE IF k \in DOMAIN part THEN part[k] ELSE f[k]
  BY DEF Bequeathed
<1>2. Agree(f, g, Others(o, m, n))
  BY <1>1 DEF Agree, Others
<1>3. ASSUME NEW l \in Localities
      PROVE  f[<<o, l>>] + f[<<m, l>>] + f[<<n, l>>] = g[<<o, l>>] + g[<<m, l>>] + g[<<n, l>>]
  <2>1. <<o, l>> \in Keys /\ <<m, l>> \in Keys /\ <<n, l>> \in Keys
    BY DEF Keys
  <2>2. <<m, l>> \in DOMAIN part /\ <<n, l>> \in DOMAIN part
    OBVIOUS
  <2>3. g[<<o, l>>] = 0 /\ g[<<m, l>>] = part[<<m, l>>] /\ g[<<n, l>>] = part[<<n, l>>]
    BY <1>1, <2>1, <2>2
  <2>4. f[<<o, l>>] \in Int /\ g[<<m, l>>] \in Int
    BY <2>1
  <2>5. g[<<n, l>>] = f[<<o, l>>] - g[<<m, l>>] /\ f[<<m, l>>] = 0 /\ f[<<n, l>>] = 0
    BY <2>3
  <2> DEFINE a == f[<<o, l>>]  b == g[<<m, l>>]  c == g[<<n, l>>]
  <2>6. a \in Int /\ b \in Int /\ c = a - b /\ f[<<m, l>>] = 0 /\ f[<<n, l>>] = 0 /\ g[<<o, l>>] = 0
    BY <2>3, <2>4, <2>5
  <2> HIDE DEF a, b, c
  <2>7. a + 0 + 0 = 0 + b + c
    BY <2>6
  <2> QED
    BY <2>6, <2>7 DEF a, b, c
<1>4. ThreeOf(f, o, m, n) = ThreeOf(g, o, m, n)
  BY <1>3 DEF ThreeOf
<1> QED
  BY <1>2, <1>4, PoolMoves

\* Two parents, one child.
PoolJoined(f, g, x, y, n, part) ==
  /\ f \in [Keys -> Int] /\ g \in [Keys -> Int]
  /\ x \in 1 .. MaxOrganizations /\ y \in 1 .. MaxOrganizations /\ n \in 1 .. MaxOrganizations
  /\ x # y /\ x # n /\ y # n
  /\ DOMAIN part = {n} \X Localities
  /\ \A l \in Localities : part[<<n, l>>] = f[<<x, l>>] + f[<<y, l>>]
  /\ \A l \in Localities : f[<<n, l>>] = 0
  /\ g = Bequeathed(f, {x, y}, part)

LEMMA JoinedPool ==
  ASSUME NEW f, NEW g, NEW x, NEW y, NEW n, NEW part, PoolJoined(f, g, x, y, n, part)
  PROVE  Pool(g) = Pool(f)
<1> USE DEF PoolJoined
<1>1. \A k \in Keys : g[k] = IF k[1] \in {x, y} THEN 0 ELSE IF k \in DOMAIN part THEN part[k] ELSE f[k]
  BY DEF Bequeathed
<1>2. Agree(f, g, Others(x, y, n))
  BY <1>1 DEF Agree, Others
<1>3. ASSUME NEW l \in Localities
      PROVE  f[<<x, l>>] + f[<<y, l>>] + f[<<n, l>>] = g[<<x, l>>] + g[<<y, l>>] + g[<<n, l>>]
  <2>1. <<x, l>> \in Keys /\ <<y, l>> \in Keys /\ <<n, l>> \in Keys
    BY DEF Keys
  <2>2. <<n, l>> \in DOMAIN part
    OBVIOUS
  <2>3. g[<<x, l>>] = 0 /\ g[<<y, l>>] = 0 /\ g[<<n, l>>] = part[<<n, l>>]
    BY <1>1, <2>1, <2>2
  <2>4. f[<<x, l>>] \in Int /\ f[<<y, l>>] \in Int
    BY <2>1
  <2>5. g[<<n, l>>] = f[<<x, l>>] + f[<<y, l>>] /\ f[<<n, l>>] = 0
    BY <2>3
  <2> QED
    BY <2>3, <2>4, <2>5
<1>4. ThreeOf(f, x, y, n) = ThreeOf(g, x, y, n)
  BY <1>3 DEF ThreeOf
<1> QED
  BY <1>2, <1>4, PoolMoves

\* What one organization has goes to two new ones, or what two have to a new one.
WealthParted(a, b, o, m, n) ==
  /\ o \in DOMAIN a /\ m \notin DOMAIN a /\ n \notin DOMAIN a /\ m # n
  /\ DOMAIN b = (DOMAIN a \cup {m}) \cup {n}
  /\ \A x \in DOMAIN a : x # o => b[x] = a[x]
  /\ b[o].resources = 0 /\ b[o].branches = a[o].branches /\ b[o].party = a[o].party
  /\ \A x \in {m, n} : b[x].branches = 0 /\ b[x].resources \in Int
  /\ b[n].resources = a[o].resources - b[m].resources
WealthJoined(a, b, x, y, n) ==
  /\ x \in DOMAIN a /\ y \in DOMAIN a /\ x # y /\ n \notin DOMAIN a
  /\ DOMAIN b = DOMAIN a \cup {n}
  /\ \A o \in DOMAIN a : o \notin {x, y} => b[o] = a[o]
  /\ \A o \in {x, y} : /\ b[o].resources = 0 /\ b[o].branches = a[o].branches
                       /\ b[o].party = a[o].party
  /\ b[n].branches = 0 /\ b[n].resources = a[x].resources + a[y].resources

LEMMA PartedWealth ==
  ASSUME NEW a, Organizations(a), Branching(a), NEW b, NEW o, NEW m, NEW n, WealthParted(a, b, o, m, n)
  PROVE  Wealth(b) = Wealth(a) /\ Branching(b)
<1> DEFINE f == Holdings(a)  g == Holdings(b)  D == DOMAIN a
           s == a[o].resources  u == b[m].resources
<1>1. Numbers(f, D)
  BY ListFinite DEF Numbers, Holdings, Organizations, Branching
<1>2. /\ o \in D /\ m \notin D /\ n \notin D \cup {m} /\ DOMAIN b = (D \cup {m}) \cup {n}
  BY DEF WealthParted
<1>3. a[o].branches \in Int /\ s \in Int /\ u \in Int /\ - s \in Int
  BY DEF WealthParted, Branching, Organizations
<1>4. g[o] = f[o] + (- s) /\ g[m] = u /\ g[n] = s - u
  <2>1. f[o] = s + a[o].branches /\ g[o] = 0 + a[o].branches
    BY <1>2 DEF Holdings, WealthParted
  <2>2. g[m] = u + 0 /\ g[n] = (s - u) + 0
    BY <1>2 DEF Holdings, WealthParted
  <2> HIDE DEF f, g, s, u
  <2> QED
    BY <1>3, <2>1, <2>2
<1>5. \A x \in D : x # o => g[x] = f[x]
  BY <1>2 DEF Holdings, WealthParted
<1>6. Branching(b)
  BY DEF Branching, WealthParted
<1> HIDE DEF f, g, D, s, u
<1>7. ChangesAt(f, g, D, o, - s)
  BY <1>4, <1>5 DEF ChangesAt
<1>8. /\ SumFunctionOnSet(g, D) = SumFunctionOnSet(f, D) + (- s)
      /\ SumFunctionOnSet(f, D) \in Int /\ Numbers(g, D)
  <2> DEFINE d == - s
  <2>1. ChangesAt(f, g, D, o, d) /\ d \in Int
    BY <1>3, <1>7
  <2> HIDE DEF d
  <2>2. /\ SumFunctionOnSet(g, D) = SumFunctionOnSet(f, D) + d
        /\ SumFunctionOnSet(f, D) \in Int /\ Numbers(g, D)
    BY <1>1, <1>2, <2>1, SumChangedAt
  <2> QED
    BY <2>2 DEF d
<1>9. /\ SumFunctionOnSet(g, D \cup {m}) = SumFunctionOnSet(g, D) + g[m]
      /\ Numbers(g, D \cup {m})
  BY <1>2, <1>3, <1>4, <1>8, SumOneMore
<1>10. g[n] \in Int
  BY <1>3, <1>4
<1>11. SumFunctionOnSet(g, (D \cup {m}) \cup {n}) = SumFunctionOnSet(g, D \cup {m}) + g[n]
  BY <1>2, <1>9, <1>10, SumOneMore
<1> DEFINE v == SumFunctionOnSet(g, (D \cup {m}) \cup {n})  w == SumFunctionOnSet(f, D)
<1>12. v = ((w + (- s)) + u) + (s - u) /\ w \in Int
  BY <1>4, <1>8, <1>9, <1>11
<1> HIDE DEF v, w
<1>13. v = w
  BY <1>3, <1>12
<1> QED
  BY <1>2, <1>6, <1>13 DEF v, w, f, g, D, Wealth

LEMMA JoinedWealth ==
  ASSUME NEW a, Organizations(a), Branching(a), NEW b, NEW x, NEW y, NEW n, WealthJoined(a, b, x, y, n)
  PROVE  Wealth(b) = Wealth(a) /\ Branching(b)
<1> DEFINE f == Holdings(a)  g == Holdings(b)  D == DOMAIN a
           s == a[x].resources  u == a[y].resources
           h == [o \in D |-> IF o = x THEN g[x] ELSE f[o]]
<1>1. Numbers(f, D)
  BY ListFinite DEF Numbers, Holdings, Organizations, Branching
<1>2. /\ x \in D /\ y \in D /\ x # y /\ n \notin D /\ DOMAIN b = D \cup {n}
  BY DEF WealthJoined
<1>3. a[x].branches \in Int /\ a[y].branches \in Int /\ s \in Int /\ u \in Int
  BY DEF WealthJoined, Branching, Organizations
<1>4. g[x] = f[x] + (- s) /\ g[y] = f[y] + (- u) /\ g[n] = s + u
  <2>1. f[x] = s + a[x].branches /\ g[x] = 0 + a[x].branches
    BY <1>2 DEF Holdings, WealthJoined
  <2>2. f[y] = u + a[y].branches /\ g[y] = 0 + a[y].branches
    BY <1>2 DEF Holdings, WealthJoined
  <2>3. g[n] = (s + u) + 0
    BY <1>2 DEF Holdings, WealthJoined
  <2> HIDE DEF f, g, s, u
  <2> QED
    BY <1>3, <2>1, <2>2, <2>3
<1>5. \A o \in D : o # x /\ o # y => g[o] = f[o]
  BY <1>2 DEF Holdings, WealthJoined
<1>6. Branching(b)
  BY DEF Branching, WealthJoined
<1>7. \A o \in D : h[o] = IF o = x THEN g[x] ELSE f[o]
  OBVIOUS
<1> HIDE DEF f, g, h, D, s, u
<1>8. PICK d : d = - s /\ d \in Int
  BY <1>3
<1>9. PICK e : e = - u /\ e \in Int
  BY <1>3
<1>10. ChangesAt(f, h, D, x, d)
  BY <1>2, <1>4, <1>7, <1>8 DEF ChangesAt
<1>11. ChangesAt(h, g, D, y, e)
  BY <1>2, <1>4, <1>5, <1>7, <1>9 DEF ChangesAt
<1>12. /\ SumFunctionOnSet(h, D) = SumFunctionOnSet(f, D) + d
       /\ SumFunctionOnSet(f, D) \in Int /\ Numbers(h, D)
  BY <1>1, <1>2, <1>8, <1>10, SumChangedAt
<1>13. SumFunctionOnSet(g, D) = SumFunctionOnSet(h, D) + e /\ Numbers(g, D)
  BY <1>2, <1>9, <1>11, <1>12, SumChangedAt
<1>14. g[n] \in Int
  BY <1>3, <1>4
<1>15. SumFunctionOnSet(g, D \cup {n}) = SumFunctionOnSet(g, D) + g[n]
  BY <1>2, <1>13, <1>14, SumOneMore
<1> DEFINE v == SumFunctionOnSet(g, D \cup {n})  w == SumFunctionOnSet(f, D)
<1>16. v = ((w + (- s)) + (- u)) + (s + u) /\ w \in Int
  BY <1>4, <1>8, <1>9, <1>12, <1>13, <1>15
<1> HIDE DEF v, w
<1>17. v = w
  BY <1>3, <1>16
<1> QED
  BY <1>2, <1>6, <1>17 DEF v, w, f, g, D, Wealth

\* What is inherited stays what it is.
LEMMA InheritedForces ==
  ASSUME NEW forms, Formations(forms), NEW parents, NEW heir, NEW v, v = Inherited(forms, parents, heir)
  PROVE  SameForces(forms, v)
<1>1. v = [i \in DOMAIN forms |-> IF forms[i].organization \in parents
             THEN [forms[i] EXCEPT !.organization = heir[forms[i].locality]] ELSE forms[i]]
  BY DEF Inherited
<1>2. \A f \in DOMAIN forms : DOMAIN forms[f] = FormationFields
  BY DEF Formations
<1> QED
  BY <1>1, <1>2 DEF SameForces, FormationFields

LEMMA InheritedStocks ==
  ASSUME NEW list, Sources(list), NEW parents, NEW heir, NEW v, v = Inherited(list, parents, heir)
  PROVE  SameStocks(list, v)
<1>1. v = [i \in DOMAIN list |-> IF list[i].organization \in parents
             THEN [list[i] EXCEPT !.organization = heir[list[i].locality]] ELSE list[i]]
  BY DEF Inherited
<1>2. \A s \in DOMAIN list : DOMAIN list[s] = SourceFields
  BY DEF Sources
<1> QED
  BY <1>1, <1>2 DEF SameStocks, SourceFields

\* From the parts of a ledger to the whole.
Bequeaths(w, v) ==
  /\ Wealth(v.organizations) = Wealth(w.organizations) /\ Branching(v.organizations)
  /\ SameForces(w.formations, v.formations) /\ SameStocks(w.sources, v.sources)
  /\ Pool(v.pools) = Pool(w.pools) /\ Pool(v.reserves) = Pool(w.reserves)
  /\ v.demobilized = w.demobilized /\ v.expected = w.expected

LEMMA BequeathedAccounts ==
  ASSUME NEW w, Sound(w), Counted(w), NEW v, Bequeaths(w, v),
         NEW men, NEW goods, NEW wealth, Short(w, men, goods, wealth)
  PROVE  Counted(v) /\ Short(v, men, goods, wealth)
<1>1. /\ Men(v.formations) = Men(w.formations) /\ Goods(v.formations) = Goods(w.formations)
      /\ Carrying(v.formations)
  BY SameMen DEF Sound, Counted, Bequeaths
<1>2. Goods(v.sources) = Goods(w.sources) /\ Stocked(v.sources)
  BY SameGoods DEF Sound, Sources, Counted, Bequeaths, Stocked
<1> QED
  BY <1>1, <1>2 DEF Counted, Bequeaths, Stocked, Short, MenOf, GoodsOf

LEMMA MergedAccounts ==
  ASSUME NEW w, Sound(w), Clean(w), Counted(w), NEW x, NEW y, NEW n, MayMerge(w, x, y, n),
         NEW v, v = Merged(w, x, y),
         NEW men, NEW goods, NEW wealth, Short(w, men, goods, wealth)
  PROVE  Counted(v) /\ Short(v, men, goods, wealth)
<1> DEFINE heir == [l \in Localities |-> n]
           part(stock) == [k \in {n} \X Localities |-> stock[<<x, k[2]>>] + stock[<<y, k[2]>>]]
           child == [w.organizations[x] EXCEPT
                       !.members = @ \cup w.organizations[y].members,
                       !.resources = @ + w.organizations[y].resources, !.party = FALSE, !.branches = 0]
           old == [w.organizations EXCEPT ![x] = Ended(w.organizations[x], "merged"),
                                          ![y] = Ended(w.organizations[y], "merged")]
           orgs == Append(old, child)
<1>0. /\ n = Len(w.organizations) + 1 /\ n <= MaxOrganizations /\ x # y
      /\ x \in ActiveOf(w.organizations) /\ y \in ActiveOf(w.organizations)
  BY DEF MayMerge
<1>1. /\ v.organizations = orgs /\ v.formations = Inherited(w.formations, {x, y}, heir)
      /\ v.sources = Inherited(w.sources, {x, y}, heir)
      /\ v.pools = Bequeathed(w.pools, {x, y}, part(w.pools))
      /\ v.reserves = Bequeathed(w.reserves, {x, y}, part(w.reserves))
      /\ v.demobilized = w.demobilized /\ v.expected = w.expected
  BY <1>0 DEF Merged, Sound, LedgerFields
<1>2. \A o \in {x, y} :
        /\ o \in DOMAIN w.organizations /\ o \in 1 .. MaxOrganizations
        /\ DOMAIN w.organizations[o] = OrganizationFields /\ w.organizations[o].resources \in Int
  BY <1>0 DEF ActiveOf, Sound, Organizations
<1>3. /\ Sound(v) /\ n \in 1 .. MaxOrganizations
      /\ DOMAIN v.organizations = DOMAIN w.organizations \cup {n} /\ n \notin DOMAIN w.organizations
      /\ \A o \in DOMAIN w.organizations : o \notin {x, y} => v.organizations[o] = w.organizations[o]
  BY MergedLedger
<1>4. SameForces(w.formations, v.formations) /\ SameStocks(w.sources, v.sources)
  <2>1. Formations(w.formations) /\ Sources(w.sources)
    BY DEF Sound
  <2>2. /\ v.formations = Inherited(w.formations, {x, y}, heir)
        /\ v.sources = Inherited(w.sources, {x, y}, heir)
    BY <1>1
  <2> HIDE DEF heir
  <2> QED
    BY <2>1, <2>2, InheritedForces, InheritedStocks
<1>5. x # n /\ y # n
  BY <1>2, <1>3
<1>6. \A l \in Localities : w.pools[<<n, l>>] = 0 /\ w.reserves[<<n, l>>] = 0
  <2>1. n \notin ActiveOf(w.organizations)
    BY <1>3 DEF ActiveOf
  <2>2. \A l \in Localities : <<n, l>> \in Keys /\ <<n, l>>[1] = n
    BY <1>3 DEF Keys
  <2> QED
    BY <2>1, <2>2 DEF Clean
<1>7. ASSUME NEW f \in [Keys -> Int], NEW g \in [Keys -> Int], g = Bequeathed(f, {x, y}, part(f)),
             \A l \in Localities : f[<<n, l>>] = 0
      PROVE  Pool(g) = Pool(f)
  <2>1. DOMAIN part(f) = {n} \X Localities
    OBVIOUS
  <2>2. \A l \in Localities : part(f)[<<n, l>>] = f[<<x, l>>] + f[<<y, l>>]
    OBVIOUS
  <2> DEFINE p == part(f)
  <2>3. /\ DOMAIN p = {n} \X Localities /\ g = Bequeathed(f, {x, y}, p)
        /\ \A l \in Localities : p[<<n, l>>] = f[<<x, l>>] + f[<<y, l>>]
    BY <1>7, <2>1, <2>2
  <2> HIDE DEF p, part
  <2>4. /\ x \in 1 .. MaxOrganizations /\ y \in 1 .. MaxOrganizations /\ n \in 1 .. MaxOrganizations
        /\ x # y /\ x # n /\ y # n
    BY <1>0, <1>2, <1>3, <1>5
  <2>5. PoolJoined(f, g, x, y, n, p)
    BY <1>7, <2>3, <2>4 DEF PoolJoined
  <2> QED
    BY <2>5, JoinedPool
<1> HIDE DEF part
<1>8. Pool(v.pools) = Pool(w.pools)
  <2>1. w.pools \in [Keys -> Int] /\ v.pools \in [Keys -> Int]
    BY <1>3 DEF Sound
  <2> QED
    BY <1>1, <1>6, <1>7, <2>1
<1>9. Pool(v.reserves) = Pool(w.reserves)
  <2>1. w.reserves \in [Keys -> Int] /\ v.reserves \in [Keys -> Int]
    BY <1>3 DEF Sound
  <2> QED
    BY <1>1, <1>6, <1>7, <2>1
<1>10. /\ \A o \in {x, y} : /\ old[o].resources = 0 /\ old[o].branches = w.organizations[o].branches
                            /\ old[o].party = w.organizations[o].party
       /\ child.branches = 0
       /\ child.resources = w.organizations[x].resources + w.organizations[y].resources
  BY <1>0, <1>2 DEF Ended, OrganizationFields
<1>11. IsList(old) /\ Len(old) = Len(w.organizations) /\ DOMAIN old = DOMAIN w.organizations
  <2>1. IsList(w.organizations) /\ old = [o \in DOMAIN w.organizations |-> old[o]]
    BY DEF Sound, Organizations
  <2> QED
    BY <2>1, ListMap
<1> HIDE DEF old, child
<1>12. orgs[n] = child /\ \A o \in {x, y} : orgs[o] = old[o]
  BY <1>0, <1>2, <1>11, ListAppend
<1>13. WealthJoined(w.organizations, v.organizations, x, y, n)
  BY <1>0, <1>1, <1>2, <1>3, <1>10, <1>12 DEF WealthJoined
<1>14. Wealth(v.organizations) = Wealth(w.organizations) /\ Branching(v.organizations)
  BY <1>13, JoinedWealth DEF Sound, Counted
<1>15. Bequeaths(w, v)
  BY <1>1, <1>4, <1>8, <1>9, <1>14 DEF Bequeaths
<1> QED
  BY <1>15, BequeathedAccounts

\* Whatever the shares, the children have what the parent had.
LEMMA DividedAccounts ==
  ASSUME Belong, NEW w, Sound(w), Clean(w), Counted(w), NEW o, NEW a, NEW b, MayPart(w, o, a, b),
         NEW m, NEW n, NextTwo(w.organizations, m, n), NEW v, v = Divided(w, o, a, b),
         NEW men, NEW goods, NEW wealth, Short(w, men, goods, wealth)
  PROVE  Counted(v) /\ Short(v, men, goods, wealth)
<1> DEFINE Share(quantity, l) ==
             LET local == LocalWeight(a, l) + LocalWeight(b, l) IN
             IF local = 0 THEN (quantity * Weight(a)) \div Weight(a \cup b)
             ELSE (quantity * LocalWeight(a, l)) \div local
           heir == [l \in Localities |-> IF LocalWeight(a, l) >= LocalWeight(b, l) THEN m ELSE n]
           Part(stock) == [k \in {m, n} \X Localities |->
             LET part == Share(stock[<<o, k[2]>>], k[2]) IN
             IF k[1] = m THEN part ELSE stock[<<o, k[2]>>] - part]
           parent == w.organizations[o]
           half == (parent.resources * Weight(a)) \div Weight(a \cup b)
           Child(faction, resources) ==
             [parent EXCEPT !.members = faction, !.resources = resources, !.party = FALSE, !.branches = 0]
           old == [w.organizations EXCEPT ![o] = Ended(parent, "fragmented")]
           first == Child(a, half)
           second == Child(b, parent.resources - half)
           orgs == old \o <<first, second>>
<1>0. /\ m = Len(w.organizations) + 1 /\ n = m + 1 /\ n <= MaxOrganizations
      /\ o \in ActiveOf(w.organizations) /\ a \subseteq Persons /\ b \subseteq Persons
      /\ Weight(a \cup b) > 0
  BY Zenon DEF NextTwo, MayPart
<1>1. /\ v.organizations = orgs
      /\ v.formations = Inherited(w.formations, {o}, heir) /\ v.sources = Inherited(w.sources, {o}, heir)
      /\ v.pools = Bequeathed(w.pools, {o}, Part(w.pools))
      /\ v.reserves = Bequeathed(w.reserves, {o}, Part(w.reserves))
      /\ v.demobilized = w.demobilized /\ v.expected = w.expected
  BY <1>0, Zenon DEF Divided, Sound, LedgerFields
<1>2. /\ o \in DOMAIN w.organizations /\ o \in 1 .. MaxOrganizations
      /\ DOMAIN parent = OrganizationFields /\ parent.resources \in Int
  BY <1>0 DEF ActiveOf, Sound, Organizations
<1>3. half \in Int
  <2>1. \A x \in Int : \A y \in Nat : y > 0 => x \div y \in Int
    OBVIOUS
  <2>2. Weight(a) \in Nat /\ Weight(a \cup b) \in Nat
    BY <1>0, WeightNat
  <2>3. parent.resources * Weight(a) \in Int
    BY <1>2, <2>2
  <2> QED
    BY <1>0, <2>1, <2>2, <2>3
<1> HIDE DEF Share, half, heir, Part, orgs
<1>4. /\ Sound(v) /\ m \in 1 .. MaxOrganizations /\ n \in 1 .. MaxOrganizations /\ m # n
      /\ DOMAIN v.organizations = DOMAIN w.organizations \cup {m, n}
      /\ m \notin DOMAIN w.organizations /\ n \notin DOMAIN w.organizations
      /\ \A x \in DOMAIN w.organizations : x # o => v.organizations[x] = w.organizations[x]
  <2>1. Division(w, o, a, b, m, n, v)
    BY DividedLedger
  <2> QED
    BY <2>1 DEF Division
<1> USE DEF Part, orgs
<1>5. SameForces(w.formations, v.formations) /\ SameStocks(w.sources, v.sources)
  <2>1. Formations(w.formations) /\ Sources(w.sources)
    BY DEF Sound
  <2> QED
    BY <1>1, <2>1, InheritedForces, InheritedStocks
<1>6. \A l \in Localities : /\ w.pools[<<m, l>>] = 0 /\ w.reserves[<<m, l>>] = 0
                            /\ w.pools[<<n, l>>] = 0 /\ w.reserves[<<n, l>>] = 0
  <2>1. m \notin ActiveOf(w.organizations) /\ n \notin ActiveOf(w.organizations)
    BY <1>4 DEF ActiveOf
  <2>2. \A l \in Localities : \A x \in {m, n} : <<x, l>> \in Keys /\ <<x, l>>[1] = x
    BY <1>4 DEF Keys
  <2> QED
    BY <2>1, <2>2, Zenon DEF Clean
<1>7. ASSUME NEW f \in [Keys -> Int], NEW g \in [Keys -> Int], g = Bequeathed(f, {o}, Part(f)),
             \A l \in Localities : f[<<m, l>>] = 0 /\ f[<<n, l>>] = 0
      PROVE  Pool(g) = Pool(f)
  <2> DEFINE p == Part(f)
  <2>1. DOMAIN p = {m, n} \X Localities
    OBVIOUS
  <2>2. ASSUME NEW l \in Localities PROVE p[<<n, l>>] = f[<<o, l>>] - p[<<m, l>>]
    <3>1. <<m, l>> \in {m, n} \X Localities /\ <<n, l>> \in {m, n} \X Localities
      OBVIOUS
    <3>2. p[<<m, l>>] = Share(f[<<o, l>>], l)
      BY <3>1
    <3>3. p[<<n, l>>] = f[<<o, l>>] - Share(f[<<o, l>>], l)
      BY <1>4, <3>1
    <3> HIDE DEF p
    <3> QED
      BY <3>2, <3>3
  <2>3. g = Bequeathed(f, {o}, p)
    BY <1>7
  <2> HIDE DEF p, Part
  <2>4. /\ o \in 1 .. MaxOrganizations /\ m \in 1 .. MaxOrganizations /\ n \in 1 .. MaxOrganizations
        /\ o # m /\ o # n /\ m # n
    BY <1>2, <1>4
  <2>5. PoolParted(f, g, o, m, n, p)
    BY <1>7, <2>1, <2>2, <2>3, <2>4 DEF PoolParted
  <2> QED
    BY <2>5, PartedPool
<1> HIDE DEF Part
<1>8. Pool(v.pools) = Pool(w.pools)
  <2>1. w.pools \in [Keys -> Int] /\ v.pools \in [Keys -> Int]
    BY <1>4 DEF Sound
  <2> QED
    BY <1>1, <1>6, <1>7, <2>1
<1>9. Pool(v.reserves) = Pool(w.reserves)
  <2>1. w.reserves \in [Keys -> Int] /\ v.reserves \in [Keys -> Int]
    BY <1>4 DEF Sound
  <2> QED
    BY <1>1, <1>6, <1>7, <2>1
<1>10. /\ old[o].resources = 0 /\ old[o].branches = parent.branches /\ old[o].party = parent.party
       /\ first.branches = 0 /\ first.resources = half
       /\ second.branches = 0 /\ second.resources = parent.resources - half
       /\ second.resources \in Int
  BY <1>2, <1>3 DEF Ended, OrganizationFields
<1>11. IsList(old) /\ Len(old) = Len(w.organizations) /\ DOMAIN old = DOMAIN w.organizations
       /\ Len(old) \in Nat
  <2>1. IsList(w.organizations) /\ old = [x \in DOMAIN w.organizations |-> old[x]]
    BY DEF Sound, Organizations
  <2> QED
    BY <2>1, ListMap, ListFacts
<1> HIDE DEF old, first, second, parent
<1>12. orgs[Len(old) + 1] = first /\ orgs[Len(old) + 2] = second
  BY <1>11, ListCatTwo
<1>13. orgs[o] = old[o]
  BY <1>2, <1>11, ListCatTwo
<1>14. m = Len(old) + 1 /\ n = Len(old) + 2
  BY <1>0, <1>11
<1> DEFINE r == v.organizations
<1>15. r[o] = old[o] /\ r[m] = first /\ r[n] = second
  BY <1>1, <1>12, <1>13, <1>14
<1> HIDE DEF orgs, r
<1>16. WealthParted(w.organizations, r, o, m, n)
  <2>1. DOMAIN r = (DOMAIN w.organizations \cup {m}) \cup {n}
    BY <1>4 DEF r
  <2>2. \A x \in DOMAIN w.organizations : x # o => r[x] = w.organizations[x]
    BY <1>4 DEF r
  <2>3. \A x \in {m, n} : r[x].branches = 0 /\ r[x].resources \in Int
    BY <1>3, <1>10, <1>15
  <2>4. r[n].resources = w.organizations[o].resources - r[m].resources
    BY <1>10, <1>15 DEF parent
  <2>5. r[o].resources = 0 /\ r[o].branches = w.organizations[o].branches /\ r[o].party = w.organizations[o].party
    BY <1>10, <1>15 DEF parent
  <2> QED
    BY <1>2, <1>4, <2>1, <2>2, <2>3, <2>4, <2>5 DEF WealthParted
<1>17. Wealth(v.organizations) = Wealth(w.organizations) /\ Branching(v.organizations)
  BY <1>16, PartedWealth DEF Sound, Counted, r
<1>18. Bequeaths(w, v)
  BY <1>1, <1>5, <1>8, <1>9, <1>17 DEF Bequeaths
<1> QED
  BY <1>18, BequeathedAccounts

LEMMA SynchronizedAccounts ==
  ASSUME NEW w, Sound(w), Counted(w), NEW who, NEW v, v = Synchronized(w, who),
         NEW men, NEW goods, NEW wealth, Short(w, men, goods, wealth)
  PROVE  Counted(v) /\ Short(v, men, goods, wealth)
<1> DEFINE orgs == [o \in DOMAIN w.organizations |->
               IF o \in ActiveOf(w.organizations)
               THEN [w.organizations[o] EXCEPT !.members = {p \in Persons : who[p].organization = o}]
               ELSE w.organizations[o]]
<1>1. /\ v.organizations = orgs /\ v.formations = w.formations /\ v.sources = w.sources
      /\ v.pools = w.pools /\ v.reserves = w.reserves /\ v.demobilized = w.demobilized
      /\ v.expected = w.expected
  BY DEF Synchronized, Sound, LedgerFields
<1>2. \A o \in DOMAIN w.organizations :
        /\ orgs[o].resources = w.organizations[o].resources
        /\ orgs[o].branches = w.organizations[o].branches /\ orgs[o].party = w.organizations[o].party
  BY DEF Sound, Organizations, OrganizationFields
<1>3. DOMAIN orgs = DOMAIN w.organizations
  OBVIOUS
<1> HIDE DEF orgs
<1>4. SameAccounts(w, v)
  BY <1>1, <1>2, <1>3 DEF SameAccounts, SameHoldings, SameForces, SameStocks
<1> QED
  BY <1>1, <1>4, AccountsStay

LEMMA RelistedAccounts ==
  ASSUME NEW w, Sound(w), Counted(w), NEW o \in DOMAIN w.organizations, NEW m, NEW v,
         v.organizations = Listing(w.organizations, o, m),
         v.formations = w.formations, v.sources = w.sources, v.pools = w.pools,
         v.reserves = w.reserves, v.demobilized = w.demobilized
  PROVE  SameAccounts(w, v)
<1>1. \A x \in DOMAIN w.organizations :
        /\ v.organizations[x].resources = w.organizations[x].resources
        /\ v.organizations[x].branches = w.organizations[x].branches
        /\ v.organizations[x].party = w.organizations[x].party
  BY DEF Listing, Sound, Organizations, OrganizationFields
<1>2. DOMAIN v.organizations = DOMAIN w.organizations
  BY DEF Listing
<1> QED
  BY <1>1, <1>2 DEF SameAccounts, SameHoldings, SameForces, SameStocks

LEMMA SettledAccounts ==
  ASSUME NEW w, Sound(w), Counted(w), NEW S, NEW from, NEW to, NEW v, v = Settled(w, S, from, to),
         NEW men, NEW goods, NEW wealth, Short(w, men, goods, wealth)
  PROVE  Counted(v) /\ Short(v, men, goods, wealth)
<1> DEFINE orgs == [o \in DOMAIN w.organizations |->
              IF o \in S /\ w.organizations[o].status \in from
              THEN [w.organizations[o] EXCEPT !.status = to] ELSE w.organizations[o]]
<1>1. /\ v.organizations = orgs /\ v.formations = w.formations /\ v.sources = w.sources
      /\ v.pools = w.pools /\ v.reserves = w.reserves /\ v.demobilized = w.demobilized
      /\ v.expected = w.expected
  BY DEF Settled, Sound, LedgerFields
<1>2. \A o \in DOMAIN w.organizations :
        /\ orgs[o].resources = w.organizations[o].resources
        /\ orgs[o].branches = w.organizations[o].branches /\ orgs[o].party = w.organizations[o].party
  BY DEF Sound, Organizations, OrganizationFields
<1>3. DOMAIN orgs = DOMAIN w.organizations
  OBVIOUS
<1> HIDE DEF orgs
<1>4. SameAccounts(w, v)
  BY <1>1, <1>2, <1>3 DEF SameAccounts, SameHoldings, SameForces, SameStocks
<1> QED
  BY <1>1, <1>4, AccountsStay

LEMMA CompletedAccounts ==
  ASSUME NEW w, Sound(w), Counted(w), NEW S, NEW v, v = Completed(w, S),
         NEW men, NEW goods, NEW wealth, Short(w, men, goods, wealth)
  PROVE  Counted(v) /\ Short(v, men, goods, wealth)
<1>1. PICK u : u = Settled(w, S, Statuses, "political")
  OBVIOUS
<1>2. Counted(u) /\ Short(u, men, goods, wealth)
  BY <1>1, SettledAccounts
<1>3. Sound(u)
  BY <1>1, SettledLedger
<1>4. v = DemobilizedPools(u, S)
  BY <1>1 DEF Completed
<1> QED
  BY <1>2, <1>3, <1>4, DemobilizedPoolsAccounts

\* A party has what its organization gives it.
LEMMA EnsurePartyAccounts ==
  ASSUME NEW g, DOMAIN g = OrganizationFields, g.resources \in Int, g.branches \in Int,
         g.branches = 0 \/ g.party = TRUE, NEW h, h = EnsureParty(g)
  PROVE  /\ h.resources + h.branches = g.resources + g.branches
         /\ h.branches \in Int /\ (h.branches = 0 \/ h.party = TRUE)
<1>1. CASE g.party
  BY <1>1 DEF EnsureParty
<1>2. CASE ~g.party
  <2> DEFINE share == g.resources \div 2
  <2>1. share \in Int
    OBVIOUS
  <2>2. h = [g EXCEPT !.resources = @ - share, !.party = TRUE, !.branches = share]
    BY <1>2 DEF EnsureParty
  <2>3. g.branches = 0
    BY <1>2
  <2> HIDE DEF share
  <2>4. h.resources = g.resources - share /\ h.branches = share /\ h.party = TRUE
    BY <2>2 DEF OrganizationFields
  <2> QED
    BY <2>1, <2>3, <2>4
<1> QED
  BY <1>1, <1>2

LEMMA IncorporatedAccounts ==
  ASSUME NEW w, Sound(w), Counted(w), NEW S, NEW v, v = Incorporated(w, S),
         NEW men, NEW goods, NEW wealth, Short(w, men, goods, wealth)
  PROVE  Counted(v) /\ Short(v, men, goods, wealth)
<1> DEFINE old == w.organizations
           orgs == [o \in DOMAIN old |-> IF o \in S THEN EnsureParty(old[o]) ELSE old[o]]
<1>1. /\ v.organizations = orgs /\ v.formations = w.formations /\ v.sources = w.sources
      /\ v.pools = w.pools /\ v.reserves = w.reserves /\ v.demobilized = w.demobilized
      /\ v.expected = w.expected
  BY DEF Incorporated, Sound, LedgerFields
<1>2. ASSUME NEW o \in DOMAIN old
      PROVE  /\ orgs[o].resources + orgs[o].branches = old[o].resources + old[o].branches
             /\ orgs[o].branches \in Int /\ (orgs[o].branches = 0 \/ orgs[o].party = TRUE)
  <2>1. /\ DOMAIN old[o] = OrganizationFields /\ old[o].resources \in Int
        /\ old[o].branches \in Int /\ (old[o].branches = 0 \/ old[o].party = TRUE)
    BY DEF Sound, Organizations, Counted, Branching
  <2>2. CASE o \in S
    <3>1. PICK h : h = EnsureParty(old[o])
      OBVIOUS
    <3>2. orgs[o] = h
      BY <2>2, <3>1
    <3> HIDE DEF old, orgs
    <3> QED
      BY <2>1, <3>1, <3>2, EnsurePartyAccounts
  <2>3. CASE o \notin S
    BY <2>1, <2>3
  <2> QED
    BY <2>2, <2>3
<1>3. DOMAIN orgs = DOMAIN old
  OBVIOUS
<1> HIDE DEF orgs
<1>4. Branching(orgs)
  BY <1>2, <1>3 DEF Branching
<1>5. Wealth(orgs) = Wealth(old)
  <2>1. Agree(Holdings(old), Holdings(orgs), DOMAIN old)
    BY <1>2, <1>3 DEF Agree, Holdings
  <2>2. Numbers(Holdings(old), DOMAIN old)
    BY AccountsAreNumbers
  <2> QED
    BY <1>3, <2>1, <2>2, SumSame DEF Wealth
<1> QED
  BY <1>1, <1>4, <1>5 DEF Counted, Short, MenOf, GoodsOf

\* One more on a list.
Appends(s, e, t) == t = Append(s, e)
OneMore(f, g, s, t, n) ==
  /\ Numbers(f, DOMAIN s) /\ IsList(s) /\ DOMAIN t = DOMAIN s \cup {Len(s) + 1} /\ Len(s) + 1 \notin DOMAIN s
  /\ \A i \in DOMAIN s : g[i] = f[i]
  /\ g[Len(s) + 1] = n /\ n \in Int

LEMMA SumOfMore ==
  ASSUME NEW f, NEW g, NEW s, NEW t, NEW n, OneMore(f, g, s, t, n)
  PROVE  SumFunctionOnSet(g, DOMAIN t) = SumFunctionOnSet(f, DOMAIN s) + n
<1> DEFINE x == Len(s) + 1
<1>1. /\ Numbers(f, DOMAIN s) /\ DOMAIN t = DOMAIN s \cup {x} /\ x \notin DOMAIN s /\ g[x] = n /\ g[x] \in Int
      /\ Agree(f, g, DOMAIN s)
  BY DEF OneMore, Agree
<1> HIDE DEF x
<1>2. SumFunctionOnSet(g, DOMAIN s) = SumFunctionOnSet(f, DOMAIN s) /\ Numbers(g, DOMAIN s)
  BY <1>1, SumSame
<1>3. SumFunctionOnSet(g, DOMAIN s \cup {x}) = SumFunctionOnSet(g, DOMAIN s) + g[x]
  BY <1>1, <1>2, SumOneMore
<1> QED
  BY <1>1, <1>2, <1>3

LEMMA WealthMore ==
  ASSUME NEW orgs, Organizations(orgs), Branching(orgs), NEW e, e.resources \in Int, e.branches = 0,
         NEW after, Appends(orgs, e, after)
  PROVE  Wealth(after) = Wealth(orgs) + e.resources /\ Branching(after)
<1>1. Numbers(Holdings(orgs), DOMAIN orgs) /\ IsList(orgs)
  BY ListFinite DEF Numbers, Holdings, Organizations, Branching
<1>2. /\ DOMAIN after = DOMAIN orgs \cup {Len(orgs) + 1} /\ Len(orgs) + 1 \notin DOMAIN orgs
      /\ \A i \in DOMAIN orgs : after[i] = orgs[i]
      /\ after[Len(orgs) + 1] = e
  BY <1>1, ListAppend DEF Appends
<1> DEFINE n == e.resources
<1>3. e.resources + e.branches = n /\ n \in Int
  OBVIOUS
<1>4. OneMore(Holdings(orgs), Holdings(after), orgs, after, n)
  <2>1. Holdings(after)[Len(orgs) + 1] = e.resources + e.branches
    BY <1>2 DEF Holdings
  <2>2. \A i \in DOMAIN orgs : Holdings(after)[i] = Holdings(orgs)[i]
    BY <1>2 DEF Holdings
  <2> QED
    BY <1>1, <1>2, <1>3, <2>1, <2>2 DEF OneMore
<1> HIDE DEF n
<1>5. Wealth(after) = Wealth(orgs) + n
  <2>1. SumFunctionOnSet(Holdings(after), DOMAIN after) = SumFunctionOnSet(Holdings(orgs), DOMAIN orgs) + n
    BY <1>1, <1>4, SumOfMore
  <2> QED
    BY <2>1 DEF Wealth
<1>6. Branching(after)
  BY <1>2 DEF Branching
<1> QED
  BY <1>5, <1>6 DEF n

LEMMA MenMore ==
  ASSUME NEW forms, Formations(forms), Carrying(forms), NEW e, e.personnel \in Int, e.stock \in Nat,
         e.capacity \in Int, e.stock <= e.capacity, NEW after, Appends(forms, e, after)
  PROVE  /\ Men(after) = Men(forms) + e.personnel /\ Goods(after) = Goods(forms) + e.stock
         /\ Carrying(after)
<1>1. Numbers(Soldiers(forms), DOMAIN forms) /\ Numbers(Stock(forms), DOMAIN forms) /\ IsList(forms)
  BY ListFinite DEF Numbers, Soldiers, Stock, Formations, Carrying
<1>2. /\ DOMAIN after = DOMAIN forms \cup {Len(forms) + 1} /\ Len(forms) + 1 \notin DOMAIN forms
      /\ \A i \in DOMAIN forms : after[i] = forms[i]
      /\ after[Len(forms) + 1] = e
  BY <1>1, ListAppend DEF Appends
<1> DEFINE n == e.personnel  q == e.stock
<1>3. OneMore(Soldiers(forms), Soldiers(after), forms, after, n)
  BY <1>1, <1>2 DEF OneMore, Soldiers
<1>4. OneMore(Stock(forms), Stock(after), forms, after, q)
  BY <1>1, <1>2 DEF OneMore, Stock
<1> HIDE DEF n, q
<1>5. Men(after) = Men(forms) + n
  <2>1. SumFunctionOnSet(Soldiers(after), DOMAIN after) = SumFunctionOnSet(Soldiers(forms), DOMAIN forms) + n
    BY <1>1, <1>3, SumOfMore
  <2> QED
    BY <2>1 DEF Men
<1>6. Goods(after) = Goods(forms) + q
  <2>1. SumFunctionOnSet(Stock(after), DOMAIN after) = SumFunctionOnSet(Stock(forms), DOMAIN forms) + q
    BY <1>1, <1>4, SumOfMore
  <2> QED
    BY <2>1 DEF Goods
<1>7. Carrying(after)
  BY <1>2 DEF Carrying
<1> QED
  BY <1>5, <1>6, <1>7 DEF n, q

LEMMA GoodsMore ==
  ASSUME NEW list, IsList(list), Stocked(list), NEW e, e.stock \in Int, NEW after, Appends(list, e, after)
  PROVE  Goods(after) = Goods(list) + e.stock /\ Stocked(after)
<1>1. Numbers(Stock(list), DOMAIN list)
  BY ListFinite DEF Numbers, Stock, Stocked
<1>2. /\ DOMAIN after = DOMAIN list \cup {Len(list) + 1} /\ Len(list) + 1 \notin DOMAIN list
      /\ \A i \in DOMAIN list : after[i] = list[i]
      /\ after[Len(list) + 1] = e
  BY ListAppend DEF Appends
<1> DEFINE q == e.stock
<1>3. OneMore(Stock(list), Stock(after), list, after, q)
  BY <1>1, <1>2 DEF OneMore, Stock
<1> HIDE DEF q
<1>4. Goods(after) = Goods(list) + q
  <2>1. SumFunctionOnSet(Stock(after), DOMAIN after) = SumFunctionOnSet(Stock(list), DOMAIN list) + q
    BY <1>1, <1>3, SumOfMore
  <2> QED
    BY <2>1 DEF Goods
<1>5. Stocked(after)
  BY <1>2 DEF Stocked
<1> QED
  BY <1>4, <1>5 DEF q

\* Income of any organizations.
LEMMA WealthPaid ==
  ASSUME NEW orgs, Organizations(orgs), Branching(orgs), NEW income,
         \A o \in DOMAIN orgs : income[o] \in Int,
         NEW after, after = [o \in DOMAIN orgs |-> Paid(orgs[o], income[o])]
  PROVE  /\ Wealth(after) = Wealth(orgs) + SumFunctionOnSet(income, DOMAIN orgs)
         /\ SumFunctionOnSet(income, DOMAIN orgs) \in Int /\ Branching(after)
<1>1. Numbers(Holdings(orgs), DOMAIN orgs)
  BY ListFinite DEF Numbers, Holdings, Organizations, Branching
<1>2. ASSUME NEW o \in DOMAIN orgs
      PROVE  /\ after[o].resources = orgs[o].resources + income[o]
             /\ after[o].branches = orgs[o].branches /\ after[o].party = orgs[o].party
             /\ orgs[o].resources \in Int /\ orgs[o].branches \in Int
  BY DEF Paid, Organizations, OrganizationFields, Branching
<1>3. \A o \in DOMAIN orgs : income[o] \in Int /\ Holdings(after)[o] = Holdings(orgs)[o] + income[o]
  BY <1>2 DEF Holdings
<1>4. Changes(Holdings(orgs), Holdings(after), income, DOMAIN orgs, DOMAIN orgs)
  BY <1>3 DEF Changes
<1>5. /\ SumFunctionOnSet(Holdings(after), DOMAIN orgs)
           = SumFunctionOnSet(Holdings(orgs), DOMAIN orgs) + SumFunctionOnSet(income, DOMAIN orgs)
      /\ SumFunctionOnSet(income, DOMAIN orgs) \in Int
  BY <1>1, <1>4, SumChanged
<1>6. DOMAIN after = DOMAIN orgs
  OBVIOUS
<1>7. Branching(after)
  BY <1>2, <1>6 DEF Branching
<1> QED
  BY <1>5, <1>6, <1>7 DEF Wealth

-----------------------------------------------------------------------------
(* The books of the world: everything is counted in numbers, nothing is    *)
(* missing, and what is on the road is on its way to somebody.             *)

OnRoad(ships) == SumFunctionOnSet([s \in DOMAIN ships |-> ships[s].deliverable], DOMAIN ships)
Balanced == Counted(Ledger) /\ Short(Ledger, 0, OnRoad(shipments), 0)
Roads ==
  /\ DOMAIN shipments \subseteq 1 .. MaxShipments
  /\ \A s \in DOMAIN shipments : /\ shipments[s].deliverable \in Nat
                                 /\ shipments[s].formation \in DOMAIN formations
  /\ \A i \in DOMAIN orders : orders[i].cost \in Nat
Books == Balanced /\ Roads

LEMMA RoadIsANumber ==
  ASSUME Roads
  PROVE  OnRoad(shipments) \in Int /\ IsFiniteSet(DOMAIN shipments)
<1>1. IsFiniteSet(DOMAIN shipments)
  <2>1. IsFiniteSet(1 .. MaxShipments)
    BY FS_Interval, LogisticsAssumption
  <2>2. DOMAIN shipments \subseteq 1 .. MaxShipments
    BY DEF Roads
  <2> QED
    BY <2>1, <2>2, FS_Subset
<1> DEFINE f == [s \in DOMAIN shipments |-> shipments[s].deliverable]
<1>2. Numbers(f, DOMAIN shipments)
  BY <1>1 DEF Numbers, Roads
<1> HIDE DEF f
<1> QED
  BY <1>1, <1>2, SubsetSum DEF OnRoad, f

LEMMA BalancedKept ==
  ASSUME NEW v, Becomes(v), Counted(v), Short(v, 0, OnRoad(shipments), 0), shipments' = shipments
  PROVE  Balanced'
<1>1. /\ Ledger'.organizations = v.organizations /\ Ledger'.formations = v.formations
      /\ Ledger'.sources = v.sources /\ Ledger'.pools = v.pools
      /\ Ledger'.reserves = v.reserves
      /\ Ledger'.demobilized = v.demobilized /\ Ledger'.expected = v.expected
  BY DEF Becomes, Ledger
<1> DEFINE w == Ledger'
<1> HIDE DEF w
<1>2. Counted(w)
  BY <1>1 DEF w, Counted
<1>3. Short(w, 0, OnRoad(shipments), 0)
  BY <1>1 DEF w, Short, MenOf, GoodsOf
<1>4. OnRoad(shipments') = OnRoad(shipments)
  OBVIOUS
<1> QED
  BY <1>2, <1>3, <1>4 DEF w, Balanced

LEMMA RoadsKept ==
  ASSUME Roads, UNCHANGED logisticsVars, DOMAIN formations \subseteq DOMAIN formations'
  PROVE  Roads'
  BY DEF Roads, logisticsVars

LEMMA StayingGrows ==
  ASSUME Staying
  PROVE  DOMAIN formations \subseteq DOMAIN formations'
  BY LedgerIs DEF Staying, Becomes, Grows

LEMMA BalancedSame ==
  ASSUME Balanced, UNCHANGED ledgerVars, shipments' = shipments
  PROVE  Balanced'
<1>1. Becomes(Ledger)
  BY DEF Becomes, Ledger, ledgerVars
<1> QED
  BY <1>1, BalancedKept DEF Balanced

LEMMA LedgerHas ==
  /\ Ledger.organizations = organizations /\ Ledger.formations = formations
  /\ Ledger.sources = sources /\ Ledger.pools = pools /\ Ledger.reserves = reserves
  /\ Ledger.demobilized = demobilized /\ Ledger.expected = expected
  BY DEF Ledger

\* Recruits are expected before they are among the fighters.
LEMMA RecruitBalances ==
  ASSUME Inv, Books, NEW p \in Persons, NEW o \in DOMAIN organizations, NEW n \in 1 .. Cohorts,
         Recruit(p, o, n), shipments' = shipments
  PROVE  Balanced'
<1> DEFINE members == organizations[o].members \cup {p}
           u == [Ledger EXCEPT !.organizations[o].members = @ \cup {p}, !.expected.manpower = @ + n]
           v == AddFighters(u, o, Residence[p], n)
           g == OnRoad(shipments)
<1>1. Active(o) /\ Becomes(v) /\ n \in Int
  BY DEF Recruit
<1>2. o \in ActiveOf(organizations)
  BY <1>1 DEF Active, ActiveOf
<1>3. /\ u.organizations = Listing(organizations, o, members)
      /\ u.formations = formations /\ u.sources = sources /\ u.pools = pools
      /\ u.reserves = reserves /\ DOMAIN u = LedgerFields
      /\ u.demobilized = demobilized /\ u.expected = [expected EXCEPT !.manpower = @ + n]
  BY DEF Ledger, LedgerFields, Listing
<1>4. Sound(Ledger) /\ Clean(Ledger)
  BY DEF Inv
<1>41. Counted(Ledger) /\ Short(Ledger, 0, g, 0) /\ g \in Int
  BY RoadIsANumber DEF Books, Balanced
<1> HIDE DEF u, members, g
<1>5. /\ Sound(u) /\ Clean(u) /\ (\A G : Grows(G, Ledger, u)) /\ Ranks(Ledger, u)
      /\ \A x \in DOMAIN organizations : x # o => u.organizations[x] = organizations[x]
      /\ u.organizations[o].members = members
  BY <1>2, <1>3, <1>4, RelistedLedger, LedgerIs
<1>6. SameAccounts(Ledger, u)
  <2>1. /\ u.organizations = Listing(Ledger.organizations, o, members)
        /\ u.formations = Ledger.formations /\ u.sources = Ledger.sources
        /\ u.pools = Ledger.pools /\ u.reserves = Ledger.reserves
        /\ u.demobilized = Ledger.demobilized /\ o \in DOMAIN Ledger.organizations
    BY <1>3, LedgerHas
  <2> QED
    BY <1>4, <1>41, <2>1, RelistedAccounts
<1>7. Counted(u) /\ Short(u, 0 + n, g, 0)
  <2>1. u.expected = [Ledger.expected EXCEPT !.manpower = @ + n]
    BY <1>3, LedgerHas
  <2>2. 0 \in Int /\ n \in Int
    BY <1>1
  <2> QED
    BY <1>4, <1>41, <1>6, <2>1, <2>2, AccountsExpected
<1>8. 0 + n = n /\ n - n = 0
  BY <1>1
<1>9. /\ Residence[p] \in Localities /\ o \in DOMAIN u.organizations
      /\ DOMAIN formations \subseteq DOMAIN u.formations
  BY <1>3, <1>5, EcologyAssumption, LedgerIs DEF Ranks
<1>10. PICK k : k = n /\ Short(u, k, g, 0) /\ k \in Int
  BY <1>1, <1>7, <1>8
<1>11. Counted(v) /\ Short(v, k - n, g, 0)
  <2>1. 0 \in Int
    OBVIOUS
  <2> QED
    BY <1>1, <1>41, <1>5, <1>7, <1>9, <1>10, <2>1, AddFightersAccounts
<1>12. Short(v, 0, g, 0)
  BY <1>8, <1>10, <1>11
<1> HIDE DEF v
<1> QED
  BY <1>1, <1>11, <1>12, BalancedKept DEF g

\* The world before a step, as the step finds it.
LEMMA BooksOpen ==
  ASSUME Inv, Books
  PROVE  /\ Sound(Ledger) /\ Clean(Ledger)
         /\ Counted(Ledger) /\ Short(Ledger, 0, OnRoad(shipments), 0) /\ OnRoad(shipments) \in Int
BY RoadIsANumber DEF Inv, Books, Balanced

\* Who is on a list does not matter.
LEMMA RelistedStay ==
  ASSUME NEW w, Sound(w), Counted(w), NEW o \in DOMAIN w.organizations, NEW m, NEW v,
         v.organizations = Listing(w.organizations, o, m),
         v.formations = w.formations, v.sources = w.sources, v.pools = w.pools,
         v.reserves = w.reserves, v.demobilized = w.demobilized, v.expected = w.expected,
         NEW men, NEW goods, NEW wealth, Short(w, men, goods, wealth)
  PROVE  Counted(v) /\ Short(v, men, goods, wealth)
<1>1. SameAccounts(w, v)
  BY RelistedAccounts
<1> QED
  BY <1>1, AccountsStay

\* What the accounts are of.
AccountFields(w, v) ==
  /\ v.organizations = w.organizations /\ v.formations = w.formations
  /\ v.sources = w.sources /\ v.pools = w.pools /\ v.reserves = w.reserves
  /\ v.demobilized = w.demobilized

LEMMA NothingElse ==
  ASSUME NEW w, NEW v, AccountFields(w, v)
  PROVE  SameAccounts(w, v)
BY DEF AccountFields, SameAccounts, SameHoldings, SameForces, SameStocks

\* Who leaves is no longer expected.
LEMMA ExitBalances ==
  ASSUME Inv, Books, NEW p \in Persons, NEW n, Exit(p, n), shipments' = shipments
  PROVE  Balanced'
<1> DEFINE o == people[p].organization
           left == RemoveFighters(Ledger, o, Residence[p], n)
           u == left.world
           r == left.removed
           w == [u EXCEPT !.expected.manpower = @ - r]
           m == w.organizations[o].members \ {p}
           v == [w EXCEPT !.organizations[o].members = @ \ {p}]
           g == OnRoad(shipments)
<1>1. /\ Incumbent(p) /\ n \in 1 .. people[p].fraction
      /\ Becomes(IF n < people[p].fraction THEN w ELSE v)
  BY Zenon DEF Exit
<1>2. o \in ActiveOf(organizations) /\ n \in Int
  BY <1>1, IncumbentIs
<1>3. /\ Sound(Ledger) /\ Clean(Ledger)
      /\ Counted(Ledger) /\ Short(Ledger, 0, g, 0) /\ g \in Int
  BY BooksOpen
<1>4. /\ Residence[p] \in Localities /\ 0 \in Int
      /\ o \in ActiveOf(Ledger.organizations) /\ o \in DOMAIN Ledger.organizations
      /\ DOMAIN formations \subseteq DOMAIN Ledger.formations
  <2>1. Residence[p] \in Localities
    BY EcologyAssumption
  <2> HIDE DEF o
  <2> QED
    BY <1>2, <2>1, LedgerHas DEF ActiveOf
<1> HIDE DEF g, o
<1>5. /\ left.removed \in Int
      /\ Sound(u) /\ Clean(u) /\ (\A F : o \notin F => Grows(F, Ledger, u))
      /\ u.organizations = Ledger.organizations /\ DOMAIN u.formations = DOMAIN Ledger.formations
  BY <1>2, <1>3, <1>4, RemoveFightersLedger
<1>6. left.removed \in Int /\ Counted(u) /\ Short(u, 0 + left.removed, g, 0)
  BY <1>2, <1>3, <1>4, RemoveFightersAccounts
<1> HIDE DEF left, u
<1>7. 0 + r = r /\ r + -r = 0 /\ -r \in Int
  BY <1>5
<1>8. PICK k : k = r /\ k \in Int /\ Short(u, k, g, 0)
  BY <1>5, <1>6, <1>7
<1>9. DOMAIN u = LedgerFields /\ u.expected.manpower \in Int /\ DOMAIN u.expected = {"supply", "manpower", "resources"}
  BY <1>5, <1>6 DEF Sound, Counted
<1>10. /\ w.organizations = u.organizations /\ w.formations = u.formations
       /\ w.sources = u.sources /\ w.pools = u.pools /\ w.reserves = u.reserves
       /\ w.demobilized = u.demobilized /\ DOMAIN w = LedgerFields
       /\ w.expected = [u.expected EXCEPT !.manpower = @ + -r]
  <2>1. u.expected.manpower - r = u.expected.manpower + -r
    BY <1>5, <1>9
  <2> QED
    BY <1>9, <2>1 DEF LedgerFields
<1> HIDE DEF w, r
<1>11. SameAccounts(u, w)
  BY <1>10, NothingElse DEF AccountFields
<1>12. Counted(w) /\ Short(w, k + -r, g, 0)
  BY <1>3, <1>4, <1>5, <1>6, <1>7, <1>8, <1>10, <1>11, AccountsExpected
<1>13. Short(w, 0, g, 0)
  BY <1>7, <1>8, <1>12
<1>14. Sound(w)
  BY <1>5, <1>10 DEF Sound
<1>15. CASE n < people[p].fraction
  BY <1>1, <1>12, <1>13, <1>15, BalancedKept DEF g
<1>16. CASE ~(n < people[p].fraction)
  <2>1. /\ v.organizations = Listing(w.organizations, o, m)
        /\ v.formations = w.formations /\ v.sources = w.sources /\ v.pools = w.pools
        /\ v.reserves = w.reserves /\ v.demobilized = w.demobilized /\ v.expected = w.expected
    BY <1>10 DEF LedgerFields, Listing
  <2>2. o \in DOMAIN w.organizations
    BY <1>4, <1>5, <1>10
  <2>3. Becomes(v)
    BY <1>1, <1>16
  <2> HIDE DEF v, m
  <2>4. Counted(v) /\ Short(v, 0, g, 0)
    BY <1>12, <1>13, <1>14, <2>1, <2>2, RelistedStay
  <2> QED
    BY <2>3, <2>4, BalancedKept DEF g
<1> QED
  BY <1>15, <1>16, Zenon

\* Who changes sides is counted where it goes.
LEMMA DefectBalances ==
  ASSUME Inv, Books, NEW p \in Persons, NEW rival \in DOMAIN organizations, Defect(p, rival),
         shipments' = shipments
  PROVE  Balanced'
<1> DEFINE o == people[p].organization
           fraction == people[p].fraction
           left == RemoveFighters(Ledger, o, Residence[p], fraction)
           u == left.world
           r == left.removed
           joined == IF left.removed = 0 THEN u
                     ELSE AddFighters(u, rival, Residence[p], left.removed)
           m == joined.organizations[o].members \ {p}
           w == [joined EXCEPT !.organizations = Listing(@, o, m)]
           n == joined.organizations[rival].members \cup {p}
           v == [joined EXCEPT !.organizations[o].members = @ \ {p},
                               !.organizations[rival].members = @ \cup {p}]
           g == OnRoad(shipments)
<1>1. /\ Incumbent(p) /\ Active(rival) /\ rival # o /\ Becomes(v)
  BY Zenon DEF Defect
<1>2. /\ o \in ActiveOf(organizations) /\ o \in DOMAIN organizations
      /\ rival \in ActiveOf(organizations)
  <2>1. o \in ActiveOf(organizations)
    BY <1>1, IncumbentIs, Zenon
  <2> HIDE DEF o
  <2> QED
    BY <1>1, <2>1, Zenon DEF ActiveOf, Active
<1>21. fraction \in Int
  <2>1. people[p].fraction \in Nat
    BY <1>1, IncumbentIs, Zenon
  <2> QED
    BY <2>1
<1>3. /\ Sound(Ledger) /\ Clean(Ledger)
      /\ Counted(Ledger) /\ Short(Ledger, 0, g, 0) /\ g \in Int
  BY BooksOpen
<1>4. /\ Residence[p] \in Localities /\ 0 \in Int
      /\ o \in ActiveOf(Ledger.organizations) /\ o \in DOMAIN Ledger.organizations
      /\ rival \in ActiveOf(Ledger.organizations)
      /\ DOMAIN formations \subseteq DOMAIN Ledger.formations
  <2>1. Residence[p] \in Localities
    BY EcologyAssumption
  <2> HIDE DEF o
  <2> QED
    BY <1>2, <2>1, LedgerHas DEF ActiveOf
<1> HIDE DEF g, o, fraction
<1>5. /\ left.removed \in Int
      /\ Sound(u) /\ Clean(u) /\ (\A F : o \notin F => Grows(F, Ledger, u))
      /\ u.organizations = Ledger.organizations /\ DOMAIN u.formations = DOMAIN Ledger.formations
  BY <1>21, <1>3, <1>4, RemoveFightersLedger
<1>6. left.removed \in Int /\ Counted(u) /\ Short(u, 0 + left.removed, g, 0)
  BY <1>21, <1>3, <1>4, RemoveFightersAccounts
<1> HIDE DEF left, u
<1>7. 0 + r = r /\ r - r = 0
  BY <1>5
<1>8. PICK k : k = r /\ k \in Int /\ Short(u, k, g, 0)
  BY <1>5, <1>6, <1>7
<1>9. /\ rival \in ActiveOf(u.organizations) /\ DOMAIN formations \subseteq DOMAIN u.formations
      /\ rival \in DOMAIN u.organizations
  BY <1>4, <1>5 DEF ActiveOf
<1>10. /\ Sound(joined) /\ Counted(joined) /\ Short(joined, 0, g, 0)
       /\ DOMAIN joined.organizations = DOMAIN organizations
  <2>1. CASE left.removed = 0
    <3>1. joined = u
      BY <2>1
    <3> QED
      BY <1>5, <1>6, <1>8, <2>1, <3>1, LedgerHas
  <2>2. CASE left.removed # 0
    <3> DEFINE j == AddFighters(u, rival, Residence[p], left.removed)
    <3>1. joined = j
      BY <2>2
    <3>3. /\ Sound(j) /\ Clean(j) /\ (\A G : rival \notin G => Grows(G, u, j)) /\ Ranks(u, j)
          /\ \A x \in DOMAIN u.organizations : j.organizations[x].members = u.organizations[x].members
      BY <1>4, <1>5, <1>9, AddFightersLedger, ZenonT(60)
    <3>4. Counted(j) /\ Short(j, k - left.removed, g, 0)
      BY <1>3, <1>4, <1>5, <1>6, <1>8, <1>9, AddFightersAccounts
    <3> HIDE DEF joined, j
    <3>5. Short(j, 0, g, 0)
      BY <1>7, <1>8, <3>4
    <3> QED
      BY <1>5, <3>1, <3>3, <3>4, <3>5, LedgerHas DEF Ranks
  <2> QED
    BY <2>1, <2>2
<1> HIDE DEF joined
<1>11. o \in DOMAIN joined.organizations /\ rival \in DOMAIN joined.organizations
  BY <1>2, <1>10
<1>12. DOMAIN joined = LedgerFields /\ Organizations(joined.organizations)
  BY <1>10 DEF Sound
<1>13. /\ w.organizations = Listing(joined.organizations, o, m) /\ w.formations = joined.formations
       /\ w.sources = joined.sources /\ w.pools = joined.pools /\ w.reserves = joined.reserves
       /\ w.demobilized = joined.demobilized /\ w.expected = joined.expected
       /\ DOMAIN w = LedgerFields
  BY <1>12 DEF LedgerFields
<1>14. Counted(w) /\ Short(w, 0, g, 0)
  <2> HIDE DEF w, m
  <2> QED
    BY <1>10, <1>11, <1>13, RelistedStay
<1>15. /\ v.organizations = Listing(w.organizations, rival, n) /\ v.formations = w.formations
       /\ v.sources = w.sources /\ v.pools = w.pools /\ v.reserves = w.reserves
       /\ v.demobilized = w.demobilized /\ v.expected = w.expected
  <2>3. v.organizations = [[joined.organizations EXCEPT ![o].members = m] EXCEPT ![rival].members = n]
    BY <1>1, <1>11, <1>12 DEF LedgerFields, Organizations
  <2>4. v.organizations = Listing(Listing(joined.organizations, o, m), rival, n)
    BY <2>3 DEF Listing
  <2> QED
    BY <1>12, <1>13, <2>4 DEF LedgerFields
<1> HIDE DEF v, n, m, w
<1>16. Sound(w) /\ DOMAIN w.organizations = DOMAIN joined.organizations
  <2>1. DOMAIN w.organizations = DOMAIN joined.organizations
    BY <1>13 DEF Listing
  <2>2. \A x \in DOMAIN w.organizations : DOMAIN w.organizations[x] = OrganizationFields
                                          /\ w.organizations[x].resources \in Int
    BY <1>12, <1>13 DEF Listing, Organizations, OrganizationFields
  <2>3. IsList(w.organizations)
    <3>1. w.organizations = [x \in DOMAIN joined.organizations |-> w.organizations[x]]
      BY <1>13 DEF Listing
    <3> QED
      BY <1>12, <3>1, ListMap DEF Organizations
  <2> QED
    BY <1>10, <1>12, <1>13, <2>1, <2>2, <2>3 DEF Sound, Organizations
<1>17. Counted(v) /\ Short(v, 0, g, 0)
  BY <1>11, <1>14, <1>15, <1>16, RelistedStay
<1> QED
  BY <1>1, <1>17, BalancedKept DEF g

LEMMA RecruitmentBalances ==
  ASSUME Inv, Books, RecruitmentNext, shipments' = shipments
  PROVE  Balanced'
<1>1. CASE RecruitAndRetain
  BY <1>1, BalancedSame DEF RecruitAndRetain, Books
<1>2. CASE SynchronizeMemberships
  <2> DEFINE v == Synchronized(Ledger, people)
             g == OnRoad(shipments)
  <2>1. Becomes(v)
    BY <1>2 DEF SynchronizeMemberships
  <2>2. /\ Sound(Ledger) /\ Clean(Ledger)
        /\ Counted(Ledger) /\ Short(Ledger, 0, g, 0) /\ g \in Int
    BY BooksOpen
  <2>3. Counted(v) /\ Short(v, 0, g, 0)
    BY <2>2, SynchronizedAccounts
  <2> QED
    BY <2>1, <2>3, BalancedKept
<1>3. ASSUME NEW p \in Persons, Abide(p)
      PROVE  Balanced'
  BY <1>3, BalancedSame DEF Abide, Books
<1>4. ASSUME NEW p \in Persons, NEW n \in 1 .. Cohorts, Exit(p, n)
      PROVE  Balanced'
  BY <1>4, ExitBalances
<1>5. ASSUME NEW p \in Persons, NEW n \in 1 .. Cohorts, NEW o \in DOMAIN organizations, Recruit(p, o, n)
      PROVE  Balanced'
  BY <1>5, RecruitBalances
<1>6. ASSUME NEW p \in Persons, NEW o \in DOMAIN organizations, Defect(p, o)
      PROVE  Balanced'
  BY <1>6, DefectBalances
<1> QED
  BY <1>1, <1>2, <1>3, <1>4, <1>5, <1>6 DEF RecruitmentNext

\* Two factions of an organization may part.
LEMMA FactionsMayPart ==
  ASSUME Inv, NEW o, o \in ActiveOf(organizations),
         NEW w, w = Synchronized(Ledger, people), Following(people, o) # {},
         NEW a, NEW b, Parted(Following(people, o), a, b),
         NEW m, NEW n, NextTwo(organizations, m, n)
  PROVE  MayPart(w, o, a, b) /\ NextTwo(w.organizations, m, n) /\ Sound(w) /\ Clean(w)
<1>2. Sound(Ledger) /\ Belong /\ o \in DOMAIN organizations
  BY DEF Inv, ActiveOf
<1>3. /\ Sound(w) /\ Clean(w) /\ (\A G : Grows(G, Ledger, w)) /\ Ranks(Ledger, w)
      /\ \A x \in ActiveOf(organizations) : w.organizations[x].members = Following(people, x)
      /\ \A p \in Persons : people[p].organization # NoOrganization =>
           p \in w.organizations[people[p].organization].members
  BY SynchronizedLists
<1>4. /\ DOMAIN w.organizations = DOMAIN organizations
      /\ ActiveOf(w.organizations) = ActiveOf(organizations)
  BY <1>3, RanksActive, LedgerIs DEF Ranks
<1>5. o # NoOrganization
  BY <1>2, LedgerIs, ListFacts DEF Sound, Organizations, NoOrganization
<1>6. MayPart(w, o, a, b)
  <2>1. a \subseteq Persons /\ b \subseteq Persons /\ a \cup b = Following(people, o)
    BY DEF Parted, Following
  <2>2. PICK p \in Following(people, o) : people[p].organization # NoOrganization
    BY <1>5 DEF Following
  <2>3. Following(people, o) \subseteq Persons
    BY DEF Following
  <2>4. Weight(Following(people, o)) > 0
    BY <1>2, <2>2, <2>3, WeightNat
  <2> QED
    BY <1>4, <2>1, <2>4 DEF MayPart
<1>7. NextTwo(w.organizations, m, n)
  <2>1. IsList(w.organizations) /\ IsList(organizations)
    BY <1>2, <1>3, LedgerIs DEF Sound, Organizations
  <2>2. Len(w.organizations) = Len(organizations)
    BY <1>4, <2>1, SameLength
  <2> QED
    BY <2>2 DEF NextTwo
<1> QED
  BY <1>3, <1>6, <1>7

LEMMA SplitBalances ==
  ASSUME Inv, Books, NEW o, Split(o), shipments' = shipments
  PROVE  Balanced'
<1>0. PICK w : w = Synchronized(Ledger, people)
  OBVIOUS
<1> DEFINE members == w.organizations[o].members
           m == Len(organizations) + 1
           n == Len(organizations) + 2
           g == OnRoad(shipments)
<1>1. /\ Ecology("lifecycle", o)
      /\ \/ Becomes(w)
         \/ /\ Cardinality(members) >= 2 /\ n <= MaxOrganizations
            /\ \E a \in Factions(members) : Becomes(Divided(w, o, a, members \ a))
  BY <1>0 DEF Split
<1>2. o \in ActiveOf(organizations)
  BY <1>1, LifecycleVisit
<1>3. /\ Sound(Ledger) /\ Clean(Ledger)
      /\ Counted(Ledger) /\ Short(Ledger, 0, g, 0) /\ g \in Int
  BY BooksOpen
<1>4. Counted(w) /\ Short(w, 0, g, 0)
  BY <1>0, <1>3, SynchronizedAccounts
<1>6. CASE Becomes(w)
  BY <1>4, <1>6, BalancedKept
<1>7. ASSUME Cardinality(members) >= 2, n <= MaxOrganizations,
             NEW a \in Factions(members), Becomes(Divided(w, o, a, members \ a))
      PROVE  Balanced'
  <2>0. PICK b : b = members \ a
    OBVIOUS
  <2>9. PICK v : v = Divided(w, o, a, b)
    OBVIOUS
  <2>1. members = Following(people, o)
    <3>1. /\ Sound(w) /\ Clean(w) /\ (\A G : Grows(G, Ledger, w)) /\ Ranks(Ledger, w)
          /\ \A x \in ActiveOf(organizations) : w.organizations[x].members = Following(people, x)
          /\ \A p \in Persons : people[p].organization # NoOrganization =>
               p \in w.organizations[people[p].organization].members
      BY <1>0, SynchronizedLists
    <3> QED
      BY <1>2, <3>1
  <2>2. Following(people, o) # {}
    <3>1. Cardinality({}) = 0
      BY FS_EmptySet
    <3>2. ~(0 >= 2)
      OBVIOUS
    <3>3. Cardinality(members) # 0
      BY <1>7, <3>2
    <3> QED
      BY <2>1, <3>1, <3>3
  <2>3. a \subseteq members
    BY DEF Factions
  <2>4. Parted(Following(people, o), a, b)
    BY <2>0, <2>1, <2>3 DEF Parted
  <2>6. NextTwo(organizations, m, n)
    BY <1>3, <1>7, LedgerIs, ListFacts DEF Sound, Organizations, NextTwo
  <2>7. Becomes(v)
    BY <1>7, <2>0, <2>9
  <2>8. Belong
    BY DEF Inv
  <2> HIDE DEF members, m, n, g
  <2>10. MayPart(w, o, a, b) /\ NextTwo(w.organizations, m, n) /\ Sound(w) /\ Clean(w)
    BY <1>0, <1>2, <2>2, <2>4, <2>6, FactionsMayPart
  <2>11. Counted(v) /\ Short(v, 0, g, 0)
    BY <1>4, <2>8, <2>9, <2>10, DividedAccounts
  <2> QED
    BY <2>7, <2>11, BalancedKept DEF g
<1> QED
  BY <1>1, <1>6, <1>7

LEMMA MergeBalances ==
  ASSUME Inv, Books, MergeOrganizations, shipments' = shipments
  PROVE  Balanced'
<1> DEFINE g == OnRoad(shipments)
<1>1. \/ Becomes(Synchronized(Ledger, people))
      \/ /\ Len(organizations) < MaxOrganizations
         /\ \E x, y \in ActiveOf(organizations) :
              x < y /\ Becomes(Synchronized(Merged(Ledger, x, y), people'))
  BY DEF MergeOrganizations
<1>2. /\ Sound(Ledger) /\ Clean(Ledger)
      /\ Counted(Ledger) /\ Short(Ledger, 0, g, 0) /\ g \in Int
  BY BooksOpen
<1>3. CASE Becomes(Synchronized(Ledger, people))
  <2>1. PICK v : v = Synchronized(Ledger, people) /\ Becomes(v)
    BY <1>3
  <2>2. Counted(v) /\ Short(v, 0, g, 0)
    BY <1>2, <2>1, SynchronizedAccounts
  <2> QED
    BY <2>1, <2>2, BalancedKept
<1>4. ASSUME Len(organizations) < MaxOrganizations,
             NEW x \in ActiveOf(organizations), NEW y \in ActiveOf(organizations), x < y,
             Becomes(Synchronized(Merged(Ledger, x, y), people'))
      PROVE  Balanced'
  <2>1. PICK n : n = Len(organizations) + 1
    OBVIOUS
  <2>2. PICK u : u = Merged(Ledger, x, y)
    OBVIOUS
  <2>3. PICK v : v = Synchronized(u, people')
    OBVIOUS
  <2>4. MayMerge(Ledger, x, y, n)
    <3>1. Len(organizations) \in Nat /\ x \in Int /\ y \in Int
      BY <1>2, LedgerIs, ListFacts DEF Sound, Organizations, ActiveOf
    <3> QED
      BY <1>4, <2>1, <3>1, LedgerIs, ConflictAssumption DEF MayMerge
  <2>5. Becomes(v)
    BY <1>4, <2>2, <2>3
  <2> HIDE DEF g
  <2>6. Sound(u)
    <3>1. /\ Sound(u) /\ Clean(u) /\ (\A F : x \notin F /\ y \notin F => Grows(F, Ledger, u))
          /\ n \in 1 .. MaxOrganizations
          /\ DOMAIN u.organizations = DOMAIN Ledger.organizations \cup {n}
          /\ n \notin DOMAIN Ledger.organizations
          /\ \A o \in DOMAIN Ledger.organizations : o \notin {x, y} =>
               u.organizations[o] = Ledger.organizations[o]
          /\ \A o \in {x, y} : u.organizations[o].status = "merged"
          /\ n \in ActiveOf(u.organizations)
      BY <1>2, <2>2, <2>4, MergedLedger
    <3> QED
      BY <3>1
  <2>7. Counted(u) /\ Short(u, 0, g, 0)
    BY <1>2, <2>2, <2>4, MergedAccounts
  <2>8. Counted(v) /\ Short(v, 0, g, 0)
    BY <2>3, <2>6, <2>7, SynchronizedAccounts
  <2> QED
    BY <2>5, <2>8, BalancedKept DEF g
<1> QED
  BY <1>1, <1>3, <1>4

\* What a collapsed organization had in its pools is handed in.
LEMMA CollapseBalances ==
  ASSUME Inv, Books, NEW o, Collapse(o), shipments' = shipments
  PROVE  Balanced'
<1>0. PICK u : u = DemobilizedPools(Ledger, {o})
  OBVIOUS
<1> DEFINE v == [u EXCEPT
             !.organizations[o] = [@ EXCEPT !.members = {}, !.status = "collapsed"],
             !.formations = [f \in DOMAIN @ |-> IF @[f].organization = o
                                                THEN [@[f] EXCEPT !.effective = FALSE] ELSE @[f]]]
           g == OnRoad(shipments)
<1>1. Becomes(v)
  BY <1>0 DEF Collapse
<1>2. /\ Sound(Ledger) /\ Clean(Ledger)
      /\ Counted(Ledger) /\ Short(Ledger, 0, g, 0) /\ g \in Int
  BY BooksOpen
<1> HIDE DEF g
<1>3. /\ Sound(u) /\ (\A F : Grows(F, Ledger, u))
      /\ u.organizations = Ledger.organizations /\ u.formations = Ledger.formations
      /\ u.sources = Ledger.sources
      /\ \A k \in Keys : k[1] \in {o} => u.pools[k] = 0 /\ u.reserves[k] = 0
      /\ \A k \in Keys : k[1] \notin {o} =>
           u.pools[k] = Ledger.pools[k] /\ u.reserves[k] = Ledger.reserves[k]
  BY <1>0, <1>2, DemobilizedPoolsLedger
<1>4. Counted(u) /\ Short(u, 0, g, 0)
  BY <1>0, <1>2, DemobilizedPoolsAccounts
<1>5. /\ DOMAIN u = LedgerFields
      /\ \A x \in DOMAIN u.organizations : DOMAIN u.organizations[x] = OrganizationFields
      /\ \A f \in DOMAIN u.formations : DOMAIN u.formations[f] = FormationFields
  BY <1>3 DEF Sound, Organizations, Formations
<1>6. /\ v.organizations = [u.organizations EXCEPT ![o] = [@ EXCEPT !.members = {}, !.status = "collapsed"]]
      /\ v.formations = [f \in DOMAIN u.formations |-> IF u.formations[f].organization = o
                           THEN [u.formations[f] EXCEPT !.effective = FALSE] ELSE u.formations[f]]
      /\ v.sources = u.sources /\ v.pools = u.pools /\ v.reserves = u.reserves
      /\ v.demobilized = u.demobilized /\ v.expected = u.expected
  BY <1>5 DEF LedgerFields
<1> HIDE DEF v
<1>7. SameHoldings(u.organizations, v.organizations)
  BY <1>5, <1>6 DEF SameHoldings, OrganizationFields
<1>8. SameForces(u.formations, v.formations)
  BY <1>5, <1>6 DEF SameForces, FormationFields
<1>9. SameAccounts(u, v)
  BY <1>6, <1>7, <1>8 DEF SameAccounts, SameStocks
<1>10. Counted(v) /\ Short(v, 0, g, 0)
  BY <1>3, <1>4, <1>6, <1>9, AccountsStay
<1> QED
  BY <1>1, <1>10, BalancedKept DEF g

\* Founders bring what they contribute, as supply and as resources.
LEMMA MatureBalances ==
  ASSUME Inv, Books, NEW c \in DOMAIN Community, NEW r \in Contributions, NEW stock \in 0 .. r,
         Mature(c, r, stock), shipments' = shipments
  PROVE  Balanced'
<1> DEFINE o == Len(organizations) + 1
           founders == protos[c].founders
           fraction == protos[c].fraction
           personnel == Cardinality(founders) * fraction
           born == [kind |-> "insurgent", status |-> "active", members |-> founders,
                    resources |-> r - stock, party |-> FALSE, branches |-> 0]
           fresh == Fresh(o, Community[c], personnel, stock)
           orgs == Append(organizations, born)
           forms == Append(formations, fresh)
           v == [Ledger EXCEPT
                   !.organizations = Append(@, born), !.formations = Append(@, fresh),
                   !.expected = [supply |-> @.supply + stock, manpower |-> @.manpower + personnel,
                                 resources |-> @.resources + r - stock]]
           g == OnRoad(shipments)
<1>1. founders # {} /\ Becomes(v)
  BY DEF Mature
<1>2. /\ Sound(Ledger) /\ Clean(Ledger)
      /\ Counted(Ledger) /\ Short(Ledger, 0, g, 0) /\ g \in Int
  BY BooksOpen
<1>3. founders \subseteq Persons /\ fraction \in Nat /\ fraction > 0
  BY <1>1 DEF Inv, Belong
<1>4. personnel \in Int /\ r \in Nat /\ stock \in Nat /\ r - stock \in Int
  <2>1. Cardinality(founders) \in Nat
    BY <1>3, EcologyAssumption, FS_Subset, FS_CardinalityType
  <2>2. r \in Nat
    BY EcologyAssumption
  <2> QED
    BY <1>3, <2>1, <2>2
<1>5. /\ fresh.personnel = personnel /\ fresh.stock = stock
      /\ fresh.capacity \in Int /\ fresh.stock <= fresh.capacity
  BY <1>4, FreshAccounts
<1>6. born.resources = r - stock /\ born.branches = 0
  OBVIOUS
<1>7. /\ v.organizations = orgs /\ v.formations = forms /\ v.sources = sources
      /\ v.pools = pools /\ v.reserves = reserves /\ v.demobilized = demobilized
      /\ v.expected = [supply |-> expected.supply + stock, manpower |-> expected.manpower + personnel,
                       resources |-> expected.resources + r - stock]
  BY DEF Ledger
<1> HIDE DEF v, fresh, born, fraction, founders, g
<1>8. Appends(organizations, born, orgs) /\ Appends(formations, fresh, forms)
  BY DEF Appends
<1>9. /\ Organizations(organizations) /\ Formations(formations)
      /\ Branching(organizations) /\ Carrying(formations)
      /\ \A s \in DOMAIN sources : sources[s].stock \in Int
      /\ demobilized \in [personnel: Int, arms: Int]
      /\ expected \in [supply: Int, manpower: Int, resources: Int]
  BY <1>2, LedgerHas DEF Sound, Counted
<1> HIDE DEF orgs, forms, personnel
<1>10. Wealth(orgs) = Wealth(organizations) + born.resources /\ Branching(orgs)
  BY <1>4, <1>6, <1>8, <1>9, WealthMore
<1>11. /\ Men(forms) = Men(formations) + fresh.personnel /\ Goods(forms) = Goods(formations) + fresh.stock
       /\ Carrying(forms)
  BY <1>4, <1>5, <1>8, <1>9, MenMore
<1>12. Counted(v)
  BY <1>4, <1>7, <1>9, <1>10, <1>11 DEF Counted
<1>13. Short(v, 0, g, 0)
  <2>1. /\ Men(formations) \in Int /\ Goods(formations) \in Int /\ Goods(sources) \in Int
        /\ Wealth(organizations) \in Int /\ Pool(pools) \in Int /\ Pool(reserves) \in Int
        /\ demobilized.personnel \in Int /\ demobilized.arms \in Int
        /\ expected.manpower \in Int /\ expected.supply \in Int /\ expected.resources \in Int
    BY <1>2, AccountsAreNumbers, LedgerHas
  <2>2. /\ Men(formations) + Pool(pools) + demobilized.personnel + 0 = expected.manpower
        /\ Goods(sources) + Goods(formations) + Pool(reserves) + demobilized.arms + g = expected.supply
        /\ Wealth(organizations) + 0 = expected.resources
    BY <1>2, LedgerHas DEF Short, MenOf, GoodsOf
  <2>3. /\ Men(v.formations) = Men(formations) + personnel
        /\ Goods(v.formations) = Goods(formations) + stock
        /\ Wealth(v.organizations) = Wealth(organizations) + (r - stock)
        /\ v.expected.supply = expected.supply + stock
        /\ v.expected.manpower = expected.manpower + personnel
        /\ v.expected.resources = expected.resources + r - stock
    BY <1>5, <1>6, <1>7, <1>10, <1>11
  <2> DEFINE men == Men(formations)  fgoods == Goods(formations)  sgoods == Goods(sources)
             wealth == Wealth(organizations) pool == Pool(pools) reserve == Pool(reserves)
             dp == demobilized.personnel da == demobilized.arms
             em == expected.manpower es == expected.supply er == expected.resources
  <2>4. /\ men \in Int /\ fgoods \in Int /\ sgoods \in Int /\ wealth \in Int /\ pool \in Int
        /\ reserve \in Int /\ dp \in Int /\ da \in Int /\ em \in Int /\ es \in Int /\ er \in Int
    BY <2>1
  <2>5. /\ men + pool + dp + 0 = em /\ sgoods + fgoods + reserve + da + g = es
        /\ wealth + 0 = er
    BY <2>2
  <2> HIDE DEF men, fgoods, sgoods, wealth, pool, reserve, dp, da, em, es, er
  <2>6. /\ (men + personnel) + pool + dp + 0 = em + personnel
        /\ sgoods + (fgoods + stock) + reserve + da + g = es + stock
        /\ wealth + (r - stock) + 0 = er + r - stock
    BY <1>2, <1>4, <2>4, <2>5
  <2> QED
    BY <1>7, <2>3, <2>6 DEF Short, MenOf, GoodsOf, men, fgoods, sgoods, wealth, pool, reserve, dp, da, em, es, er
<1> QED
  BY <1>1, <1>12, <1>13, BalancedKept DEF g

\* Income is expected where it is paid.
LEMMA EconomyBalances ==
  ASSUME Inv, Books, NEW income \in [DOMAIN organizations -> {0, 1}], Economy(income),
         shipments' = shipments
  PROVE  Balanced'
<1> DEFINE orgs == [o \in DOMAIN organizations |-> Paid(organizations[o], income[o])]
           v == [Ledger EXCEPT
                   !.organizations = [o \in DOMAIN @ |-> Paid(@[o], income[o])],
                   !.expected.resources = @ + SumFunction(income)]
           sum == SumFunction(income)
           g == OnRoad(shipments)
<1>1. Becomes(v)
  BY DEF Economy
<1>2. /\ Sound(Ledger) /\ Clean(Ledger)
      /\ Counted(Ledger) /\ Short(Ledger, 0, g, 0) /\ g \in Int
  BY BooksOpen
<1>3. /\ v.organizations = orgs /\ v.formations = formations /\ v.sources = sources
      /\ v.pools = pools /\ v.reserves = reserves /\ v.demobilized = demobilized
      /\ v.expected = [expected EXCEPT !.resources = @ + sum]
  BY DEF Ledger
<1>4. /\ Organizations(organizations) /\ Branching(organizations) /\ Carrying(formations)
      /\ \A s \in DOMAIN sources : sources[s].stock \in Int
      /\ demobilized \in [personnel: Int, arms: Int]
      /\ expected \in [supply: Int, manpower: Int, resources: Int]
  BY <1>2, LedgerHas DEF Sound, Counted
<1>5. sum = SumFunctionOnSet(income, DOMAIN organizations)
  BY DEF SumFunction
<1>6. \A o \in DOMAIN organizations : income[o] \in Int
  OBVIOUS
<1>7. orgs = [o \in DOMAIN organizations |-> Paid(organizations[o], income[o])]
  OBVIOUS
<1> HIDE DEF v, orgs, sum, g
<1>8. /\ Wealth(orgs) = Wealth(organizations) + SumFunctionOnSet(income, DOMAIN organizations)
      /\ SumFunctionOnSet(income, DOMAIN organizations) \in Int /\ Branching(orgs)
  BY <1>4, <1>6, <1>7, WealthPaid
<1>9. Wealth(orgs) = Wealth(organizations) + sum /\ sum \in Int
  BY <1>5, <1>8
<1>10. Counted(v)
  BY <1>3, <1>4, <1>8, <1>9 DEF Counted
<1>11. Short(v, 0, g, 0)
  <2>1. /\ MenOf(v) = MenOf(Ledger) /\ GoodsOf(v) = GoodsOf(Ledger)
        /\ v.expected.manpower = Ledger.expected.manpower
        /\ v.expected.supply = Ledger.expected.supply
    BY <1>3, <1>4, LedgerHas DEF MenOf, GoodsOf
  <2>2. v.expected.resources = Ledger.expected.resources + sum
    BY <1>3, <1>4, LedgerHas
  <2>3. Wealth(organizations) \in Int /\ Wealth(organizations) + 0 = Ledger.expected.resources
    BY <1>2, AccountsAreNumbers, LedgerHas DEF Short
  <2>4. Wealth(v.organizations) + 0 = v.expected.resources
    BY <1>3, <1>9, <2>2, <2>3
  <2> QED
    BY <1>2, <2>1, <2>4 DEF Short
<1> QED
  BY <1>1, <1>10, <1>11, BalancedKept DEF g

LEMMA LifecycleBalances ==
  ASSUME Inv, Books, LifecycleNext, shipments' = shipments
  PROVE  Balanced'
<1>1. CASE ProcessOrganizationEcology
  BY <1>1, BalancedSame DEF ProcessOrganizationEcology, Books
<1>2. CASE MergeOrganizations
  BY <1>2, MergeBalances
<1>3. ASSUME NEW c \in DOMAIN Community, Incubate(c) PROVE Balanced'
  BY <1>3, BalancedSame DEF Incubate, Books
<1>4. ASSUME NEW c \in DOMAIN Community, NEW founders \in SUBSET Persons, NEW n \in 1 .. Cohorts,
             FormProto(c, founders, n)
      PROVE  Balanced'
  BY <1>4, BalancedSame DEF FormProto, Books
<1>5. ASSUME NEW c \in DOMAIN Community, NEW r \in Contributions, NEW stock \in 0 .. r,
             Mature(c, r, stock)
      PROVE  Balanced'
  BY <1>5, MatureBalances
<1>6. ASSUME NEW o \in DOMAIN organizations, Persist(o) PROVE Balanced'
  BY <1>6, BalancedSame DEF Persist, Books
<1>7. ASSUME NEW o \in DOMAIN organizations, Split(o) \/ Collapse(o) PROVE Balanced'
  BY <1>7, SplitBalances, CollapseBalances
<1> QED
  BY <1>1, <1>2, <1>3, <1>4, <1>5, <1>6, <1>7 DEF LifecycleNext

LEMMA MobilizationBooks ==
  ASSUME Inv, Books, Mobilization
  PROVE  Books'
<1>1. UNCHANGED logisticsVars /\ shipments' = shipments /\ EcologyNext
  BY DEF Mobilization, logisticsVars
<1>2. Balanced'
  BY <1>1, RecruitmentBalances, LifecycleBalances, EconomyBalances DEF EcologyNext
<1>3. Staying
  BY MobilizationKeeps
<1> QED
  BY <1>1, <1>2, <1>3, StayingGrows, RoadsKept DEF Books

\* A ledger that may be written: it is complete and nothing is missing from it.
Fair(w, g) == Sound(w) /\ Clean(w) /\ Counted(w) /\ Short(w, 0, g, 0)

\* What fighters hand in, what parties are given and what is wound up stays in the books.
LEMMA ImplementBalances ==
  ASSUME Inv, Books, NEW a, NEW violated, NEW progress, NEW completes \in BOOLEAN, NEW fails \in BOOLEAN,
         NEW amount, NEW arms, Implement(a, violated, progress, completes, fails, amount, arms),
         DOMAIN amount \subseteq DOMAIN formations, DOMAIN arms = DOMAIN amount,
         \A f \in DOMAIN amount : amount[f] \in Int /\ arms[f] \in Nat,
         shipments' = shipments
  PROVE  Balanced'
<1>1. PICK S : S = agreements[a].signatories
  OBVIOUS
<1>2. PICK handed : handed = IF progress = "none" THEN Ledger ELSE Demobilized(Ledger, amount, arms)
  OBVIOUS
<1>3. PICK incorporated :
        incorporated = IF progress = "incorporating" THEN Incorporated(handed, S) ELSE handed
  OBVIOUS
<1>4. PICK completed :
        completed = IF completes THEN Completed(incorporated, S) ELSE incorporated
  OBVIOUS
<1>5. PICK w : w = IF fails THEN Failed(completed, S) ELSE completed
  OBVIOUS
<1>6. /\ Becomes(w)
      /\ \A f \in DOMAIN amount : arms[f] <= Least(formations[f].stock, amount[f])
  BY <1>1, <1>2, <1>3, <1>4, <1>5 DEF Implement, Incorporated
<1>7. PICK g : g = OnRoad(shipments)
  OBVIOUS
<1>8. Fair(Ledger, g)
  BY <1>7, BooksOpen DEF Fair
<1>9. Handed(Ledger, amount, arms)
  <2>1. ASSUME NEW f \in DOMAIN amount
        PROVE  arms[f] <= formations[f].stock
    <3>1. formations[f].stock \in Nat /\ amount[f] \in Int /\ arms[f] \in Nat
      BY <1>8, LedgerHas DEF Fair, Counted, Carrying
    <3>2. arms[f] <= Least(formations[f].stock, amount[f])
      BY <1>6
    <3> QED
      BY <3>1, <3>2 DEF Least
  <2> QED
    BY <2>1, LedgerHas DEF Handed
<1>10. Fair(handed, g)
  <2>1. CASE progress = "none"
    BY <1>2, <1>8, <2>1
  <2>2. CASE progress # "none"
    <3>1. handed = Demobilized(Ledger, amount, arms)
      BY <1>2, <2>2
    <3>2. Sound(Ledger) /\ Clean(Ledger) /\ Counted(Ledger) /\ Short(Ledger, 0, g, 0)
      BY <1>8 DEF Fair
    <3>3. Counted(handed) /\ Short(handed, 0, g, 0)
      BY <1>9, <3>1, <3>2, DemobilizedAccounts
    <3>4. PICK F : F = {}
      OBVIOUS
    <3>7. \A f \in DOMAIN amount : amount[f] \in Int
      OBVIOUS
    <3>8. \A f \in DOMAIN amount \cap DOMAIN Ledger.formations : Ledger.formations[f].organization \notin F
      BY <3>4
    <3>5. Sound(handed)
      BY <3>1, <3>2, <3>7, <3>8, DemobilizedLedger
    <3>6. Clean(handed)
      BY <3>1, <3>2, <3>7, <3>8, DemobilizedLedger
    <3> QED
      BY <3>3, <3>5, <3>6 DEF Fair
  <2> QED
    BY <2>1, <2>2
<1>11. Fair(incorporated, g)
  <2>1. CASE progress = "incorporating"
    <3>1. incorporated = Incorporated(handed, S)
      BY <1>3, <2>1
    <3>2. Sound(handed) /\ Clean(handed) /\ Counted(handed) /\ Short(handed, 0, g, 0)
      BY <1>10 DEF Fair
    <3>3. /\ Sound(incorporated) /\ Clean(incorporated) /\ (\A G : Grows(G, handed, incorporated))
          /\ Ranks(handed, incorporated)
          /\ \A o \in DOMAIN handed.organizations :
               incorporated.organizations[o].members = handed.organizations[o].members
      BY <3>1, <3>2, IncorporatedLedger
    <3>4. Counted(incorporated) /\ Short(incorporated, 0, g, 0)
      BY <3>1, <3>2, IncorporatedAccounts
    <3> QED
      BY <3>3, <3>4 DEF Fair
  <2> QED
    BY <1>3, <1>10, <2>1
<1>12. Fair(completed, g)
  <2>1. CASE completes
    <3>1. completed = Completed(incorporated, S)
      BY <1>4, <2>1
    <3>2. Sound(incorporated) /\ Clean(incorporated) /\ Counted(incorporated) /\ Short(incorporated, 0, g, 0)
      BY <1>11 DEF Fair
    <3>3. /\ Sound(completed) /\ Clean(completed) /\ (\A G : Grows(G, incorporated, completed))
          /\ DOMAIN completed.organizations = DOMAIN incorporated.organizations
          /\ \A o \in DOMAIN incorporated.organizations :
               /\ completed.organizations[o].members = incorporated.organizations[o].members
               /\ completed.organizations[o].status =
                    IF o \in S /\ incorporated.organizations[o].status \in Statuses
                    THEN "political" ELSE incorporated.organizations[o].status
      BY <3>1, <3>2, CompletedLedger
    <3>4. Counted(completed) /\ Short(completed, 0, g, 0)
      BY <3>1, <3>2, CompletedAccounts
    <3> QED
      BY <3>3, <3>4 DEF Fair
  <2> QED
    BY <1>4, <1>11, <2>1
<1>13. Counted(w) /\ Short(w, 0, g, 0)
  <2>1. Sound(completed) /\ Counted(completed) /\ Short(completed, 0, g, 0)
    BY <1>12 DEF Fair
  <2>2. CASE fails
    <3>1. w = Settled(completed, S, {"political"}, "active")
      BY <1>5, <2>2 DEF Failed
    <3> QED
      BY <2>1, <3>1, SettledAccounts
  <2> QED
    BY <1>5, <2>1, <2>2
<1> QED
  BY <1>6, <1>7, <1>13, BalancedKept

LEMMA PeaceBalances ==
  ASSUME Inv, Books, Peace
  PROVE  Balanced'
<1>1. UNCHANGED logisticsVars /\ shipments' = shipments
  BY DEF Peace, logisticsVars
<1>2. ASSUME NEW talks, NEW accepted, ProcessPeace(talks, accepted) PROVE Balanced'
  BY <1>1, <1>2, BalancedSame DEF ProcessPeace, Books
<1>3. CASE \E talks \in {negotiation, ActiveOf(organizations)} :
             \E accepted \in SUBSET talks : ProcessPeace(talks, accepted)
  BY <1>2, <1>3
<1>4. CASE ~\E talks \in {negotiation, ActiveOf(organizations)} :
              \E accepted \in SUBSET talks : ProcessPeace(talks, accepted)
  <2>1. PICK a, own : /\ a = Head(pending)[2]
                      /\ own = {f \in DOMAIN formations :
                                  formations[f].organization \in agreements[a].signatories}
    OBVIOUS
  <2>2. \E progress \in Progress, completes, fails \in BOOLEAN :
           \E violated \in SUBSET (agreements[a].signatories \cap ceasefires),
              amount, arms \in [own -> IF progress = "none" THEN {0} ELSE {0, 1}] :
             Implement(a, violated, progress, completes, fails, amount, arms)
    BY <1>4, <2>1 DEF Peace, PeaceNext
  <2>3. PICK progress \in Progress, completes \in BOOLEAN, fails \in BOOLEAN :
          \E violated \in SUBSET (agreements[a].signatories \cap ceasefires),
             amount, arms \in [own -> IF progress = "none" THEN {0} ELSE {0, 1}] :
            Implement(a, violated, progress, completes, fails, amount, arms)
    BY <2>2
  <2>4. PICK violated \in SUBSET (agreements[a].signatories \cap ceasefires),
             amount \in [own -> IF progress = "none" THEN {0} ELSE {0, 1}],
             arms \in [own -> IF progress = "none" THEN {0} ELSE {0, 1}] :
          Implement(a, violated, progress, completes, fails, amount, arms)
    BY <2>3
  <2>5. /\ DOMAIN amount \subseteq DOMAIN formations /\ DOMAIN arms = DOMAIN amount
        /\ \A f \in DOMAIN amount : amount[f] \in Int /\ arms[f] \in Nat
    BY <2>1
  <2> QED
    BY <1>1, <2>4, <2>5, ImplementBalances
<1> QED
  BY <1>3, <1>4

LEMMA PeaceBooks ==
  ASSUME Inv, Books, Peace
  PROVE  Books'
<1>1. UNCHANGED logisticsVars
  BY DEF Peace, logisticsVars
<1>2. Balanced' /\ Staying
  BY PeaceBalances, PeaceKeeps
<1> QED
  BY <1>1, <1>2, StayingGrows, RoadsKept DEF Books

-----------------------------------------------------------------------------
(* Supply that is made, sent, delivered, used and lost.                    *)

\* One list, one place, n more.
OneStock(list, after, f, n) ==
  /\ DOMAIN after = DOMAIN list /\ f \in DOMAIN list /\ n \in Int
  /\ after[f].stock = list[f].stock + n
  /\ \A x \in DOMAIN list : x # f => after[x].stock = list[x].stock

LEMMA StockChanged ==
  ASSUME NEW list, Numbers(Stock(list), DOMAIN list), NEW after, NEW f, NEW n,
         OneStock(list, after, f, n)
  PROVE  Goods(after) = Goods(list) + n
<1>1. /\ DOMAIN after = DOMAIN list /\ f \in DOMAIN list /\ n \in Int
      /\ ChangesAt(Stock(list), Stock(after), DOMAIN list, f, n)
  BY DEF OneStock, ChangesAt, Stock
<1> QED
  BY <1>1, SumChangedAt DEF Goods

\* As many men, and as much supply, as before.
AsMany(forms, after) ==
  DOMAIN after = DOMAIN forms /\ \A f \in DOMAIN forms : after[f].personnel = forms[f].personnel
AsMuch(list, after) ==
  DOMAIN after = DOMAIN list /\ \A f \in DOMAIN list : after[f].stock = list[f].stock

LEMMA MenSame ==
  ASSUME NEW forms, Numbers(Soldiers(forms), DOMAIN forms), NEW after, AsMany(forms, after)
  PROVE  Men(after) = Men(forms)
<1>1. DOMAIN after = DOMAIN forms /\ Agree(Soldiers(forms), Soldiers(after), DOMAIN forms)
  BY DEF AsMany, Agree, Soldiers
<1> QED
  BY <1>1, SumSame DEF Men

LEMMA GoodsSame ==
  ASSUME NEW list, Numbers(Stock(list), DOMAIN list), NEW after, AsMuch(list, after)
  PROVE  Goods(after) = Goods(list)
<1>1. DOMAIN after = DOMAIN list /\ Agree(Stock(list), Stock(after), DOMAIN list)
  BY DEF AsMuch, Agree, Stock
<1> QED
  BY <1>1, SumSame DEF Goods

\* What is delivered is no longer on the road, and what is sent is.
Deliverable(ships) == [s \in DOMAIN ships |-> ships[s].deliverable]

LEMMA RoadNumbers ==
  ASSUME Roads
  PROVE  Numbers(Deliverable(shipments), DOMAIN shipments)
BY RoadIsANumber DEF Roads, Numbers, Deliverable

LEMMA RoadWithout ==
  ASSUME Roads, NEW s \in DOMAIN shipments, NEW after, after = Without(shipments, s)
  PROVE  OnRoad(after) = OnRoad(shipments) - shipments[s].deliverable
<1> DEFINE f == Deliverable(shipments)
           S == DOMAIN shipments
<1>1. DOMAIN after = S \ {s} /\ \A x \in S \ {s} : after[x] = shipments[x]
  BY DEF Without
<1>2. Numbers(f, S) /\ f[s] = shipments[s].deliverable /\ f[s] \in Int
  BY RoadNumbers DEF Deliverable, Numbers
<1>3. Agree(f, Deliverable(after), S \ {s})
  BY <1>1 DEF Agree, Deliverable
<1> HIDE DEF f, S
<1>4. s \in S /\ S \ {s} \in SUBSET S
  BY DEF S
<1>5. Numbers(f, S \ {s}) /\ SumFunctionOnSet(f, S \ {s}) \in Int
  BY <1>2, <1>4, SubsetSum
<1>6. SumFunctionOnSet(Deliverable(after), S \ {s}) = SumFunctionOnSet(f, S \ {s})
  BY <1>3, <1>5, SumSame
<1>7. SumFunctionOnSet(f, S) = f[s] + SumFunctionOnSet(f, S \ {s})
  BY <1>2, <1>4, SumAny
<1>8. /\ OnRoad(after) = SumFunctionOnSet(Deliverable(after), DOMAIN after)
      /\ OnRoad(shipments) = SumFunctionOnSet(f, S)
  BY DEF OnRoad, Deliverable, f, S
<1> QED
  BY <1>1, <1>2, <1>5, <1>6, <1>7, <1>8

LEMMA RoadWith ==
  ASSUME Roads, NEW s, s \notin DOMAIN shipments, NEW e, e.deliverable \in Int,
         NEW after, after = With(shipments, s, e)
  PROVE  OnRoad(after) = OnRoad(shipments) + e.deliverable
<1> DEFINE f == Deliverable(shipments)
           h == Deliverable(after)
           S == DOMAIN shipments
<1>1. DOMAIN after = S \cup {s} /\ (\A x \in S : after[x] = shipments[x]) /\ after[s] = e
  BY DEF With
<1>2. Numbers(f, S)
  BY RoadNumbers
<1>3. Agree(f, h, S) /\ h[s] = e.deliverable
  BY <1>1 DEF Agree, Deliverable
<1>4. s \notin S
  OBVIOUS
<1> HIDE DEF f, h, S
<1>5. SumFunctionOnSet(h, S) = SumFunctionOnSet(f, S) /\ Numbers(h, S)
  BY <1>2, <1>3, SumSame
<1>6. SumFunctionOnSet(h, S \cup {s}) = SumFunctionOnSet(h, S) + h[s]
  BY <1>3, <1>4, <1>5, SumOneMore
<1>8. /\ OnRoad(after) = SumFunctionOnSet(h, DOMAIN after)
      /\ OnRoad(shipments) = SumFunctionOnSet(f, S)
  BY DEF OnRoad, Deliverable, h, f, S
<1> QED
  BY <1>1, <1>3, <1>5, <1>6, <1>8

\* So many more men, and so much more supply with formations, in sources and on the
\* road, as are expected.
Expects(men, goods) ==
  expected' = [supply |-> expected.supply + goods, manpower |-> expected.manpower + men,
               resources |-> expected.resources]
Moved(men, held, stored, sent) ==
  /\ men \in Int /\ held \in Int /\ stored \in Int /\ sent \in Int
  /\ UNCHANGED <<organizations, pools, reserves, demobilized>>
  /\ Carrying(formations') /\ Stocked(sources')
  /\ Men(formations') = Men(formations) + men
  /\ Goods(formations') = Goods(formations) + held
  /\ Goods(sources') = Goods(sources) + stored
  /\ OnRoad(shipments') = OnRoad(shipments) + sent
  /\ Expects(men, held + stored + sent)

LEMMA MovedBalances ==
  ASSUME Inv, Books, NEW men, NEW held, NEW stored, NEW sent, Moved(men, held, stored, sent)
  PROVE  Balanced'
<1> DEFINE g == OnRoad(shipments)
           v == Ledger'
<1>1. /\ Sound(Ledger) /\ Clean(Ledger)
      /\ Counted(Ledger) /\ Short(Ledger, 0, g, 0) /\ g \in Int
  BY BooksOpen
<1>2. /\ v.organizations = organizations /\ v.formations = formations'
      /\ v.sources = sources' /\ v.pools = pools /\ v.reserves = reserves
      /\ v.demobilized = demobilized /\ v.expected = expected'
  BY DEF Ledger, Moved
<1>3. /\ men \in Int /\ held \in Int /\ stored \in Int /\ sent \in Int
      /\ Carrying(formations') /\ Stocked(sources')
      /\ Men(formations') = Men(formations) + men
      /\ Goods(formations') = Goods(formations) + held
      /\ Goods(sources') = Goods(sources) + stored
      /\ OnRoad(shipments') = g + sent
      /\ expected' = [supply |-> expected.supply + (held + stored + sent),
                      manpower |-> expected.manpower + men, resources |-> expected.resources]
  BY DEF Moved, Expects
<1> DEFINE h == OnRoad(shipments')
<1> HIDE DEF v, g, h
<1>4. /\ Branching(organizations) /\ demobilized \in [personnel: Int, arms: Int]
      /\ expected \in [supply: Int, manpower: Int, resources: Int]
  BY <1>1, LedgerHas DEF Counted
<1>5. Counted(v)
  <2>1. expected' \in [supply: Int, manpower: Int, resources: Int]
    BY <1>3, <1>4
  <2> QED
    BY <1>2, <1>3, <1>4, <2>1 DEF Counted, Stocked
<1>6. Short(v, 0, h, 0)
  <2>1. /\ Men(formations) \in Int /\ Goods(formations) \in Int /\ Goods(sources) \in Int
        /\ Wealth(organizations) \in Int /\ Pool(pools) \in Int /\ Pool(reserves) \in Int
        /\ demobilized.personnel \in Int /\ demobilized.arms \in Int
        /\ expected.manpower \in Int /\ expected.supply \in Int /\ expected.resources \in Int
    BY <1>1, AccountsAreNumbers, LedgerHas
  <2>2. /\ Men(formations) + Pool(pools) + demobilized.personnel + 0 = expected.manpower
        /\ Goods(sources) + Goods(formations) + Pool(reserves) + demobilized.arms + g = expected.supply
        /\ Wealth(organizations) + 0 = expected.resources
    BY <1>1, LedgerHas DEF Short, MenOf, GoodsOf
  <2>3. /\ Men(v.formations) = Men(formations) + men
        /\ Goods(v.formations) = Goods(formations) + held
        /\ Goods(v.sources) = Goods(sources) + stored
        /\ v.expected.supply = expected.supply + (held + stored + sent)
        /\ v.expected.manpower = expected.manpower + men
        /\ v.expected.resources = expected.resources
        /\ h = g + sent
    BY <1>2, <1>3 DEF h
  <2> DEFINE mm == Men(formations)  fgoods == Goods(formations)  sgoods == Goods(sources)
             pool == Pool(pools) reserve == Pool(reserves)
             dp == demobilized.personnel da == demobilized.arms
             em == expected.manpower es == expected.supply
  <2>4. /\ mm \in Int /\ fgoods \in Int /\ sgoods \in Int /\ pool \in Int
        /\ reserve \in Int /\ dp \in Int /\ da \in Int /\ em \in Int /\ es \in Int
    BY <2>1
  <2>5. mm + pool + dp + 0 = em /\ sgoods + fgoods + reserve + da + g = es
    BY <2>2
  <2> HIDE DEF mm, fgoods, sgoods, pool, reserve, dp, da, em, es
  <2>6. /\ (mm + men) + pool + dp + 0 = em + men
        /\ (sgoods + stored) + (fgoods + held) + reserve + da + (g + sent) = es + (held + stored + sent)
    BY <1>1, <1>3, <2>4, <2>5
  <2>7. Wealth(v.organizations) + 0 = v.expected.resources
    BY <1>2, <2>2, <2>3
  <2> QED
    BY <1>2, <2>3, <2>6, <2>7 DEF Short, MenOf, GoodsOf, mm, fgoods, sgoods, pool, reserve, dp, da, em, es
<1> QED
  BY <1>5, <1>6 DEF Balanced, v, h

\* What there is to count, before a step of the forces.
LEMMA ForcesOpen ==
  ASSUME Inv, Books
  PROVE  /\ Numbers(Soldiers(formations), DOMAIN formations)
         /\ Numbers(Stock(formations), DOMAIN formations) /\ Numbers(Stock(sources), DOMAIN sources)
         /\ IsList(formations) /\ Stocked(sources) /\ Carrying(formations)
         /\ expected \in [supply: Int, manpower: Int, resources: Int]
         /\ Goods(formations) \in Int /\ Goods(sources) \in Int /\ Men(formations) \in Int
         /\ OnRoad(shipments) \in Int
<1>1. /\ Sound(Ledger) /\ Clean(Ledger)
      /\ Counted(Ledger) /\ Short(Ledger, 0, OnRoad(shipments), 0) /\ OnRoad(shipments) \in Int
  BY BooksOpen
<1> QED
  BY <1>1, AccountsAreNumbers, LedgerHas DEF Counted, Stocked, Sound, Formations

LEMMA FormationIs ==
  ASSUME Inv, Books, NEW f \in DOMAIN formations
  PROVE  /\ DOMAIN formations[f] = FormationFields /\ formations[f].personnel \in Int
         /\ formations[f].stock \in Nat /\ formations[f].capacity \in Int
         /\ formations[f].stock <= formations[f].capacity
<1>1. Sound(Ledger) /\ Carrying(formations)
  BY ForcesOpen DEF Inv
<1> QED
  BY <1>1, LedgerHas DEF Carrying, Sound, Formations

LEMMA SupplyExpected ==
  ASSUME Inv, Books, NEW n \in Int, expected' = [expected EXCEPT !.supply = @ + n]
  PROVE  Expects(0, n)
<1>1. expected \in [supply: Int, manpower: Int, resources: Int]
  BY ForcesOpen
<1> QED
  BY <1>1 DEF Expects

\* One formation gets or uses supply.
LEMMA OneFormation ==
  ASSUME Inv, Books, NEW f \in DOMAIN formations, NEW n \in Int,
         OneStock(formations, formations', f, n), AsMany(formations, formations'),
         Carrying(formations'), Expects(0, n),
         UNCHANGED <<organizations, sources, pools, reserves, demobilized, shipments>>
  PROVE  Balanced'
<1>1. /\ Numbers(Soldiers(formations), DOMAIN formations)
      /\ Numbers(Stock(formations), DOMAIN formations)
      /\ Stocked(sources) /\ Goods(sources) \in Int /\ Men(formations) \in Int
      /\ OnRoad(shipments) \in Int
  BY ForcesOpen
<1>2. PICK after : after = formations'
  OBVIOUS
<1>3. Goods(after) = Goods(formations) + n
  BY <1>1, <1>2, StockChanged
<1>4. Men(after) = Men(formations)
  BY <1>1, <1>2, MenSame
<1>5. n + 0 + 0 = n /\ 0 \in Int
  OBVIOUS
<1>6. Moved(0, n, 0, 0)
  BY <1>1, <1>2, <1>3, <1>4, <1>5 DEF Moved
<1> QED
  BY <1>6, MovedBalances

\* A formation that has less, at most what it has.
Spends(f, used) ==
  /\ DOMAIN formations' = DOMAIN formations
  /\ \A x \in DOMAIN formations : x # f => formations'[x] = formations[x]
  /\ formations'[f].personnel = formations[f].personnel
  /\ formations'[f].capacity = formations[f].capacity
  /\ formations'[f].stock = formations[f].stock - used

LEMMA SpendsSupply ==
  ASSUME Inv, Books, NEW f \in DOMAIN formations, NEW used \in Nat, used <= formations[f].stock,
         Spends(f, used)
  PROVE  /\ OneStock(formations, formations', f, -used) /\ AsMany(formations, formations')
         /\ Carrying(formations')
<1>1. /\ formations[f].stock \in Nat /\ formations[f].capacity \in Int
      /\ formations[f].stock <= formations[f].capacity
  BY FormationIs
<1>2. Carrying(formations)
  BY ForcesOpen
<1>3. /\ formations[f].stock - used \in Nat /\ formations[f].stock - used <= formations[f].capacity
      /\ formations[f].stock - used = formations[f].stock + -used /\ -used \in Int
  BY <1>1
<1>4. OneStock(formations, formations', f, -used)
  BY <1>3 DEF Spends, OneStock
<1>5. AsMany(formations, formations')
  BY DEF Spends, AsMany
<1>6. Carrying(formations')
  BY <1>1, <1>2, <1>3 DEF Spends, Carrying
<1> QED
  BY <1>4, <1>5, <1>6

LEMMA SpendingBalances ==
  ASSUME Inv, Books, NEW f \in DOMAIN formations, NEW used \in Nat, used <= formations[f].stock,
         Spends(f, used), expected' = [expected EXCEPT !.supply = @ - used],
         UNCHANGED <<organizations, sources, pools, reserves, demobilized, shipments>>
  PROVE  Balanced'
<1>1. /\ OneStock(formations, formations', f, -used) /\ AsMany(formations, formations')
      /\ Carrying(formations')
  BY SpendsSupply
<1>2. expected' = [expected EXCEPT !.supply = @ + -used] /\ -used \in Int
  <2>1. expected \in [supply: Int, manpower: Int, resources: Int]
    BY ForcesOpen
  <2> QED
    BY <2>1
<1>3. Expects(0, -used)
  BY <1>2, SupplyExpected
<1> QED
  BY <1>1, <1>2, <1>3, OneFormation

LEMMA PatrolBalances ==
  ASSUME Inv, Books, NEW f \in DOMAIN formations, NEW used \in 1 .. formations[f].personnel,
         Patrol(f, used)
  PROVE  Balanced'
<1>1. /\ DOMAIN formations[f] = FormationFields /\ formations[f].personnel \in Int
      /\ formations[f].stock \in Nat /\ IsList(formations)
  BY FormationIs, ForcesOpen
<1>2. /\ used <= Least(formations[f].stock, formations[f].personnel)
      /\ formations' = [formations EXCEPT ![f].stock = @ - used]
      /\ expected' = [expected EXCEPT !.supply = @ - used]
      /\ UNCHANGED <<organizations, sources, pools, reserves, demobilized, shipments>>
  BY DEF Patrol, logisticsVars
<1>3. used \in Nat /\ used <= formations[f].stock
  BY <1>1, <1>2 DEF Least
<1>4. Spends(f, used)
  BY <1>1, <1>2 DEF Spends, FormationFields
<1> QED
  BY <1>2, <1>3, <1>4, SpendingBalances

\* What a march costs is gone before it begins.
LEMMA DepartBalances ==
  ASSUME Inv, Books, NEW i \in DOMAIN orders, Depart(i)
  PROVE  Balanced'
<1>1. PICK f : f = orders[i].formation
  OBVIOUS
<1>2. PICK cost : cost = orders[i].cost
  OBVIOUS
<1>3. /\ cost <= formations[f].stock
      /\ formations' = [formations EXCEPT ![f].moving = TRUE, ![f].stock = @ - cost]
      /\ expected' = [expected EXCEPT !.supply = @ - cost]
      /\ UNCHANGED <<organizations, sources, pools, reserves, demobilized, shipments>>
  BY <1>1, <1>2 DEF Depart, Affordable
<1>4. f \in DOMAIN formations /\ cost \in Nat
  BY <1>1, <1>2 DEF Inv, Marches, Books, Roads
<1>5. DOMAIN formations[f] = FormationFields
  BY <1>4, FormationIs
<1>6. Spends(f, cost)
  BY <1>3, <1>4, <1>5 DEF Spends, FormationFields
<1> QED
  BY <1>3, <1>4, <1>6, SpendingBalances

LEMMA ArriveBalances ==
  ASSUME Inv, Books, NEW i \in DOMAIN orders, Arrive(i)
  PROVE  Balanced'
<1>1. PICK f : f = orders[i].formation
  OBVIOUS
<1>2. /\ formations' = [formations EXCEPT ![f].moving = FALSE, ![f].locality = orders[i].destination]
      /\ expected' = expected
      /\ UNCHANGED <<organizations, sources, pools, reserves, demobilized, shipments>>
  BY <1>1 DEF Arrive
<1>3. f \in DOMAIN formations
  BY <1>1 DEF Inv, Marches
<1>4. DOMAIN formations[f] = FormationFields /\ formations[f].stock \in Nat
  BY <1>3, FormationIs
<1>5. formations[f].stock - 0 = formations[f].stock /\ 0 <= formations[f].stock
  BY <1>4
<1>6. Spends(f, 0)
  BY <1>2, <1>3, <1>4, <1>5 DEF Spends, FormationFields
<1>7. expected' = [expected EXCEPT !.supply = @ - 0]
  <2>1. expected \in [supply: Int, manpower: Int, resources: Int]
    BY ForcesOpen
  <2> QED
    BY <1>2, <2>1
<1> QED
  BY <1>2, <1>3, <1>5, <1>6, <1>7, SpendingBalances, Zenon

\* What is produced is expected; capacities are no supply.
LEMMA UpdateLogisticsBalances ==
  ASSUME Inv, Books, NEW due, NEW made \in [DOMAIN sources -> 0 .. SourceCapacity],
         UpdateLogistics(due, made)
  PROVE  Balanced'
<1> DEFINE S == DOMAIN sources
<1>1. PICK after : after = sources'
  OBVIOUS
<1>2. PICK forms : forms = formations'
  OBVIOUS
<1>3. PICK sum : sum = SumFunction(made)
  OBVIOUS
<1>4. /\ after = [s \in S |-> [sources[s] EXCEPT !.stock = @ + made[s]]]
      /\ expected' = [expected EXCEPT !.supply = @ + sum]
      /\ forms = [f \in DOMAIN formations |-> Resized(formations[f])]
      /\ UNCHANGED <<organizations, pools, reserves, demobilized, shipments>>
  BY <1>1, <1>2, <1>3 DEF UpdateLogistics, logisticsVars
<1>5. /\ Numbers(Soldiers(formations), DOMAIN formations)
      /\ Numbers(Stock(formations), DOMAIN formations) /\ Numbers(Stock(sources), S)
      /\ Stocked(sources) /\ Carrying(formations)
      /\ expected \in [supply: Int, manpower: Int, resources: Int]
      /\ Goods(formations) \in Int /\ Goods(sources) \in Int /\ Men(formations) \in Int
      /\ OnRoad(shipments) \in Int
  BY ForcesOpen
<1>6. \A s \in S : DOMAIN sources[s] = SourceFields /\ sources[s].stock \in Int /\ made[s] \in Int
  BY <1>5, ConflictAssumption, LedgerHas DEF Inv, Sound, Sources, Stocked
<1>7. DOMAIN after = S /\ \A s \in S : after[s].stock = sources[s].stock + made[s]
  BY <1>4, <1>6 DEF SourceFields
<1>8. Goods(after) = Goods(sources) + sum /\ sum \in Int /\ Stocked(after)
  <2>1. Changes(Stock(sources), Stock(after), made, S, S)
    BY <1>6, <1>7 DEF Changes, Stock
  <2>2. Goods(after) = SumFunctionOnSet(Stock(after), S) /\ Goods(sources) = SumFunctionOnSet(Stock(sources), S)
    BY <1>7 DEF Goods
  <2>3. sum = SumFunctionOnSet(made, S)
    BY <1>3 DEF SumFunction
  <2>4. Stocked(after)
    BY <1>6, <1>7 DEF Stocked
  <2> HIDE DEF S
  <2>5. /\ SumFunctionOnSet(Stock(after), S) = SumFunctionOnSet(Stock(sources), S) + SumFunctionOnSet(made, S)
        /\ SumFunctionOnSet(Stock(after), S) \in Int /\ SumFunctionOnSet(Stock(sources), S) \in Int
        /\ SumFunctionOnSet(made, S) \in Int /\ Numbers(Stock(after), S)
    BY <1>5, <2>1, SumChanged
  <2> QED
    BY <2>2, <2>3, <2>4, <2>5
<1>9. \A f \in DOMAIN formations :
        /\ forms[f].personnel = formations[f].personnel /\ forms[f].stock = formations[f].stock
        /\ forms[f].stock \in Nat /\ forms[f].capacity \in Int /\ forms[f].stock <= forms[f].capacity
  <2>1. ASSUME NEW f \in DOMAIN formations
        PROVE  /\ forms[f].personnel = formations[f].personnel /\ forms[f].stock = formations[f].stock
               /\ forms[f].stock \in Nat /\ forms[f].capacity \in Int /\ forms[f].stock <= forms[f].capacity
    <3>1. /\ DOMAIN formations[f] = FormationFields /\ formations[f].personnel \in Int
          /\ formations[f].stock \in Nat
      BY FormationIs
    <3>2. formations[f].personnel * SupplyDays \in Int
      BY <3>1, ConflictAssumption
    <3>3. forms[f] = Resized(formations[f])
      BY <1>4
    <3>4. forms[f].personnel = formations[f].personnel /\ forms[f].stock = formations[f].stock
      BY <3>1, <3>3 DEF Resized, FormationFields
    <3>5. forms[f].capacity = Greatest(formations[f].personnel * SupplyDays, formations[f].stock)
      BY <3>1, <3>3 DEF Resized, FormationFields
    <3> QED
      BY <3>1, <3>2, <3>4, <3>5 DEF Greatest
  <2> QED
    BY <2>1
<1>10. AsMany(formations, forms) /\ AsMuch(formations, forms) /\ Carrying(forms)
  <2>1. DOMAIN forms = DOMAIN formations
    BY <1>4
  <2> QED
    BY <1>9, <2>1 DEF AsMany, AsMuch, Carrying
<1>11. Men(forms) = Men(formations) /\ Goods(forms) = Goods(formations)
  BY <1>5, <1>10, MenSame, GoodsSame
<1>12. Expects(0, sum)
  BY <1>4, <1>8, SupplyExpected
<1>13. 0 + sum + 0 = sum /\ 0 \in Int
  BY <1>8
<1>14. Moved(0, 0, sum, 0)
  BY <1>1, <1>2, <1>4, <1>5, <1>8, <1>10, <1>11, <1>12, <1>13 DEF Moved
<1> QED
  BY <1>14, MovedBalances

\* What there is no room for is lost, and no longer expected.
LEMMA DeliverBalances ==
  ASSUME Inv, Books, NEW s \in DOMAIN shipments, Deliver(s)
  PROVE  Balanced' /\ DOMAIN formations' = DOMAIN formations /\ shipments' = Without(shipments, s)
<1>1. PICK f : f = shipments[s].formation
  OBVIOUS
<1>2. PICK sent : sent = shipments[s].deliverable
  OBVIOUS
<1>3. PICK accepted : accepted = Least(sent, formations[f].capacity - formations[f].stock)
  OBVIOUS
<1>4. PICK forms : forms = formations'
  OBVIOUS
<1>5. PICK ships : ships = shipments'
  OBVIOUS
<1>6. /\ forms = [formations EXCEPT ![f].stock = @ + accepted]
      /\ expected' = [expected EXCEPT !.supply = @ - (sent - accepted)]
      /\ ships = Without(shipments, s)
      /\ UNCHANGED <<organizations, sources, pools, reserves, demobilized>>
  BY <1>1, <1>2, <1>3, <1>4, <1>5 DEF Deliver
<1>7. f \in DOMAIN formations /\ sent \in Nat
  BY <1>1, <1>2 DEF Books, Roads
<1>8. /\ DOMAIN formations[f] = FormationFields
      /\ formations[f].stock \in Nat /\ formations[f].capacity \in Int
      /\ formations[f].stock <= formations[f].capacity
  BY <1>7, FormationIs
<1>9. /\ accepted \in Nat /\ formations[f].stock + accepted \in Nat
      /\ formations[f].stock + accepted <= formations[f].capacity
  BY <1>3, <1>7, <1>8 DEF Least
<1>10. /\ Numbers(Soldiers(formations), DOMAIN formations)
       /\ Numbers(Stock(formations), DOMAIN formations)
       /\ Stocked(sources) /\ Carrying(formations)
       /\ expected \in [supply: Int, manpower: Int, resources: Int]
       /\ Goods(sources) \in Int /\ Men(formations) \in Int /\ OnRoad(shipments) \in Int
  BY ForcesOpen
<1>11. /\ DOMAIN forms = DOMAIN formations
       /\ \A x \in DOMAIN formations : x # f => forms[x] = formations[x]
       /\ forms[f].stock = formations[f].stock + accepted
       /\ forms[f].personnel = formations[f].personnel /\ forms[f].capacity = formations[f].capacity
  BY <1>6, <1>7, <1>8 DEF FormationFields
<1>12. Goods(forms) = Goods(formations) + accepted
  <2>1. OneStock(formations, forms, f, accepted)
    BY <1>7, <1>9, <1>11 DEF OneStock
  <2> QED
    BY <1>10, <2>1, StockChanged
<1>13. Men(forms) = Men(formations)
  <2>1. AsMany(formations, forms)
    BY <1>11 DEF AsMany
  <2> QED
    BY <1>10, <2>1, MenSame
<1>14. Carrying(forms)
  BY <1>8, <1>9, <1>10, <1>11 DEF Carrying
<1>15. OnRoad(ships) = OnRoad(shipments) - sent
  BY <1>2, <1>6, RoadWithout DEF Books
<1>16. /\ -sent \in Int /\ accepted + 0 + -sent \in Int /\ 0 \in Int
       /\ OnRoad(shipments) - sent = OnRoad(shipments) + -sent
       /\ expected.supply - (sent - accepted) = expected.supply + (accepted + 0 + -sent)
  BY <1>7, <1>9, <1>10
<1>17. Expects(0, accepted + 0 + -sent)
  <2>1. expected' = [expected EXCEPT !.supply = @ + (accepted + 0 + -sent)]
    BY <1>6, <1>16
  <2> QED
    BY <1>16, <2>1, SupplyExpected
<1>18. Moved(0, accepted, 0, -sent)
  BY <1>4, <1>5, <1>6, <1>9, <1>10, <1>12, <1>13, <1>14, <1>15, <1>16, <1>17 DEF Moved
<1> QED
  BY <1>4, <1>5, <1>6, <1>11, <1>18, MovedBalances

\* What a formation eats, and what is lost on the way to it, is no longer expected.
SentTo(f, used) ==
  \E s \in DOMAIN sources, sent \in 1 .. SourceCapacity : \E deliverable \in {0, sent} :
    /\ Ship(f, s, sent, deliverable)
    /\ expected' = [expected EXCEPT !.supply = @ - used - (sent - deliverable)]

LEMMA ShipBalances ==
  ASSUME Inv, Books, NEW f \in DOMAIN formations, NEW used \in Nat, used <= formations[f].stock,
         Spends(f, used), SentTo(f, used),
         UNCHANGED <<organizations, pools, reserves, demobilized>>
  PROVE  Balanced'
<1>1. PICK s \in DOMAIN sources, sent \in 1 .. SourceCapacity :
        \E deliverable \in {0, sent} :
          /\ Ship(f, s, sent, deliverable)
          /\ expected' = [expected EXCEPT !.supply = @ - used - (sent - deliverable)]
  BY DEF SentTo
<1>2. PICK deliverable \in {0, sent} :
          /\ Ship(f, s, sent, deliverable)
          /\ expected' = [expected EXCEPT !.supply = @ - used - (sent - deliverable)]
  BY <1>1
<1>3. PICK after : after = sources'
  OBVIOUS
<1>4. PICK ships : ships = shipments'
  OBVIOUS
<1>5. PICK free : free = (1 .. MaxShipments) \ DOMAIN shipments
  OBVIOUS
<1>6. PICK e : e = [formation |-> f, deliverable |-> deliverable]
  OBVIOUS
<1>7. /\ free # {} /\ after = [sources EXCEPT ![s].stock = @ - sent]
      /\ ships = With(shipments, Min(free), e)
  BY <1>2, <1>3, <1>4, <1>5, <1>6 DEF Ship
<1>8. sent \in Int /\ deliverable \in Int /\ e.deliverable = deliverable
  BY <1>1, <1>6, ConflictAssumption
<1>9. PICK x : x = Min(free) /\ x \notin DOMAIN shipments
  BY <1>5, <1>7, FreePlace, LogisticsAssumption
<1>10. OnRoad(ships) = OnRoad(shipments) + deliverable
  <2>1. ships = With(shipments, x, e) /\ e.deliverable \in Int /\ Roads
    BY <1>7, <1>8, <1>9 DEF Books
  <2>2. OnRoad(ships) = OnRoad(shipments) + e.deliverable
    BY <1>9, <2>1, RoadWith
  <2> QED
    BY <1>8, <2>2
<1>11. /\ Numbers(Soldiers(formations), DOMAIN formations)
       /\ Numbers(Stock(formations), DOMAIN formations) /\ Numbers(Stock(sources), DOMAIN sources)
       /\ Stocked(sources)
       /\ expected \in [supply: Int, manpower: Int, resources: Int]
       /\ Goods(sources) \in Int /\ Men(formations) \in Int /\ OnRoad(shipments) \in Int
  BY ForcesOpen
<1>12. DOMAIN sources[s] = SourceFields /\ sources[s].stock \in Int
  BY <1>11, LedgerHas DEF Inv, Sound, Sources, Stocked
<1>13. Goods(after) = Goods(sources) + -sent /\ Stocked(after)
  <2>1. /\ DOMAIN after = DOMAIN sources /\ -sent \in Int
        /\ after[s].stock = sources[s].stock + -sent
        /\ \A t \in DOMAIN sources : t # s => after[t] = sources[t]
    BY <1>7, <1>8, <1>12 DEF SourceFields
  <2>2. OneStock(sources, after, s, -sent)
    BY <2>1 DEF OneStock
  <2>3. Stocked(after)
    BY <1>8, <1>11, <1>12, <2>1 DEF Stocked
  <2> QED
    BY <1>11, <2>2, <2>3, StockChanged
<1>14. PICK forms : forms = formations'
  OBVIOUS
<1>15. /\ OneStock(formations, forms, f, -used) /\ AsMany(formations, forms) /\ Carrying(forms)
  BY <1>14, SpendsSupply
<1>16. Goods(forms) = Goods(formations) + -used
  BY <1>11, <1>15, StockChanged
<1>17. Men(forms) = Men(formations)
  BY <1>11, <1>15, MenSame
<1>18. /\ -sent \in Int /\ -used \in Int /\ 0 \in Int
       /\ -used + -sent + deliverable \in Int
       /\ expected.supply - used - (sent - deliverable) = expected.supply + (-used + -sent + deliverable)
       /\ Men(formations) = Men(formations) + 0
  BY <1>8, <1>11
<1>19. Expects(0, -used + -sent + deliverable)
  <2>1. expected' = [expected EXCEPT !.supply = @ + (-used + -sent + deliverable)]
    BY <1>2, <1>18
  <2> QED
    BY <1>18, <2>1, SupplyExpected
<1>20. Moved(0, -used, -sent, deliverable)
  BY <1>3, <1>4, <1>8, <1>10, <1>13, <1>14, <1>15, <1>16, <1>17, <1>18, <1>19 DEF Moved
<1> QED
  BY <1>20, MovedBalances

LEMMA SustainBalances ==
  ASSUME Inv, Books, NEW f \in DOMAIN formations, Sustain(f)
  PROVE  Balanced'
<1>1. UNCHANGED <<organizations, pools, reserves, demobilized>>
  BY DEF Sustain
<1>2. CASE UNCHANGED <<formations, sources, expected, shipments>>
  BY <1>1, <1>2, BalancedSame DEF Books, ledgerVars
<1>3. CASE ~UNCHANGED <<formations, sources, expected, shipments>>
  <2>1. \E demand \in 0 .. formations[f].personnel :
          \E after \in Sustained(formations[f], demand) :
             LET used == formations[f].stock - after.stock IN
             /\ formations' = [formations EXCEPT ![f] = after]
             /\ \/ /\ expected' = [expected EXCEPT !.supply = @ - used]
                   /\ UNCHANGED <<sources, shipments>>
                \/ SentTo(f, used)
    BY <1>3 DEF Sustain, SentTo
  <2>2. PICK demand \in 0 .. formations[f].personnel :
          \E after \in Sustained(formations[f], demand) :
             LET used == formations[f].stock - after.stock IN
             /\ formations' = [formations EXCEPT ![f] = after]
             /\ \/ /\ expected' = [expected EXCEPT !.supply = @ - used]
                   /\ UNCHANGED <<sources, shipments>>
                \/ SentTo(f, used)
    BY <2>1
  <2>3. PICK after \in Sustained(formations[f], demand) :
             LET used == formations[f].stock - after.stock IN
             /\ formations' = [formations EXCEPT ![f] = after]
             /\ \/ /\ expected' = [expected EXCEPT !.supply = @ - used]
                   /\ UNCHANGED <<sources, shipments>>
                \/ SentTo(f, used)
    BY <2>2
  <2>4. PICK used : used = formations[f].stock - after.stock
    OBVIOUS
  <2>5. /\ formations' = [formations EXCEPT ![f] = after]
        /\ \/ /\ expected' = [expected EXCEPT !.supply = @ - used]
              /\ UNCHANGED <<sources, shipments>>
           \/ SentTo(f, used)
    BY <2>3, <2>4
  <2>6. /\ DOMAIN formations[f] = FormationFields /\ formations[f].personnel \in Int
        /\ formations[f].stock \in Nat
    BY FormationIs
  <2>7. PICK eaten : eaten = Least(formations[f].stock, demand)
    OBVIOUS
  <2>8. \E e : after = [formations[f] EXCEPT !.stock = @ - eaten, !.effective = e]
    BY <2>3, <2>7, Zenon DEF Sustained
  <2>9. eaten \in Nat /\ eaten <= formations[f].stock
    BY <2>6, <2>7 DEF Least
  <2>10. /\ after.stock = formations[f].stock - eaten /\ after.personnel = formations[f].personnel
         /\ after.capacity = formations[f].capacity
    BY <2>6, <2>8 DEF FormationFields
  <2>11. used = eaten
    BY <2>4, <2>6, <2>9, <2>10
  <2>12. Spends(f, used)
    BY <2>5, <2>10, <2>11 DEF Spends
  <2>13. used \in Nat /\ used <= formations[f].stock
    BY <2>9, <2>11
  <2>14. CASE expected' = [expected EXCEPT !.supply = @ - used] /\ UNCHANGED <<sources, shipments>>
    BY <1>1, <2>12, <2>13, <2>14, SpendingBalances
  <2>15. CASE SentTo(f, used)
    BY <1>1, <2>12, <2>13, <2>15, ShipBalances
  <2> QED
    BY <2>5, <2>14, <2>15
<1> QED
  BY <1>2, <1>3

LEMMA SumOfTwo ==
  ASSUME NEW d, NEW a, NEW b, a # b, d[a] \in Int, d[b] \in Int
  PROVE  SumFunctionOnSet(d, {a, b}) = d[a] + d[b] /\ Numbers(d, {a, b})
<1>1. SumFunctionOnSet(d, {}) = 0
  BY SumOfNone
<1>2. Numbers(d, {})
  BY FS_EmptySet DEF Numbers
<1>3. /\ SumFunctionOnSet(d, {} \cup {a}) = SumFunctionOnSet(d, {}) + d[a]
      /\ SumFunctionOnSet(d, {}) \in Int /\ Numbers(d, {} \cup {a})
  BY <1>2, SumOneMore
<1>4. {} \cup {a} = {a} /\ {a} \cup {b} = {a, b} /\ b \notin {a}
  OBVIOUS
<1>5. SumFunctionOnSet(d, {a}) = d[a] /\ Numbers(d, {a})
  BY <1>1, <1>3, <1>4
<1>6. /\ SumFunctionOnSet(d, {a} \cup {b}) = SumFunctionOnSet(d, {a}) + d[b]
      /\ SumFunctionOnSet(d, {a}) \in Int /\ Numbers(d, {a} \cup {b})
  BY <1>4, <1>5, SumOneMore
<1> QED
  BY <1>4, <1>5, <1>6

\* The fallen and what was spent in the fight are no longer expected.
LEMMA EngageBalances ==
  ASSUME Inv, Books, NEW a \in DOMAIN formations, NEW b \in DOMAIN formations,
         NEW lost \in [{a, b} -> Nat], NEW used \in [{a, b} -> Nat],
         NEW disengaged, Engage(a, b, lost, used, disengaged)
  PROVE  Balanced'
<1> DEFINE F == DOMAIN formations
<1>1. PICK forms : forms = formations'
  OBVIOUS
<1>2. /\ Hostile(a, b)
      /\ \A f \in {a, b} : /\ lost[f] <= formations[f].personnel
                           /\ used[f] <= formations[f].stock
      /\ \E effective \in [{a, b} -> BOOLEAN] :
           forms = [f \in F |->
             IF f \in {a, b} THEN AfterCombat(formations[f], lost[f], used[f], effective[f])
             ELSE formations[f]]
      /\ expected' = [expected EXCEPT !.supply = @ - (used[a] + used[b]),
                                      !.manpower = @ - (lost[a] + lost[b])]
      /\ UNCHANGED <<organizations, sources, pools, reserves, demobilized, shipments>>
  BY <1>1 DEF Engage, logisticsVars
<1>3. a # b
  BY <1>2 DEF Hostile
<1>4. lost[a] \in Nat /\ lost[b] \in Nat /\ used[a] \in Nat /\ used[b] \in Nat
  OBVIOUS
<1>5. /\ Numbers(Soldiers(formations), F) /\ Numbers(Stock(formations), F)
      /\ Stocked(sources) /\ Carrying(formations)
      /\ expected \in [supply: Int, manpower: Int, resources: Int]
      /\ Goods(sources) \in Int /\ Goods(formations) \in Int /\ Men(formations) \in Int
      /\ OnRoad(shipments) \in Int
  BY ForcesOpen
<1>6. /\ DOMAIN forms = F
      /\ \A f \in {a, b} : /\ forms[f].personnel = formations[f].personnel - lost[f]
                           /\ forms[f].stock = formations[f].stock - used[f]
                           /\ forms[f].capacity = formations[f].capacity
      /\ \A f \in F : f \notin {a, b} => forms[f] = formations[f]
  <2>1. PICK effective \in [{a, b} -> BOOLEAN] :
           forms = [f \in F |->
             IF f \in {a, b} THEN AfterCombat(formations[f], lost[f], used[f], effective[f])
             ELSE formations[f]]
    BY <1>2
  <2>2. \A f \in {a, b} : DOMAIN formations[f] = FormationFields
    BY FormationIs
  <2> QED
    BY <2>1, <2>2, Zenon DEF AfterCombat, FormationFields
<1>7. \A f \in {a, b} : /\ formations[f].personnel \in Int
                        /\ formations[f].stock \in Nat /\ formations[f].capacity \in Int
                        /\ formations[f].stock <= formations[f].capacity
  BY FormationIs
<1> DEFINE dead == [f \in {a, b} |-> -lost[f]]
           spent == [f \in {a, b} |-> -used[f]]
<1>8. /\ dead[a] = -lost[a] /\ dead[b] = -lost[b] /\ spent[a] = -used[a] /\ spent[b] = -used[b]
      /\ \A f \in {a, b} : dead[f] \in Int /\ spent[f] \in Int
  BY <1>4
<1>9. Changes(Soldiers(formations), Soldiers(forms), dead, F, {a, b})
  <2>1. \A f \in {a, b} : forms[f].personnel = formations[f].personnel + dead[f]
    BY <1>4, <1>6, <1>7
  <2> HIDE DEF dead
  <2> QED
    BY <1>6, <1>8, <2>1 DEF Changes, Soldiers
<1>10. Changes(Stock(formations), Stock(forms), spent, F, {a, b})
  <2>1. \A f \in {a, b} : forms[f].stock = formations[f].stock + spent[f]
    BY <1>4, <1>6, <1>7
  <2> HIDE DEF spent
  <2> QED
    BY <1>6, <1>8, <2>1 DEF Changes, Stock
<1> HIDE DEF dead, spent, F
<1>11. /\ SumFunctionOnSet(dead, {a, b}) = dead[a] + dead[b]
       /\ SumFunctionOnSet(spent, {a, b}) = spent[a] + spent[b]
  BY <1>3, <1>8, SumOfTwo
<1>12. SumFunctionOnSet(Soldiers(forms), F) = SumFunctionOnSet(Soldiers(formations), F) + SumFunctionOnSet(dead, {a, b})
  BY <1>5, <1>9, SumChanged
<1>13. SumFunctionOnSet(Stock(forms), F) = SumFunctionOnSet(Stock(formations), F) + SumFunctionOnSet(spent, {a, b})
  BY <1>5, <1>10, SumChanged
<1>14. PICK men : men = -lost[a] + -lost[b]
  OBVIOUS
<1>15. PICK held : held = -used[a] + -used[b]
  OBVIOUS
<1>16. Men(forms) = Men(formations) + men /\ Goods(forms) = Goods(formations) + held
  BY <1>6, <1>8, <1>11, <1>12, <1>13, <1>14, <1>15 DEF Men, Goods, F
<1>17. Carrying(forms)
  <2>1. \A f \in {a, b} : /\ forms[f].stock \in Nat /\ forms[f].capacity \in Int
                          /\ forms[f].stock <= forms[f].capacity
    BY <1>2, <1>4, <1>6, <1>7
  <2> QED
    BY <1>5, <1>6, <2>1 DEF Carrying, F
<1>18. /\ men \in Int /\ held \in Int /\ held + 0 + 0 = held /\ 0 \in Int
       /\ expected.manpower - (lost[a] + lost[b]) = expected.manpower + men
       /\ expected.supply - (used[a] + used[b]) = expected.supply + held
  BY <1>4, <1>5, <1>14, <1>15
<1>19. Expects(men, held)
  BY <1>2, <1>5, <1>18 DEF Expects
<1>20. Moved(men, held, 0, 0)
  BY <1>1, <1>2, <1>5, <1>16, <1>17, <1>18, <1>19 DEF Moved
<1> QED
  BY <1>20, MovedBalances

LEMMA ForcesBalance ==
  ASSUME Inv, Books, LogisticsNext
  PROVE  Balanced'
<1>1. ASSUME NEW f \in DOMAIN formations, NEW l \in Localities, NEW c \in Costs, Reallocate(f, l, c)
      PROVE  Balanced'
  BY <1>1, BalancedSame DEF Reallocate, Books, sharedVars
<1>2. ASSUME NEW due, NEW made \in [DOMAIN sources -> 0 .. SourceCapacity], UpdateLogistics(due, made)
      PROVE  Balanced'
  BY <1>2, UpdateLogisticsBalances
<1>3. ASSUME NEW f \in DOMAIN formations, NEW used \in 1 .. formations[f].personnel, Patrol(f, used)
      PROVE  Balanced'
  BY <1>3, PatrolBalances
<1>4. ASSUME NEW a \in DOMAIN formations, NEW b \in DOMAIN formations, NEW disengaged \in SUBSET {a, b},
             NEW lost \in [{a, b} -> 0 .. formations[a].personnel + formations[b].personnel],
             NEW used \in [{a, b} -> 0 .. formations[a].stock + formations[b].stock],
             Engage(a, b, lost, used, disengaged)
      PROVE  Balanced'
  <2>1. lost \in [{a, b} -> Nat] /\ used \in [{a, b} -> Nat]
    OBVIOUS
  <2> QED
    BY <1>4, <2>1, EngageBalances
<1>5. ASSUME NEW s \in DOMAIN shipments, Deliver(s) PROVE Balanced'
  BY <1>5, DeliverBalances
<1>6. ASSUME NEW f \in DOMAIN formations, Sustain(f) PROVE Balanced'
  BY <1>6, SustainBalances
<1>7. ASSUME NEW f \in DOMAIN formations, NEW l \in Localities, NEW c \in Costs, Withdraw(f, l, c)
      PROVE  Balanced'
  BY <1>7, BalancedSame DEF Withdraw, Books
<1>8. ASSUME NEW f \in DOMAIN formations, NEW g \in DOMAIN formations, NEW c \in Costs, Reinforce(f, g, c)
      PROVE  Balanced'
  BY <1>8, BalancedSame DEF Reinforce, Books
<1>9. ASSUME NEW i \in 1 .. MaxOrders, Advance(i) PROVE Balanced'
  <2>1. i \in DOMAIN orders
    BY <1>9 DEF Advance
  <2>2. CASE Block(i)
    BY <2>2, BalancedSame DEF Block, Books, sharedVars
  <2> QED
    BY <1>9, <2>1, <2>2, DepartBalances, ArriveBalances DEF Advance
<1>10. ASSUME ForcesBegin PROVE Balanced'
  BY <1>1, <1>2, <1>3, <1>4, <1>10 DEF ForcesBegin
<1>11. ASSUME LogisticsStep PROVE Balanced'
  BY <1>5, <1>6, <1>11 DEF LogisticsStep
<1>12. ASSUME CombatStep PROVE Balanced'
  BY <1>7, <1>8, <1>12 DEF CombatStep
<1> QED
  BY <1>9, <1>10, <1>11, <1>12 DEF LogisticsNext

\* What is new on the road goes to a formation there is.
Priced(list) == \A i \in DOMAIN list : list[i].cost \in Nat
Underway(ships) ==
  \A s \in DOMAIN ships :
    \/ s \in DOMAIN shipments /\ ships[s] = shipments[s]
    \/ /\ s \in 1 .. MaxShipments /\ ships[s].deliverable \in Nat
       /\ ships[s].formation \in DOMAIN formations

LEMMA RoadsAfter ==
  ASSUME Roads, DOMAIN formations \subseteq DOMAIN formations', Priced(orders'), Underway(shipments')
  PROVE  Roads'
<1>1. PICK ships : ships = shipments'
  OBVIOUS
<1>2. \A s \in DOMAIN ships : /\ s \in 1 .. MaxShipments /\ ships[s].deliverable \in Nat
                              /\ ships[s].formation \in DOMAIN formations
  BY <1>1 DEF Roads, Underway
<1> QED
  BY <1>1, <1>2 DEF Roads, Priced

LEMMA RoadsStand ==
  ASSUME Roads, DOMAIN formations \subseteq DOMAIN formations', Priced(orders'), UNCHANGED shipments
  PROVE  Roads'
  BY RoadsAfter DEF Underway

LEMMA OrderPriced ==
  ASSUME Roads, NEW f, NEW d, NEW cost \in Costs, NEW purpose, CreateMovementOrder(f, d, cost, purpose)
  PROVE  Priced(orders')
<1>1. CASE UNCHANGED orders
  BY <1>1 DEF Roads, Priced
<1>2. CASE ~UNCHANGED orders
  <2>1. PICK free : free = (1 .. MaxOrders) \ DOMAIN orders
    OBVIOUS
  <2>2. PICK e : e = [formation |-> f, destination |-> d, cost |-> cost,
                      purpose |-> purpose, status |-> "pending"]
    OBVIOUS
  <2>3. orders' = With(orders, Min(free), e)
    BY <1>2, <2>1, <2>2 DEF CreateMovementOrder
  <2>4. e.cost \in Nat
    BY <2>2, LogisticsAssumption
  <2> QED
    BY <2>3, <2>4 DEF With, Roads, Priced
<1> QED
  BY <1>1, <1>2

LEMMA OrdersKept ==
  ASSUME Roads, \/ UNCHANGED orders \/ \E i : orders' = Without(orders, i)
  PROVE  Priced(orders')
  BY DEF Roads, Priced, Without

LEMMA DepartRoads ==
  ASSUME Roads, NEW i \in DOMAIN orders, Depart(i)
  PROVE  Roads'
<1>1. PICK f : f = orders[i].formation
  OBVIOUS
<1>2. /\ formations' = [formations EXCEPT ![f].moving = TRUE, ![f].stock = @ - orders[i].cost]
      /\ orders' = [orders EXCEPT ![i].status = "moving"]
      /\ UNCHANGED shipments
  BY <1>1 DEF Depart
<1>3. \A k \in DOMAIN orders : orders'[k].cost = orders[k].cost
  BY <1>2
<1>4. Priced(orders') /\ DOMAIN formations' = DOMAIN formations
  BY <1>2, <1>3 DEF Roads, Priced
<1> QED
  BY <1>2, <1>4, RoadsStand

LEMMA SustainRoads ==
  ASSUME Roads, NEW f \in DOMAIN formations, Sustain(f)
  PROVE  Roads'
<1>1. Priced(orders')
  BY OrdersKept DEF Sustain
<1>2. DOMAIN formations' = DOMAIN formations
  BY DEF Sustain
<1>3. CASE UNCHANGED shipments
  BY <1>1, <1>2, <1>3, RoadsStand
<1>4. CASE ~UNCHANGED shipments
  <2>1. \E s \in DOMAIN sources, sent \in 1 .. SourceCapacity :
          \E deliverable \in {0, sent} : Ship(f, s, sent, deliverable)
    BY <1>4 DEF Sustain
  <2>2. PICK s \in DOMAIN sources, sent \in 1 .. SourceCapacity :
          \E deliverable \in {0, sent} : Ship(f, s, sent, deliverable)
    BY <2>1
  <2>3. PICK deliverable \in {0, sent} : Ship(f, s, sent, deliverable)
    BY <2>2
  <2>4. PICK free : free = (1 .. MaxShipments) \ DOMAIN shipments
    OBVIOUS
  <2>5. PICK e : e = [formation |-> f, deliverable |-> deliverable]
    OBVIOUS
  <2>6. free # {} /\ shipments' = With(shipments, Min(free), e)
    BY <2>3, <2>4, <2>5 DEF Ship
  <2>7. Min(free) \in free
    BY <2>4, <2>6, FreePlace, LogisticsAssumption
  <2>8. e.deliverable \in Nat /\ e.formation \in DOMAIN formations
    BY <2>3, <2>5, ConflictAssumption
  <2>9. Underway(shipments')
    BY <2>4, <2>6, <2>7, <2>8 DEF With, Underway
  <2> QED
    BY <1>1, <1>2, <2>9, RoadsAfter
<1> QED
  BY <1>3, <1>4

LEMMA ForcesRoads ==
  ASSUME Inv, Books, LogisticsNext
  PROVE  Roads'
<1>0. Roads
  BY DEF Books
<1>1. ASSUME NEW f \in DOMAIN formations, NEW l \in Localities, NEW c \in Costs, Reallocate(f, l, c)
      PROVE  Roads'
  BY <1>0, <1>1, OrderPriced, RoadsStand DEF Reallocate, sharedVars, ledgerVars
<1>2. ASSUME NEW due, NEW made, UpdateLogistics(due, made)
      PROVE  Roads'
  BY <1>0, <1>2, OrdersKept, RoadsStand DEF UpdateLogistics, logisticsVars
<1>3. ASSUME NEW f, NEW used, Patrol(f, used)
      PROVE  Roads'
  BY <1>0, <1>3, OrdersKept, RoadsStand DEF Patrol, logisticsVars
<1>4. ASSUME NEW a, NEW b, NEW disengaged, NEW lost, NEW used, Engage(a, b, lost, used, disengaged)
      PROVE  Roads'
  <2>1. UNCHANGED <<orders, shipments>> /\ DOMAIN formations' = DOMAIN formations
    BY <1>4 DEF Engage, logisticsVars
  <2> QED
    BY <1>0, <2>1, OrdersKept, RoadsStand
<1>5. ASSUME NEW s \in DOMAIN shipments, Deliver(s) PROVE Roads'
  <2>1. DOMAIN formations' = DOMAIN formations /\ shipments' = Without(shipments, s)
    BY <1>5, DeliverBalances
  <2>2. Underway(shipments')
    BY <2>1 DEF Underway, Without
  <2>3. Priced(orders')
    BY <1>0, <1>5, OrdersKept DEF Deliver
  <2> QED
    BY <1>0, <2>1, <2>2, <2>3, RoadsAfter
<1>6. ASSUME NEW f \in DOMAIN formations, Sustain(f) PROVE Roads'
  BY <1>0, <1>6, SustainRoads
<1>7. ASSUME NEW f \in DOMAIN formations, NEW l \in Localities, NEW c \in Costs, Withdraw(f, l, c)
      PROVE  Roads'
  BY <1>0, <1>7, OrdersKept, OrderPriced, RoadsStand DEF Withdraw, ledgerVars
<1>8. ASSUME NEW f \in DOMAIN formations, NEW g \in DOMAIN formations, NEW c \in Costs, Reinforce(f, g, c)
      PROVE  Roads'
  BY <1>0, <1>8, OrdersKept, OrderPriced, RoadsStand DEF Reinforce, ledgerVars
<1>9. ASSUME NEW i \in 1 .. MaxOrders, Advance(i) PROVE Roads'
  <2>1. i \in DOMAIN orders
    BY <1>9 DEF Advance
  <2>2. CASE Block(i)
    BY <1>0, <2>2, OrdersKept, RoadsStand DEF Block, sharedVars, ledgerVars
  <2>3. CASE Arrive(i)
    BY <1>0, <2>3, OrdersKept, RoadsStand DEF Arrive
  <2> QED
    BY <1>0, <1>9, <2>1, <2>2, <2>3, DepartRoads DEF Advance
<1>10. ASSUME ForcesBegin PROVE Roads'
  BY <1>1, <1>2, <1>3, <1>4, <1>10 DEF ForcesBegin
<1>11. ASSUME LogisticsStep PROVE Roads'
  BY <1>5, <1>6, <1>11 DEF LogisticsStep
<1>12. ASSUME CombatStep PROVE Roads'
  BY <1>7, <1>8, <1>12 DEF CombatStep
<1> QED
  BY <1>9, <1>10, <1>11, <1>12 DEF LogisticsNext

LEMMA ForcesBooks ==
  ASSUME Inv, Books, Forces
  PROVE  Books'
  BY ForcesBalance, ForcesRoads DEF Forces, Books

-----------------------------------------------------------------------------
(* What foreign states bring.                                              *)
\* Support that is delivered is expected, as far as there is room for it.
LEMMA DeliverSupportBalances ==
  ASSUME Inv, Books, NEW s, NEW o \in DOMAIN organizations, NEW funds \in Funds, NEW materiel \in Materiel,
         DeliverSupport(s, o, funds, materiel)
  PROVE  Balanced'
<1> DEFINE F == DOMAIN formations
<1>1. PICK accepted : accepted = Accepted(o, materiel)
  OBVIOUS
<1>2. PICK forms : forms = formations'
  OBVIOUS
<1>3. PICK orgs : orgs = organizations'
  OBVIOUS
<1>4. PICK sum : sum = SumFunction(accepted)
  OBVIOUS
<1>5. /\ orgs = [organizations EXCEPT ![o].resources = @ + funds]
      /\ forms = [f \in F |-> [formations[f] EXCEPT !.stock = @ + accepted[f]]]
      /\ expected' = [expected EXCEPT !.supply = @ + sum, !.resources = @ + funds]
      /\ UNCHANGED <<sources, pools, reserves, demobilized, shipments>>
  BY <1>1, <1>2, <1>3, <1>4 DEF DeliverSupport, logisticsVars
<1>6. funds \in Int /\ materiel \in Nat
  BY ForeignAssumption
<1>7. /\ Numbers(Soldiers(formations), F) /\ Numbers(Stock(formations), F)
      /\ Numbers(Stock(sources), DOMAIN sources) /\ Stocked(sources)
      /\ expected \in [supply: Int, manpower: Int, resources: Int]
      /\ Goods(formations) \in Int /\ Goods(sources) \in Int /\ Men(formations) \in Int
      /\ OnRoad(shipments) \in Int
  BY ForcesOpen
<1>8. DOMAIN accepted = F
  BY <1>1 DEF Accepted
<1>9. \A f \in F :
        /\ accepted[f] \in Int /\ forms[f].personnel = formations[f].personnel
        /\ forms[f].stock = formations[f].stock + accepted[f]
        /\ forms[f].stock \in Nat /\ forms[f].capacity \in Int /\ forms[f].stock <= forms[f].capacity
  <2>1. ASSUME NEW f \in F
        PROVE  /\ accepted[f] \in Int /\ forms[f].personnel = formations[f].personnel
               /\ forms[f].stock = formations[f].stock + accepted[f]
               /\ forms[f].stock \in Nat /\ forms[f].capacity \in Int /\ forms[f].stock <= forms[f].capacity
    <3>1. /\ DOMAIN formations[f] = FormationFields /\ formations[f].stock \in Nat
          /\ formations[f].capacity \in Int /\ formations[f].stock <= formations[f].capacity
      BY FormationIs
    <3>2. accepted[f] = Least(materiel, formations[f].capacity - formations[f].stock) \/ accepted[f] = 0
      BY <1>1 DEF Accepted
    <3>3. accepted[f] \in Nat /\ accepted[f] <= formations[f].capacity - formations[f].stock
      BY <1>6, <3>1, <3>2 DEF Least
    <3>4. forms[f] = [formations[f] EXCEPT !.stock = @ + accepted[f]]
      BY <1>5
    <3>5. /\ forms[f].personnel = formations[f].personnel /\ forms[f].capacity = formations[f].capacity
          /\ forms[f].stock = formations[f].stock + accepted[f]
      BY <3>1, <3>4 DEF FormationFields
    <3> QED
      BY <3>1, <3>3, <3>5
  <2> QED
    BY <2>1
<1>10. DOMAIN forms = F
  BY <1>5
<1>11. AsMany(formations, forms) /\ Carrying(forms)
  BY <1>9, <1>10 DEF AsMany, Carrying
<1>12. Men(forms) = Men(formations)
  BY <1>7, <1>11, MenSame
<1>13. Goods(forms) = Goods(formations) + sum /\ sum \in Int
  <2>1. Changes(Stock(formations), Stock(forms), accepted, F, F)
    BY <1>9, <1>10 DEF Changes, Stock
  <2>2. Goods(forms) = SumFunctionOnSet(Stock(forms), F) /\ Goods(formations) = SumFunctionOnSet(Stock(formations), F)
    BY <1>10 DEF Goods
  <2>3. sum = SumFunctionOnSet(accepted, F)
    BY <1>4, <1>8 DEF SumFunction
  <2> HIDE DEF F
  <2>5. /\ SumFunctionOnSet(Stock(forms), F) = SumFunctionOnSet(Stock(formations), F) + SumFunctionOnSet(accepted, F)
        /\ SumFunctionOnSet(Stock(forms), F) \in Int /\ SumFunctionOnSet(Stock(formations), F) \in Int
        /\ SumFunctionOnSet(accepted, F) \in Int /\ Numbers(Stock(forms), F)
    BY <1>7, <2>1, SumChanged
  <2> QED
    BY <2>2, <2>3, <2>5
<1>14. Organizations(organizations) /\ Branching(organizations)
  BY BooksOpen, LedgerHas DEF Sound, Counted
<1>15. Wealth(orgs) = Wealth(organizations) + funds /\ Wealth(organizations) \in Int /\ Branching(orgs)
  BY <1>5, <1>6, <1>14, WealthChanged
<1>17. PICK e : e = expected'
  OBVIOUS
<1>16. /\ e \in [supply: Int, manpower: Int, resources: Int]
       /\ e.supply = expected.supply + sum /\ e.manpower = expected.manpower
       /\ e.resources = expected.resources + funds
  <2>1. e = [expected EXCEPT !.supply = @ + sum, !.resources = @ + funds]
    BY <1>5, <1>17
  <2>2. /\ expected.supply + sum \in Int /\ expected.resources + funds \in Int
        /\ expected \in [supply: Int, manpower: Int, resources: Int]
    BY <1>6, <1>7, <1>13
  <2> QED
    BY <2>1, <2>2
<1>18. PICK w : w = [organizations |-> orgs, formations |-> forms, sources |-> sources, pools |-> pools,
                     reserves |-> reserves, demobilized |-> demobilized, expected |-> e]
  OBVIOUS
<1>19. /\ w.organizations = orgs /\ w.formations = forms /\ w.sources = sources /\ w.pools = pools
       /\ w.reserves = reserves /\ w.demobilized = demobilized /\ w.expected = e
  BY <1>18
<1>20. Becomes(w)
  BY <1>2, <1>3, <1>5, <1>17, <1>19 DEF Becomes
<1>21. Counted(Ledger) /\ Short(Ledger, 0, OnRoad(shipments), 0)
  BY DEF Books, Balanced
<1>22. Counted(w)
  BY <1>11, <1>15, <1>16, <1>17, <1>19, <1>21, LedgerHas DEF Counted
<1>23. Short(w, 0, OnRoad(shipments), 0)
  <2>1. /\ Pool(pools) \in Int /\ Pool(reserves) \in Int /\ demobilized.personnel \in Int /\ demobilized.arms \in Int
    BY BooksOpen, AccountsAreNumbers, LedgerHas
  <2>2. /\ Men(formations) + Pool(pools) + demobilized.personnel + 0 = expected.manpower
        /\ Goods(sources) + Goods(formations) + Pool(reserves) + demobilized.arms + OnRoad(shipments) = expected.supply
        /\ Wealth(organizations) + 0 = expected.resources
    BY <1>21, LedgerHas DEF Short, MenOf, GoodsOf
  <2>3. /\ Men(forms) + Pool(pools) + demobilized.personnel + 0 = e.manpower
        /\ Goods(sources) + Goods(forms) + Pool(reserves) + demobilized.arms + OnRoad(shipments) = e.supply
        /\ Wealth(orgs) + 0 = e.resources
    BY <1>6, <1>7, <1>12, <1>13, <1>15, <1>16, <1>17, <2>1, <2>2
  <2> QED
    BY <1>19, <2>3 DEF Short, MenOf, GoodsOf
<1> QED
  BY <1>5, <1>20, <1>22, <1>23, BalancedKept

\* An expedition brings what is expected of it.
LEMMA InterveneBalances ==
  ASSUME Inv, Books, NEW s \in DOMAIN ForeignStates, Intervene(s)
  PROVE  Balanced' /\ DOMAIN formations \subseteq DOMAIN formations'
<1>0. UNCHANGED <<pools, reserves, demobilized, orders, shipments>>
  BY DEF Intervene, logisticsVars
<1>1. CASE UNCHANGED <<organizations, formations, sources, expected>>
  <2>1. UNCHANGED ledgerVars /\ shipments' = shipments
    BY <1>0, <1>1 DEF ledgerVars
  <2> QED
    BY <1>1, <2>1, BalancedSame DEF Books
<1>2. CASE ~UNCHANGED <<organizations, formations, sources, expected>>
  <2>1. PICK o : o = Len(organizations) + 1
    OBVIOUS
  <2>2. PICK command : command =
          [kind |-> "foreign", status |-> "active", members |-> {},
           resources |-> Expedition.resources, party |-> FALSE, branches |-> 0]
    OBVIOUS
  <2>3. PICK formation : formation = Fresh(o, Border[s], Expedition.personnel, Expedition.stock)
    OBVIOUS
  <2>4. PICK source : source = [organization |-> o, locality |-> Border[s], stock |-> Expedition.source]
    OBVIOUS
  <2>5. PICK orgs : orgs = organizations'
    OBVIOUS
  <2>6. PICK forms : forms = formations'
    OBVIOUS
  <2>7. PICK stores : stores = sources'
    OBVIOUS
  <2>8. PICK e : e = expected'
    OBVIOUS
  <2>9. /\ Appends(organizations, command, orgs) /\ Appends(formations, formation, forms)
        /\ Appends(sources, source, stores)
        /\ e = [supply |-> expected.supply + Expedition.stock + Expedition.source,
                manpower |-> expected.manpower + Expedition.personnel,
                resources |-> expected.resources + Expedition.resources]
    BY <1>2, <2>1, <2>2, <2>3, <2>4, <2>5, <2>6, <2>7, <2>8 DEF Intervene, Appends
  <2>10. /\ Expedition.personnel \in Int /\ Expedition.stock \in Nat /\ Expedition.source \in Int
         /\ Expedition.resources \in Int
    BY ForeignAssumption, ConflictAssumption
  <2>11. Sound(Ledger) /\ Counted(Ledger) /\ Short(Ledger, 0, OnRoad(shipments), 0) /\ OnRoad(shipments) \in Int
    BY BooksOpen
  <2>12. /\ Organizations(organizations) /\ Branching(organizations)
         /\ Formations(formations) /\ Carrying(formations)
         /\ IsList(sources) /\ Stocked(sources)
    BY <2>11, LedgerHas DEF Sound, Counted, Sources, Stocked
  <2>13. Wealth(orgs) = Wealth(organizations) + Expedition.resources /\ Branching(orgs)
    <3>1. command.resources = Expedition.resources /\ command.branches = 0
      BY <2>2
    <3>2. command.resources \in Int
      BY <2>10, <3>1
    <3>3. Wealth(orgs) = Wealth(organizations) + command.resources /\ Branching(orgs)
      BY <2>9, <2>12, <3>1, <3>2, WealthMore
    <3> QED
      BY <3>1, <3>3
  <2>14. /\ Men(forms) = Men(formations) + Expedition.personnel
         /\ Goods(forms) = Goods(formations) + Expedition.stock /\ Carrying(forms)
    <3>1. /\ formation.personnel = Expedition.personnel /\ formation.stock = Expedition.stock
          /\ formation.capacity \in Int /\ formation.stock <= formation.capacity
      BY <2>3, <2>10, FreshAccounts
    <3>2. formation.personnel \in Int /\ formation.stock \in Nat
      BY <2>10, <3>1
    <3>3. /\ Men(forms) = Men(formations) + formation.personnel
          /\ Goods(forms) = Goods(formations) + formation.stock /\ Carrying(forms)
      BY <2>9, <2>12, <3>1, <3>2, MenMore
    <3> QED
      BY <3>1, <3>3
  <2>15. Goods(stores) = Goods(sources) + Expedition.source /\ Stocked(stores)
    <3>1. source.stock = Expedition.source
      BY <2>4
    <3>2. source.stock \in Int
      BY <2>10, <3>1
    <3>3. Goods(stores) = Goods(sources) + source.stock /\ Stocked(stores)
      BY <2>9, <2>12, <3>2, GoodsMore
    <3> QED
      BY <3>1, <3>3
  <2>16. PICK w : w = [organizations |-> orgs, formations |-> forms, sources |-> stores, pools |-> pools,
                       reserves |-> reserves, demobilized |-> demobilized, expected |-> e]
    OBVIOUS
  <2>17. /\ w.organizations = orgs /\ w.formations = forms /\ w.sources = stores /\ w.pools = pools
         /\ w.reserves = reserves /\ w.demobilized = demobilized /\ w.expected = e
    BY <2>16
  <2>18. Becomes(w)
    BY <1>0, <2>5, <2>6, <2>7, <2>8, <2>17 DEF Becomes
  <2>19. expected \in [supply: Int, manpower: Int, resources: Int]
    BY ForcesOpen
  <2>20. /\ e \in [supply: Int, manpower: Int, resources: Int]
         /\ e.supply = expected.supply + Expedition.stock + Expedition.source
         /\ e.manpower = expected.manpower + Expedition.personnel
         /\ e.resources = expected.resources + Expedition.resources
    BY <2>9, <2>10, <2>19
  <2>21. Counted(w)
    BY <2>11, <2>13, <2>14, <2>15, <2>17, <2>20, LedgerHas DEF Counted, Stocked
  <2>22. Short(w, 0, OnRoad(shipments), 0)
    <3>1. /\ Pool(pools) \in Int /\ Pool(reserves) \in Int
          /\ demobilized.personnel \in Int /\ demobilized.arms \in Int
          /\ Men(formations) \in Int /\ Goods(formations) \in Int /\ Goods(sources) \in Int
          /\ Wealth(organizations) \in Int
      BY <2>11, AccountsAreNumbers, LedgerHas
    <3>2. /\ Men(formations) + Pool(pools) + demobilized.personnel + 0 = expected.manpower
          /\ Goods(sources) + Goods(formations) + Pool(reserves) + demobilized.arms + OnRoad(shipments) = expected.supply
          /\ Wealth(organizations) + 0 = expected.resources
      BY <2>11, LedgerHas DEF Short, MenOf, GoodsOf
    <3>3. /\ Men(forms) + Pool(pools) + demobilized.personnel + 0 = e.manpower
          /\ Goods(stores) + Goods(forms) + Pool(reserves) + demobilized.arms + OnRoad(shipments) = e.supply
          /\ Wealth(orgs) + 0 = e.resources
      BY <2>10, <2>11, <2>13, <2>14, <2>15, <2>20, <3>1, <3>2
    <3> QED
      BY <2>17, <3>3 DEF Short, MenOf, GoodsOf
  <2>23. DOMAIN formations \subseteq DOMAIN forms
    <3>1. IsList(formations) /\ forms = Append(formations, formation)
      BY <2>9, <2>12 DEF Appends, Formations
    <3>2. DOMAIN Append(formations, formation) = DOMAIN formations \cup {Len(formations) + 1}
      BY <3>1, ListAppend
    <3> QED
      BY <3>1, <3>2
  <2> QED
    BY <1>0, <2>6, <2>18, <2>21, <2>22, <2>23, BalancedKept
<1> QED
  BY <1>1, <1>2

\* A force that leaves takes with it what it has, and nothing off the books.
LEMMA PulledSame ==
  ASSUME Inv, Books, NEW i, i \in DOMAIN interventions, NEW f, Pulled(i, f)
  PROVE  /\ SameForces(formations, formations') /\ Priced(orders')
<1>0. Roads
  BY DEF Books
<1>1. Formations(formations)
  BY BooksOpen, LedgerHas DEF Sound
<1>2. Priced(orders')
  BY <1>0, OrdersKept, OrderPriced DEF Pulled
<1>3. \/ formations' = formations \/ formations' = [formations EXCEPT ![f].outside = TRUE]
  BY DEF Pulled
<1>4. SameForces(formations, formations')
  BY <1>1, <1>3 DEF SameForces, Formations, FormationFields
<1> QED
  BY <1>2, <1>4

LEMMA WithdrawalBooks ==
  ASSUME Inv, Books, NEW i, i \in DOMAIN interventions, Withdrawal(i)
  PROVE  Balanced' /\ Roads'
<1>0. /\ UNCHANGED <<organizations, sources, pools, reserves, demobilized, expected, shipments>>
  BY DEF Withdrawal
<1>1. SameForces(formations, formations') /\ Priced(orders')
  <2>1. CASE UNCHANGED <<formations, orders>>
    BY <2>1 DEF SameForces, Books, Roads, Priced
  <2>2. CASE ~UNCHANGED <<formations, orders>>
    <3>1. PICK f : f \in interventions[i].force /\ Pulled(i, f)
      BY <2>2 DEF Withdrawal
    <3> QED
      BY <3>1, PulledSame
  <2> QED
    BY <2>1, <2>2
<1>2. PICK forms : forms = formations'
  OBVIOUS
<1>3. PICK w : w = [organizations |-> organizations, formations |-> forms, sources |-> sources, pools |-> pools,
                    reserves |-> reserves, demobilized |-> demobilized, expected |-> expected]
  OBVIOUS
<1>4. /\ w.organizations = organizations /\ w.formations = forms /\ w.sources = sources /\ w.pools = pools
      /\ w.reserves = reserves /\ w.demobilized = demobilized /\ w.expected = expected
  BY <1>3
<1>5. Becomes(w)
  BY <1>0, <1>2, <1>4 DEF Becomes
<1>6. SameAccounts(Ledger, w)
  BY <1>1, <1>2, <1>4, LedgerHas DEF SameAccounts, SameHoldings, SameStocks
<1>7. Sound(Ledger) /\ Counted(Ledger) /\ Short(Ledger, 0, OnRoad(shipments), 0) /\ w.expected = Ledger.expected
  BY <1>4, BooksOpen, LedgerHas
<1>8. Counted(w) /\ Short(w, 0, OnRoad(shipments), 0)
  BY <1>6, <1>7, AccountsStay
<1>9. Balanced'
  BY <1>0, <1>5, <1>8, BalancedKept
<1>10. Roads'
  <2>1. DOMAIN formations \subseteq DOMAIN formations'
    BY <1>1 DEF SameForces
  <2> QED
    BY <1>0, <1>1, <2>1, RoadsStand DEF Books
<1> QED
  BY <1>9, <1>10

LEMMA ForeignBooks ==
  ASSUME Inv, Books, Foreign
  PROVE  Books'
<1>1. CASE UNCHANGED <<ledgerVars, logisticsVars>>
  <2>1. shipments' = shipments /\ UNCHANGED ledgerVars /\ DOMAIN formations \subseteq DOMAIN formations'
    BY <1>1 DEF logisticsVars, ledgerVars
  <2> QED
    BY <1>1, <2>1, BalancedSame, RoadsKept DEF Books
<1>2. ASSUME NEW s \in DOMAIN ForeignStates, Intervene(s) PROVE Books'
  <2>1. Balanced' /\ DOMAIN formations \subseteq DOMAIN formations'
    BY <1>2, InterveneBalances
  <2>2. UNCHANGED logisticsVars
    BY <1>2 DEF Intervene
  <2> QED
    BY <2>1, <2>2, RoadsKept DEF Books
<1>3. ASSUME NEW s \in DOMAIN ForeignStates, NEW o \in DOMAIN organizations, NEW funds \in Funds,
             NEW m \in Materiel, DeliverSupport(s, o, funds, m)
      PROVE  Books'
  <2>1. Balanced'
    BY <1>3, DeliverSupportBalances
  <2>2. UNCHANGED logisticsVars /\ DOMAIN formations' = DOMAIN formations
    BY <1>3 DEF DeliverSupport
  <2> QED
    BY <2>1, <2>2, RoadsKept DEF Books
<1>4. ASSUME NEW i \in DOMAIN interventions, Withdrawal(i) PROVE Books'
  BY <1>4, WithdrawalBooks DEF Books
<1>5. ProcessForeignAffairs => UNCHANGED <<ledgerVars, logisticsVars>>
  BY DEF ProcessForeignAffairs
<1>6. \A s \in DOMAIN ForeignStates : StayOut(s) => UNCHANGED <<ledgerVars, logisticsVars>>
  BY DEF StayOut
<1>7. \A i \in DOMAIN interventions : Continue(i) => UNCHANGED <<ledgerVars, logisticsVars>>
  BY DEF Continue
<1> QED
  BY <1>1, <1>2, <1>3, <1>4, <1>5, <1>6, <1>7 DEF Foreign, ForeignNext, ForeignStep

-----------------------------------------------------------------------------
(* The books are opened, and kept.                                         *)
\* The totals the program asserts are the accounts of its ledger.
LEMMA TotalsAre ==
  ASSUME DOMAIN pools = Keys, DOMAIN reserves = Keys
  PROVE  /\ Total(sources, LAMBDA s : s.stock) = Goods(sources)
         /\ Total(formations, LAMBDA f : f.stock) = Goods(formations)
         /\ Total(shipments, LAMBDA s : s.deliverable) = OnRoad(shipments)
         /\ ConflictResources = Wealth(organizations)
         /\ Manpower = Men(formations) + Pool(pools) + demobilized.personnel
         /\ SumFunction(pools) = Pool(pools) /\ SumFunction(reserves) = Pool(reserves)
<1>1. Total(sources, LAMBDA s : s.stock) = Goods(sources)
  BY DEF Total, Goods, Stock, SumFunction
<1>2. Total(formations, LAMBDA f : f.stock) = Goods(formations)
  BY DEF Total, Goods, Stock, SumFunction
<1>3. Total(shipments, LAMBDA s : s.deliverable) = OnRoad(shipments)
  BY DEF Total, OnRoad, SumFunction
<1>4. ConflictResources = Wealth(organizations)
  BY DEF Total, ConflictResources, Wealth, Holdings, SumFunction
<1>5. Total(formations, LAMBDA f : f.personnel) = Men(formations)
  BY DEF Total, Men, Soldiers, SumFunction
<1>6. SumFunction(pools) = Pool(pools) /\ SumFunction(reserves) = Pool(reserves)
  BY DEF Pool, SumFunction
<1> QED
  BY <1>1, <1>2, <1>3, <1>4, <1>5, <1>6 DEF Manpower

LEMMA OpeningBooks ==
  ASSUME WorldInit
  PROVE  Books
<1>1. Founded /\ Opening
  BY DEF WorldInit
<1>2. Sound(Ledger)
  BY OpeningLedger
<1>3. /\ pools = [k \in Keys |-> 0] /\ reserves = [k \in Keys |-> 0]
      /\ demobilized = [personnel |-> 0, arms |-> 0]
      /\ orders = <<>> /\ shipments = <<>>
  BY <1>1 DEF Opening
<1>4. DOMAIN pools = Keys /\ DOMAIN reserves = Keys
  BY <1>3
<1>5. /\ Pool(pools) = 0 /\ Pool(reserves) = 0
  BY <1>3, KeysFinite, SumOfZeros DEF Pool
<1>6. expected = [supply |-> Goods(sources) + Goods(formations),
                  manpower |-> Men(formations) + Pool(pools) + demobilized.personnel,
                  resources |-> Wealth(organizations)]
  BY <1>1, <1>4, TotalsAre DEF Opening
<1>7. Roads
  BY <1>3, EmptyList DEF Roads
<1>8. OnRoad(shipments) = 0
  <2>1. DOMAIN shipments = {}
    BY <1>3, EmptyList
  <2> QED
    BY <2>1, SumOfNone DEF OnRoad
<1>9. Carrying(formations)
  <2>1. IsList(formations) /\ \A f \in DOMAIN formations : formations[f] \in ArmedFormation
    BY <1>1, SeqIsList DEF Founded
  <2>2. \A f \in DOMAIN formations : formations[f].stock <= formations[f].capacity
    BY <1>1 DEF Founded, StockWithinCapacity
  <2> QED
    BY <2>1, <2>2 DEF Carrying, ArmedFormation
<1>10. Branching(organizations)
  BY <1>1 DEF Founded, Branching
<1>11. \A s \in DOMAIN sources : sources[s].stock \in Int
  <2>1. \A s \in DOMAIN sources : sources[s] \in SupplySource
    BY <1>1, SeqIsList DEF Founded
  <2> QED
    BY <2>1, ConflictAssumption DEF SupplySource
<1>12. demobilized \in [personnel: Int, arms: Int] /\ demobilized.personnel = 0 /\ demobilized.arms = 0
  BY <1>3
<1>13. Men(formations) \in Int /\ Goods(formations) \in Int /\ Goods(sources) \in Int /\ Wealth(organizations) \in Int
  <2>1. PICK e : e = [supply |-> 0, manpower |-> 0, resources |-> 0]
    OBVIOUS
  <2>2. PICK w : w = [organizations |-> organizations, formations |-> formations, sources |-> sources,
                      pools |-> pools, reserves |-> reserves, demobilized |-> demobilized, expected |-> e]
    OBVIOUS
  <2>3. /\ w.organizations = organizations /\ w.formations = formations /\ w.sources = sources
        /\ w.pools = pools /\ w.reserves = reserves /\ w.demobilized = demobilized /\ w.expected = e
        /\ DOMAIN w = LedgerFields
    BY <2>2 DEF LedgerFields
  <2>4. Sound(w)
    BY <1>2, <2>3, LedgerIs DEF Sound
  <2>5. e \in [supply: Int, manpower: Int, resources: Int]
    BY <2>1
  <2>6. Counted(w)
    BY <1>9, <1>10, <1>11, <1>12, <2>3, <2>5 DEF Counted
  <2> QED
    BY <2>3, <2>4, <2>6, AccountsAreNumbers
<1>14. /\ expected \in [supply: Int, manpower: Int, resources: Int]
       /\ expected.supply = Goods(sources) + Goods(formations)
       /\ expected.manpower = Men(formations)
       /\ expected.resources = Wealth(organizations)
  BY <1>5, <1>6, <1>12, <1>13
<1>15. Counted(Ledger)
  BY <1>9, <1>10, <1>11, <1>12, <1>14, LedgerHas DEF Counted
<1>16. Short(Ledger, 0, OnRoad(shipments), 0)
  <2>1. /\ Men(formations) + Pool(pools) + demobilized.personnel + 0 = expected.manpower
        /\ Goods(sources) + Goods(formations) + Pool(reserves) + demobilized.arms + OnRoad(shipments) = expected.supply
        /\ Wealth(organizations) + 0 = expected.resources
    BY <1>5, <1>8, <1>12, <1>13, <1>14
  <2> QED
    BY <2>1, LedgerHas DEF Short, MenOf, GoodsOf
<1> QED
  BY <1>7, <1>15, <1>16 DEF Books, Balanced

LEMMA NextBooks ==
  ASSUME Inv, Books, WorldNext
  PROVE  Books'
  BY ForcesBooks, ForeignBooks, MobilizationBooks, PeaceBooks DEF WorldNext

LEMMA StutterBooks ==
  ASSUME Books, UNCHANGED worldVars
  PROVE  Books'
<1>1. UNCHANGED ledgerVars /\ shipments' = shipments /\ UNCHANGED logisticsVars /\ formations' = formations
  BY DEF worldVars, foreignVars, sharedVars, logisticsVars, ledgerVars
<1> QED
  BY <1>1, BalancedSame, RoadsKept DEF Books

LEMMA BooksShow ==
  ASSUME Inv, Books
  PROVE  AccountsBalance
<1>1. Sound(Ledger) /\ Counted(Ledger) /\ Short(Ledger, 0, OnRoad(shipments), 0)
  BY BooksOpen
<1>2. DOMAIN pools = Keys /\ DOMAIN reserves = Keys
  BY <1>1, LedgerHas DEF Sound
<1>3. /\ Pool(pools) \in Int /\ Pool(reserves) \in Int
      /\ demobilized.personnel \in Int /\ demobilized.arms \in Int
      /\ Men(formations) \in Int /\ Goods(formations) \in Int /\ Goods(sources) \in Int
      /\ Wealth(organizations) \in Int /\ OnRoad(shipments) \in Int
  BY <1>1, BooksOpen, AccountsAreNumbers, LedgerHas
<1>4. /\ Men(formations) + Pool(pools) + demobilized.personnel + 0 = expected.manpower
      /\ Goods(sources) + Goods(formations) + Pool(reserves) + demobilized.arms + OnRoad(shipments) = expected.supply
      /\ Wealth(organizations) + 0 = expected.resources
  BY <1>1, LedgerHas DEF Short, MenOf, GoodsOf
<1>5. /\ Total(sources, LAMBDA s : s.stock) = Goods(sources)
      /\ Total(formations, LAMBDA f : f.stock) = Goods(formations)
      /\ Total(shipments, LAMBDA s : s.deliverable) = OnRoad(shipments)
      /\ ConflictResources = Wealth(organizations)
      /\ Manpower = Men(formations) + Pool(pools) + demobilized.personnel
      /\ SumFunction(pools) = Pool(pools) /\ SumFunction(reserves) = Pool(reserves)
  BY <1>2, TotalsAre
<1>6. ManpowerConserved
  BY <1>3, <1>4, <1>5 DEF ManpowerConserved
<1>7. ResourcesConserved
  BY <1>3, <1>4, <1>5 DEF ResourcesConserved
<1>8. SupplyConserved
  BY <1>3, <1>4, <1>5 DEF SupplyConserved
<1>9. StockWithinCapacity
  BY <1>1, LedgerHas DEF Counted, Carrying, StockWithinCapacity
<1> QED
  BY <1>6, <1>7, <1>8, <1>9 DEF AccountsBalance

\* Nothing is lost: what the program asserts at every checkpoint of its ledger holds
\* after every step of every handler, in whatever order they run.  Fighters, supply
\* and resources are what the world opened with and what was recorded since, and no
\* formation holds more than it can carry (ledger.py, logistics.py).
THEOREM NothingIsLost == WorldSpec => []AccountsBalance
<1>1. WorldInit => Books
  BY OpeningBooks
<1>2. Inv /\ Books /\ [WorldNext]_worldVars => Books'
  BY NextBooks, StutterBooks
<1>3. Inv /\ Books => AccountsBalance
  BY BooksShow
<1> QED
  BY <1>1, <1>2, <1>3, WorldInvariant, PTL DEF WorldSpec
=============================================================================
