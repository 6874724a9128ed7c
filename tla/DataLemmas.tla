----------------------------- MODULE DataLemmas -----------------------------
(***************************************************************************)
(* Induction, and what the recursive definitions behind MapThenSumSet and  *)
(* FlattenSeq compute, as facts about sets and functions: the sizes of the *)
(* commands of a ring, and their bytes laid end to end.                    *)
(***************************************************************************)
EXTENDS Integers, SequencesExt, SequenceTheorems, FiniteSetTheorems, WellFoundedInduction, TLAPS

\* A set of numbers that is not empty has a least one.
LEMMA NatHasLeast ==
  ASSUME NEW T, T \subseteq Nat, T # {}
  PROVE  \E x \in T : \A y \in T : x <= y
  <1> DEFINE R == OpToRel(<, Nat)
  <1>1. IsWellFoundedOn(R, Nat)
    BY NatLessThanWellFounded
  <1>2. \A x, y \in Nat : <<y, x>> \in R <=> y < x
    BY DEF OpToRel
  <1> HIDE DEF R
  <1>3. \E x \in T : \A y \in T : <<y, x>> \notin R
    BY <1>1, WFMin
  <1>4. PICK x \in T : \A y \in T : <<y, x>> \notin R
    BY <1>3
  <1>5. ASSUME NEW y \in T PROVE x <= y
    <2>1. ~(y < x)
      BY <1>2, <1>4
    <2> QED BY <2>1
  <1> QED BY <1>4, <1>5

\* Induction over the numbers, with a set in the place of the predicate.
LEMMA SetInduction ==
  ASSUME NEW S, 0 \in S, \A n \in Nat : n \in S => n + 1 \in S
  PROVE  \A n \in Nat : n \in S
  <1> SUFFICES ASSUME Nat \ S # {} PROVE FALSE
    OBVIOUS
  <1>1. PICK x \in Nat \ S : \A y \in Nat \ S : x <= y
    BY NatHasLeast
  <1>2. x # 0 /\ x - 1 \in Nat /\ ~(x <= x - 1)
    OBVIOUS
  <1>3. x - 1 \in S
    BY <1>1, <1>2
  <1>4. (x - 1) + 1 = x
    OBVIOUS
  <1> QED BY <1>1, <1>2, <1>3, <1>4

\* The same up to a bound.
LEMMA BoundedInduction ==
  ASSUME NEW m \in Nat, NEW S, 0 \in S, \A n \in 0 .. (m - 1) : n \in S => n + 1 \in S
  PROVE  \A n \in 0 .. m : n \in S
  <1> DEFINE T == {n \in Nat : n <= m => n \in S}
  <1>1. 0 \in T
    OBVIOUS
  <1>2. ASSUME NEW n \in Nat, n \in T PROVE n + 1 \in T
    <2> SUFFICES ASSUME n + 1 <= m PROVE n + 1 \in S
      OBVIOUS
    <2>1. n \in 0 .. (m - 1) /\ n \in S
      BY <1>2
    <2> QED BY <2>1
  <1>3. \A n \in Nat : n \in T
    <2> HIDE DEF T
    <2> QED BY <1>1, <1>2, SetInduction
  <1> QED BY <1>3

\* g[n] takes the value at n - 1 to the one at n, and f is what comes of it.
IsStep(g, V, m) == g \in [1 .. m -> [V -> V]]

Iterates(f, V, a, m, g) ==
  /\ f \in [0 .. m -> V]
  /\ f[0] = a
  /\ \A n \in 1 .. m : f[n] = g[n][f[n - 1]]

\* A function defined by its first value and a step exists.
LEMMA RecursionExists ==
  ASSUME NEW V, NEW a, NEW m, NEW g, a \in V, m \in Nat, IsStep(g, V, m)
  PROVE  \E f : Iterates(f, V, a, m, g)
  <1> DEFINE Upto(n, f) == /\ f[0] = a
                           /\ \A k \in 1 .. n : f[k] = g[k][f[k - 1]]
             S == {n \in 0 .. m : \E f \in [0 .. n -> V] : Upto(n, f)}
  <1>1. 0 \in S
    <2>1. [k \in 0 .. 0 |-> a] \in [0 .. 0 -> V] /\ Upto(0, [k \in 0 .. 0 |-> a])
      OBVIOUS
    <2> HIDE DEF Upto
    <2>2. \E f \in [0 .. 0 -> V] : Upto(0, f)
      BY <2>1
    <2> QED BY <2>2
  <1>2. ASSUME NEW n \in 0 .. (m - 1), n \in S PROVE n + 1 \in S
    <2>1. PICK f \in [0 .. n -> V] : Upto(n, f)
      BY <1>2
    <2> DEFINE h == [k \in 0 .. (n + 1) |-> IF k <= n THEN f[k] ELSE g[n + 1][f[n]]]
    <2>2. g[n + 1][f[n]] \in V
      BY DEF IsStep
    <2>3. h \in [0 .. (n + 1) -> V]
      BY <2>2
    <2>4. h[0] = a
      BY <2>1
    <2>5. ASSUME NEW k \in 1 .. (n + 1) PROVE h[k] = g[k][h[k - 1]]
      <3>1. CASE k <= n
        BY <2>1, <3>1
      <3>2. CASE k = n + 1
        <4>1. h[k] = g[n + 1][f[n]] /\ h[k - 1] = f[n]
          BY <3>2
        <4> QED BY <3>2, <4>1
      <3> QED BY <3>1, <3>2
    <2> HIDE DEF h
    <2>6. Upto(n + 1, h)
      BY <2>4, <2>5
    <2> HIDE DEF Upto
    <2>7. \E w \in [0 .. (n + 1) -> V] : Upto(n + 1, w)
      BY <2>3, <2>6
    <2>8. n + 1 \in 0 .. m
      OBVIOUS
    <2> QED BY <2>7, <2>8
  <1> HIDE DEF Upto
  <1>3. m \in S
    <2> HIDE DEF S
    <2>1. \A n \in 0 .. m : n \in S
      BY <1>1, <1>2, BoundedInduction
    <2> QED BY <2>1
  <1>4. PICK f \in [0 .. m -> V] : Upto(m, f)
    BY <1>3
  <1> QED BY <1>4 DEF Upto, Iterates

----------------------------------------------------------------------------

Chosen(s) == CHOOSE x \in s : TRUE

\* g sums the values of F over the subsets of D, in the order CHOOSE takes them.
SumsOver(g, F, D) ==
  g = [s \in SUBSET D |-> IF s = {} THEN 0 ELSE F[Chosen(s)] + g[s \ {Chosen(s)}]]

\* The recursion over the subsets of a finite set has a solution.
LEMMA SumExists ==
  ASSUME NEW D, NEW F, IsFiniteSet(D), F \in [D -> Nat]
  PROVE  \E g : SumsOver(g, F, D)
  <1> DEFINE Small(n) == {s \in SUBSET D : Cardinality(s) <= n}
             Next(g, s) == IF s = {} THEN 0 ELSE F[Chosen(s)] + g[s \ {Chosen(s)}]
             S == {n \in Nat : \E g : g = [s \in Small(n) |-> Next(g, s)]}
  <1>1. ASSUME NEW s \in SUBSET D, s # {}
        PROVE  /\ Chosen(s) \in s
               /\ s \ {Chosen(s)} \in SUBSET D
               /\ Cardinality(s) \in Nat
               /\ Cardinality(s \ {Chosen(s)}) = Cardinality(s) - 1
    <2>1. Chosen(s) \in s
      BY <1>1 DEF Chosen
    <2>2. IsFiniteSet(s)
      BY FS_Subset
    <2> QED BY <2>1, <2>2, FS_RemoveElement, FS_CardinalityType
  <1>2. \A s \in SUBSET D : Cardinality(s) \in Nat /\ (Cardinality(s) = 0 <=> s = {})
    BY FS_Subset, FS_CardinalityType, FS_EmptySet
  <1>3. 0 \in S
    <2> DEFINE z == [s \in Small(0) |-> 0]
    <2>1. \A s \in Small(0) : s = {}
      BY <1>2
    <2>2. z = [s \in Small(0) |-> Next(z, s)]
      BY <2>1
    <2> QED BY <2>2
  <1>4. ASSUME NEW n \in Nat, n \in S PROVE n + 1 \in S
    <2>1. PICK g : g = [s \in Small(n) |-> Next(g, s)]
      BY <1>4
    <2> DEFINE h == [s \in Small(n + 1) |-> IF s \in Small(n) THEN g[s] ELSE Next(g, s)]
    <2>2. ASSUME NEW s \in Small(n + 1) PROVE h[s] = Next(h, s)
      <3>1. CASE s = {}
        BY <1>2, <2>1, <3>1
      <3>2. CASE s # {}
        <4> DEFINE r == s \ {Chosen(s)}
        <4>1. r \in Small(n) /\ r \in Small(n + 1)
          BY <1>1, <1>2, <3>2
        <4>2. h[r] = g[r]
          BY <4>1
        <4>3. h[s] = Next(g, s)
          BY <2>1
        <4> QED BY <3>2, <4>2, <4>3
      <3> QED BY <3>1, <3>2
    <2>3. h = [s \in Small(n + 1) |-> h[s]]
      OBVIOUS
    <2> HIDE DEF h, Next
    <2>4. h = [s \in Small(n + 1) |-> Next(h, s)]
      BY <2>2, <2>3
    <2>5. \E w : w = [s \in Small(n + 1) |-> Next(w, s)]
      BY <2>4, Zenon
    <2>6. n + 1 \in Nat
      OBVIOUS
    <2> QED BY <2>5, <2>6, Zenon
  <1> HIDE DEF Next
  <1>5. Cardinality(D) \in S
    <2> HIDE DEF S
    <2>1. \A n \in Nat : n \in S
      BY <1>3, <1>4, SetInduction
    <2> QED BY <2>1, FS_CardinalityType
  <1>6. SUBSET D = Small(Cardinality(D))
    BY FS_Subset, FS_CardinalityType
  <1>7. PICK g : g = [s \in SUBSET D |-> Next(g, s)]
    BY <1>5, <1>6
  <1> QED BY <1>7 DEF SumsOver, Next

\* Such a sum is a number, and does not depend on the order: any element may
\* be the one that is added last.
LEMMA SumStep ==
  ASSUME NEW D, NEW F, NEW g, IsFiniteSet(D), F \in [D -> Nat], SumsOver(g, F, D)
  PROVE  /\ g[{}] = 0
         /\ \A s \in SUBSET D : g[s] \in Nat
         /\ \A s \in SUBSET D : \A x \in s : g[s] = F[x] + g[s \ {x}]
  <1> DEFINE Sized(n) == {s \in SUBSET D : Cardinality(s) = n}
             S == {n \in Nat : \A s \in Sized(n) : g[s] \in Nat}
             T == {n \in Nat : \A s \in Sized(n) : \A x \in s : g[s] = F[x] + g[s \ {x}]}
  <1>1. ASSUME NEW n \in Nat, NEW s \in Sized(n + 1), NEW x \in s
        PROVE  s \ {x} \in Sized(n)
    <2>1. s \in SUBSET D /\ IsFiniteSet(s) /\ Cardinality(s) = n + 1
      BY FS_Subset
    <2>2. Cardinality(s \ {x}) = (n + 1) - 1
      BY <2>1, FS_RemoveElement
    <2> QED BY <2>1, <2>2
  <1>2. /\ \A s \in SUBSET D : Cardinality(s) \in Nat
        /\ \A s \in Sized(0) : s = {}
        /\ \A n \in Nat : \A s \in Sized(n + 1) : s # {}
    BY FS_Subset, FS_CardinalityType, FS_EmptySet
  <1>3. g[{}] = 0
    BY DEF SumsOver
  <1>4. \A s \in SUBSET D : s # {} =>
          Chosen(s) \in s /\ g[s] = F[Chosen(s)] + g[s \ {Chosen(s)}]
    BY DEF SumsOver, Chosen
  <1>5. \A s \in SUBSET D : s \in Sized(Cardinality(s))
    OBVIOUS
  <1>6. ASSUME NEW n \in Nat PROVE Sized(n) \subseteq SUBSET D
    OBVIOUS
  <1> HIDE DEF Sized
  <1>7. ASSUME NEW n \in Nat, n \in S PROVE n + 1 \in S
    <2> SUFFICES ASSUME NEW s \in Sized(n + 1) PROVE g[s] \in Nat
      OBVIOUS
    <2>1. s \in SUBSET D /\ s # {}
      BY <1>2, <1>6
    <2>2. Chosen(s) \in s /\ g[s] = F[Chosen(s)] + g[s \ {Chosen(s)}]
      BY <1>4, <2>1
    <2>3. g[s \ {Chosen(s)}] \in Nat
      BY <1>1, <1>7, <2>2
    <2> QED BY <2>1, <2>2, <2>3
  <1>8. \A s \in SUBSET D : g[s] \in Nat
    <2>1. 0 \in S
      <3>1. ASSUME NEW s \in Sized(0) PROVE g[s] \in Nat
        <4>1. g[s] = 0
          BY <1>2, <1>3, Zenon
        <4> QED BY <4>1
      <3> QED BY <3>1
    <2> HIDE DEF S
    <2>2. \A n \in Nat : n \in S
      BY <1>7, <2>1, SetInduction
    <2> QED BY <1>2, <1>5, <2>2 DEF S
  <1>9. ASSUME NEW n \in Nat, n \in T PROVE n + 1 \in T
    <2> SUFFICES ASSUME NEW s \in Sized(n + 1), NEW x \in s PROVE g[s] = F[x] + g[s \ {x}]
      OBVIOUS
    <2> DEFINE c == Chosen(s)
               r == s \ {x, c}
    <2>1. s \in SUBSET D /\ s # {} /\ r \in SUBSET D
      BY <1>2, <1>6
    <2>2. c \in s /\ g[s] = F[c] + g[s \ {c}]
      BY <1>4, <2>1
    <2>3. s \ {c} \in Sized(n) /\ s \ {x} \in Sized(n)
      BY <1>1, <2>2
    <2>4. F[x] \in Nat /\ F[c] \in Nat /\ g[r] \in Nat
      BY <1>8, <2>1, <2>2
    <2> HIDE DEF c
    <2>5. CASE x # c
      <3>1. (s \ {c}) \ {x} = r /\ (s \ {x}) \ {c} = r
        OBVIOUS
      <3>2. g[s \ {c}] = F[x] + g[(s \ {c}) \ {x}]
        BY <1>9, <2>3, <2>5
      <3>3. g[s \ {x}] = F[c] + g[(s \ {x}) \ {c}]
        BY <1>9, <2>2, <2>3, <2>5
      <3>4. g[s \ {c}] = F[x] + g[r]
        BY <3>1, <3>2, Zenon
      <3>5. g[s \ {x}] = F[c] + g[r]
        BY <3>1, <3>3, Zenon
      <3> HIDE DEF r
      <3> QED BY <2>2, <2>4, <3>4, <3>5
    <2> QED BY <2>2, <2>5
  <1>10. \A s \in SUBSET D : \A x \in s : g[s] = F[x] + g[s \ {x}]
    <2>1. 0 \in T
      BY <1>2
    <2> HIDE DEF T
    <2>2. \A n \in Nat : n \in T
      BY <1>9, <2>1, SetInduction
    <2> QED BY <1>2, <1>5, <2>2 DEF T
  <1> QED BY <1>3, <1>8, <1>10

\* p meets n elements of D once each, and T[m] is the total of F before p[m].
Totals(T, F, D, p, n) ==
  /\ p \in [0 .. (n - 1) -> D]
  /\ \A i, j \in 0 .. (n - 1) : p[i] = p[j] => i = j
  /\ T \in [0 .. n -> Nat]
  /\ T[0] = 0
  /\ \A i \in 0 .. (n - 1) : T[i + 1] = T[i] + F[p[i]]

Met(p, n) == {p[i] : i \in 0 .. (n - 1)}

\* The sum over what an enumeration meets is its last total.
LEMMA SumAlong ==
  ASSUME NEW D, NEW F, NEW g, NEW n \in Nat, NEW p, NEW T,
         IsFiniteSet(D), F \in [D -> Nat], SumsOver(g, F, D), Totals(T, F, D, p, n)
  PROVE  g[Met(p, n)] = T[n]
  <1> DEFINE S == {m \in 0 .. n : g[Met(p, m)] = T[m]}
  <1>1. /\ g[{}] = 0
        /\ \A s \in SUBSET D : g[s] \in Nat
        /\ \A s \in SUBSET D : \A x \in s : g[s] = F[x] + g[s \ {x}]
    BY SumStep
  <1>2. 0 \in S
    <2>1. Met(p, 0) = {}
      BY DEF Met
    <2>2. g[Met(p, 0)] = 0
      BY <1>1, <2>1, Zenon
    <2> QED BY <2>2 DEF Totals
  <1>3. ASSUME NEW m \in 0 .. (n - 1), m \in S PROVE m + 1 \in S
    <2>1. PICK s \in SUBSET D : s = Met(p, m + 1)
      <3>1. \A i \in 0 .. (m + 1 - 1) : p[i] \in D
        BY DEF Totals
      <3>2. Met(p, m + 1) \in SUBSET D
        BY <3>1 DEF Met
      <3> QED BY <3>2
    <2>2. PICK x \in D : x = p[m]
      BY DEF Totals
    <2>3. x \in s
      BY <2>1, <2>2 DEF Met
    <2>4. s \ {x} = Met(p, m)
      <3>1. ASSUME NEW i \in 0 .. m, p[i] # p[m] PROVE i \in 0 .. (m - 1)
        BY <3>1
      <3>2. ASSUME NEW i \in 0 .. (m - 1) PROVE p[i] # p[m] /\ i \in 0 .. m
        BY DEF Totals
      <3>3. m + 1 - 1 = m
        OBVIOUS
      <3> QED BY <2>1, <2>2, <3>1, <3>2, <3>3 DEF Met
    <2>5. g[s] = F[x] + g[s \ {x}]
      BY <1>1, <2>3
    <2>6. g[Met(p, m)] = T[m] /\ T[m + 1] = T[m] + F[x] /\ T[m] \in Nat /\ F[x] \in Nat
      BY <1>3, <2>2 DEF Totals
    <2>7. g[s] = F[x] + T[m]
      BY <2>4, <2>5, <2>6, Zenon
    <2>8. g[Met(p, m + 1)] = T[m + 1]
      BY <2>1, <2>6, <2>7
    <2> QED BY <2>8
  <1>4. \A m \in 0 .. n : m \in S
    <2> HIDE DEF S
    <2> QED BY <1>2, <1>3, BoundedInduction
  <1>5. g[Met(p, n)] = T[n]
    <2>1. n \in 0 .. n
      OBVIOUS
    <2> QED BY <1>4, <2>1
  <1> QED BY <1>5

----------------------------------------------------------------------------

\* Running totals do not decrease, and every offset before the last of them
\* lies between two neighbours.
LEMMA RunningTotals ==
  ASSUME NEW n \in Nat, NEW L \in [0 .. n -> Nat],
         \A i \in 1 .. n : L[i] >= L[i - 1]
  PROVE  /\ \A j \in 0 .. n : \A i \in 0 .. j : L[i] <= L[j]
         /\ \A off \in Nat : L[0] <= off /\ off < L[n] =>
              \E i \in 1 .. n : L[i - 1] <= off /\ off < L[i]
  <1>1. \A j \in 0 .. n : \A i \in 0 .. j : L[i] <= L[j]
    <2> DEFINE S == {j \in 0 .. n : \A i \in 0 .. j : L[i] <= L[j]}
    <2>1. 0 \in S
      OBVIOUS
    <2>2. ASSUME NEW j \in 0 .. (n - 1), j \in S PROVE j + 1 \in S
      <3>1. L[j + 1] >= L[j]
        <4>1. j + 1 \in 1 .. n /\ (j + 1) - 1 = j
          OBVIOUS
        <4> QED BY <4>1
      <3>2. ASSUME NEW i \in 0 .. (j + 1) PROVE L[i] <= L[j + 1]
        <4>1. CASE i = j + 1
          BY <4>1
        <4>2. CASE i # j + 1
          <5>1. i \in 0 .. j /\ L[i] <= L[j] /\ L[i] \in Nat /\ L[j] \in Nat /\ L[j + 1] \in Nat
            BY <2>2, <4>2
          <5> QED BY <3>1, <5>1
        <4> QED BY <4>1, <4>2
      <3> QED BY <3>2
    <2>3. \A j \in 0 .. n : j \in S
      <3> HIDE DEF S
      <3> QED BY <2>1, <2>2, BoundedInduction
    <2> QED BY <2>3
  <1>2. ASSUME NEW off \in Nat, L[0] <= off, off < L[n]
        PROVE  \E i \in 1 .. n : L[i - 1] <= off /\ off < L[i]
    <2> DEFINE T == {i \in 0 .. n : off < L[i]}
    <2>1. PICK i \in T : \A j \in T : i <= j
      <3>1. T \subseteq Nat /\ n \in T
        BY <1>2
      <3> HIDE DEF T
      <3> QED BY <3>1, NatHasLeast
    <2>2. i # 0
      BY <1>2
    <2>3. i - 1 \in 0 .. n /\ i \in 1 .. n /\ i - 1 \notin T
      BY <2>1, <2>2
    <2> QED BY <2>3
  <1> QED BY <1>1, <1>2

\* f[i] is the first i sequences of ss, joined one after another.
Joins(f, X, ss, n) ==
  /\ f \in [0 .. n -> Seq(X)]
  /\ f[0] = <<>>
  /\ \A i \in 1 .. n : f[i] = f[i - 1] \o ss[i]

\* Such partial joins exist.
LEMMA ConcatExists ==
  ASSUME NEW X, NEW n, NEW ss, n \in Nat, ss \in [1 .. n -> Seq(X)]
  PROVE  \E f : Joins(f, X, ss, n)
  <1> DEFINE g == [i \in 1 .. n |-> [v \in Seq(X) |-> v \o ss[i]]]
             e == <<>>
  <1>1. IsStep(g, Seq(X), n) /\ e \in Seq(X)
    BY DEF IsStep
  <1>2. \A i \in 1 .. n : \A v \in Seq(X) : g[i][v] = v \o ss[i]
    OBVIOUS
  <1> HIDE DEF g, e
  <1>3. \E f : Iterates(f, Seq(X), e, n, g)
    BY <1>1, RecursionExists
  <1>4. PICK f : Iterates(f, Seq(X), e, n, g)
    BY <1>3
  <1>5. ASSUME NEW i \in 1 .. n PROVE f[i] = f[i - 1] \o ss[i]
    <2>1. f[i - 1] \in Seq(X) /\ f[i] = g[i][f[i - 1]]
      BY <1>4 DEF Iterates
    <2> QED BY <1>2, <2>1
  <1>6. f \in [0 .. n -> Seq(X)] /\ f[0] = <<>>
    BY <1>4 DEF Iterates, e
  <1> QED BY <1>5, <1>6 DEF Joins

\* FlattenSeq joins the sequences one after another.
LEMMA FlattenJoins ==
  ASSUME NEW X, NEW ss \in Seq(Seq(X))
  PROVE  \E f : Joins(f, X, ss, Len(ss)) /\ FlattenSeq(ss) = f[Len(ss)]
  <1>v. PICK V : V = Seq(X)
    OBVIOUS
  <1>n. PICK n \in Nat : n = Len(ss)
    OBVIOUS
  <1> DEFINE Flattens(h) == h = [i \in 1 .. n |-> IF i = 1 THEN ss[i] ELSE h[i - 1] \o ss[i]]
  <1> SUFFICES \E f : Joins(f, X, ss, n) /\ FlattenSeq(ss) = f[n]
    BY <1>n
  <1>2. /\ <<>> \in V
        /\ \A v, w \in V : v \o w \in V
        /\ \A v \in V : <<>> \o v = v
        /\ \A i \in 1 .. n : ss[i] \in V
    BY <1>v, <1>n
  <1>3. n = 0 => FlattenSeq(ss) = <<>>
    <2> SUFFICES ASSUME n = 0 PROVE FlattenSeq(ss) = <<>>
      OBVIOUS
    <2>1. ss = <<>> /\ Len(ss) = 0
      BY <1>n
    <2> QED BY <2>1 DEF FlattenSeq
  <1>4. n # 0 => FlattenSeq(ss) = (CHOOSE h : Flattens(h))[n]
    BY <1>n DEF FlattenSeq
  <1>5. ss \in [1 .. n -> Seq(X)]
    BY <1>n
  <1>6. PICK f : Joins(f, X, ss, n)
    BY <1>5, ConcatExists
  <1>j. f[0] = <<>> /\ \A i \in 1 .. n : f[i] = f[i - 1] \o ss[i]
    BY <1>6 DEF Joins
  <1>7. n # 0 => (CHOOSE h : Flattens(h))[n] = f[n]
    <2> SUFFICES ASSUME n # 0 PROVE (CHOOSE h : Flattens(h))[n] = f[n]
      OBVIOUS
    <2> DEFINE h == [i \in 1 .. n |-> f[i]]
               flatten == CHOOSE w : Flattens(w)
    <2>1. ASSUME NEW i \in 1 .. n
          PROVE  h[i] = IF i = 1 THEN ss[i] ELSE h[i - 1] \o ss[i]
      <3>1. h[i] = f[i] /\ f[i] = f[i - 1] \o ss[i]
        BY <1>j
      <3>2. CASE i = 1
        <4>1. f[i - 1] = <<>>
          BY <1>j, <3>2
        <4> QED BY <1>2, <3>1, <3>2, <4>1
      <3>3. CASE i # 1
        <4>1. i - 1 \in 1 .. n
          BY <3>3
        <4>2. h[i - 1] = f[i - 1]
          BY <4>1
        <4> QED BY <3>1, <3>3, <4>2
      <3> QED BY <3>2, <3>3
    <2>2. h = [i \in 1 .. n |-> h[i]]
      OBVIOUS
    <2> HIDE DEF h
    <2>3. Flattens(h)
      BY <2>1, <2>2
    <2>4. Flattens(flatten)
      <3> HIDE DEF Flattens
      <3> QED BY <2>3
    <2> HIDE DEF flatten
    <2>5. \A i \in 1 .. n : flatten[i] = IF i = 1 THEN ss[i] ELSE flatten[i - 1] \o ss[i]
      BY <2>4
    <2> DEFINE S == {i \in 0 .. n : i > 0 => flatten[i] = f[i]}
    <2>6. ASSUME NEW i \in 0 .. (n - 1), i \in S PROVE i + 1 \in S
      <3>1. i + 1 \in 1 .. n /\ (i + 1) - 1 = i /\ i + 1 \in 0 .. n
        OBVIOUS
      <3>2. f[i + 1] = f[i] \o ss[i + 1]
        BY <1>j, <3>1
      <3>3. flatten[i + 1] = f[i + 1]
        <4>1. CASE i = 0
          <5>1. f[i + 1] = <<>> \o ss[i + 1]
            BY <1>j, <3>2, <4>1
          <5>2. flatten[i + 1] = ss[i + 1]
            BY <2>5, <3>1, <4>1
          <5> QED BY <1>2, <3>1, <5>1, <5>2
        <4>2. CASE i # 0
          <5>1. flatten[i] = f[i] /\ i + 1 # 1
            BY <2>6, <4>2
          <5>2. flatten[i + 1] = flatten[(i + 1) - 1] \o ss[i + 1]
            BY <2>5, <3>1, <5>1
          <5> QED BY <3>1, <3>2, <5>1, <5>2
        <4> QED BY <4>1, <4>2
      <3> QED BY <3>1, <3>3
    <2>7. 0 \in S
      OBVIOUS
    <2> HIDE DEF S
    <2>8. \A i \in 0 .. n : i \in S
      BY <2>6, <2>7, BoundedInduction
    <2>9. n \in S /\ n > 0
      BY <2>8
    <2> QED BY <2>9 DEF S, flatten
  <1>8. FlattenSeq(ss) = f[n]
    <2> HIDE DEF Flattens
    <2> QED BY <1>3, <1>4, <1>j, <1>7
  <1> QED BY <1>6, <1>8

\* Where the parts of a joined sequence w lie: L[i] elements come from the
\* first i of them.
Layout(L, ss, n, w) ==
  /\ L \in [0 .. n -> Nat]
  /\ L[0] = 0
  /\ \A i \in 1 .. n : L[i] = L[i - 1] + Len(ss[i])
  /\ Len(w) = L[n]
  /\ \A i \in 1 .. n : \A j \in 1 .. Len(ss[i]) : w[L[i - 1] + j] = ss[i][j]

\* The j-th element of the i-th part comes after all the parts before it.
LEMMA JoinLayout ==
  ASSUME NEW X, NEW n, NEW ss, NEW f, n \in Nat, ss \in [1 .. n -> Seq(X)], Joins(f, X, ss, n)
  PROVE  \E L : Layout(L, ss, n, f[n])
  <1>1. /\ \A m \in 0 .. n : f[m] \in Seq(X) /\ Len(f[m]) \in Nat
        /\ \A i \in 1 .. n : ss[i] \in Seq(X) /\ Len(ss[i]) \in Nat
        /\ f[0] = <<>> /\ Len(f[0]) = 0
        /\ \A i \in 1 .. n : f[i] = f[i - 1] \o ss[i]
    <2>1. \A m \in 0 .. n : f[m] \in Seq(X)
      BY DEF Joins
    <2>2. \A i \in 1 .. n : ss[i] \in Seq(X)
      OBVIOUS
    <2>3. \A w \in Seq(X) : Len(w) \in Nat
      OBVIOUS
    <2>4. f[0] = <<>> /\ Len(<<>>) = 0
      BY DEF Joins
    <2> QED BY <2>1, <2>2, <2>3, <2>4 DEF Joins
  <1>2. PICK L \in [0 .. n -> Nat] : \A m \in 0 .. n : L[m] = Len(f[m])
    <2> DEFINE M == [m \in 0 .. n |-> Len(f[m])]
    <2>1. M \in [0 .. n -> Nat] /\ \A m \in 0 .. n : M[m] = Len(f[m])
      BY <1>1
    <2> HIDE DEF M
    <2> QED BY <2>1
  <1>3. ASSUME NEW i \in 1 .. n
        PROVE  /\ L[i] = L[i - 1] + Len(ss[i])
               /\ \A k \in 1 .. L[i - 1] : f[i][k] = f[i - 1][k]
               /\ \A j \in 1 .. Len(ss[i]) : f[i][L[i - 1] + j] = ss[i][j]
    <2>1. i - 1 \in 0 .. n /\ i \in 0 .. n
      BY <1>1
    <2>2. PICK u \in Seq(X) : u = f[i - 1]
      BY <1>1, <2>1
    <2>3. PICK v \in Seq(X) : v = ss[i]
      BY <1>1
    <2>4. f[i] = u \o v
      BY <1>1, <2>2, <2>3
    <2>5. /\ Len(u \o v) = Len(u) + Len(v)
          /\ \A k \in 1 .. Len(u) : (u \o v)[k] = u[k]
          /\ \A j \in 1 .. Len(v) : (u \o v)[Len(u) + j] = v[j]
      OBVIOUS
    <2>6. L[i - 1] = Len(u) /\ L[i] = Len(u \o v)
      BY <1>2, <2>1, <2>2, <2>4
    <2> QED BY <2>2, <2>3, <2>4, <2>5, <2>6
  <1> DEFINE In(i, j, m) == L[i - 1] + j \in 1 .. L[m] /\ f[m][L[i - 1] + j] = ss[i][j]
             S == {m \in 0 .. n : \A i \in 1 .. m : \A j \in 1 .. Len(ss[i]) : In(i, j, m)}
  <1>4. 0 \in S
    OBVIOUS
  <1>5. ASSUME NEW m \in 0 .. (n - 1), m \in S PROVE m + 1 \in S
    <2>1. PICK q \in 1 .. n : q = m + 1
      OBVIOUS
    <2>2. q - 1 = m /\ m \in 0 .. n /\ m + 1 \in 0 .. n
      BY <2>1
    <2>3. /\ L[q] = L[q - 1] + Len(ss[q])
          /\ \A k \in 1 .. L[q - 1] : f[q][k] = f[q - 1][k]
          /\ \A j \in 1 .. Len(ss[q]) : f[q][L[q - 1] + j] = ss[q][j]
      BY <1>3
    <2>4. L[q - 1] \in Nat /\ L[q] \in Nat /\ Len(ss[q]) \in Nat
      <3>1. Len(ss[q]) \in Nat
        BY <1>1
      <3>2. q - 1 \in 0 .. n /\ q \in 0 .. n
        BY <2>2
      <3>3. L[q - 1] \in Nat /\ L[q] \in Nat
        BY <3>2
      <3> QED BY <3>1, <3>3
    <2>5. ASSUME NEW j \in 1 .. Len(ss[q]) PROVE In(q, j, q)
      BY <2>3, <2>4
    <2>6. ASSUME NEW i \in 1 .. m, NEW j \in 1 .. Len(ss[i]) PROVE In(i, j, q)
      <3>1. In(i, j, q - 1)
        BY <1>5, <2>2
      <3>2. PICK k \in 1 .. L[q - 1] : k = L[i - 1] + j
        BY <3>1
      <3>3. f[q][k] = ss[i][j]
        BY <2>3, <3>1, <3>2
      <3>4. k \in 1 .. L[q]
        BY <2>3, <2>4
      <3> QED BY <3>2, <3>3, <3>4
    <2> HIDE DEF In
    <2>7. \A i \in 1 .. q : \A j \in 1 .. Len(ss[i]) : In(i, j, q)
      <3> TAKE i \in 1 .. q
      <3>1. i = q \/ i \in 1 .. m
        BY <2>1
      <3> QED BY <2>5, <2>6, <3>1
    <2> QED BY <2>1, <2>7
  <1>6. \A m \in 0 .. n : m \in S
    <2> HIDE DEF S
    <2> QED BY <1>4, <1>5, BoundedInduction
  <1>7. \A i \in 1 .. n : \A j \in 1 .. Len(ss[i]) : f[n][L[i - 1] + j] = ss[i][j]
    <2>1. n \in S
      BY <1>6
    <2> QED BY <2>1
  <1>8. L[0] = 0 /\ Len(f[n]) = L[n]
    BY <1>1, <1>2
  <1>9. \A i \in 1 .. n : L[i] = L[i - 1] + Len(ss[i])
    BY <1>3
  <1>10. Layout(L, ss, n, f[n])
    BY <1>7, <1>8, <1>9 DEF Layout
  <1> QED BY <1>10

\* FlattenSeq lays the sequences out one after another, and nothing else.
LEMMA FlattenLayout ==
  ASSUME NEW X, NEW ss \in Seq(Seq(X))
  PROVE  /\ FlattenSeq(ss) \in Seq(X)
         /\ \E L : Layout(L, ss, Len(ss), FlattenSeq(ss))
  <1>1. Len(ss) \in Nat /\ ss \in [1 .. Len(ss) -> Seq(X)]
    OBVIOUS
  <1>2. PICK f : Joins(f, X, ss, Len(ss)) /\ FlattenSeq(ss) = f[Len(ss)]
    BY FlattenJoins
  <1>3. f[Len(ss)] \in Seq(X)
    BY <1>1, <1>2 DEF Joins
  <1>4. \E L : Layout(L, ss, Len(ss), f[Len(ss)])
    BY <1>1, <1>2, JoinLayout
  <1> QED BY <1>2, <1>3, <1>4

\* What FlattenSeq makes of the beginnings of ss.
Beginnings(ss) == [i \in 0 .. Len(ss) |-> FlattenSeq(SubSeq(ss, 1, i))]

\* There is one way to join.
LEMMA JoinsAgree ==
  ASSUME NEW X, NEW n, n \in Nat, NEW m, m \in Nat, n <= m, NEW ss, NEW tt,
         NEW f, Joins(f, X, ss, n), NEW g, Joins(g, X, tt, m),
         \A i \in 1 .. n : ss[i] = tt[i]
  PROVE  f[n] = g[n]
  <1> DEFINE S == {i \in 0 .. n : f[i] = g[i]}
  <1>1. 0 \in S
    BY DEF Joins
  <1>2. ASSUME NEW i \in 0 .. (n - 1), i \in S PROVE i + 1 \in S
    <2>1. PICK q \in 1 .. n : q = i + 1 /\ q - 1 = i /\ q \in 1 .. m
      OBVIOUS
    <2>2. f[q] = f[q - 1] \o ss[q] /\ g[q] = g[q - 1] \o tt[q]
      BY <2>1 DEF Joins
    <2>3. f[q] = g[q]
      BY <1>2, <2>1, <2>2
    <2> QED BY <2>1, <2>3
  <1> HIDE DEF S
  <1>3. n \in S
    BY <1>1, <1>2, BoundedInduction
  <1> QED BY <1>3 DEF S

\* One more sequence comes behind all the others.
LEMMA FlattenAppend ==
  ASSUME NEW X, NEW ss, ss \in Seq(Seq(X)), NEW s, s \in Seq(X)
  PROVE  FlattenSeq(Append(ss, s)) = FlattenSeq(ss) \o s
  <1>1. PICK V : V = Seq(X)
    OBVIOUS
  <1>2. PICK tt : tt = Append(ss, s)
    OBVIOUS
  <1>3. PICK n \in Nat : n = Len(ss)
    BY <1>1
  <1>4. tt \in Seq(V) /\ Len(tt) = n + 1 /\ tt[n + 1] = s /\ \A i \in 1 .. n : ss[i] = tt[i]
    BY <1>1, <1>2, <1>3
  <1>5. PICK f : Joins(f, X, ss, n) /\ FlattenSeq(ss) = f[n]
    BY <1>3, FlattenJoins
  <1>6. PICK g : Joins(g, X, tt, n + 1) /\ FlattenSeq(tt) = g[n + 1]
    BY <1>1, <1>4, FlattenJoins
  <1>7. f[n] = g[n]
    <2>1. n + 1 \in Nat /\ n <= n + 1
      OBVIOUS
    <2> QED BY <2>1, <1>4, <1>5, <1>6, JoinsAgree
  <1>8. g[n + 1] = g[n] \o tt[n + 1]
    <2>1. PICK q \in 1 .. n + 1 : q = n + 1 /\ q - 1 = n
      OBVIOUS
    <2>2. g[q] = g[q - 1] \o tt[q]
      BY <1>6 DEF Joins
    <2> QED BY <2>1, <2>2
  <1> QED BY <1>2, <1>4, <1>5, <1>6, <1>7, <1>8

\* The beginnings of ss, flattened, are the ways to join its parts.
LEMMA FlattenBeginnings ==
  ASSUME NEW X, NEW ss, ss \in Seq(Seq(X))
  PROVE  /\ Joins(Beginnings(ss), X, ss, Len(ss))
         /\ Beginnings(ss)[Len(ss)] = FlattenSeq(ss)
  <1>1. PICK V : V = Seq(X)
    OBVIOUS
  <1>2. PICK n \in Nat : n = Len(ss)
    BY <1>1
  <1>3. ASSUME NEW i \in 0 .. n PROVE SubSeq(ss, 1, i) \in Seq(V)
    BY <1>1, <1>2, <1>3
  <1>4. ASSUME NEW i \in 0 .. n PROVE FlattenSeq(SubSeq(ss, 1, i)) \in Seq(X)
    <2>1. SubSeq(ss, 1, i) \in Seq(Seq(X))
      BY <1>1, <1>3
    <2> QED BY <2>1, FlattenLayout
  <1>5. ASSUME NEW i \in 1 .. n
        PROVE  FlattenSeq(SubSeq(ss, 1, i)) = FlattenSeq(SubSeq(ss, 1, i - 1)) \o ss[i]
    <2>1. SubSeq(ss, 1, i) = Append(SubSeq(ss, 1, i - 1), ss[i]) /\ ss[i] \in V /\ i - 1 \in 0 .. n
      BY <1>1, <1>2
    <2>2. SubSeq(ss, 1, i - 1) \in Seq(Seq(X)) /\ ss[i] \in Seq(X)
      BY <1>1, <1>3, <2>1
    <2>3. PICK w : w = SubSeq(ss, 1, i - 1)
      OBVIOUS
    <2>4. FlattenSeq(Append(w, ss[i])) = FlattenSeq(w) \o ss[i]
      BY <2>2, <2>3, FlattenAppend
    <2> QED BY <2>1, <2>3, <2>4
  <1>6. FlattenSeq(SubSeq(ss, 1, 0)) = <<>>
    <2>1. SubSeq(ss, 1, 0) = <<>> /\ <<>> \in Seq(Seq(X)) /\ Len(<<>>) = 0
      BY <1>1
    <2>2. PICK f : Joins(f, X, <<>>, Len(<<>>)) /\ FlattenSeq(<<>>) = f[Len(<<>>)]
      BY <2>1, FlattenJoins
    <2>3. FlattenSeq(<<>>) = <<>>
      BY <2>1, <2>2 DEF Joins
    <2> QED BY <2>1, <2>3
  <1>7. SubSeq(ss, 1, n) = ss
    BY <1>1, <1>2
  <1> DEFINE b == [i \in 0 .. n |-> FlattenSeq(SubSeq(ss, 1, i))]
  <1>8. b = Beginnings(ss)
    BY <1>2 DEF Beginnings
  <1>b. \A i \in 0 .. n : b[i] = FlattenSeq(SubSeq(ss, 1, i))
    OBVIOUS
  <1>t. b \in [0 .. n -> Seq(X)]
    BY <1>4
  <1> HIDE DEF b
  <1>9. b[0] = <<>> /\ b[n] = FlattenSeq(ss)
    <2>1. 0 \in 0 .. n /\ n \in 0 .. n
      OBVIOUS
    <2>2. b[0] = FlattenSeq(SubSeq(ss, 1, 0)) /\ b[n] = FlattenSeq(SubSeq(ss, 1, n))
      BY <1>b, <2>1
    <2> QED BY <2>2, <1>6, <1>7, Zenon
  <1>10. ASSUME NEW i \in 1 .. n PROVE b[i] = b[i - 1] \o ss[i]
    <2>1. b[i] = FlattenSeq(SubSeq(ss, 1, i))
      BY <1>b
    <2>2. i - 1 \in 0 .. n
      OBVIOUS
    <2>3. b[i - 1] = FlattenSeq(SubSeq(ss, 1, i - 1))
      BY <1>b, <2>2
    <2> QED BY <2>1, <2>3, <1>5
  <1>11. Joins(b, X, ss, n)
    BY <1>t, <1>9, <1>10 DEF Joins
  <1> QED BY <1>2, <1>8, <1>9, <1>11

\* The sizes of the beginnings do not decrease.
LEMMA BeginningSizes ==
  ASSUME NEW X, NEW ss, ss \in Seq(Seq(X))
  PROVE  \A i \in 0 .. Len(ss) : /\ Len(FlattenSeq(SubSeq(ss, 1, i))) \in Nat
                                /\ Len(FlattenSeq(SubSeq(ss, 1, i))) <= Len(FlattenSeq(ss))
  <1>1. PICK n \in Nat : n = Len(ss)
    OBVIOUS
  <1>2. PICK b : b = Beginnings(ss)
    OBVIOUS
  <1>3. Joins(b, X, ss, n) /\ b[n] = FlattenSeq(ss)
    BY <1>1, <1>2, FlattenBeginnings
  <1> DEFINE L == [i \in 0 .. n |-> Len(b[i])]
  <1>4. L \in [0 .. n -> Nat]
    BY <1>3 DEF Joins
  <1>5. \A i \in 1 .. n : L[i] >= L[i - 1]
    <2> SUFFICES ASSUME NEW i \in 1 .. n PROVE L[i] >= L[i - 1]
      OBVIOUS
    <2>0. i - 1 \in 0 .. n /\ i \in 0 .. n
      OBVIOUS
    <2>1. b[i] = b[i - 1] \o ss[i] /\ b[i - 1] \in Seq(X)
      BY <2>0, <1>3 DEF Joins
    <2>s. ss[i] \in Seq(X)
      BY <1>1
    <2>2. Len(b[i]) = Len(b[i - 1]) + Len(ss[i]) /\ Len(ss[i]) \in Nat /\ Len(b[i - 1]) \in Nat
      BY <2>1, <2>s
    <2>3. L[i] = Len(b[i]) /\ L[i - 1] = Len(b[i - 1])
      BY <2>0
    <2>4. Len(b[i]) >= Len(b[i - 1])
      <3>1. PICK x, y, z : x = Len(b[i - 1]) /\ y = Len(ss[i]) /\ z = Len(b[i])
        OBVIOUS
      <3>2. x \in Nat /\ y \in Nat /\ z = x + y
        BY <2>2, <3>1, Zenon
      <3>3. z >= x
        BY <3>2
      <3> QED BY <3>1, <3>3, Zenon
    <2> HIDE DEF L
    <2> QED BY <2>3, <2>4, Zenon
  <1>6. \A i \in 0 .. n : L[i] = Len(FlattenSeq(SubSeq(ss, 1, i)))
    BY <1>1, <1>2 DEF Beginnings
  <1>7. L[n] = Len(FlattenSeq(ss))
    BY <1>3
  <1> HIDE DEF L
  <1>8. \A j \in 0 .. n : \A i \in 0 .. j : L[i] <= L[j]
    BY <1>4, <1>5, RunningTotals
  <1> QED BY <1>1, <1>4, <1>6, <1>7, <1>8
\* Where the parts of ss are: each begins where the beginning before it ends.
PartEnds(ss) == [i \in 0 .. Len(ss) |-> Len(FlattenSeq(SubSeq(ss, 1, i)))]

LEMMA BeginningLayout ==
  ASSUME NEW X, NEW ss, ss \in Seq(Seq(X))
  PROVE  Layout(PartEnds(ss), ss, Len(ss), FlattenSeq(ss))
  <1>1. PICK n \in Nat : n = Len(ss)
    OBVIOUS
  <1>2. PICK b : b = Beginnings(ss)
    OBVIOUS
  <1>3. Joins(b, X, ss, n) /\ b[n] = FlattenSeq(ss)
    BY <1>1, <1>2, FlattenBeginnings
  <1>4. PICK L : Layout(L, ss, n, FlattenSeq(ss))
    BY <1>1, FlattenLayout
  <1> DEFINE S == {i \in 0 .. n : L[i] = Len(b[i])}
  <1>5. 0 \in S
    <2>1. b[0] = <<>> /\ L[0] = 0 /\ 0 \in 0 .. n
      BY <1>3, <1>4 DEF Joins, Layout
    <2> QED BY <2>1
  <1>6. ASSUME NEW i \in 0 .. (n - 1), i \in S PROVE i + 1 \in S
    <2>1. PICK q \in 1 .. n : q = i + 1 /\ q - 1 = i /\ q \in 0 .. n
      OBVIOUS
    <2>2. b[q] = b[i] \o ss[q] /\ b[i] \in Seq(X)
      <3>1. b[q] = b[q - 1] \o ss[q] /\ \A j \in 0 .. n : b[j] \in Seq(X)
        BY <1>3 DEF Joins
      <3>2. i \in 0 .. n
        OBVIOUS
      <3> QED BY <2>1, <3>1, <3>2
    <2>3. ss[q] \in Seq(X)
      BY <1>1, <2>1
    <2>4. Len(b[q]) = Len(b[i]) + Len(ss[q])
      <3>1. PICK x, y : x = b[i] /\ y = ss[q]
        OBVIOUS
      <3>2. x \in Seq(X) /\ y \in Seq(X) /\ b[q] = x \o y
        BY <2>2, <2>3, <3>1
      <3>3. Len(x \o y) = Len(x) + Len(y)
        BY <3>2
      <3> QED BY <3>1, <3>2, <3>3
    <2>5. L[q] = L[i] + Len(ss[q])
      BY <2>1, <1>4 DEF Layout
    <2>6. L[q] = Len(b[q])
      BY <1>6, <2>4, <2>5
    <2> QED BY <2>1, <2>6
  <1> HIDE DEF S
  <1>7. \A i \in 0 .. n : i \in S
    BY <1>5, <1>6, BoundedInduction
  <1>8. \A i \in 0 .. n : L[i] = Len(FlattenSeq(SubSeq(ss, 1, i)))
    BY <1>1, <1>2, <1>7 DEF S, Beginnings
  <1>9. L \in [0 .. n -> Nat]
    BY <1>4 DEF Layout
  <1>10. L = [i \in 0 .. n |-> Len(FlattenSeq(SubSeq(ss, 1, i)))]
    BY <1>8, <1>9
  <1> QED BY <1>1, <1>4, <1>10 DEF PartEnds

\* What lies inside one part is a piece of it.
LEMMA PieceOfOne ==
  ASSUME NEW X, NEW n, n \in Nat, NEW ss, ss \in [1 .. n -> Seq(X)], NEW w, w \in Seq(X), NEW L, Layout(L, ss, n, w),
         NEW k, k \in 1 .. n, NEW from, from \in Nat, L[k - 1] <= from,
         NEW to, to \in Nat, from < to, to <= L[k]
  PROVE  /\ SubSeq(w, from + 1, to) = SubSeq(ss[k], from + 1 - L[k - 1], to - L[k - 1])
         /\ from + 1 - L[k - 1] \in 1 .. Len(ss[k])
         /\ to - L[k - 1] \in (from + 1 - L[k - 1]) .. Len(ss[k])
  <1>1. PICK p, s : p = L[k - 1] /\ s = ss[k]
    OBVIOUS
  <1>2. k - 1 \in 0 .. n /\ p \in Nat /\ s \in Seq(X)
    <2>1. k - 1 \in 0 .. n /\ L \in [0 .. n -> Nat]
      BY DEF Layout
    <2> QED BY <1>1, <2>1
  <1>3. L[k] = p + Len(s) /\ \A j \in 1 .. Len(s) : w[p + j] = s[j]
    BY <1>1 DEF Layout
  <1>4. Len(s) \in Nat
    BY <1>2
  <1>5. /\ p <= from /\ from < to /\ to <= p + Len(s)
        /\ from + 1 - p \in 1 .. Len(s) /\ to - p \in (from + 1 - p) .. Len(s)
    <2>1. PICK q : q = Len(s)
      OBVIOUS
    <2>2. q \in Nat /\ p <= from /\ to <= p + q
      BY <1>1, <1>3, <1>4, <2>1
    <2>3. from + 1 - p \in 1 .. q /\ to - p \in (from + 1 - p) .. q
      BY <1>2, <2>2
    <2> QED BY <2>1, <2>2, <2>3
  <1> DEFINE v == SubSeq(w, from + 1, to)
             u == SubSeq(s, from + 1 - p, to - p)
             m == to - from
  <1>6. v = [j \in 1 .. m |-> w[from + j]]
    <2>1. m \in Nat /\ to - (from + 1) + 1 = m /\ \A j \in 1 .. m : from + 1 + j - 1 = from + j
      BY <1>5
    <2> QED BY <2>1
  <1>7. u = [j \in 1 .. m |-> s[from - p + j]]
    <2>1. m \in Nat /\ to - p - (from + 1 - p) + 1 = m /\ \A j \in 1 .. m : from + 1 - p + j - 1 = from - p + j
      BY <1>2, <1>5
    <2> QED BY <1>2, <2>1
  <1>8. ASSUME NEW j \in 1 .. m PROVE w[from + j] = s[from - p + j]
    <2>1. PICK i : i = from - p + j
      OBVIOUS
    <2>2. i \in 1 .. Len(s) /\ from + j = p + i
      BY <1>2, <1>4, <1>5, <2>1
    <2> QED BY <1>3, <2>1, <2>2
  <1>9. v = u
    BY <1>6, <1>7, <1>8
  <1> QED BY <1>1, <1>5, <1>9
=============================================================================
