--------------------------- MODULE SeekTextProofs ---------------------------
(***************************************************************************)
(* findCommand finds exactly the seek that the text of a packet stands     *)
(* for, however recv cuts the packet into chunks.                          *)
(***************************************************************************)
EXTENDS SeekText, DataLemmas

----------------------------------------------------------------------------
(* Numbers.                                                                *)

Modulus == 2^Width

LEMMA ModulusNat == Modulus \in Nat \ {0}
  BY CommandAssumption DEF Modulus

\* A remainder is the only one.
LEMMA RemainderIs ==
  ASSUME NEW m, m \in Nat \ {0}, NEW q, q \in Nat, NEW r, r \in 0 .. (m - 1), NEW n, n = q * m + r
  PROVE  n % m = r
  <1>1. n \in Nat
    OBVIOUS
  <1>2. PICK d, s : d = n \div m /\ s = n % m
    OBVIOUS
  <1>3. d \in Int /\ s \in 0 .. (m - 1) /\ n = m * d + s
    BY <1>1, <1>2
  <1>4. PICK e : e = d - q
    OBVIOUS
  <1>5. e \in Int /\ m * e = r - s
    <2>1. m * (d - q) = m * d - q * m
      BY <1>3
    <2>2. m * d - q * m = r - s
      BY <1>3
    <2> QED BY <1>3, <1>4, <2>1, <2>2
  <1>6. ~(e >= 1)
    <2> SUFFICES ASSUME e >= 1 PROVE FALSE
      OBVIOUS
    <2>1. e - 1 \in Nat
      BY <1>5
    <2>2. m * (e - 1) >= 0 /\ m * (e - 1) = m * e - m
      BY <1>5, <2>1
    <2> QED BY <1>3, <1>5, <2>2
  <1>7. ~(e <= -1)
    <2> SUFFICES ASSUME e <= -1 PROVE FALSE
      OBVIOUS
    <2>1. -1 - e \in Nat
      BY <1>5
    <2>2. m * (-1 - e) >= 0 /\ m * (-1 - e) = -m - m * e
      BY <1>5, <2>1
    <2> QED BY <1>3, <1>5, <2>2
  <1>8. e = 0
    BY <1>5, <1>6, <1>7
  <1> QED BY <1>2, <1>3, <1>5, <1>8

LEMMA QuotientExists ==
  ASSUME NEW m, m \in Nat \ {0}, NEW n, n \in Nat
  PROVE  \E q \in Nat : \E r \in 0 .. (m - 1) : n = q * m + r /\ n % m = r
  <1>1. PICK q, r : q = n \div m /\ r = n % m
    OBVIOUS
  <1>2. q \in Int /\ r \in 0 .. (m - 1) /\ n = m * q + r
    BY <1>1
  <1>3. ~(q <= -1)
    <2> SUFFICES ASSUME q <= -1 PROVE FALSE
      OBVIOUS
    <2>1. -1 - q \in Nat
      BY <1>2
    <2>2. m * (-1 - q) >= 0 /\ m * (-1 - q) = -m - m * q
      BY <1>2, <2>1
    <2> QED BY <1>2, <2>2
  <1>4. q \in Nat /\ m * q = q * m
    BY <1>2, <1>3
  <1> QED BY <1>1, <1>2, <1>4

\* Wrapping after every digit is wrapping once (findCommand adds digit by digit to a
\* uint32_t).
LEMMA WrapOnce ==
  ASSUME NEW n, n \in Nat, NEW digit, digit \in Nat
  PROVE  WithDigit(n % Modulus, digit) = (n * 10 + digit) % Modulus
  <1>1. PICK m : m = Modulus
    OBVIOUS
  <1>2. m \in Nat \ {0}
    BY <1>1, ModulusNat
  <1>3. PICK q \in Nat : \E r \in 0 .. (m - 1) : n = q * m + r /\ n % m = r
    BY <1>2, QuotientExists
  <1>4. PICK r \in 0 .. (m - 1) : n = q * m + r /\ n % m = r
    BY <1>3
  <1>5. PICK t : t = r * 10 + digit
    OBVIOUS
  <1>6. t \in Nat
    BY <1>2, <1>5
  <1>7. PICK p \in Nat : \E s \in 0 .. (m - 1) : t = p * m + s /\ t % m = s
    BY <1>2, <1>6, QuotientExists
  <1>8. PICK s \in 0 .. (m - 1) : t = p * m + s /\ t % m = s
    BY <1>7
  <1>9. PICK u, v : u = 10 * q + p /\ v = n * 10 + digit
    OBVIOUS
  <1>10. u \in Nat /\ v = u * m + s
    <2>1. (10 * q + p) * m = 10 * (q * m) + p * m
      BY <1>2
    <2> QED BY <1>2, <1>4, <1>5, <1>8, <1>9, <2>1
  <1>11. v % m = s
    BY <1>2, <1>10, RemainderIs
  <1> QED BY <1>1, <1>4, <1>5, <1>8, <1>9, <1>11 DEF WithDigit, Modulus

\* g sums the natural numbers F over the subsets of the finite set D.
Sums(g, F, D) == IsFiniteSet(D) /\ F \in [D -> Nat] /\ SumsOver(g, F, D)

LEMMA SumNat ==
  ASSUME NEW g, NEW F, NEW D, Sums(g, F, D)
  PROVE  g[{}] = 0 /\ \A s \in SUBSET D : g[s] \in Nat
  <1>1. IsFiniteSet(D) /\ F \in [D -> Nat] /\ SumsOver(g, F, D)
    BY DEF Sums
  <1> QED BY <1>1, SumStep

LEMMA SumLast ==
  ASSUME NEW g, NEW F, NEW D, Sums(g, F, D), NEW s, s \subseteq D, NEW x, x \in s
  PROVE  g[s] = F[x] + g[s \ {x}]
  <1>1. IsFiniteSet(D) /\ F \in [D -> Nat] /\ SumsOver(g, F, D)
    BY DEF Sums
  <1>2. /\ g[{}] = 0 /\ \A r \in SUBSET D : g[r] \in Nat
        /\ \A r \in SUBSET D : \A y \in r : g[r] = F[y] + g[r \ {y}]
    BY <1>1, SumStep
  <1> QED BY <1>2

TenFold(H, F, D) == \A x \in D : H[x] = 10 * F[x]

\* Ten times every summand is ten times the sum.
LEMMA TenTimes ==
  ASSUME NEW D, NEW F, NEW g, Sums(g, F, D), NEW E, NEW H, NEW h, Sums(h, H, E),
         D \subseteq E, TenFold(H, F, D)
  PROVE  h[D] = 10 * g[D]
  <1>1. g[{}] = 0 /\ \A s \in SUBSET D : g[s] \in Nat
    BY SumNat
  <1>2. h[{}] = 0
    BY SumNat
  <1>t. \A x \in D : F[x] \in Nat
    BY DEF Sums
  <1> DEFINE Sized(n) == {s \in SUBSET D : Cardinality(s) = n}
             S == {n \in Nat : \A s \in Sized(n) : h[s] = 10 * g[s]}
  <1>f. IsFiniteSet(D)
    BY DEF Sums
  <1>3. 0 \in S
    <2>1. ASSUME NEW s \in Sized(0) PROVE h[s] = 10 * g[s]
      <3>1. s = {}
        BY <1>f, FS_Subset, FS_EmptySet
      <3> QED BY <1>1, <1>2, <3>1
    <2> QED BY <2>1
  <1>4. ASSUME NEW n \in Nat, n \in S PROVE n + 1 \in S
    <2> SUFFICES ASSUME NEW s \in Sized(n + 1) PROVE h[s] = 10 * g[s]
      OBVIOUS
    <2>1. s \in SUBSET D /\ s \in SUBSET E /\ IsFiniteSet(s) /\ Cardinality(s) = n + 1
      BY <1>f, FS_Subset
    <2>2. s # {}
      BY <2>1, FS_EmptySet
    <2>3. PICK x \in s : TRUE
      BY <2>2
    <2>4. s \ {x} \in Sized(n)
      <3>1. Cardinality(s \ {x}) = Cardinality(s) - 1
        BY <2>1, <2>3, FS_RemoveElement
      <3>2. Cardinality(s \ {x}) = n
        BY <2>1, <3>1
      <3> QED BY <2>1, <3>2
    <2>5. h[s \ {x}] = 10 * g[s \ {x}]
      BY <1>4, <2>4
    <2>6. g[s] = F[x] + g[s \ {x}] /\ F[x] \in Nat /\ g[s \ {x}] \in Nat
      <3>1. g[s] = F[x] + g[s \ {x}]
        BY <2>1, <2>3, SumLast
      <3> QED BY <1>1, <1>t, <2>1, <2>3, <3>1
    <2>7. h[s] = H[x] + h[s \ {x}] /\ H[x] = 10 * F[x]
      <3>1. h[s] = H[x] + h[s \ {x}]
        BY <2>1, <2>3, SumLast
      <3> QED BY <2>1, <2>3, <3>1 DEF TenFold
    <2> QED BY <2>5, <2>6, <2>7
  <1>5. \A n \in Nat : n \in S
    <2> HIDE DEF S
    <2> QED BY <1>3, <1>4, SetInduction
  <1>6. Cardinality(D) \in S
    BY <1>5, <1>f, FS_CardinalityType
  <1>7. D \in Sized(Cardinality(D))
    OBVIOUS
  <1> QED BY <1>6, <1>7

----------------------------------------------------------------------------
(* Decimal, digit by digit.                                                *)

\* The places behind one, and what each place counts for.
Behind(places, k) == {j \in places : k < j}

Terms(text, places) == [k \in places |-> text[k] * 10^Cardinality(Behind(places, k))]

\* There are digits at these places, and not more than the powers of ten reach.
Readable(text, places) ==
  places \subseteq 1 .. MaxLength /\ \A k \in places : text[k] \in 0 .. 9

LEMMA PlacesFinite ==
  ASSUME NEW text, NEW places, Readable(text, places), NEW k
  PROVE  /\ IsFiniteSet(places) /\ IsFiniteSet(Behind(places, k))
         /\ Cardinality(Behind(places, k)) \in 0 .. MaxLength
  <1>1. IsFiniteSet(1 .. MaxLength) /\ Cardinality(1 .. MaxLength) = MaxLength
    <2>1. IsFiniteSet(1 .. MaxLength)
             /\ Cardinality(1 .. MaxLength) = IF 1 > MaxLength THEN 0 ELSE MaxLength - 1 + 1
      BY LengthAssumption, FS_Interval
    <2> QED BY <2>1, LengthAssumption
  <1>2. places \subseteq 1 .. MaxLength /\ Behind(places, k) \subseteq 1 .. MaxLength
    BY DEF Readable, Behind
  <1>3. IsFiniteSet(places)
    BY <1>1, <1>2, FS_Subset
  <1>4. IsFiniteSet(Behind(places, k)) /\ Cardinality(Behind(places, k)) <= Cardinality(1 .. MaxLength)
    BY <1>1, <1>2, FS_Subset
  <1>5. Cardinality(Behind(places, k)) \in Nat
    BY <1>4, FS_CardinalityType
  <1> QED BY <1>1, <1>3, <1>4, <1>5

LEMMA TermsNat ==
  ASSUME NEW text, NEW places, Readable(text, places)
  PROVE  Terms(text, places) \in [places -> Nat]
  <1>1. ASSUME NEW k \in places PROVE text[k] * 10^Cardinality(Behind(places, k)) \in Nat
    <2>1. PICK c : c = Cardinality(Behind(places, k))
      OBVIOUS
    <2>2. c \in 0 .. MaxLength
      BY <2>1, PlacesFinite
    <2>3. 10^c \in Nat
      BY <2>2, PowersAssumption
    <2>4. text[k] \in Nat
      BY DEF Readable
    <2> QED BY <2>1, <2>3, <2>4
  <1> QED BY <1>1 DEF Terms

LEMMA DecimalSums ==
  ASSUME NEW text, NEW places, Readable(text, places)
  PROVE  \E g : Sums(g, Terms(text, places), places) /\ Decimal(text, places) = g[places] % Modulus
  <1> DEFINE F == Terms(text, places)
             Value(k) == text[k] * 10^Cardinality({j \in places : k < j})
             Adds(g) == g = [s \in SUBSET places |-> IF s = {} THEN 0
                               ELSE Value(Chosen(s)) + g[s \ {Chosen(s)}]]
  <1>1. Decimal(text, places) = (CHOOSE g : Adds(g))[places] % Modulus
    BY DEF Decimal, MapThenSumSet, MapThenFoldSet, Chosen, Modulus
  <1>2. IsFiniteSet(places) /\ F \in [places -> Nat]
    BY PlacesFinite, TermsNat
  <1>3. \A s \in SUBSET places : s # {} => Chosen(s) \in s /\ F[Chosen(s)] = Value(Chosen(s))
    BY DEF Chosen, Terms, Behind
  <1>4. ASSUME NEW g PROVE Adds(g) <=> SumsOver(g, F, places)
    <2> DEFINE A == [s \in SUBSET places |-> IF s = {} THEN 0 ELSE Value(Chosen(s)) + g[s \ {Chosen(s)}]]
               B == [s \in SUBSET places |-> IF s = {} THEN 0 ELSE F[Chosen(s)] + g[s \ {Chosen(s)}]]
    <2>1. \A s \in SUBSET places : A[s] = B[s]
      <3> HIDE DEF F, Value
      <3> QED BY <1>3
    <2>2. A = B
      BY <2>1
    <2> QED BY <2>2 DEF SumsOver
  <1> HIDE DEF F, Adds, Value
  <1>5. \E g : Adds(g)
    BY <1>2, <1>4, SumExists
  <1>6. PICK g : g = CHOOSE h : Adds(h)
    OBVIOUS
  <1>7. SumsOver(g, F, places)
    BY <1>4, <1>5, <1>6
  <1>8. Sums(g, F, places)
    BY <1>2, <1>7 DEF Sums
  <1> QED BY <1>1, <1>6, <1>8 DEF F

\* One more digit behind the others (findCommand adds it to ten times the number).
LEMMA DecimalStep ==
  ASSUME NEW text, NEW P, NEW k, k \in 1 .. MaxLength, P \subseteq 1 .. (k - 1),
         Readable(text, P \union {k})
  PROVE  Decimal(text, P \union {k}) = WithDigit(Decimal(text, P), text[k])
  <1>1. PICK E : E = P \union {k}
    OBVIOUS
  <1>2. Readable(text, E) /\ Readable(text, P) /\ P \subseteq E /\ k \in E /\ E \ {k} = P
    <2>1. k \notin P
      BY LengthAssumption
    <2> QED BY <1>1, <2>1 DEF Readable
  <1>3. PICK g : Sums(g, Terms(text, P), P) /\ Decimal(text, P) = g[P] % Modulus
    BY <1>2, DecimalSums
  <1>4. PICK h : Sums(h, Terms(text, E), E) /\ Decimal(text, E) = h[E] % Modulus
    BY <1>2, DecimalSums
  <1>f. PICK F : F = Terms(text, P)
    OBVIOUS
  <1>h. PICK H : H = Terms(text, E)
    OBVIOUS
  <1>5. ASSUME NEW x \in P PROVE H[x] = 10 * F[x]
    <2>1. PICK c : c = Cardinality(Behind(P, x))
      OBVIOUS
    <2>2. c \in 0 .. MaxLength /\ IsFiniteSet(Behind(P, x))
      BY <1>2, <2>1, PlacesFinite
    <2>3. Behind(E, x) = Behind(P, x) \union {k} /\ k \notin Behind(P, x)
      <3>1. x < k /\ k \notin P
        BY LengthAssumption
      <3> QED BY <1>1, <3>1 DEF Behind
    <2>4. Cardinality(Behind(E, x)) = c + 1
      <3>1. Cardinality(Behind(P, x) \union {k}) = Cardinality(Behind(P, x)) + 1
        BY <2>2, <2>3, FS_AddElement
      <3> QED BY <2>1, <2>3, <3>1
    <2>5. PICK p : p = 10^c
      OBVIOUS
    <2>6. p \in Nat /\ 10^(c + 1) = 10 * p
      BY <2>2, <2>5, PowersAssumption
    <2>7. F[x] = text[x] * p
      BY <1>f, <2>1, <2>5 DEF Terms
    <2>8. H[x] = text[x] * (10 * p)
      BY <1>2, <1>h, <2>4, <2>6 DEF Terms
    <2>9. text[x] \in Nat
      BY <1>2 DEF Readable
    <2>10. text[x] * (10 * p) = 10 * (text[x] * p)
      BY <2>6, <2>9
    <2> QED BY <2>7, <2>8, <2>10
  <1>6. H[k] = text[k] /\ text[k] \in Nat
    <2>1. Behind(E, k) = {}
      <3>1. \A j \in E : ~(k < j)
        BY <1>1, LengthAssumption
      <3> QED BY <3>1 DEF Behind
    <2>2. Cardinality(Behind(E, k)) = 0
      BY <2>1, FS_EmptySet
    <2>3. text[k] \in Nat
      BY <1>2 DEF Readable
    <2>4. H[k] = text[k] * 10^0
      BY <1>2, <1>h, <2>2 DEF Terms
    <2> QED BY <2>3, <2>4, PowersAssumption
  <1>7. Sums(g, F, P) /\ Sums(h, H, E)
    BY <1>3, <1>4, <1>f, <1>h
  <1>t. TenFold(H, F, P)
    BY <1>5 DEF TenFold
  <1>8. h[P] = 10 * g[P]
    BY <1>2, <1>7, <1>t, TenTimes
  <1>9. h[E] = text[k] + h[P] /\ g[P] \in Nat
    <2>1. E \subseteq E
      OBVIOUS
    <2>2. h[E] = H[k] + h[E \ {k}]
      BY <1>2, <1>7, <2>1, SumLast
    <2>3. \A s \in SUBSET P : g[s] \in Nat
      BY <1>7, SumNat
    <2> QED BY <1>2, <1>6, <2>2, <2>3
  <1>10. PICK n \in Nat : n = g[P]
    BY <1>9
  <1>11. PICK d \in Nat : d = text[k]
    BY <1>6
  <1>12. WithDigit(n % Modulus, d) = (n * 10 + d) % Modulus
    BY WrapOnce
  <1>13. h[E] = n * 10 + d
    BY <1>8, <1>9, <1>10, <1>11
  <1> QED BY <1>1, <1>3, <1>4, <1>10, <1>11, <1>12, <1>13, Zenon

LEMMA DecimalEmpty == ASSUME NEW text PROVE Decimal(text, {}) = 0
  <1>1. Readable(text, {})
    BY DEF Readable
  <1>2. PICK g : Sums(g, Terms(text, {}), {}) /\ Decimal(text, {}) = g[{}] % Modulus
    BY <1>1, DecimalSums
  <1>3. g[{}] = 0
    BY <1>2, SumNat
  <1>4. PICK m : m = Modulus
    OBVIOUS
  <1>5. m \in Nat \ {0}
    BY <1>4, ModulusNat
  <1>6. 0 = 0 * m + 0 /\ 0 \in 0 .. (m - 1)
    BY <1>5
  <1>7. 0 % m = 0
    BY <1>5, <1>6, RemainderIs
  <1> QED BY <1>2, <1>3, <1>4, <1>7

----------------------------------------------------------------------------
(* The loop of findCommand, byte by byte.                                  *)

\* The first n bytes of w are the command, or begin it, and what is behind it is
\* digits and commas.
Fits(w, n) ==
  /\ \A j \in 1 .. n : j <= Len(Command) => w[j] = Command[j]
  /\ \A j \in Len(Command) + 1 .. n : w[j] = Comma \/ w[j] \in 0 .. 9

CommaPlaces(w, n) == {j \in Len(Command) + 1 .. n : w[j] = Comma}

\* The digits before the first comma, and those behind it.
NumberPlaces(w, n) ==
  {k \in Len(Command) + 1 .. n : \A j \in Len(Command) + 1 .. k : w[j] # Comma}

OffsetPlaces(w, n) ==
  {k \in Len(Command) + 1 .. n : w[k] # Comma /\ \E j \in Len(Command) + 1 .. k - 1 : w[j] = Comma}

\* The variables of findCommand after n bytes, unless it has returned.
After(w, n) ==
  [i                |-> IF n < Len(Command) THEN n ELSE Len(Command),
   write_cmd_found  |-> CommaPlaces(w, n) # {},
   write_cmd        |-> Decimal(w, NumberPlaces(w, n)),
   write_cmd_offset |-> Decimal(w, OffsetPlaces(w, n))]

Scanned(w, n) == IF Fits(w, n) THEN {After(w, n)} ELSE {}

LEMMA CommandLength == Len(Command) \in Nat \ {0} /\ Command \in Seq(ToSet(Command))
  <1>1. Command \in Seq(ToSet(Command)) /\ Command # <<>>
    BY CommandAssumption
  <1>2. PICK X : X = ToSet(Command)
    OBVIOUS
  <1>3. Command \in Seq(X)
    BY <1>1, <1>2
  <1> QED BY <1>1, <1>3

\* While the command is read there is nothing behind it.
LEMMA PlacesEmpty ==
  ASSUME NEW w, NEW n, n \in Nat, n <= Len(Command)
  PROVE  CommaPlaces(w, n) = {} /\ NumberPlaces(w, n) = {} /\ OffsetPlaces(w, n) = {}
  <1>1. Len(Command) + 1 .. n = {}
    BY CommandLength
  <1> QED BY <1>1 DEF CommaPlaces, NumberPlaces, OffsetPlaces

\* What one byte behind the command does to the places.
LEMMA PlacesStep ==
  ASSUME NEW w, NEW n, n \in Nat, n >= Len(Command)
  PROVE  /\ w[n + 1] = Comma => /\ CommaPlaces(w, n + 1) # {}
                                /\ NumberPlaces(w, n + 1) = NumberPlaces(w, n)
                                /\ OffsetPlaces(w, n + 1) = OffsetPlaces(w, n)
         /\ w[n + 1] # Comma /\ CommaPlaces(w, n) = {} =>
               /\ CommaPlaces(w, n + 1) = {}
               /\ NumberPlaces(w, n + 1) = NumberPlaces(w, n) \union {n + 1}
               /\ OffsetPlaces(w, n + 1) = OffsetPlaces(w, n)
         /\ w[n + 1] # Comma /\ CommaPlaces(w, n) # {} =>
               /\ CommaPlaces(w, n + 1) # {}
               /\ NumberPlaces(w, n + 1) = NumberPlaces(w, n)
               /\ OffsetPlaces(w, n + 1) = OffsetPlaces(w, n) \union {n + 1}
  <1>1. PICK L \in Nat : L = Len(Command)
    BY CommandLength
  <1>2. PICK m \in Nat : m = n + 1
    OBVIOUS
  <1>3. L + 1 .. m = (L + 1 .. n) \union {m} /\ m \notin L + 1 .. n /\ m - 1 = n
    BY <1>1, <1>2
  <1> DEFINE C(k) == {j \in L + 1 .. k : w[j] = Comma}
             N(k) == {p \in L + 1 .. k : \A j \in L + 1 .. p : w[j] # Comma}
             O(k) == {p \in L + 1 .. k : w[p] # Comma /\ \E j \in L + 1 .. p - 1 : w[j] = Comma}
  <1>4. /\ CommaPlaces(w, n) = C(n) /\ CommaPlaces(w, n + 1) = C(m)
        /\ NumberPlaces(w, n) = N(n) /\ NumberPlaces(w, n + 1) = N(m)
        /\ OffsetPlaces(w, n) = O(n) /\ OffsetPlaces(w, n + 1) = O(m)
    BY <1>1, <1>2 DEF CommaPlaces, NumberPlaces, OffsetPlaces
  <1>5. C(m) = C(n) \union (IF w[m] = Comma THEN {m} ELSE {})
    BY <1>3
  <1>6. N(m) = N(n) \union (IF C(m) = {} THEN {m} ELSE {})
    BY <1>3
  <1>7. O(m) = O(n) \union (IF w[m] # Comma /\ C(n) # {} THEN {m} ELSE {})
    BY <1>3
  <1> HIDE DEF C, N, O
  <1>8. w[m] = Comma => C(m) # {} /\ N(m) = N(n) /\ O(m) = O(n)
    BY <1>5, <1>6, <1>7
  <1>9. w[m] # Comma /\ C(n) = {} => C(m) = {} /\ N(m) = N(n) \union {m} /\ O(m) = O(n)
    BY <1>5, <1>6, <1>7
  <1>10. w[m] # Comma /\ C(n) # {} => C(m) # {} /\ N(m) = N(n) /\ O(m) = O(n) \union {m}
    BY <1>5, <1>6, <1>7
  <1> QED BY <1>2, <1>4, <1>8, <1>9, <1>10

LEMMA FitsStep ==
  ASSUME NEW w, NEW n, n \in Nat
  PROVE  Fits(w, n + 1) <=> /\ Fits(w, n)
                            /\ n < Len(Command) => w[n + 1] = Command[n + 1]
                            /\ n >= Len(Command) => w[n + 1] = Comma \/ w[n + 1] \in 0 .. 9
  <1>1. PICK L \in Nat : L = Len(Command)
    BY CommandLength
  <1>2. 1 .. n + 1 = (1 .. n) \union {n + 1}
    OBVIOUS
  <1>3. CASE n < L
    <2>1. L + 1 .. n + 1 = {} /\ L + 1 .. n = {} /\ n + 1 <= L /\ ~(n >= L)
      BY <1>3
    <2> QED BY <1>1, <1>2, <1>3, <2>1 DEF Fits
  <1>4. CASE n >= L
    <2>1. L + 1 .. n + 1 = (L + 1 .. n) \union {n + 1} /\ ~(n + 1 <= L) /\ ~(n < L)
      BY <1>4
    <2> QED BY <1>1, <1>2, <1>4, <2>1 DEF Fits
  <1> QED BY <1>3, <1>4

\* The places with digits can be read as numbers.
LEMMA PlacesReadable ==
  ASSUME NEW w, NEW n, n \in 0 .. MaxLength, Fits(w, n)
  PROVE  /\ Readable(w, NumberPlaces(w, n)) /\ Readable(w, OffsetPlaces(w, n))
         /\ NumberPlaces(w, n) \subseteq 1 .. n /\ OffsetPlaces(w, n) \subseteq 1 .. n
  <1>1. PICK L \in Nat : L = Len(Command)
    BY CommandLength
  <1>2. L + 1 .. n \subseteq 1 .. n /\ 1 .. n \subseteq 1 .. MaxLength
    BY LengthAssumption
  <1>3. ASSUME NEW k \in L + 1 .. n, w[k] # Comma PROVE w[k] \in 0 .. 9
    BY <1>1, <1>3 DEF Fits
  <1>4. ASSUME NEW k \in NumberPlaces(w, n) PROVE k \in L + 1 .. n /\ w[k] # Comma
    <2>1. k \in L + 1 .. n /\ \A j \in L + 1 .. k : w[j] # Comma
      BY <1>1 DEF NumberPlaces
    <2>2. k \in L + 1 .. k
      BY <2>1
    <2> QED BY <2>1, <2>2
  <1>5. ASSUME NEW k \in OffsetPlaces(w, n) PROVE k \in L + 1 .. n /\ w[k] # Comma
    BY <1>1 DEF OffsetPlaces
  <1> QED BY <1>2, <1>3, <1>4, <1>5 DEF Readable

\* One turn of the loop takes the state after n bytes to the one after n + 1.
LEMMA TurnStep ==
  ASSUME NEW w, NEW n, n \in 0 .. (MaxLength - 1), Fits(w, n)
  PROVE  NextByte(After(w, n), w[n + 1]) = Scanned(w, n + 1)
  <1>1. PICK L \in Nat \ {0} : L = Len(Command)
    BY CommandLength
  <1>2. PICK b : b = w[n + 1]
    OBVIOUS
  <1>n. n \in Nat /\ n + 1 \in 1 .. MaxLength /\ n \in 0 .. MaxLength /\ n + 1 \in 0 .. MaxLength
    BY LengthAssumption
  <1>3. PICK s : s = After(w, n)
    OBVIOUS
  <1>4. PICK i, f, x, y : /\ i = (IF n < L THEN n ELSE L)
                          /\ f = (CommaPlaces(w, n) # {})
                          /\ x = Decimal(w, NumberPlaces(w, n))
                          /\ y = Decimal(w, OffsetPlaces(w, n))
    OBVIOUS
  <1>5. s = [i |-> i, write_cmd_found |-> f, write_cmd |-> x, write_cmd_offset |-> y]
    BY <1>1, <1>3, <1>4 DEF After
  <1>b. Fits(w, n + 1) <=> /\ Fits(w, n)
                           /\ n < Len(Command) => w[n + 1] = Command[n + 1]
                           /\ n >= Len(Command) => w[n + 1] = Comma \/ w[n + 1] \in 0 .. 9
    BY <1>n, FitsStep
  <1>6. CASE n < L
    <2>1. i = n /\ n + 1 <= L /\ n <= L
      BY <1>4, <1>6, <1>n
    <2>2. CommaPlaces(w, n) = {} /\ NumberPlaces(w, n) = {} /\ OffsetPlaces(w, n) = {}
      BY <1>1, <1>n, <2>1, PlacesEmpty
    <2>3. CommaPlaces(w, n + 1) = {} /\ NumberPlaces(w, n + 1) = {} /\ OffsetPlaces(w, n + 1) = {}
      <3>1. n + 1 \in Nat /\ n + 1 <= Len(Command)
        BY <1>1, <1>n, <2>1
      <3> QED BY <3>1, PlacesEmpty
    <2>4. Fits(w, n + 1) <=> b = Command[n + 1]
      BY <1>1, <1>2, <1>6, <1>b, <1>n
    <2>5. NextByte(s, b) = IF b = Command[n + 1] THEN {[s EXCEPT !.i = n + 1]} ELSE {}
      BY <1>1, <1>5, <1>6, <2>1 DEF NextByte
    <2>6. (IF n + 1 < Len(Command) THEN n + 1 ELSE Len(Command)) = n + 1
      BY <1>1, <1>n, <2>1
    <2>7. After(w, n + 1) = [i |-> n + 1, write_cmd_found |-> f, write_cmd |-> x, write_cmd_offset |-> y]
      BY <1>4, <2>2, <2>3, <2>6 DEF After
    <2>8. After(w, n + 1) = [s EXCEPT !.i = n + 1]
      BY <1>5, <2>7
    <2> QED BY <1>2, <1>3, <2>4, <2>5, <2>8 DEF Scanned
  <1>7. CASE ~(n < L)
    <2>1. i = L /\ n >= Len(Command) /\ ~(s.i < Len(Command))
      BY <1>1, <1>4, <1>5, <1>7, <1>n
    <2>2. (IF n + 1 < Len(Command) THEN n + 1 ELSE Len(Command)) = L
      BY <1>1, <1>7, <1>n
    <2>3. Fits(w, n + 1) <=> b = Comma \/ b \in 0 .. 9
      BY <1>1, <1>2, <1>7, <1>b, <1>n
    <2>4. ASSUME b # Comma, b \notin 0 .. 9
          PROVE  NextByte(s, b) = Scanned(w, n + 1)
      BY <2>1, <2>3, <2>4 DEF NextByte, Scanned
    <2>5. ASSUME b = Comma PROVE NextByte(s, b) = Scanned(w, n + 1)
      <3>1. /\ CommaPlaces(w, n + 1) # {}
            /\ NumberPlaces(w, n + 1) = NumberPlaces(w, n)
            /\ OffsetPlaces(w, n + 1) = OffsetPlaces(w, n)
        BY <1>2, <1>n, <2>1, <2>5, PlacesStep
      <3>2. After(w, n + 1) = [i |-> L, write_cmd_found |-> TRUE, write_cmd |-> x, write_cmd_offset |-> y]
        BY <1>4, <2>2, <3>1 DEF After
      <3>3. NextByte(s, b) = {[s EXCEPT !.write_cmd_found = TRUE]}
        BY <2>1, <2>5, CommandAssumption DEF NextByte
      <3>4. After(w, n + 1) = [s EXCEPT !.write_cmd_found = TRUE]
        <4>1. PICK t : t = TRUE
          OBVIOUS
        <4>2. [s EXCEPT !.write_cmd_found = t]
                = [i |-> i, write_cmd_found |-> t, write_cmd |-> x, write_cmd_offset |-> y]
          BY <1>5
        <4> QED BY <2>1, <3>2, <4>1, <4>2, Zenon
      <3> QED BY <2>3, <2>5, <3>3, <3>4 DEF Scanned
    <2>6. ASSUME b # Comma, b \in 0 .. 9, ~f PROVE NextByte(s, b) = Scanned(w, n + 1)
      <3>1. /\ CommaPlaces(w, n + 1) = {}
            /\ NumberPlaces(w, n + 1) = NumberPlaces(w, n) \union {n + 1}
            /\ OffsetPlaces(w, n + 1) = OffsetPlaces(w, n)
        BY <1>2, <1>4, <1>n, <2>1, <2>6, PlacesStep
      <3>2. Decimal(w, NumberPlaces(w, n) \union {n + 1}) = WithDigit(x, b)
        <4>1. PICK P : P = NumberPlaces(w, n)
          OBVIOUS
        <4>2. P \subseteq 1 .. ((n + 1) - 1)
          BY <1>n, <4>1, PlacesReadable
        <4>3. Readable(w, P \union {n + 1})
          <5>1. Fits(w, n + 1)
            BY <2>3, <2>6
          <5>2. Readable(w, NumberPlaces(w, n + 1))
            BY <1>n, <5>1, PlacesReadable
          <5> QED BY <3>1, <4>1, <5>2
        <4>4. Decimal(w, P \union {n + 1}) = WithDigit(Decimal(w, P), w[n + 1])
          BY <1>n, <4>2, <4>3, DecimalStep
        <4> QED BY <1>2, <1>4, <4>1, <4>4
      <3>3. After(w, n + 1) = [i |-> L, write_cmd_found |-> f, write_cmd |-> WithDigit(x, b),
                               write_cmd_offset |-> y]
        BY <1>4, <2>2, <2>6, <3>1, <3>2 DEF After
      <3>4. NextByte(s, b) = {[s EXCEPT !.write_cmd = WithDigit(@, b)]}
        BY <1>5, <2>1, <2>6 DEF NextByte, NextDigit
      <3>5. After(w, n + 1) = [s EXCEPT !.write_cmd = WithDigit(@, b)]
        BY <1>5, <2>1, <3>3
      <3> QED BY <2>3, <2>6, <3>4, <3>5 DEF Scanned
    <2>7. ASSUME b # Comma, b \in 0 .. 9, f PROVE NextByte(s, b) = Scanned(w, n + 1)
      <3>1. /\ CommaPlaces(w, n + 1) # {}
            /\ NumberPlaces(w, n + 1) = NumberPlaces(w, n)
            /\ OffsetPlaces(w, n + 1) = OffsetPlaces(w, n) \union {n + 1}
        BY <1>2, <1>4, <1>n, <2>1, <2>7, PlacesStep
      <3>2. Decimal(w, OffsetPlaces(w, n) \union {n + 1}) = WithDigit(y, b)
        <4>1. PICK P : P = OffsetPlaces(w, n)
          OBVIOUS
        <4>2. P \subseteq 1 .. ((n + 1) - 1)
          BY <1>n, <4>1, PlacesReadable
        <4>3. Readable(w, P \union {n + 1})
          <5>1. Fits(w, n + 1)
            BY <2>3, <2>7
          <5>2. Readable(w, OffsetPlaces(w, n + 1))
            BY <1>n, <5>1, PlacesReadable
          <5> QED BY <3>1, <4>1, <5>2
        <4>4. Decimal(w, P \union {n + 1}) = WithDigit(Decimal(w, P), w[n + 1])
          BY <1>n, <4>2, <4>3, DecimalStep
        <4> QED BY <1>2, <1>4, <4>1, <4>4
      <3>3. After(w, n + 1) = [i |-> L, write_cmd_found |-> f, write_cmd |-> x,
                               write_cmd_offset |-> WithDigit(y, b)]
        BY <1>4, <2>2, <2>7, <3>1, <3>2 DEF After
      <3>4. NextByte(s, b) = {[s EXCEPT !.write_cmd_offset = WithDigit(@, b)]}
        BY <1>5, <2>1, <2>7 DEF NextByte, NextDigit
      <3>5. After(w, n + 1) = [s EXCEPT !.write_cmd_offset = WithDigit(@, b)]
        BY <1>5, <2>1, <3>3
      <3> QED BY <2>3, <2>7, <3>4, <3>5 DEF Scanned
    <2> QED BY <1>2, <1>3, <2>4, <2>5, <2>6, <2>7
  <1> QED BY <1>6, <1>7

LEMMA ScanStep ==
  ASSUME NEW w, NEW n, n \in 0 .. (MaxLength - 1)
  PROVE  UNION {NextByte(s, w[n + 1]) : s \in Scanned(w, n)} = Scanned(w, n + 1)
  <1>1. CASE Fits(w, n)
    <2>1. Scanned(w, n) = {After(w, n)}
      BY <1>1 DEF Scanned
    <2>2. NextByte(After(w, n), w[n + 1]) = Scanned(w, n + 1)
      BY <1>1, TurnStep
    <2> QED BY <2>1, <2>2
  <1>2. CASE ~Fits(w, n)
    <2>1. ~Fits(w, n + 1)
      <3>1. n \in Nat
        BY LengthAssumption
      <3> QED BY <1>2, <3>1, FitsStep
    <2> QED BY <1>2, <2>1 DEF Scanned
  <1> QED BY <1>1, <1>2

Start == [i |-> 0, write_cmd_found |-> FALSE, write_cmd |-> 0, write_cmd_offset |-> 0]

LEMMA ScanStarts == ASSUME NEW w PROVE Scanned(w, 0) = {Start}
  <1>1. 0 \in Nat /\ 0 <= Len(Command) /\ 0 < Len(Command)
    BY CommandLength
  <1>2. CommaPlaces(w, 0) = {} /\ NumberPlaces(w, 0) = {} /\ OffsetPlaces(w, 0) = {}
    BY <1>1, PlacesEmpty
  <1>3. Decimal(w, {}) = 0
    BY DecimalEmpty
  <1>4. After(w, 0) = Start
    BY <1>1, <1>2, <1>3 DEF After, Start
  <1>5. Fits(w, 0)
    <2>1. 1 .. 0 = {} /\ Len(Command) + 1 .. 0 = {}
      BY CommandLength
    <2> QED BY <2>1 DEF Fits
  <1> QED BY <1>4, <1>5 DEF Scanned

\* What findCommand returns for a state of its variables.
Pair(s) == [write_cmd |-> s.write_cmd, write_cmd_offset |-> s.write_cmd_offset]

\* findCommand returns what stands in its variables behind the last byte.
LEMMA FindCommandIs ==
  ASSUME NEW chunks, NEW w, w = ScannedBytes(chunks), Len(w) \in 0 .. MaxLength
  PROVE  FindCommand(chunks) = {Pair(s) : s \in {t \in Scanned(w, Len(w)) : t.write_cmd_found}}
  <1>1. PICK n : n = Len(w)
    OBVIOUS
  <1>2. n \in Nat /\ n \in 0 .. MaxLength
    BY <1>1, LengthAssumption
  <1> DEFINE Turn(v, k) == UNION {NextByte(s, w[k]) : s \in v}
             Scans(h) == h = [k \in 0 .. n |-> IF k = 0 THEN {Start} ELSE Turn(h[k - 1], k)]
             scan == CHOOSE h : Scans(h)
             f == [k \in 0 .. n |-> Scanned(w, k)]
  <1>3. FindCommand(chunks) = {Pair(s) : s \in {t \in scan[n] : t.write_cmd_found}}
    BY <1>1 DEF FindCommand, Pair, Start
  <1>4. Scanned(w, 0) = {Start}
    BY ScanStarts
  <1>5. ASSUME NEW k \in 1 .. n PROVE Scanned(w, k) = Turn(Scanned(w, k - 1), k)
    <2>1. PICK j : j = k - 1
      OBVIOUS
    <2>2. j \in 0 .. (MaxLength - 1) /\ k = j + 1
      BY <1>2, <2>1, LengthAssumption
    <2>3. UNION {NextByte(s, w[j + 1]) : s \in Scanned(w, j)} = Scanned(w, j + 1)
      BY <2>2, ScanStep
    <2> QED BY <2>1, <2>2, <2>3
  <1> HIDE DEF Turn
  <1>6. Scans(f)
    <2>1. ASSUME NEW k \in 0 .. n PROVE f[k] = IF k = 0 THEN {Start} ELSE Turn(f[k - 1], k)
      <3>1. CASE k = 0
        BY <1>4, <3>1
      <3>2. CASE k # 0
        <4>1. k \in 1 .. n /\ k - 1 \in 0 .. n
          BY <1>2, <3>2
        <4> QED BY <1>5, <3>2, <4>1
      <3> QED BY <3>1, <3>2
    <2> QED BY <2>1
  <1>7. Scans(scan)
    <2> HIDE DEF Scans, f
    <2> QED BY <1>6
  <1>8. scan[0] = {Start} /\ \A k \in 1 .. n : scan[k] = Turn(scan[k - 1], k)
    <2>1. ASSUME NEW h, Scans(h) PROVE h[0] = {Start} /\ \A k \in 1 .. n : h[k] = Turn(h[k - 1], k)
      <3>1. \A k \in 0 .. n : h[k] = IF k = 0 THEN {Start} ELSE Turn(h[k - 1], k)
        BY <2>1, Zenon
      <3>2. 0 \in 0 .. n /\ \A k \in 1 .. n : k \in 0 .. n /\ k # 0
        BY <1>2
      <3> QED BY <3>1, <3>2, Zenon
    <2> HIDE DEF scan, Scans
    <2> QED BY <1>7, <2>1
  <1> HIDE DEF scan, Scans, f
  <1> DEFINE S == {k \in 0 .. n : scan[k] = Scanned(w, k)}
  <1>9. 0 \in S
    <2>1. 0 \in 0 .. n
      BY <1>2
    <2>2. scan[0] = Scanned(w, 0)
      BY <1>4, <1>8, Zenon
    <2> QED BY <2>1, <2>2
  <1>10. ASSUME NEW k \in 0 .. (n - 1), k \in S PROVE k + 1 \in S
    <2>1. PICK j : j = k + 1
      OBVIOUS
    <2>2. j \in 1 .. n /\ j - 1 = k /\ j \in 0 .. n
      BY <1>2, <2>1
    <2>3. scan[j] = Turn(scan[k], j) /\ Scanned(w, j) = Turn(Scanned(w, k), j)
      BY <1>5, <1>8, <2>2
    <2>4. scan[k] = Scanned(w, k)
      BY <1>10
    <2> QED BY <2>1, <2>2, <2>3, <2>4
  <1>11. n \in S
    <2> HIDE DEF S
    <2>1. \A k \in 0 .. n : k \in S
      BY <1>2, <1>9, <1>10, BoundedInduction
    <2> QED BY <1>2, <2>1
  <1> QED BY <1>1, <1>3, <1>11

----------------------------------------------------------------------------
(* What the text stands for.                                               *)

\* A number read at some places is held by a uint32_t.
LEMMA DecimalUint ==
  ASSUME NEW text, NEW places, Readable(text, places)
  PROVE  Decimal(text, places) \in Uint
  <1>1. PICK g : Sums(g, Terms(text, places), places) /\ Decimal(text, places) = g[places] % Modulus
    BY DecimalSums
  <1>2. \A s \in SUBSET places : g[s] \in Nat
    BY <1>1, SumNat
  <1>3. PICK n \in Nat : n = g[places]
    BY <1>2
  <1>4. PICK m : m = Modulus
    OBVIOUS
  <1>5. m \in Nat \ {0}
    BY <1>4, ModulusNat
  <1>6. n % m \in 0 .. (m - 1)
    <2>1. PICK q \in Nat : \E r \in 0 .. (m - 1) : n = q * m + r /\ n % m = r
      BY <1>5, QuotientExists
    <2> QED BY <2>1
  <1> QED BY <1>1, <1>3, <1>4, <1>6 DEF Uint, Modulus

\* The states that findCommand returns from hold the seek the text stands for.
LEMMA MeantIs ==
  ASSUME NEW X, NEW w, w \in Seq(X), Len(w) \in 0 .. MaxLength
  PROVE  Meant(w) = {Pair(s) : s \in {t \in Scanned(w, Len(w)) : t.write_cmd_found}}
  <1>1. PICK L \in Nat : L = Len(Command)
    BY CommandLength
  <1>2. PICK n \in Nat : n = Len(w)
    BY LengthAssumption
  <1> DEFINE commas == {k \in L + 1 .. n : w[k] = Comma}
             first  == CHOOSE k \in commas : \A j \in commas : k <= j
             Legal  == /\ IsPrefix(Command, w) /\ commas # {}
                       /\ \A k \in L + 1 .. n : k \in commas \/ w[k] \in 0 .. 9
  <1>3. Meant(w) = IF Legal THEN {[write_cmd |-> Decimal(w, L + 1 .. first - 1),
                                   write_cmd_offset |-> Decimal(w, (first + 1 .. n) \ commas)]}
                            ELSE {}
    BY <1>1, <1>2 DEF Meant
  <1>4. commas = CommaPlaces(w, n)
    BY <1>1 DEF CommaPlaces
  <1>5. Legal <=> Fits(w, n) /\ commas # {}
    <2> SUFFICES ASSUME commas # {} PROVE Legal <=> Fits(w, n)
      OBVIOUS
    <2>1. n > L
      BY <1>2
    <2>2. IsPrefix(Command, w) <=> \A j \in 1 .. L : w[j] = Command[j]
      <3>1. Command \in Seq(ToSet(Command)) /\ L <= n
        BY <2>1, CommandLength
      <3>2. IsPrefix(Command, w) <=> Command = SubSeq(w, 1, L)
        <4>1. PICK Y : Y = ToSet(Command)
          OBVIOUS
        <4>2. SubSeq(Command, 1, L) = Command
          BY <1>1, <3>1, <4>1
        <4>3. IsPrefix(Command, w) <=> L <= n /\ SubSeq(Command, 1, L) = SubSeq(w, 1, L)
          BY <1>1, <1>2 DEF IsPrefix
        <4> QED BY <3>1, <4>2, <4>3
      <3>3. SubSeq(w, 1, L) = [j \in 1 .. L |-> w[j]]
        BY <1>2, <2>1
      <3>4. PICK Y : Y = ToSet(Command)
        OBVIOUS
      <3>5. Command = [j \in 1 .. L |-> Command[j]]
        BY <1>1, <3>1, <3>4
      <3> QED BY <3>2, <3>3, <3>5
    <2>3. Fits(w, n) <=> /\ \A j \in 1 .. L : w[j] = Command[j]
                         /\ \A k \in L + 1 .. n : k \in commas \/ w[k] \in 0 .. 9
      BY <1>1, <1>2, <2>1 DEF Fits
    <2> HIDE DEF commas
    <2> QED BY <2>2, <2>3
  <1>6. ASSUME Legal
        PROVE  L + 1 .. first - 1 = NumberPlaces(w, n) /\ (first + 1 .. n) \ commas = OffsetPlaces(w, n)
    <2>1. commas # {} /\ commas \subseteq Nat
      BY <1>6
    <2>2. \E k \in commas : \A j \in commas : k <= j
      <3> HIDE DEF commas
      <3> QED BY <2>1, NatHasLeast
    <2>3. first \in commas /\ \A j \in commas : first <= j
      <3> HIDE DEF commas
      <3> QED BY <2>2
    <2> HIDE DEF first
    <2>4. first \in L + 1 .. n /\ w[first] = Comma /\ \A j \in L + 1 .. n : w[j] = Comma => first <= j
      BY <2>3
    <2>5. \A k \in L + 1 .. n : (\A j \in L + 1 .. k : w[j] # Comma) <=> k < first
      <3> HIDE DEF commas
      <3>1. ASSUME NEW k \in L + 1 .. n, k < first, NEW j \in L + 1 .. k PROVE w[j] # Comma
        <4>1. j \in L + 1 .. n /\ ~(first <= j)
          BY <2>4, <3>1
        <4> QED BY <2>4, <4>1
      <3>2. ASSUME NEW k \in L + 1 .. n, ~(k < first) PROVE first \in L + 1 .. k
        BY <2>4, <3>2
      <3> QED BY <2>4, <3>1, <3>2
    <2>6. \A k \in L + 1 .. n : (\E j \in L + 1 .. k - 1 : w[j] = Comma) <=> first < k
      <3> HIDE DEF commas
      <3>1. ASSUME NEW k \in L + 1 .. n, first < k PROVE first \in L + 1 .. k - 1
        BY <2>4, <3>1
      <3>2. ASSUME NEW k \in L + 1 .. n, NEW j \in L + 1 .. k - 1, w[j] = Comma PROVE first < k
        <4>1. j \in L + 1 .. n /\ j < k
          BY <3>2
        <4> QED BY <2>4, <3>2, <4>1
      <3> QED BY <2>4, <3>1, <3>2
    <2>7. NumberPlaces(w, n) = {k \in L + 1 .. n : k < first}
      BY <1>1, <2>5 DEF NumberPlaces
    <2>8. OffsetPlaces(w, n) = {k \in L + 1 .. n : w[k] # Comma /\ first < k}
      BY <1>1, <2>6 DEF OffsetPlaces
    <2>9. L + 1 .. first - 1 = {k \in L + 1 .. n : k < first}
      BY <2>4
    <2>10. (first + 1 .. n) \ commas = {k \in L + 1 .. n : w[k] # Comma /\ first < k}
      BY <2>4
    <2> QED BY <2>7, <2>8, <2>9, <2>10
  <1> HIDE DEF Legal, first, commas
  <1>7. CASE Legal
    <2>1. Fits(w, n) /\ CommaPlaces(w, n) # {}
      BY <1>4, <1>5, <1>7
    <2>2. Scanned(w, n) = {After(w, n)} /\ After(w, n).write_cmd_found
      BY <2>1 DEF Scanned, After
    <2>3. Pair(After(w, n)) = [write_cmd |-> Decimal(w, NumberPlaces(w, n)),
                               write_cmd_offset |-> Decimal(w, OffsetPlaces(w, n))]
      BY DEF Pair, After
    <2>4. Meant(w) = {Pair(After(w, n))}
      BY <1>3, <1>6, <1>7, <2>3
    <2> QED BY <1>2, <2>2, <2>4
  <1>8. CASE ~Legal
    <2>1. Meant(w) = {}
      BY <1>3, <1>8
    <2>2. \A s \in Scanned(w, n) : Fits(w, n) /\ (s.write_cmd_found <=> CommaPlaces(w, n) # {})
      <3>1. After(w, n).write_cmd_found <=> CommaPlaces(w, n) # {}
        BY DEF After
      <3> QED BY <3>1 DEF Scanned
    <2>3. {t \in Scanned(w, n) : t.write_cmd_found} = {}
      BY <1>4, <1>5, <1>8, <2>2
    <2> QED BY <1>2, <2>1, <2>3
  <1> QED BY <1>7, <1>8

\* They are numbers of a uint32_t.
LEMMA FoundAreSeekto ==
  ASSUME NEW w, Len(w) \in 0 .. MaxLength
  PROVE  {Pair(s) : s \in {t \in Scanned(w, Len(w)) : t.write_cmd_found}} \subseteq Seekto
  <1>1. PICK n : n = Len(w)
    OBVIOUS
  <1>2. ASSUME Fits(w, n) PROVE Pair(After(w, n)) \in Seekto
    <2>1. Readable(w, NumberPlaces(w, n)) /\ Readable(w, OffsetPlaces(w, n))
      BY <1>1, <1>2, PlacesReadable
    <2>2. Decimal(w, NumberPlaces(w, n)) \in Uint /\ Decimal(w, OffsetPlaces(w, n)) \in Uint
      BY <2>1, DecimalUint
    <2> QED BY <2>2 DEF Pair, After, Seekto
  <1> QED BY <1>1, <1>2 DEF Scanned

----------------------------------------------------------------------------
(* The list of chunks.                                                     *)

\* n is where the first newline of a sequence is, less one, or its length.
Cut(s, n) == /\ n \in 0 .. Len(s)
             /\ \A i \in 1 .. n : s[i] # Newline
             /\ n < Len(s) => s[n + 1] = Newline

LEMMA CutExists ==
  ASSUME NEW X, NEW s, s \in Seq(X)
  PROVE  \E n : Cut(s, n) /\ BeforeNewline(s) = SubSeq(s, 1, n)
  <1>1. PICK m : m = SelectInSeq(s, LAMBDA byte : byte = Newline)
    OBVIOUS
  <1> DEFINE I == {i \in 1 .. Len(s) : s[i] = Newline}
  <1>2. m = IF I # {} THEN Min(I) ELSE 0
    BY <1>1 DEF SelectInSeq
  <1>3. Len(s) \in Nat /\ SubSeq(s, 1, Len(s)) = s
    OBVIOUS
  <1>4. CASE I = {}
    <2>1. BeforeNewline(s) = SubSeq(s, 1, Len(s))
      BY <1>1, <1>2, <1>3, <1>4 DEF BeforeNewline
    <2>2. Cut(s, Len(s))
      BY <1>3, <1>4 DEF Cut
    <2> QED BY <2>1, <2>2
  <1>5. CASE I # {}
    <2>1. I \subseteq Nat
      OBVIOUS
    <2> HIDE DEF I
    <2>2. \E x \in I : \A y \in I : x <= y
      BY <1>5, <2>1, NatHasLeast
    <2>3. m \in I /\ \A y \in I : m <= y
      <3>1. Min(I) \in I /\ \A y \in I : Min(I) <= y
        BY <2>2 DEF Min
      <3>2. m = Min(I)
        BY <1>2, <1>5, Zenon
      <3> QED BY <3>1, <3>2
    <2>4. m \in 1 .. Len(s) /\ s[m] = Newline
      BY <2>3 DEF I
    <2>5. BeforeNewline(s) = SubSeq(s, 1, m - 1)
      <3>1. BeforeNewline(s) = IF m = 0 THEN s ELSE SubSeq(s, 1, m - 1)
        BY <1>1, Zenon DEF BeforeNewline
      <3>2. m # 0
        BY <1>3, <2>4
      <3> QED BY <3>1, <3>2
    <2>6. Cut(s, m - 1)
      <3>1. m - 1 \in 0 .. Len(s) /\ (m - 1) + 1 = m
        BY <1>3, <2>4
      <3>2. ASSUME NEW i \in 1 .. m - 1 PROVE s[i] # Newline
        <4>1. i \in 1 .. Len(s) /\ ~(m <= i)
          BY <1>3, <2>4
        <4>2. i \notin I
          BY <2>3, <4>1
        <4> QED BY <4>1, <4>2 DEF I
      <3> QED BY <2>4, <3>1, <3>2 DEF Cut
    <2> QED BY <2>5, <2>6
  <1> QED BY <1>4, <1>5

\* The bytes in front of a newline are bytes of the chunk.
LEMMA BeforeNewlineType ==
  ASSUME NEW X, NEW s, s \in Seq(X)
  PROVE  /\ BeforeNewline(s) \in Seq(X)
         /\ Len(BeforeNewline(s)) \in 0 .. Len(s)
         /\ Newline \notin ToSet(s) => BeforeNewline(s) = s
  <1>1. PICK n : Cut(s, n) /\ BeforeNewline(s) = SubSeq(s, 1, n)
    BY CutExists
  <1>2. n \in 0 .. Len(s) /\ Len(s) \in Nat
    BY <1>1 DEF Cut
  <1>3. SubSeq(s, 1, n) \in Seq(X) /\ Len(SubSeq(s, 1, n)) = n
    BY <1>2
  <1>4. ASSUME Newline \notin ToSet(s) PROVE SubSeq(s, 1, n) = s
    <2>1. ~(n < Len(s))
      <3>1. n < Len(s) => n + 1 \in 1 .. Len(s)
        BY <1>2
      <3> QED BY <1>1, <1>4, <3>1 DEF Cut, ToSet
    <2> QED BY <1>2, <2>1
  <1> QED BY <1>1, <1>2, <1>3, <1>4

\* Bytes without a newline do not hide the next ones.
LEMMA NewlineBehind ==
  ASSUME NEW X, NEW u, u \in Seq(X), NEW v, v \in Seq(X), Newline \notin ToSet(u)
  PROVE  BeforeNewline(u \o v) = u \o BeforeNewline(v)
  <1>1. PICK w : w = u \o v
    OBVIOUS
  <1>2. /\ w \in Seq(X) /\ Len(u) \in Nat /\ Len(v) \in Nat /\ Len(w) = Len(u) + Len(v)
        /\ \A i \in 1 .. Len(u) : w[i] = u[i]
        /\ \A i \in 1 .. Len(v) : w[Len(u) + i] = v[i]
    BY <1>1
  <1>3. PICK n : Cut(v, n) /\ BeforeNewline(v) = SubSeq(v, 1, n)
    BY CutExists
  <1>4. PICK m : Cut(w, m) /\ BeforeNewline(w) = SubSeq(w, 1, m)
    BY <1>2, CutExists
  <1>5. PICK k \in Nat : k = Len(u)
    BY <1>2
  <1>6. n \in 0 .. Len(v) /\ m \in 0 .. (k + Len(v))
    BY <1>2, <1>3, <1>4, <1>5 DEF Cut
  <1>7. ~(m < k)
    <2>1. m < k => m + 1 \in 1 .. Len(u) /\ m < Len(w)
      BY <1>2, <1>5, <1>6
    <2>2. m < k => u[m + 1] = Newline
      BY <1>2, <1>4, <2>1 DEF Cut
    <2> QED BY <2>1, <2>2 DEF ToSet
  <1>8. ~(k + n < m)
    <2> SUFFICES ASSUME k + n < m PROVE FALSE
      OBVIOUS
    <2>1. n + 1 \in 1 .. Len(v) /\ n < Len(v) /\ k + (n + 1) \in 1 .. m
      BY <1>2, <1>5, <1>6
    <2>2. v[n + 1] = Newline
      BY <1>3, <2>1 DEF Cut
    <2>3. w[k + (n + 1)] = v[n + 1]
      BY <1>2, <1>5, <2>1
    <2>4. w[k + (n + 1)] # Newline
      BY <1>4, <2>1 DEF Cut
    <2> QED BY <2>2, <2>3, <2>4
  <1>9. ~(m < k + n)
    <2> SUFFICES ASSUME m < k + n PROVE FALSE
      OBVIOUS
    <2>1. PICK p : p = m - k
      OBVIOUS
    <2>2. p + 1 \in 1 .. n /\ p + 1 \in 1 .. Len(v) /\ m + 1 = k + (p + 1) /\ m < Len(w)
      BY <1>2, <1>5, <1>6, <1>7, <2>1
    <2>3. w[m + 1] = Newline
      BY <1>4, <2>2 DEF Cut
    <2>4. w[m + 1] = v[p + 1]
      BY <1>2, <1>5, <2>2
    <2>5. v[p + 1] # Newline
      BY <1>3, <2>2 DEF Cut
    <2> QED BY <2>3, <2>4, <2>5
  <1>10. m = k + n
    BY <1>5, <1>6, <1>8, <1>9
  <1>11. SubSeq(w, 1, m) = u \o SubSeq(v, 1, n)
    <2>1. PICK a, b : a = SubSeq(w, 1, m) /\ b = SubSeq(v, 1, n)
      OBVIOUS
    <2>2. a \in Seq(X) /\ Len(a) = m /\ \A i \in 1 .. m : a[i] = w[i]
      BY <1>2, <1>4, <1>6, <2>1 DEF Cut
    <2>3. b \in Seq(X) /\ Len(b) = n /\ \A i \in 1 .. n : b[i] = v[i]
      BY <1>6, <2>1
    <2>4. PICK c : c = u \o b
      OBVIOUS
    <2>5. /\ c \in Seq(X) /\ Len(c) = k + n
          /\ \A i \in 1 .. k : c[i] = u[i]
          /\ \A i \in 1 .. n : c[k + i] = b[i]
      BY <1>5, <2>3, <2>4
    <2>6. ASSUME NEW i \in 1 .. m PROVE a[i] = c[i]
      <3>1. CASE i <= k
        <4>1. i \in 1 .. k
          BY <3>1, <1>5
        <4> QED BY <1>2, <1>5, <2>2, <2>5, <4>1
      <3>2. CASE ~(i <= k)
        <4>1. PICK j : j = i - k
          OBVIOUS
        <4>2. j \in 1 .. n /\ j \in 1 .. Len(v) /\ i = k + j
          BY <1>2, <1>5, <1>6, <1>10, <3>2, <4>1
        <4>3. a[i] = v[j] /\ c[i] = v[j]
          BY <1>2, <1>5, <2>2, <2>3, <2>5, <4>2
        <4> QED BY <4>3
      <3> QED BY <3>1, <3>2
    <2>7. a = c
      BY <1>10, <2>2, <2>5, <2>6
    <2> QED BY <2>1, <2>4, <2>7
  <1> QED BY <1>1, <1>3, <1>4, <1>11

\* The inner loop is left early in no chunk of f: it has no newline.
Whole(f) ==
  /\ f \in Seq(Seq(Bytes))
  /\ ScannedBytes(f) = FlattenSeq(f)
  /\ Newline \notin ToSet(FlattenSeq(f))

LEMMA FlattenEmpty == FlattenSeq(<<>>) = <<>> /\ ScannedBytes(<<>>) = <<>>
  <1>1. PICK X : X = Seq(Bytes)
    OBVIOUS
  <1>2. <<>> \in Seq(X) /\ Len(<<>>) = 0
    OBVIOUS
  <1>3. <<>> \in Seq(Seq(Bytes))
    BY <1>1, <1>2
  <1>4. PICK f : Joins(f, Bytes, <<>>, Len(<<>>)) /\ FlattenSeq(<<>>) = f[Len(<<>>)]
    BY <1>3, FlattenJoins
  <1>5. FlattenSeq(<<>>) = <<>>
    BY <1>2, <1>4 DEF Joins
  <1>6. [k \in DOMAIN <<>> |-> BeforeNewline(<<>>[k])] = <<>>
    OBVIOUS
  <1> QED BY <1>5, <1>6 DEF ScannedBytes

LEMMA WholeEmpty == Whole(<<>>)
  <1>1. PICK X : X = Seq(Bytes)
    OBVIOUS
  <1>2. <<>> \in Seq(X)
    OBVIOUS
  <1>3. Newline \notin ToSet(<<>>)
    BY DEF ToSet
  <1> QED BY <1>1, <1>2, <1>3, FlattenEmpty DEF Whole

\* What findCommand reads when only the last chunk may have a newline.
LEMMA LastChunk ==
  ASSUME NEW f, Whole(f), NEW l, l \in Seq(Bytes)
  PROVE  /\ FlattenSeq(Append(f, l)) = FlattenSeq(f) \o l
         /\ FlattenSeq(f) \in Seq(Bytes)
         /\ ScannedBytes(Append(f, l)) = FlattenSeq(f) \o BeforeNewline(l)
         /\ ScannedBytes(Append(f, l)) = BeforeNewline(FlattenSeq(Append(f, l)))
  <1>1. f \in Seq(Seq(Bytes)) /\ ScannedBytes(f) = FlattenSeq(f) /\ Newline \notin ToSet(FlattenSeq(f))
    BY DEF Whole
  <1>2. FlattenSeq(Append(f, l)) = FlattenSeq(f) \o l
    BY <1>1, FlattenAppend
  <1>3. FlattenSeq(f) \in Seq(Bytes)
    BY <1>1, FlattenLayout
  <1>4. PICK g : g = [k \in DOMAIN f |-> BeforeNewline(f[k])]
    OBVIOUS
  <1>5. BeforeNewline(l) \in Seq(Bytes)
    BY BeforeNewlineType
  <1>6. PICK V : V = Seq(Bytes)
    OBVIOUS
  <1>7. PICK n \in Nat : n = Len(f)
    BY <1>1, <1>6
  <1>8. ASSUME NEW k \in 1 .. n PROVE BeforeNewline(f[k]) \in V
    <2>1. f[k] \in Seq(Bytes)
      BY <1>1, <1>7
    <2> QED BY <1>6, <2>1, BeforeNewlineType
  <1>9. g \in Seq(V) /\ Len(g) = n /\ \A k \in 1 .. n : g[k] = BeforeNewline(f[k])
    <2>1. DOMAIN f = 1 .. n
      BY <1>1, <1>6, <1>7
    <2>2. g = [k \in 1 .. n |-> BeforeNewline(f[k])]
      BY <1>4, <2>1
    <2> QED BY <1>8, <2>2
  <1>10. [k \in DOMAIN Append(f, l) |-> BeforeNewline(Append(f, l)[k])] = Append(g, BeforeNewline(l))
    <2>1. PICK e, b : e = Append(f, l) /\ b = BeforeNewline(l)
      OBVIOUS
    <2>2. /\ DOMAIN e = 1 .. n + 1 /\ e[n + 1] = l
          /\ \A k \in 1 .. n : e[k] = f[k]
      BY <1>1, <1>6, <1>7, <2>1
    <2>3. b \in V
      BY <1>5, <1>6, <2>1
    <2>4. PICK h : h = Append(g, b)
      OBVIOUS
    <2>5. /\ h \in Seq(V) /\ Len(h) = n + 1 /\ h[n + 1] = b
          /\ \A k \in 1 .. n : h[k] = g[k]
      BY <1>9, <2>3, <2>4
    <2>6. ASSUME NEW k \in 1 .. n + 1 PROVE BeforeNewline(e[k]) = h[k]
      <3>1. CASE k = n + 1
        BY <2>1, <2>2, <2>5, <3>1
      <3>2. CASE k # n + 1
        <4>1. k \in 1 .. n
          BY <3>2
        <4> QED BY <1>9, <2>2, <2>5, <4>1
      <3> QED BY <3>1, <3>2
    <2>7. h = [k \in 1 .. n + 1 |-> h[k]]
      BY <2>5
    <2>8. [k \in DOMAIN e |-> BeforeNewline(e[k])] = h
      BY <2>2, <2>6, <2>7
    <2> QED BY <2>1, <2>4, <2>8
  <1>11. FlattenSeq(Append(g, BeforeNewline(l))) = FlattenSeq(g) \o BeforeNewline(l)
    <2>1. g \in Seq(Seq(Bytes))
      BY <1>6, <1>9
    <2> QED BY <1>5, <2>1, FlattenAppend
  <1>12. FlattenSeq(g) = FlattenSeq(f)
    BY <1>1, <1>4 DEF ScannedBytes
  <1>13. ScannedBytes(Append(f, l)) = FlattenSeq(f) \o BeforeNewline(l)
    BY <1>10, <1>11, <1>12, Zenon DEF ScannedBytes
  <1>14. BeforeNewline(FlattenSeq(f) \o l) = FlattenSeq(f) \o BeforeNewline(l)
    BY <1>1, <1>3, NewlineBehind
  <1> QED BY <1>2, <1>3, <1>13, <1>14, Zenon

LEMMA WholeAppend ==
  ASSUME NEW f, Whole(f), NEW l, l \in Seq(Bytes), Newline \notin ToSet(FlattenSeq(Append(f, l)))
  PROVE  Whole(Append(f, l))
  <1>1. FlattenSeq(Append(f, l)) = FlattenSeq(f) \o l /\ FlattenSeq(f) \in Seq(Bytes)
    BY LastChunk
  <1>2. FlattenSeq(Append(f, l)) \in Seq(Bytes)
    BY <1>1
  <1>3. BeforeNewline(FlattenSeq(Append(f, l))) = FlattenSeq(Append(f, l))
    BY <1>2, BeforeNewlineType
  <1>4. ScannedBytes(Append(f, l)) = BeforeNewline(FlattenSeq(Append(f, l)))
    BY LastChunk
  <1>5. Append(f, l) \in Seq(Seq(Bytes))
    <2>1. PICK V : V = Seq(Bytes)
      OBVIOUS
    <2>2. f \in Seq(V) /\ l \in V
      BY <2>1 DEF Whole
    <2> QED BY <2>1, <2>2
  <1> QED BY <1>3, <1>4, <1>5 DEF Whole

----------------------------------------------------------------------------
(* The specification.                                                      *)

\* Only the last chunk of the list may have a newline (the receive loop), and the text
\* has at most as many bytes as its bound.
HeadInv ==
  /\ Len(Received) \in 0 .. MaxLength
  /\ head = <<>> \/ \E f : \E l \in Seq(Bytes) : Whole(f) /\ head = Append(f, l)

LEMMA HeadText ==
  ASSUME HeadInv
  PROVE  /\ head \in Seq(Seq(Bytes)) /\ Received \in Seq(Bytes)
         /\ ScannedBytes(head) = BeforeNewline(Received)
  <1>1. CASE head = <<>>
    <2>1. Received = <<>> /\ ScannedBytes(head) = <<>>
      BY <1>1, FlattenEmpty DEF Received
    <2>2. <<>> \in Seq(Bytes)
      OBVIOUS
    <2>3. Newline \notin ToSet(<<>>)
      BY DEF ToSet
    <2>4. BeforeNewline(<<>>) = <<>>
      BY <2>2, <2>3, BeforeNewlineType
    <2>5. head \in Seq(Seq(Bytes))
      BY <1>1, WholeEmpty DEF Whole
    <2> QED BY <2>1, <2>2, <2>4, <2>5
  <1>2. CASE head # <<>>
    <2>1. PICK f : \E l \in Seq(Bytes) : Whole(f) /\ head = Append(f, l)
      BY <1>2 DEF HeadInv
    <2>2. PICK l \in Seq(Bytes) : Whole(f) /\ head = Append(f, l)
      BY <2>1
    <2>3. FlattenSeq(Append(f, l)) = FlattenSeq(f) \o l /\ FlattenSeq(f) \in Seq(Bytes)
      BY <2>2, LastChunk
    <2>4. ScannedBytes(Append(f, l)) = BeforeNewline(FlattenSeq(Append(f, l)))
      BY <2>2, LastChunk
    <2>5. Received \in Seq(Bytes)
      BY <2>2, <2>3 DEF Received
    <2>6. head \in Seq(Seq(Bytes))
      <3>1. PICK V : V = Seq(Bytes)
        OBVIOUS
      <3>2. f \in Seq(V) /\ l \in V
        BY <2>2, <3>1 DEF Whole
      <3> QED BY <2>2, <3>1, <3>2
    <2> QED BY <2>2, <2>4, <2>5, <2>6 DEF Received
  <1> QED BY <1>1, <1>2

LEMMA HeadInit == Init => HeadInv
  <1> SUFFICES ASSUME Init PROVE HeadInv
    OBVIOUS
  <1>1. head = <<>> /\ Received = <<>>
    BY FlattenEmpty DEF Init, Received
  <1>2. Len(<<>>) \in 0 .. MaxLength
    BY LengthAssumption
  <1> QED BY <1>1, <1>2 DEF HeadInv

LEMMA NewNodeKeeps ==
  ASSUME HeadInv, NEW byte \in Bytes, NewNode(byte)
  PROVE  HeadInv'
  <1>1. Len(Received) < MaxLength /\ Newline \notin ToSet(Received) /\ head' = Append(head, <<byte>>)
    BY DEF NewNode, Receiving
  <1>2. <<byte>> \in Seq(Bytes) /\ Len(<<byte>>) = 1
    OBVIOUS
  <1>3. Whole(head)
    <2>1. CASE head = <<>>
      BY <2>1, WholeEmpty
    <2>2. CASE head # <<>>
      <3>1. PICK f : \E l \in Seq(Bytes) : Whole(f) /\ head = Append(f, l)
        BY <2>2 DEF HeadInv
      <3>2. PICK l \in Seq(Bytes) : Whole(f) /\ head = Append(f, l)
        BY <3>1
      <3>3. Newline \notin ToSet(FlattenSeq(Append(f, l)))
        BY <1>1, <3>2 DEF Received
      <3>4. Whole(Append(f, l))
        BY <3>2, <3>3, WholeAppend
      <3> QED BY <3>2, <3>4
    <2> QED BY <2>1, <2>2
  <1>4. FlattenSeq(Append(head, <<byte>>)) = FlattenSeq(head) \o <<byte>> /\ FlattenSeq(head) \in Seq(Bytes)
    BY <1>2, <1>3, LastChunk
  <1>5. Len(FlattenSeq(head')) = Len(FlattenSeq(head)) + 1 /\ Len(FlattenSeq(head)) \in Nat
    BY <1>1, <1>2, <1>4
  <1>6. Len(FlattenSeq(head')) \in 0 .. MaxLength
    BY <1>1, <1>5, LengthAssumption DEF Received
  <1> QED BY <1>1, <1>2, <1>3, <1>6 DEF HeadInv, Received

\* A sequence with another last element.
LEMMA LastReplaced ==
  ASSUME NEW V, NEW f, f \in Seq(V), NEW l, l \in V, NEW k, k \in V
  PROVE  [Append(f, l) EXCEPT ![Len(f) + 1] = k] = Append(f, k)
  <1>1. PICK a, b : a = Append(f, l) /\ b = Append(f, k)
    OBVIOUS
  <1>2. PICK n \in Nat : n = Len(f)
    OBVIOUS
  <1>3. a \in [1 .. n + 1 -> V] /\ \A i \in 1 .. n : a[i] = f[i]
    <2>1. a \in Seq(V) /\ Len(a) = n + 1 /\ \A i \in 1 .. n : a[i] = f[i]
      BY <1>1, <1>2
    <2> QED BY <2>1
  <1>4. b \in [1 .. n + 1 -> V] /\ b[n + 1] = k /\ \A i \in 1 .. n : b[i] = f[i]
    <2>1. b \in Seq(V) /\ Len(b) = n + 1 /\ b[n + 1] = k /\ \A i \in 1 .. n : b[i] = f[i]
      BY <1>1, <1>2
    <2> QED BY <2>1
  <1>5. PICK c : c = [a EXCEPT ![n + 1] = k]
    OBVIOUS
  <1>6. c \in [1 .. n + 1 -> V] /\ c[n + 1] = k /\ \A i \in 1 .. n : c[i] = a[i]
    BY <1>3, <1>5
  <1>7. \A i \in 1 .. n + 1 : i = n + 1 \/ i \in 1 .. n
    OBVIOUS
  <1>8. \A i \in 1 .. n + 1 : b[i] = c[i]
    BY <1>3, <1>4, <1>6, <1>7
  <1>9. b = c
    BY <1>4, <1>6, <1>8
  <1> QED BY <1>1, <1>2, <1>5, <1>9

LEMMA SameNodeKeeps ==
  ASSUME HeadInv, NEW byte \in Bytes, SameNode(byte)
  PROVE  HeadInv'
  <1>1. /\ head # <<>> /\ Len(Received) < MaxLength
        /\ head' = [head EXCEPT ![Len(head)] = Append(@, byte)]
    BY DEF SameNode
  <1>2. PICK f : \E l \in Seq(Bytes) : Whole(f) /\ head = Append(f, l)
    BY <1>1 DEF HeadInv
  <1>3. PICK l \in Seq(Bytes) : Whole(f) /\ head = Append(f, l)
    BY <1>2
  <1>4. PICK k : k = Append(l, byte)
    OBVIOUS
  <1>5. k \in Seq(Bytes) /\ Len(k) = Len(l) + 1 /\ Len(l) \in Nat
    BY <1>3, <1>4
  <1>6. head' = Append(f, k)
    <2>1. PICK V : V = Seq(Bytes)
      OBVIOUS
    <2>2. f \in Seq(V) /\ l \in V /\ k \in V /\ head = Append(f, l)
      BY <1>3, <1>5, <2>1 DEF Whole
    <2>3. Len(head) = Len(f) + 1 /\ head[Len(head)] = l
      BY <2>2
    <2>4. head' = [head EXCEPT ![Len(head)] = k]
      BY <1>1, <1>4, <2>3
    <2>5. [Append(f, l) EXCEPT ![Len(f) + 1] = k] = Append(f, k)
      BY <2>2, LastReplaced
    <2> QED BY <2>2, <2>3, <2>4, <2>5, Zenon
  <1>7. FlattenSeq(Append(f, l)) = FlattenSeq(f) \o l /\ FlattenSeq(f) \in Seq(Bytes)
    BY <1>3, LastChunk
  <1>8. FlattenSeq(Append(f, k)) = FlattenSeq(f) \o k
    BY <1>3, <1>5, LastChunk
  <1>9. Len(FlattenSeq(head')) = Len(FlattenSeq(head)) + 1 /\ Len(FlattenSeq(head)) \in Nat
    <2>1. PICK u \in Seq(Bytes) : u = FlattenSeq(f)
      BY <1>7
    <2>2. Len(u \o k) = Len(u) + Len(k) /\ Len(u \o l) = Len(u) + Len(l) /\ Len(u) \in Nat
      <3>1. \A a, b \in Seq(Bytes) : Len(a \o b) = Len(a) + Len(b) /\ Len(a) \in Nat
        OBVIOUS
      <3> QED BY <1>5, <3>1
    <2>3. FlattenSeq(head') = u \o k /\ FlattenSeq(head) = u \o l
      BY <1>3, <1>6, <1>7, <1>8, <2>1, Zenon
    <2> QED BY <1>5, <2>2, <2>3
  <1>10. Len(FlattenSeq(head')) \in 0 .. MaxLength
    BY <1>1, <1>9, LengthAssumption DEF Received
  <1> QED BY <1>3, <1>5, <1>6, <1>10 DEF HeadInv, Received

LEMMA HeadStep == HeadInv /\ [Next]_head => HeadInv'
  <1> SUFFICES ASSUME HeadInv, [Next]_head PROVE HeadInv'
    OBVIOUS
  <1>1. CASE UNCHANGED head
    BY <1>1 DEF HeadInv, Received
  <1>2. ASSUME NEW byte \in Bytes, NewNode(byte) PROVE HeadInv'
    BY <1>2, NewNodeKeeps
  <1>3. ASSUME NEW byte \in Bytes, SameNode(byte) PROVE HeadInv'
    BY <1>3, SameNodeKeeps
  <1> QED BY <1>1, <1>2, <1>3 DEF Next

\* However recv cuts a packet of any length into chunks of any size, findCommand finds
\* the seek that the text up to the newline stands for, and no other (findCommand over
\* the list of nodes).
THEOREM SeekFindsWhatIsMeant == Spec => []FindsWhatIsMeant
  <1>1. HeadInv => FindsWhatIsMeant
    <2> SUFFICES ASSUME HeadInv PROVE FindsWhatIsMeant
      OBVIOUS
    <2>1. PICK w : w = ScannedBytes(head)
      OBVIOUS
    <2>2. w = BeforeNewline(Received) /\ Received \in Seq(Bytes)
      BY <2>1, HeadText
    <2>3. w \in Seq(Bytes) /\ Len(w) \in 0 .. Len(Received)
      BY <2>2, BeforeNewlineType
    <2>4. Len(w) \in 0 .. MaxLength
      BY <2>3, LengthAssumption DEF HeadInv
    <2>5. FindCommand(head) = {Pair(s) : s \in {t \in Scanned(w, Len(w)) : t.write_cmd_found}}
      BY <2>1, <2>4, FindCommandIs
    <2>6. Meant(w) = {Pair(s) : s \in {t \in Scanned(w, Len(w)) : t.write_cmd_found}}
      BY <2>3, <2>4, MeantIs
    <2>7. {Pair(s) : s \in {t \in Scanned(w, Len(w)) : t.write_cmd_found}} \subseteq Seekto
      BY <2>4, FoundAreSeekto
    <2> QED BY <2>2, <2>5, <2>6, <2>7, Zenon DEF FindsWhatIsMeant
  <1> QED BY <1>1, HeadInit, HeadStep, PTL DEF Spec
=============================================================================
