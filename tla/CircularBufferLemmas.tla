------------------------ MODULE CircularBufferLemmas ------------------------
(***************************************************************************)
(* What add_entry does to the sequence of entries that a walk from         *)
(* out_offs meets, for every number of slots.                              *)
(***************************************************************************)
EXTENDS CircularBuffer, DataLemmas

\* The remainder of a sum of two indexes: at most one turn of the ring.
LEMMA ModOnce ==
  ASSUME NEW N \in Nat \ {0}, NEW x \in 0 .. (N - 1), NEW y \in 0 .. (N - 1)
  PROVE  /\ (x + y) % N = IF x + y < N THEN x + y ELSE x + y - N
         /\ (x + y) % N \in 0 .. (N - 1)
  OBVIOUS

\* Advancing an index (the "% AESDCHAR_MAX_WRITE_OPERATIONS_SUPPORTED" of
\* add_entry) gives a slot again: the next one, or the first after the last.
LEMMA AdvanceIsSlot ==
  ASSUME NEW s \in Slots
  PROVE  /\ Advance(s) \in Slots
         /\ Advance(s) = IF s + 1 = MaxOps THEN 0 ELSE s + 1
  <1>1. /\ (s + 1) % MaxOps = IF s + 1 < MaxOps THEN s + 1 ELSE s + 1 - MaxOps
        /\ (s + 1) % MaxOps \in 0 .. (MaxOps - 1)
    BY MaxOpsAssumption DEF Slots
  <1> QED BY <1>1, MaxOpsAssumption DEF Advance, Slots

\* The i-th position of a walk from out_offs is a slot (the posn of the loops
\* of find_entry_offset_for_fpos and find_seekto_fpos).
LEMMA SlotAtIsSlot ==
  ASSUME NEW b, b.out_offs \in Slots, NEW i \in Slots
  PROVE  /\ SlotAt(b, i) \in Slots
         /\ SlotAt(b, i) = IF b.out_offs + i < MaxOps THEN b.out_offs + i
                           ELSE b.out_offs + i - MaxOps
  <1>1. /\ MaxOps \in Nat \ {0}
        /\ b.out_offs \in 0 .. (MaxOps - 1) /\ i \in 0 .. (MaxOps - 1)
    BY MaxOpsAssumption DEF Slots
  <1>2. /\ (b.out_offs + i) % MaxOps
             = IF b.out_offs + i < MaxOps THEN b.out_offs + i ELSE b.out_offs + i - MaxOps
        /\ (b.out_offs + i) % MaxOps \in 0 .. (MaxOps - 1)
    BY <1>1, ModOnce
  <1> QED BY <1>2 DEF SlotAt, Slots

\* A walk of at most MaxOps positions meets no slot twice.
LEMMA SlotAtInjective ==
  ASSUME NEW b, b.out_offs \in Slots, NEW i \in Slots, NEW j \in Slots, i # j
  PROVE  SlotAt(b, i) # SlotAt(b, j)
  BY SlotAtIsSlot, MaxOpsAssumption DEF Slots

\* The number of commands of a coherent ring (num_iterations).
LEMMA CountOfCoherent ==
  ASSUME NEW E, NEW b, Coherent(b, E)
  PROVE  /\ EntryCount(b) = IF b.full THEN MaxOps ELSE b.in_offs
         /\ EntryCount(b) \in 0 .. MaxOps
         /\ 0 .. (EntryCount(b) - 1) \subseteq Slots
  BY MaxOpsAssumption DEF Coherent, EntryCount, IsEmpty, Slots

\* The buffer that add_entry leaves is coherent again.
LEMMA AddEntryCoherent ==
  ASSUME NEW E, NEW b, Coherent(b, E), NEW e \in E
  PROVE  Coherent(AddEntry(b, e), E)
  <1>1. /\ b.in_offs \in Slots /\ b.out_offs \in Slots /\ b.full \in BOOLEAN
        /\ b.entry \in [Slots -> E]
    BY DEF Coherent
  <1>2. /\ Advance(b.in_offs) \in Slots /\ Advance(b.out_offs) \in Slots
        /\ Advance(b.in_offs) = IF b.in_offs + 1 = MaxOps THEN 0 ELSE b.in_offs + 1
    BY <1>1, AdvanceIsSlot
  <1>3. CASE b.full
    BY <1>1, <1>2, <1>3 DEF Coherent, AddEntry
  <1>4. CASE ~b.full
    BY <1>1, <1>2, <1>4 DEF Coherent, AddEntry
  <1> QED BY <1>1, <1>3, <1>4

\* Adding to a ring that is not full: the walk meets what it met before and
\* then the new entry.
LEMMA AddEntryAppends ==
  ASSUME NEW E, NEW b, Coherent(b, E), ~b.full, NEW e
  PROVE  LET n == EntryCount(b)
             c == AddEntry(b, e)
         IN  /\ EntryCount(c) = n + 1
             /\ n \in Slots
             /\ \A i \in 0 .. (n - 1) : c.entry[SlotAt(c, i)] = b.entry[SlotAt(b, i)]
             /\ c.entry[SlotAt(c, n)] = e
  <1> DEFINE n == EntryCount(b)
             c == AddEntry(b, e)
  <1>1. /\ b.in_offs \in Slots /\ b.out_offs = 0 /\ b.entry \in [Slots -> E]
        /\ n = b.in_offs
    BY CountOfCoherent DEF Coherent
  <1>2. Advance(b.in_offs) = IF b.in_offs + 1 = MaxOps THEN 0 ELSE b.in_offs + 1
    BY <1>1, AdvanceIsSlot
  <1>3. /\ c.out_offs = 0
        /\ c.in_offs = Advance(b.in_offs)
        /\ c.full <=> b.in_offs + 1 = MaxOps
        /\ c.entry = [b.entry EXCEPT ![b.in_offs] = e]
    <2>1. /\ c.out_offs = 0
          /\ c.in_offs = Advance(b.in_offs)
          /\ c.full <=> Advance(b.in_offs) = 0
          /\ c.entry = [b.entry EXCEPT ![b.in_offs] = e]
      BY <1>1 DEF AddEntry
    <2> QED BY <1>1, <1>2, <2>1, MaxOpsAssumption DEF Slots
  <1>4. EntryCount(c) = n + 1
    <2> HIDE DEF c, n
    <2>1. CASE b.in_offs + 1 = MaxOps
      BY <1>1, <1>3, <2>1 DEF EntryCount, IsEmpty
    <2>2. CASE b.in_offs + 1 # MaxOps
      <3>1. ~c.full /\ c.in_offs = b.in_offs + 1 /\ c.in_offs > 0 /\ c.out_offs = 0
        BY <1>1, <1>2, <1>3, <2>2, MaxOpsAssumption DEF Slots
      <3> QED BY <1>1, <3>1, MaxOpsAssumption DEF EntryCount, IsEmpty, Slots
    <2> QED BY <2>1, <2>2
  <1>5. \A i \in Slots : SlotAt(c, i) = i /\ SlotAt(b, i) = i
    <2> HIDE DEF c, n
    <2> TAKE i \in Slots
    <2>1. b.out_offs \in Slots /\ c.out_offs \in Slots
      BY <1>1, <1>3, MaxOpsAssumption DEF Slots
    <2>2. /\ SlotAt(c, i) = IF c.out_offs + i < MaxOps THEN c.out_offs + i
                            ELSE c.out_offs + i - MaxOps
          /\ SlotAt(b, i) = IF b.out_offs + i < MaxOps THEN b.out_offs + i
                            ELSE b.out_offs + i - MaxOps
      BY <2>1, SlotAtIsSlot
    <2> QED BY <1>1, <1>3, <2>2, MaxOpsAssumption DEF Slots
  <1>6. c.entry[SlotAt(c, n)] = e
    BY <1>1, <1>3, <1>5
  <1>7. \A i \in 0 .. (n - 1) : c.entry[SlotAt(c, i)] = b.entry[SlotAt(b, i)]
    BY <1>1, <1>3, <1>5, MaxOpsAssumption DEF Slots
  <1> QED BY <1>1, <1>4, <1>6, <1>7

\* Adding to a full ring: the oldest entry is gone, every other one is met one
\* position earlier, and the new one last.
LEMMA AddEntryShifts ==
  ASSUME NEW E, NEW b, Coherent(b, E), b.full, NEW e
  PROVE  LET c == AddEntry(b, e)
         IN  /\ EntryCount(b) = MaxOps
             /\ EntryCount(c) = MaxOps
             /\ \A i \in 0 .. (MaxOps - 2) : c.entry[SlotAt(c, i)] = b.entry[SlotAt(b, i + 1)]
             /\ c.entry[SlotAt(c, MaxOps - 1)] = e
             /\ BuffptrToFree(b) = b.entry[SlotAt(b, 0)].buffptr
  <1> DEFINE c == AddEntry(b, e)
  <1>1. /\ b.in_offs = b.out_offs /\ b.out_offs \in Slots /\ b.entry \in [Slots -> E]
        /\ EntryCount(b) = MaxOps
    BY CountOfCoherent DEF Coherent
  <1>2. /\ Advance(b.out_offs) \in Slots
        /\ Advance(b.out_offs) = IF b.out_offs + 1 = MaxOps THEN 0 ELSE b.out_offs + 1
    BY <1>1, AdvanceIsSlot
  <1>3. /\ c.out_offs = Advance(b.out_offs)
        /\ c.full
        /\ c.entry = [b.entry EXCEPT ![b.out_offs] = e]
    BY <1>1 DEF AddEntry
  <1>4. EntryCount(c) = MaxOps
    BY <1>3 DEF EntryCount, IsEmpty
  <1>5. \A i \in 0 .. (MaxOps - 2) :
          /\ SlotAt(c, i) = SlotAt(b, i + 1)
          /\ SlotAt(c, i) \in Slots
          /\ SlotAt(c, i) # b.out_offs
    <2> TAKE i \in 0 .. (MaxOps - 2)
    <2>1. i \in Slots /\ i + 1 \in Slots /\ c.out_offs \in Slots
      BY <1>2, <1>3, MaxOpsAssumption DEF Slots
    <2>2. /\ SlotAt(b, i + 1) = IF b.out_offs + (i + 1) < MaxOps THEN b.out_offs + (i + 1)
                                ELSE b.out_offs + (i + 1) - MaxOps
          /\ SlotAt(c, i) = IF c.out_offs + i < MaxOps THEN c.out_offs + i
                            ELSE c.out_offs + i - MaxOps
          /\ SlotAt(c, i) \in Slots
      BY <1>1, <2>1, SlotAtIsSlot
    <2> HIDE DEF c
    <2>3. CASE b.out_offs + 1 = MaxOps
      BY <1>1, <1>2, <1>3, <2>1, <2>2, <2>3, MaxOpsAssumption DEF Slots
    <2>4. CASE b.out_offs + 1 # MaxOps
      <3>1. c.out_offs = b.out_offs + 1 /\ b.out_offs \in 0 .. (MaxOps - 1)
        BY <1>1, <1>2, <1>3, <2>4 DEF Slots
      <3> QED BY <2>1, <2>2, <3>1, MaxOpsAssumption DEF Slots
    <2> QED BY <2>3, <2>4
  <1>6. SlotAt(c, MaxOps - 1) = b.out_offs
    <2>1. MaxOps - 1 \in Slots /\ c.out_offs \in Slots
      BY <1>2, <1>3, MaxOpsAssumption DEF Slots
    <2>2. SlotAt(c, MaxOps - 1) = IF c.out_offs + (MaxOps - 1) < MaxOps
                                  THEN c.out_offs + (MaxOps - 1)
                                  ELSE c.out_offs + (MaxOps - 1) - MaxOps
      BY <2>1, SlotAtIsSlot
    <2> QED BY <1>1, <1>2, <1>3, <2>2, MaxOpsAssumption DEF Slots
  <1>7. \A i \in 0 .. (MaxOps - 2) : c.entry[SlotAt(c, i)] = b.entry[SlotAt(b, i + 1)]
    BY <1>1, <1>3, <1>5
  <1>8. SlotAt(b, 0) = b.out_offs
    BY <1>1, SlotAtIsSlot, MaxOpsAssumption DEF Slots
  <1> QED BY <1>1, <1>3, <1>4, <1>6, <1>7, <1>8 DEF BuffptrToFree

----------------------------------------------------------------------------

\* T[i] is the number of bytes in the i oldest commands ("cumulative" in the C
\* loops), for a walk over n of them.
WalkTotals(T, b, n) ==
  /\ T \in [0 .. n -> Nat]
  /\ T[0] = 0
  /\ \A i \in 0 .. (n - 1) : T[i + 1] = T[i] + SizeAt(b, i)

\* The size of a command the walk meets is a number.
LEMMA SizeAtNat ==
  ASSUME NEW E, NEW b, Coherent(b, E), \A e \in E : e.size \in Nat, NEW i \in Slots
  PROVE  SizeAt(b, i) \in Nat
  <1>1. b.entry \in [Slots -> E] /\ b.out_offs \in Slots
    BY DEF Coherent
  <1>2. SlotAt(b, i) \in Slots
    BY <1>1, SlotAtIsSlot
  <1> QED BY <1>1, <1>2 DEF SizeAt

\* The running totals of a walk exist.
LEMMA WalkTotalsExist ==
  ASSUME NEW E, NEW b, NEW n, Coherent(b, E), \A e \in E : e.size \in Nat, n \in 0 .. MaxOps
  PROVE  \E T : WalkTotals(T, b, n)
  <1> DEFINE g == [m \in 1 .. n |-> [v \in Nat |-> v + SizeAt(b, m - 1)]]
  <1>1. n \in Nat /\ 0 \in Nat
    BY MaxOpsAssumption
  <1>2. \A m \in 1 .. n : SizeAt(b, m - 1) \in Nat
    BY SizeAtNat, MaxOpsAssumption DEF Slots
  <1>3. IsStep(g, Nat, n)
    BY <1>2 DEF IsStep
  <1>4. \A m \in 1 .. n : \A v \in Nat : g[m][v] = v + SizeAt(b, m - 1)
    OBVIOUS
  <1> HIDE DEF g
  <1>5. PICK T : Iterates(T, Nat, 0, n, g)
    BY <1>1, <1>3, RecursionExists
  <1>6. ASSUME NEW i \in 0 .. (n - 1) PROVE T[i + 1] = T[i] + SizeAt(b, i)
    <2>1. PICK m \in 1 .. n : m = i + 1
      BY <1>1
    <2>2. m - 1 = i /\ T[m - 1] \in Nat
      BY <1>1, <1>5, <2>1 DEF Iterates
    <2>3. T[m] = g[m][T[m - 1]]
      BY <1>5 DEF Iterates
    <2>4. T[m] = T[m - 1] + SizeAt(b, m - 1)
      BY <1>4, <2>2, <2>3
    <2> QED BY <2>1, <2>2, <2>4
  <1>7. WalkTotals(T, b, n)
    BY <1>5, <1>6 DEF WalkTotals, Iterates
  <1> QED BY <1>7

\* What find_entry_offset_for_fpos and find_seekto_fpos have added up when
\* they reach the i-th oldest command.
LEMMA SizeBeforeIsTotal ==
  ASSUME NEW E, NEW b, NEW n, NEW T, Coherent(b, E), \A e \in E : e.size \in Nat,
         n \in 0 .. MaxOps, WalkTotals(T, b, n), NEW i \in 0 .. n
  PROVE  SizeBefore(b, i) = T[i]
  <1>1. i \in Nat /\ n \in Nat /\ i <= n
    BY MaxOpsAssumption
  <1> DEFINE D == 0 .. (i - 1)
             F == [k \in D |-> SizeAt(b, k)]
             p == [k \in D |-> k]
             U == [k \in 0 .. i |-> T[k]]
             Sums(g) == g = [s \in SUBSET D |-> IF s = {} THEN 0
                               ELSE SizeAt(b, Chosen(s)) + g[s \ {Chosen(s)}]]
  <1>2. SizeBefore(b, i) = (CHOOSE g : Sums(g))[D]
    BY DEF SizeBefore, MapThenSumSet, MapThenFoldSet, Chosen
  <1>3. IsFiniteSet(D)
    BY <1>1, FS_Interval
  <1>4. F \in [D -> Nat]
    BY SizeAtNat, MaxOpsAssumption DEF Slots
  <1>5. \A s \in SUBSET D : s # {} => Chosen(s) \in s /\ F[Chosen(s)] = SizeAt(b, Chosen(s))
    BY DEF Chosen
  <1>6. Totals(U, F, D, p, i)
    <2>1. U \in [0 .. i -> Nat] /\ U[0] = 0
      BY <1>1 DEF WalkTotals
    <2>2. ASSUME NEW k \in 0 .. (i - 1) PROVE U[k + 1] = U[k] + F[p[k]]
      BY <1>1 DEF WalkTotals
    <2> QED BY <2>1, <2>2 DEF Totals
  <1>7. Met(p, i) = D
    BY DEF Met
  <1>8. ASSUME NEW g PROVE Sums(g) <=> SumsOver(g, F, D)
    <2> DEFINE A == [s \in SUBSET D |-> IF s = {} THEN 0 ELSE SizeAt(b, Chosen(s)) + g[s \ {Chosen(s)}]]
               B == [s \in SUBSET D |-> IF s = {} THEN 0 ELSE F[Chosen(s)] + g[s \ {Chosen(s)}]]
    <2>1. \A s \in SUBSET D : A[s] = B[s]
      <3> HIDE DEF F
      <3> QED BY <1>5
    <2>2. A = B
      BY <2>1
    <2> QED BY <2>2 DEF SumsOver
  <1> HIDE DEF F, Sums, p, U
  <1>9. \E g : Sums(g)
    BY <1>3, <1>4, <1>8, SumExists
  <1>10. PICK g : g = CHOOSE h : Sums(h)
    OBVIOUS
  <1>11. SumsOver(g, F, D)
    BY <1>8, <1>9, <1>10
  <1>12. g[Met(p, i)] = U[i]
    BY <1>1, <1>3, <1>4, <1>6, <1>11, SumAlong
  <1>13. U[i] = T[i]
    BY <1>1 DEF U
  <1> QED BY <1>2, <1>7, <1>10, <1>12, <1>13, Zenon

\* The slots that were never written are as aesd_circular_buffer_init left them.
RestIsNull(b) == ~b.full => \A s \in Slots : s >= b.in_offs => b.entry[s] = NullEntry

\* add_entry writes the first of them.
LEMMA AddEntryRest ==
  ASSUME NEW E, NEW b, Coherent(b, E), RestIsNull(b), NEW e
  PROVE  RestIsNull(AddEntry(b, e))
  <1> DEFINE c == AddEntry(b, e)
  <1>1. /\ b.in_offs \in Slots /\ b.out_offs \in Slots /\ b.full \in BOOLEAN
        /\ b.entry \in [Slots -> E] /\ (~b.full => b.out_offs = 0)
    BY DEF Coherent
  <1>2. /\ c.in_offs = Advance(b.in_offs)
        /\ c.entry = [b.entry EXCEPT ![b.in_offs] = e]
        /\ ~c.full => ~b.full /\ Advance(b.in_offs) # b.out_offs
    BY <1>1 DEF AddEntry
  <1>3. Advance(b.in_offs) = IF b.in_offs + 1 = MaxOps THEN 0 ELSE b.in_offs + 1
    BY <1>1, AdvanceIsSlot
  <1> HIDE DEF c
  <1>4. ASSUME ~c.full, NEW s \in Slots, s >= c.in_offs PROVE c.entry[s] = NullEntry
    <2>1. c.in_offs = b.in_offs + 1
      BY <1>1, <1>2, <1>3, <1>4
    <2>2. s >= b.in_offs /\ s # b.in_offs
      BY <1>1, <1>4, <2>1, MaxOpsAssumption DEF Slots
    <2> QED BY <1>1, <1>2, <1>4, <2>2 DEF RestIsNull
  <1>5. RestIsNull(c)
    BY <1>4 DEF RestIsNull
  <1> QED BY <1>5 DEF c

\* Every slot that holds a command is met by the walk from out_offs.
LEMMA WalkCovers ==
  ASSUME NEW E, NEW b, Coherent(b, E), RestIsNull(b),
         NEW s \in Slots, b.entry[s].buffptr # NoPtr
  PROVE  \E i \in 0 .. (EntryCount(b) - 1) : s = SlotAt(b, i)
  <1>1. /\ b.in_offs \in Slots /\ b.out_offs \in Slots /\ b.full \in BOOLEAN
        /\ ~b.full => b.out_offs = 0
    BY DEF Coherent
  <1>2. EntryCount(b) = IF b.full THEN MaxOps ELSE b.in_offs
    BY CountOfCoherent
  <1>3. \A i \in Slots : SlotAt(b, i) = IF b.out_offs + i < MaxOps THEN b.out_offs + i
                                        ELSE b.out_offs + i - MaxOps
    BY <1>1, SlotAtIsSlot
  <1>4. CASE b.full
    <2> DEFINE i == IF s >= b.out_offs THEN s - b.out_offs ELSE s - b.out_offs + MaxOps
    <2>1. i \in 0 .. (MaxOps - 1)
      BY <1>1, MaxOpsAssumption DEF Slots
    <2>2. SlotAt(b, i) = s
      BY <1>1, <1>3, <2>1, MaxOpsAssumption DEF Slots
    <2> QED BY <1>2, <1>4, <2>1, <2>2
  <1>5. CASE ~b.full
    <2>1. s < b.in_offs
      BY <1>1, <1>5, MaxOpsAssumption DEF RestIsNull, NullEntry, Slots
    <2>2. SlotAt(b, s) = s /\ s \in 0 .. (b.in_offs - 1)
      BY <1>1, <1>3, <1>5, <2>1, MaxOpsAssumption DEF Slots
    <2> QED BY <1>2, <1>5, <2>2
  <1> QED BY <1>1, <1>4, <1>5

\* The length that is summed over the slots is the total of the walk.
LEMMA GetLengthIsTotal ==
  ASSUME NEW E, NEW b, NEW n, NEW T, Coherent(b, E), \A e \in E : e.size \in Nat, RestIsNull(b),
         n = EntryCount(b), WalkTotals(T, b, n),
         \A i \in 0 .. (n - 1) : b.entry[SlotAt(b, i)].buffptr # NoPtr
  PROVE  GetLength(b) = T[n]
  <1> DEFINE D == {s \in Slots : b.entry[s].buffptr # NoPtr}
             F == [s \in D |-> b.entry[s].size]
             p == [k \in 0 .. (n - 1) |-> SlotAt(b, k)]
             Sums(g) == g = [s \in SUBSET D |-> IF s = {} THEN 0
                               ELSE b.entry[Chosen(s)].size + g[s \ {Chosen(s)}]]
  <1>1. GetLength(b) = (CHOOSE g : Sums(g))[D]
    BY DEF GetLength, MapThenSumSet, MapThenFoldSet, Chosen
  <1>2. /\ n \in 0 .. MaxOps /\ n \in Nat /\ 0 .. (n - 1) \subseteq Slots
        /\ b.entry \in [Slots -> E] /\ b.out_offs \in Slots
    BY CountOfCoherent, MaxOpsAssumption DEF Coherent
  <1>3. IsFiniteSet(D)
    <2>1. IsFiniteSet(Slots)
      BY FS_Interval, MaxOpsAssumption DEF Slots
    <2>2. D \in SUBSET Slots
      OBVIOUS
    <2> HIDE DEF D
    <2> QED BY <2>1, <2>2, FS_Subset
  <1>4. F \in [D -> Nat]
    BY <1>2
  <1>5. \A s \in SUBSET D : s # {} => Chosen(s) \in s /\ F[Chosen(s)] = b.entry[Chosen(s)].size
    BY DEF Chosen
  <1>6. Totals(T, F, D, p, n)
    <2>1. \A i \in 0 .. (n - 1) : SlotAt(b, i) \in D
      BY <1>2, SlotAtIsSlot
    <2>2. \A i, j \in 0 .. (n - 1) : SlotAt(b, i) = SlotAt(b, j) => i = j
      BY <1>2, SlotAtInjective
    <2>3. \A i \in 0 .. (n - 1) : T[i + 1] = T[i] + F[p[i]]
      BY <2>1 DEF WalkTotals, SizeAt
    <2>4. T \in [0 .. n -> Nat] /\ T[0] = 0
      BY DEF WalkTotals
    <2>5. p \in [0 .. (n - 1) -> D] /\ \A i, j \in 0 .. (n - 1) : p[i] = p[j] => i = j
      BY <2>1, <2>2
    <2> HIDE DEF D, F, p
    <2> QED BY <2>3, <2>4, <2>5 DEF Totals
  <1>7. Met(p, n) = D
    <2>1. \A i \in 0 .. (n - 1) : p[i] \in D
      BY <1>2, SlotAtIsSlot
    <2>2. \A s \in D : \E i \in 0 .. (n - 1) : s = p[i]
      BY WalkCovers
    <2> HIDE DEF D, p
    <2> QED BY <2>1, <2>2 DEF Met
  <1>8. ASSUME NEW g PROVE Sums(g) <=> SumsOver(g, F, D)
    <2> DEFINE A == [s \in SUBSET D |-> IF s = {} THEN 0
                        ELSE b.entry[Chosen(s)].size + g[s \ {Chosen(s)}]]
               B == [s \in SUBSET D |-> IF s = {} THEN 0 ELSE F[Chosen(s)] + g[s \ {Chosen(s)}]]
    <2> HIDE DEF D
    <2>1. \A s \in SUBSET D : A[s] = B[s]
      <3> HIDE DEF F
      <3> QED BY <1>5
    <2>2. A = B
      BY <2>1
    <2> QED BY <2>2 DEF SumsOver
  <1> HIDE DEF D, F, Sums, p
  <1>9. \E g : Sums(g)
    BY <1>3, <1>4, <1>8, SumExists
  <1>10. PICK g : g = CHOOSE h : Sums(h)
    OBVIOUS
  <1>11. SumsOver(g, F, D)
    BY <1>8, <1>9, <1>10
  <1>12. g[Met(p, n)] = T[n]
    BY <1>2, <1>3, <1>4, <1>6, <1>11, SumAlong
  <1> QED BY <1>1, <1>7, <1>10, <1>12, Zenon

\* The length is a number, whatever is in the slots (aesd_circular_buffer_get_length).
LEMMA GetLengthNat ==
  ASSUME NEW E, NEW b, Coherent(b, E), \A e \in E : e.size \in Nat
  PROVE  GetLength(b) \in Nat
  <1> DEFINE D == {s \in Slots : b.entry[s].buffptr # NoPtr}
             F == [s \in D |-> b.entry[s].size]
             Sums(g) == g = [s \in SUBSET D |-> IF s = {} THEN 0
                               ELSE b.entry[Chosen(s)].size + g[s \ {Chosen(s)}]]
  <1>1. GetLength(b) = (CHOOSE g : Sums(g))[D]
    BY DEF GetLength, MapThenSumSet, MapThenFoldSet, Chosen
  <1>2. IsFiniteSet(D)
    <2>1. IsFiniteSet(Slots)
      BY FS_Interval, MaxOpsAssumption DEF Slots
    <2>2. D \in SUBSET Slots
      OBVIOUS
    <2> HIDE DEF D
    <2> QED BY <2>1, <2>2, FS_Subset
  <1>3. F \in [D -> Nat]
    BY DEF Coherent
  <1>4. \A s \in SUBSET D : s # {} => F[Chosen(s)] = b.entry[Chosen(s)].size
    BY DEF Chosen
  <1>5. ASSUME NEW g PROVE Sums(g) <=> SumsOver(g, F, D)
    <2> DEFINE A == [s \in SUBSET D |-> IF s = {} THEN 0
                        ELSE b.entry[Chosen(s)].size + g[s \ {Chosen(s)}]]
               B == [s \in SUBSET D |-> IF s = {} THEN 0 ELSE F[Chosen(s)] + g[s \ {Chosen(s)}]]
    <2> HIDE DEF D
    <2>1. \A s \in SUBSET D : A[s] = B[s]
      <3> HIDE DEF F
      <3> QED BY <1>4
    <2>2. A = B
      BY <2>1
    <2> QED BY <2>2 DEF SumsOver
  <1> HIDE DEF D, F, Sums
  <1>6. \E g : Sums(g)
    BY <1>2, <1>3, <1>5, SumExists
  <1>7. PICK g : g = CHOOSE h : Sums(h)
    OBVIOUS
  <1>8. SumsOver(g, F, D)
    BY <1>5, <1>6, <1>7
  <1>9. g[D] \in Nat
    BY <1>2, <1>3, <1>8, SumStep
  <1> QED BY <1>1, <1>7, <1>9, Zenon

\* Where a command begins is a number (num_bytes of find_seekto_fpos).
LEMMA SizeBeforeNat ==
  ASSUME NEW E, NEW b, NEW i, Coherent(b, E), \A e \in E : e.size \in Nat, i \in 0 .. MaxOps
  PROVE  SizeBefore(b, i) \in Nat
  <1>1. PICK T : WalkTotals(T, b, i)
    BY WalkTotalsExist
  <1>2. i \in 0 .. i
    BY MaxOpsAssumption
  <1>3. SizeBefore(b, i) = T[i]
    BY <1>1, <1>2, SizeBeforeIsTotal
  <1> QED BY <1>1, <1>2, <1>3 DEF WalkTotals

\* A seek that is not refused leads to a natural position, for every command and
\* offset, the command after the last one included.
LEMMA FindSeektoNat ==
  ASSUME NEW E, NEW b, NEW c, NEW o, Coherent(b, E), \A e \in E : e.size \in Nat,
         c \in Nat, o \in Nat, FindSeekto(b, c, o) # -1
  PROVE  FindSeekto(b, c, o) \in Nat
  <1>1. /\ ~ (c > EntryCount(b))
        /\ FindSeekto(b, c, o) = SizeBefore(b, c) + o
    BY DEF FindSeekto
  <1>2. EntryCount(b) \in 0 .. MaxOps
    BY CountOfCoherent
  <1>3. c \in 0 .. MaxOps
    BY <1>1, <1>2, MaxOpsAssumption
  <1>4. SizeBefore(b, c) \in Nat
    BY <1>3, SizeBeforeNat
  <1> QED BY <1>1, <1>4

\* The totals do not decrease, and every offset before the last lies in a command.
Growing(T, b, n) ==
  /\ n \in Nat /\ 0 .. (n - 1) \subseteq Slots
  /\ \A j \in 0 .. n : \A i \in 0 .. j : T[i] <= T[j]
  /\ \A i \in 0 .. (n - 1) : /\ T[i] \in Nat /\ T[i + 1] \in Nat /\ SizeAt(b, i) \in Nat
                             /\ T[i + 1] = T[i] + SizeAt(b, i)
  /\ \A off \in Nat : off < T[n] => \E i \in 0 .. (n - 1) : T[i] <= off /\ off < T[i + 1]

\* So it is with a walk over the whole ring.
LEMMA WalkTotalsGrow ==
  ASSUME NEW E, NEW b, NEW n, NEW T, Coherent(b, E), \A e \in E : e.size \in Nat,
         n = EntryCount(b), WalkTotals(T, b, n)
  PROVE  Growing(T, b, n)
  <1>1. n \in Nat /\ 0 .. (n - 1) \subseteq Slots
    BY CountOfCoherent, MaxOpsAssumption
  <1>2. T \in [0 .. n -> Nat] /\ T[0] = 0
    BY DEF WalkTotals
  <1>3. \A i \in 0 .. (n - 1) : /\ T[i] \in Nat /\ T[i + 1] \in Nat /\ SizeAt(b, i) \in Nat
                                /\ T[i + 1] = T[i] + SizeAt(b, i)
    <2> TAKE i \in 0 .. (n - 1)
    <2>1. i \in 0 .. n /\ i + 1 \in 0 .. n
      BY <1>1
    <2>2. SizeAt(b, i) \in Nat
      BY <1>1, SizeAtNat
    <2> QED BY <1>2, <2>1, <2>2 DEF WalkTotals
  <1>4. \A i \in 1 .. n : T[i] >= T[i - 1]
    <2> TAKE i \in 1 .. n
    <2>1. PICK k \in 0 .. (n - 1) : k = i - 1 /\ k + 1 = i
      BY <1>1
    <2> QED BY <1>3, <2>1
  <1>5. /\ \A j \in 0 .. n : \A i \in 0 .. j : T[i] <= T[j]
        /\ \A off \in Nat : T[0] <= off /\ off < T[n] =>
             \E i \in 1 .. n : T[i - 1] <= off /\ off < T[i]
    BY <1>1, <1>2, <1>4, RunningTotals
  <1>6. ASSUME NEW off \in Nat, off < T[n]
        PROVE  \E i \in 0 .. (n - 1) : T[i] <= off /\ off < T[i + 1]
    <2>1. PICK i \in 1 .. n : T[i - 1] <= off /\ off < T[i]
      BY <1>2, <1>5, <1>6
    <2>2. PICK k \in 0 .. (n - 1) : k = i - 1 /\ k + 1 = i
      BY <1>1
    <2> QED BY <2>1, <2>2
  <1> QED BY <1>1, <1>3, <1>5, <1>6 DEF Growing

\* The result of a lookup, told by the totals of the walk.
FindsByTotals(T, b, n, off) ==
  /\ off >= T[n] => FindEntryOffset(b, off) = {}
  /\ \A i \in 0 .. (n - 1) : T[i] <= off /\ off < T[i + 1] =>
       FindEntryOffset(b, off) = {[slot |-> SlotAt(b, i), byte |-> off - T[i]]}

\* A lookup finds the one command whose bytes include the offset, and the
\* place of the offset in it (aesd_circular_buffer_find_entry_offset_for_fpos).
LEMMA FindEntryIs ==
  ASSUME NEW E, NEW b, NEW n, NEW T, NEW off, Coherent(b, E), \A e \in E : e.size \in Nat,
         n = EntryCount(b), WalkTotals(T, b, n), off \in Nat
  PROVE  FindsByTotals(T, b, n, off)
  <1>1. /\ n \in Nat /\ n \in 0 .. MaxOps
        /\ \A j \in 0 .. n : \A i \in 0 .. j : T[i] <= T[j]
        /\ \A i \in 0 .. (n - 1) : /\ T[i] \in Nat /\ T[i + 1] \in Nat /\ SizeAt(b, i) \in Nat
                                   /\ T[i + 1] = T[i] + SizeAt(b, i)
    <2>1. n \in 0 .. MaxOps
      BY CountOfCoherent
    <2>2. /\ n \in Nat
          /\ \A j \in 0 .. n : \A i \in 0 .. j : T[i] <= T[j]
          /\ \A i \in 0 .. (n - 1) : /\ T[i] \in Nat /\ T[i + 1] \in Nat /\ SizeAt(b, i) \in Nat
                                     /\ T[i + 1] = T[i] + SizeAt(b, i)
      <3>1. Growing(T, b, n)
        BY WalkTotalsGrow
      <3> QED BY <3>1 DEF Growing
    <2> QED BY <2>1, <2>2
  <1> DEFINE hits == {i \in 0 .. (n - 1) : T[i] <= off /\ off < T[i + 1]}
  <1>2. \A i \in 0 .. (n - 1) : SizeBefore(b, i) = T[i]
    <2> TAKE i \in 0 .. (n - 1)
    <2>1. i \in 0 .. n
      BY <1>1
    <2> QED BY <1>1, <2>1, SizeBeforeIsTotal
  <1>3. \A i \in 0 .. (n - 1) :
          off - SizeBefore(b, i) \in 0 .. (SizeAt(b, i) - 1) <=> T[i] <= off /\ off < T[i + 1]
    BY <1>1, <1>2
  <1>4. FindEntryOffset(b, off) = {[slot |-> SlotAt(b, i), byte |-> off - T[i]] : i \in hits}
    BY <1>2, <1>3 DEF FindEntryOffset
  <1>5. ASSUME off >= T[n], NEW i \in hits PROVE FALSE
    <2>1. i + 1 \in 0 .. n /\ n \in 0 .. n /\ i + 1 \in 0 .. n
      BY <1>1
    <2>2. T[i + 1] <= T[n] /\ off < T[i + 1] /\ T[i + 1] \in Nat /\ T[n] \in Nat
      BY <1>1, <2>1 DEF WalkTotals
    <2> QED BY <1>5, <2>2
  <1>6. ASSUME NEW i \in hits, NEW j \in hits PROVE i = j
    <2>1. ASSUME NEW x \in hits, NEW y \in hits, x < y PROVE FALSE
      <3>1. y \in 0 .. n /\ x + 1 \in 0 .. y
        BY <1>1, <2>1
      <3>2. T[x + 1] <= T[y]
        BY <1>1, <3>1
      <3>3. off < T[x + 1] /\ T[y] <= off /\ T[x + 1] \in Nat /\ T[y] \in Nat
        BY <1>1
      <3> QED BY <3>2, <3>3
    <2>2. i \in Int /\ j \in Int
      BY <1>1
    <2> HIDE DEF hits
    <2> QED BY <2>1, <2>2
  <1>7. ASSUME off >= T[n] PROVE FindEntryOffset(b, off) = {}
    <2>1. hits = {}
      BY <1>5, <1>7
    <2> HIDE DEF hits
    <2> QED BY <1>4, <2>1
  <1>8. ASSUME NEW i \in 0 .. (n - 1), T[i] <= off, off < T[i + 1]
        PROVE  FindEntryOffset(b, off) = {[slot |-> SlotAt(b, i), byte |-> off - T[i]]}
    <2>1. i \in hits
      BY <1>8
    <2> HIDE DEF hits
    <2>2. hits = {i}
      BY <1>6, <2>1
    <2> QED BY <1>4, <2>2
  <1> QED BY <1>7, <1>8 DEF FindsByTotals

\* A seek goes to the place of the command plus the offset in it
\* (aesd_circular_buffer_find_seekto_fpos).
LEMMA FindSeektoIs ==
  ASSUME NEW E, NEW b, NEW n, NEW T, Coherent(b, E), \A e \in E : e.size \in Nat,
         n = EntryCount(b), WalkTotals(T, b, n), NEW c \in 0 .. (n - 1), NEW o \in Nat
  PROVE  FindSeekto(b, c, o) = IF o > SizeAt(b, c) THEN -1 ELSE T[c] + o
  <1>1. n \in Nat /\ n \in 0 .. MaxOps /\ c \in 0 .. n /\ ~ (c > n) /\ n # 0
    BY CountOfCoherent, MaxOpsAssumption
  <1>2. ~ IsEmpty(b)
    BY <1>1 DEF EntryCount
  <1>3. SizeBefore(b, c) = T[c]
    BY <1>1, SizeBeforeIsTotal
  <1> QED BY <1>1, <1>2, <1>3 DEF FindSeekto

\* A whole turn of the ring leads back to where it began.
LEMMA WholeTurn ==
  ASSUME NEW N \in Nat \ {0}, NEW x \in 0 .. (N - 1)
  PROVE  (x + N) % N = x /\ (x + 0) % N = x
  OBVIOUS

\* What the slot after the newest command holds: the oldest command once the
\* ring is full, and nothing before.
LEMMA SizeAtEnd ==
  ASSUME NEW E, NEW b, Coherent(b, E), RestIsNull(b)
  PROVE  SizeAt(b, EntryCount(b)) = IF b.full THEN SizeAt(b, 0) ELSE 0
  <1>1. /\ b.in_offs \in Slots /\ b.out_offs \in 0 .. (MaxOps - 1)
        /\ b.full \in BOOLEAN /\ (~b.full => b.out_offs = 0)
    BY DEF Coherent, Slots
  <1>2. EntryCount(b) = IF b.full THEN MaxOps ELSE b.in_offs
    BY CountOfCoherent
  <1>3. MaxOps \in Nat \ {0}
    BY MaxOpsAssumption
  <1>4. CASE b.full
    <2>1. (b.out_offs + MaxOps) % MaxOps = (b.out_offs + 0) % MaxOps
      BY <1>1, <1>3, WholeTurn
    <2>2. SizeAt(b, MaxOps) = SizeAt(b, 0)
      BY <2>1 DEF SizeAt, SlotAt
    <2> QED BY <1>2, <1>4, <2>2
  <1>5. CASE ~b.full
    <2>1. b.out_offs \in Slots /\ b.in_offs \in Nat /\ b.out_offs = 0
      BY <1>1, <1>3, <1>5 DEF Slots
    <2>2. SlotAt(b, b.in_offs) = b.in_offs
      BY <1>1, <2>1, SlotAtIsSlot, MaxOpsAssumption DEF Slots
    <2>3. b.entry[b.in_offs] = NullEntry
      BY <1>1, <1>5, <2>1 DEF RestIsNull
    <2> QED BY <1>2, <1>5, <2>2, <2>3 DEF SizeAt, NullEntry
  <1> QED BY <1>1, <1>4, <1>5

\* A seek to the command after the newest one counts from the end of the data
\* ("write_cmd > num_iterations" lets it through).
LEMMA FindSeektoAtEnd ==
  ASSUME NEW E, NEW b, NEW n, NEW T, NEW o, Coherent(b, E), \A e \in E : e.size \in Nat,
         n = EntryCount(b), WalkTotals(T, b, n), FindSeekto(b, n, o) # -1
  PROVE  n # 0 /\ ~ (o > SizeAt(b, n)) /\ FindSeekto(b, n, o) = T[n] + o
  <1>1. /\ ~ IsEmpty(b) /\ ~ (o > SizeAt(b, n))
        /\ FindSeekto(b, n, o) = SizeBefore(b, n) + o
    BY DEF FindSeekto
  <1>2. n \in 0 .. MaxOps /\ n \in 0 .. n
    BY CountOfCoherent, MaxOpsAssumption
  <1>3. SizeBefore(b, n) = T[n]
    BY <1>2, SizeBeforeIsTotal
  <1>4. n # 0
    <2>1. n = IF b.full THEN MaxOps ELSE b.in_offs
      BY CountOfCoherent
    <2>2. /\ b.full \in BOOLEAN /\ (~b.full => b.out_offs = 0)
          /\ b.full \/ b.in_offs # b.out_offs
      BY <1>1 DEF Coherent, IsEmpty
    <2> QED BY <2>1, <2>2, MaxOpsAssumption
  <1> QED BY <1>1, <1>3, <1>4
=============================================================================
