-------------------------- MODULE CommandRingProofs --------------------------
(***************************************************************************)
(* The command ring remembers the last MaxOps commands in order, for every *)
(* number of slots, every set of sizes and every number of additions.      *)
(***************************************************************************)
EXTENDS CommandRing, CircularBufferLemmas

AnyEntry == Entries \cup {NullEntry}

\* RetainsLast is not inductive: that the next write goes to the slot after
\* the newest command, and that the ring is full exactly when MaxOps commands
\* have been added, is what carries it over a wraparound.
RingInv ==
  /\ Coherent(buffer, AnyEntry)
  /\ RestIsNull(buffer)
  /\ replaced \in (1 .. MaxAdds) \cup {NoPtr}
  /\ added \in Seq(Entries)
  /\ buffer.full <=> Len(added) >= MaxOps
  /\ ~buffer.full => buffer.in_offs = Len(added)
  /\ RetainsLast

\* The history grows at its end, and keeps what it held.
LEMMA AppendFacts ==
  ASSUME NEW S, NEW s \in Seq(S), NEW e \in S
  PROVE  /\ Append(s, e) \in Seq(S)
         /\ Len(Append(s, e)) = Len(s) + 1
         /\ \A i \in 1 .. Len(s) : Append(s, e)[i] = s[i]
         /\ Append(s, e)[Len(s) + 1] = e
  OBVIOUS

\* aesd_circular_buffer_init leaves an empty, coherent buffer.
LEMMA InitRingInv == Init => RingInv
  <1> SUFFICES ASSUME Init PROVE RingInv
    OBVIOUS
  <1>1. Coherent(buffer, AnyEntry)
    BY MaxOpsAssumption DEF Init, Coherent, EmptyBuffer, AnyEntry, Slots
  <1>2. added = <<>> /\ Len(added) = 0 /\ ~buffer.full /\ buffer.in_offs = 0
    BY DEF Init, EmptyBuffer
  <1>3. EntryCount(buffer) = 0
    BY DEF Init, EmptyBuffer, EntryCount, IsEmpty
  <1>4. RetainsLast
    BY <1>2, <1>3, MaxOpsAssumption DEF RetainsLast, Kept
  <1>5. RestIsNull(buffer)
    BY DEF Init, RestIsNull, EmptyBuffer
  <1> QED BY <1>1, <1>2, <1>4, <1>5, MaxOpsAssumption DEF RingInv, Init

\* One call of add_entry keeps the invariant: a new command while there is
\* room, or in the place of the oldest one.
LEMMA NextRingInv == RingInv /\ [Next]_vars => RingInv'
  <1> SUFFICES ASSUME RingInv, [Next]_vars PROVE RingInv'
    OBVIOUS
  <1>1. ASSUME NEW size \in Sizes, Add(size) PROVE RingInv'
    <2> DEFINE e == [buffptr |-> Len(added) + 1, size |-> size]
               n == Len(added)
    <2>1. /\ n \in Nat /\ n < MaxAdds /\ MaxAdds \in Nat
          /\ buffer' = AddEntry(buffer, e)
          /\ replaced' = BuffptrToFree(buffer)
          /\ added' = Append(added, e)
          /\ added \in Seq(Entries)
      BY <1>1, MaxAddsAssumption DEF Add, RingInv
    <2>2. e \in Entries /\ e \in AnyEntry
      BY <2>1 DEF Entries, AnyEntry
    <2>3. Coherent(buffer', AnyEntry) /\ RestIsNull(buffer')
      BY <2>1, <2>2, AddEntryCoherent, AddEntryRest DEF RingInv
    <2>4. /\ added' \in Seq(Entries)
          /\ Len(added') = n + 1
          /\ \A i \in 1 .. n : added'[i] = added[i]
          /\ added'[n + 1] = e
      BY <2>1, <2>2, AppendFacts
    <2>5. /\ buffer.full => AddEntry(buffer, e).full
          /\ ~buffer.full => (AddEntry(buffer, e).full <=> Advance(buffer.in_offs) = buffer.out_offs)
          /\ AddEntry(buffer, e).in_offs = Advance(buffer.in_offs)
      BY DEF AddEntry, RingInv, Coherent
    <2> HIDE DEF e, n
    <2>6. CASE ~buffer.full
      <3>1. /\ buffer.in_offs = n /\ buffer.out_offs = 0 /\ n < MaxOps /\ n \in Slots
            /\ EntryCount(buffer) = n /\ Kept = n
        BY <2>1, <2>6, CountOfCoherent, MaxOpsAssumption DEF RingInv, Coherent, Kept, n, RetainsLast
      <3>2. Advance(n) = IF n + 1 = MaxOps THEN 0 ELSE n + 1
        BY <3>1, AdvanceIsSlot
      <3>3. /\ EntryCount(buffer') = n + 1
            /\ \A i \in 0 .. (n - 1) :
                 buffer'.entry[SlotAt(buffer', i)] = buffer.entry[SlotAt(buffer, i)]
            /\ buffer'.entry[SlotAt(buffer', n)] = e
        BY <2>1, <2>6, <3>1, AddEntryAppends DEF RingInv
      <3>4. Kept' = n + 1
        <4>1. n + 1 < MaxOps \/ n + 1 = MaxOps
          BY <2>1, <3>1, MaxOpsAssumption
        <4> QED BY <2>4, <4>1, MaxOpsAssumption DEF Kept
      <3>5. \A i \in 0 .. (n - 1) : buffer.entry[SlotAt(buffer, i)] = added[i + 1]
        BY <2>1, <3>1 DEF RingInv, RetainsLast, Retained, n
      <3>6. RetainsLast'
        <4>1. \A i \in 0 .. n : Retained(i)' = added'[i + 1]
          BY <2>1, <2>4, <3>4 DEF Retained
        <4>2. \A i \in 0 .. n : buffer'.entry[SlotAt(buffer', i)] = added'[i + 1]
          BY <2>1, <2>4, <3>3, <3>5
        <4>3. 0 .. (Kept' - 1) = 0 .. n
          BY <2>1, <3>4 DEF n
        <4>4. \A i \in 0 .. (Kept' - 1) : buffer'.entry[SlotAt(buffer', i)] = Retained(i)'
          BY <4>1, <4>2, <4>3
        <4> QED BY <3>3, <3>4, <4>4 DEF RetainsLast
      <3>7. /\ buffer'.full <=> Len(added') >= MaxOps
            /\ ~buffer'.full => buffer'.in_offs = Len(added')
        BY <2>1, <2>4, <2>5, <2>6, <3>1, <3>2, MaxOpsAssumption
      <3>8. replaced' = NoPtr
        BY <2>1, <2>6 DEF BuffptrToFree
      <3> QED BY <2>3, <2>4, <3>6, <3>7, <3>8 DEF RingInv
    <2>7. CASE buffer.full
      <3>1. /\ n >= MaxOps /\ Kept = MaxOps /\ MaxOps \in Nat \ {0}
            /\ buffer'.full
        BY <2>1, <2>5, <2>7, MaxOpsAssumption DEF RingInv, Kept, n
      <3>2. /\ EntryCount(buffer') = MaxOps
            /\ \A i \in 0 .. (MaxOps - 2) :
                 buffer'.entry[SlotAt(buffer', i)] = buffer.entry[SlotAt(buffer, i + 1)]
            /\ buffer'.entry[SlotAt(buffer', MaxOps - 1)] = e
            /\ replaced' = buffer.entry[SlotAt(buffer, 0)].buffptr
        BY <2>1, <2>7, AddEntryShifts DEF RingInv
      <3>3. Kept' = MaxOps
        BY <2>1, <2>4, <3>1 DEF Kept
      <3>4. \A i \in 0 .. (MaxOps - 1) :
              buffer.entry[SlotAt(buffer, i)] = added[n - MaxOps + i + 1]
        BY <2>1, <3>1 DEF RingInv, RetainsLast, Retained, n
      <3>5. RetainsLast'
        <4>1. \A i \in 0 .. (MaxOps - 1) : Retained(i)' = added'[n + 1 - MaxOps + i + 1]
          BY <2>1, <2>4, <3>1, <3>3 DEF Retained, n
        <4>2. \A i \in 0 .. (MaxOps - 2) :
                buffer'.entry[SlotAt(buffer', i)] = added'[n + 1 - MaxOps + i + 1]
          <5> TAKE i \in 0 .. (MaxOps - 2)
          <5>1. /\ i + 1 \in 0 .. (MaxOps - 1)
                /\ n - MaxOps + (i + 1) + 1 \in 1 .. n
                /\ n - MaxOps + (i + 1) + 1 = n + 1 - MaxOps + i + 1
            BY <2>1, <3>1
          <5>2. buffer.entry[SlotAt(buffer, i + 1)] = added[n - MaxOps + (i + 1) + 1]
            BY <3>4, <5>1
          <5> QED BY <2>4, <3>2, <5>1, <5>2
        <4>3. buffer'.entry[SlotAt(buffer', MaxOps - 1)] = added'[n + 1 - MaxOps + (MaxOps - 1) + 1]
          BY <2>1, <2>4, <3>1, <3>2
        <4>4. \A i \in 0 .. (MaxOps - 1) :
                buffer'.entry[SlotAt(buffer', i)] = added'[n + 1 - MaxOps + i + 1]
          BY <3>1, <4>2, <4>3
        <4> QED BY <3>2, <3>3, <4>1, <4>4 DEF RetainsLast
      <3>6. replaced' \in 1 .. MaxAdds
        <4>1. 0 \in 0 .. (MaxOps - 1) /\ n - MaxOps + 0 + 1 \in 1 .. n
          BY <2>1, <3>1
        <4>2. replaced' = added[n - MaxOps + 0 + 1].buffptr
          BY <3>2, <3>4, <4>1
        <4>3. added[n - MaxOps + 0 + 1] \in Entries
          BY <2>1, <4>1 DEF n
        <4> QED BY <4>2, <4>3 DEF Entries
      <3> QED BY <2>1, <2>3, <2>4, <3>1, <3>5, <3>6 DEF RingInv
    <2> QED BY <2>6, <2>7
  <1>2. CASE UNCHANGED vars
    BY <1>2 DEF RingInv, vars, RetainsLast, Kept, Retained
  <1> QED BY <1>1, <1>2 DEF Next

\* The ring always holds exactly the last MaxOps commands, oldest first
\* (aesd_circular_buffer_add_entry).
THEOREM RingRetainsLast == Spec => []RetainsLast
  <1>1. RingInv => RetainsLast
    BY DEF RingInv
  <1> QED BY InitRingInv, NextRingInv, <1>1, PTL DEF Spec

\* Type correctness of the ring: the indexes stay inside the array.
THEOREM RingTypeCorrect == Spec => []TypeOK
  <1>1. RingInv => TypeOK
    BY DEF RingInv, TypeOK, Coherent, AnyEntry
  <1> QED BY InitRingInv, NextRingInv, <1>1, PTL DEF Spec

\* What add_entry returns for kfree is the block of the command that leaves
\* the ring, and no other.
THEOREM RingFreesTheOldest == Spec => FreesTheOldest
  <1> DEFINE A == replaced' = IF Len(added) < MaxOps THEN NoPtr ELSE Retained(0).buffptr
  <1>1. RingInv /\ [Next]_vars => [A]_vars
    <2> SUFFICES ASSUME RingInv, NEW size \in Sizes, Add(size) PROVE A
      BY DEF Next
    <2>1. replaced' = BuffptrToFree(buffer) /\ Len(added) \in Nat
      BY DEF Add, RingInv
    <2>2. CASE ~buffer.full
      <3>1. BuffptrToFree(buffer) = NoPtr
        BY <2>2 DEF BuffptrToFree
      <3>2. Len(added) < MaxOps
        BY <2>1, <2>2, MaxOpsAssumption DEF RingInv
      <3> QED BY <2>1, <3>1, <3>2
    <2>3. CASE buffer.full
      <3>1. BuffptrToFree(buffer) = buffer.entry[SlotAt(buffer, 0)].buffptr
        BY <2>3, AddEntryShifts DEF RingInv
      <3>2. Len(added) >= MaxOps /\ Kept = MaxOps /\ 0 \in 0 .. (Kept - 1)
        BY <2>1, <2>3, MaxOpsAssumption DEF RingInv, Kept
      <3>3. buffer.entry[SlotAt(buffer, 0)] = Retained(0)
        BY <3>2 DEF RingInv, RetainsLast
      <3> QED BY <2>1, <3>1, <3>2, <3>3, MaxOpsAssumption
    <2> QED BY <2>2, <2>3
  <1> QED BY InitRingInv, NextRingInv, <1>1, PTL DEF Spec, FreesTheOldest

----------------------------------------------------------------------------

\* The bytes of one command, as ConcatBytes lays them out.
BytesOf(e) == [j \in 1 .. e.size |-> <<e.buffptr, j - 1>>]

Parts == [i \in 1 .. Kept |-> BytesOf(Retained(i - 1))]

ByteCells == (1 .. MaxAdds) \X Nat

\* What the ring holds, in the shape the lemmas about sums and walks need.
LEMMA RingFacts ==
  ASSUME RingInv
  PROVE  /\ Coherent(buffer, AnyEntry)
         /\ \A e \in AnyEntry : e.size \in Nat
         /\ RestIsNull(buffer)
         /\ Kept = EntryCount(buffer) /\ Kept \in Nat
         /\ \A i \in 0 .. (Kept - 1) :
              /\ buffer.entry[SlotAt(buffer, i)] = Retained(i)
              /\ Retained(i) \in Entries
              /\ Retained(i).size = SizeAt(buffer, i)
              /\ Retained(i).size \in Nat
              /\ Retained(i).buffptr \in 1 .. MaxAdds
              /\ Retained(i).buffptr # NoPtr
  <1>1. \A e \in AnyEntry : e.size \in Nat
    <2>1. \A e \in Entries : e.size \in Nat
      BY SizesAssumption DEF Entries
    <2>2. NullEntry.size \in Nat
      BY DEF NullEntry
    <2> QED BY <2>1, <2>2 DEF AnyEntry
  <1>2. Kept \in Nat /\ Kept <= Len(added) /\ Len(added) \in Nat
    BY MaxOpsAssumption DEF RingInv, Kept
  <1>3. \A i \in 0 .. (Kept - 1) : Retained(i) \in Entries
    <2> TAKE i \in 0 .. (Kept - 1)
    <2>1. PICK k \in 1 .. Len(added) : k = Len(added) - Kept + i + 1
      <3>1. Len(added) - Kept + i + 1 \in 1 .. Len(added)
        BY <1>2
      <3> QED BY <3>1
    <2>2. added[k] \in Entries
      BY DEF RingInv
    <2> QED BY <2>1, <2>2 DEF Retained
  <1>4. \A e \in Entries : e.size \in Nat /\ e.buffptr \in 1 .. MaxAdds /\ e.buffptr # NoPtr
    BY SizesAssumption, MaxAddsAssumption DEF Entries
  <1>5. /\ EntryCount(buffer) = Kept
        /\ \A i \in 0 .. (Kept - 1) : buffer.entry[SlotAt(buffer, i)] = Retained(i)
    BY DEF RingInv, RetainsLast
  <1>6. Coherent(buffer, AnyEntry) /\ RestIsNull(buffer)
    BY DEF RingInv
  <1> QED BY <1>1, <1>2, <1>3, <1>4, <1>5, <1>6 DEF SizeAt

\* The concatenation has the layout of a walk: the totals of the sizes are
\* where the commands begin.
LEMMA ConcatLayout ==
  ASSUME RingInv
  PROVE  \E L : /\ WalkTotals(L, buffer, Kept)
                /\ Len(ConcatBytes) = L[Kept]
                /\ \A i \in 0 .. (Kept - 1) : \A o \in 0 .. (Retained(i).size - 1) :
                     ConcatBytes[L[i] + o + 1] = <<Retained(i).buffptr, o>>
  <1>1. /\ Kept \in Nat
        /\ \A i \in 0 .. (Kept - 1) : /\ Retained(i).size = SizeAt(buffer, i)
                                      /\ Retained(i).size \in Nat
                                      /\ Retained(i).buffptr \in 1 .. MaxAdds
    BY RingFacts
  <1>2. ConcatBytes = FlattenSeq(Parts)
    BY DEF ConcatBytes, Parts, BytesOf
  <1>3. \A i \in 1 .. Kept : /\ Parts[i] = BytesOf(Retained(i - 1))
                             /\ Parts[i] \in Seq(ByteCells)
                             /\ Len(Parts[i]) = Retained(i - 1).size
    <2> TAKE i \in 1 .. Kept
    <2>1. PICK k \in 0 .. (Kept - 1) : k = i - 1
      BY <1>1
    <2>2. /\ Retained(k).size \in Nat /\ Retained(k).buffptr \in 1 .. MaxAdds
      BY <1>1
    <2>3. BytesOf(Retained(k)) \in [1 .. Retained(k).size -> ByteCells]
      BY <2>2 DEF BytesOf, ByteCells
    <2>4. BytesOf(Retained(k)) \in Seq(ByteCells) /\ Len(BytesOf(Retained(k))) = Retained(k).size
      <3>1. PICK w : w = BytesOf(Retained(k))
        OBVIOUS
      <3>2. w \in [1 .. Retained(k).size -> ByteCells]
        BY <2>3, <3>1
      <3>3. w \in Seq(ByteCells) /\ Len(w) = Retained(k).size
        BY <2>2, <3>2
      <3> QED BY <3>1, <3>3
    <2>5. Parts[i] = BytesOf(Retained(i - 1))
      BY DEF Parts
    <2> QED BY <2>1, <2>4, <2>5
  <1>4. Parts \in Seq(Seq(ByteCells)) /\ Len(Parts) = Kept
    <2>1. Parts = [i \in 1 .. Kept |-> Parts[i]]
      BY DEF Parts
    <2>2. PICK w : w = Parts
      OBVIOUS
    <2>3. w \in [1 .. Kept -> Seq(ByteCells)]
      BY <1>3, <2>1, <2>2
    <2>4. w \in Seq(Seq(ByteCells)) /\ Len(w) = Kept
      BY <1>1, <2>3
    <2> QED BY <2>2, <2>4
  <1>5. PICK L : Layout(L, Parts, Kept, ConcatBytes)
    BY <1>2, <1>4, FlattenLayout
  <1>6. WalkTotals(L, buffer, Kept)
    <2>1. L \in [0 .. Kept -> Nat] /\ L[0] = 0
      BY <1>5 DEF Layout
    <2>2. ASSUME NEW i \in 0 .. (Kept - 1) PROVE L[i + 1] = L[i] + SizeAt(buffer, i)
      <3>1. PICK k \in 1 .. Kept : k = i + 1 /\ k - 1 = i
        BY <1>1
      <3>2. L[k] = L[k - 1] + Len(Parts[k])
        BY <1>5 DEF Layout
      <3>3. Len(Parts[k]) = SizeAt(buffer, k - 1)
        BY <1>1, <1>3, <3>1
      <3> QED BY <3>1, <3>2, <3>3
    <2> QED BY <2>1, <2>2 DEF WalkTotals
  <1>7. ASSUME NEW i \in 0 .. (Kept - 1), NEW o \in 0 .. (Retained(i).size - 1)
        PROVE  ConcatBytes[L[i] + o + 1] = <<Retained(i).buffptr, o>>
    <2>1. PICK k \in 1 .. Kept : k = i + 1 /\ k - 1 = i
      BY <1>1
    <2>2. PICK j \in 1 .. Len(Parts[k]) : j = o + 1 /\ j - 1 = o
      BY <1>1, <1>3, <2>1
    <2>3. ConcatBytes[L[k - 1] + j] = Parts[k][j]
      BY <1>5 DEF Layout
    <2>4. Parts[k][j] = <<Retained(i).buffptr, o>>
      <3>1. PICK e : e = Retained(i)
        OBVIOUS
      <3>2. Parts[k] = BytesOf(e) /\ j \in 1 .. e.size
        BY <1>3, <2>1, <2>2, <3>1
      <3>3. BytesOf(e)[j] = <<e.buffptr, j - 1>>
        BY <3>2 DEF BytesOf
      <3> QED BY <2>2, <3>1, <3>2, <3>3
    <2>5. L[i] \in Nat
      BY <1>1, <1>6 DEF WalkTotals
    <2>6. L[k - 1] + j = L[i] + o + 1
      BY <2>1, <2>2, <2>5
    <2> QED BY <2>3, <2>4, <2>6
  <1>8. Len(ConcatBytes) = L[Kept]
    BY <1>5 DEF Layout
  <1> QED BY <1>6, <1>7, <1>8

\* The length that SEEK_END uses is the length of the concatenation
\* (aesd_circular_buffer_get_length).
LEMMA LengthFromInv == RingInv => LengthMatchesConcat
  <1> SUFFICES ASSUME RingInv PROVE GetLength(buffer) = Len(ConcatBytes)
    BY DEF LengthMatchesConcat
  <1>1. PICK L : WalkTotals(L, buffer, Kept) /\ Len(ConcatBytes) = L[Kept]
    BY ConcatLayout
  <1>2. /\ Coherent(buffer, AnyEntry) /\ \A e \in AnyEntry : e.size \in Nat
        /\ RestIsNull(buffer) /\ Kept = EntryCount(buffer)
        /\ \A i \in 0 .. (Kept - 1) : buffer.entry[SlotAt(buffer, i)].buffptr # NoPtr
    BY RingFacts
  <1>3. GetLength(buffer) = L[Kept]
    BY <1>1, <1>2, GetLengthIsTotal
  <1> QED BY <1>1, <1>3

\* A lookup by position finds the byte of the concatenation, and nothing past
\* its end (aesd_circular_buffer_find_entry_offset_for_fpos).
LEMMA FindFromInv == RingInv => FindMatchesConcat
  <1> SUFFICES ASSUME RingInv, NEW off \in 0 .. MaxOffset
               PROVE  {<<buffer.entry[h.slot].buffptr, h.byte>> : h \in FindEntryOffset(buffer, off)}
                        = IF off < Len(ConcatBytes) THEN {ConcatBytes[off + 1]} ELSE {}
    BY DEF FindMatchesConcat
  <1>1. PICK L : /\ WalkTotals(L, buffer, Kept)
                 /\ Len(ConcatBytes) = L[Kept]
                 /\ \A i \in 0 .. (Kept - 1) : \A o \in 0 .. (Retained(i).size - 1) :
                      ConcatBytes[L[i] + o + 1] = <<Retained(i).buffptr, o>>
    BY ConcatLayout
  <1>2. /\ Coherent(buffer, AnyEntry) /\ \A e \in AnyEntry : e.size \in Nat
        /\ Kept = EntryCount(buffer) /\ Kept \in Nat
        /\ \A i \in 0 .. (Kept - 1) : /\ buffer.entry[SlotAt(buffer, i)] = Retained(i)
                                      /\ Retained(i).size = SizeAt(buffer, i)
    BY RingFacts
  <1>3. Growing(L, buffer, Kept)
    BY <1>1, <1>2, WalkTotalsGrow
  <1>4. L[Kept] \in Nat /\ off \in Nat
    BY <1>1, <1>2 DEF WalkTotals, MaxOffset
  <1>5. /\ off >= L[Kept] => FindEntryOffset(buffer, off) = {}
        /\ \A i \in 0 .. (Kept - 1) : L[i] <= off /\ off < L[i + 1] =>
             FindEntryOffset(buffer, off) = {[slot |-> SlotAt(buffer, i), byte |-> off - L[i]]}
    <2>1. FindsByTotals(L, buffer, Kept, off)
      BY <1>1, <1>2, <1>4, FindEntryIs
    <2> QED BY <2>1 DEF FindsByTotals
  <1>6. CASE off < L[Kept]
    <2>1. PICK i \in 0 .. (Kept - 1) : L[i] <= off /\ off < L[i + 1]
      BY <1>3, <1>4, <1>6 DEF Growing
    <2>2. FindEntryOffset(buffer, off) = {[slot |-> SlotAt(buffer, i), byte |-> off - L[i]]}
      BY <1>5, <2>1
    <2>3. /\ L[i] \in Nat /\ L[i + 1] = L[i] + Retained(i).size
          /\ Retained(i).size \in Nat
      BY <1>2, <1>3 DEF Growing
    <2>4. PICK o \in 0 .. (Retained(i).size - 1) : o = off - L[i]
      BY <1>4, <2>1, <2>3
    <2>5. ConcatBytes[L[i] + o + 1] = <<Retained(i).buffptr, o>> /\ L[i] + o + 1 = off + 1
      <3>1. L[i] + o + 1 = off + 1
        BY <1>4, <2>3, <2>4
      <3> QED BY <1>1, <2>4, <3>1
    <2>6. {<<buffer.entry[h.slot].buffptr, h.byte>> : h \in FindEntryOffset(buffer, off)}
            = {<<buffer.entry[SlotAt(buffer, i)].buffptr, off - L[i]>>}
      BY <2>2
    <2> QED BY <1>1, <1>2, <1>6, <2>4, <2>5, <2>6
  <1>7. CASE ~ (off < L[Kept])
    BY <1>1, <1>4, <1>5, <1>7
  <1> QED BY <1>6, <1>7

\* A seek to a byte of a retained command leads to that byte: the two walks
\* agree on where the command starts, and on where the data ends.
LEMMA SeekFromInv == RingInv => SeekLandsOnByte /\ SeekOvershootBounded
  <1> SUFFICES ASSUME RingInv PROVE SeekLandsOnByte /\ SeekOvershootBounded
    OBVIOUS
  <1>1. PICK L : WalkTotals(L, buffer, Kept) /\ Len(ConcatBytes) = L[Kept]
    BY ConcatLayout
  <1>2. /\ Coherent(buffer, AnyEntry) /\ \A e \in AnyEntry : e.size \in Nat
        /\ Kept = EntryCount(buffer) /\ Kept \in Nat
        /\ \A i \in 0 .. (Kept - 1) : /\ Retained(i).size = SizeAt(buffer, i)
                                      /\ Retained(i).size \in Nat
    BY RingFacts
  <1>3. Growing(L, buffer, Kept)
    BY <1>1, <1>2, WalkTotalsGrow
  <1>4. L[Kept] \in Nat
    BY <1>1, <1>2 DEF WalkTotals
  <1>5. ASSUME NEW c \in 0 .. (Kept - 1), NEW o \in Nat
        PROVE  /\ FindSeekto(buffer, c, o) = IF o > Retained(c).size THEN -1 ELSE L[c] + o
               /\ L[c] \in Nat /\ L[c + 1] = L[c] + Retained(c).size /\ L[c + 1] <= L[Kept]
               /\ Retained(c).size \in Nat
    <2>1. FindSeekto(buffer, c, o) = IF o > SizeAt(buffer, c) THEN -1 ELSE L[c] + o
      BY <1>1, <1>2, FindSeektoIs
    <2>2. c + 1 \in 0 .. Kept /\ Kept \in 0 .. Kept
      BY <1>2
    <2>3. L[c] \in Nat /\ L[c + 1] = L[c] + SizeAt(buffer, c) /\ L[c + 1] <= L[Kept]
      BY <1>3, <2>2 DEF Growing
    <2> QED BY <1>2, <2>1, <2>3
  <1>6. SeekLandsOnByte
    <2> SUFFICES ASSUME NEW c \in 0 .. (Kept - 1), NEW o \in 0 .. (Retained(c).size - 1)
                 PROVE  FindEntryOffset(buffer, FindSeekto(buffer, c, o))
                          = {[slot |-> SlotAt(buffer, c), byte |-> o]}
      BY DEF SeekLandsOnByte
    <2>1. o \in Nat /\ ~ (o > Retained(c).size) /\ o < Retained(c).size
      BY <1>2
    <2>2. PICK pos \in Nat : pos = FindSeekto(buffer, c, o) /\ pos = L[c] + o
      BY <1>5, <2>1
    <2>3. L[c] <= pos /\ pos < L[c + 1] /\ pos - L[c] = o
      BY <1>5, <2>1, <2>2
    <2>4. FindEntryOffset(buffer, pos) = {[slot |-> SlotAt(buffer, c), byte |-> pos - L[c]]}
      <3>1. FindsByTotals(L, buffer, Kept, pos)
        BY <1>1, <1>2, <2>2, FindEntryIs
      <3> QED BY <2>3, <3>1 DEF FindsByTotals
    <2> QED BY <2>2, <2>3, <2>4
  <1>7. SeekOvershootBounded
    <2> SUFFICES ASSUME NEW c \in 0 .. (MaxOps + 1), NEW o \in 0 .. MaxOffset,
                        FindSeekto(buffer, c, o) # -1
                 PROVE  \/ /\ c < Kept /\ o <= Retained(c).size
                           /\ FindSeekto(buffer, c, o) \in 0 .. Len(ConcatBytes)
                        \/ /\ c = Kept /\ FindSeekto(buffer, c, o) = Len(ConcatBytes) + o
                           /\ o = 0 \/ (Kept = MaxOps /\ o <= Retained(0).size)
      BY DEF SeekOvershootBounded
    <2>1. o \in Nat /\ c \in Nat
      BY <1>1, <1>4, MaxOpsAssumption DEF MaxOffset
    <2>2. ~ (c > Kept)
      BY <1>2 DEF FindSeekto
    <2>3. CASE c < Kept
      <3>1. PICK i \in 0 .. (Kept - 1) : i = c
        BY <1>2, <2>1, <2>3
      <3>2. ~ (o > Retained(i).size)
        BY <1>5, <2>1, <3>1
      <3>3. FindSeekto(buffer, i, o) = L[i] + o
        BY <1>5, <2>1, <3>2
      <3>4. L[i] + o \in 0 .. L[Kept] /\ o <= Retained(i).size
        BY <1>4, <1>5, <2>1, <3>2
      <3> QED BY <1>1, <2>3, <3>1, <3>3, <3>4
    <2>4. CASE c = Kept
      <3>1. Kept # 0 /\ ~ (o > SizeAt(buffer, Kept)) /\ FindSeekto(buffer, Kept, o) = L[Kept] + o
        BY <1>1, <1>2, <2>4, FindSeektoAtEnd
      <3>2. SizeAt(buffer, Kept) = IF buffer.full THEN SizeAt(buffer, 0) ELSE 0
        BY <1>2, SizeAtEnd DEF RingInv
      <3>3. 0 \in 0 .. (Kept - 1) /\ Retained(0).size = SizeAt(buffer, 0) /\ Retained(0).size \in Nat
        BY <1>2, <3>1
      <3>4. buffer.full => Kept = MaxOps
        BY <1>2, CountOfCoherent
      <3>5. CASE buffer.full
        BY <1>1, <2>1, <2>4, <3>1, <3>2, <3>3, <3>4, <3>5
      <3>6. CASE ~buffer.full
        BY <1>1, <2>1, <2>4, <3>1, <3>2, <3>6
      <3> QED BY <3>5, <3>6
    <2> QED BY <1>2, <2>1, <2>2, <2>3, <2>4
  <1> QED BY <1>6, <1>7

\* The length get_length returns is the number of bytes that can be read.
THEOREM RingLengthMatches == Spec => []LengthMatchesConcat
  BY InitRingInv, NextRingInv, LengthFromInv, PTL DEF Spec

\* Reading by position is reading the concatenation of the last MaxOps commands.
THEOREM RingFindMatches == Spec => []FindMatchesConcat
  BY InitRingInv, NextRingInv, FindFromInv, PTL DEF Spec

\* Seeking to a byte of a command and looking it up gives that byte.
THEOREM RingSeekLands == Spec => []SeekLandsOnByte
  <1>1. RingInv => SeekLandsOnByte
    BY SeekFromInv
  <1> QED BY InitRingInv, NextRingInv, <1>1, PTL DEF Spec

\* A seek that is accepted stays inside the data, except for the write_cmd one
\* past the newest command: it overshoots by at most the size of the oldest
\* command, and only in a full ring (aesd_circular_buffer_find_seekto_fpos).
THEOREM RingSeekOvershoot == Spec => []SeekOvershootBounded
  <1>1. RingInv => SeekOvershootBounded
    BY SeekFromInv
  <1> QED BY InitRingInv, NextRingInv, <1>1, PTL DEF Spec
=============================================================================
