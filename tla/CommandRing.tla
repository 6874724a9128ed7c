---------------------------- MODULE CommandRing ----------------------------
(***************************************************************************)
(* The command ring by itself: an empty buffer to which a caller adds one  *)
(* entry after another, as the driver and the unit tests do.  The history  *)
(* variable added says what the ring is supposed to remember, and every    *)
(* function of the C file is compared with a definition over that history. *)
(***************************************************************************)
EXTENDS CircularBuffer, SequencesExt

CONSTANTS
  Sizes,      \* sizes a caller passes in aesd_buffer_entry.size
  MaxAdds     \* bound on the number of calls of add_entry

ASSUME SizesAssumption == Sizes \subseteq Nat
ASSUME MaxAddsAssumption == MaxAdds \in Nat /\ NoPtr \notin 1 .. MaxAdds

VARIABLES
  buffer,     \* struct aesd_circular_buffer
  replaced,   \* what the last add_entry returned
  added       \* history: every entry ever added, oldest first

vars == <<buffer, replaced, added>>

Entries == [buffptr : 1 .. MaxAdds, size : Sizes]

----------------------------------------------------------------------------

Init ==
  /\ buffer = EmptyBuffer
  /\ replaced = NoPtr
  /\ added = <<>>

\* The caller allocates a new block for every command it adds: the n-th block
\* is pointer n.
Add(size) ==
  LET e == [buffptr |-> Len(added) + 1, size |-> size]
  IN  /\ Len(added) < MaxAdds
      /\ buffer' = AddEntry(buffer, e)
      /\ replaced' = BuffptrToFree(buffer)
      /\ added' = Append(added, e)

Next == \E size \in Sizes : Add(size)

Spec == Init /\ [][Next]_vars

----------------------------------------------------------------------------

TypeOK ==
  /\ buffer \in [entry    : [Slots -> Entries \cup {NullEntry}],
                 in_offs  : Slots,
                 out_offs : Slots,
                 full     : BOOLEAN]
  /\ replaced \in (1 .. MaxAdds) \cup {NoPtr}
  /\ added \in Seq(Entries)

\* How many of the added commands the ring must still hold.
Kept == IF Len(added) < MaxOps THEN Len(added) ELSE MaxOps

Retained(i) == added[Len(added) - Kept + i + 1]

\* The ring holds exactly the last MaxOps commands, and walking MaxOps slots
\* from out_offs meets them in the order they were added, across every
\* wraparound of the two indexes (aesd_circular_buffer_add_entry).
RetainsLast ==
  /\ EntryCount(buffer) = Kept
  /\ \A i \in 0 .. (Kept - 1) : buffer.entry[SlotAt(buffer, i)] = Retained(i)

\* Every byte of the retained commands, laid end to end, as the pair of the
\* block it lives in and its place in that block.
ConcatBytes ==
  LET bytes(e) == [j \in 1 .. e.size |-> <<e.buffptr, j - 1>>]
  IN  FlattenSeq([i \in 1 .. Kept |-> bytes(Retained(i - 1))])

MaxOffset == Len(ConcatBytes) + 1

\* Reading by position is reading the concatenation: the "zero referenced
\* character index if all buffer strings were concatenated end to end"
\* (aesd_circular_buffer_find_entry_offset_for_fpos), and past its end there
\* is no entry.
FindMatchesConcat ==
  \A off \in 0 .. MaxOffset :
    {<<buffer.entry[h.slot].buffptr, h.byte>> : h \in FindEntryOffset(buffer, off)}
      = IF off < Len(ConcatBytes) THEN {ConcatBytes[off + 1]} ELSE {}

\* A seek to byte o of the c-th oldest command followed by a lookup lands on
\* that byte of that command: the two functions agree about where a command
\* starts, although they walk the ring independently.
SeekLandsOnByte ==
  \A c \in 0 .. (Kept - 1) :
    \A o \in 0 .. (Retained(c).size - 1) :
      FindEntryOffset(buffer, FindSeekto(buffer, c, o))
        = {[slot |-> SlotAt(buffer, c), byte |-> o]}

\* Where a seek leads, for every write_cmd the program may pass: one that names
\* a command the ring holds stays inside the data, and the test
\* "write_cmd > num_iterations" (aesd_circular_buffer_find_seekto_fpos) lets
\* through one more.  That one counts from the end of the data, by no more than
\* the slot there holds: nothing as long as the ring has room, the oldest
\* command when it is full.
SeekOvershootBounded ==
  \A c \in 0 .. (MaxOps + 1) :
    \A o \in 0 .. MaxOffset :
      LET pos == FindSeekto(buffer, c, o)
      IN  pos # -1 =>
            \/ c < Kept /\ o <= Retained(c).size /\ pos \in 0 .. Len(ConcatBytes)
            \/ /\ c = Kept /\ pos = Len(ConcatBytes) + o
               /\ o = 0 \/ (Kept = MaxOps /\ o <= Retained(0).size)

\* "The zero referenced write command to seek into" and "the zero referenced
\* offset within the write" (struct aesd_seekto): whatever the program asks for,
\* a seek that is accepted leads to a place of the data or to its end.
SeekStaysInside ==
  \A c \in 0 .. (MaxOps + 1) :
    \A o \in 0 .. MaxOffset :
      LET pos == FindSeekto(buffer, c, o)
      IN  pos # -1 => pos \in 0 .. Len(ConcatBytes)

\* The length that SEEK_END and the llseek range check use is the length of
\* what can be read, although it is summed over slots and not from out_offs.
LengthMatchesConcat == GetLength(buffer) = Len(ConcatBytes)

\* add_entry hands back for kfree exactly the block that leaves the ring: the
\* oldest one once the ring is full, nothing before.
FreesTheOldest ==
  [][replaced' = IF Len(added) < MaxOps THEN NoPtr ELSE Retained(0).buffptr]_vars
=============================================================================
