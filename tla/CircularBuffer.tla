--------------------------- MODULE CircularBuffer ---------------------------
(***************************************************************************)
(* The command ring of the character driver                                *)
(* (aesd-char-driver/aesd-circular-buffer.c), as operators on the value of *)
(* struct aesd_circular_buffer.  The functions of the C file are called    *)
(* with the device lock held, or by a single-threaded test, so each of     *)
(* them is one operator here; the modules that use them decide what is one *)
(* step.                                                                   *)
(*                                                                         *)
(* A definition whose name ends in _Slip is not part of the model: it is   *)
(* the next definition with a slip in it, and no specification uses it.    *)
(* Replacing the one by the other shows that a property is sensitive to    *)
(* that piece of code.                                                     *)
(***************************************************************************)
EXTENDS Integers, Sequences, FiniteSetsExt

CONSTANTS
  MaxOps,    \* AESDCHAR_MAX_WRITE_OPERATIONS_SUPPORTED
  NoPtr      \* NULL

\* The indexes are uint8_t and the loops compare a uint8_t with MaxOps.
ASSUME MaxOpsAssumption == MaxOps \in 1..255

Slots == 0 .. (MaxOps - 1)

NullEntry == [buffptr |-> NoPtr, size |-> 0]

\* aesd_circular_buffer_init
EmptyBuffer == [entry    |-> [s \in Slots |-> NullEntry],
                in_offs  |-> 0,
                out_offs |-> 0,
                full     |-> FALSE]

\* The index is not wrapped.
Advance_Slip(offs) == offs + 1

Advance(offs) == (offs + 1) % MaxOps

IsEmpty(b) == ~b.full /\ b.in_offs = b.out_offs

\* num_iterations: how many slots hold a command, oldest first.
EntryCount(b) ==
  IF IsEmpty(b) THEN 0
  ELSE IF b.full THEN MaxOps
  ELSE IF b.in_offs > b.out_offs THEN b.in_offs - b.out_offs
  ELSE (MaxOps - b.out_offs) + b.in_offs

\* posn after i turns of the loop over the ring.
SlotAt(b, i) == (b.out_offs + i) % MaxOps

SizeAt(b, i) == b.entry[SlotAt(b, i)].size

\* cumulative, when the loop reaches the i-th oldest command.
SizeBefore(b, i) == MapThenSumSet(LAMBDA k : SizeAt(b, k), 0 .. (i - 1))

\* The oldest command is overwritten and out_offs stays behind.
AddEntry_Slip(b, e) ==
  [b EXCEPT !.entry[b.in_offs] = e,
            !.in_offs = Advance(b.in_offs),
            !.full = b.full \/ Advance(b.in_offs) = b.out_offs]

\* aesd_circular_buffer_add_entry: the buffer it leaves ...
AddEntry(b, e) ==
  LET out == IF b.full THEN Advance(b.out_offs) ELSE b.out_offs
      in  == Advance(b.in_offs)
  IN  [entry    |-> [b.entry EXCEPT ![b.in_offs] = e],
       in_offs  |-> in,
       out_offs |-> out,
       full     |-> b.full \/ in = out]

\* The pointer is taken after out_offs has moved on.
BuffptrToFree_Slip(b) == IF b.full THEN b.entry[Advance(b.out_offs)].buffptr ELSE NoPtr

\* ... and the pointer it returns for the caller to free.
BuffptrToFree(b) == IF b.full THEN b.entry[b.out_offs].buffptr ELSE NoPtr

\* The byte past the end of a command belongs to it.
FindEntryOffset_Slip(b, charOffset) ==
  LET byte(i) == charOffset - SizeBefore(b, i)
      hits    == {i \in 0 .. (EntryCount(b) - 1) : byte(i) \in 0 .. SizeAt(b, i)}
  IN  {[slot |-> SlotAt(b, i), byte |-> byte(i)] : i \in hits}

\* aesd_circular_buffer_find_entry_offset_for_fpos: the entry and the byte of
\* it at char_offset; the empty set stands for the NULL it returns.
FindEntryOffset(b, charOffset) ==
  LET byte(i) == charOffset - SizeBefore(b, i)
      hits    == {i \in 0 .. (EntryCount(b) - 1) : byte(i) \in 0 .. (SizeAt(b, i) - 1)}
  IN  {[slot |-> SlotAt(b, i), byte |-> byte(i)] : i \in hits}

\* The commands are counted from slot 0 and not from out_offs.
FindSeekto_FromZero_Slip(b, writeCmd, writeCmdOffset) ==
  IF IsEmpty(b) \/ writeCmd > EntryCount(b) \/ writeCmdOffset > SizeAt(b, writeCmd)
  THEN -1
  ELSE MapThenSumSet(LAMBDA s : b.entry[s].size, 0 .. (writeCmd - 1)) + writeCmdOffset

\* The offset within the command is not checked.
FindSeekto_Unchecked_Slip(b, writeCmd, writeCmdOffset) ==
  IF IsEmpty(b) \/ writeCmd > EntryCount(b)
  THEN -1
  ELSE SizeBefore(b, writeCmd) + writeCmdOffset

\* aesd_circular_buffer_find_seekto_fpos; -1 is the (size_t)-1 that the caller
\* compares with -1 after the conversion to a 64-bit loff_t.
FindSeekto(b, writeCmd, writeCmdOffset) ==
  IF \/ IsEmpty(b)
     \/ writeCmd > EntryCount(b)
     \/ writeCmdOffset > SizeAt(b, writeCmd)
  THEN -1
  ELSE SizeBefore(b, writeCmd) + writeCmdOffset

\* The loop over the slots stops one slot early.
GetLength_Slip(b) ==
  MapThenSumSet(LAMBDA s : b.entry[s].size,
                {s \in Slots : s < MaxOps - 1 /\ b.entry[s].buffptr # NoPtr})

\* aesd_circular_buffer_get_length
GetLength(b) ==
  MapThenSumSet(LAMBDA s : b.entry[s].size, {s \in Slots : b.entry[s].buffptr # NoPtr})

----------------------------------------------------------------------------

\* What add_entry keeps true of a buffer whose entries are in E: the indexes
\* meet when the ring is full, and until then nothing has been taken out.
Coherent(b, E) ==
  /\ b \in [entry : [Slots -> E], in_offs : Slots, out_offs : Slots, full : BOOLEAN]
  /\ b.full => b.in_offs = b.out_offs
  /\ ~b.full => b.out_offs = 0
=============================================================================
