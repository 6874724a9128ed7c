--------------------------- MODULE AesdCharProofs ---------------------------
(***************************************************************************)
(* The driver's mutex protects the ring and the memory behind it, and no   *)
(* file position is negative, with and without faults; a reader that does  *)
(* not seek is given no byte twice (FileReader).  As long as no krealloc   *)
(* of a command in progress fails, no block of a command is lost, every    *)
(* command in progress is made of bytes that were written, and the driver  *)
(* implements CommandDevice: what its users see through any interleaving   *)
(* of its handlers is a device with a log of commands and one command in   *)
(* progress.  All of it for any number of processes, files, blocks and     *)
(* slots.                                                                  *)
(***************************************************************************)
EXTENDS FileReader, CircularBufferLemmas, SequenceTheorems

\* What a process in the middle of a call may rely on: its file is open, it owns
\* the mutex where it should, the command it is about to add exists, and the
\* entry it is about to copy is one of the ring's.
CallInv(p) ==
  /\ call[p].pc # "idle" => call[p].filp \in opened
  /\ call[p].pc \in Critical => lock = p
  /\ call[p].pc = "write_add" => new_entry.buffptr # NoPtr
  /\ call[p].pc = "read_copy" =>
       \E i \in 0 .. (EntryCount(buffer) - 1) :
         /\ call[p].slot = SlotAt(buffer, i)
         /\ call[p].byte < buffer.entry[call[p].slot].size

\* Neither MutualExclusion nor MemorySafe is inductive alone: a step is safe
\* because the process that takes it owns the mutex, and the module cannot go
\* away under it because its file is open.
DriverInv ==
  /\ TypeOK
  /\ Coherent(buffer, Entries)
  /\ opened # {} => module = "live"
  /\ MemorySafe
  /\ \A p \in Procs : CallInv(p)

\* The i-th oldest entry of the ring.
Entry(b, i) == b.entry[SlotAt(b, i)]

Oldest(b) == 0 .. (EntryCount(b) - 1)

\* MemorySafe as a predicate of the values it is about.
Safe(b, e, h) ==
  /\ \A i \in Oldest(b) :
       /\ Entry(b, i).buffptr \in Ptrs
       /\ h[Entry(b, i).buffptr] # Free
       /\ Len(h[Entry(b, i).buffptr]) = Entry(b, i).size
       /\ Entry(b, i).buffptr # e.buffptr
       /\ \A j \in Oldest(b) : i # j => Entry(b, i).buffptr # Entry(b, j).buffptr
  /\ e.buffptr # NoPtr =>
       /\ h[e.buffptr] # Free
       /\ Len(h[e.buffptr]) = e.size

LEMMA MemorySafeIsSafe ==
  /\ MemorySafe <=> (module # "unloaded" => Safe(buffer, new_entry, heap))
  /\ MemorySafe' <=> (module' # "unloaded" => Safe(buffer', new_entry', heap'))
  BY DEF MemorySafe, Safe, Entry, Oldest

\* An entry that a walk from out_offs meets is a slot's (the loops of
\* aesd-circular-buffer.c).
LEMMA EntryFacts ==
  ASSUME NEW b, Coherent(b, Entries), NEW i \in Oldest(b)
  PROVE  /\ i \in Slots
         /\ SlotAt(b, i) \in Slots
         /\ Entry(b, i) \in Entries
         /\ Entry(b, i).size \in Nat
  <1>1. i \in Slots /\ b.out_offs \in Slots /\ b.entry \in [Slots -> Entries]
    BY CountOfCoherent DEF Oldest, Coherent
  <1>2. SlotAt(b, i) \in Slots
    BY <1>1, SlotAtIsSlot
  <1> QED BY <1>1, <1>2 DEF Entry, Entries

\* A step of process p that leaves the ring and its memory alone keeps the
\* invariant, if p's own call is right after it and nobody else loses the mutex.
LEMMA QuietStep ==
  ASSUME DriverInv, TypeOK', NEW p \in Procs,
         UNCHANGED <<module, buffer, new_entry, heap, opened>>,
         \A q \in Procs \ {p} : /\ call'[q] = call[q]
                                /\ lock = q => lock' = q,
         CallInv(p)'
  PROVE  DriverInv'
  <1>1. \A q \in Procs : CallInv(q)'
    <2> SUFFICES ASSUME NEW q \in Procs, q # p PROVE CallInv(q)'
      OBVIOUS
    <2>1. CallInv(q) /\ call'[q] = call[q] /\ (lock = q => lock' = q)
      BY DEF DriverInv
    <2> QED BY <2>1 DEF CallInv
  <1> QED BY <1>1, MemorySafeIsSafe DEF DriverInv

\* aesd_circular_buffer_init, on static storage: nothing is in the ring.
LEMMA InitDriverInv == Init => DriverInv
  <1> SUFFICES ASSUME Init PROVE DriverInv
    OBVIOUS
  <1>1. Coherent(buffer, Entries) /\ EntryCount(buffer) = 0
    BY MaxOpsAssumption
    DEF Init, EmptyBuffer, NullEntry, Coherent, Entries, Slots, EntryCount, IsEmpty
  <1>2. NoCall \in Calls
    BY MaxOpsAssumption, EmptySeq DEF NoCall, Calls, PCs, Slots
  <1>3. TypeOK
    BY <1>1, <1>2, EmptySeq DEF Init, TypeOK, Coherent, Entries, NullEntry, Bytes
  <1>4. MemorySafe
    BY DEF Init, MemorySafe
  <1>5. \A p \in Procs : CallInv(p)
    BY DEF Init, CallInv, NoCall, Critical
  <1> QED BY <1>1, <1>3, <1>4, <1>5 DEF DriverInv, Init

----------------------------------------------------------------------------
(* The steps outside the calls: insmod, rmmod, open and release.           *)

\* A file that is open keeps the module loaded, so no call is in progress when
\* the module is loaded or unloaded.
LEMMA NoFilesNoCalls ==
  ASSUME DriverInv, opened = {}
  PROVE  \A p \in Procs : call[p].pc = "idle"
  BY DEF DriverInv, CallInv

LEMMA LoadInitStep == DriverInv /\ LoadInit => DriverInv'
  <1> SUFFICES ASSUME DriverInv, LoadInit PROVE DriverInv'
    OBVIOUS
  <1>1. opened = {} /\ opened' = {} /\ \A p \in Procs : call'[p].pc = "idle"
    BY NoFilesNoCalls DEF DriverInv, LoadInit, files
  <1>2. Coherent(buffer', Entries) /\ EntryCount(buffer') = 0
    BY MaxOpsAssumption
    DEF LoadInit, EmptyBuffer, NullEntry, Coherent, Entries, Slots, EntryCount, IsEmpty
  <1>3. TypeOK'
    BY <1>1, <1>2 DEF DriverInv, LoadInit, TypeOK, files, Entries, NullEntry, Coherent
  <1>4. Safe(buffer', new_entry', heap')
    BY <1>2 DEF LoadInit, Safe, Oldest, NullEntry
  <1>5. \A p \in Procs : CallInv(p)'
    BY <1>1 DEF CallInv, Critical
  <1> QED BY <1>1, <1>2, <1>3, <1>4, <1>5, MemorySafeIsSafe DEF DriverInv

LEMMA LoadAddStep == DriverInv /\ LoadAdd => DriverInv'
  <1> SUFFICES ASSUME DriverInv, LoadAdd PROVE DriverInv'
    OBVIOUS
  <1>1. opened = {} /\ opened' = {} /\ \A p \in Procs : call'[p].pc = "idle"
    BY NoFilesNoCalls DEF DriverInv, LoadAdd, files
  <1>2. TypeOK'
    BY DEF DriverInv, LoadAdd, TypeOK, files
  <1>3. MemorySafe'
    BY MemorySafeIsSafe DEF DriverInv, LoadAdd
  <1>4. \A p \in Procs : CallInv(p)'
    BY <1>1 DEF CallInv, Critical
  <1> QED BY <1>1, <1>2, <1>3, <1>4 DEF DriverInv, LoadAdd

LEMMA UnloadStep == DriverInv /\ Unload => DriverInv'
  <1> SUFFICES ASSUME DriverInv, Unload PROVE DriverInv'
    OBVIOUS
  <1>1. opened = {} /\ opened' = {} /\ \A p \in Procs : call'[p].pc = "idle"
    BY NoFilesNoCalls DEF DriverInv, Unload, files
  <1>2. Coherent(buffer', Entries)
    BY DEF DriverInv, Unload, Coherent, Entries
  <1>3. heap' \in [Ptrs -> Bytes \cup {Free}]
    BY DEF DriverInv, Unload, TypeOK
  <1>4. TypeOK'
    BY <1>2, <1>3 DEF DriverInv, Unload, TypeOK, files, Coherent
  <1>5. MemorySafe'
    BY MemorySafeIsSafe DEF Unload
  <1>6. \A p \in Procs : CallInv(p)'
    BY <1>1 DEF CallInv, Critical
  <1> QED BY <1>1, <1>2, <1>4, <1>5, <1>6 DEF DriverInv

LEMMA OpenStep ==
  ASSUME DriverInv, NEW p \in Procs, NEW f \in Files, Open(p, f)
  PROVE  DriverInv'
  <1>1. TypeOK'
    BY DEF DriverInv, Open, TypeOK, device
  <1>2. MemorySafe' /\ Coherent(buffer', Entries)
    BY MemorySafeIsSafe DEF DriverInv, Open, device
  <1>3. \A q \in Procs : CallInv(q)'
    BY DEF DriverInv, Open, CallInv, device
  <1> QED BY <1>1, <1>2, <1>3 DEF DriverInv, Open, device

\* A write whose copy_from_user faults leaves everything but its kbuf as it is.
LEMMA WriteFaultStep ==
  ASSUME DriverInv, NEW p \in Procs, NEW f \in Files, WriteFault(p, f)
  PROVE  DriverInv'
  <1>1. TypeOK'
    BY DEF DriverInv, WriteFault, TypeOK, files
  <1>2. MemorySafe' /\ Coherent(buffer', Entries)
    BY MemorySafeIsSafe DEF DriverInv, WriteFault
  <1>3. \A q \in Procs : CallInv(q)'
    BY DEF DriverInv, WriteFault, CallInv, files
  <1> QED BY <1>1, <1>2, <1>3 DEF DriverInv, WriteFault, files

LEMMA ReleaseStep ==
  ASSUME DriverInv, NEW f \in Files, Release(f)
  PROVE  DriverInv'
  <1>1. TypeOK'
    BY DEF DriverInv, Release, TypeOK, device
  <1>2. MemorySafe' /\ Coherent(buffer', Entries)
    BY MemorySafeIsSafe DEF DriverInv, Release, device
  <1>3. \A q \in Procs : CallInv(q)'
    BY DEF DriverInv, Release, CallInv, device
  <1> QED BY <1>1, <1>2, <1>3 DEF DriverInv, Release, device

----------------------------------------------------------------------------
(* The steps of a call that change neither the ring nor its memory.        *)

\* The record of a call after Enter, Step, Leave and Finish.
LEMMA CallRecords ==
  /\ NoCall \in Calls
  /\ \A f \in Files \cup {NoFile}, pc \in PCs, kbuf \in Seq(Byte) :
       [NoCall EXCEPT !.pc = pc, !.filp = f, !.kbuf = kbuf] \in Calls
  /\ \A c \in Calls, pc \in PCs : [c EXCEPT !.pc = pc] \in Calls
  <1>1. NoCall \in Calls
    BY MaxOpsAssumption, EmptySeq DEF NoCall, Calls, Slots, PCs
  <1> QED BY <1>1 DEF Calls

\* The entry of a call, which waits for the mutex next.
LEMMA EnterStep ==
  ASSUME DriverInv, NEW p \in Procs, NEW f \in Files, NEW kbuf \in Seq(Byte),
         NEW pc \in {"read_lock", "write_lock", "llseek_lock", "ioctl_lock"},
         Enter(p, f, pc, kbuf),
         UNCHANGED <<device, files, ubuf>>, DOMAIN num' = Procs
  PROVE  DriverInv'
  <1> DEFINE c == [NoCall EXCEPT !.pc = pc, !.filp = f, !.kbuf = kbuf]
  <1>1. call \in [Procs -> Calls] /\ pc \in PCs
    BY DEF DriverInv, TypeOK, PCs
  <1>2. c \in Calls
    BY <1>1, CallRecords
  <1>3. /\ call' \in [Procs -> Calls]
        /\ call'[p] = c
        /\ \A q \in Procs \ {p} : call'[q] = call[q]
    BY <1>1, <1>2 DEF Enter
  <1>4. TypeOK'
    BY <1>3 DEF DriverInv, TypeOK, device, files
  <1>5. c.pc = pc /\ c.filp = f
    BY DEF NoCall
  <1>6. CallInv(p)'
    BY <1>3, <1>5 DEF CallInv, Critical, Enter, files
  <1> QED BY <1>3, <1>4, <1>6, QuietStep DEF device, files

LEMMA BeginStep ==
  ASSUME DriverInv, NEW p \in Procs, NEW f \in Files, Begin(p, f)
  PROVE  DriverInv'
  <1>1. CASE Open(p, f)
    BY <1>1, OpenStep
  <1>2. CASE ReadCall(p, f)
    <2>1. <<>> \in Seq(Byte) /\ DOMAIN num' = Procs
      BY <1>2, EmptySeq DEF ReadCall, DriverInv, TypeOK
    <2> QED BY <1>2, <2>1, EnterStep DEF ReadCall
  <1>3. CASE WriteCall(p, f)
    <2>1. PICK bytes \in Payloads : Enter(p, f, "write_lock", bytes)
      BY <1>3 DEF WriteCall
    <2>2. bytes \in Seq(Byte) /\ DOMAIN num' = Procs
      BY <1>3, ByteAssumption DEF WriteCall, DriverInv, TypeOK
    <2> QED BY <1>3, <2>1, <2>2, EnterStep DEF WriteCall
  <1>4. CASE LlseekCall(p, f) \/ IoctlCall(p, f)
    <2>1. <<>> \in Seq(Byte) /\ DOMAIN num' = Procs
      BY <1>4, EmptySeq DEF LlseekCall, IoctlCall, DriverInv, TypeOK
    <2> QED BY <1>4, <2>1, EnterStep DEF LlseekCall, IoctlCall
  <1>5. CASE WriteFault(p, f)
    BY <1>5, WriteFaultStep
  <1> QED BY <1>1, <1>2, <1>3, <1>4, <1>5 DEF Begin

\* A process that owns the mutex takes it from nobody when it unlocks.
LEMMA OwnerUnlocks ==
  ASSUME DriverInv, NEW p \in Procs, call[p].pc \in Critical
  PROVE  lock = p /\ \A q \in Procs \ {p} : lock # q
  BY DEF DriverInv, CallInv

\* mutex_lock and mutex_lock_interruptible.
LEMMA LockStep ==
  ASSUME DriverInv, NEW p \in Procs,
         NEW from \in PCs \ {"idle"}, NEW to \in Critical \ {"write_add", "read_copy"},
         Lock(p, from, to)
  PROVE  DriverInv'
  <1>1. /\ call \in [Procs -> Calls] /\ to \in PCs /\ to # "idle"
        /\ to # "write_add" /\ to # "read_copy" /\ from # "idle"
    BY DEF DriverInv, TypeOK, PCs, Critical
  <1>2. [call[p] EXCEPT !.pc = to] \in Calls
    BY <1>1, CallRecords
  <1>3. /\ call' \in [Procs -> Calls]
        /\ call'[p].pc = to /\ call'[p].filp = call[p].filp /\ lock' = p
        /\ \A q \in Procs \ {p} : call'[q] = call[q]
    BY <1>1, <1>2 DEF Lock, Step, Calls
  <1>4. TypeOK'
    BY <1>3 DEF DriverInv, TypeOK, Lock, files
  <1>5. CallInv(p)'
    BY <1>1, <1>3 DEF DriverInv, CallInv, Lock, Step, files
  <1>6. \A q \in Procs \ {p} : lock # q
    BY ProcsAssumption DEF Lock
  <1> QED BY <1>3, <1>4, <1>5, <1>6, QuietStep DEF Lock, files

LEMMA GetLockStep ==
  ASSUME DriverInv, NEW p \in Procs, GetLock(p)
  PROVE  DriverInv'
  BY LockStep DEF GetLock, ReadLock, WriteLock, LlseekLock, IoctlLock, PCs, Critical

\* The end of a call, with the mutex as it was or given up by its owner.
LEMMA FinishCall ==
  ASSUME DriverInv, NEW p \in Procs, Finish(p)
  PROVE  /\ call' \in [Procs -> Calls] /\ DOMAIN num' = Procs
         /\ call'[p] = NoCall
         /\ \A q \in Procs \ {p} : call'[q] = call[q]
         /\ CallInv(p)'
  <1>1. call \in [Procs -> Calls] /\ DOMAIN num = Procs
    BY DEF DriverInv, TypeOK
  <1>2. /\ call' \in [Procs -> Calls] /\ DOMAIN num' = Procs
        /\ call'[p] = NoCall
        /\ \A q \in Procs \ {p} : call'[q] = call[q]
    BY <1>1, CallRecords DEF Finish
  <1>3. CallInv(p)'
    BY <1>2 DEF CallInv, NoCall, Critical
  <1> QED BY <1>2, <1>3

LEMMA LeaveCall ==
  ASSUME DriverInv, NEW p \in Procs, Leave(p), call[p].pc # "idle", opened' = opened
  PROVE  /\ call' \in [Procs -> Calls]
         /\ \A q \in Procs \ {p} : call'[q] = call[q]
         /\ CallInv(p)'
  <1> DEFINE c == [NoCall EXCEPT !.pc = "return", !.filp = call[p].filp]
  <1>1. /\ call \in [Procs -> Calls]
        /\ call[p].filp \in Files \cup {NoFile} /\ call[p].filp \in opened
    BY DEF DriverInv, TypeOK, Calls, CallInv
  <1>2. [NoCall EXCEPT !.pc = "return", !.filp = call[p].filp, !.kbuf = <<>>] \in Calls
    BY <1>1, CallRecords, EmptySeq DEF PCs
  <1>3. c \in Calls /\ c.pc = "return" /\ c.filp = call[p].filp
    BY <1>2 DEF NoCall, Calls
  <1>4. /\ call' \in [Procs -> Calls] /\ call'[p] = c
        /\ \A q \in Procs \ {p} : call'[q] = call[q]
    BY <1>1, <1>3 DEF Leave
  <1>5. CallInv(p)'
    BY <1>1, <1>3, <1>4 DEF CallInv, Critical
  <1> QED BY <1>4, <1>5

\* The continuation of a call outside the mutex, after an unlock.
LEMMA StepOn ==
  ASSUME DriverInv, NEW p \in Procs, NEW from \in PCs \ {"idle"}, NEW to \in PCs,
         to \notin Critical, to # "idle", Step(p, from, to), opened' = opened
  PROVE  /\ call' \in [Procs -> Calls]
         /\ \A q \in Procs \ {p} : call'[q] = call[q]
         /\ CallInv(p)'
  <1>1. call \in [Procs -> Calls]
    BY DEF DriverInv, TypeOK
  <1>2. [call[p] EXCEPT !.pc = to] \in Calls
    BY <1>1, CallRecords
  <1>3. /\ call' \in [Procs -> Calls]
        /\ call'[p].pc = to /\ call'[p].filp = call[p].filp
        /\ \A q \in Procs \ {p} : call'[q] = call[q]
    BY <1>1, <1>2 DEF Step, Calls
  <1>4. CallInv(p)'
    BY <1>1, <1>3 DEF DriverInv, CallInv, Step, Critical
  <1> QED BY <1>3, <1>4

LEMMA FaultStep ==
  ASSUME DriverInv, NEW p \in Procs, Fault(p)
  PROVE  DriverInv'
  <1>1. CASE ReadFault(p)
    <2>1. /\ call' \in [Procs -> Calls]
          /\ \A q \in Procs \ {p} : call'[q] = call[q]
          /\ CallInv(p)'
      BY <1>1, LeaveCall DEF ReadFault, files
    <2>2. TypeOK'
      BY <1>1, <2>1 DEF DriverInv, TypeOK, ReadFault, device, files
    <2> QED BY <1>1, <2>1, <2>2, QuietStep DEF ReadFault, device, files
  <1>2. CASE Interrupted(p)
    <2>1. TypeOK'
      BY <1>2, FinishCall DEF DriverInv, TypeOK, Interrupted, device, files
    <2> QED BY <1>2, <2>1, FinishCall, QuietStep DEF Interrupted, device, files
  <1> QED BY <1>1, <1>2 DEF Fault

----------------------------------------------------------------------------
(* The steps of read, llseek and ioctl.                                    *)

LEMMA ReadMissStep ==
  ASSUME DriverInv, NEW p \in Procs, ReadMiss(p)
  PROVE  DriverInv'
  <1>1. call[p].pc \in Critical
    BY DEF ReadMiss, Step, Critical
  <1>2. /\ call' \in [Procs -> Calls]
        /\ \A q \in Procs \ {p} : call'[q] = call[q]
        /\ CallInv(p)'
    BY StepOn DEF ReadMiss, PCs, Critical, files
  <1>3. TypeOK'
    BY <1>2 DEF DriverInv, TypeOK, ReadMiss, Unlock, files
  <1> QED BY <1>1, <1>2, <1>3, OwnerUnlocks, QuietStep DEF ReadMiss, files

\* find_entry_offset_for_fpos returns an entry of the ring and a byte inside it.
LEMMA ReadHitStep ==
  ASSUME DriverInv, NEW p \in Procs, ReadHit(p)
  PROVE  DriverInv'
  <1>1. PICK h \in FindEntryOffset(buffer, num[p]) :
          call' = [call EXCEPT ![p].pc = "read_copy", ![p].slot = h.slot, ![p].byte = h.byte]
    BY DEF ReadHit, Hit
  <1>2. PICK i \in Oldest(buffer) :
          /\ h = [slot |-> SlotAt(buffer, i), byte |-> num[p] - SizeBefore(buffer, i)]
          /\ num[p] - SizeBefore(buffer, i) \in 0 .. (SizeAt(buffer, i) - 1)
    BY DEF FindEntryOffset, Oldest
  <1>3. /\ SlotAt(buffer, i) \in Slots
        /\ SizeAt(buffer, i) \in Nat
        /\ SizeAt(buffer, i) = buffer.entry[SlotAt(buffer, i)].size
    BY EntryFacts DEF DriverInv, SizeAt, Entry
  <1>4. /\ h.slot = SlotAt(buffer, i) /\ h.slot \in Slots
        /\ h.byte \in Nat /\ h.byte < buffer.entry[h.slot].size
    BY <1>2, <1>3
  <1>5. call \in [Procs -> Calls] /\ call[p].pc = "read_find"
    BY DEF DriverInv, TypeOK, ReadHit, Hit
  <1>6. /\ call' \in [Procs -> Calls]
        /\ call'[p].pc = "read_copy" /\ call'[p].filp = call[p].filp
        /\ call'[p].slot = h.slot /\ call'[p].byte = h.byte
        /\ \A q \in Procs \ {p} : call'[q] = call[q]
    <2>1. PICK a, b : a = h.slot /\ b = h.byte
      OBVIOUS
    <2>2. PICK r : r = [call[p] EXCEPT !.pc = "read_copy", !.slot = a, !.byte = b]
      OBVIOUS
    <2>3. /\ r \in Calls /\ r.pc = "read_copy" /\ r.filp = call[p].filp
          /\ r.slot = a /\ r.byte = b
      BY <1>4, <1>5, <2>1, <2>2 DEF Calls, PCs
    <2>4. call' = [call EXCEPT ![p] = r]
      BY <1>1, <2>1, <2>2
    <2> QED BY <1>5, <2>1, <2>3, <2>4
  <1>7. TypeOK'
    BY <1>6 DEF DriverInv, TypeOK, ReadHit, Hit, device, files
  <1>8. CallInv(p)'
    <2>1. call[p].filp \in opened /\ lock = p
      BY <1>5 DEF DriverInv, CallInv, Critical
    <2>2. buffer' = buffer /\ lock' = lock /\ opened' = opened
      BY DEF ReadHit, Hit, device, files
    <2> QED BY <1>4, <1>6, <2>1, <2>2 DEF CallInv, Critical, Oldest
  <1> QED BY <1>6, <1>7, <1>8, QuietStep DEF ReadHit, Hit, device, files

\* While a read is at copy_to_user, what it copies is a block of the ring.
LEMMA ReadCopySource ==
  ASSUME DriverInv, NEW p \in Procs, call[p].pc = "read_copy"
  PROVE  LET e == buffer.entry[call[p].slot]
         IN  /\ e.buffptr \in Ptrs
             /\ heap[e.buffptr] # Free
             /\ heap[e.buffptr] \in Bytes
             /\ Len(heap[e.buffptr]) = e.size
             /\ e.size \in Nat
             /\ call[p].byte \in Nat
             /\ call[p].byte < e.size
  <1>1. /\ module = "live"
        /\ call[p].byte \in Nat
    BY DEF DriverInv, CallInv, TypeOK, Calls
  <1>2. PICK i \in Oldest(buffer) :
          /\ call[p].slot = SlotAt(buffer, i)
          /\ call[p].byte < buffer.entry[call[p].slot].size
    BY DEF DriverInv, CallInv, Oldest
  <1>3. Safe(buffer, new_entry, heap)
    BY <1>1, MemorySafeIsSafe DEF DriverInv
  <1>4. Entry(buffer, i).size \in Nat /\ Entry(buffer, i) = buffer.entry[call[p].slot]
    BY <1>2, EntryFacts DEF DriverInv, Entry
  <1>5. heap \in [Ptrs -> Bytes \cup {Free}]
    BY DEF DriverInv, TypeOK
  <1> QED BY <1>1, <1>2, <1>3, <1>4, <1>5 DEF Safe

LEMMA ReadCopyStep ==
  ASSUME DriverInv, NEW p \in Procs, ReadCopy(p)
  PROVE  DriverInv'
  <1> DEFINE e == buffer.entry[call[p].slot]
             byte == call[p].byte
  <1>1. call[p].pc = "read_copy" /\ call[p].pc \in Critical
    BY DEF ReadCopy, CopyOut, Critical
  <1>2. PICK count \in ReadCounts :
          /\ ubuf' = [ubuf EXCEPT ![p] =
                        SubSeq(heap[e.buffptr], byte + 1, byte + Smaller(count, e.size - byte))]
          /\ num' = [num EXCEPT ![p] = @ + Smaller(count, e.size - byte)]
    BY DEF ReadCopy, CopyOut, CopySizes
  <1> DEFINE n == Smaller(count, e.size - byte)
  <1>3. /\ heap[e.buffptr] \in Bytes /\ Len(heap[e.buffptr]) = e.size
        /\ e.size \in Nat /\ byte \in Nat /\ byte < e.size
    BY <1>1, ReadCopySource
  <1>4. n \in Nat /\ byte + n <= e.size
    <2> HIDE DEF e, byte
    <2>1. count \in Nat /\ e.size - byte \in Nat
      BY <1>3, ArgumentsAssumption
    <2>2. n = IF count < e.size - byte THEN count ELSE e.size - byte
      BY DEF Smaller
    <2> QED BY <1>3, <2>1, <2>2
  <1>5. SubSeq(heap[e.buffptr], byte + 1, byte + n) \in Bytes
    <2> HIDE DEF n, e, byte
    <2>1. \A i \in (byte + 1) .. (byte + n) : heap[e.buffptr][i] \in Byte \cup {Junk}
      BY <1>3, <1>4, ElementOfSeq DEF Bytes
    <2> QED BY <1>3, <1>4, <2>1, SubSeqProperties DEF Bytes
  <1>6. ubuf' \in [Procs -> Bytes] /\ DOMAIN num' = Procs
    BY <1>2, <1>5 DEF DriverInv, TypeOK
  <1>7. /\ call' \in [Procs -> Calls]
        /\ \A q \in Procs \ {p} : call'[q] = call[q]
        /\ CallInv(p)'
    BY <1>1, LeaveCall DEF ReadCopy, CopyOut, files
  <1>8. TypeOK'
    BY <1>6, <1>7 DEF DriverInv, TypeOK, ReadCopy, CopyOut, Unlock, files
  <1> QED BY <1>1, <1>7, <1>8, OwnerUnlocks, QuietStep DEF ReadCopy, CopyOut, files

LEMMA LlseekLengthStep ==
  ASSUME DriverInv, NEW p \in Procs, LlseekLength(p)
  PROVE  DriverInv'
  <1>1. call[p].pc \in Critical
    BY DEF LlseekLength, Step, Critical
  <1>2. /\ call' \in [Procs -> Calls]
        /\ \A q \in Procs \ {p} : call'[q] = call[q]
        /\ CallInv(p)'
    BY StepOn DEF LlseekLength, PCs, Critical, files
  <1>3. TypeOK'
    BY <1>2 DEF DriverInv, TypeOK, LlseekLength, Unlock, files
  <1> QED BY <1>1, <1>2, <1>3, OwnerUnlocks, QuietStep DEF LlseekLength, files

LEMMA IoctlFindStep ==
  ASSUME DriverInv, NEW p \in Procs, IoctlFind(p)
  PROVE  DriverInv'
  <1>1. call[p].pc = "ioctl_find" /\ call[p].pc \in Critical /\ opened' = opened
    BY DEF IoctlFind, Critical, files
  <1>2. PICK target : \/ Finish(p)
                      \/ /\ call' = [call EXCEPT ![p].pc = "ioctl_set"]
                         /\ num' = [num EXCEPT ![p] = target]
    BY DEF IoctlFind
  <1>3. /\ call' \in [Procs -> Calls] /\ DOMAIN num' = Procs
        /\ \A q \in Procs \ {p} : call'[q] = call[q]
        /\ CallInv(p)'
    <2>1. CASE Finish(p)
      BY <2>1, FinishCall
    <2>2. CASE /\ call' = [call EXCEPT ![p].pc = "ioctl_set"]
               /\ num' = [num EXCEPT ![p] = target]
      <3>1. Step(p, "ioctl_find", "ioctl_set")
        BY <1>1, <2>2 DEF Step
      <3>2. DOMAIN num' = Procs
        BY <2>2 DEF DriverInv, TypeOK
      <3> QED BY <1>1, <3>1, <3>2, StepOn DEF PCs, Critical
    <2> QED BY <1>2, <2>1, <2>2
  <1>4. TypeOK'
    BY <1>3 DEF DriverInv, TypeOK, IoctlFind, Unlock, files
  <1> QED BY <1>1, <1>3, <1>4, OwnerUnlocks, QuietStep DEF IoctlFind, files

\* What an llseek makes of the length it has read: a target, or an error.
LEMMA LlseekSetIs ==
  ASSUME NEW p \in Procs, LlseekSet(p)
  PROVE  /\ call[p].pc = "llseek_set" /\ UNCHANGED <<device, files, ubuf>>
         /\ \E whence \in {"SEEK_SET", "SEEK_CUR", "SEEK_END"}, offset \in SeekOffsets :
              LET target == [SEEK_SET |-> 0, SEEK_CUR |-> f_pos[call[p].filp],
                             SEEK_END |-> num[p]][whence] + offset
              IN  \/ Finish(p)
                  \/ /\ InRange(p, target)
                     /\ call' = [call EXCEPT ![p].pc = "llseek_store"]
                     /\ num' = [num EXCEPT ![p] = target]
  BY DEF LlseekSet

LEMMA LlseekSetStep ==
  ASSUME DriverInv, NEW p \in Procs, LlseekSet(p)
  PROVE  DriverInv'
  <1>1. call[p].pc = "llseek_set" /\ UNCHANGED <<device, files, ubuf>> /\ opened' = opened
    BY LlseekSetIs DEF files
  <1>2. PICK target : \/ Finish(p)
                      \/ /\ call' = [call EXCEPT ![p].pc = "llseek_store"]
                         /\ num' = [num EXCEPT ![p] = target]
    BY LlseekSetIs
  <1>3. /\ call' \in [Procs -> Calls] /\ DOMAIN num' = Procs
        /\ \A q \in Procs \ {p} : call'[q] = call[q]
        /\ CallInv(p)'
    <2>1. CASE Finish(p)
      BY <2>1, FinishCall
    <2>2. CASE /\ call' = [call EXCEPT ![p].pc = "llseek_store"]
               /\ num' = [num EXCEPT ![p] = target]
      <3>1. Step(p, "llseek_set", "llseek_store")
        BY <1>1, <2>2 DEF Step
      <3>2. DOMAIN num' = Procs
        BY <2>2 DEF DriverInv, TypeOK
      <3> QED BY <1>1, <3>1, <3>2, StepOn DEF PCs, Critical
    <2> QED BY <1>2, <2>1, <2>2
  <1>4. TypeOK'
    BY <1>1, <1>3 DEF DriverInv, TypeOK, device, files
  <1> QED BY <1>1, <1>3, <1>4, QuietStep DEF device

\* The steps after the mutex: the position of the file is stored.
LEMMA PositionStep ==
  ASSUME DriverInv, NEW p \in Procs, LlseekStore(p) \/ IoctlSet(p) \/ Return(p)
  PROVE  DriverInv'
  <1>1. Finish(p) /\ UNCHANGED <<device, opened>>
    BY DEF LlseekStore, IoctlSet, Return
  <1>2. DOMAIN f_pos' = Files
    BY DEF LlseekStore, IoctlSet, Return, DriverInv, TypeOK
  <1>3. ubuf' \in [Procs -> Bytes]
    <2>1. ubuf \in [Procs -> Bytes] /\ <<>> \in Bytes
      BY EmptySeq DEF DriverInv, TypeOK, Bytes
    <2>2. ubuf' = ubuf \/ ubuf' = [ubuf EXCEPT ![p] = <<>>]
      BY DEF LlseekStore, IoctlSet, Return
    <2> QED BY <2>1, <2>2
  <1>4. TypeOK'
    BY <1>1, <1>2, <1>3, FinishCall DEF DriverInv, TypeOK, device
  <1> QED BY <1>1, <1>4, FinishCall, QuietStep DEF device

----------------------------------------------------------------------------
(* The steps of write, which change the ring and its memory.               *)

\* In the critical section nobody else relies on the ring or the memory.
LEMMA OwnerStep ==
  ASSUME DriverInv, TypeOK', NEW p \in Procs, call[p].pc \in Critical,
         UNCHANGED <<module, opened>>,
         Coherent(buffer', Entries),
         Safe(buffer', new_entry', heap'),
         \A q \in Procs \ {p} : call'[q] = call[q],
         CallInv(p)'
  PROVE  DriverInv'
  <1>1. \A q \in Procs : CallInv(q)'
    <2> SUFFICES ASSUME NEW q \in Procs, q # p PROVE CallInv(q)'
      OBVIOUS
    <2>1. lock # q
      BY OwnerUnlocks
    <2>2. call[q].pc \notin Critical /\ (call[q].pc # "idle" => call[q].filp \in opened)
      BY <2>1 DEF DriverInv, CallInv
    <2> QED BY <2>2 DEF CallInv, Critical
  <1> QED BY <1>1, MemorySafeIsSafe DEF DriverInv

\* A process in a call finds the memory safe.
LEMMA InCall ==
  ASSUME DriverInv, NEW p \in Procs, call[p].pc # "idle"
  PROVE  module = "live" /\ Safe(buffer, new_entry, heap)
  BY MemorySafeIsSafe DEF DriverInv, CallInv

\* The block that krealloc and memcpy leave is as long as new_entry will say.
LEMMA GrownFacts ==
  ASSUME DriverInv, NEW p \in Procs, call[p].pc # "idle", NEW bytes \in Seq(Byte)
  PROVE  /\ Grown(bytes) \in Bytes
         /\ Len(Grown(bytes)) = new_entry.size + Len(bytes)
  <1> DEFINE old == new_entry.buffptr
             kept == [i \in 1 .. new_entry.size |->
                        IF old # NoPtr /\ i <= Len(heap[old]) THEN heap[old][i] ELSE Junk]
  <1>1. /\ new_entry.size \in Nat /\ old \in Ptrs \cup {NoPtr}
        /\ heap \in [Ptrs -> Bytes \cup {Free}]
    BY DEF DriverInv, TypeOK, Entries
  <1>2. old # NoPtr => heap[old] \in Bytes
    BY <1>1, InCall DEF Safe
  <1>3. \A i \in 1 .. new_entry.size : kept[i] \in Byte \cup {Junk}
    <2> SUFFICES ASSUME NEW i \in 1 .. new_entry.size, old # NoPtr, i <= Len(heap[old])
                 PROVE  heap[old][i] \in Byte \cup {Junk}
      OBVIOUS
    <2>1. heap[old] \in Seq(Byte \cup {Junk})
      BY <1>2 DEF Bytes
    <2>2. i \in 1 .. Len(heap[old])
      BY <1>1, <2>1, LenProperties
    <2> QED BY <2>1, <2>2, ElementOfSeq
  <1>4. kept \in [1 .. new_entry.size -> Byte \cup {Junk}]
    BY <1>3
  <1>5. kept \in Seq(Byte \cup {Junk})
    <2> HIDE DEF kept
    <2> QED BY <1>1, <1>4, SeqDef
  <1>6. Len(kept) = new_entry.size
    <2> HIDE DEF kept
    <2>1. DOMAIN kept = 1 .. new_entry.size /\ DOMAIN kept = 1 .. Len(kept) /\ Len(kept) \in Nat
      BY <1>4, <1>5, LenProperties
    <2> QED BY <1>1, <2>1
  <1>7. bytes \in Seq(Byte \cup {Junk})
    BY SeqMonotonic
  <1>8. Grown(bytes) = kept \o bytes
    BY DEF Grown, Kept
  <1> HIDE DEF kept
  <1> QED BY <1>5, <1>6, <1>7, <1>8, ConcatProperties DEF Bytes

LEMMA WriteAppendStep ==
  ASSUME DriverInv, NEW p \in Procs, WriteAppend(p)
  PROVE  DriverInv'
  <1> DEFINE old == new_entry.buffptr
             bytes == call[p].kbuf
             grown == Grown(bytes)
  <1>1. /\ call[p].pc = "write_append" /\ call[p].pc \in Critical
        /\ call \in [Procs -> Calls] /\ bytes \in Seq(Byte)
        /\ UNCHANGED <<module, buffer, opened, f_pos, num, ubuf>>
    BY DEF WriteAppend, Grow, Critical, DriverInv, TypeOK, Calls, files
  <1>2. PICK q \in Ptrs :
          /\ q = old \/ heap[q] = Free
          /\ heap' = [r \in Ptrs |-> IF r = q THEN grown ELSE IF r = old THEN Free ELSE heap[r]]
          /\ new_entry' = [buffptr |-> q, size |-> new_entry.size + Len(bytes)]
    BY DEF WriteAppend, Grow
  <1>3. grown \in Bytes /\ Len(grown) = new_entry.size + Len(bytes)
    BY <1>1, GrownFacts
  <1>4. Len(bytes) \in Nat /\ new_entry.size \in Nat
    BY <1>1, LenProperties DEF DriverInv, TypeOK, Entries
  <1> HIDE DEF grown, old
  <1>5. new_entry' \in Entries /\ new_entry'.buffptr = q /\ q # NoPtr
    BY <1>2, <1>4, PtrsAssumption DEF Entries
  <1>6. /\ call' \in [Procs -> Calls]
        /\ \A r \in Procs \ {p} : call'[r] = call[r]
        /\ lock' \in Procs \cup {Free}
        /\ CallInv(p)'
    <2>1. CASE HasNewline(bytes)
      <3>1. call' = [call EXCEPT ![p].pc = "write_add"] /\ UNCHANGED lock
        BY <2>1 DEF WriteAppend, Grow
      <3>2. [call[p] EXCEPT !.pc = "write_add"] \in Calls
        BY <1>1, CallRecords DEF PCs
      <3>3. /\ call' \in [Procs -> Calls]
            /\ call'[p].pc = "write_add" /\ call'[p].filp = call[p].filp
            /\ \A r \in Procs \ {p} : call'[r] = call[r]
        BY <1>1, <3>1, <3>2 DEF Calls
      <3>4. CallInv(p)'
        BY <1>1, <1>5, <3>1, <3>3 DEF DriverInv, CallInv
      <3> QED BY <3>1, <3>3, <3>4 DEF DriverInv, TypeOK
    <2>2. CASE ~HasNewline(bytes)
      <3>1. Leave(p) /\ lock' = Free
        BY <2>2 DEF WriteAppend, Grow, Unlock
      <3> QED BY <1>1, <3>1, LeaveCall
    <2> QED BY <2>1, <2>2
  <1>7. TypeOK'
    <2>1. kbuf_lost' \in BOOLEAN
      BY DEF DriverInv, TypeOK, WriteAppend, Grow
    <2> QED BY <1>1, <1>2, <1>3, <1>5, <1>6, <2>1 DEF DriverInv, TypeOK
  <1>8. Safe(buffer', new_entry', heap')
    <2>1. Safe(buffer, new_entry, heap) /\ buffer' = buffer
      BY <1>1, InCall
    <2>2. \A i \in Oldest(buffer) :
            /\ Entry(buffer, i).buffptr # q
            /\ Entry(buffer, i).buffptr \in Ptrs
            /\ heap'[Entry(buffer, i).buffptr] = heap[Entry(buffer, i).buffptr]
      BY <1>2, <2>1 DEF Safe, old
    <2>3. heap'[q] = grown /\ grown # Free
      BY <1>2, <1>3, FreeAssumption DEF Bytes
    <2> QED BY <1>2, <1>3, <2>1, <2>2, <2>3 DEF Safe
  <1> QED BY <1>1, <1>6, <1>7, <1>8, OwnerStep DEF DriverInv

LEMMA WriteNoMemoryStep ==
  ASSUME DriverInv, NEW p \in Procs, WriteNoMemory(p)
  PROVE  DriverInv'
  <1>1. /\ call[p].pc = "write_append" /\ call[p].pc \in Critical
        /\ Finish(p) /\ lock' = Free
        /\ UNCHANGED <<module, buffer, heap, kbuf_lost, opened, f_pos, ubuf>>
        /\ new_entry' = [new_entry EXCEPT !.buffptr = NoPtr]
    BY DEF WriteNoMemory, Critical, Unlock, files
  <1>2. new_entry' \in Entries /\ new_entry'.buffptr = NoPtr
    BY <1>1 DEF DriverInv, TypeOK, Entries
  <1>3. TypeOK'
    BY <1>1, <1>2, FinishCall DEF DriverInv, TypeOK
  <1>4. Safe(buffer', new_entry', heap')
    <2>1. Safe(buffer, new_entry, heap)
      BY <1>1, InCall
    <2> QED BY <1>1, <1>2, <2>1, PtrsAssumption DEF Safe
  <1> QED BY <1>1, <1>3, <1>4, FinishCall, OwnerStep DEF DriverInv

\* What add_entry leaves, whether the ring was full or not: the new entry last,
\* before it the old ones, the first of which is dropped with its block if the
\* ring was full.
LEMMA AddEntryEntries ==
  ASSUME NEW b, Coherent(b, Entries), NEW e
  PROVE  \E last \in Nat, shift \in {0, 1} :
           /\ Oldest(AddEntry(b, e)) = 0 .. last
           /\ Oldest(b) = 0 .. (last - 1 + shift)
           /\ Entry(AddEntry(b, e), last) = e
           /\ \A l \in 0 .. (last - 1) :
                /\ l + shift \in Oldest(b)
                /\ Entry(AddEntry(b, e), l) = Entry(b, l + shift)
           /\ shift = 0 => BuffptrToFree(b) = NoPtr
           /\ shift = 1 => 0 \in Oldest(b) /\ BuffptrToFree(b) = Entry(b, 0).buffptr
  <1> DEFINE c == AddEntry(b, e)
             freed == BuffptrToFree(b)
  <1>1. CASE b.full
    <2>1. /\ EntryCount(b) = MaxOps /\ EntryCount(c) = MaxOps /\ MaxOps \in Nat \ {0}
          /\ \A l \in 0 .. (MaxOps - 2) : Entry(c, l) = Entry(b, l + 1)
          /\ Entry(c, MaxOps - 1) = e
          /\ freed = Entry(b, 0).buffptr
      BY <1>1, AddEntryShifts, MaxOpsAssumption DEF Entry
    <2> HIDE DEF c, freed
    <2>2. Oldest(b) = 0 .. (MaxOps - 1) /\ Oldest(c) = 0 .. (MaxOps - 1)
      BY <2>1 DEF Oldest
    <2>3. MaxOps - 1 \in Nat /\ 0 \in Oldest(b) /\ (MaxOps - 1) - 1 = MaxOps - 2
      BY <2>1, <2>2
    <2>4. \A l \in 0 .. (MaxOps - 2) : l + 1 \in Oldest(b)
      BY <2>1, <2>2
    <2>5. /\ Oldest(c) = 0 .. (MaxOps - 1) /\ Oldest(b) = 0 .. ((MaxOps - 1) - 1 + 1)
          /\ Entry(c, MaxOps - 1) = e
          /\ \A l \in 0 .. ((MaxOps - 1) - 1) : l + 1 \in Oldest(b) /\ Entry(c, l) = Entry(b, l + 1)
      BY <2>1, <2>2, <2>3, <2>4
    <2> QED BY <2>1, <2>3, <2>5 DEF c, freed
  <1>2. CASE ~b.full
    <2> DEFINE n == EntryCount(b)
    <2>1. /\ EntryCount(c) = n + 1 /\ n \in Nat
          /\ \A l \in 0 .. (n - 1) : Entry(c, l) = Entry(b, l)
          /\ Entry(c, n) = e
          /\ freed = NoPtr
      BY <1>2, AddEntryAppends, CountOfCoherent DEF Entry, BuffptrToFree
    <2> HIDE DEF c, freed
    <2>2. Oldest(b) = 0 .. (n - 1) /\ Oldest(c) = 0 .. n
      BY <2>1 DEF Oldest
    <2> HIDE DEF n
    <2>3. \A l \in 0 .. (n - 1) : l + 0 \in Oldest(b) /\ Entry(c, l) = Entry(b, l + 0)
      <3> TAKE l \in 0 .. (n - 1)
      <3>1. l + 0 = l
        BY <2>1
      <3> QED BY <2>1, <2>2, <3>1
    <2>4. n - 1 + 0 = n - 1
      BY <2>1
    <2> QED BY <2>1, <2>2, <2>3, <2>4 DEF c, freed
  <1> QED BY <1>1, <1>2

\* The finished command becomes the ring's, and the block that is freed is
\* nobody's any more.
LEMMA AddKeepsSafe ==
  ASSUME NEW b, Coherent(b, Entries), NEW e \in Entries, NEW h, NEW k,
         Safe(b, e, h), e.buffptr # NoPtr,
         k = [q \in Ptrs |-> IF q = BuffptrToFree(b) THEN Free ELSE h[q]]
  PROVE  Safe(AddEntry(b, e), NullEntry, k)
  <1> DEFINE c == AddEntry(b, e)
             freed == BuffptrToFree(b)
  <1>1. e.buffptr \in Ptrs /\ NoPtr \notin Ptrs /\ NullEntry.buffptr = NoPtr
    BY PtrsAssumption DEF Entries, NullEntry
  <1>2. PICK last \in Nat, shift \in {0, 1} :
          /\ Oldest(c) = 0 .. last
          /\ Entry(c, last) = e
          /\ \A l \in 0 .. (last - 1) :
               l + shift \in Oldest(b) /\ Entry(c, l) = Entry(b, l + shift)
          /\ shift = 0 => freed = NoPtr
          /\ shift = 1 => 0 \in Oldest(b) /\ freed = Entry(b, 0).buffptr
    BY AddEntryEntries
  <1> HIDE DEF c
  <1>3. e.buffptr # freed
    BY <1>1, <1>2 DEF Safe
  <1>4. \A l \in 0 .. (last - 1) :
          /\ Entry(c, l).buffptr \in Ptrs
          /\ Entry(c, l).buffptr # freed
          /\ Entry(c, l).buffptr # e.buffptr
          /\ h[Entry(c, l).buffptr] # Free
          /\ Len(h[Entry(c, l).buffptr]) = Entry(c, l).size
    <2> TAKE l \in 0 .. (last - 1)
    <2>1. l \in Nat /\ l + shift \in Oldest(b) /\ Entry(c, l) = Entry(b, l + shift)
      BY <1>2
    <2>2. Entry(c, l).buffptr # freed
      <3>1. CASE shift = 0
        BY <1>1, <1>2, <2>1, <3>1 DEF Safe
      <3>2. CASE shift = 1
        <4>1. l + 1 # 0
          BY <2>1
        <4> QED BY <1>2, <2>1, <3>2, <4>1 DEF Safe
      <3> QED BY <3>1, <3>2
    <2> QED BY <2>1, <2>2 DEF Safe
  <1>5. \A l, m \in 0 .. (last - 1) : l # m => Entry(c, l).buffptr # Entry(c, m).buffptr
    <2> TAKE l, m \in 0 .. (last - 1)
    <2>1. l \in Nat /\ m \in Nat /\ shift \in Nat
      OBVIOUS
    <2>2. l # m => l + shift # m + shift
      BY <2>1
    <2> QED BY <1>2, <2>2 DEF Safe
  <1>6. \A i \in Oldest(c) : i = last \/ i \in 0 .. (last - 1)
    BY <1>2
  <1>7. \A i \in Oldest(c) :
          /\ Entry(c, i).buffptr \in Ptrs
          /\ Entry(c, i).buffptr # freed
          /\ h[Entry(c, i).buffptr] # Free
          /\ Len(h[Entry(c, i).buffptr]) = Entry(c, i).size
    BY <1>1, <1>2, <1>3, <1>4, <1>6 DEF Safe
  <1>8. \A i, j \in Oldest(c) : i # j => Entry(c, i).buffptr # Entry(c, j).buffptr
    BY <1>2, <1>4, <1>5, <1>6
  <1>9. \A i \in Oldest(c) : k[Entry(c, i).buffptr] = h[Entry(c, i).buffptr]
    BY <1>7
  <1> HIDE DEF freed
  <1>10. Safe(c, NullEntry, k)
    BY <1>1, <1>7, <1>8, <1>9 DEF Safe
  <1> QED BY <1>10 DEF c

LEMMA WriteAddStep ==
  ASSUME DriverInv, NEW p \in Procs, WriteAdd(p)
  PROVE  DriverInv'
  <1>1. /\ call[p].pc = "write_add" /\ call[p].pc \in Critical
        /\ Leave(p) /\ lock' = Free
        /\ buffer' = AddEntry(buffer, new_entry)
        /\ heap' = [q \in Ptrs |-> IF q = BuffptrToFree(buffer) THEN Free ELSE heap[q]]
        /\ new_entry' = NullEntry /\ kbuf_lost' = TRUE
        /\ UNCHANGED <<module, opened, f_pos, num, ubuf>>
    BY DEF WriteAdd, PutInRing, Critical, Unlock, files
  <1>2. /\ Safe(buffer, new_entry, heap) /\ Coherent(buffer, Entries)
        /\ new_entry \in Entries /\ new_entry.buffptr # NoPtr
    BY <1>1, InCall DEF DriverInv, TypeOK, CallInv
  <1>3. Coherent(buffer', Entries)
    BY <1>1, <1>2, AddEntryCoherent
  <1>4. Safe(buffer', new_entry', heap')
    BY <1>1, <1>2, AddKeepsSafe
  <1>5. heap' \in [Ptrs -> Bytes \cup {Free}] /\ new_entry' \in Entries
    BY <1>1 DEF DriverInv, TypeOK, Entries, NullEntry
  <1>7. TypeOK'
    BY <1>1, <1>3, <1>5, LeaveCall DEF DriverInv, TypeOK, Coherent
  <1> QED BY <1>1, <1>3, <1>4, <1>7, LeaveCall, OwnerStep

----------------------------------------------------------------------------
(* The theorems.                                                           *)

LEMMA RunStep ==
  ASSUME DriverInv, NEW p \in Procs, Run(p)
  PROVE  DriverInv'
  BY ReadMissStep, ReadHitStep, ReadCopyStep, WriteAppendStep, WriteNoMemoryStep,
     WriteAddStep, LlseekLengthStep, LlseekSetStep, IoctlFindStep, PositionStep DEF Run

LEMMA NextDriverInv == DriverInv /\ [Next]_vars => DriverInv'
  <1> SUFFICES ASSUME DriverInv, [Next]_vars PROVE DriverInv'
    OBVIOUS
  <1>1. CASE LoadInit \/ LoadAdd \/ Unload
    BY <1>1, LoadInitStep, LoadAddStep, UnloadStep
  <1>2. CASE \E f \in Files : Release(f)
    BY <1>2, ReleaseStep
  <1>3. ASSUME NEW p \in Procs, \E f \in Files : Begin(p, f) PROVE DriverInv'
    BY <1>3, BeginStep
  <1>4. ASSUME NEW p \in Procs, GetLock(p) \/ Run(p) \/ Fault(p) PROVE DriverInv'
    BY <1>4, GetLockStep, RunStep, FaultStep
  <1>5. CASE UNCHANGED vars
    <2>1. TypeOK'
      BY <1>5 DEF DriverInv, TypeOK, vars, device, files
    <2>2. MemorySafe' /\ Coherent(buffer', Entries)
      BY <1>5, MemorySafeIsSafe DEF DriverInv, vars, device, files
    <2>3. \A p \in Procs : CallInv(p)'
      BY <1>5 DEF DriverInv, CallInv, vars, device, files
    <2> QED BY <1>5, <2>1, <2>2, <2>3 DEF DriverInv, vars, device, files
  <1> QED BY <1>1, <1>2, <1>3, <1>4, <1>5 DEF Next

\* Every state of the driver satisfies the invariant that the others follow from.
THEOREM DriverInvariant == Spec => []DriverInv
  BY InitDriverInv, NextDriverInv, PTL DEF Spec

\* Type correctness of the driver's state.
THEOREM DriverTypeCorrect == Spec => []TypeOK
  <1>1. DriverInv => TypeOK
    BY DEF DriverInv
  <1> QED BY DriverInvariant, <1>1, PTL

\* Between mutex_lock and mutex_unlock a process is alone (the handlers of
\* main.c), also after a read that forgot the unlock.
THEOREM DriverMutualExclusion == Spec => []MutualExclusion
  <1>1. DriverInv => MutualExclusion
    BY DEF DriverInv, CallInv, MutualExclusion
  <1> QED BY DriverInvariant, <1>1, PTL

\* No kfree and no krealloc of aesd_write takes away memory that the ring or the
\* command in progress still points to.
THEOREM DriverMemorySafe == Spec => []MemorySafe
  <1>1. DriverInv => MemorySafe
    BY DEF DriverInv
  <1> QED BY DriverInvariant, <1>1, PTL

\* What copy_to_user of aesd_read copies is memory in use and inside its block.
THEOREM DriverReadInBounds == Spec => []ReadInBounds
  <1>1. DriverInv => ReadInBounds
    <2> SUFFICES ASSUME DriverInv, NEW p \in Procs, call[p].pc = "read_copy"
                 PROVE  LET e == buffer.entry[call[p].slot]
                        IN  /\ e.buffptr \in Ptrs
                            /\ heap[e.buffptr] # Free
                            /\ call[p].byte < Len(heap[e.buffptr])
      BY DEF ReadInBounds
    <2> QED BY ReadCopySource
  <1> QED BY DriverInvariant, <1>1, PTL

\* What a step of process p does to the mutex when no user copy faults.
HandsLockOn(p) ==
  /\ \A q \in Procs \ {p} : call'[q] = call[q]
  /\ \/ lock' = Free
     \/ lock' = lock /\ (call[p].pc \in Critical => call'[p].pc \in Critical)
     \/ lock' = p /\ call'[p].pc \in Critical

LEMMA RunHandsLockOn ==
  ASSUME DriverInv, NEW p \in Procs, Run(p)
  PROVE  HandsLockOn(p)
  <1>1. call \in [Procs -> Calls]
    BY DEF DriverInv, TypeOK
  <1>2. CASE \/ ReadMiss(p) \/ ReadCopy(p) \/ LlseekLength(p) \/ WriteAdd(p)
             \/ WriteNoMemory(p)
    BY <1>1, <1>2 DEF ReadMiss, ReadCopy, CopyOut, LlseekLength, WriteAdd, PutInRing,
      WriteNoMemory, HandsLockOn,
                      Unlock, Step, Leave, Finish
  <1>3. CASE IoctlFind(p)
    <2>1. \A q \in Procs \ {p} : call'[q] = call[q]
      BY <1>1, <1>3 DEF IoctlFind, Finish
    <2> QED BY <1>3, <2>1 DEF IoctlFind, Unlock, HandsLockOn
  <1>4. CASE ReadHit(p)
    <2>1. PICK h : call' = [call EXCEPT ![p].pc = "read_copy", ![p].slot = h.slot,
                                        ![p].byte = h.byte]
      BY <1>4 DEF ReadHit, Hit
    <2> QED BY <1>1, <1>4, <2>1 DEF ReadHit, Hit, HandsLockOn, Critical, device, Calls
  <1>5. CASE WriteAppend(p)
    <2>1. \/ call' = [call EXCEPT ![p].pc = "write_add"] /\ lock' = lock
          \/ Leave(p) /\ lock' = Free
      BY <1>5 DEF WriteAppend, Grow, Unlock
    <2> QED BY <1>1, <2>1 DEF HandsLockOn, Critical, Leave, Calls
  <1>6. CASE LlseekStore(p) \/ IoctlSet(p) \/ Return(p)
    <2>1. /\ call[p].pc \in {"llseek_store", "ioctl_set", "return"}
          /\ Finish(p) /\ lock' = lock
      BY <1>6 DEF LlseekStore, IoctlSet, Return, device
    <2> QED BY <1>1, <2>1 DEF HandsLockOn, Critical, Finish
  <1>7. CASE LlseekSet(p)
    <2>1. call[p].pc = "llseek_set" /\ lock' = lock
      BY <1>7, LlseekSetIs DEF device
    <2>2. Finish(p) \/ call' = [call EXCEPT ![p].pc = "llseek_store"]
      BY <1>7, LlseekSetIs
    <2> QED BY <1>1, <2>1, <2>2 DEF HandsLockOn, Critical, Finish
  <1> QED BY <1>2, <1>3, <1>4, <1>5, <1>6, <1>7 DEF Run

LEMMA OthersHandLockOn ==
  ASSUME DriverInv, ~CopyFails, NEW p \in Procs,
         GetLock(p) \/ Fault(p) \/ \E f \in Files : Begin(p, f)
  PROVE  HandsLockOn(p)
  <1>1. call \in [Procs -> Calls]
    BY DEF DriverInv, TypeOK
  <1>2. CASE GetLock(p)
    <2>1. PICK from \in PCs, to \in Critical : Lock(p, from, to)
      BY <1>2 DEF GetLock, ReadLock, WriteLock, LlseekLock, IoctlLock, PCs, Critical
    <2> QED BY <1>1, <2>1 DEF HandsLockOn, Lock, Step, Calls
  <1>3. CASE Fault(p)
    BY <1>1, <1>3 DEF Fault, ReadFault, Interrupted, Finish, HandsLockOn, Critical, device
  <1>4. CASE \E f \in Files : Begin(p, f)
    <2>1. PICK f \in Files : Begin(p, f)
      BY <1>4
    <2>2. CASE Open(p, f) \/ WriteFault(p, f)
      BY <2>2 DEF Open, WriteFault, HandsLockOn, device
    <2>3. CASE ReadCall(p, f) \/ WriteCall(p, f) \/ LlseekCall(p, f) \/ IoctlCall(p, f)
      <3>1. PICK pc, kbuf : Enter(p, f, pc, kbuf) /\ lock' = lock
        BY <2>3 DEF ReadCall, WriteCall, LlseekCall, IoctlCall, device
      <3> QED BY <1>1, <3>1 DEF Enter, HandsLockOn, Critical
    <2> QED BY <2>1, <2>2, <2>3 DEF Begin
  <1> QED BY <1>2, <1>3, <1>4

\* Without faults of user copies every path out of a handler gives the mutex up:
\* aesd_read's return after a fault (main.c:103) is the only one that does not.
THEOREM DriverReturnsUnlocked ==
  ASSUME ~CopyFails
  PROVE  Spec => []ReturnsUnlocked
  <1>1. Init => ReturnsUnlocked
    BY ProcsAssumption DEF Init, ReturnsUnlocked
  <1>2. DriverInv /\ ReturnsUnlocked /\ [Next]_vars => ReturnsUnlocked'
    <2> SUFFICES ASSUME DriverInv, ReturnsUnlocked, [Next]_vars PROVE ReturnsUnlocked'
      OBVIOUS
    <2>1. CASE UNCHANGED vars
      BY <2>1 DEF ReturnsUnlocked, vars, device
    <2>2. CASE LoadInit
      BY <2>2, ProcsAssumption DEF LoadInit, ReturnsUnlocked
    <2>3. CASE LoadAdd \/ Unload \/ \E f \in Files : Release(f)
      BY <2>3 DEF LoadAdd, Unload, Release, ReturnsUnlocked, device
    <2>4. ASSUME NEW p \in Procs,
                 (\E f \in Files : Begin(p, f)) \/ GetLock(p) \/ Run(p) \/ Fault(p)
          PROVE  ReturnsUnlocked'
      <3>1. HandsLockOn(p)
        BY <2>4, RunHandsLockOn, OthersHandLockOn
      <3> QED BY <3>1, ProcsAssumption DEF HandsLockOn, ReturnsUnlocked
    <2> QED BY <2>1, <2>2, <2>3, <2>4 DEF Next
  <1> QED BY DriverInvariant, <1>1, <1>2, PTL DEF Spec

----------------------------------------------------------------------------
(* The positions of the files and of the calls.                            *)

LEMMA EntrySizes == \A e \in Entries : e.size \in Nat
  BY DEF Entries

\* What the step of p leaves in its own number is natural.
LEMMA RunNumbers ==
  ASSUME DriverInv, PositionsNatural, NEW p \in Procs, Run(p)
  PROVE  num' \in [Procs -> Nat]
  <1>1. num \in [Procs -> Nat] /\ Coherent(buffer, Entries)
    BY DEF PositionsNatural, DriverInv
  <1>2. CASE ReadMiss(p) \/ ReadHit(p) \/ WriteAppend(p) \/ WriteAdd(p)
    BY <1>1, <1>2 DEF ReadMiss, ReadHit, Hit, WriteAppend, Grow, WriteAdd, PutInRing
  <1>3. CASE WriteNoMemory(p) \/ LlseekStore(p) \/ IoctlSet(p) \/ Return(p)
    <2>1. Finish(p)
      BY <1>3 DEF WriteNoMemory, LlseekStore, IoctlSet, Return
    <2> QED BY <1>1, <2>1 DEF Finish
  <1>4. CASE ReadCopy(p)
    <2>1. PICK n \in CopySizes(p) : num' = [num EXCEPT ![p] = @ + n]
      BY <1>4 DEF ReadCopy
    <2>2. n \in Nat
      <3> DEFINE size == buffer.entry[call[p].slot].size
                 byte == call[p].byte
      <3>1. size \in Nat /\ byte \in Nat /\ byte < size
        BY <1>4, ReadCopySource DEF ReadCopy
      <3>2. PICK count \in ReadCounts : n = Smaller(count, size - byte)
        BY DEF CopySizes
      <3> HIDE DEF size, byte
      <3>3. count \in Nat /\ size - byte \in Nat
        BY <3>1, ArgumentsAssumption
      <3> QED BY <3>2, <3>3 DEF Smaller
    <2> QED BY <1>1, <2>1, <2>2
  <1>5. CASE LlseekLength(p)
    <2>1. GetLength(buffer) \in Nat
      BY <1>1, EntrySizes, GetLengthNat
    <2> QED BY <1>1, <1>5, <2>1 DEF LlseekLength
  <1>6. CASE IoctlFind(p)
    <2>1. PICK cmd \in SeekCmds, off \in CmdOffsets :
            \/ Finish(p)
            \/ /\ FindSeekto(buffer, cmd, off) # -1
               /\ num' = [num EXCEPT ![p] = FindSeekto(buffer, cmd, off)]
      BY <1>6 DEF IoctlFind
    <2>2. CASE Finish(p)
      BY <1>1, <2>2 DEF Finish
    <2>3. CASE /\ FindSeekto(buffer, cmd, off) # -1
               /\ num' = [num EXCEPT ![p] = FindSeekto(buffer, cmd, off)]
      <3>1. cmd \in Nat /\ off \in Nat
        BY ArgumentsAssumption
      <3>2. FindSeekto(buffer, cmd, off) \in Nat
        BY <1>1, <2>3, <3>1, EntrySizes, FindSeektoNat
      <3> QED BY <1>1, <2>3, <3>2
    <2> QED BY <2>1, <2>2, <2>3
  <1>7. CASE LlseekSet(p)
    <2> DEFINE base == [SEEK_SET |-> 0, SEEK_CUR |-> f_pos[call[p].filp], SEEK_END |-> num[p]]
    <2>1. call[p].filp \in Files
      BY <1>7, LlseekSetIs DEF DriverInv, CallInv, TypeOK
    <2>2. PICK whence \in {"SEEK_SET", "SEEK_CUR", "SEEK_END"}, offset \in SeekOffsets :
            \/ Finish(p)
            \/ /\ InRange(p, base[whence] + offset)
               /\ num' = [num EXCEPT ![p] = base[whence] + offset]
      BY <1>7, LlseekSetIs
    <2>3. base[whence] \in Nat /\ offset \in Int
      BY <1>1, <2>1, ArgumentsAssumption DEF PositionsNatural
    <2> HIDE DEF base
    <2>4. PICK target : target = base[whence] + offset
      OBVIOUS
    <2>5. InRange(p, target) => target \in Nat
      BY <2>3, <2>4 DEF InRange
    <2>6. CASE Finish(p)
      BY <1>1, <2>6 DEF Finish
    <2>7. CASE InRange(p, target) /\ num' = [num EXCEPT ![p] = target]
      BY <1>1, <2>5, <2>7
    <2> QED BY <2>2, <2>4, <2>6, <2>7
  <1> QED BY <1>2, <1>3, <1>4, <1>5, <1>6, <1>7 DEF Run

\* What it leaves in the position of the file is natural.
LEMMA RunPositions ==
  ASSUME DriverInv, PositionsNatural, NEW p \in Procs, Run(p)
  PROVE  f_pos' \in [Files -> Nat]
  <1>1. f_pos \in [Files -> Nat] /\ num[p] \in Nat
    BY DEF PositionsNatural
  <1>2. CASE \/ ReadMiss(p) \/ ReadHit(p) \/ ReadCopy(p) \/ WriteAppend(p) \/ WriteNoMemory(p)
             \/ WriteAdd(p) \/ LlseekLength(p) \/ LlseekSet(p) \/ IoctlFind(p)
    BY <1>1, <1>2 DEF ReadMiss, ReadHit, Hit, ReadCopy, CopyOut, WriteAppend, Grow,
      WriteNoMemory, WriteAdd, PutInRing, LlseekLength, LlseekSet, IoctlFind, files
  <1>3. CASE Return(p) \/ LlseekStore(p) \/ IoctlSet(p)
    BY <1>1, <1>3 DEF Return, LlseekStore, IoctlSet
  <1> QED BY <1>2, <1>3 DEF Run

LEMMA PositionsStep ==
  ASSUME DriverInv, PositionsNatural, [Next]_vars
  PROVE  PositionsNatural'
  <1>1. f_pos \in [Files -> Nat] /\ num \in [Procs -> Nat]
    BY DEF PositionsNatural
  <1>2. CASE LoadInit \/ LoadAdd \/ Unload \/ UNCHANGED vars
    BY <1>1, <1>2 DEF LoadInit, LoadAdd, Unload, vars, files, PositionsNatural
  <1>3. CASE \E f \in Files : Release(f)
    BY <1>1, <1>3 DEF Release, PositionsNatural
  <1>4. ASSUME NEW p \in Procs, NEW f \in Files, Begin(p, f) PROVE PositionsNatural'
    BY <1>1, <1>4 DEF Begin, Open, ReadCall, WriteCall, WriteFault, LlseekCall, IoctlCall,
      files, PositionsNatural
  <1>5. ASSUME NEW p \in Procs, GetLock(p) PROVE PositionsNatural'
    BY <1>1, <1>5 DEF GetLock, ReadLock, WriteLock, LlseekLock, IoctlLock, Lock, files,
      PositionsNatural
  <1>6. ASSUME NEW p \in Procs, Run(p) PROVE PositionsNatural'
    BY <1>6, RunNumbers, RunPositions DEF PositionsNatural
  <1>7. ASSUME NEW p \in Procs, Fault(p) PROVE PositionsNatural'
    BY <1>1, <1>7 DEF Fault, ReadFault, Interrupted, Finish, files, PositionsNatural
  <1> QED BY <1>2, <1>3, <1>4, <1>5, <1>6, <1>7 DEF Next

\* No file position and no number a call works with is ever negative (aesd_llseek,
\* aesd_ioctl and the store of the VFS), whatever is added to a position that other
\* calls on the file are moving.
THEOREM DriverPositionsNatural == Spec => []PositionsNatural
  <1>1. Init => PositionsNatural
    BY DEF Init, PositionsNatural
  <1> QED BY DriverInvariant, <1>1, PositionsStep, PTL DEF Spec

----------------------------------------------------------------------------
(* What a file has been read of is not read again.                         *)

\* The calls that carry the position they will read at, or store back.
Carrying == {"read_lock", "read_find", "read_copy", "write_lock", "write_append", "write_add"}

\* Nothing past the position of a file has been read: not past the position a call c
\* with number n goes on with, nor past the file's own x, until the call that has read
\* is about to store its number there.
Behind(m, f, c, n, x) ==
  /\ c.filp = f /\ c.pc \in Carrying \cup {"return"} => m <= n
  /\ ~ (c.filp = f /\ c.pc = "return") => m <= x

\* NeverRereads is not inductive: the mark has to stay behind the positions through
\* every phase of a call, and the calls on a file are its holder's.
MarkInv ==
  /\ mark \in [Files -> Nat]
  /\ \A p \in Procs : call[p].pc # "idle" => p \in Holders[call[p].filp]
  /\ \A p \in Procs, f \in Files :
       Holders[f] = {p} => Behind(mark[f], f, call[p], num[p], f_pos[f])

MarkIInv == DriverInv /\ PositionsNatural /\ MarkInv

\* What the steps of a call do to it, to its number and to the positions.
Enters(p) ==
  /\ call[p].pc = "idle"
  /\ call'[p].filp \in Files /\ p \in Holders[call'[p].filp]
  /\ call'[p].pc \notin {"idle", "return"}
  /\ call'[p].pc \in Carrying => num'[p] = f_pos[call'[p].filp]
  /\ f_pos' = f_pos

Advances(p) ==
  /\ call[p].pc \notin {"idle", "return"}
  /\ call'[p].filp = call[p].filp /\ call'[p].pc # "idle"
  /\ call'[p].pc \in Carrying \cup {"return"} => call[p].pc \in Carrying /\ num'[p] >= num[p]
  /\ f_pos' = f_pos

Ends(p) == call[p].pc # "return" /\ call'[p] = NoCall /\ f_pos' = f_pos

Returns(p) ==
  /\ call[p].pc = "return" /\ call'[p] = NoCall
  /\ f_pos' = [f_pos EXCEPT ![call[p].filp] = num[p]]

Sets(p) ==
  /\ call[p].pc \in {"llseek_store", "ioctl_set"} /\ call'[p] = NoCall
  /\ \A g \in Files : g # call[p].filp => f_pos'[g] = f_pos[g]

CallStep(p) ==
  /\ \A q \in Procs \ {p} : call'[q] = call[q] /\ num'[q] = num[q] /\ ubuf'[q] = ubuf[q]
  /\ Enters(p) \/ Advances(p) \/ Ends(p) \/ Returns(p) \/ Sets(p)

\* What the invariant says of the types.
LEMMA MarkTypes ==
  ASSUME MarkIInv
  PROVE  /\ call \in [Procs -> Calls] /\ num \in [Procs -> Nat] /\ ubuf \in [Procs -> Bytes]
         /\ f_pos \in [Files -> Nat]
         /\ \A p \in Procs : call[p].pc # "idle" => call[p].filp \in opened /\ call[p].filp \in Files
  BY DEF MarkIInv, PositionsNatural, DriverInv, TypeOK, CallInv

\* A call that ends.
LEMMA FinishIs ==
  ASSUME MarkIInv, NEW p \in Procs, Finish(p)
  PROVE  /\ call'[p] = NoCall
         /\ \A q \in Procs \ {p} : call'[q] = call[q] /\ num'[q] = num[q]
  BY MarkTypes DEF Finish

LEMMA LeaveIs ==
  ASSUME MarkIInv, NEW p \in Procs, Leave(p)
  PROVE  /\ call'[p].filp = call[p].filp /\ call'[p].pc = "return"
         /\ \A q \in Procs \ {p} : call'[q] = call[q]
  BY MarkTypes DEF Leave, NoCall

LEMMA StepIs ==
  ASSUME MarkIInv, NEW p \in Procs, NEW from, NEW to, Step(p, from, to)
  PROVE  /\ call[p].pc = from /\ call'[p].pc = to /\ call'[p].filp = call[p].filp
         /\ \A q \in Procs \ {p} : call'[q] = call[q]
  BY MarkTypes DEF Step, Calls

LEMMA EnterIs ==
  ASSUME MarkIInv, NEW p \in Procs, NEW f \in Files, NEW pc, NEW kbuf, Enter(p, f, pc, kbuf)
  PROVE  /\ call[p].pc = "idle" /\ call'[p].pc = pc /\ call'[p].filp = f /\ p \in Holders[f]
         /\ \A q \in Procs \ {p} : call'[q] = call[q]
  BY MarkTypes DEF Enter, NoCall

LEMMA BeginIsCallStep ==
  ASSUME MarkIInv, NEW p \in Procs, NEW f \in Files,
         ReadCall(p, f) \/ WriteCall(p, f) \/ LlseekCall(p, f) \/ IoctlCall(p, f)
  PROVE  CallStep(p)
  <1>1. CASE ReadCall(p, f)
    <2>1. Enter(p, f, "read_lock", <<>>)
      BY <1>1 DEF ReadCall
    <2> QED BY <1>1, <2>1, EnterIs, MarkTypes DEF ReadCall, files, CallStep, Enters, Carrying
  <1>2. CASE WriteCall(p, f)
    <2>1. PICK kbuf : Enter(p, f, "write_lock", kbuf)
      BY <1>2 DEF WriteCall
    <2> QED BY <1>2, <2>1, EnterIs, MarkTypes DEF WriteCall, files, CallStep, Enters, Carrying
  <1>3. CASE LlseekCall(p, f)
    <2>1. Enter(p, f, "llseek_lock", <<>>)
      BY <1>3 DEF LlseekCall
    <2> QED BY <1>3, <2>1, EnterIs, MarkTypes DEF LlseekCall, files, CallStep, Enters, Carrying
  <1>4. CASE IoctlCall(p, f)
    <2>1. Enter(p, f, "ioctl_lock", <<>>)
      BY <1>4 DEF IoctlCall
    <2> QED BY <1>4, <2>1, EnterIs, MarkTypes DEF IoctlCall, files, CallStep, Enters, Carrying
  <1> QED BY <1>1, <1>2, <1>3, <1>4

LEMMA GetLockIsCallStep ==
  ASSUME MarkIInv, NEW p \in Procs, GetLock(p)
  PROVE  CallStep(p)
  <1>1. PICK from \in {"read_lock", "write_lock", "llseek_lock", "ioctl_lock"},
             to \in {"read_find", "write_append", "llseek_length", "ioctl_find"} :
          /\ Lock(p, from, to)
          /\ to \in Carrying => from \in Carrying
    BY DEF GetLock, ReadLock, WriteLock, LlseekLock, IoctlLock, Carrying
  <1>2. Step(p, from, to) /\ UNCHANGED <<f_pos, num, ubuf>>
    BY <1>1 DEF Lock, files
  <1>3. /\ call[p].pc = from /\ call'[p].pc = to /\ call'[p].filp = call[p].filp
        /\ \A q \in Procs \ {p} : call'[q] = call[q]
    BY <1>2, StepIs
  <1>4. from \notin {"idle", "return"} /\ to \notin {"idle", "return"}
    BY <1>1
  <1>5. num'[p] >= num[p]
    BY <1>2, MarkTypes
  <1>6. Advances(p)
    BY <1>1, <1>2, <1>3, <1>4, <1>5 DEF Advances
  <1> QED BY <1>2, <1>3, <1>6 DEF CallStep

LEMMA FaultIsCallStep ==
  ASSUME MarkIInv, NEW p \in Procs, Fault(p)
  PROVE  CallStep(p)
  <1>1. CASE ReadFault(p)
    <2>1. Leave(p) /\ call[p].pc = "read_copy" /\ UNCHANGED <<f_pos, num, ubuf>>
      BY <1>1 DEF ReadFault, files
    <2>2. num'[p] >= num[p]
      BY <2>1, MarkTypes
    <2>3. Advances(p)
      BY <2>1, <2>2, LeaveIs DEF Advances, Carrying
    <2> QED BY <2>1, <2>3, LeaveIs DEF CallStep
  <1>2. CASE Interrupted(p)
    BY <1>2, FinishIs DEF Interrupted, files, CallStep, Ends
  <1> QED BY <1>1, <1>2 DEF Fault

\* A read advances its number by what it delivers (retval and *f_pos of aesd_read).
LEMMA ReadCopyIs ==
  ASSUME MarkIInv, NEW p \in Procs, ReadCopy(p)
  PROVE  /\ call[p].pc = "read_copy" /\ Leave(p) /\ f_pos' = f_pos
         /\ num'[p] = num[p] + Len(ubuf'[p]) /\ Len(ubuf'[p]) \in Nat
         /\ \A q \in Procs \ {p} : num'[q] = num[q] /\ ubuf'[q] = ubuf[q]
  <1> DEFINE e == buffer.entry[call[p].slot]
             byte == call[p].byte
             block == heap[e.buffptr]
  <1>1. PICK n \in CopySizes(p) : CopyOut(p, n) /\ num' = [num EXCEPT ![p] = @ + n]
    BY DEF ReadCopy
  <1>2. /\ call[p].pc = "read_copy" /\ Leave(p) /\ f_pos' = f_pos
        /\ ubuf' = [ubuf EXCEPT ![p] = SubSeq(block, byte + 1, byte + n)]
    BY <1>1 DEF ReadCopy, CopyOut, files
  <1>3. /\ block \in Bytes /\ Len(block) = e.size
        /\ e.size \in Nat /\ byte \in Nat /\ byte < e.size
    BY <1>2, ReadCopySource DEF MarkIInv
  <1>4. PICK count \in ReadCounts : n = Smaller(count, e.size - byte)
    BY DEF CopySizes
  <1>5. ubuf'[p] = SubSeq(block, byte + 1, byte + n)
    BY <1>2, MarkTypes
  <1> HIDE DEF e, byte, block
  <1>6. n \in Nat /\ byte + n <= Len(block)
    <2>1. count \in Nat /\ e.size - byte \in Nat
      BY <1>3, ArgumentsAssumption
    <2> QED BY <1>3, <1>4, <2>1 DEF Smaller
  <1>7. Len(ubuf'[p]) = n
    <2>1. PICK w : w = SubSeq(block, byte + 1, byte + n)
      OBVIOUS
    <2>2. \A i \in (byte + 1) .. (byte + n) : block[i] \in Byte \cup {Junk}
      BY <1>3, <1>6, ElementOfSeq DEF Bytes
    <2>3. Len(SubSeq(block, byte + 1, byte + n))
            = IF byte + 1 <= byte + n THEN byte + n - (byte + 1) + 1 ELSE 0
      BY <1>3, <1>6, <2>2, SubSeqProperties DEF Bytes
    <2> QED BY <1>3, <1>5, <1>6, <2>3
  <1> QED BY <1>1, <1>2, <1>6, <1>7, MarkTypes

LEMMA RunIsCallStep ==
  ASSUME MarkIInv, NEW p \in Procs, Run(p)
  PROVE  CallStep(p)
  <1>1. num[p] >= num[p]
    BY MarkTypes
  <1>2. CASE ReadMiss(p)
    <2>1. Step(p, "read_find", "return") /\ UNCHANGED <<f_pos, num, ubuf>>
      BY <1>2 DEF ReadMiss, files
    <2> QED BY <1>1, <2>1, StepIs DEF CallStep, Advances, Carrying
  <1>3. CASE ReadHit(p)
    <2>1. PICK h : call' = [call EXCEPT ![p].pc = "read_copy", ![p].slot = h.slot,
                                        ![p].byte = h.byte]
      BY <1>3 DEF ReadHit, Hit
    <2>2. call[p].pc = "read_find" /\ UNCHANGED <<f_pos, num, ubuf>>
      BY <1>3 DEF ReadHit, Hit, files
    <2>3. /\ call'[p].pc = "read_copy" /\ call'[p].filp = call[p].filp
          /\ \A q \in Procs \ {p} : call'[q] = call[q]
      BY <2>1, MarkTypes DEF Calls
    <2> QED BY <1>1, <2>2, <2>3 DEF CallStep, Advances, Carrying
  <1>4. CASE ReadCopy(p)
    <2>1. num'[p] >= num[p]
      BY <1>4, ReadCopyIs, MarkTypes
    <2> QED BY <1>4, <2>1, ReadCopyIs, LeaveIs DEF CallStep, Advances, Carrying
  <1>5. CASE WriteAppend(p)
    <2>1. /\ call[p].pc = "write_append" /\ UNCHANGED <<f_pos, num, ubuf>>
          /\ call' = [call EXCEPT ![p].pc = "write_add"] \/ Leave(p)
      BY <1>5 DEF WriteAppend, Grow, files
    <2>2. /\ call'[p].pc \in {"write_add", "return"} /\ call'[p].filp = call[p].filp
          /\ \A q \in Procs \ {p} : call'[q] = call[q]
      <3>1. CASE call' = [call EXCEPT ![p].pc = "write_add"]
        BY <3>1, MarkTypes DEF Calls
      <3>2. CASE Leave(p)
        BY <3>2, LeaveIs
      <3> QED BY <2>1, <3>1, <3>2
    <2> QED BY <1>1, <2>1, <2>2 DEF CallStep, Advances, Carrying
  <1>6. CASE WriteNoMemory(p)
    BY <1>6, FinishIs DEF WriteNoMemory, files, CallStep, Ends
  <1>7. CASE WriteAdd(p)
    <2>1. call[p].pc = "write_add" /\ UNCHANGED <<f_pos, num, ubuf>> /\ Leave(p)
      BY <1>7 DEF WriteAdd, PutInRing, files
    <2> QED BY <1>1, <2>1, LeaveIs DEF CallStep, Advances, Carrying
  <1>8. CASE LlseekLength(p)
    <2>1. Step(p, "llseek_length", "llseek_set") /\ UNCHANGED <<f_pos, ubuf>>
      BY <1>8 DEF LlseekLength, files
    <2>2. \A q \in Procs \ {p} : num'[q] = num[q]
      BY <1>8, MarkTypes DEF LlseekLength
    <2> QED BY <2>1, <2>2, StepIs DEF CallStep, Advances, Carrying
  <1>9. CASE IoctlFind(p)
    <2>1. PICK target : \/ Finish(p)
                        \/ /\ call' = [call EXCEPT ![p].pc = "ioctl_set"]
                           /\ num' = [num EXCEPT ![p] = target]
      BY <1>9 DEF IoctlFind
    <2>2. call[p].pc = "ioctl_find" /\ UNCHANGED <<f_pos, ubuf>>
      BY <1>9 DEF IoctlFind, files
    <2>3. CASE Finish(p)
      BY <2>2, <2>3, FinishIs DEF CallStep, Ends
    <2>4. CASE /\ call' = [call EXCEPT ![p].pc = "ioctl_set"]
               /\ num' = [num EXCEPT ![p] = target]
      <3>1. /\ call'[p].pc = "ioctl_set" /\ call'[p].filp = call[p].filp
            /\ \A q \in Procs \ {p} : call'[q] = call[q] /\ num'[q] = num[q]
        BY <2>4, MarkTypes DEF Calls
      <3> QED BY <2>2, <3>1 DEF CallStep, Advances, Carrying
    <2> QED BY <2>1, <2>3, <2>4
  <1>10. CASE LlseekSet(p)
    <2>1. PICK target : \/ Finish(p)
                        \/ /\ call' = [call EXCEPT ![p].pc = "llseek_store"]
                           /\ num' = [num EXCEPT ![p] = target]
      BY <1>10, LlseekSetIs
    <2>2. call[p].pc = "llseek_set" /\ UNCHANGED <<f_pos, ubuf>>
      BY <1>10, LlseekSetIs DEF files
    <2>3. CASE Finish(p)
      BY <2>2, <2>3, FinishIs DEF CallStep, Ends
    <2>4. CASE /\ call' = [call EXCEPT ![p].pc = "llseek_store"]
               /\ num' = [num EXCEPT ![p] = target]
      <3>1. /\ call'[p].pc = "llseek_store" /\ call'[p].filp = call[p].filp
            /\ \A q \in Procs \ {p} : call'[q] = call[q] /\ num'[q] = num[q]
        BY <2>4, MarkTypes DEF Calls
      <3> QED BY <2>2, <3>1 DEF CallStep, Advances, Carrying
    <2> QED BY <2>1, <2>3, <2>4
  <1>11. CASE IoctlSet(p)
    <2>1. /\ call[p].pc = "ioctl_set" /\ Finish(p) /\ ubuf' = ubuf
          /\ f_pos' = [f_pos EXCEPT ![call[p].filp] = num[p]]
      BY <1>11 DEF IoctlSet
    <2>2. \A g \in Files : g # call[p].filp => f_pos'[g] = f_pos[g]
      BY <2>1, MarkTypes
    <2> QED BY <2>1, <2>2, FinishIs DEF CallStep, Sets
  <1>13. CASE LlseekStore(p)
    <2>1. /\ call[p].pc = "llseek_store" /\ Finish(p) /\ ubuf' = ubuf
          /\ f_pos' = [f_pos EXCEPT ![call[p].filp] = num[p]]
      BY <1>13 DEF LlseekStore
    <2>2. \A g \in Files : g # call[p].filp => f_pos'[g] = f_pos[g]
      BY <2>1, MarkTypes
    <2> QED BY <2>1, <2>2, FinishIs DEF CallStep, Sets
  <1>12. CASE Return(p)
    <2>1. /\ call[p].pc = "return" /\ Finish(p) /\ ubuf' = [ubuf EXCEPT ![p] = <<>>]
          /\ f_pos' = [f_pos EXCEPT ![call[p].filp] = num[p]]
      BY <1>12 DEF Return
    <2>2. \A q \in Procs \ {p} : ubuf'[q] = ubuf[q]
      BY <2>1, MarkTypes
    <2> QED BY <2>1, <2>2, FinishIs DEF CallStep, Returns
  <1> QED BY <1>2, <1>3, <1>4, <1>5, <1>6, <1>7, <1>8, <1>9, <1>10, <1>11, <1>12, <1>13 DEF Run

\* The other steps leave the calls alone.
Aside ==
  /\ UNCHANGED <<call, num, ubuf>>
  /\ \A f \in Files : f_pos'[f] = f_pos[f] \/ f \notin opened'

LEMMA NextIsCallStep ==
  ASSUME MarkIInv, Next
  PROVE  Aside \/ \E p \in Procs : CallStep(p)
  <1>1. CASE LoadInit \/ LoadAdd \/ Unload
    BY <1>1 DEF LoadInit, LoadAdd, Unload, files, Aside
  <1>2. ASSUME NEW f \in Files, Release(f) PROVE Aside
    BY <1>2, MarkTypes DEF Release, Aside
  <1>3. ASSUME NEW p \in Procs, NEW f \in Files, Begin(p, f) PROVE Aside \/ CallStep(p)
    BY <1>3, BeginIsCallStep DEF Begin, Open, WriteFault, files, Aside
  <1>4. ASSUME NEW p \in Procs, GetLock(p) \/ Run(p) \/ Fault(p) PROVE CallStep(p)
    BY <1>4, GetLockIsCallStep, RunIsCallStep, FaultIsCallStep
  <1> QED BY <1>1, <1>2, <1>3, <1>4 DEF Next

\* Only a copy to the user delivers bytes, and only one process takes a step.
LEMMA ReadsIsCopy ==
  ASSUME MarkIInv, Next, NEW p \in Procs, Reads(p)
  PROVE  /\ ReadCopy(p)
         /\ \A q \in Procs : Reads(q) => q = p
  <1>1. call[p].pc = "read_copy" /\ ubuf'[p] # ubuf[p]
    BY DEF Reads
  <1>2. CASE LoadInit \/ LoadAdd \/ Unload \/ \E f \in Files : Release(f)
    BY <1>1, <1>2 DEF LoadInit, LoadAdd, Unload, Release
  <1>3. ASSUME NEW q \in Procs, NEW f \in Files, Begin(q, f) PROVE FALSE
    BY <1>1, <1>3 DEF Begin, Open, ReadCall, WriteCall, WriteFault, LlseekCall, IoctlCall
  <1>4. ASSUME NEW q \in Procs, GetLock(q) \/ Fault(q) PROVE FALSE
    BY <1>1, <1>4 DEF GetLock, ReadLock, WriteLock, LlseekLock, IoctlLock, Lock, Fault,
      ReadFault, Interrupted
  <1>5. ASSUME NEW q \in Procs, Run(q)
        PROVE  ReadCopy(p) /\ \A r \in Procs : Reads(r) => r = p
    <2>1. \A r \in Procs \ {q} : ubuf'[r] = ubuf[r]
      BY <1>5, RunIsCallStep DEF CallStep
    <2>2. q = p
      BY <1>1, <2>1
    <2>3. ReadCopy(p)
      BY <1>1, <1>5, <2>2 DEF Run, ReadMiss, ReadHit, Hit, Step, WriteAppend, Grow, WriteNoMemory,
        WriteAdd, PutInRing, LlseekLength, LlseekSet, LlseekStore, IoctlFind, IoctlSet, Return
    <2> QED BY <2>1, <2>2, <2>3 DEF Reads
  <1> QED BY <1>2, <1>3, <1>4, <1>5 DEF Next

\* What becomes of a mark.
LEMMA NextMarkIs ==
  ASSUME MarkIInv, Next, NEW f \in Files
  PROVE  /\ NextMark(f) \in Nat
         /\ f \notin opened' \/ Seeks(f) => NextMark(f) = 0
         /\ \/ NextMark(f) <= mark[f]
            \/ \E p \in Procs : ReadCopy(p) /\ call[p].filp = f /\ NextMark(f) = num'[p]
  <1>1. mark[f] \in Nat /\ \A p \in Procs : num[p] \in Nat
    BY MarkTypes DEF MarkIInv, MarkInv
  <1>2. Evicted \in Nat
    <2>1. SizeAt(buffer, 0) \in Nat
      <3>1. 0 \in Slots
        BY MaxOpsAssumption DEF Slots
      <3> QED BY <3>1, EntrySizes, SizeAtNat DEF MarkIInv, DriverInv
    <2> QED BY <2>1 DEF Evicted
  <1>3. CASE f \notin opened' \/ Seeks(f)
    BY <1>1, <1>3 DEF NextMark
  <1>4. CASE /\ ~ (f \notin opened' \/ Seeks(f))
             /\ \E p \in Procs : Reads(p) /\ call[p].filp = f
    <2>1. PICK p \in Procs : Reads(p) /\ call[p].filp = f
      BY <1>4
    <2>2. ReadCopy(p) /\ \A q \in Procs : Reads(q) => q = p
      BY <2>1, ReadsIsCopy
    <2>3. (CHOOSE q \in Procs : Reads(q)) = p
      BY <2>1, <2>2
    <2>4. NextMark(f) = num[p] + Len(ubuf'[p])
      BY <1>4, <2>3 DEF NextMark
    <2>5. num'[p] = num[p] + Len(ubuf'[p]) /\ Len(ubuf'[p]) \in Nat
      BY <2>2, ReadCopyIs
    <2> QED BY <1>1, <1>4, <2>1, <2>2, <2>4, <2>5
  <1>5. CASE /\ ~ (f \notin opened' \/ Seeks(f))
             /\ ~ \E p \in Procs : Reads(p) /\ call[p].filp = f
    <2>1. NextMark(f) = IF mark[f] < Evicted THEN 0 ELSE mark[f] - Evicted
      BY <1>5 DEF NextMark
    <2> QED BY <1>1, <1>2, <1>5, <2>1
  <1> QED BY <1>3, <1>4, <1>5

\* The holder of a file goes on behind its positions.
LEMMA HolderStep ==
  ASSUME MarkIInv, NextWithMark, PositionsNatural', NEW p \in Procs, NEW f \in Files, Holders[f] = {p}
  PROVE  Behind(mark'[f], f, call'[p], num'[p], f_pos'[f])
  <1> DEFINE m == mark[f]
             k == mark'[f]
  <1>1. /\ k = NextMark(f) /\ m \in Nat /\ num[p] \in Nat /\ f_pos[f] \in Nat
        /\ num'[p] \in Nat /\ f_pos'[f] \in Nat
        /\ Next
    BY MarkTypes DEF NextWithMark, PositionsNatural, MarkIInv, MarkInv
  <1>2. /\ k \in Nat
        /\ f \notin opened' \/ Seeks(f) => k = 0
        /\ \/ k <= m
           \/ \E r \in Procs : ReadCopy(r) /\ call[r].filp = f /\ k = num'[r]
    BY <1>1, NextMarkIs
  <1>3. /\ Behind(m, f, call[p], num[p], f_pos[f])
        /\ \A r \in Procs : call[r].pc # "idle" /\ call[r].filp = f => r = p
    BY DEF MarkIInv, MarkInv
  <1>4. NoCall.pc = "idle"
    BY DEF NoCall
  <1>5. CASE f \notin opened' \/ Seeks(f)
    BY <1>1, <1>2, <1>5 DEF Behind
  <1>6. CASE \E r \in Procs : ReadCopy(r) /\ call[r].filp = f /\ k = num'[r]
    <2>1. PICK r \in Procs : ReadCopy(r) /\ call[r].filp = f /\ k = num'[r]
      BY <1>6
    <2>2. call[r].pc = "read_copy" /\ Leave(r)
      BY <2>1, ReadCopyIs
    <2>3. r = p
      BY <1>3, <2>1, <2>2
    <2>4. call'[p].pc = "return" /\ call'[p].filp = f /\ k <= num'[p]
      BY <1>1, <2>1, <2>2, <2>3, LeaveIs
    <2> QED BY <2>4 DEF Behind
  <1>7. CASE k <= m /\ ~ (f \notin opened' \/ Seeks(f))
    <2>1. CASE Aside
      BY <1>1, <1>2, <1>3, <1>7, <2>1 DEF Aside, Behind
    <2>2. ASSUME NEW q \in Procs, CallStep(q)
          PROVE  Behind(k, f, call'[p], num'[p], f_pos'[f])
      <3> HIDE DEF m, k
      <3>1. CASE q # p
        <4>1. call'[p] = call[p] /\ num'[p] = num[p]
          BY <2>2, <3>1 DEF CallStep
        <4>2. call[q].pc # "idle" => call[q].filp # f
          BY <1>3, <3>1
        <4>3. f_pos'[f] = f_pos[f]
          BY <2>2, <4>2, MarkTypes DEF CallStep, Enters, Advances, Ends, Returns, Sets
        <4> QED BY <1>1, <1>2, <1>3, <1>7, <4>1, <4>3 DEF Behind
      <3>2. CASE q = p
        <4>1. CASE Enters(p)
          BY <1>1, <1>2, <1>3, <1>7, <4>1 DEF Enters, Behind, Carrying
        <4>2. CASE Advances(p)
          BY <1>1, <1>2, <1>3, <1>7, <4>2 DEF Advances, Behind, Carrying
        <4>3. CASE Ends(p)
          BY <1>1, <1>2, <1>3, <1>4, <1>7, <4>3 DEF Ends, Behind, Carrying
        <4>4. CASE Returns(p)
          <5>1. call'[p].pc = "idle" /\ call[p].pc = "return"
            BY <1>4, <4>4 DEF Returns
          <5>2. f_pos'[f] = IF call[p].filp = f THEN num[p] ELSE f_pos[f]
            BY <4>4, MarkTypes DEF Returns
          <5> QED BY <1>1, <1>2, <1>3, <1>7, <5>1, <5>2 DEF Behind, Carrying
        <4>5. CASE Sets(p)
          <5>1. call[p].filp # f
            BY <1>4, <1>7, <4>5 DEF Sets, Seeks
          <5>2. f_pos'[f] = f_pos[f] /\ call'[p].pc = "idle" /\ call[p].pc # "return"
            BY <1>4, <4>5, <5>1 DEF Sets
          <5> QED BY <1>1, <1>2, <1>3, <1>7, <5>2 DEF Behind, Carrying
        <4> QED BY <2>2, <3>2, <4>1, <4>2, <4>3, <4>4, <4>5 DEF CallStep
      <3> QED BY <3>1, <3>2
    <2> QED BY <1>1, <2>1, <2>2, NextIsCallStep
  <1> QED BY <1>2, <1>5, <1>6, <1>7

LEMMA MarkStep ==
  ASSUME MarkIInv, [NextWithMark]_varsMark
  PROVE  MarkIInv'
  <1>1. [Next]_vars
    BY DEF NextWithMark, varsMark
  <1>2. DriverInv' /\ PositionsNatural'
    BY <1>1, NextDriverInv, PositionsStep DEF MarkIInv
  <1>3. CASE UNCHANGED varsMark
    BY <1>2, <1>3 DEF MarkIInv, MarkInv, varsMark, vars, files
  <1>4. CASE NextWithMark
    <2>1. mark' \in [Files -> Nat]
      <3>1. Next /\ mark' = [f \in Files |-> NextMark(f)]
        BY <1>4 DEF NextWithMark
      <3>2. \A f \in Files : NextMark(f) \in Nat
        BY <3>1, NextMarkIs
      <3> QED BY <3>1, <3>2
    <2>2. \A p \in Procs : call'[p].pc # "idle" => p \in Holders[call'[p].filp]
      <3>1. \A p \in Procs : call[p].pc # "idle" => p \in Holders[call[p].filp]
        BY DEF MarkIInv, MarkInv
      <3>2. CASE Aside
        BY <3>1, <3>2 DEF Aside
      <3>3. ASSUME NEW p \in Procs, CallStep(p), NEW q \in Procs, call'[q].pc # "idle"
            PROVE  q \in Holders[call'[q].filp]
        BY <3>1, <3>3 DEF CallStep, Enters, Advances, Ends, Returns, Sets, NoCall
      <3> QED BY <1>4, <3>2, <3>3, NextIsCallStep DEF NextWithMark
    <2>3. ASSUME NEW p \in Procs, NEW f \in Files, Holders[f] = {p}
          PROVE  Behind(mark[f], f, call[p], num[p], f_pos[f])'
      <3>1. Behind(mark'[f], f, call'[p], num'[p], f_pos'[f])
        BY <1>2, <1>4, <2>3, HolderStep
      <3> QED BY <3>1
    <2> QED BY <1>2, <2>1, <2>2, <2>3 DEF MarkIInv, MarkInv
  <1> QED BY <1>3, <1>4

LEMMA InitMarkIInv == InitMark => MarkIInv
  <1> SUFFICES ASSUME InitMark PROVE MarkIInv
    OBVIOUS
  <1>1. DriverInv
    BY InitDriverInv DEF InitMark
  <1>2. PositionsNatural
    BY DEF InitMark, Init, PositionsNatural
  <1>3. mark = [f \in Files |-> 0] /\ \A p \in Procs : call[p].pc = "idle" /\ num[p] = 0
    BY DEF InitMark, Init, NoCall
  <1>4. MarkInv
    BY <1>2, <1>3 DEF MarkInv, Behind, PositionsNatural
  <1> QED BY <1>1, <1>2, <1>4 DEF MarkIInv

\* A sole holder that does not seek is never given a byte twice, for every number of
\* commands evicted between its reads and inside one of them (aesd_read, the VFS).
THEOREM ReaderNeverRereads == SpecMark => NeverRereads
  <1> DEFINE A == \A p \in Procs :
                    Reads(p) /\ Holders[call[p].filp] = {p} => num[p] >= mark[call[p].filp]
  <1>1. MarkIInv /\ [NextWithMark]_varsMark => [A]_varsMark
    <2> SUFFICES ASSUME MarkIInv, NEW p \in Procs, Reads(p), Holders[call[p].filp] = {p}
                 PROVE  num[p] >= mark[call[p].filp]
      OBVIOUS
    <2> DEFINE f == call[p].filp
    <2>1. call[p].pc = "read_copy"
      BY DEF Reads
    <2>2. f \in Files /\ num[p] \in Nat
      BY <2>1, MarkTypes
    <2>3. mark[f] \in Nat /\ Behind(mark[f], f, call[p], num[p], f_pos[f])
      BY <2>2 DEF MarkIInv, MarkInv
    <2> QED BY <2>1, <2>2, <2>3 DEF Behind, Carrying
  <1> QED BY InitMarkIInv, MarkStep, <1>1, PTL DEF SpecMark, NeverRereads

----------------------------------------------------------------------------
(* Unless a krealloc fails to grow a command, none of its blocks is lost.  *)

\* The command in progress has a size only together with a block, and the block holds
\* what was written.
PendingInv ==
  GrowSucceeds /\ module # "unloaded" =>
    /\ new_entry.buffptr = NoPtr => new_entry.size = 0
    /\ new_entry.buffptr # NoPtr =>
         \A i \in 1 .. Len(heap[new_entry.buffptr]) : heap[new_entry.buffptr][i] # Junk

MemoryInv == PendingInv /\ CommandBlocksReachable

\* The pointers the device can find its blocks by.
Reachable(b, e) == {e.buffptr} \cup {Entry(b, i).buffptr : i \in Oldest(b)}

\* CommandBlocksReachable as a predicate of the values it is about.
Accounted(b, e, h) == \A q \in Ptrs : h[q] # Free => q \in Reachable(b, e)

LEMMA CommandBlocksReachableIsAccounted ==
  ASSUME GrowSucceeds
  PROVE  /\ CommandBlocksReachable <=>
              /\ Accounted(buffer, new_entry, heap)
              /\ module # "live" => \A q \in Ptrs : heap[q] = Free
         /\ CommandBlocksReachable' <=>
              /\ Accounted(buffer', new_entry', heap')
              /\ module' # "live" => \A q \in Ptrs : heap'[q] = Free
  BY DEF CommandBlocksReachable, Accounted, Reachable, RingEntries, Entry, Oldest

LEMMA InitMemory == Init => MemoryInv
  BY DEF Init, MemoryInv, PendingInv, CommandBlocksReachable

\* A step that leaves the memory alone.
LEMMA MemoryAlone ==
  ASSUME MemoryInv, UNCHANGED <<module, buffer, new_entry, heap>>
  PROVE  MemoryInv'
  BY DEF MemoryInv, PendingInv, CommandBlocksReachable, RingEntries

LEMMA LoadMemory ==
  ASSUME DriverInv, MemoryInv, LoadInit \/ LoadAdd
  PROVE  MemoryInv'
  <1> SUFFICES ASSUME GrowSucceeds PROVE MemoryInv'
    BY DEF MemoryInv, PendingInv, CommandBlocksReachable
  <1>1. heap' = heap /\ \A q \in Ptrs : heap[q] = Free
    BY CommandBlocksReachableIsAccounted DEF LoadInit, LoadAdd, MemoryInv
  <1>2. CommandBlocksReachable'
    BY <1>1, CommandBlocksReachableIsAccounted DEF Accounted
  <1>3. CASE LoadInit
    BY <1>2, <1>3 DEF LoadInit, NullEntry, MemoryInv, PendingInv
  <1>4. CASE LoadAdd
    BY <1>2, <1>4 DEF LoadAdd, MemoryInv, PendingInv
  <1> QED BY <1>3, <1>4

\* aesd_cleanup_module frees the block of every slot, and the one in progress.
LEMMA UnloadMemory ==
  ASSUME DriverInv, MemoryInv, Unload
  PROVE  MemoryInv'
  <1> SUFFICES ASSUME GrowSucceeds PROVE MemoryInv'
    BY DEF MemoryInv, PendingInv, CommandBlocksReachable
  <1>1. module' = "unloaded" /\ Coherent(buffer, Entries)
        /\ heap' = [q \in Ptrs |-> IF q \in BlocksToFree THEN Free ELSE heap[q]]
    BY DEF Unload, DriverInv
  <1>2. \A q \in Ptrs : heap[q] # Free => q \in BlocksToFree
    <2> SUFFICES ASSUME NEW q \in Ptrs, heap[q] # Free PROVE q \in BlocksToFree
      OBVIOUS
    <2>1. q # NoPtr /\ q \in Reachable(buffer, new_entry)
      BY PtrsAssumption, CommandBlocksReachableIsAccounted DEF Accounted, MemoryInv
    <2>2. ASSUME NEW i \in Oldest(buffer), q = Entry(buffer, i).buffptr PROVE q \in BlocksToFree
      BY <1>1, <2>1, <2>2, EntryFacts DEF BlocksToFree, Entry
    <2> QED BY <2>1, <2>2 DEF Reachable, BlocksToFree
  <1>3. \A q \in Ptrs : heap'[q] = Free
    BY <1>1, <1>2
  <1> QED BY <1>1, <1>3, CommandBlocksReachableIsAccounted DEF MemoryInv, PendingInv, Accounted

\* What krealloc keeps and memcpy adds was written, when the block is as long as the
\* size says.
LEMMA GrownWritten ==
  ASSUME DriverInv, PendingInv, GrowSucceeds, NEW p \in Procs, call[p].pc # "idle",
         NEW bytes \in Seq(Byte), NEW i \in 1 .. Len(Grown(bytes))
  PROVE  Grown(bytes)[i] # Junk
  <1> DEFINE old == new_entry.buffptr
             kept == [j \in 1 .. new_entry.size |-> Kept(j)]
  <1>1. /\ module = "live" /\ Safe(buffer, new_entry, heap)
        /\ new_entry.size \in Nat /\ old \in Ptrs \cup {NoPtr}
        /\ Len(Grown(bytes)) = new_entry.size + Len(bytes)
    BY InCall, GrownFacts DEF DriverInv, TypeOK, Entries
  <1>2. /\ old = NoPtr => new_entry.size = 0
        /\ old # NoPtr => /\ Len(heap[old]) = new_entry.size
                          /\ \A j \in 1 .. new_entry.size : heap[old][j] # Junk
    BY <1>1 DEF PendingInv, Safe
  <1>3. \A j \in 1 .. new_entry.size : kept[j] # Junk
    BY <1>1, <1>2 DEF Kept
  <1>4. \A j \in 1 .. Len(bytes) : bytes[j] # Junk
    BY ElementOfSeq, ByteAssumption
  <1>5. Grown(bytes) = kept \o bytes
    BY DEF Grown
  <1>6. Len(bytes) \in Nat
    OBVIOUS
  <1> HIDE DEF kept
  <1>7. Len(kept) = new_entry.size
    <2>1. kept = [j \in 1 .. new_entry.size |-> Kept(j)]
      BY DEF kept
    <2> QED BY <2>1, <1>1
  <1>8. CASE i \in 1 .. new_entry.size
    <2>1. Grown(bytes)[i] = kept[i]
      BY <1>1, <1>5, <1>6, <1>7, <1>8
    <2> QED BY <2>1, <1>3, <1>8
  <1>9. CASE i \notin 1 .. new_entry.size
    <2>1. /\ i - new_entry.size \in 1 .. Len(bytes)
          /\ Grown(bytes)[i] = bytes[i - new_entry.size]
      BY <1>1, <1>5, <1>6, <1>7, <1>9
    <2> QED BY <2>1, <1>4
  <1> QED BY <1>8, <1>9

LEMMA WriteAppendMemory ==
  ASSUME DriverInv, MemoryInv, NEW p \in Procs, WriteAppend(p)
  PROVE  MemoryInv'
  <1> SUFFICES ASSUME GrowSucceeds PROVE MemoryInv'
    BY DEF MemoryInv, PendingInv, CommandBlocksReachable
  <1> DEFINE old == new_entry.buffptr
             bytes == call[p].kbuf
  <1>1. call[p].pc # "idle" /\ bytes \in Seq(Byte) /\ UNCHANGED <<module, buffer>>
    BY DEF WriteAppend, Grow, DriverInv, TypeOK, Calls
  <1>2. PICK q \in Ptrs :
          /\ heap' = [r \in Ptrs |-> IF r = q THEN Grown(bytes)
                                     ELSE IF r = old THEN Free ELSE heap[r]]
          /\ new_entry' = [buffptr |-> q, size |-> new_entry.size + Len(bytes)]
    BY DEF WriteAppend, Grow
  <1>3. heap'[q] = Grown(bytes) /\ new_entry'.buffptr = q /\ q # NoPtr /\ module = "live"
    BY <1>1, <1>2, InCall, PtrsAssumption
  <1>4. PendingInv'
    BY <1>1, <1>3, GrownWritten DEF MemoryInv, PendingInv
  <1>5. Accounted(buffer', new_entry', heap')
    <2> SUFFICES ASSUME NEW r \in Ptrs, r # q, heap'[r] # Free
                 PROVE  r \in {Entry(buffer, i).buffptr : i \in Oldest(buffer)}
      BY <1>1, <1>3 DEF Accounted, Reachable
    <2>1. r # old /\ heap[r] # Free
      BY <1>2
    <2> QED BY <2>1, CommandBlocksReachableIsAccounted DEF Accounted, Reachable, MemoryInv
  <1> QED BY <1>1, <1>3, <1>4, <1>5, CommandBlocksReachableIsAccounted DEF MemoryInv

\* Of the blocks the ring had, only the one that is freed leaves it.
LEMMA AddKeepsAccounted ==
  ASSUME NEW b, Coherent(b, Entries), NEW e \in Entries, NEW h, NEW k, Accounted(b, e, h),
         k = [q \in Ptrs |-> IF q = BuffptrToFree(b) THEN Free ELSE h[q]]
  PROVE  Accounted(AddEntry(b, e), NullEntry, k)
  <1> DEFINE c == AddEntry(b, e)
             freed == BuffptrToFree(b)
  <1>0. PICK last \in Nat, shift \in {0, 1} :
          /\ Oldest(c) = 0 .. last
          /\ Oldest(b) = 0 .. (last - 1 + shift)
          /\ Entry(c, last) = e
          /\ \A l \in 0 .. (last - 1) : l + shift \in Oldest(b) /\ Entry(c, l) = Entry(b, l + shift)
          /\ shift = 0 => freed = NoPtr
          /\ shift = 1 => 0 \in Oldest(b) /\ freed = Entry(b, 0).buffptr
    BY AddEntryEntries, Zenon
  <1>1. /\ Oldest(c) = 0 .. last
        /\ Oldest(b) = 0 .. (last - 1 + shift)
        /\ Entry(c, last) = e
        /\ \A l \in 0 .. (last - 1) : Entry(c, l) = Entry(b, l + shift)
        /\ shift = 1 => freed = Entry(b, 0).buffptr
    BY <1>0
  <1> HIDE DEF c
  <1> SUFFICES ASSUME NEW q \in Ptrs, q # freed, q \in Reachable(b, e)
               PROVE  \E l \in Oldest(c) : q = Entry(c, l).buffptr
    BY DEF Accounted, Reachable, c
  <1>2. CASE q = e.buffptr
    BY <1>1, <1>2
  <1>3. ASSUME NEW i \in Oldest(b), q = Entry(b, i).buffptr
        PROVE  \E l \in Oldest(c) : q = Entry(c, l).buffptr
    <2>1. ~(shift = 1 /\ i = 0) /\ i \in 0 .. (last - 1 + shift)
      BY <1>1, <1>3
    <2>2. i - shift \in 0 .. (last - 1) /\ (i - shift) + shift = i /\ i - shift \in 0 .. last
      BY <2>1
    <2>3. Entry(c, i - shift) = Entry(b, i)
      BY <1>1, <2>2
    <2> QED BY <1>1, <1>3, <2>2, <2>3
  <1> QED BY <1>2, <1>3 DEF Reachable

LEMMA WriteAddMemory ==
  ASSUME DriverInv, MemoryInv, NEW p \in Procs, WriteAdd(p)
  PROVE  MemoryInv'
  <1> SUFFICES ASSUME GrowSucceeds PROVE MemoryInv'
    BY DEF MemoryInv, PendingInv, CommandBlocksReachable
  <1>1. /\ call[p].pc # "idle"
        /\ buffer' = AddEntry(buffer, new_entry) /\ new_entry' = NullEntry /\ module' = module
        /\ heap' = [q \in Ptrs |-> IF q = BuffptrToFree(buffer) THEN Free ELSE heap[q]]
    BY DEF WriteAdd, PutInRing
  <1>2. module = "live" /\ Coherent(buffer, Entries) /\ new_entry \in Entries
    BY <1>1, InCall DEF DriverInv, TypeOK
  <1>3. Accounted(buffer', new_entry', heap')
    BY <1>1, <1>2, AddKeepsAccounted, CommandBlocksReachableIsAccounted DEF MemoryInv
  <1>4. PendingInv'
    BY <1>1 DEF PendingInv, NullEntry
  <1> QED BY <1>1, <1>2, <1>3, <1>4, CommandBlocksReachableIsAccounted DEF MemoryInv

\* A krealloc that allocates the first piece of a command may fail: there is no pointer
\* to lose yet.
LEMMA NoMemoryChangesNothing ==
  ASSUME DriverInv, GrowSucceeds, NEW p \in Procs, WriteNoMemory(p)
  PROVE  UNCHANGED <<module, buffer, new_entry, heap>>
  <1>1. new_entry \in Entries /\ new_entry.buffptr = NoPtr
    BY DEF WriteNoMemory, Reallocation, GrowSucceeds, DriverInv, TypeOK
  <1>2. new_entry' = new_entry
    BY <1>1 DEF WriteNoMemory, Entries
  <1> QED BY <1>2 DEF WriteNoMemory

LEMMA MemoryStep == DriverInv /\ MemoryInv /\ [Next]_vars => MemoryInv'
  <1> SUFFICES ASSUME DriverInv, MemoryInv, [Next]_vars PROVE MemoryInv'
    OBVIOUS
  <1>1. CASE LoadInit \/ LoadAdd \/ Unload
    BY <1>1, LoadMemory, UnloadMemory
  <1>2. CASE \E f \in Files : Release(f)
    BY <1>2, MemoryAlone DEF Release, device
  <1>3. ASSUME NEW p \in Procs, \E f \in Files : Begin(p, f) PROVE MemoryInv'
    BY <1>3, MemoryAlone
    DEF Begin, Open, ReadCall, WriteCall, WriteFault, LlseekCall, IoctlCall, device
  <1>4. ASSUME NEW p \in Procs, GetLock(p) \/ Fault(p) PROVE MemoryInv'
    BY <1>4, MemoryAlone
    DEF GetLock, ReadLock, WriteLock, LlseekLock, IoctlLock, Lock, Fault, ReadFault, Interrupted,
        device
  <1>5. ASSUME NEW p \in Procs, Run(p) PROVE MemoryInv'
    <2>1. CASE ReadMiss(p) \/ ReadHit(p) \/ ReadCopy(p)
      BY <2>1, MemoryAlone DEF ReadMiss, ReadHit, Hit, ReadCopy, CopyOut
    <2>2. CASE \/ LlseekLength(p) \/ LlseekSet(p) \/ LlseekStore(p)
               \/ IoctlFind(p) \/ IoctlSet(p) \/ Return(p)
      BY <2>2, MemoryAlone
      DEF LlseekLength, LlseekSet, LlseekStore, IoctlFind, IoctlSet, Return, device
    <2>3. CASE WriteNoMemory(p)
      <3>1. CASE GrowSucceeds
        BY <2>3, <3>1, NoMemoryChangesNothing, MemoryAlone
      <3>2. CASE ~GrowSucceeds
        BY <3>2 DEF MemoryInv, PendingInv, CommandBlocksReachable
      <3> QED BY <3>1, <3>2
    <2> QED BY <1>5, <2>1, <2>2, <2>3, WriteAppendMemory, WriteAddMemory DEF Run
  <1>6. CASE UNCHANGED vars
    BY <1>6, MemoryAlone DEF vars, device
  <1> QED BY <1>1, <1>2, <1>3, <1>4, <1>5, <1>6 DEF Next

LEMMA MemoryInvariant == Spec => []MemoryInv
  BY InitMemory, MemoryStep, DriverInvariant, PTL DEF Spec

\* rmmod (aesd_cleanup_module) finds every block that holds a command, whatever was
\* written, interrupted or left unfinished before, unless a krealloc failed to grow one.  The buffers
\* kbuf that aesd_write leaves behind (kbuf_lost) are not among these blocks.
THEOREM DriverCommandBlocksReachable == Spec => []CommandBlocksReachable
  <1>1. MemoryInv => CommandBlocksReachable
    BY DEF MemoryInv
  <1> QED BY <1>1, MemoryInvariant, PTL

\* The command in progress holds what aesd_write was given, and nothing else, unless a
\* krealloc failed to grow it.
THEOREM DriverPendingWasWritten == Spec => []PendingWasWritten
  <1>1. MemoryInv => PendingWasWritten
    BY DEF MemoryInv, PendingInv, PendingWasWritten
  <1> QED BY <1>1, MemoryInvariant, PTL

----------------------------------------------------------------------------
(* What the users see of the device.                                       *)

\* What the steps of the abstract device need beyond memory safety: a finished command
\* is in new_entry exactly while its writer is about to add it, a writer writes one of
\* the payloads, a reader has delivered nothing before it returns, and the device is
\* empty when it goes into service.
RefInv ==
  /\ \A p \in Procs : call[p].pc = "write_add" => HasNewline(partialBar)
  /\ HasNewline(partialBar) => \E p \in Procs : call[p].pc = "write_add"
  /\ \A p \in Procs : call[p].pc \in {"write_lock", "write_append"} => call[p].kbuf \in Payloads
  /\ \A p \in Procs : call[p].pc # "return" => ubuf[p] = <<>>
  /\ module = "initialised" => buffer = EmptyBuffer /\ new_entry = NullEntry

DeviceStep == Device!Next \/ UNCHANGED <<logBar, partialBar, ubuf>>

LEMMA InitRef == Init => RefInv /\ Device!Init
  <1> SUFFICES ASSUME Init PROVE RefInv /\ Device!Init
    OBVIOUS
  <1>1. logBar = <<>> /\ partialBar = <<>>
    BY DEF Init, logBar, partialBar
  <1>2. ~HasNewline(partialBar)
    BY <1>1 DEF HasNewline
  <1>3. RefInv
    BY <1>2 DEF Init, RefInv, NoCall
  <1> QED BY <1>1, <1>3 DEF Init, Device!Init

\* What the users see depends on the memory alone.
LEMMA SameView ==
  ASSUME UNCHANGED <<module, buffer, new_entry, heap>>
  PROVE  logBar' = logBar /\ partialBar' = partialBar
  BY DEF logBar, partialBar, Command

\* A step that leaves memory and calls alone.
LEMMA AloneRef ==
  ASSUME RefInv, UNCHANGED <<module, buffer, new_entry, heap, call, ubuf>>
  PROVE  RefInv' /\ DeviceStep
  <1>1. logBar' = logBar /\ partialBar' = partialBar
    BY SameView
  <1>2. HasNewline(partialBar)' <=> HasNewline(partialBar)
    BY <1>1 DEF HasNewline
  <1> QED BY <1>1, <1>2 DEF RefInv, DeviceStep

\* A step of p that leaves the memory alone and does not begin or end an addition.
LEMMA CallRef ==
  ASSUME RefInv, UNCHANGED <<module, buffer, new_entry, heap>>, NEW p \in Procs,
         call[p].pc # "write_add", call'[p].pc # "write_add",
         \A q \in Procs \ {p} : call'[q] = call[q] /\ ubuf'[q] = ubuf[q],
         call'[p].pc \in {"write_lock", "write_append"} => call'[p].kbuf \in Payloads,
         call'[p].pc # "return" => ubuf'[p] = <<>>
  PROVE  RefInv' /\ logBar' = logBar /\ partialBar' = partialBar
  <1>1. logBar' = logBar /\ partialBar' = partialBar
    BY SameView
  <1>2. HasNewline(partialBar)' <=> HasNewline(partialBar)
    BY <1>1 DEF HasNewline
  <1> QED BY <1>1, <1>2 DEF RefInv

\* The same with nothing delivered: a stutter of the abstract device.
LEMMA QuietRef ==
  ASSUME RefInv, UNCHANGED <<module, buffer, new_entry, heap, ubuf>>, NEW p \in Procs,
         call[p].pc \notin {"write_add", "return"}, call'[p].pc # "write_add",
         \A q \in Procs \ {p} : call'[q] = call[q],
         call'[p].pc \in {"write_lock", "write_append"} => call'[p].kbuf \in Payloads
  PROVE  RefInv' /\ DeviceStep
  <1>1. ubuf[p] = <<>>
    BY DEF RefInv
  <1> QED BY <1>1, CallRef DEF DeviceStep

LEMMA BeginRef ==
  ASSUME DriverInv, RefInv, NEW p \in Procs, NEW f \in Files, Begin(p, f)
  PROVE  RefInv' /\ DeviceStep
  <1>1. CASE Open(p, f)
    BY <1>1, AloneRef DEF Open, device
  <1>2. ASSUME NEW pc \in {"read_lock", "write_lock", "llseek_lock", "ioctl_lock"}, NEW bytes,
               Enter(p, f, pc, bytes), pc = "write_lock" => bytes \in Payloads,
               UNCHANGED <<device, ubuf>>
        PROVE  RefInv' /\ DeviceStep
    <2>1. /\ call[p].pc = "idle"
          /\ call'[p].pc = pc /\ call'[p].kbuf = bytes
          /\ \A q \in Procs \ {p} : call'[q] = call[q]
      BY <1>2 DEF Enter, DriverInv, TypeOK, NoCall
    <2> QED BY <1>2, <2>1, QuietRef DEF device
  <1>3. CASE ReadCall(p, f) \/ LlseekCall(p, f) \/ IoctlCall(p, f)
    BY <1>2, <1>3 DEF ReadCall, LlseekCall, IoctlCall
  <1>4. CASE WriteCall(p, f)
    BY <1>2, <1>4 DEF WriteCall
  <1>5. CASE WriteFault(p, f)
    BY <1>5, AloneRef DEF WriteFault
  <1> QED BY <1>1, <1>3, <1>4, <1>5 DEF Begin

LEMMA GetLockRef ==
  ASSUME DriverInv, RefInv, NEW p \in Procs, GetLock(p)
  PROVE  RefInv' /\ DeviceStep
  <1>1. PICK from \in {"read_lock", "write_lock", "llseek_lock", "ioctl_lock"},
             to \in {"read_find", "write_append", "llseek_length", "ioctl_find"} :
          Lock(p, from, to) /\ (to = "write_append" => from = "write_lock")
    BY DEF GetLock, ReadLock, WriteLock, LlseekLock, IoctlLock
  <1>2. /\ call[p].pc = from /\ call'[p].pc = to /\ call'[p].kbuf = call[p].kbuf
        /\ \A q \in Procs \ {p} : call'[q] = call[q]
    BY <1>1 DEF Lock, Step, DriverInv, TypeOK, Calls
  <1>3. to = "write_append" => call'[p].kbuf \in Payloads
    BY <1>1, <1>2 DEF RefInv
  <1> QED BY <1>1, <1>2, <1>3, QuietRef DEF Lock

\* The ends of a call, and its faults.
LEMMA FinishRef ==
  ASSUME DriverInv, RefInv, NEW p \in Procs,
         \/ Interrupted(p) \/ ReadFault(p) \/ LlseekStore(p) \/ IoctlSet(p)
         \/ ReadMiss(p) \/ ReadHit(p) \/ LlseekLength(p) \/ LlseekSet(p) \/ IoctlFind(p)
  PROVE  RefInv' /\ DeviceStep
  <1>1. call[p].pc \in {"read_lock", "llseek_lock", "ioctl_lock", "read_copy", "llseek_set",
                        "llseek_store", "ioctl_set", "read_find", "llseek_length", "ioctl_find"}
    BY DEF Interrupted, ReadFault, LlseekSet, LlseekStore, IoctlSet, ReadMiss, ReadHit, Hit,
           LlseekLength, IoctlFind, Step
  <1>2. UNCHANGED <<module, buffer, new_entry, heap, ubuf>>
    BY DEF Interrupted, ReadFault, LlseekSet, LlseekStore, IoctlSet, ReadMiss, ReadHit, Hit,
           LlseekLength, IoctlFind, device
  <1>3. /\ call'[p].pc \in {"idle", "return", "read_copy", "llseek_set", "llseek_store", "ioctl_set"}
        /\ \A q \in Procs \ {p} : call'[q] = call[q]
    <2>1. call \in [Procs -> Calls]
      BY DEF DriverInv, TypeOK
    <2>2. CASE Interrupted(p) \/ LlseekStore(p) \/ IoctlSet(p)
      <3>1. call' = [call EXCEPT ![p] = NoCall]
        BY <2>2 DEF Interrupted, LlseekStore, IoctlSet, Finish
      <3> QED BY <2>1, <3>1 DEF NoCall
    <2>5. CASE ReadFault(p)
      <3>1. Leave(p)
        BY <2>5 DEF ReadFault
      <3> QED BY <2>1, <3>1 DEF Leave, NoCall
    <2>3. CASE ReadMiss(p) \/ ReadHit(p) \/ LlseekLength(p)
      <3>1. PICK r : call' = [call EXCEPT ![p] = r] /\ r.pc \in {"return", "read_copy", "llseek_set"}
        <4>1. call[p] \in Calls
          BY <2>1
        <4>2. CASE ReadMiss(p) \/ LlseekLength(p)
          <5>1. PICK to \in {"return", "llseek_set"} : call' = [call EXCEPT ![p].pc = to]
            BY <4>2 DEF ReadMiss, LlseekLength, Step
          <5> DEFINE r == [call[p] EXCEPT !.pc = to]
          <5>2. r.pc = to
            BY <4>1 DEF Calls
          <5>3. call' = [call EXCEPT ![p] = r]
            BY <5>1
          <5> QED BY <5>2, <5>3
        <4>3. CASE ReadHit(p)
          <5>1. PICK h : call' = [call EXCEPT ![p].pc = "read_copy", ![p].slot = h.slot, ![p].byte = h.byte]
            BY <4>3 DEF ReadHit, Hit
          <5> DEFINE r == [call[p] EXCEPT !.pc = "read_copy", !.slot = h.slot, !.byte = h.byte]
          <5>2. r.pc = "read_copy"
            BY <4>1 DEF Calls
          <5>3. call' = [call EXCEPT ![p] = r]
            BY <5>1
          <5> QED BY <5>2, <5>3
        <4> QED BY <2>3, <4>2, <4>3
      <3> QED BY <2>1, <3>1
    <2>4. CASE LlseekSet(p) \/ IoctlFind(p)
      <3>1. PICK to \in {"llseek_store", "ioctl_set"} :
              Finish(p) \/ call' = [call EXCEPT ![p].pc = to]
        BY <2>4, LlseekSetIs DEF IoctlFind
      <3> QED BY <2>1, <3>1 DEF Finish, NoCall, Calls
    <2> QED BY <2>2, <2>3, <2>4, <2>5
  <1> QED BY <1>1, <1>2, <1>3, QuietRef

----------------------------------------------------------------------------
(* The steps that the users see.                                           *)

\* The log as a function of the values it depends on.
Log(b, h) == [i \in 1 .. EntryCount(b) |-> h[Entry(b, i - 1).buffptr]]

LEMMA LogIsSeq ==
  ASSUME NEW b, Coherent(b, Entries), NEW e, NEW h \in [Ptrs -> Bytes \cup {Free}],
         Safe(b, e, h)
  PROVE  /\ EntryCount(b) \in Nat
         /\ Log(b, h) \in Seq(Bytes)
         /\ Len(Log(b, h)) = EntryCount(b)
  <1>1. EntryCount(b) \in Nat
    BY CountOfCoherent
  <1>2. \A i \in 1 .. EntryCount(b) : h[Entry(b, i - 1).buffptr] \in Bytes
    <2> TAKE i \in 1 .. EntryCount(b)
    <2>1. i - 1 \in Oldest(b)
      BY <1>1 DEF Oldest
    <2> QED BY <2>1 DEF Safe
  <1>3. Log(b, h) \in [1 .. EntryCount(b) -> Bytes]
    BY <1>2 DEF Log
  <1>4. Log(b, h) \in Seq(Bytes)
    BY <1>1, <1>3, SeqDef
  <1>5. DOMAIN Log(b, h) = 1 .. EntryCount(b) /\ DOMAIN Log(b, h) = 1 .. Len(Log(b, h))
        /\ Len(Log(b, h)) \in Nat
    BY <1>3, <1>4, LenProperties
  <1> QED BY <1>1, <1>4, <1>5

LEMMA LogBarIsLog ==
  /\ module = "live" => logBar = Log(buffer, heap)
  /\ module' = "live" => logBar' = Log(buffer', heap')
  BY DEF logBar, Command, Log, Entry

LEMMA ReadCopyRef ==
  ASSUME DriverInv, RefInv, NEW p \in Procs, ReadCopy(p)
  PROVE  RefInv' /\ DeviceStep
  <1> DEFINE e == buffer.entry[call[p].slot]
             block == heap[e.buffptr]
             byte == call[p].byte
  <1>1. /\ call[p].pc = "read_copy" /\ ubuf[p] = <<>>
        /\ call'[p].pc = "return"
        /\ \A q \in Procs \ {p} : call'[q] = call[q]
        /\ UNCHANGED <<module, buffer, new_entry, heap>>
    <2>1. call \in [Procs -> Calls] /\ Leave(p)
      BY DEF ReadCopy, CopyOut, DriverInv, TypeOK
    <2> QED BY <2>1 DEF ReadCopy, CopyOut, Leave, NoCall, RefInv
  <1>2. PICK count \in ReadCounts :
          ubuf' = [ubuf EXCEPT ![p] = SubSeq(block, byte + 1, byte + Smaller(count, e.size - byte))]
    BY DEF ReadCopy, CopyOut, CopySizes
  <1> DEFINE n == Smaller(count, e.size - byte)
  <1>3. /\ block \in Bytes /\ Len(block) = e.size
        /\ e.size \in Nat /\ byte \in Nat /\ byte < e.size
    BY <1>1, ReadCopySource
  <1>4. n \in Nat /\ byte + n <= e.size
    <2> HIDE DEF e, byte
    <2>1. count \in Nat /\ e.size - byte \in Nat
      BY <1>3, ArgumentsAssumption
    <2>2. n = IF count < e.size - byte THEN count ELSE e.size - byte
      BY DEF Smaller
    <2> QED BY <1>3, <2>1, <2>2
  <1>5. /\ RefInv' /\ logBar' = logBar /\ partialBar' = partialBar
        /\ ubuf \in [Procs -> Bytes]
    <2>1. ubuf \in [Procs -> Bytes]
      BY DEF DriverInv, TypeOK
    <2>2. \A q \in Procs \ {p} : ubuf'[q] = ubuf[q]
      BY <1>2, <2>1
    <2> QED BY <1>1, <2>1, <2>2, CallRef
  <1>6. PICK i \in Oldest(buffer) : e = Entry(buffer, i) /\ module = "live"
    BY <1>1, InCall DEF DriverInv, CallInv, Oldest, Entry
  <1>7. /\ i + 1 \in 1 .. Len(logBar)
        /\ logBar[i + 1] = block
    <2>1. /\ Len(logBar) = EntryCount(buffer) /\ EntryCount(buffer) \in Nat
          /\ logBar = Log(buffer, heap)
      BY <1>1, <1>6, InCall, LogIsSeq, LogBarIsLog DEF DriverInv, TypeOK
    <2>2. i + 1 \in 1 .. EntryCount(buffer) /\ (i + 1) - 1 = i
      BY <2>1 DEF Oldest
    <2>3. Log(buffer, heap)[i + 1] = heap[Entry(buffer, (i + 1) - 1).buffptr]
      BY <2>2 DEF Log
    <2> QED BY <1>6, <2>1, <2>2, <2>3
  <1>8. CASE n = 0
    <2>1. SubSeq(block, byte + 1, byte + n) = <<>>
      <3> HIDE DEF n, e, byte, block
      <3> QED BY <1>3, <1>8, SubSeqProperties DEF Bytes
    <2>2. ubuf' = ubuf
      BY <1>1, <1>2, <1>5, <2>1
    <2> QED BY <1>5, <2>2 DEF DeviceStep
  <1>9. CASE n # 0
    <2>1. byte + 1 \in 1 .. Len(logBar[i + 1]) /\ byte + n \in 1 .. Len(logBar[i + 1])
      <3> HIDE DEF n, e, byte, block
      <3> QED BY <1>3, <1>4, <1>7, <1>9
    <2>2. Device!Deliver(p, i + 1, byte + 1, byte + n)
      BY <1>1, <1>2, <1>5, <1>7 DEF Device!Deliver
    <2> HIDE DEF n, e, byte, block
    <2>3. Device!Next
      BY <1>7, <2>1, <2>2 DEF Device!Next
    <2> QED BY <1>5, <2>3 DEF DeviceStep
  <1> QED BY <1>8, <1>9

LEMMA ReturnRef ==
  ASSUME DriverInv, RefInv, NEW p \in Procs, Return(p)
  PROVE  RefInv' /\ DeviceStep
  <1>1. /\ call \in [Procs -> Calls] /\ ubuf \in [Procs -> Bytes]
        /\ call[p].pc = "return" /\ call' = [call EXCEPT ![p] = NoCall]
        /\ ubuf' = [ubuf EXCEPT ![p] = <<>>]
        /\ UNCHANGED <<module, buffer, new_entry, heap>>
    BY DEF Return, Finish, device, DriverInv, TypeOK
  <1>2. /\ call'[p].pc = "idle" /\ ubuf'[p] = <<>>
        /\ \A q \in Procs \ {p} : call'[q] = call[q] /\ ubuf'[q] = ubuf[q]
    BY <1>1 DEF NoCall
  <1>3. RefInv' /\ logBar' = logBar /\ partialBar' = partialBar
    BY <1>1, <1>2, CallRef
  <1>4. Device!Take(p)
    BY <1>1, <1>3 DEF Device!Take
  <1> QED BY <1>3, <1>4 DEF DeviceStep, Device!Next

----------------------------------------------------------------------------
(* insmod and rmmod                                                        *)

LEMMA EmptyHasNoNewline == ~HasNewline(<<>>)
  BY DEF HasNewline

\* No call is in progress when the module comes or goes.
LEMMA NoCallRef ==
  ASSUME DriverInv, RefInv, module # "live" \/ opened = {}, UNCHANGED <<call, ubuf>>,
         partialBar' = <<>>, module' = "initialised" => buffer' = EmptyBuffer /\ new_entry' = NullEntry
  PROVE  RefInv'
  <1>1. \A p \in Procs : call[p].pc = "idle"
    BY DEF DriverInv, CallInv
  <1>2. ~HasNewline(partialBar)'
    BY EmptyHasNoNewline DEF HasNewline
  <1> QED BY <1>1, <1>2 DEF RefInv

LEMMA LoadRef ==
  ASSUME DriverInv, RefInv, LoadInit \/ LoadAdd
  PROVE  RefInv' /\ DeviceStep
  <1>1. module # "live" /\ UNCHANGED <<call, ubuf>>
    BY DEF LoadInit, LoadAdd
  <1>2. logBar = <<>> /\ partialBar = <<>>
    BY <1>1 DEF logBar, partialBar
  <1>3. CASE module' # "live"
    <2>1. logBar' = <<>> /\ partialBar' = <<>>
      BY <1>3 DEF logBar, partialBar
    <2>2. module' = "initialised" => buffer' = EmptyBuffer /\ new_entry' = NullEntry
      BY DEF LoadInit, LoadAdd
    <2> QED BY <1>1, <1>2, <2>1, <2>2, NoCallRef DEF DeviceStep
  <1>4. CASE module' = "live"
    <2>1. buffer' = EmptyBuffer /\ new_entry' = NullEntry
      BY <1>4 DEF LoadInit, LoadAdd, RefInv
    <2>2. EntryCount(buffer)' = 0
      BY <2>1 DEF EntryCount, IsEmpty, EmptyBuffer
    <2>3. logBar' = <<>>
      BY <1>4, <2>2, LogBarIsLog DEF Log
    <2>4. partialBar' = <<>>
      BY <2>1 DEF partialBar, NullEntry
    <2> QED BY <1>1, <1>2, <1>4, <2>3, <2>4, NoCallRef DEF DeviceStep
  <1> QED BY <1>3, <1>4

LEMMA UnloadRef ==
  ASSUME DriverInv, RefInv, Unload
  PROVE  RefInv' /\ DeviceStep
  <1>1. opened = {} /\ module' = "unloaded" /\ UNCHANGED <<call, ubuf>>
    BY DEF Unload
  <1>2. logBar' = <<>> /\ partialBar' = <<>>
    BY <1>1 DEF logBar, partialBar
  <1>3. Device!Forget
    BY <1>1, <1>2 DEF Device!Forget
  <1> QED BY <1>1, <1>2, <1>3, NoCallRef DEF DeviceStep, Device!Next

----------------------------------------------------------------------------
(* write                                                                   *)

\* While a writer is in the critical section no other process is about to add.
LEMMA OneWriter ==
  ASSUME DriverInv, NEW p \in Procs, call[p].pc \in {"write_append", "write_add"},
         NEW q \in Procs \ {p}
  PROVE  call[q].pc # "write_add"
  BY DEF DriverInv, CallInv, Critical

\* memcpy puts the bytes behind those of the command in progress.
LEMMA GrownIsConcat ==
  ASSUME DriverInv, PendingInv, GrowSucceeds, NEW p \in Procs, call[p].pc # "idle",
         NEW bytes \in Seq(Byte)
  PROVE  /\ Grown(bytes) = partialBar \o bytes
         /\ partialBar \in Seq(Byte \cup {Junk})
  <1> DEFINE old == new_entry.buffptr
             kept == [j \in 1 .. new_entry.size |-> Kept(j)]
  <1>1. /\ module = "live" /\ Safe(buffer, new_entry, heap)
        /\ new_entry.size \in Nat /\ old \in Ptrs \cup {NoPtr}
        /\ heap \in [Ptrs -> Bytes \cup {Free}]
    BY InCall DEF DriverInv, TypeOK, Entries
  <1>2. Grown(bytes) = kept \o bytes
    BY DEF Grown
  <1>3. CASE old = NoPtr
    <2>1. new_entry.size = 0 /\ partialBar = <<>>
      BY <1>1, <1>3 DEF PendingInv, partialBar
    <2>2. kept = <<>>
      BY <2>1
    <2> QED BY <1>2, <2>1, <2>2
  <1>4. CASE old # NoPtr
    <2>1. /\ partialBar = heap[old] /\ heap[old] \in Seq(Byte \cup {Junk})
          /\ Len(heap[old]) = new_entry.size
      BY <1>1, <1>4 DEF partialBar, Safe, Bytes
    <2>2. \A j \in 1 .. new_entry.size : Kept(j) = heap[old][j]
      BY <1>1, <1>4, <2>1 DEF Kept
    <2>3. kept = heap[old]
      <3>1. DOMAIN heap[old] = 1 .. new_entry.size
        BY <2>1, LenProperties
      <3>2. heap[old] = [j \in 1 .. new_entry.size |-> heap[old][j]]
        BY <2>1, <3>1
      <3> QED BY <2>2, <3>2
    <2> QED BY <1>2, <2>1, <2>3
  <1> QED BY <1>3, <1>4

LEMMA NewlineOfConcat ==
  ASSUME NEW S, NEW s \in Seq(S), NEW t \in Seq(S)
  PROVE  HasNewline(s \o t) <=> HasNewline(s) \/ HasNewline(t)
  <1>1. /\ Len(s) \in Nat /\ Len(t) \in Nat /\ Len(s \o t) = Len(s) + Len(t)
        /\ \A i \in 1 .. Len(s) : (s \o t)[i] = s[i]
        /\ \A i \in 1 .. Len(t) : (s \o t)[Len(s) + i] = t[i]
    OBVIOUS
  <1>2. ASSUME NEW i \in 1 .. Len(s), s[i] = Newline PROVE HasNewline(s \o t)
    BY <1>1, <1>2 DEF HasNewline
  <1>3. ASSUME NEW i \in 1 .. Len(t), t[i] = Newline PROVE HasNewline(s \o t)
    <2>1. Len(s) + i \in 1 .. Len(s \o t) /\ (s \o t)[Len(s) + i] = Newline
      BY <1>1, <1>3
    <2> QED BY <2>1 DEF HasNewline
  <1>4. ASSUME NEW i \in 1 .. Len(s \o t), (s \o t)[i] = Newline
        PROVE  HasNewline(s) \/ HasNewline(t)
    <2>1. CASE i <= Len(s)
      <3>1. i \in 1 .. Len(s)
        BY <1>1, <2>1
      <3> QED BY <1>1, <1>4, <3>1 DEF HasNewline
    <2>2. CASE ~(i <= Len(s))
      <3>1. i - Len(s) \in 1 .. Len(t) /\ Len(s) + (i - Len(s)) = i
        BY <1>1, <2>2
      <3> QED BY <1>1, <1>4, <3>1 DEF HasNewline
    <2> QED BY <2>1, <2>2
  <1> QED BY <1>2, <1>3, <1>4 DEF HasNewline

LEMMA WriteAppendRef ==
  ASSUME DriverInv, PendingInv, RefInv, GrowSucceeds, NEW p \in Procs, WriteAppend(p)
  PROVE  RefInv' /\ DeviceStep
  <1> DEFINE old == new_entry.buffptr
             bytes == call[p].kbuf
  <1>1. /\ call[p].pc = "write_append" /\ bytes \in Payloads /\ bytes \in Seq(Byte)
        /\ call \in [Procs -> Calls] /\ module = "live"
        /\ UNCHANGED <<module, buffer, ubuf>>
    BY InCall DEF WriteAppend, Grow, DriverInv, TypeOK, Calls, RefInv
  <1>2. PICK q \in Ptrs :
          /\ q = old \/ heap[q] = Free
          /\ heap' = [r \in Ptrs |-> IF r = q THEN Grown(bytes)
                                     ELSE IF r = old THEN Free ELSE heap[r]]
          /\ new_entry' = [buffptr |-> q, size |-> new_entry.size + Len(bytes)]
    BY DEF WriteAppend, Grow
  <1>3. partialBar' = partialBar \o bytes /\ partialBar \in Seq(Byte \cup {Junk})
    <2>1. partialBar' = heap'[q]
      BY <1>1, <1>2, PtrsAssumption DEF partialBar
    <2> QED BY <1>1, <1>2, <2>1, GrownIsConcat
  <1>4. ~HasNewline(partialBar)
    BY <1>1, OneWriter DEF RefInv
  <1>5. HasNewline(partialBar') <=> HasNewline(bytes)
    <2>1. bytes \in Seq(Byte \cup {Junk})
      BY <1>1, SeqMonotonic
    <2> QED BY <1>3, <1>4, <2>1, NewlineOfConcat
  <1>6. /\ call'[p].pc = IF HasNewline(bytes) THEN "write_add" ELSE "return"
        /\ \A r \in Procs \ {p} : call'[r] = call[r]
    <2>1. CASE HasNewline(bytes)
      <3>1. call' = [call EXCEPT ![p].pc = "write_add"]
        BY <2>1 DEF WriteAppend, Grow
      <3> QED BY <1>1, <2>1, <3>1 DEF Calls
    <2>2. CASE ~HasNewline(bytes)
      <3>1. Leave(p)
        BY <2>2 DEF WriteAppend, Grow
      <3> QED BY <1>1, <2>2, <3>1 DEF Leave, NoCall
    <2> QED BY <2>1, <2>2
  <1>7. logBar' = logBar
    <2>1. Safe(buffer, new_entry, heap) /\ EntryCount(buffer) \in Nat
      BY <1>1, InCall, CountOfCoherent DEF DriverInv
    <2>2. \A i \in 1 .. EntryCount(buffer) :
            heap'[Entry(buffer, i - 1).buffptr] = heap[Entry(buffer, i - 1).buffptr]
      <3> TAKE i \in 1 .. EntryCount(buffer)
      <3>1. i - 1 \in Oldest(buffer)
        BY <2>1 DEF Oldest
      <3> QED BY <1>2, <2>1, <3>1 DEF Safe
    <2>3. Log(buffer, heap') = Log(buffer, heap)
      BY <2>2 DEF Log
    <2> QED BY <1>1, <2>3, LogBarIsLog
  <1>8. RefInv'
    <2>1. HasNewline(partialBar)' <=> HasNewline(bytes)
      BY <1>5 DEF HasNewline
    <2>2. \A r \in Procs : call'[r].pc = "write_add" <=> r = p /\ HasNewline(bytes)
      BY <1>1, <1>6, OneWriter
    <2> QED BY <1>1, <1>6, <2>1, <2>2 DEF RefInv
  <1>9. Device!Extend(bytes)
    BY <1>1, <1>3, <1>4, <1>7 DEF Device!Extend, Device!HasNewline, HasNewline
  <1> QED BY <1>1, <1>8, <1>9 DEF DeviceStep, Device!Next

\* What Commit does to the log.
Remembered(log, command) ==
  IF Len(log) < MaxOps THEN Append(log, command) ELSE Append(Tail(log), command)

\* aesd_circular_buffer_add_entry puts the command at the end, and in a full ring
\* the oldest one makes room for it.
LEMMA AddEntryLog ==
  ASSUME NEW b, Coherent(b, Entries), NEW e \in Entries, e.buffptr # NoPtr,
         NEW h \in [Ptrs -> Bytes \cup {Free}], Safe(b, e, h),
         NEW k, k = [q \in Ptrs |-> IF q = BuffptrToFree(b) THEN Free ELSE h[q]]
  PROVE  Log(AddEntry(b, e), k) = Remembered(Log(b, h), h[e.buffptr])
  <1> DEFINE c == AddEntry(b, e)
             n == EntryCount(b)
             x == h[e.buffptr]
             old == Log(b, h)
             new == Log(c, k)
  <1>1. Safe(c, NullEntry, k) /\ Coherent(c, Entries)
    BY AddKeepsSafe, AddEntryCoherent
  <1>2. k \in [Ptrs -> Bytes \cup {Free}] /\ x \in Bytes
    BY DEF Safe, Entries
  <1>3. /\ n \in Nat /\ EntryCount(c) \in Nat
        /\ old \in Seq(Bytes) /\ Len(old) = n
        /\ new \in Seq(Bytes) /\ Len(new) = EntryCount(c)
    BY <1>1, <1>2, LogIsSeq
  <1>4. \A i \in Oldest(c) : k[Entry(c, i).buffptr] = h[Entry(c, i).buffptr]
    BY <1>1 DEF Safe
  <1>5. \A i \in 1 .. EntryCount(c) : new[i] = h[Entry(c, i - 1).buffptr]
    <2> TAKE i \in 1 .. EntryCount(c)
    <2>1. i - 1 \in Oldest(c)
      BY <1>3 DEF Oldest
    <2> QED BY <1>4, <2>1 DEF Log
  <1>6. \A i \in 1 .. n : old[i] = h[Entry(b, i - 1).buffptr]
    BY DEF Log
  <1>7. MaxOps \in Nat \ {0}
    BY MaxOpsAssumption
  <1>8. CASE ~b.full
    <2>1. /\ EntryCount(c) = n + 1 /\ n \in Slots
          /\ \A i \in 0 .. (n - 1) : Entry(c, i) = Entry(b, i)
          /\ Entry(c, n) = e
      BY <1>8, AddEntryAppends DEF Entry
    <2>2. n < MaxOps
      BY <1>3, <1>7, <2>1 DEF Slots
    <2> HIDE DEF n, c, x, old, new
    <2>3. \A i \in 1 .. n : new[i] = old[i]
      <3> TAKE i \in 1 .. n
      <3>1. i - 1 \in 0 .. (n - 1) /\ i \in 1 .. EntryCount(c)
        BY <1>3, <2>1
      <3> QED BY <1>5, <1>6, <2>1, <3>1
    <2>4. new[n + 1] = x
      <3>1. n + 1 \in 1 .. EntryCount(c) /\ (n + 1) - 1 = n
        BY <1>3, <2>1
      <3> QED BY <1>5, <2>1, <3>1 DEF x
    <2>5. new = Append(old, x)
      BY <1>2, <1>3, <2>1, <2>3, <2>4
    <2> QED BY <1>3, <2>2, <2>5 DEF Remembered, n, c, x, old, new
  <1>9. CASE b.full
    <2>1. /\ n = MaxOps /\ EntryCount(c) = MaxOps
          /\ \A i \in 0 .. (MaxOps - 2) : Entry(c, i) = Entry(b, i + 1)
          /\ Entry(c, MaxOps - 1) = e
      BY <1>9, AddEntryShifts DEF Entry
    <2> HIDE DEF n, c, x, old, new
    <2>2. /\ Tail(old) \in Seq(Bytes) /\ Len(Tail(old)) = MaxOps - 1
          /\ \A i \in 1 .. (MaxOps - 1) : Tail(old)[i] = old[i + 1]
      BY <1>3, <1>7, <2>1
    <2>3. \A i \in 1 .. (MaxOps - 1) : new[i] = Tail(old)[i]
      <3> TAKE i \in 1 .. (MaxOps - 1)
      <3>1. /\ i - 1 \in 0 .. (MaxOps - 2) /\ i \in 1 .. EntryCount(c) /\ i + 1 \in 1 .. n
            /\ (i - 1) + 1 = i /\ (i + 1) - 1 = i
        BY <1>7, <2>1
      <3> QED BY <1>5, <1>6, <2>1, <2>2, <3>1
    <2>4. new[MaxOps] = x
      <3>1. MaxOps \in 1 .. EntryCount(c)
        BY <1>7, <2>1
      <3> QED BY <1>5, <2>1, <3>1 DEF x
    <2>5. new = Append(Tail(old), x)
      <3>1. /\ Append(Tail(old), x) \in Seq(Bytes) /\ Len(Append(Tail(old), x)) = MaxOps
            /\ \A i \in 1 .. (MaxOps - 1) : Append(Tail(old), x)[i] = Tail(old)[i]
            /\ Append(Tail(old), x)[MaxOps] = x
        BY <1>2, <1>7, <2>2
      <3>2. \A i \in 1 .. MaxOps : new[i] = Append(Tail(old), x)[i]
        <4> TAKE i \in 1 .. MaxOps
        <4>1. i = MaxOps \/ i \in 1 .. (MaxOps - 1)
          BY <1>7
        <4> QED BY <2>3, <2>4, <3>1, <4>1
      <3> QED BY <1>3, <2>1, <3>1, <3>2, SeqEqual
    <2> QED BY <1>3, <2>1, <2>5 DEF Remembered, n, c, x, old, new
  <1> QED BY <1>8, <1>9

LEMMA WriteAddRef ==
  ASSUME DriverInv, RefInv, NEW p \in Procs, WriteAdd(p)
  PROVE  RefInv' /\ DeviceStep
  <1>1. /\ call[p].pc = "write_add" /\ call \in [Procs -> Calls] /\ Leave(p)
        /\ buffer' = AddEntry(buffer, new_entry) /\ new_entry' = NullEntry
        /\ heap' = [q \in Ptrs |-> IF q = BuffptrToFree(buffer) THEN Free ELSE heap[q]]
        /\ UNCHANGED <<module, ubuf>>
    BY DEF WriteAdd, PutInRing, DriverInv, TypeOK
  <1>2. /\ module = "live" /\ Safe(buffer, new_entry, heap) /\ Coherent(buffer, Entries)
        /\ new_entry \in Entries /\ new_entry.buffptr # NoPtr
        /\ heap \in [Ptrs -> Bytes \cup {Free}]
    BY <1>1, InCall DEF DriverInv, TypeOK, CallInv
  <1>3. partialBar = heap[new_entry.buffptr] /\ partialBar' = <<>>
    BY <1>1, <1>2 DEF partialBar, NullEntry
  <1>4. logBar' = Remembered(logBar, partialBar)
    <2>1. Log(buffer', heap') = Remembered(Log(buffer, heap), heap[new_entry.buffptr])
      BY <1>1, <1>2, AddEntryLog
    <2> QED BY <1>1, <1>2, <1>3, <2>1, LogBarIsLog
  <1>5. /\ call'[p].pc = "return"
        /\ \A q \in Procs \ {p} : call'[q] = call[q]
    BY <1>1 DEF Leave, NoCall
  <1>6. RefInv'
    <2>1. ~HasNewline(partialBar)'
      BY <1>3, EmptyHasNoNewline DEF HasNewline
    <2>2. \A q \in Procs : call'[q].pc # "write_add"
      BY <1>1, <1>5, OneWriter
    <2> QED BY <1>1, <1>2, <1>5, <2>1, <2>2 DEF RefInv
  <1>7. Device!Commit
    <2>1. HasNewline(partialBar)
      BY <1>1 DEF RefInv
    <2> QED BY <1>1, <1>3, <1>4, <2>1
        DEF Device!Commit, Device!HasNewline, HasNewline, Device!Remember, Remembered
  <1> QED BY <1>6, <1>7 DEF DeviceStep, Device!Next

----------------------------------------------------------------------------
(* The theorem.                                                            *)

\* A write that cannot have the memory for the first piece of a command: the device has
\* not taken it.
LEMMA NoMemoryRef ==
  ASSUME DriverInv, RefInv, GrowSucceeds, NEW p \in Procs, WriteNoMemory(p)
  PROVE  RefInv' /\ DeviceStep
  <1>1. /\ call[p].pc = "write_append" /\ ubuf' = ubuf /\ call \in [Procs -> Calls]
        /\ call' = [call EXCEPT ![p] = NoCall]
    BY DEF WriteNoMemory, Finish, DriverInv, TypeOK
  <1>2. call'[p].pc = "idle" /\ \A q \in Procs \ {p} : call'[q] = call[q]
    BY <1>1 DEF NoCall
  <1>3. ubuf'[p] = <<>>
    BY <1>1 DEF RefInv
  <1>4. RefInv' /\ logBar' = logBar /\ partialBar' = partialBar
    BY <1>1, <1>2, <1>3, NoMemoryChangesNothing, CallRef
  <1> QED BY <1>1, <1>4 DEF DeviceStep

LEMMA RunRef ==
  ASSUME DriverInv, PendingInv, RefInv, GrowSucceeds, NEW p \in Procs, Run(p)
  PROVE  RefInv' /\ DeviceStep
  <1>1. CASE WriteNoMemory(p)
    BY <1>1, NoMemoryRef
  <1> QED BY <1>1, FinishRef, ReadCopyRef, WriteAppendRef, WriteAddRef, ReturnRef DEF Run

LEMMA StepRef ==
  ASSUME GrowSucceeds
  PROVE  DriverInv /\ MemoryInv /\ RefInv /\ [Next]_vars => RefInv' /\ DeviceStep
  <1> SUFFICES ASSUME DriverInv, MemoryInv, RefInv, [Next]_vars PROVE RefInv' /\ DeviceStep
    OBVIOUS
  <1>1. CASE LoadInit \/ LoadAdd \/ Unload
    BY <1>1, LoadRef, UnloadRef
  <1>2. CASE \E f \in Files : Release(f)
    BY <1>2, AloneRef DEF Release, device
  <1>3. ASSUME NEW p \in Procs, \E f \in Files : Begin(p, f) PROVE RefInv' /\ DeviceStep
    BY <1>3, BeginRef
  <1>4. ASSUME NEW p \in Procs, GetLock(p) PROVE RefInv' /\ DeviceStep
    BY <1>4, GetLockRef
  <1>5. ASSUME NEW p \in Procs, Run(p) PROVE RefInv' /\ DeviceStep
    BY <1>5, RunRef DEF MemoryInv
  <1>6. ASSUME NEW p \in Procs, Fault(p) PROVE RefInv' /\ DeviceStep
    BY <1>6, FinishRef DEF Fault
  <1>7. CASE UNCHANGED vars
    BY <1>7, AloneRef DEF vars, device
  <1> QED BY <1>1, <1>2, <1>3, <1>4, <1>5, <1>6, <1>7 DEF Next

\* The driver implements the device that its users see: a read delivers a piece of one
\* whole remembered command, a command joins the log in one piece and in the order in
\* which the writers held the mutex (aesd_read, aesd_write, aesd_circular_buffer_add_entry).
\* When krealloc cannot grow the command in progress it does not: what was saved of it is
\* then lost.
THEOREM DriverImplementsDevice ==
  ASSUME GrowSucceeds
  PROVE  Spec => DeviceSpec
  <1>1. DriverInv /\ MemoryInv /\ RefInv /\ [Next]_vars
          => [Device!Next]_(Device!vars)
    BY StepRef DEF DeviceStep, Device!vars
  <1>2. DriverInv /\ MemoryInv /\ RefInv /\ [Next]_vars => RefInv'
    BY StepRef
  <1> QED BY <1>1, <1>2, InitRef, DriverInvariant, MemoryInvariant, PTL
      DEF Spec, DeviceSpec, Device!Spec
=============================================================================
