------------------------------ MODULE AesdChar ------------------------------
(***************************************************************************)
(* The character driver /dev/aesdchar (aesd-char-driver/main.c) under      *)
(* concurrent system calls.  A system call is a sequence of steps of one   *)
(* process: the entry from the VFS, the mutex, what the handler does under *)
(* it, what it does after it, and the return through the VFS.  Steps of    *)
(* different processes interleave freely; only dev->lock orders them.      *)
(*                                                                         *)
(* The kernel is modelled from the way the handlers use it: read and write *)
(* get a copy of the file position and the VFS stores it back when the     *)
(* call succeeds; kmalloc and krealloc return a free block or NULL;        *)
(* copy_to_user and copy_from_user may fault; release comes when no call   *)
(* uses the file, and rmmod when no file is open.                          *)
(*                                                                         *)
(* A definition whose name ends in _Slip is not part of the model: see     *)
(* CircularBuffer.                                                         *)
(***************************************************************************)
EXTENDS CircularBuffer, FiniteSets

CONSTANTS
  Procs,        \* processes (or threads) that make system calls
  Files,        \* struct file objects of the device
  NoFile,
  Holders,      \* Holders[f]: the processes that have a descriptor of f
  Readable,     \* the files that were opened for reading
  Free,         \* the mutex without an owner, and a block of memory not in use
  Ptrs,         \* addresses kmalloc can return for the driver's commands
  Byte, Newline,
  Junk,         \* a byte that was allocated and never written
  Payloads,     \* what a write may carry
  ReadCounts,   \* the count argument of read
  SeekOffsets,  \* the offset argument of llseek
  SeekCmds,     \* write_cmd of struct aesd_seekto
  CmdOffsets,   \* write_cmd_offset of struct aesd_seekto
  MaxPending,   \* bound on the bytes of an unfinished command
  AllocFails,   \* when krealloc may return NULL: "fresh" for the first piece of a
                \* command, "grow" for a further one
  CopyFails     \* whether copy_to_user and copy_from_user may fault

ASSUME ProcsAssumption == Free \notin Procs
ASSUME FilesAssumption ==
  NoFile \notin Files /\ Holders \in [Files -> SUBSET Procs] /\ Readable \subseteq Files
ASSUME PtrsAssumption == NoPtr \notin Ptrs
ASSUME ByteAssumption ==
  /\ Newline \in Byte
  /\ Junk \notin Byte
  /\ Payloads \subseteq Seq(Byte) \ {<<>>}
ASSUME FreeAssumption == Free \notin Seq(Byte \cup {Junk})
ASSUME ArgumentsAssumption ==
  /\ ReadCounts \cup SeekCmds \cup CmdOffsets \subseteq Nat
  /\ SeekOffsets \subseteq Int
ASSUME BoundsAssumption == MaxPending \in Nat
ASSUME FaultsAssumption == AllocFails \subseteq {"fresh", "grow"} /\ CopyFails \in BOOLEAN

VARIABLES
  module,       \* the life of the module: "unloaded", "initialised", "live"
  buffer,       \* aesd_device.buffer
  new_entry,    \* aesd_device.new_entry
  lock,         \* aesd_device.lock: its owner, or Free
  heap,         \* the blocks behind the pointers in buffer and new_entry
  kbuf_lost,    \* whether a kbuf of aesd_write is allocated that no call holds
  opened,       \* files between open and release
  f_pos,        \* filp->f_pos
  call,         \* the call a process is in
  num,          \* the call's own position, total_size or new_f_pos
  ubuf          \* what the read in progress has put in the user's buffer

device == <<module, buffer, new_entry, lock, heap, kbuf_lost>>
files  == <<opened, f_pos>>
vars   == <<device, files, call, num, ubuf>>

NoCall == [pc |-> "idle", filp |-> NoFile, kbuf |-> <<>>, slot |-> 0, byte |-> 0]

HasNewline(bytes) == \E i \in 1 .. Len(bytes) : bytes[i] = Newline

Smaller(m, n) == IF m < n THEN m ELSE n

----------------------------------------------------------------------------
(* Helpers: the beginning, the continuation and the end of a call.         *)

\* The process issues a call on a file it holds a descriptor of.
Enter(p, f, pc, kbuf) ==
  /\ call[p].pc = "idle"
  /\ f \in opened
  /\ p \in Holders[f]
  /\ call' = [call EXCEPT ![p] = [NoCall EXCEPT !.pc = pc, !.filp = f, !.kbuf = kbuf]]

Step(p, from, to) ==
  /\ call[p].pc = from
  /\ call' = [call EXCEPT ![p].pc = to]

\* The handler returns to the VFS: its local variables are gone.
Leave(p) ==
  call' = [call EXCEPT ![p] = [NoCall EXCEPT !.pc = "return", !.filp = call[p].filp]]

\* The system call returns to the program.
Finish(p) ==
  /\ call' = [call EXCEPT ![p] = NoCall]
  /\ num' = [num EXCEPT ![p] = 0]

\* The mutex does not exclude anybody.
Lock_Slip(p, from, to) ==
  /\ lock' = p
  /\ Step(p, from, to)
  /\ UNCHANGED <<module, buffer, new_entry, heap, kbuf_lost, files, num, ubuf>>

\* mutex_lock and a mutex_lock_interruptible that succeeds.
Lock(p, from, to) ==
  /\ lock = Free
  /\ lock' = p
  /\ Step(p, from, to)
  /\ UNCHANGED <<module, buffer, new_entry, heap, kbuf_lost, files, num, ubuf>>

Unlock == lock' = Free

----------------------------------------------------------------------------
(* insmod and rmmod                                                        *)

\* aesd_init_module, up to aesd_setup_cdev.
LoadInit ==
  /\ module = "unloaded"
  /\ module' = "initialised"
  /\ buffer' = EmptyBuffer
  /\ new_entry' = NullEntry
  /\ lock' = Free
  /\ UNCHANGED <<heap, kbuf_lost, files, call, num, ubuf>>

\* aesd_setup_cdev: cdev_add puts the device in service, or fails.
LoadAdd ==
  /\ module = "initialised"
  /\ module' \in {"live", "unloaded"}
  /\ UNCHANGED <<buffer, new_entry, lock, heap, kbuf_lost, files, call, num, ubuf>>

\* The blocks of the ring are freed, the command in progress is not.
BlocksToFree_Slip == {buffer.entry[s].buffptr : s \in Slots} \ {NoPtr}

\* The blocks that aesd_cleanup_module frees.
BlocksToFree ==
  ({buffer.entry[s].buffptr : s \in Slots} \cup {new_entry.buffptr}) \ {NoPtr}

\* aesd_cleanup_module.  new_entry keeps its stale pointer; the next load
\* overwrites it.
Unload ==
  /\ module = "live"
  /\ opened = {}
  /\ module' = "unloaded"
  /\ heap' = [q \in Ptrs |-> IF q \in BlocksToFree THEN Free ELSE heap[q]]
  /\ buffer' = [buffer EXCEPT !.entry = [s \in Slots |-> [@[s] EXCEPT !.buffptr = NoPtr]]]
  /\ UNCHANGED <<new_entry, lock, kbuf_lost, files, call, num, ubuf>>

----------------------------------------------------------------------------
(* open and release                                                        *)

Open(p, f) ==
  /\ module = "live"
  /\ call[p].pc = "idle"
  /\ f \notin opened
  /\ p \in Holders[f]
  /\ opened' = opened \cup {f}
  /\ UNCHANGED <<device, f_pos, call, num, ubuf>>

\* The struct file is gone; the next open gets one at position 0.
Release(f) ==
  /\ f \in opened
  /\ \A p \in Procs : call[p].filp # f
  /\ opened' = opened \ {f}
  /\ f_pos' = [f_pos EXCEPT ![f] = 0]
  /\ UNCHANGED <<device, call, num, ubuf>>

----------------------------------------------------------------------------
(* read                                                                    *)

\* The VFS refuses a read of a file that is open for writing only; else it copies
\* the file's position for the handler.
ReadCall(p, f) ==
  /\ f \in Readable
  /\ Enter(p, f, "read_lock", <<>>)
  /\ num' = [num EXCEPT ![p] = f_pos[f]]
  /\ UNCHANGED <<device, files, ubuf>>

ReadLock(p) == Lock(p, "read_lock", "read_find")

\* The early return forgets the unlock.
ReadMiss_Slip(p) ==
  /\ FindEntryOffset(buffer, num[p]) = {}
  /\ Step(p, "read_find", "return")
  /\ UNCHANGED <<device, files, num, ubuf>>

\* The position holds no data: unlock and return 0.
ReadMiss(p) ==
  /\ FindEntryOffset(buffer, num[p]) = {}
  /\ Step(p, "read_find", "return")
  /\ Unlock
  /\ UNCHANGED <<module, buffer, new_entry, heap, kbuf_lost, files, num, ubuf>>

Hit(p) ==
  /\ call[p].pc = "read_find"
  /\ \E h \in FindEntryOffset(buffer, num[p]) :
       call' = [call EXCEPT ![p].pc = "read_copy", ![p].slot = h.slot, ![p].byte = h.byte]
  /\ UNCHANGED <<module, buffer, new_entry, heap, kbuf_lost, files, num, ubuf>>

\* The lock is given up once the entry is known, before the copy.
ReadHit_Slip(p) == Hit(p) /\ Unlock

ReadHit(p) == Hit(p) /\ UNCHANGED lock

\* What is left of the entry, or the count the program asked for.
CopySizes(p) ==
  {Smaller(count, buffer.entry[call[p].slot].size - call[p].byte) : count \in ReadCounts}

\* copy_to_user of n bytes of that one entry.
CopyOut(p, n) ==
  LET block == heap[buffer.entry[call[p].slot].buffptr]
      byte  == call[p].byte
  IN  /\ Leave(p)
      /\ ubuf' = [ubuf EXCEPT ![p] = SubSeq(block, byte + 1, byte + n)]
      /\ Unlock
      /\ UNCHANGED <<module, buffer, new_entry, heap, kbuf_lost, files>>

\* The position is not advanced.
ReadCopy_Slip(p) ==
  call[p].pc = "read_copy" /\ UNCHANGED num /\ \E n \in CopySizes(p) : CopyOut(p, n)

ReadCopy(p) ==
  /\ call[p].pc = "read_copy"
  /\ \E n \in CopySizes(p) : CopyOut(p, n) /\ num' = [num EXCEPT ![p] = @ + n]

\* copy_to_user faults: the handler returns 0 and does not unlock.
ReadFault(p) ==
  /\ CopyFails
  /\ call[p].pc = "read_copy"
  /\ Leave(p)
  /\ UNCHANGED <<device, files, num, ubuf>>

\* The VFS stores the handler's position back after a read or a write that
\* did not fail, whatever the file's position has become meanwhile.
Return(p) ==
  /\ call[p].pc = "return"
  /\ f_pos' = [f_pos EXCEPT ![call[p].filp] = num[p]]
  /\ ubuf' = [ubuf EXCEPT ![p] = <<>>]
  /\ Finish(p)
  /\ UNCHANGED <<device, opened>>

----------------------------------------------------------------------------
(* write                                                                   *)

\* kmalloc and copy_from_user succeed: kbuf holds the data.  (If kmalloc fails
\* the handler returns and nothing has changed.)  The data brings the command to
\* an end or leaves it within MaxPending.
WriteCall(p, f) ==
  /\ \E bytes \in Payloads :
       /\ HasNewline(bytes) \/ new_entry.size + Len(bytes) <= MaxPending
       /\ Enter(p, f, "write_lock", bytes)
  /\ num' = [num EXCEPT ![p] = f_pos[f]]
  /\ UNCHANGED <<device, files, ubuf>>

\* copy_from_user faults: -EFAULT, and kbuf stays allocated.
WriteFault(p, f) ==
  /\ CopyFails
  /\ call[p].pc = "idle"
  /\ f \in opened
  /\ p \in Holders[f]
  /\ kbuf_lost' = TRUE
  /\ UNCHANGED <<module, buffer, new_entry, lock, heap, files, call, num, ubuf>>

WriteLock(p) == Lock(p, "write_lock", "write_append")

\* What the old block holds at i, or nobody has written.
Kept(i) ==
  IF new_entry.buffptr # NoPtr /\ i <= Len(heap[new_entry.buffptr])
  THEN heap[new_entry.buffptr][i] ELSE Junk

\* What a block of new_entry.size + Len(bytes) bytes holds after krealloc has
\* moved the old block into it and memcpy has put bytes at new_entry.size.
Grown(bytes) == [i \in 1 .. new_entry.size |-> Kept(i)] \o bytes

\* krealloc succeeds, in place or in another block.  A write that ends here
\* returns without kfree(kbuf).
Grow(p) ==
  LET old   == new_entry.buffptr
      bytes == call[p].kbuf
  IN  /\ call[p].pc = "write_append"
      /\ \E q \in Ptrs :
           /\ q = old \/ heap[q] = Free
           /\ heap' = [r \in Ptrs |-> IF r = q THEN Grown(bytes)
                                      ELSE IF r = old THEN Free ELSE heap[r]]
           /\ new_entry' = [buffptr |-> q, size |-> new_entry.size + Len(bytes)]
      /\ IF HasNewline(bytes)
         THEN call' = [call EXCEPT ![p].pc = "write_add"] /\ UNCHANGED kbuf_lost
         ELSE Leave(p) /\ kbuf_lost' = TRUE
      /\ UNCHANGED <<module, buffer, files, num, ubuf>>

\* The lock is given up between the append and aesd_circular_buffer_add_entry.
WriteAppend_Slip(p) == Grow(p) /\ Unlock

WriteAppend(p) == Grow(p) /\ IF HasNewline(call[p].kbuf) THEN UNCHANGED lock ELSE Unlock

\* krealloc of NULL allocates, krealloc of a block grows it.
Reallocation == IF new_entry.buffptr = NoPtr THEN "fresh" ELSE "grow"

\* The old block is freed although the pointer to it is kept.
WriteNoMemory_Slip(p) ==
  /\ Reallocation \in AllocFails
  /\ call[p].pc = "write_append"
  /\ heap' = [q \in Ptrs |-> IF q = new_entry.buffptr THEN Free ELSE heap[q]]
  /\ Unlock
  /\ Finish(p)
  /\ UNCHANGED <<module, buffer, new_entry, kbuf_lost, files, ubuf>>

\* krealloc returns NULL: the pointer to the old block, if there is one, is gone, its
\* size stays.  This is the one path that frees kbuf.
WriteNoMemory(p) ==
  /\ Reallocation \in AllocFails
  /\ call[p].pc = "write_append"
  /\ new_entry' = [new_entry EXCEPT !.buffptr = NoPtr]
  /\ Unlock
  /\ Finish(p)
  /\ UNCHANGED <<module, buffer, heap, kbuf_lost, files, ubuf>>

\* The finished command goes into the ring and the block it replaces is freed;
\* kbuf is not.
PutInRing(p) ==
  LET freed == BuffptrToFree(buffer)
  IN  /\ call[p].pc = "write_add"
      /\ Leave(p)
      /\ buffer' = AddEntry(buffer, new_entry)
      /\ heap' = [q \in Ptrs |-> IF q = freed THEN Free ELSE heap[q]]
      /\ kbuf_lost' = TRUE
      /\ Unlock
      /\ UNCHANGED <<module, files, num, ubuf>>

\* new_entry goes on pointing to the command that is now in the ring.
WriteAdd_Slip(p) == PutInRing(p) /\ UNCHANGED new_entry

\* The size is not reset.
WriteAdd_Size_Slip(p) == PutInRing(p) /\ new_entry' = [new_entry EXCEPT !.buffptr = NoPtr]

WriteAdd(p) == PutInRing(p) /\ new_entry' = NullEntry

----------------------------------------------------------------------------
(* llseek                                                                  *)

LlseekCall(p, f) ==
  /\ Enter(p, f, "llseek_lock", <<>>)
  /\ UNCHANGED <<device, files, num, ubuf>>

LlseekLock(p) == Lock(p, "llseek_lock", "llseek_length")

\* total_size is taken under the lock ...
LlseekLength(p) ==
  /\ Step(p, "llseek_length", "llseek_set")
  /\ num' = [num EXCEPT ![p] = GetLength(buffer)]
  /\ Unlock
  /\ UNCHANGED <<module, buffer, new_entry, heap, kbuf_lost, files, ubuf>>

\* The target is only compared with total_size.
InRange_Slip(p, target) == target <= num[p]

InRange(p, target) == 0 <= target /\ target <= num[p]

\* ... and used after it, with the file's position as it is by then.  An
\* unknown whence and a target out of range are -EINVAL.
LlseekSet(p) ==
  LET base == [SEEK_SET |-> 0, SEEK_CUR |-> f_pos[call[p].filp], SEEK_END |-> num[p]]
  IN  /\ call[p].pc = "llseek_set"
      /\ \E whence \in DOMAIN base, offset \in SeekOffsets :
           LET target == base[whence] + offset
           IN  IF InRange(p, target)
               THEN /\ call' = [call EXCEPT ![p].pc = "llseek_store"]
                    /\ num' = [num EXCEPT ![p] = target]
               ELSE Finish(p)
      /\ UNCHANGED <<device, files, ubuf>>

\* filp->f_pos = new_f_pos, whatever the position has become since it was read.
LlseekStore(p) ==
  /\ call[p].pc = "llseek_store"
  /\ f_pos' = [f_pos EXCEPT ![call[p].filp] = num[p]]
  /\ Finish(p)
  /\ UNCHANGED <<device, opened, ubuf>>

----------------------------------------------------------------------------
(* ioctl AESDCHAR_IOCSEEKTO                                                *)

\* (Another command is -ENOTTY, a fault of copy_from_user is -EFAULT; neither
\* changes anything.)
IoctlCall(p, f) ==
  /\ Enter(p, f, "ioctl_lock", <<>>)
  /\ UNCHANGED <<device, files, num, ubuf>>

IoctlLock(p) == Lock(p, "ioctl_lock", "ioctl_find")

IoctlFind(p) ==
  /\ call[p].pc = "ioctl_find"
  /\ \E cmd \in SeekCmds, off \in CmdOffsets :
       LET target == FindSeekto(buffer, cmd, off)
       IN  IF target = -1
           THEN Finish(p)
           ELSE /\ call' = [call EXCEPT ![p].pc = "ioctl_set"]
                /\ num' = [num EXCEPT ![p] = target]
  /\ Unlock
  /\ UNCHANGED <<module, buffer, new_entry, heap, kbuf_lost, files, ubuf>>

IoctlSet(p) ==
  /\ call[p].pc = "ioctl_set"
  /\ f_pos' = [f_pos EXCEPT ![call[p].filp] = num[p]]
  /\ Finish(p)
  /\ UNCHANGED <<device, opened, ubuf>>

----------------------------------------------------------------------------

\* A signal ends the wait of mutex_lock_interruptible: -ERESTARTSYS.  write
\* waits in mutex_lock and cannot be interrupted.
Interrupted(p) ==
  /\ call[p].pc \in {"read_lock", "llseek_lock", "ioctl_lock"}
  /\ Finish(p)
  /\ UNCHANGED <<device, files, ubuf>>

Init ==
  /\ module = "unloaded"
  /\ buffer = EmptyBuffer
  /\ new_entry = NullEntry
  /\ lock = Free
  /\ heap = [q \in Ptrs |-> Free]
  /\ kbuf_lost = FALSE
  /\ opened = {}
  /\ f_pos = [f \in Files |-> 0]
  /\ call = [p \in Procs |-> NoCall]
  /\ num = [p \in Procs |-> 0]
  /\ ubuf = [p \in Procs |-> <<>>]

\* The steps of a process that is inside a call and has the processor.
Run(p) ==
  \/ ReadMiss(p) \/ ReadHit(p) \/ ReadCopy(p)
  \/ WriteAppend(p) \/ WriteNoMemory(p) \/ WriteAdd(p)
  \/ LlseekLength(p) \/ LlseekSet(p) \/ LlseekStore(p)
  \/ IoctlFind(p) \/ IoctlSet(p)
  \/ Return(p)

\* The steps by which a process gets the mutex.
GetLock(p) == ReadLock(p) \/ WriteLock(p) \/ LlseekLock(p) \/ IoctlLock(p)

\* The steps that nothing obliges to happen.
Fault(p) == ReadFault(p) \/ Interrupted(p)

\* What a process does with a file before any lock: the calls begin, and a write
\* that faults ends.
Begin(p, f) ==
  \/ Open(p, f)
  \/ ReadCall(p, f)
  \/ WriteCall(p, f)
  \/ WriteFault(p, f)
  \/ LlseekCall(p, f)
  \/ IoctlCall(p, f)

Next ==
  \/ LoadInit
  \/ LoadAdd
  \/ Unload
  \/ \E f \in Files : Release(f)
  \/ \E p \in Procs : \/ \E f \in Files : Begin(p, f)
                      \/ GetLock(p)
                      \/ Run(p)
                      \/ Fault(p)

Spec == Init /\ [][Next]_vars

\* A process that can run does, and the mutex is handed to every waiter sooner
\* or later (the kernel's mutex queues its waiters and hands over to the first).
\* Nothing makes a process begin a call, nor a fault happen.
Fairness == \A p \in Procs : WF_vars(Run(p)) /\ SF_vars(GetLock(p))

FairSpec == Spec /\ Fairness

----------------------------------------------------------------------------
(* Properties                                                              *)

PCs == {"idle", "return",
        "read_lock", "read_find", "read_copy",
        "write_lock", "write_append", "write_add",
        "llseek_lock", "llseek_length", "llseek_set", "llseek_store",
        "ioctl_lock", "ioctl_find", "ioctl_set"}

Entries == [buffptr : Ptrs \cup {NoPtr}, size : Nat]
Bytes == Seq(Byte \cup {Junk})
Calls == [pc : PCs, filp : Files \cup {NoFile}, kbuf : Seq(Byte), slot : Slots, byte : Nat]

\* Types.  The positions are sums over the ring; PositionsNatural is theirs.
TypeOK ==
  /\ module \in {"unloaded", "initialised", "live"}
  /\ buffer \in [entry : [Slots -> Entries], in_offs : Slots, out_offs : Slots, full : BOOLEAN]
  /\ new_entry \in Entries
  /\ lock \in Procs \cup {Free}
  /\ heap \in [Ptrs -> Bytes \cup {Free}]
  /\ kbuf_lost \in BOOLEAN
  /\ opened \subseteq Files
  /\ DOMAIN f_pos = Files
  /\ call \in [Procs -> Calls]
  /\ DOMAIN num = Procs
  /\ ubuf \in [Procs -> Bytes]

Critical == {"read_find", "read_copy", "write_append", "write_add",
             "llseek_length", "ioctl_find"}

\* Between mutex_lock and mutex_unlock a process owns the mutex, so no two
\* processes are there together, whichever of the four handlers they run.
MutualExclusion ==
  \A p \in Procs : call[p].pc \in Critical => lock = p

\* The mutex is owned only by a process that is between lock and unlock: no
\* path out of a handler forgets the unlock.
ReturnsUnlocked ==
  \A p \in Procs : lock = p => call[p].pc \in Critical

\* The pointers the driver will follow, with the sizes it believes in.
RingEntries == {buffer.entry[SlotAt(buffer, i)] : i \in 0 .. (EntryCount(buffer) - 1)}

\* Whatever a reader can reach through the ring is a block in use and as long
\* as the ring says; no block is in the ring twice, or both in the ring and
\* still being extended, so no kfree or krealloc takes away the block of
\* another entry.
MemorySafe ==
  module # "unloaded" =>
    /\ \A i \in 0 .. (EntryCount(buffer) - 1) :
         LET e == buffer.entry[SlotAt(buffer, i)]
         IN  /\ e.buffptr \in Ptrs
             /\ heap[e.buffptr] # Free
             /\ Len(heap[e.buffptr]) = e.size
             /\ e.buffptr # new_entry.buffptr
             /\ \A j \in 0 .. (EntryCount(buffer) - 1) :
                  i # j => e.buffptr # buffer.entry[SlotAt(buffer, j)].buffptr
    /\ new_entry.buffptr # NoPtr =>
         /\ heap[new_entry.buffptr] # Free
         /\ Len(heap[new_entry.buffptr]) = new_entry.size

\* A reader that found an entry copies bytes that lie inside it, although the
\* copy may sleep and other processes run between the two steps.
ReadInBounds ==
  \A p \in Procs : call[p].pc = "read_copy" =>
    LET e == buffer.entry[call[p].slot]
    IN  /\ e.buffptr \in Ptrs
        /\ heap[e.buffptr] # Free
        /\ call[p].byte < Len(heap[e.buffptr])

\* No krealloc that would grow the command in progress fails.
GrowSucceeds == "grow" \notin AllocFails

\* Every block that holds a command, finished or in progress, is reachable from
\* the device, so that unloading the module (aesd_cleanup_module) frees all of
\* them, as long as no krealloc of a command in progress fails.  It says nothing of kbuf, the buffer
\* that aesd_write copies the data through: kbuf_lost.
CommandBlocksReachable ==
  GrowSucceeds => \A q \in Ptrs : heap[q] # Free =>
    /\ module = "live"
    /\ q = new_entry.buffptr \/ \E e \in RingEntries : q = e.buffptr

\* A file's position is never negative: find_entry_offset_for_fpos would take
\* it for a huge size_t.  SEEK_CUR adds to a position that other calls on the
\* same file move at the same time.
PositionsNatural ==
  /\ f_pos \in [Files -> Nat]
  /\ num \in [Procs -> Nat]

\* Every call returns: nobody waits forever for the mutex.
EveryCallReturns ==
  \A p \in Procs : (call[p].pc # "idle") ~> (call[p].pc = "idle")

\* The command in progress is made of bytes that were written (aesd_write's
\* krealloc and memcpy, and the reset of new_entry), as long as no krealloc of a
\* command in progress fails: after that new_entry.size goes on counting a block that is gone.
PendingWasWritten ==
  GrowSucceeds /\ module = "live" /\ new_entry.buffptr # NoPtr =>
    \A i \in 1 .. Len(heap[new_entry.buffptr]) : heap[new_entry.buffptr][i] # Junk

----------------------------------------------------------------------------
(* The driver implements the device that its users see.                    *)

\* The contents of the i-th retained command.
Command(i) == heap[buffer.entry[SlotAt(buffer, i - 1)].buffptr]

logBar ==
  IF module = "live" THEN [i \in 1 .. EntryCount(buffer) |-> Command(i)] ELSE <<>>

partialBar ==
  IF module = "live" /\ new_entry.buffptr # NoPtr THEN heap[new_entry.buffptr] ELSE <<>>

Device == INSTANCE CommandDevice WITH
            log <- logBar, partial <- partialBar, answer <- ubuf

DeviceSpec == Device!Spec
=============================================================================
