# A verification project for the AESD character driver and socket server

The repository holds the course work of an embedded Linux class. Its core is a small
system of three layers: a ring of commands (`aesd-char-driver/aesd-circular-buffer.c`),
a Linux character driver that serves the ring as `/dev/aesdchar`
(`aesd-char-driver/main.c`), and a threaded TCP server in front of the device
(`server/aesdsocket.c`). Beside it are two exercises with concurrency of their own
(`examples/threading`, `examples/systemcalls`). This directory models all five in TLA+,
checks them with TLC on small instances, and proves the safety of the ring, the driver, the
server and the threading exercise with TLAPS for every value of the constants.

Paths in this document are relative to `src/`.

## 1. Inventory

| component | state it keeps | operations | hard behaviour | what makes it correct |
|---|---|---|---|---|
| command ring, `aesd-circular-buffer.c/.h` | `entry[10]`, `in_offs`, `out_offs`, `full` | init, add_entry, find_entry_offset_for_fpos, find_seekto_fpos, get_length | wrap of two indexes, full and empty look alike, empty commands, off-by-one at the ends | holds the last N commands in order; every function agrees with the concatenation of them |
| character driver, `main.c` | the ring, `new_entry` (command in progress), a mutex, kernel blocks, a position per struct file | open, release, read, write, llseek, ioctl, module init and exit | several processes; a copy that may sleep under the lock; state used after the unlock; failing krealloc and user copies; reload | mutual exclusion; no use after free, no command's block lost; a command is whole; every call returns |
| socket server, `aesdsocket.c` | list of `ThreadArg`, `isDone` flags, `file_mutex`, `exit_requested`, per worker: received chunks, file | start, accept, create thread, join finished threads, receive, write the packet, seek, echo, signal, exit and a later start | threads finish while the list is walked; packets in pieces; clients that leave; failing calls; the echo runs without the mutex; a signal between a test and a wait; a device that outlives the server | packets are not mixed; a client whose sends and reads succeed gets its packet back, and without gaps; the list holds exactly the unjoined threads; nobody waits forever |
| the server's build without the device (`USE_AESD_CHAR_DEVICE=0`) | a data file, a POSIX timer | timer_handler writes a time stamp under `file_mutex` | threads of the timer against workers | stamps are not inside packets |
| `findCommand` of the server | none (a parser over the list of chunks) | text to `struct aesd_seekto` | texts cut anywhere, 32-bit wrap, missing digits, a newline in the middle | accepts what the text up to the newline says, and nothing else |
| `examples/threading` | a `thread_data` per thread, a mutex of the caller | start_thread_obtaining_mutex: wait, obtain, wait, release | failing steps, a block with three possible owners | success flag, one owner at a time, the call does not block |
| `examples/systemcalls` | none; child processes | do_system, do_exec, do_exec_redirect | failing child steps, interrupted waits, descriptors | result says whether the command succeeded; output goes where it was told |
| `finder-app`, load/unload and init scripts, QEMU and kernel build scripts, tests, CI | files | straight-line | none that is concurrent | - |

How they interact: the server opens the device once per connection and uses write(2),
read(2) and the ioctl; the driver calls the ring with `dev->lock` held (the ring does no
locking, see the comments on its parameters); the scripts load and unload the module. The
VFS between a process and the driver matters: it gives read and write a copy of the file's
position and stores it back after the call, with no lock for a character device.

`PROJECT.json` lists the same components with their status, and under `hazards` every
behaviour that is hard to test, at its line, with the properties that would catch it.

## 2. Modules

| module | role |
|---|---|
| `CircularBuffer` | the ring's functions as operators on the value of `struct aesd_circular_buffer` |
| `CommandRing` | the ring by itself with the history of all additions; `MCCommandRing` for TLC |
| `CommandDevice` | abstract specification: what `/dev/aesdchar` promises its users (a log of the last N commands, one command in progress, answers to reads) |
| `AesdChar` | the driver, step by step; EXTENDS `CircularBuffer`; refines `CommandDevice` (`DeviceSpec`); `MCAesdChar` for TLC |
| `FileReader` | `AesdChar` with a history variable for how far a file has been read; `MCFileReader` for TLC |
| `SeekCommand` | findCommand, as a recursive function over the bytes of the chunks |
| `SeekText` | a text that arrives in chunks, and the reference definition of what it means; `MCSeekText` for TLC |
| `AesdSocket` | main thread, workers, timer threads, clients, signals and restarts of the server; EXTENDS `SeekCommand`, over the abstract device (`Device == INSTANCE CommandDevice`); `MCAesdSocket` for TLC |
| `ThreadingExample` | start_thread_obtaining_mutex, its thread and the caller that joins it |
| `SystemCalls` | the three functions of the exercise and the child processes they leave |
| `DataLemmas` | sums over a finite set, recursion along 0..n, joined and flattened sequences: the facts the other proofs need of recursively defined data |
| `CircularBufferLemmas` | what the ring's operators do, proved for every ring size |
| `CommandRingProofs`, `AesdCharProofs`, `SeekTextProofs`, `AesdSocketProofs`, `ThreadingProofs`, `SystemCallsProofs` | theorems about the module of the same name; `AesdCharProofs` also about `FileReader`, and that the driver implements `CommandDevice` |

The layers compose through the abstract device: the driver run shows that the handlers,
interleaved in any way, implement it (`AesdCharProofs` proves it for every instance), and the server's model uses it in place of the driver.

A definition whose name ends in `_Slip` is a variant of the next definition with one
plausible slip. No specification uses it. Putting it in the place of the original must make
a property fail, and `PROJECT.json` (`mutants`) says which; this guards against properties
that hold whatever the code does.

### State and actions against the code

*CircularBuffer.* `Slots` is the index range, `Advance` the `% N` of add_entry,
`EntryCount` is `num_iterations`, `SlotAt` is `posn`, `SizeBefore` is `cumulative`.
`FindEntryOffset` returns a set of at most one hit; the empty set is the NULL. Sizes are
counts of bytes; the loop over bytes is a range test. `FindSeekto` has the code's `>`
comparisons (the first one goes one too far, finding 2).

*AesdChar.* `buffer`, `new_entry`, `lock` are the fields of `aesd_device`; `heap` maps an
address to the bytes of the block there, or to `Free`; `call[p]` is the system call a
process is in (`pc`), with the local variables that live across steps (`kbuf`, and `slot`
and `byte` found by a read); `num[p]` is its `*f_pos`, `total_size` or `new_f_pos`; `f_pos`
belongs to the struct file. A step boundary is put where another process can run with an
effect: before each lock, between the search and the sleeping copy, between append and
add, between the unlock and what the handler still does, and between the handler's return and the
VFS storing the position. `Unload` frees what aesd_cleanup_module frees. krealloc may move
the block (any free address) or fail (`WriteNoMemory`: the pointer is overwritten, the size
stays), and `AllocFails` says whether it may fail where it begins a command ("fresh") or where it
extends one ("grow"); a moved block keeps its bytes and is followed by memory nobody wrote (`Junk`).
`kbuf_lost` says whether a kbuf of aesd_write (line 130) is allocated that no call will free:
every write that succeeds sets it, and so does one whose copy_from_user faults (`WriteFault`);
only the path of a failed krealloc frees its kbuf. `LlseekSet` reads the file's position for
SEEK_CUR and `LlseekStore` stores the new one, with no lock held, so that stores of other calls
on the file come between. `Readable` are the files opened for reading: the VFS refuses a read
of the others. kmalloc failing, an unknown ioctl and a NULL argument change nothing and are
stutters.

*AesdSocket.* `main` is the program counter of the main thread; `next`, `prev`, `current`
are the list and the two pointers of the join loop; `worker[c]` is the place of the thread
of client c, which stands for its connection; `got` and `written` count the chunks received
and handed to write. `accept` and `blocked` are two states, because a signal only interrupts the
second. A worker step is one system call or one lock operation. `build` is the value of
`USE_AESD_CHAR_DEVICE`; `stamper[s]` is a thread that an expiration of the timer starts
(`SIGEV_THREAD`). `Faults` says which calls may fail; each failure is an action of its own
that does what the code does then: `WriteFails` leaves a chunk out and goes on, because the
-1 of write is compared as a size_t; `EchoKills` is the SIGPIPE that `send` to a vanished client raises (no
handler is installed); `NoMemory` is the crash after one of the two mallocs whose result is not
looked at (lines 369 and 508). "signal" is a member of `Faults` too: the handler, installed
without SA_RESTART, may run in any thread, so it makes a blocked accept return or does not, and
once it has come it may cut a send short (`EchoCut`: the loop goes on behind what was read),
end an echo before the end of the data by a read that returns -1 (`ReadFails`), and leave a seek
undone (`Seek`). `failed` remembers which client's echo had a send or a read that failed.
Everything stops when `main = "exited"`: the process ends without joining
its workers. `Restart` is the next start of the program: its threads and descriptors are
gone, the device, with half a packet perhaps, is as they left it. The position
a seek command leads to is computed as the ring's `find_seekto_fpos` does (`SeekPositions`), with its acceptance of the
command behind the newest one.

*SeekCommand, SeekText.* `NextByte` is one turn of the inner loop with the variables that
live across turns; a byte is its digit's value or a model value; numbers are modulo
2^`Width`. `SeekText` receives a text byte by byte, cuts it into chunks where recv may cut
it, and compares `FindCommand` with `Meant`, which takes the text apart with no loop: a number is
the sum of its digits, each times ten to the number of digits behind it.

*ThreadingExample.* `start[t]` is where the call is, `thread[t]` where the thread is,
`block[t]` the `thread_data`. The caller is the one threading.h describes: it may hold the
mutex, joins, reads the flag and frees the block.

*SystemCalls.* `parent` is where the program is, `child[c]` the process of call c with the
descriptor it has as its standard output. An interrupted waitpid returns an error and
leaves the child to run on beside later calls.

## 3. Runs

| run | instance | distinct states | shows |
|---|---|---|---|
| `ring` | 3 slots, 7 additions of 0..2 bytes | 3 280 | the ring holds the last commands; lookup, seek and length agree with the concatenation, and a seek past the newest command overshoots by no more than stated; add_entry hands back the block that leaves |
| `driver` | 2 processes on one shared file, 2 slots, 4 blocks, payloads of 1 and 2 bytes, seeks both ways, reload, user copies that fault, a krealloc that may fail where it begins a command | 2.5 M | lock, memory of the commands, positions, and the refinement of `CommandDevice` |
| `reader` | 2 processes with a file each, the second's for writing only, 1 slot, 2 blocks, krealloc failures, fairness | 0.3 M | no dangling pointer even after a lost block; a reader that does not seek is never given a byte twice, although evictions move the data; every system call returns and gives the mutex up |
| `server` | 3 clients (one packet in two chunks), ring of 2 commands, reads of up to 3 bytes, failing open | 1.9 M | packets whole, echo holds the client's packet, list of threads, every access to the device is one that `CommandDevice` has |
| `server_restart` | 2 clients (a packet and a seek command, two chunks each), ring of 1 command, reads of up to 2 bytes, a timer thread, both builds, failing start, write, send and malloc, a signal, 2 starts | 2.4 M | packets and time stamps whole across failures and a restart; what a client is sent starts where it asked and has no gap but that of a failed send; accesses to the device as above, also when it evicts during an echo |
| `server_live` | 2 clients with one chunk each, a timer thread, both builds, failing accept, pthread_create and send, a signal, fairness | 117 K | every served connection and every time stamp ends; a stopped server exits at the next connection |
| `seek_parser` | all texts of up to 6 bytes over 6 symbols, numbers of 4 bits, every cut into chunks of up to 5 | 0.8 M | findCommand finds what the text means |
| `threading` | 3 threads and the caller on one mutex, every call may fail | 13 568 | exclusion, ownership of `thread_data`, the flag, progress |
| `systemcalls` | 2 calls of any of the 3 functions, standard output open or closed, every call may fail | 3 428 | results, redirection, no child left, every call returns |
| `driver_lock_leak`, `ring_seek`, `server_exit` | small | - | the three findings below, each with the trace TLC prints |

Bounds, and why they are enough. The ring of three wraps twice in seven additions, so every
combination of the two offsets and of `full` occurs, also with empty commands; the proofs
cover the other sizes. In the driver two slots are the fewest for which the oldest and the
newest command differ; two processes are enough for any pairwise race on the one mutex, and
the safety of more is proved. `MaxPending` bounds only commands without a newline. Four blocks
hold a full ring, a pending command and the target of a krealloc that moves; with three,
krealloc grows in place when the ring is full. The reader's ring of one evicts at every command,
which is the case `NeverRereads` is about, and keeps the state space small enough for liveness. In the server three clients are what it takes
for the join loop to unlink a node with a neighbour on each side; two of them are
interchangeable (SYMMETRY on the clients with equal scripts, sound because no liveness
property is checked there). The ring of one command in `server_restart`
makes the second command of a run evict the first, and reads of two bytes take a command that two packets were joined to apart; the signal is left out of `server`, where it would double the states, and is in
the other runs of the server. Addresses are symmetric in `driver` because they are
only compared for equality. Two
starts are enough for a restart over any state of the device, since nothing else survives.
In the parser the shortest accepted text has three bytes (the command is two symbols), so
six leave room for two digits on each side of the comma or a byte after the newline; four
bits wrap at two digits. Two consecutive calls are what an abandoned child of the first can disturb.

`EchoHoldsPacket` and `EchoFromStart` are stated until the device has been given more
commands than it remembers: after that data moves under the position of a worker that reads without the
mutex, and only `UsesDevice` still says something of what is sent: at a time a piece of one command.
`EchoHoldsPacket` is also stated only while no write fails, and for a client none of whose sends and reads failed:
the code looks at neither result, and either failure can cut the packet out. `EchoFromStart` exempts a client whose
send failed (its echo has a gap) but not one whose read failed (its echo is only shorter).
`PacketsWhole` allows a missing chunk only where a write may fail.
`CommandBlocksReachable`, `PendingWasWritten` and the refinement hold only while no krealloc of a command in progress
fails (`GrowSucceeds`), and say so; the first is about the blocks of commands and not about kbuf.

Deadlock is checked in `reader`: some process can always begin a call. It is off
elsewhere: the histories of `ring` and `seek_parser` are bounded, a fault of copy_to_user
really stops everything (`driver`, `driver_lock_leak`), a server that has exited
takes no step, and the examples come to their end.

### Fairness

`AesdChar`: weak fairness of the steps of a process that holds the processor, strong
fairness of getting the mutex (the kernel queues its waiters and hands over to the first).
Nothing makes a process start a call, and no fault is ever forced. `AesdSocket`: weak
fairness of the main thread, of each worker and of a timer thread with the mutex (the client
of a connection sends or closes sooner or later, so recv does return; without that assumption
a silent client keeps its own thread for ever, and only that), strong fairness of
`file_mutex` for each waiter: glibc hands a mutex to nobody in particular, but every holder
gives it up and waiters are woken. No client has to connect, no signal or time stamp has to come and nobody
has to start the program again. `ThreadingExample`: the same for its threads, and the caller lets go of the mutex.
`SystemCalls`: runnable processes run, and commands end.

## 4. Findings

1. `main.c:103` returns from aesd_read inside the critical section after a fault of
   copy_to_user: the device stays locked (`ReturnsUnlocked`, run `driver_lock_leak`).
2. `aesd-circular-buffer.c:81` refuses a `write_cmd` only when it is greater than the number of
   commands, although `aesd_ioctl.h:27` calls it "zero referenced": the number of commands itself is
   accepted, and on a full ring leads beyond the end of the data by up to the oldest command's size
   (`SeekStaysInside`, run `ring_seek`). `SeekOvershootBounded`, checked in `ring` and proved, says that it
   goes no farther, and that no other seek leaves the data.
3. `aesdsocket.c:490`: a termination signal between the test of `exit_requested` and the
   wait in accept is not acted on until another client connects (`SignalExits`, run
   `server_exit`).

Observations met while modelling, which no document or test of the repository contradicts
clearly enough to state a property, or which are about data the models leave out:

- `main.c:130`: kbuf is freed on the krealloc error path only, so every successful write and every
  write whose copy_from_user faults loses a block for good, which rmmod does not find (`kbuf_lost`).
- `main.c:238` and `:254`: llseek reads and stores the file's position without a lock, and compares with a
  length that may have changed: two calls on one file may undo each other, and the position may lie beyond the end.
- `main.c:166` overwrites the only pointer to the command in progress with krealloc's NULL but
  keeps its size: the next command then starts with bytes nobody wrote.
- A client that closes in mid-packet leaves its bytes in front of the next client's packet,
  and one that vanishes during the echo ends the server through SIGPIPE.
- `aesdsocket.c:433`: a write that fails is not noticed (-1 in a `size_t`) and the packet gets a hole.
- `aesdsocket.c:458`: the result of send is not looked at. A short or interrupted send leaves a gap in the
  echo; at line 453 a read that a signal interrupts (the driver waits interruptibly at `main.c:74`) ends it early.
- `aesdsocket.c:369` and `:508`: the results of two mallocs are used without a test.
- `aesdsocket.c:417`: when the packet was a command, or open failed, the list of received chunks is never freed.
- `aesdsocket.c:515`: when pthread_create fails, the connection and its ThreadArg are left behind.
- `aesdsocket.c:84`: timer_handler returns with its descriptor open when its write fails.
- `aesdsocket.c:150`: the parent of the daemon exits with success before listen has been tried.
- `aesdsocket.c:607`: the data file is removed while workers may still run; one of them, or the
  timer, can create it again before the process ends.
- `systemcalls.c:174` closes the descriptor it has just made standard output of when the program's
  own standard output was closed: the command has none, against the comment at line 124.
- `systemcalls.c:99` and `:179`: exit in the child flushes the parent's buffered output a second time.
- `systemcalls.c:105`: an interrupted waitpid is an error, and the child goes on unwaited for.
- `threading.c:23`: `wait_ms * 1000` may overflow, and usleep need not take a second or more.

## 5. Proofs

All proofs are checked by TLAPS to the last leaf. Assumptions are the named ASSUMEs of the
modules: the ring has 1..255 slots (the indexes are uint8_t), `Free` and NULL are no
process, address or byte sequence, payloads are non-empty byte sequences, the arguments of calls
are integers of the sign their C type has, counts and bounds are naturals (the sizes of the device and of the
read buffer, and the number of starts, not 0), clients are finitely many and send at least one chunk each, clients,
timer threads and the two null values of the server differ, the caller of the
threading exercise is none of its threads. `CommandAssumption` also says that 2^`Width` is a positive natural, and
`PowersAssumption` what the first powers of ten are: true of every `Width` and `MaxLength`, but the provers do
not know powers.

*Data* (`DataLemmas`). A sum over a set (`MapThenSumSet`) and a concatenation (`FlattenSeq`) are CHOOSEs of
functions that are defined by recursion. The library's induction theorems cannot be used, so the
module proves induction over the naturals for a set (`SetInduction`: a non-empty set of naturals has a
least member, `NatHasLeast`, because < is well founded) and, with it, that a function with a given first value and
given steps exists (`RecursionExists`). Then the CHOOSEs have a value: `SumStep` and `SumAlong` (a sum is
its running total along any order of the set), `FlattenLayout` (where the j-th element of the i-th part
is), `FlattenAppend`, `FlattenBeginnings`, `PieceOfOne` (a stretch inside one part is a piece of it).

*Ring* (`CircularBufferLemmas`, `CommandRingProofs`). `Coherent` is what add_entry keeps
true of a buffer: full means the offsets meet, and until the ring is full nothing has left
slot 0. `AddEntryAppends` and `AddEntryShifts` say what an addition does to the walk
from `out_offs`. `RetainsLast` is not inductive by itself: `RingInv` adds coherence and ties `full`
and `in_offs` to the number of additions. From it: `RingTypeCorrect`, `RingRetainsLast`,
`RingFreesTheOldest`, for every number of slots. What the lookups compute follows from the same invariant
through running totals: the walk from `out_offs` has totals (`WalkTotalsExist`), `SizeBefore` is
one of them (`SizeBeforeIsTotal`), the sum over the slots is the last one because the walk meets every slot that is in use and the
others are empty (`WalkCovers`, `GetLengthIsTotal`), a lookup returns the slot whose two totals enclose the
position (`FindEntryIs`), and the concatenation has the same totals (`ConcatLayout`). From it:
`RingLengthMatches`, `RingFindMatches`, `RingSeekLands`, `RingSeekOvershoot`, for every number of slots and any sizes.

*Driver* (`AesdCharProofs`). `DriverInv` conjoins the types, `Coherent`, `MemorySafe`, "an
open file keeps the module loaded", and for every process `CallInv`: in a call its file is
open, in a critical section it owns the mutex, before the add there is a command to add, and
at the copy its entry is one of the ring's. The last three are why memory is safe: a
step that changes the ring is taken by the owner, so nobody else is at a copy
(`OwnerStep`); all other steps leave ring and memory alone (`QuietStep`). `AddKeepsSafe` is
the heart: the finished command's block becomes the ring's and the one freed is
nobody's. From it: `DriverTypeCorrect`, `DriverMutualExclusion`, `DriverMemorySafe`,
`DriverReadInBounds`, all with allocation failures and user-copy faults, and
`DriverReturnsUnlocked` under the assumption that user copies do not fault (finding 1 shows
that it is needed). `DriverPositionsNatural` adds that lengths, seek results and the ends of reads are naturals
(`GetLengthNat`, `FindSeektoNat`) and that nothing else reaches a file position (`RunPositions`).
`ReaderNeverRereads` is about `FileReader`: `MarkIInv` says that the mark of a file is never in front of the position of its sole
holder, also in the middle of a call. An eviction lowers the mark and not the position, so the inequality survives
it; that is the whole reason, and `NextIsCallStep` spends its length on the steps that move neither.

*The driver's memory* (`AesdCharProofs`), as long as no krealloc of a command in progress fails (one that begins
a command changes nothing, `NoMemoryChangesNothing`):
`MemoryInv` says that every block in use is the one in progress or the ring's (`AddKeepsAccounted`: of the ring's
blocks only the freed one leaves it), that none is in use while the module is not live, and that
new_entry has a size only together with a block, whose bytes were all written
(`GrownWritten`). From it: `DriverCommandBlocksReachable` (of commands' blocks; kbuf is none of them) and `DriverPendingWasWritten`.

*The driver implements the device* (`AesdCharProofs`). The refinement mapping reads the log off the
ring from `out_offs` on and the command in progress off new_entry, while the module is live. `RefInv`
adds what the abstract steps ask for: the command in progress holds a newline exactly while
its writer is about to add it (the mutex makes that writer unique, `OneWriter`), and a read has delivered
nothing before it returns. Then `WriteAppend` is `Extend` (`GrownIsConcat`,
`NewlineOfConcat`), `WriteAdd` is `Commit` (`AddEntryLog`, from `AddEntryAppends` and
`AddEntryShifts`), `ReadCopy` is `Deliver`, or a stutter when the count is 0, `Return` is `Take`, `Unload`
is `Forget`, and every other step is a stutter. `DriverImplementsDevice` assumes `GrowSucceeds`: a
krealloc that fails to grow the command in progress loses it, which is no step of the device.

*Parser* (`SeekTextProofs`). The code and the reference differ in how a number is computed: ten times the
number so far plus a digit, modulo 2^`Width` at each turn, against a sum over places that is reduced once. `TenTimes` says that a
digit behind the others makes every summand ten times as large, `WrapOnce` that it does not matter when the
reduction is done, and `DecimalStep` puts them together. `After` gives the parser's variables after n bytes in
terms of the places of the digits before and behind the first comma; `TurnStep` proves that one turn of
the loop keeps it so, and `FindCommandIs` and `MeantIs` that code and reference return the same. That the outer
loop goes on behind a newline does no harm because only the last chunk of a list can have one
(`HeadInv`, `LastChunk`). From it: `SeekFindsWhatIsMeant`, for every command, width, length and cut.

*Server* (`AesdSocketProofs`). `PacketsWhole` is about the history of everything written and
is not inductive alone. `ServerInv` adds, per worker, that it owns `file_mutex` from the lock
to the unlock, that nothing of it is in the history before it begins to write, and that while
it goes on the history ends with its own chunk; per timer thread, ownership and that it
writes once; and for the main thread that the connection in its hands is one whose worker does
not run yet. The mutex then gives the step: who writes owns it, so no other worker is in its
loop (`WriteKeepsInv`), and `AppendKeepsWhole` is the fact about sequences. `WorkerMoves`
covers all steps that write nothing. From it: `ServerPacketsWhole`, for any number of clients and timer threads, any packets, both builds, any
set of failing calls and any number of restarts.

`ServerListIsThreads` needs the shape of the list. `LinksUp(next, S)` says that there is a
way p[1], ..., p[n] along `next` from `DummyNode` to NULL that meets each node of S once; `ListShape` says that it
does for the threads created and not joined (less the one in the main thread's hands), that
`prev` is on it with `current` behind it, and that the node to be linked next leads nowhere. `LinkAppend` and
`LinkUnlink` are what the two changes do to a way; `ListedIs` says that the walk of the model, a recursive
function, finds the nodes of the way and no more. The list is meaningless once the process has ended, so `ListIsThreads` and
`ListInv` speak of a running program.

`ServerEchoFromStart` and `ServerEchoHoldsPacket` are about concatenations. `DataInv` has the types of the data
(`FindCommandType` runs through the parser to say that a seek names naturals) and the progress of
each worker: nothing is written or sent before its time, nothing of a packet that is a command is written,
who has written has the file open. `EchoInv` ties, in the build with the device and until the first eviction,
the length of the log to the commands in the history (so that no write before an eviction finds the log full), what each client was sent to a stretch of
the contents (`EchoedFrom`), and the place of each packet (`PacketAt`): the end of all that the device was given while it is written, the
contents once it is, what the client was sent once it is served. The middle one is why the last one follows at the
end of the echo, and the first is why a write keeps both: contents only grow
(`GrownContents`), and so does the set of places a seek can lead to (`SeekPositionsGrow`). That the mutex is needed
shows in `OthersPacketAt`: the end of what was written stays the writer's own because no other worker is writing. Failed sends and reads only
add to `failed` and take the client out of what the properties say; a failed read leaves the stretch as it is. Steps are sorted by
what they do to the data: those that move none are `Calm`, and one lemma covers them. The invariants were
checked by TLC on configurations of the server before they were proved.

*The server uses the device* (`AesdSocketProofs`). The server's steps compute the log and the contents themselves, a write
in one step and a read as a stretch of all the contents; `ServerUsesDevice` says that they are the steps of
`CommandDevice` all the same. A write of a node is `Extend`, and with its newline `Extend` then `Commit`
(`WriteUsesDevice`); a read that is sent on is `Deliver` of a piece of one command, of 1 to `ReadSize`
bytes, of which a send that fails passes on a beginning (`EchoUsesDevice`); nothing else touches the device (`OthersUseNothing`). Both need `CommandsWhole`, that
nothing in progress has a newline and every remembered command has one: a write could otherwise not be an `Extend`, and
the command in which a read ends need not be the one in which it begins, because an empty command would end where the
one before it does. `BeginningLayout` and `PieceOfOne` are the facts about sequences. Because writers hold
`file_mutex` and a read sees only the log, nothing can tell one write step from its two halves. The statement is the property
`UsesDevice` of the runs `server` and `server_restart`. With `DriverImplementsDevice` the two sides meet: what
the driver implements is what the server relies on.

`ServerTypeCorrect` puts the invariants together; `prev` is not NULL in the join loop because it is on the list.

*Threading exercise* (`ThreadingProofs`). `ThreadingInv` says per thread who has its block,
whether it owns the mutex, and what its flag may be. From it: `ThreadsExclude`,
`BlocksHaveOneOwner`, `FlagsTellTheTruth`, for any number of threads and any failures.

*Systemcalls exercise* (`SystemCallsProofs`). `SystemInv` says where the program is relative to the
child of call n (`ParentInv`), what a call that has returned has left of its child
(`ReturnInv`; a child left behind by an interrupted wait is reaped by nobody), and which descriptors a child
has on its way from fork to execv (`DescriptorInv`). From it: `SystemTypeCorrect`, `ResultsTellStatus`,
`CommandsWriteWhereTold`, `CallsLeaveNoChild`, for any number of calls and any failures.

Every invariant and every safety property of an action that a passing run checks is also proved. Only model-checked
is all liveness (`EveryCallReturns`, `EveryThreadEnds`, `ExitsAtNextConnection`, `StartDoesNotBlock`,
`CallReturns`): fairness and ENABLED are outside the prover.
Two findings of the proofs were about the properties: `ListIsThreads` was stated of an exited process too, where
the end that `EchoKills` brings can leave the list between two steps, and `EchoHoldsPacket` said nothing of a packet
whose last chunk has no newline or whose write fails, neither of which need be in the contents. Both now say so.

## 6. Not modelled, and why

- Zero-length writes, and the 2^32 limits of sizes: they do not reach the control flow of the
  handlers. The comparison of `(size_t)-1` with a `loff_t` of -1 is right where both have 64 bits; the
  model assumes such a build.
- The memory of the server's chunk lists: locals of one call that nothing else follows.
- In the build with the data file, what the exit does with the file and the timer (remove,
  timer_delete): nothing in the program depends on the file's contents, and the process ends
  with the next statement.
- The text of log messages, addresses and socket options.
- `finder-app/`, scripts, tests and CI: straight-line, without state between runs; see the
  table of section 1 and `PROJECT.json`.

## 7. Plan

Done, in this order: ring, abstract device, driver, reader, server, proofs of ring and driver;
parser, build with the timer, faults and restarts of the server, threading and systemcalls
exercises; proofs of the server, of both exercises, of the driver's memory and of its refinement; the sums
and concatenations of the ring, positions and readers of the driver, the list, the echo and the types of the server, the parser of the seek command.

Then what the server asks of the device (`ServerUsesDevice`).

Left: one module with the server over the driver's own steps. `DriverImplementsDevice` and `ServerUsesDevice`
say that nothing new can be seen through the device by writing it, as long as no krealloc of a command in progress fails; a run with allocation
failures under the server is what it would add.
