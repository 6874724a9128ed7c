----------------------------- MODULE AesdSocket -----------------------------
(***************************************************************************)
(* The socket server (server/aesdsocket.c): the main thread that accepts   *)
(* connections, links a ThreadArg per connection into a list and joins     *)
(* finished threads; one worker thread per connection, which receives a    *)
(* packet, hands it to the device or the data file under file_mutex and    *)
(* sends the device's contents back; the timer's threads; the termination  *)
(* signal; and a later start of the program over the same device.          *)
(*                                                                         *)
(* build is the choice of USE_AESD_CHAR_DEVICE.  The device is the one     *)
(* CommandDevice promises: a write(2) or read(2) of the server is one step *)
(* of it.  The data file of the other build is opened for writing only, so *)
(* nothing in the program depends on what it holds, but on what is written *)
(* in which order.  A connection is named for its client; a client sends   *)
(* the chunks of its script, each of which is one recv, and may close      *)
(* before the end.                                                         *)
(*                                                                         *)
(* A definition whose name ends in _Slip is not part of the model: see     *)
(* CircularBuffer.                                                         *)
(***************************************************************************)
EXTENDS SeekCommand, FiniteSets

CONSTANTS
  Clients,
  Stampers,      \* the threads that expirations of the timer start
  Null,          \* NULL
  DummyNode,     \* the head of the list of ThreadArgs
  Script,        \* Script[c]: the chunks client c sends
  MaxOps,        \* commands the device remembers
  ReadSize,      \* BUFFER_SIZE, of the read of the echo
  Builds,        \* the builds to look at: "device", "file"
  MaxStarts,     \* bound: how often the program is started
  Faults         \* what may fail: "start" a call before listen, "accept", "create" of a
                 \* thread, "open", "write", "send" to a client that has gone, "malloc";
                 \* and whether a "signal" may come

\* What the clients' chunks consist of.
Bytes == UNION {UNION {ToSet(Script[c][k]) : k \in DOMAIN Script[c]} : c \in Clients}

ASSUME ThreadsAssumption ==
  /\ {Null, DummyNode} \cap (Clients \cup Stampers) = {} /\ Null # DummyNode
  /\ Clients \cap Stampers = {}
  /\ IsFiniteSet(Clients)
ASSUME ScriptAssumption == \A c \in Clients : Script[c] \in Seq(Seq(Bytes)) \ {<<>>}
ASSUME NumbersAssumption == {MaxOps, ReadSize, MaxStarts} \subseteq Nat \ {0}
ASSUME BuildsAssumption == Builds \subseteq {"device", "file"}
ASSUME FaultsAssumption ==
  Faults \subseteq {"start", "accept", "create", "open", "write", "send", "malloc", "signal"}

VARIABLES
  build,
  starts,          \* how often the program has been started
  main,            \* where the main thread is
  client_fd,       \* the connection accept returned to it
  exit_requested,
  next,            \* ThreadArg.next, and that of dummyNode
  prev, current,   \* the two pointers of the join loop
  arg,             \* the ThreadArg of a connection: "none", "live", "freed"
  isDone,          \* ThreadArg.isDone
  worker,          \* where the thread of a connection is
  stamper,         \* where a thread of the timer is
  got,             \* how many chunks a worker has received
  written,         \* how many of them it has handed to write
  file_mutex,      \* the owner, or Null
  file_fd,         \* whether the worker has the device or file open
  f_pos,           \* the position of that open file
  echo,            \* what has been sent back
  failed,          \* history: <<client, call>> when a send or a read of its echo failed
  log, partial,    \* the device
  order            \* history: what was written, as <<client, chunk>> or <<stamper, 1>>

listVars   == <<next, prev, current>>
mainVars   == <<main, client_fd, exit_requested, listVars, arg>>
threadVars == <<isDone, stamper>>
packetVars == <<got, written>>
fileVars   == <<file_fd, f_pos, echo, failed>>
outerVars  == <<build, starts, log, partial, order>>
workVars   == <<threadVars, packetVars, fileVars, file_mutex, outerVars>>
vars == <<mainVars, worker, workVars>>

Device == INSTANCE CommandDevice WITH
            Procs <- Clients, Payloads <- {}, answer <- echo

HasNewline(bytes) == Newline \in ToSet(bytes)

Contents == FlattenSeq(log)

Received(c) == SubSeq(Script[c], 1, got[c])

Running == main # "exited"

Accepting == main \notin {"start", "exited"}

\* The process ends on the spot.
Dies ==
  /\ Running
  /\ main' = "exited"
  /\ UNCHANGED <<client_fd, exit_requested, listVars, arg, worker, workVars>>

\* Whether the process has another thread than the main one.
OtherThreads ==
  \/ \E c \in Clients :
       worker[c] \notin {"absent", "waiting", "accepted", "forgotten", "exited", "cut"}
  \/ \E s \in Stampers : stamper[s] \notin {"absent", "exited", "cut"}

----------------------------------------------------------------------------
(* The main thread                                                         *)

\* A step of the main thread that leaves the workers alone.
MainGo(from, to) ==
  /\ main = from
  /\ main' = to
  /\ UNCHANGED <<exit_requested, workVars>>

\* createSocket up to listen, with createDaemon between (the process goes on as the
\* child), and timerInit.  Until then connections are refused.
MainStart ==
  /\ MainGo("start", "check")
  /\ UNCHANGED <<client_fd, listVars, arg, worker>>

\* One of its calls fails.
MainStartFails ==
  /\ "start" \in Faults
  /\ MainGo("start", "exited")
  /\ UNCHANGED <<client_fd, listVars, arg, worker>>

\* while (exit_requested == false)
MainCheck ==
  /\ MainGo("check", IF exit_requested THEN "exited" ELSE "accept")
  /\ UNCHANGED <<client_fd, listVars, arg, worker>>

\* accept finds no connection and blocks.
MainBlock ==
  /\ MainGo("accept", "blocked")
  /\ \A c \in Clients : worker[c] # "waiting"
  /\ UNCHANGED <<client_fd, listVars, arg, worker>>

\* accept returns a connection; the thread looks at exit_requested next.
MainAccept(c) ==
  /\ \E pc \in {"accept", "blocked"} : MainGo(pc, "accepted")
  /\ worker[c] = "waiting"
  /\ worker' = [worker EXCEPT ![c] = "accepted"]
  /\ client_fd' = c
  /\ UNCHANGED <<listVars, arg>>

\* accept fails for another reason than a signal.
MainAcceptFails ==
  /\ "accept" \in Faults
  /\ \E pc \in {"accept", "blocked"} : MainGo(pc, "accepted")
  /\ client_fd' = Null
  /\ UNCHANGED <<listVars, arg, worker>>

\* An interrupted accept is tried again.
MainExitCheck_Slip ==
  /\ MainGo("accepted", IF client_fd = Null THEN "accept" ELSE "create")
  /\ UNCHANGED <<client_fd, listVars, arg, worker>>

\* Leave when asked to, or when accept failed; else go on to the thread.
MainExitCheck ==
  /\ MainGo("accepted", IF exit_requested \/ client_fd = Null THEN "exited" ELSE "create")
  /\ UNCHANGED <<client_fd, listVars, arg, worker>>

\* A new ThreadArg ...
NewArg(pc) ==
  /\ arg' = [arg EXCEPT ![client_fd] = "live"]
  /\ worker' = [worker EXCEPT ![client_fd] = pc]
  /\ UNCHANGED listVars

\* ... and its thread.
MainCreate == MainGo("create", "append") /\ NewArg("recv") /\ UNCHANGED client_fd

\* pthread_create fails: the ThreadArg and the connection are left behind.
MainCreateFails ==
  /\ "create" \in Faults
  /\ MainGo("create", "check")
  /\ NewArg("forgotten")
  /\ client_fd' = Null

\* The nodes a walk along next meets after dummyNode.
Listed ==
  LET reach[i \in 0 .. Cardinality(Clients)] ==
        IF i = 0 THEN {next[DummyNode]}
        ELSE reach[i - 1] \cup {next[m] : m \in reach[i - 1] \ {Null}}
  IN  reach[Cardinality(Clients)] \ {Null}

\* Link the ThreadArg behind the last node and start the join loop.
AppendAndReap(first) ==
  LET last == CHOOSE m \in Listed \cup {DummyNode} : next[m] = Null
  IN  /\ MainGo("append", "reap")
      /\ next' = [next EXCEPT ![last] = client_fd]
      /\ prev' = first
      /\ current' = next'[DummyNode]
      /\ client_fd' = Null
      /\ UNCHANGED <<arg, worker>>

\* prev starts as NULL.
MainAppend_Slip == AppendAndReap(Null)

MainAppend == AppendAndReap(DummyNode)

\* current->isDone: unlink it and step on; the thread is joined before the next
\* turn of the loop.
MainUnlink ==
  /\ MainGo("reap", "join")
  /\ current # Null
  /\ isDone[current]
  /\ next' = [next EXCEPT ![prev] = next[current]]
  /\ client_fd' = current          \* temp
  /\ current' = next[current]
  /\ UNCHANGED <<prev, arg, worker>>

StepOn ==
  /\ MainGo("reap", "reap")
  /\ current # Null
  /\ ~isDone[current]
  /\ current' = next[current]
  /\ UNCHANGED <<client_fd, next, arg, worker>>

\* prev stays where it is.
MainSkip_Slip == StepOn /\ UNCHANGED prev

MainSkip == StepOn /\ prev' = current

FreeArg ==
  /\ MainGo("join", "reap")
  /\ arg' = [arg EXCEPT ![client_fd] = "freed"]
  /\ client_fd' = Null
  /\ UNCHANGED <<listVars, worker>>

\* pthread_join(temp->thread); free(temp)
MainJoin == FreeArg /\ worker[client_fd] = "exited"

MainReaped ==
  /\ MainGo("reap", "check")
  /\ current = Null
  /\ prev' = Null
  /\ UNCHANGED <<client_fd, next, current, arg, worker>>

\* SIGINT or SIGTERM: the handler sets the flag.  When it runs in the main thread
\* blocked in accept, accept returns EINTR; it may run in any other thread instead.  A
\* worker's call that it interrupts is RecvEnds, Seek, ReadFails or EchoCut.
Signal ==
  /\ "signal" \in Faults
  /\ Running
  /\ exit_requested' = TRUE
  /\ \/ (main = "blocked" => OtherThreads) /\ UNCHANGED main
     \/ main = "blocked" /\ main' = "accepted"
  /\ UNCHANGED <<client_fd, listVars, arg, worker, workVars>>

\* One of the mallocs whose result is not looked at returns NULL: that of the ThreadArg,
\* or that of the node for what recv has returned.  Its use is the end of the process.
NoMemory ==
  /\ "malloc" \in Faults
  /\ \/ main = "create"
     \/ \E c \in Clients : worker[c] = "recv" /\ got[c] < Len(Script[c])
  /\ Dies

OfAll(S, value) == [m \in S |-> value]

Stopped(pc) == IF pc \in {"absent", "exited"} THEN pc ELSE "cut"

\* The program is started again.  The threads that its end stopped somewhere, and
\* their connections, are gone; the device is as they left it.
Restart ==
  /\ main = "exited"
  /\ starts < MaxStarts
  /\ starts' = starts + 1
  /\ main' = "start"
  /\ exit_requested' = FALSE
  /\ client_fd' = Null /\ prev' = Null /\ current' = Null /\ file_mutex' = Null
  /\ next' = OfAll(Clients \cup {DummyNode}, Null)
  /\ arg' = OfAll(Clients, "none")
  /\ isDone' = OfAll(Clients, FALSE)
  /\ file_fd' = OfAll(Clients, FALSE)
  /\ worker' = [c \in Clients |-> Stopped(worker[c])]
  /\ stamper' = [s \in Stampers |-> Stopped(stamper[s])]
  /\ UNCHANGED <<packetVars, f_pos, echo, failed, log, partial, order, build>>

----------------------------------------------------------------------------
(* A client and its worker thread                                          *)

\* The client's connection is queued by listen.
Connect(c) ==
  /\ Accepting
  /\ worker[c] = "absent"
  /\ worker' = [worker EXCEPT ![c] = "waiting"]
  /\ UNCHANGED <<mainVars, workVars>>

\* A step of a worker, as long as the process runs.
Go(c, from, to) ==
  /\ Running
  /\ worker[c] = from
  /\ worker' = [worker EXCEPT ![c] = to]
  /\ UNCHANGED <<mainVars, stamper, build, starts>>

\* recv returns a chunk: it becomes a node; a newline in it ends the packet.
Recv(c) ==
  /\ got[c] < Len(Script[c])
  /\ Go(c, "recv", IF HasNewline(Script[c][got[c] + 1]) THEN "lock" ELSE "recv")
  /\ got' = [got EXCEPT ![c] = @ + 1]
  /\ UNCHANGED <<isDone, written, fileVars, file_mutex, log, partial, order>>

\* A step that only moves on.
GoOn(c, from, to) ==
  Go(c, from, to) /\ UNCHANGED <<isDone, packetVars, fileVars, file_mutex, log, partial, order>>

\* recv returns 0 or fails, or malloc fails: what has been received is used.
RecvEnds(c) == GoOn(c, "recv", "lock")

LockFile(c) ==
  /\ file_mutex = Null
  /\ Go(c, "lock", "open")
  /\ file_mutex' = c
  /\ UNCHANGED <<isDone, packetVars, fileVars, log, partial, order>>

\* The file starts at position 0: the driver knows no O_APPEND.
OpenFile(c) ==
  /\ got[c] > 0
  /\ Go(c, "open", "use")
  /\ file_fd' = [file_fd EXCEPT ![c] = TRUE]
  /\ UNCHANGED <<isDone, packetVars, f_pos, echo, failed, file_mutex, log, partial, order>>

\* Nothing was received, or open failed: nothing is written or sent back.
NoFile(c) == (got[c] = 0 \/ "open" \in Faults) /\ GoOn(c, "open", "unlock")

Found(c) == FindCommand(Received(c))

\* The bytes of the command that write_cmd names.  The device takes the number behind
\* the newest command too: it is the slot to be written next.
SizeOf(write_cmd) ==
  CASE write_cmd < Len(log) -> Len(log[write_cmd + 1])
    [] write_cmd = Len(log) -> IF Len(log) = MaxOps THEN Len(log[1]) ELSE 0

\* Where the device's ioctl puts the position; it refuses any other request, and the
\* data file refuses them all.
SeekPositions(c) ==
  {Len(FlattenSeq(SubSeq(log, 1, to.write_cmd))) + to.write_cmd_offset :
     to \in {t \in Found(c) : /\ build = "device" /\ log # <<>>
                             /\ t.write_cmd <= Len(log)
                             /\ t.write_cmd_offset <= SizeOf(t.write_cmd)}}

\* ioctl(AESDCHAR_IOCSEEKTO).  It may be refused, or interrupted by the signal, which is
\* only logged.
Seek(c) ==
  /\ Go(c, "use", "unlock")
  /\ Found(c) # {}
  /\ \/ \E pos \in SeekPositions(c) : f_pos' = [f_pos EXCEPT ![c] = pos]
     \/ (SeekPositions(c) = {} \/ exit_requested) /\ UNCHANGED f_pos
  /\ UNCHANGED <<isDone, packetVars, file_fd, echo, failed, file_mutex, log, partial, order>>

\* The next node of the list is taken, for one write.
TakeNode(c, then) ==
  /\ Go(c, "use", IF written[c] + 1 = got[c] THEN "unlock" ELSE then)
  /\ Found(c) = {}
  /\ written' = [written EXCEPT ![c] = @ + 1]
  /\ UNCHANGED <<isDone, got, file_fd, echo, failed>>

\* It goes to the device or the file.
WriteNode(c, then) ==
  LET k    == written[c] + 1
      data == partial \o Script[c][k]
  IN  /\ TakeNode(c, then)
      /\ order' = Append(order, <<c, k>>)
      /\ CASE build = "file" -> UNCHANGED <<log, partial>>
           [] build = "device" /\ HasNewline(Script[c][k]) ->
                log' = Device!Remember(data) /\ partial' = <<>>
           [] OTHER -> partial' = data /\ UNCHANGED log

\* The mutex is given up after every chunk.
WriteChunk_Slip(c) == WriteNode(c, "lock") /\ file_mutex' = Null /\ UNCHANGED f_pos

\* The write moves the position that the echo starts from.
WriteChunk_Position_Slip(c) ==
  /\ WriteNode(c, "use")
  /\ f_pos' = [f_pos EXCEPT ![c] = @ + Len(Script[c][written'[c]])]
  /\ UNCHANGED file_mutex

WriteChunk(c) == WriteNode(c, "use") /\ UNCHANGED <<f_pos, file_mutex>>

\* write fails: -1 as a size_t is not less than bytes_to_write, and the loop goes on
\* with the next node.
WriteFails(c) ==
  /\ "write" \in Faults
  /\ TakeNode(c, "use")
  /\ UNCHANGED <<f_pos, file_mutex, log, partial, order>>

Unlock(c, owner) ==
  /\ Go(c, "unlock", IF file_fd[c] THEN "echo" ELSE "close")
  /\ file_mutex' = owner
  /\ UNCHANGED <<isDone, packetVars, fileVars, log, partial, order>>

\* The lock is kept when there is no file to echo.
UnlockFile_Slip(c) == Unlock(c, IF file_fd[c] THEN Null ELSE file_mutex)

UnlockFile(c) == Unlock(c, Null)

\* Where the command that holds position pos ends.
EndOfCommand(pos) ==
  LET ends == {Len(FlattenSeq(SubSeq(log, 1, i))) : i \in 1 .. Len(log)}
  IN  CHOOSE e \in ends : pos < e /\ \A d \in ends : pos < d => e <= d

Least(x, y) == IF x < y THEN x ELSE y

\* read returns the bytes up to position pos; send passes those up to position to on.
\* The mutex is not held.
ReadAndSend(c, to, pos) ==
  /\ f_pos[c] < Len(Contents)
  /\ Go(c, "echo", "echo")
  /\ echo' = [echo EXCEPT ![c] = @ \o SubSeq(Contents, f_pos[c] + 1, to)]
  /\ f_pos' = [f_pos EXCEPT ![c] = pos]
  /\ UNCHANGED <<isDone, packetVars, file_fd, file_mutex, log, partial, order>>

\* A read goes on to the end of the contents.
ReadTo_Slip(c) == Len(Contents)

\* A read returns a piece of one command, at most ReadSize bytes.
ReadTo(c) == Least(EndOfCommand(f_pos[c]), f_pos[c] + ReadSize)

\* The next read takes the buffer to have been filled.
Echo_Slip(c) == ReadAndSend(c, ReadTo(c), f_pos[c] + ReadSize) /\ UNCHANGED failed

\* send passes on all of it.
Echo(c) == ReadAndSend(c, ReadTo(c), ReadTo(c)) /\ UNCHANGED failed

\* send passes on less or nothing: the signal interrupts it, or the client has reset the
\* connection.  The loop does not look and goes on behind what the read returned.
EchoCut(c) ==
  /\ exit_requested \/ "send" \in Faults
  /\ f_pos[c] < Len(Contents)
  /\ \E to \in f_pos[c] .. (ReadTo(c) - 1) : ReadAndSend(c, to, ReadTo(c))
  /\ failed' = failed \cup {<<c, "send">>}

\* The client has closed its end: send raises SIGPIPE, which the server leaves at
\* its default action, the end of the process.
EchoKills(c) ==
  /\ "send" \in Faults
  /\ worker[c] = "echo"
  /\ f_pos[c] < Len(Contents)
  /\ Dies

CloseFile(c) ==
  /\ Go(c, "echo", "close")
  /\ file_fd' = [file_fd EXCEPT ![c] = FALSE]
  /\ UNCHANGED <<isDone, packetVars, f_pos, echo, file_mutex, log, partial, order>>

\* read returns 0; the data file, which is not open for reading, gives an error.
EchoEnds(c) == f_pos[c] >= Len(Contents) /\ CloseFile(c) /\ UNCHANGED failed

\* The signal interrupts the read while it waits for the driver's mutex: the echo ends
\* like that.
ReadFails(c) ==
  /\ exit_requested
  /\ f_pos[c] < Len(Contents)
  /\ CloseFile(c)
  /\ failed' = failed \cup {<<c, "read">>}

Done(c, from, to) ==
  /\ Go(c, from, to)
  /\ isDone' = [isDone EXCEPT ![c] = TRUE]
  /\ UNCHANGED <<packetVars, fileVars, file_mutex, log, partial, order>>

CloseClient(c) == GoOn(c, "close", "finish")

\* threadArg->isDone = true: the last use of the ThreadArg ...
SetDone(c) == Done(c, "finish", "returning")

\* ... and the end of the thread.
ThreadEnds(c) == GoOn(c, "returning", "exited")

----------------------------------------------------------------------------
(* A thread of the timer, in the build with the data file                  *)

\* A step of timer_handler.
Stamp(s, from, to) ==
  /\ Running
  /\ stamper[s] = from
  /\ stamper' = [stamper EXCEPT ![s] = to]
  /\ UNCHANGED <<mainVars, worker, isDone, packetVars, fileVars, log, partial, build, starts>>

\* The timer expires, which the kernel tells a new thread.
StamperStarts(s) ==
  build = "file" /\ Accepting /\ Stamp(s, "absent", "lock") /\ UNCHANGED <<file_mutex, order>>

\* The handler does not lock.
StamperLocks_Slip(s) == Stamp(s, "lock", "write") /\ UNCHANGED <<file_mutex, order>>

StamperLocks(s) ==
  file_mutex = Null /\ Stamp(s, "lock", "write") /\ file_mutex' = s /\ UNCHANGED order

\* open and write
StamperWrites(s) ==
  Stamp(s, "write", "unlock") /\ order' = Append(order, <<s, 1>>) /\ UNCHANGED file_mutex

\* One of them fails.
StamperFails(s) ==
  /\ Faults \cap {"open", "write"} # {}
  /\ Stamp(s, "write", "unlock")
  /\ UNCHANGED <<file_mutex, order>>

StamperUnlocks(s) == Stamp(s, "unlock", "exited") /\ file_mutex' = Null /\ UNCHANGED order

----------------------------------------------------------------------------

Init ==
  /\ build \in Builds
  /\ starts = 1
  /\ main = "start"
  /\ exit_requested = FALSE
  /\ client_fd = Null /\ prev = Null /\ current = Null /\ file_mutex = Null
  /\ next = OfAll(Clients \cup {DummyNode}, Null)
  /\ arg = OfAll(Clients, "none")
  /\ isDone = OfAll(Clients, FALSE)
  /\ file_fd = OfAll(Clients, FALSE)
  /\ worker = OfAll(Clients, "absent")
  /\ stamper = OfAll(Stampers, "absent")
  /\ got = OfAll(Clients, 0)
  /\ written = OfAll(Clients, 0)
  /\ f_pos = OfAll(Clients, 0)
  /\ echo = OfAll(Clients, <<>>)
  /\ failed = {}
  /\ log = <<>>
  /\ partial = <<>>
  /\ order = <<>>

\* The main thread; accept returns when a connection is waiting.
Main ==
  \/ MainStart \/ MainStartFails \/ MainCheck \/ MainBlock
  \/ \E c \in Clients : MainAccept(c)
  \/ MainExitCheck
  \/ MainCreate \/ MainCreateFails
  \/ MainAppend
  \/ MainUnlink \/ MainSkip \/ MainJoin \/ MainReaped

\* A worker, without its wait for the mutex; its client sends or closes.
Work(c) ==
  \/ Recv(c) \/ RecvEnds(c)
  \/ OpenFile(c) \/ NoFile(c)
  \/ Seek(c) \/ WriteChunk(c) \/ WriteFails(c)
  \/ UnlockFile(c)
  \/ Echo(c) \/ EchoCut(c) \/ EchoEnds(c) \/ ReadFails(c)
  \/ CloseClient(c) \/ SetDone(c) \/ ThreadEnds(c)

\* timer_handler once it has the mutex.
StampWork(s) == StamperWrites(s) \/ StamperFails(s) \/ StamperUnlocks(s)

Next ==
  \/ Main \/ MainAcceptFails
  \/ Signal \/ NoMemory \/ Restart
  \/ \E c \in Clients : Connect(c) \/ LockFile(c) \/ Work(c) \/ EchoKills(c)
  \/ \E s \in Stampers : StamperStarts(s) \/ StamperLocks(s) \/ StampWork(s)

Spec == Init /\ [][Next]_vars

\* Threads that can run do; the mutex is given to every waiter sooner or later;
\* a client sends its next chunk or closes.  Nobody has to connect or to start the
\* program again, and no signal or time stamp has to come.
Fairness ==
  /\ WF_vars(Main)
  /\ \A c \in Clients : WF_vars(Work(c)) /\ SF_vars(LockFile(c))
  /\ \A s \in Stampers : WF_vars(StampWork(s)) /\ SF_vars(StamperLocks(s))

FairSpec == Spec /\ Fairness

----------------------------------------------------------------------------
(* Properties                                                              *)

Mains == {"start", "check", "accept", "blocked", "accepted", "create", "append", "reap",
          "join", "exited"}
Workers == {"absent", "waiting", "accepted", "forgotten", "recv", "lock", "open", "use",
            "unlock", "echo", "close", "finish", "returning", "exited", "cut"}
Served == {"close", "finish", "returning", "exited"}

TypeOK ==
  /\ build \in Builds
  /\ starts \in 1 .. MaxStarts
  /\ main \in Mains
  /\ client_fd \in Clients \cup {Null}
  /\ exit_requested \in BOOLEAN
  /\ next \in [Clients \cup {DummyNode} -> Clients \cup {Null}]
  /\ prev \in Clients \cup {DummyNode, Null}
  /\ current \in Clients \cup {Null}
  /\ main \in {"reap", "join"} => prev # Null
  /\ arg \in [Clients -> {"none", "live", "freed"}]
  /\ isDone \in [Clients -> BOOLEAN]
  /\ worker \in [Clients -> Workers]
  /\ stamper \in [Stampers -> {"absent", "lock", "write", "unlock", "exited", "cut"}]
  /\ \A c \in Clients : written[c] \in 0 .. got[c] /\ got[c] \in 0 .. Len(Script[c])
  /\ file_mutex \in Clients \cup Stampers \cup {Null}
  /\ file_fd \in [Clients -> BOOLEAN]
  /\ f_pos \in [Clients -> Nat]
  /\ failed \subseteq Clients \X {"send", "read"}
  /\ Len(log) <= MaxOps

\* file_mutex covers a packet from its first chunk to its last: what a client has
\* in the device or the file is together and in its order, with no byte of
\* another client and no time stamp in it, also when the server stops or the
\* client leaves in the middle, and after the program has been started again.  A
\* write that fails leaves its chunk out, and only then is one missing
\* (processClientConnection, the loop over the nodes; timer_handler).
PacketsWhole ==
  \A i, k \in DOMAIN order :
    i < k /\ order[i][1] = order[k][1] =>
      /\ order[i + 1][1] = order[i][1]
      /\ order[k][2] >= order[i][2] + (k - i)
      /\ "write" \notin Faults => order[k][2] = order[i][2] + (k - i)

Holds(bytes, piece) ==
  \E i \in 0 .. (Len(bytes) - Len(piece)) : SubSeq(bytes, i + 1, i + Len(piece)) = piece

\* Nothing has left the device yet.
NoEviction == Cardinality({i \in DOMAIN order :
                             HasNewline(Script[order[i][1]][order[i][2]])}) <= MaxOps

\* All the chunks of a packet have been handed to write.
PacketWritten(c) == written[c] = Len(Script[c]) /\ HasNewline(Script[c][written[c]])

\* A client that sent a packet gets back contents that include it, whatever other
\* clients write while the thread reads without the mutex, and whatever an earlier
\* client or an earlier server left in front of it, until the device has been given
\* more commands than it remembers.  (A write that fails is not repeated.)  A send or
\* a read that failed may have cut the packet out: the loop looks at neither.
EchoHoldsPacket ==
  build = "device" /\ NoEviction /\ "write" \notin Faults =>
    \A c \in Clients :
      worker[c] \in Served /\ PacketWritten(c) /\ {<<c, "send">>, <<c, "read">>} \cap failed = {} =>
        Holds(echo[c], FlattenSeq(Script[c]))

\* A client is sent the device's contents without a gap or a repetition from where
\* it starts, although other clients write between the reads: a seek command starts
\* at the byte it names, if the device has it and the ioctl is not interrupted,
\* anything else at the first.  Only a send that failed leaves a gap, and a read that
\* failed leaves none: it ends the echo.
EchoFromStart ==
  build = "device" /\ NoEviction =>
    \A c \in Clients : <<c, "send">> \notin failed =>
      LET start == f_pos[c] - Len(echo[c])
      IN  /\ start \in SeekPositions(c) \cup {0}
          /\ \/ echo[c] = <<>>
             \/ f_pos[c] <= Len(Contents) /\ echo[c] = SubSeq(Contents, start + 1, f_pos[c])

\* A write whose chunk ends the command in progress: Extend, then Commit, with nothing
\* between them.
ExtendAndCommit(bytes) ==
  /\ ~Device!HasNewline(partial) /\ Device!HasNewline(partial \o bytes)
  /\ log' = Device!Remember(partial \o bytes)
  /\ partial' = <<>>
  /\ UNCHANGED echo

WritesChunk(c) ==
  \E i \in 1 .. Len(Script[c]) :
    \/ Device!Extend(Script[c][i]) /\ ~Device!HasNewline(partial')
    \/ ExtendAndCommit(Script[c][i])

\* A read and its send: Deliver of a piece of command k, which is put behind what the
\* client has been sent.
DeliverAndSend(c, k, from, to) ==
  /\ echo' = [echo EXCEPT ![c] = @ \o SubSeq(log[k], from, to)]
  /\ UNCHANGED <<log, partial>>

ReadsPiece(c) ==
  \E k \in 1 .. Len(log) : \E from \in 1 .. Len(log[k]) : \E to \in from .. Len(log[k]) :
    to - from < ReadSize /\ DeliverAndSend(c, k, from, to)

\* The server asks of the device only what CommandDevice lets a user do and takes from
\* it only what CommandDevice promises, evictions, failed sends and restarts included:
\* a write is one Extend, with the Commit when the chunk brings the newline, and what a
\* client is sent at a time is a piece of one command that the device remembers at that
\* moment, never the end of one and the beginning of another.
UsesDevice == [][\E c \in Clients : WritesChunk(c) \/ ReadsPiece(c)]_<<log, partial, echo>>

\* What the main thread follows is never a freed ThreadArg: the list holds the
\* threads that have been created and not joined, each of them once, and the
\* join loop keeps it so although threads finish while it runs.  (At the end of the
\* process the list goes with its memory.)
ListIsThreads ==
  Running /\ main # "append" =>
    LET joining == IF main = "join" THEN {client_fd} ELSE {}
    IN  Listed = {c \in Clients : arg[c] = "live" /\ worker[c] # "forgotten"} \ joining

\* A connection is served to its end, and a time stamp is written, unless the
\* server exits.
EveryThreadEnds ==
  /\ \A c \in Clients : worker[c] = "recv" ~> worker[c] = "exited" \/ ~Running
  /\ \A s \in Stampers : stamper[s] = "lock" ~> stamper[s] = "exited" \/ ~Running

\* After a signal the server exits as soon as another client connects.
ExitsAtNextConnection ==
  (exit_requested /\ \E c \in Clients : worker[c] = "waiting") ~> ~Running

\* What the comment on signalHandler says ("Handles termination signals"): a
\* signal makes the server exit.
SignalExits == exit_requested ~> ~Running
=============================================================================
