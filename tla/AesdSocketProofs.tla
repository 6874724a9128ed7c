-------------------------- MODULE AesdSocketProofs --------------------------
(***************************************************************************)
(* The server, for any number of clients and timer threads, any packets,   *)
(* both builds, with every fault, and across restarts: file_mutex keeps    *)
(* packets and time stamps whole; the list of ThreadArgs is the threads to *)
(* be joined; a client whose sends do not fail is sent one stretch of the  *)
(* device's contents, and its own packet in it unless a read fails; the    *)
(* server uses the device as CommandDevice allows; every variable has its  *)
(* type.                                                                   *)
(*                                                                         *)
(* Each part has its invariant (ServerInv, ListInv, DataInv, EchoInv), and *)
(* the later ones use the earlier ones.                                    *)
(***************************************************************************)
EXTENDS AesdSocket, DataLemmas

\* Where a worker owns file_mutex, and where it has written nothing yet.
Holding == {"open", "use", "unlock"}
Fresh == {"absent", "waiting", "accepted", "forgotten", "recv", "lock", "open"}

Stampings == {"absent", "lock", "write", "unlock", "exited", "cut"}

\* Nothing of owner o is in the file or the device.
NothingOf(o) == \A i \in DOMAIN order : order[i][1] # o

\* The last to write was o, with its chunk k, or an earlier one if the writes after it
\* failed.
EndsWith(o, k) ==
  /\ order # <<>>
  /\ order[Len(order)][1] = o
  /\ order[Len(order)][2] <= k
  /\ "write" \notin Faults => order[Len(order)][2] = k

\* What a worker may rely on: it owns the mutex where it should; what it has written
\* is nothing at first, and while it writes the end of everything written.
WorkerInv(c) ==
  /\ worker[c] \in Holding => file_mutex = c
  /\ worker[c] \in Fresh => NothingOf(c)
  /\ worker[c] = "use" => NothingOf(c) \/ EndsWith(c, written[c])
  /\ isDone[c] => worker[c] \in {"returning", "exited"}
  /\ arg[c] = "freed" => worker[c] = "exited"

\* The same for a thread of the timer.
StamperInv(s) ==
  /\ stamper[s] \in {"write", "unlock"} => file_mutex = s
  /\ stamper[s] \in {"absent", "lock", "write"} => NothingOf(s)

\* The connection in the main thread's hands is one whose worker does not run yet.
AcceptInv ==
  /\ main \in {"accepted", "create"} =>
       \/ client_fd = Null
       \/ client_fd \in Clients /\ worker[client_fd] = "accepted"
  /\ main = "create" => client_fd # Null
  /\ main \in {"start", "check", "accept", "blocked", "reap"} => client_fd = Null

ServerTypes ==
  /\ worker \in [Clients -> Workers]
  /\ stamper \in [Stampers -> Stampings]
  /\ written \in [Clients -> Nat]
  /\ isDone \in [Clients -> BOOLEAN]
  /\ arg \in [Clients -> {"none", "live", "freed"}]
  /\ order \in Seq((Clients \cup Stampers) \X Nat)

\* PacketsWhole is not inductive alone: a worker goes on with its packet because
\* the last thing written is its own, and nobody else writes because it owns the
\* mutex.
ServerInv ==
  /\ ServerTypes
  /\ AcceptInv
  /\ \A c \in Clients : WorkerInv(c)
  /\ \A s \in Stampers : StamperInv(s)
  /\ PacketsWhole

LEMMA ServerInit == Init => ServerInv
  <1> SUFFICES ASSUME Init PROVE ServerInv
    OBVIOUS
  <1>1. ServerTypes
    BY DEF Init, ServerTypes, OfAll, Workers, Stampings
  <1>2. AcceptInv
    BY DEF Init, AcceptInv
  <1>3. \A c \in Clients : WorkerInv(c)
    BY DEF Init, WorkerInv, OfAll, NothingOf, Holding
  <1>4. \A s \in Stampers : StamperInv(s)
    BY DEF Init, StamperInv, OfAll, NothingOf
  <1>5. PacketsWhole
    BY DEF Init, PacketsWhole
  <1> QED BY <1>1, <1>2, <1>3, <1>4, <1>5 DEF ServerInv

----------------------------------------------------------------------------
(* The main thread.                                                        *)

\* A step that leaves the threads alone.
LEMMA QuietStep ==
  ASSUME ServerInv, AcceptInv', UNCHANGED <<worker, arg, workVars>>
  PROVE  ServerInv'
  BY DEF ServerInv, ServerTypes, WorkerInv, StamperInv, PacketsWhole, NothingOf, EndsWith,
         workVars, threadVars, packetVars, outerVars

LEMMA MainQuietStep ==
  ASSUME ServerInv,
         \/ MainStart \/ MainStartFails \/ MainCheck \/ MainBlock
         \/ MainAcceptFails \/ MainExitCheck
         \/ MainAppend \/ MainUnlink \/ MainSkip \/ MainReaped
         \/ Signal \/ NoMemory \/ \E c \in Clients : EchoKills(c)
  PROVE  ServerInv'
  <1>1. UNCHANGED <<worker, arg, workVars>>
    BY DEF MainStart, MainStartFails, MainCheck, MainBlock, MainAcceptFails, MainExitCheck,
           MainAppend, AppendAndReap, MainUnlink, MainSkip, StepOn, MainReaped, Signal,
           NoMemory, EchoKills, Dies, MainGo
  <1>2. AcceptInv'
    <2>1. CASE MainStart \/ MainStartFails \/ MainCheck \/ MainBlock
      BY <2>1, <1>1 DEF MainStart, MainStartFails, MainCheck, MainBlock, MainGo, ServerInv, AcceptInv
    <2>2. CASE MainAcceptFails \/ MainExitCheck
      BY <2>2, <1>1 DEF MainAcceptFails, MainExitCheck, MainGo, ServerInv, AcceptInv
    <2>3. CASE MainAppend \/ MainUnlink \/ MainSkip \/ MainReaped
      BY <2>3, <1>1 DEF MainAppend, AppendAndReap, MainUnlink, MainSkip, StepOn, MainReaped,
                        MainGo, ServerInv, AcceptInv
    <2>4. CASE Signal
      <3>1. /\ client_fd' = client_fd
            /\ main' = main \/ (main = "blocked" /\ main' = "accepted")
        BY <2>4 DEF Signal
      <3> QED BY <3>1, <1>1 DEF ServerInv, AcceptInv
    <2>5. CASE NoMemory \/ \E c \in Clients : EchoKills(c)
      BY <2>5 DEF NoMemory, EchoKills, Dies, AcceptInv
    <2> QED BY <2>1, <2>2, <2>3, <2>4, <2>5
  <1> QED BY <1>1, <1>2, QuietStep

\* A step of a thread or of the main thread that moves the worker of c on, writes
\* nothing, and takes the mutex from nobody.
LEMMA WorkerMoves ==
  ASSUME ServerInv, NEW c \in Clients, NEW to \in Workers,
         worker' = [worker EXCEPT ![c] = to],
         AcceptInv', UNCHANGED <<stamper, written, order>>,
         isDone' \in [Clients -> BOOLEAN], \A d \in Clients \ {c} : isDone'[d] = isDone[d],
         isDone'[c] => to \in {"returning", "exited"},
         arg' \in [Clients -> {"none", "live", "freed"}],
         \A d \in Clients \ {c} : arg'[d] = arg[d],
         arg'[c] # "freed",
         to \in Fresh => worker[c] \in Fresh,
         to = "use" => worker[c] \in Fresh,
         \/ file_mutex' = file_mutex /\ (to \in Holding => worker[c] \in Holding)
         \/ file_mutex = Null /\ file_mutex' = c
         \/ worker[c] \in Holding /\ to \notin Holding /\ file_mutex' = Null
  PROVE  ServerInv'
  <1>1. ServerTypes'
    BY DEF ServerInv, ServerTypes
  <1>2. WorkerInv(c)'
    BY DEF ServerInv, ServerTypes, WorkerInv, NothingOf, EndsWith
  <1>3. ASSUME NEW d \in Clients, d # c PROVE WorkerInv(d)'
    BY <1>3, ThreadsAssumption DEF ServerInv, ServerTypes, WorkerInv, NothingOf, EndsWith
  <1>4. ASSUME NEW s \in Stampers PROVE StamperInv(s)'
    BY ThreadsAssumption DEF ServerInv, StamperInv, NothingOf, WorkerInv
  <1>5. PacketsWhole'
    BY DEF ServerInv, PacketsWhole
  <1> QED BY <1>1, <1>2, <1>3, <1>4, <1>5 DEF ServerInv

LEMMA ConnectKeepsInv == ASSUME ServerInv, NEW c \in Clients, Connect(c) PROVE ServerInv'
  <1>1. worker' = [worker EXCEPT ![c] = "waiting"] /\ worker[c] = "absent"
    BY DEF Connect
  <1>2. UNCHANGED <<mainVars, workVars>>
    BY DEF Connect
  <1>3. AcceptInv'
    BY <1>1, <1>2 DEF ServerInv, AcceptInv, ServerTypes, mainVars
  <1> QED
    BY <1>1, <1>2, <1>3, WorkerMoves
    DEF ServerInv, ServerTypes, WorkerInv, Fresh, Holding, Workers, mainVars, workVars, threadVars,
        packetVars, outerVars

\* accept, and the creation of the thread: the worker is the one that was accepted.
LEMMA MainHandsOn ==
  ASSUME ServerInv, \/ \E c \in Clients : MainAccept(c)
                    \/ MainCreate \/ MainCreateFails
  PROVE  ServerInv'
  <1>1. ASSUME NEW c \in Clients, MainAccept(c) PROVE ServerInv'
    <2>1. /\ worker' = [worker EXCEPT ![c] = "accepted"] /\ worker[c] = "waiting"
          /\ main' = "accepted" /\ client_fd' = c
          /\ UNCHANGED <<arg, workVars>>
      BY <1>1 DEF MainAccept, MainGo
    <2>2. AcceptInv'
      BY <2>1 DEF ServerInv, AcceptInv, ServerTypes
    <2> QED
      BY <2>1, <2>2, WorkerMoves
      DEF ServerInv, ServerTypes, WorkerInv, Fresh, Holding, Workers, workVars, threadVars,
          packetVars, outerVars
  <1>2. CASE MainCreate \/ MainCreateFails
    <2>1. client_fd \in Clients /\ worker[client_fd] = "accepted"
      BY <1>2 DEF MainCreate, MainCreateFails, MainGo, ServerInv, AcceptInv
    <2>2. /\ arg' = [arg EXCEPT ![client_fd] = "live"]
          /\ UNCHANGED workVars
          /\ \/ main' = "append"
             \/ main' = "check" /\ client_fd' = Null
      BY <1>2 DEF MainCreate, MainCreateFails, MainGo, NewArg
    <2>3. PICK to \in {"recv", "forgotten"} : worker' = [worker EXCEPT ![client_fd] = to]
      BY <1>2 DEF MainCreate, MainCreateFails, NewArg
    <2>4. AcceptInv'
      BY <2>2 DEF AcceptInv
    <2> QED
      BY <2>1, <2>2, <2>3, <2>4, WorkerMoves
      DEF ServerInv, ServerTypes, WorkerInv, Fresh, Holding, Workers, workVars, threadVars,
          packetVars, outerVars
  <1> QED BY <1>1, <1>2

\* pthread_join has returned when the ThreadArg is freed.
LEMMA JoinKeepsInv == ASSUME ServerInv, MainJoin PROVE ServerInv'
  <1>1. /\ arg' = [arg EXCEPT ![client_fd] = "freed"] /\ worker[client_fd] = "exited"
        /\ main' = "reap" /\ client_fd' = Null
        /\ UNCHANGED <<worker, workVars>>
    BY DEF MainJoin, FreeArg, MainGo
  <1>2. AcceptInv'
    BY <1>1 DEF AcceptInv
  <1>3. ServerTypes' /\ \A c \in Clients : WorkerInv(c)'
    BY <1>1 DEF ServerInv, ServerTypes, WorkerInv, NothingOf, EndsWith, workVars, threadVars, packetVars,
                outerVars
  <1>4. PacketsWhole' /\ \A s \in Stampers : StamperInv(s)'
    BY <1>1 DEF ServerInv, StamperInv, PacketsWhole, NothingOf, EndsWith, workVars, threadVars, outerVars
  <1> QED BY <1>2, <1>3, <1>4 DEF ServerInv

\* What has been written stays, and the threads that wrote it are gone.
LEMMA RestartKeepsInv == ASSUME ServerInv, Restart PROVE ServerInv'
  <1>1. ServerTypes'
    BY DEF ServerInv, ServerTypes, Restart, OfAll, Stopped, Workers, Stampings, packetVars
  <1>2. AcceptInv'
    BY DEF Restart, AcceptInv
  <1>3. ASSUME NEW c \in Clients PROVE WorkerInv(c)'
    <2>1. worker'[c] \in {"absent", "exited", "cut"} /\ (worker'[c] = "absent" => worker[c] = "absent")
      BY DEF Restart, Stopped
    <2> QED
      BY <2>1 DEF ServerInv, WorkerInv, Restart, NothingOf, EndsWith, OfAll, Fresh, Holding, packetVars
  <1>4. ASSUME NEW s \in Stampers PROVE StamperInv(s)'
    BY DEF ServerInv, StamperInv, Restart, NothingOf, Stopped
  <1>5. PacketsWhole'
    BY DEF ServerInv, PacketsWhole, Restart
  <1> QED BY <1>1, <1>2, <1>3, <1>4, <1>5 DEF ServerInv

----------------------------------------------------------------------------
(* The workers.                                                            *)

\* A step of a worker that writes nothing.
LEMMA GoKeepsInv ==
  ASSUME ServerInv, NEW c \in Clients, NEW from \in Workers, NEW to \in Workers,
         Go(c, from, to), UNCHANGED <<written, order>>,
         from \notin {"accepted", "exited"},
         \/ isDone' = isDone /\ (from = "returning" => to = "exited")
         \/ isDone' = [isDone EXCEPT ![c] = TRUE] /\ to = "returning",
         to \in Fresh => from \in Fresh,
         to = "use" => from \in Fresh,
         \/ file_mutex' = file_mutex /\ (to \in Holding => from \in Holding)
         \/ file_mutex = Null /\ file_mutex' = c
         \/ from \in Holding /\ to \notin Holding /\ file_mutex' = Null
  PROVE  ServerInv'
  <1>1. worker[c] = from /\ worker' = [worker EXCEPT ![c] = to]
        /\ UNCHANGED <<main, client_fd, arg, stamper>>
    BY DEF Go, mainVars
  <1>2. AcceptInv'
    BY <1>1 DEF ServerInv, ServerTypes, AcceptInv
  <1>3. arg'[c] # "freed" /\ arg' \in [Clients -> {"none", "live", "freed"}]
    BY <1>1 DEF ServerInv, ServerTypes, WorkerInv
  <1>4. /\ isDone' \in [Clients -> BOOLEAN]
        /\ \A d \in Clients \ {c} : isDone'[d] = isDone[d]
        /\ isDone'[c] => to \in {"returning", "exited"}
    BY <1>1 DEF ServerInv, ServerTypes, WorkerInv
  <1> QED BY <1>1, <1>2, <1>3, <1>4, WorkerMoves

LEMMA WorkKeepsInv ==
  ASSUME ServerInv, NEW c \in Clients,
         \/ Recv(c) \/ RecvEnds(c) \/ LockFile(c) \/ OpenFile(c) \/ NoFile(c)
         \/ Seek(c) \/ UnlockFile(c) \/ Echo(c) \/ EchoCut(c)
         \/ EchoEnds(c) \/ ReadFails(c)
         \/ CloseClient(c) \/ SetDone(c) \/ ThreadEnds(c)
  PROVE  ServerInv'
  <1> USE DEF Workers, Fresh, Holding, packetVars
  <1>1. CASE Recv(c) \/ RecvEnds(c)
    <2>1. PICK to \in {"lock", "recv"} : Go(c, "recv", to)
      BY <1>1 DEF Recv, RecvEnds, GoOn
    <2>2. UNCHANGED <<written, order, isDone, file_mutex>>
      BY <1>1 DEF Recv, RecvEnds, GoOn
    <2> QED BY <2>1, <2>2, GoKeepsInv
  <1>2. CASE LockFile(c)
    BY <1>2, GoKeepsInv DEF LockFile
  <1>3. CASE OpenFile(c)
    BY <1>3, GoKeepsInv DEF OpenFile
  <1>4. CASE NoFile(c)
    BY <1>4, GoKeepsInv DEF NoFile, GoOn
  <1>5. CASE Seek(c)
    BY <1>5, GoKeepsInv DEF Seek
  <1>6. CASE UnlockFile(c)
    <2>1. PICK to \in {"echo", "close"} : Go(c, "unlock", to)
      BY <1>6 DEF UnlockFile, Unlock
    <2>2. UNCHANGED <<written, order, isDone>> /\ file_mutex' = Null
      BY <1>6 DEF UnlockFile, Unlock
    <2> QED BY <2>1, <2>2, GoKeepsInv
  <1>7. CASE Echo(c) \/ EchoCut(c)
    BY <1>7, GoKeepsInv DEF Echo, EchoCut, ReadAndSend
  <1>8. CASE EchoEnds(c) \/ ReadFails(c)
    BY <1>8, GoKeepsInv DEF EchoEnds, ReadFails, CloseFile
  <1>9. CASE CloseClient(c)
    BY <1>9, GoKeepsInv DEF CloseClient, GoOn
  <1>10. CASE SetDone(c)
    BY <1>10, GoKeepsInv DEF SetDone, Done
  <1>11. CASE ThreadEnds(c)
    BY <1>11, GoKeepsInv DEF ThreadEnds, GoOn
  <1> QED BY <1>1, <1>2, <1>3, <1>4, <1>5, <1>6, <1>7, <1>8, <1>9, <1>10, <1>11

----------------------------------------------------------------------------
(* Writing.                                                                *)

\* What is written stays in packets when its owner is new, or was the last to write and
\* goes on with its next chunk.
LEMMA AppendKeepsWhole ==
  ASSUME order \in Seq((Clients \cup Stampers) \X Nat), PacketsWhole,
         NEW o \in Clients \cup Stampers, NEW k \in Nat,
         order' = Append(order, <<o, k>>),
         NothingOf(o) \/ EndsWith(o, k - 1)
  PROVE  PacketsWhole'
  <1> DEFINE n == Len(order)
  <1>1. /\ n \in Nat /\ DOMAIN order = 1 .. n /\ DOMAIN order' = 1 .. n + 1
        /\ order'[n + 1] = <<o, k>> /\ \A i \in 1 .. n : order'[i] = order[i]
        /\ \A i \in 1 .. n : order[i] \in (Clients \cup Stampers) \X Nat
    OBVIOUS
  <1> SUFFICES ASSUME NEW i \in DOMAIN order', NEW j \in DOMAIN order',
                      i < j, order'[i][1] = order'[j][1]
               PROVE  /\ order'[i + 1][1] = order'[i][1]
                      /\ order'[j][2] >= order'[i][2] + (j - i)
                      /\ "write" \notin Faults => order'[j][2] = order'[i][2] + (j - i)
    BY Zenon DEF PacketsWhole
  <1>2. CASE j <= n
    <2>1. /\ i \in 1 .. n /\ j \in 1 .. n /\ i + 1 \in 1 .. n
          /\ order'[i] = order[i] /\ order'[j] = order[j] /\ order'[i + 1] = order[i + 1]
      BY <1>1, <1>2
    <2> QED BY <1>1, <2>1 DEF PacketsWhole
  <1>3. CASE j = n + 1
    <2>1. i \in 1 .. n /\ order[i][1] = o /\ order'[i] = order[i]
      BY <1>1, <1>3
    <2>2. /\ n \in 1 .. n /\ order[n][1] = o /\ order[n][2] \in Nat
          /\ order[n][2] <= k - 1 /\ ("write" \notin Faults => order[n][2] = k - 1)
          /\ order'[j][2] = k
      BY <2>1, <1>1, <1>3 DEF NothingOf, EndsWith
    <2>3. CASE i = n
      BY <1>1, <1>3, <2>1, <2>2, <2>3
    <2>4. CASE i < n
      <3>1. i + 1 \in 1 .. n /\ order'[i + 1] = order[i + 1]
        BY <1>1, <2>1, <2>2, <2>4
      <3>2. order[i][2] \in Nat
        BY <1>1, <2>1
      <3>3. /\ order[i + 1][1] = order[i][1]
            /\ order[n][2] >= order[i][2] + (n - i)
            /\ "write" \notin Faults => order[n][2] = order[i][2] + (n - i)
        <4>1. i \in DOMAIN order /\ n \in DOMAIN order /\ i < n /\ order[i][1] = order[n][1]
          BY <1>1, <2>1, <2>2, <2>4
        <4> QED BY <4>1, Zenon DEF PacketsWhole
      <3>4. k >= order[i][2] + (j - i) /\ ("write" \notin Faults => k = order[i][2] + (j - i))
        <4>1. PICK x, y : x = order[i][2] /\ y = order[n][2]
          OBVIOUS
        <4>2. x \in Nat /\ y \in Nat /\ y <= k - 1 /\ y >= x + (n - i)
          BY <2>2, <3>2, <3>3, <4>1
        <4>3. "write" \notin Faults => y = k - 1 /\ y = x + (n - i)
          BY <2>2, <3>3, <4>1
        <4>4. i \in Nat /\ n \in Nat /\ j = n + 1
          BY <1>1, <1>3, <2>1
        <4>5. k >= x + (j - i) /\ ("write" \notin Faults => k = x + (j - i))
          BY <4>2, <4>3, <4>4
        <4> QED BY <4>1, <4>5
      <3> QED BY <2>1, <2>2, <3>1, <3>3, <3>4
    <2>5. i = n \/ i < n
      BY <2>1, <1>1
    <2> QED BY <2>3, <2>4, <2>5
  <1>4. j <= n \/ j = n + 1
    BY <1>1
  <1> QED BY <1>2, <1>3, <1>4

\* Nothing comes from an owner but what it writes itself.
LEMMA NothingOfOthers ==
  ASSUME order \in Seq((Clients \cup Stampers) \X Nat), NEW o, NEW k, NEW other,
         other # o, order' = Append(order, <<o, k>>), NothingOf(other)
  PROVE  NothingOf(other)'
  BY DEF NothingOf

LEMMA WriteKeepsInv == ASSUME ServerInv, NEW c \in Clients, WriteChunk(c) PROVE ServerInv'
  <1> DEFINE k == written[c] + 1
  <1>1. PICK to \in {"use", "unlock"} : Go(c, "use", to)
    BY DEF WriteChunk, WriteNode, TakeNode
  <1>2. /\ worker[c] = "use" /\ worker' = [worker EXCEPT ![c] = to]
        /\ written' = [written EXCEPT ![c] = k] /\ order' = Append(order, <<c, k>>)
        /\ UNCHANGED <<main, client_fd, arg, isDone, stamper, file_mutex>>
    BY <1>1 DEF WriteChunk, WriteNode, TakeNode, Go, mainVars
  <1>3. ServerTypes /\ PacketsWhole /\ k \in Nat /\ c \in Clients \cup Stampers
    BY DEF ServerInv, ServerTypes
  <1>4. file_mutex = c /\ (NothingOf(c) \/ EndsWith(c, k - 1))
    BY <1>2, <1>3 DEF ServerInv, ServerTypes, WorkerInv, Holding
  <1>5. ServerTypes'
    <2>1. order' \in Seq((Clients \cup Stampers) \X Nat)
      BY <1>2, <1>3 DEF ServerTypes
    <2> QED BY <2>1, <1>2, <1>3 DEF ServerTypes, Workers
  <1>6. AcceptInv'
    BY <1>2, <1>3 DEF ServerInv, AcceptInv, ServerTypes
  <1>7. WorkerInv(c)'
    <2>1. EndsWith(c, written[c])'
      BY <1>2, <1>3 DEF ServerTypes, EndsWith
    <2>2. worker'[c] = to /\ written'[c] = k /\ isDone[c] = FALSE /\ arg[c] # "freed"
      BY <1>2, <1>3 DEF ServerInv, ServerTypes, WorkerInv
    <2> QED BY <1>2, <1>4, <2>1, <2>2 DEF WorkerInv, Fresh
  <1>8. ASSUME NEW d \in Clients, d # c PROVE WorkerInv(d)'
    <2>1. worker'[d] = worker[d] /\ written'[d] = written[d] /\ worker[d] # "use"
      BY <1>2, <1>3, <1>4, <1>8 DEF ServerInv, ServerTypes, WorkerInv, Holding
    <2>2. NothingOf(d) => NothingOf(d)'
      BY <1>2, <1>3, <1>8, NothingOfOthers DEF ServerTypes
    <2> QED BY <2>1, <2>2, <1>2 DEF ServerInv, WorkerInv
  <1>9. ASSUME NEW s \in Stampers PROVE StamperInv(s)'
    <2>1. NothingOf(s) => NothingOf(s)'
      BY <1>2, <1>3, NothingOfOthers, ThreadsAssumption DEF ServerTypes
    <2> QED BY <2>1, <1>2 DEF ServerInv, StamperInv
  <1>10. PacketsWhole'
    BY <1>2, <1>3, <1>4, AppendKeepsWhole DEF ServerTypes
  <1> QED BY <1>5, <1>6, <1>7, <1>8, <1>9, <1>10 DEF ServerInv

\* A write that fails leaves a chunk out.
LEMMA WriteFailsKeepsInv == ASSUME ServerInv, NEW c \in Clients, WriteFails(c) PROVE ServerInv'
  <1>1. PICK to \in {"use", "unlock"} : Go(c, "use", to)
    BY DEF WriteFails, TakeNode
  <1>2. /\ worker[c] = "use" /\ worker' = [worker EXCEPT ![c] = to] /\ "write" \in Faults
        /\ written' = [written EXCEPT ![c] = @ + 1]
        /\ UNCHANGED <<main, client_fd, arg, isDone, stamper, file_mutex, order>>
    BY <1>1 DEF WriteFails, TakeNode, Go, mainVars
  <1>3. ServerTypes'
    BY <1>2 DEF ServerInv, ServerTypes, Workers
  <1>4. AcceptInv'
    BY <1>2 DEF ServerInv, AcceptInv, ServerTypes
  <1>5. WorkerInv(c)'
    <2>1. worker'[c] = to /\ isDone[c] = FALSE /\ arg[c] # "freed" /\ file_mutex = c
      BY <1>2 DEF ServerInv, ServerTypes, WorkerInv, Holding
    <2>2. NothingOf(c)' \/ EndsWith(c, written[c])'
      <3>1. NothingOf(c) => NothingOf(c)'
        BY <1>2 DEF NothingOf
      <3>2. EndsWith(c, written[c]) => EndsWith(c, written[c])'
        <4> SUFFICES ASSUME EndsWith(c, written[c]) PROVE EndsWith(c, written[c])'
          OBVIOUS
        <4>1. order[Len(order)][2] \in Nat /\ written[c] \in Nat
          BY DEF ServerInv, ServerTypes, EndsWith
        <4> QED BY <1>2, <4>1 DEF ServerInv, ServerTypes, EndsWith
      <3> QED BY <3>1, <3>2, <1>2 DEF ServerInv, WorkerInv
    <2> QED BY <1>2, <2>1, <2>2 DEF WorkerInv, Fresh
  <1>6. ASSUME NEW d \in Clients, d # c PROVE WorkerInv(d)'
    <2>1. worker'[d] = worker[d] /\ written'[d] = written[d]
      BY <1>2, <1>6 DEF ServerInv, ServerTypes
    <2> QED BY <1>2, <2>1 DEF ServerInv, WorkerInv, NothingOf, EndsWith
  <1>7. PacketsWhole' /\ \A s \in Stampers : StamperInv(s)'
    BY <1>2 DEF ServerInv, StamperInv, PacketsWhole, NothingOf
  <1> QED BY <1>3, <1>4, <1>5, <1>6, <1>7 DEF ServerInv

\* A thread of the timer writes once, as the owner of the mutex.
LEMMA StamperKeepsInv ==
  ASSUME ServerInv, NEW s \in Stampers,
         \/ StamperStarts(s) \/ StamperLocks(s) \/ StamperWrites(s)
         \/ StamperFails(s) \/ StamperUnlocks(s)
  PROVE  ServerInv'
  <1>1. /\ UNCHANGED <<mainVars, worker, isDone, written>>
        /\ \E to \in Stampings : stamper' = [stamper EXCEPT ![s] = to]
    BY DEF StamperStarts, StamperLocks, StamperWrites, StamperFails, StamperUnlocks, Stamp,
           packetVars, Stampings
  <1>2. AcceptInv'
    BY <1>1 DEF ServerInv, AcceptInv, mainVars
  <1>3. CASE StamperWrites(s)
    <2>1. /\ stamper[s] = "write" /\ stamper' = [stamper EXCEPT ![s] = "unlock"]
          /\ order' = Append(order, <<s, 1>>) /\ UNCHANGED <<file_mutex, arg>>
      BY <1>3, <1>1 DEF StamperWrites, Stamp, mainVars
    <2>2. ServerTypes /\ PacketsWhole /\ NothingOf(s) /\ file_mutex = s
          /\ s \in Clients \cup Stampers /\ 1 \in Nat
      BY <2>1 DEF ServerInv, StamperInv
    <2>3. ServerTypes'
      <3>1. order' \in Seq((Clients \cup Stampers) \X Nat)
        BY <2>1, <2>2 DEF ServerTypes
      <3> QED BY <3>1, <1>1, <2>1, <2>2 DEF ServerTypes, Stampings
    <2>4. ASSUME NEW c \in Clients PROVE WorkerInv(c)'
      <3>1. c # s /\ worker[c] # "use"
        BY <2>2, ThreadsAssumption DEF ServerInv, WorkerInv, Holding
      <3>2. NothingOf(c) => NothingOf(c)'
        BY <2>1, <2>2, <3>1, NothingOfOthers DEF ServerTypes
      <3> QED BY <1>1, <2>1, <3>1, <3>2 DEF ServerInv, WorkerInv
    <2>5. ASSUME NEW t \in Stampers PROVE StamperInv(t)'
      <3>1. t # s /\ NothingOf(t) => NothingOf(t)'
        BY <2>1, <2>2, NothingOfOthers DEF ServerTypes
      <3> QED BY <2>1, <2>2, <3>1 DEF ServerInv, ServerTypes, StamperInv
    <2>6. PacketsWhole'
      BY <2>1, <2>2, AppendKeepsWhole DEF ServerTypes
    <2> QED BY <1>2, <2>3, <2>4, <2>5, <2>6 DEF ServerInv
  <1>4. CASE StamperStarts(s) \/ StamperLocks(s) \/ StamperFails(s) \/ StamperUnlocks(s)
    <2>1. order' = order /\ ServerTypes' /\ PacketsWhole' /\ arg' = arg
      BY <1>1, <1>4
      DEF StamperStarts, StamperLocks, StamperFails, StamperUnlocks, ServerInv, ServerTypes,
          PacketsWhole, mainVars
    <2>2. \/ file_mutex' = file_mutex
          \/ file_mutex = Null /\ file_mutex' = s
          \/ file_mutex = s /\ file_mutex' = Null
      BY <1>4 DEF StamperStarts, StamperLocks, StamperFails, StamperUnlocks, Stamp, ServerInv,
                  StamperInv
    <2>3. ASSUME NEW c \in Clients PROVE WorkerInv(c)'
      BY <1>1, <2>1, <2>2, ThreadsAssumption DEF ServerInv, WorkerInv, NothingOf, EndsWith
    <2>4. ASSUME NEW t \in Stampers PROVE StamperInv(t)'
      BY <1>1, <1>4, <2>1, <2>2, ThreadsAssumption
      DEF StamperStarts, StamperLocks, StamperFails, StamperUnlocks, Stamp, ServerInv,
          ServerTypes, StamperInv, NothingOf
    <2> QED BY <1>2, <2>1, <2>3, <2>4 DEF ServerInv
  <1> QED BY <1>3, <1>4

----------------------------------------------------------------------------
(* The theorems.                                                           *)

LEMMA ServerStep == ServerInv /\ [Next]_vars => ServerInv'
  <1> SUFFICES ASSUME ServerInv, [Next]_vars PROVE ServerInv'
    OBVIOUS
  <1>1. CASE Main \/ MainAcceptFails \/ Signal \/ NoMemory \/ Restart
    BY <1>1, MainQuietStep, MainHandsOn, JoinKeepsInv, RestartKeepsInv DEF Main
  <1>2. CASE \E c \in Clients : Connect(c) \/ LockFile(c) \/ Work(c) \/ EchoKills(c)
    BY <1>2, ConnectKeepsInv, WorkKeepsInv, WriteKeepsInv, WriteFailsKeepsInv, MainQuietStep DEF Work
  <1>3. CASE \E s \in Stampers : StamperStarts(s) \/ StamperLocks(s) \/ StampWork(s)
    BY <1>3, StamperKeepsInv DEF StampWork
  <1>4. CASE UNCHANGED vars
    <2>1. UNCHANGED <<main, client_fd, worker, arg, workVars>>
      BY <1>4 DEF vars, mainVars
    <2> QED BY <2>1, QuietStep DEF ServerInv, AcceptInv
  <1> QED BY <1>1, <1>2, <1>3, <1>4 DEF Next

\* The invariant holds in every run of the server: through all its threads' steps,
\* faults, signals and restarts.
THEOREM ServerInvariant == Spec => []ServerInv
  BY ServerInit, ServerStep, PTL DEF Spec

\* file_mutex keeps what a client sends together (processClientConnection,
\* timer_handler).
THEOREM ServerPacketsWhole == Spec => []PacketsWhole
  <1>1. ServerInv => PacketsWhole
    BY DEF ServerInv
  <1> QED BY <1>1, ServerInvariant, PTL

----------------------------------------------------------------------------
(* The list of ThreadArgs.                                                 *)

Nodes == Clients \cup {DummyNode}

\* p is the way along nx from dummyNode: it meets n nodes, each of them once.
Way(nx, p, n) ==
  /\ n \in Nat \ {0}
  /\ p \in [1 .. n -> Nodes]
  /\ p[1] = DummyNode
  /\ \A i, j \in 1 .. n : p[i] = p[j] => i = j
  /\ \A i \in 1 .. (n - 1) : nx[p[i]] = p[i + 1]
  /\ nx[p[n]] = Null

On(p, n) == {p[i] : i \in 1 .. n}

\* nx links the members of S, and nothing else, behind dummyNode.
LinksUp(nx, S) ==
  /\ nx \in [Nodes -> Clients \cup {Null}]
  /\ S \subseteq Clients
  /\ \E n, p : Way(nx, p, n) /\ On(p, n) = S \cup {DummyNode}

LEMMA NodesDiffer == DummyNode \notin Clients /\ Null \notin Nodes /\ IsFiniteSet(Clients)
  BY ThreadsAssumption DEF Nodes

\* What is behind a node of the list is the end or another node.
LEMMA LinkStays ==
  ASSUME NEW nx, NEW S, LinksUp(nx, S), NEW m, m \in S \cup {DummyNode}
  PROVE  /\ m \in Nodes
         /\ nx[m] \in S \cup {Null}
  <1>1. PICK n, p : Way(nx, p, n) /\ On(p, n) = S \cup {DummyNode}
    BY DEF LinksUp
  <1>2. PICK i \in 1 .. n : p[i] = m
    BY <1>1 DEF On
  <1>3. CASE i = n
    BY <1>1, <1>2, <1>3 DEF Way, LinksUp, Nodes
  <1>4. CASE i # n
    <2>1. n \in Nat /\ i \in 1 .. (n - 1) /\ i + 1 \in 1 .. n /\ 1 \in 1 .. n /\ i + 1 # 1
      BY <1>1, <1>2, <1>4 DEF Way
    <2>2. nx[m] = p[i + 1] /\ p[i + 1] # DummyNode
      BY <1>1, <1>2, <2>1 DEF Way
    <2>3. p[i + 1] \in S \cup {DummyNode}
      BY <1>1, <2>1 DEF On
    <2> QED BY <2>2, <2>3, <1>1, <1>2 DEF Way
  <1> QED BY <1>3, <1>4

\* It has one last node.
LEMMA LinkEnds ==
  ASSUME NEW nx, NEW S, LinksUp(nx, S)
  PROVE  /\ \E m \in S \cup {DummyNode} : nx[m] = Null
         /\ \A l, m \in S \cup {DummyNode} : nx[l] = Null /\ nx[m] = Null => l = m
  <1>1. PICK n, p : Way(nx, p, n) /\ On(p, n) = S \cup {DummyNode}
    BY DEF LinksUp
  <1>2. n \in 1 .. n /\ p[n] \in S \cup {DummyNode} /\ nx[p[n]] = Null
    BY <1>1 DEF Way, On
  <1>3. ASSUME NEW m \in S \cup {DummyNode}, nx[m] = Null PROVE m = p[n]
    <2>1. PICK i \in 1 .. n : p[i] = m
      BY <1>1 DEF On
    <2>2. ASSUME i # n PROVE FALSE
      <3>1. i \in 1 .. (n - 1) /\ i + 1 \in 1 .. n
        BY <2>2, <1>1 DEF Way
      <3>2. nx[m] = p[i + 1] /\ p[i + 1] \in Nodes
        BY <1>1, <2>1, <3>1 DEF Way
      <3> QED BY <3>2, <1>3, NodesDiffer
    <2> QED BY <2>1, <2>2
  <1> QED BY <1>2, <1>3

\* Linking a new node behind the last one.
LEMMA LinkAppend ==
  ASSUME NEW nx, NEW S, LinksUp(nx, S),
         NEW last, last \in S \cup {DummyNode}, nx[last] = Null,
         NEW c, c \in Clients, c \notin S, nx[c] = Null
  PROVE  LinksUp([nx EXCEPT ![last] = c], S \cup {c})
  <1> DEFINE ny == [nx EXCEPT ![last] = c]
  <1>1. PICK n, p : Way(nx, p, n) /\ On(p, n) = S \cup {DummyNode}
    BY DEF LinksUp
  <1>2. PICK k \in 1 .. n : p[k] = last
    BY <1>1 DEF On
  <1>3. k = n
    <2> SUFFICES ASSUME k # n PROVE FALSE
      OBVIOUS
    <2>1. k \in 1 .. (n - 1) /\ k + 1 \in 1 .. n
      BY <1>1, <1>2 DEF Way
    <2>2. nx[last] = p[k + 1] /\ p[k + 1] \in Nodes
      BY <1>1, <1>2, <2>1 DEF Way
    <2> QED BY <2>2, NodesDiffer
  <1> DEFINE q == [i \in 1 .. n + 1 |-> IF i <= n THEN p[i] ELSE c]
  <1>4. n \in Nat \ {0} /\ n + 1 \in Nat \ {0} /\ c \in Nodes /\ last \in Nodes /\ c # last
    BY <1>1, <1>2, NodesDiffer DEF Way, Nodes, LinksUp
  <1>5. ny \in [Nodes -> Clients \cup {Null}] /\ ny[last] = c /\ ny[c] = Null
        /\ \A m \in Nodes : m # last => ny[m] = nx[m]
    BY <1>4 DEF LinksUp
  <1>6. /\ q \in [1 .. n + 1 -> Nodes] /\ q[n + 1] = c
        /\ \A i \in 1 .. n : q[i] = p[i]
        /\ \A i \in 1 .. n : p[i] # c /\ p[i] \in Nodes
    <2>1. \A i \in 1 .. n : p[i] # c /\ p[i] \in Nodes
      BY <1>1, <1>4, NodesDiffer DEF Way, On
    <2> QED BY <2>1, <1>4
  <1> HIDE DEF ny, q
  <1>7. Way(ny, q, n + 1)
    <2>1. q[1] = DummyNode
      BY <1>1, <1>4, <1>6 DEF Way
    <2>2. ASSUME NEW i \in 1 .. n + 1, NEW j \in 1 .. n + 1, q[i] = q[j] PROVE i = j
      <3>1. CASE i = n + 1 \/ j = n + 1
        BY <3>1, <2>2, <1>4, <1>6
      <3>2. CASE i \in 1 .. n /\ j \in 1 .. n
        BY <3>2, <2>2, <1>1, <1>6 DEF Way
      <3> QED BY <3>1, <3>2, <1>4
    <2>3. ASSUME NEW i \in 1 .. n PROVE ny[q[i]] = q[i + 1]
      <3>1. CASE i = n
        BY <3>1, <1>2, <1>3, <1>5, <1>6
      <3>2. CASE i # n
        <4>1. i \in 1 .. (n - 1) /\ i + 1 \in 1 .. n
          BY <3>2, <1>4
        <4>2. nx[p[i]] = p[i + 1] /\ p[i] # last /\ q[i + 1] = p[i + 1] /\ q[i] = p[i]
          BY <1>1, <1>2, <1>3, <1>6, <3>2, <4>1 DEF Way
        <4> QED BY <1>5, <1>6, <4>2
      <3> QED BY <3>1, <3>2
    <2>4. (n + 1) - 1 = n
      BY <1>4
    <2> QED BY <2>1, <2>2, <2>3, <2>4, <1>4, <1>5, <1>6 DEF Way
  <1>8. On(q, n + 1) = (S \cup {c}) \cup {DummyNode}
    <2>1. On(q, n + 1) = On(p, n) \cup {c}
      <3>1. \A i \in 1 .. n + 1 : i \in 1 .. n \/ i = n + 1
        BY <1>4
      <3>2. n + 1 \in 1 .. n + 1 /\ \A i \in 1 .. n : i \in 1 .. n + 1
        BY <1>4
      <3> QED BY <3>1, <3>2, <1>6 DEF On
    <2> QED BY <2>1, <1>1
  <1>9. S \cup {c} \subseteq Clients
    BY DEF LinksUp
  <1> QED BY <1>5, <1>7, <1>8, <1>9 DEF LinksUp, ny

\* Unlinking the node behind l.
LEMMA LinkUnlink ==
  ASSUME NEW nx, NEW S, LinksUp(nx, S),
         NEW l, l \in S \cup {DummyNode}, NEW m, m = nx[l], m # Null
  PROVE  LinksUp([nx EXCEPT ![l] = nx[m]], S \ {m})
  <1> DEFINE ny == [nx EXCEPT ![l] = nx[m]]
  <1>1. PICK n, p : Way(nx, p, n) /\ On(p, n) = S \cup {DummyNode}
    BY DEF LinksUp
  <1>2. PICK k \in 1 .. n : p[k] = l
    BY <1>1 DEF On
  <1>3. /\ n \in Nat \ {0} /\ k \in 1 .. (n - 1) /\ k + 1 \in 1 .. n /\ n - 1 \in Nat \ {0}
        /\ p[k + 1] = m /\ k # n
    BY <1>1, <1>2 DEF Way
  <1>4. m \in S /\ l \in Nodes /\ m \in Nodes /\ nx[m] \in Clients \cup {Null}
    <2>1. m \in S /\ l \in Nodes
      BY LinkStays
    <2> QED BY <2>1 DEF LinksUp, Nodes
  <1>5. ny \in [Nodes -> Clients \cup {Null}] /\ ny[l] = nx[m]
        /\ \A x \in Nodes : x # l => ny[x] = nx[x]
    BY <1>4 DEF LinksUp
  <1> DEFINE q == [i \in 1 .. (n - 1) |-> IF i <= k THEN p[i] ELSE p[i + 1]]
  <1>6. /\ \A i \in 1 .. (n - 1) : i \in 1 .. n /\ i + 1 \in 1 .. n
        /\ \A i \in 1 .. n : p[i] \in Nodes
    BY <1>1, <1>3 DEF Way
  <1>7. /\ q \in [1 .. (n - 1) -> Nodes]
        /\ \A i \in 1 .. k : q[i] = p[i]
        /\ \A i \in 1 .. (n - 1) : i > k => q[i] = p[i + 1]
    BY <1>3, <1>6
  <1> HIDE DEF ny, q
  <1>i. \A i, j \in 1 .. n : p[i] = p[j] => i = j
    BY <1>1 DEF Way
  <1>8. Way(ny, q, n - 1)
    <2>1. q[1] = DummyNode
      BY <1>1, <1>3, <1>7 DEF Way
    <2>2. ASSUME NEW i \in 1 .. (n - 1), NEW j \in 1 .. (n - 1), q[i] = q[j] PROVE i = j
      <3>1. CASE i <= k /\ j <= k
        BY <3>1, <2>2, <1>3, <1>i, <1>7
      <3>2. CASE i > k /\ j > k
        <4>1. p[i + 1] = p[j + 1] /\ i + 1 \in 1 .. n /\ j + 1 \in 1 .. n
          BY <3>2, <2>2, <1>6, <1>7
        <4>2. i + 1 = j + 1
          BY <4>1, <1>i
        <4> QED BY <4>2, <1>3
      <3>3. CASE i <= k /\ j > k
        <4>1. p[i] = p[j + 1] /\ i \in 1 .. n /\ j + 1 \in 1 .. n
          BY <3>3, <2>2, <1>3, <1>6, <1>7
        <4>2. i = j + 1
          BY <4>1, <1>i
        <4> QED BY <4>2, <3>3, <1>3
      <3>4. CASE i > k /\ j <= k
        <4>1. p[i + 1] = p[j] /\ i + 1 \in 1 .. n /\ j \in 1 .. n
          BY <3>4, <2>2, <1>3, <1>6, <1>7
        <4>2. i + 1 = j
          BY <4>1, <1>i
        <4> QED BY <4>2, <3>4, <1>3
      <3> QED BY <3>1, <3>2, <3>3, <3>4, <1>3
    <2>n. \A i \in 1 .. (n - 1) : nx[p[i]] = p[i + 1]
      BY <1>1 DEF Way
    <2>3. ASSUME NEW i \in 1 .. ((n - 1) - 1) PROVE ny[q[i]] = q[i + 1]
      <3>0. i \in 1 .. (n - 1) /\ i + 1 \in 1 .. (n - 1) /\ i \in 1 .. n /\ i + 1 \in 1 .. n
        BY <1>3
      <3>1. CASE i < k
        <4>1. q[i] = p[i] /\ q[i + 1] = p[i + 1] /\ p[i] # l
          BY <3>0, <3>1, <1>2, <1>3, <1>7, <1>i
        <4> QED BY <4>1, <3>0, <1>5, <1>6, <2>n
      <3>2. CASE i = k
        <4>1. q[i] = l /\ q[i + 1] = p[(i + 1) + 1] /\ ny[l] = nx[p[i + 1]]
          BY <3>0, <3>2, <1>2, <1>3, <1>5, <1>7
        <4> QED BY <4>1, <3>0, <2>n
      <3>3. CASE i > k
        <4>1. q[i] = p[i + 1] /\ q[i + 1] = p[(i + 1) + 1]
          BY <3>0, <3>3, <1>3, <1>7
        <4>2. p[i + 1] # l
          BY <3>0, <3>3, <1>2, <1>3, <1>i
        <4> QED BY <4>1, <4>2, <3>0, <1>5, <1>6, <2>n
      <3> QED BY <3>1, <3>2, <3>3, <1>3
    <2>4. ny[q[n - 1]] = Null
      <3>0. n - 1 \in 1 .. (n - 1) /\ nx[p[n]] = Null /\ n \in 1 .. n
        BY <1>1, <1>3 DEF Way
      <3>1. CASE k = n - 1
        <4>1. q[n - 1] = l /\ m = p[n]
          BY <3>1, <1>2, <1>3, <1>7
        <4> QED BY <4>1, <3>0, <1>5
      <3>2. CASE k < n - 1
        <4>1. q[n - 1] = p[n]
          BY <3>0, <3>2, <1>3, <1>7
        <4>2. p[n] # l
          BY <3>0, <1>2, <1>3, <1>i
        <4> QED BY <4>1, <4>2, <3>0, <1>5, <1>6
      <3> QED BY <3>1, <3>2, <1>3
    <2> QED BY <2>1, <2>2, <2>3, <2>4, <1>3, <1>7 DEF Way
  <1>9. On(q, n - 1) = (S \ {m}) \cup {DummyNode}
    <2>1. ASSUME NEW i \in 1 .. (n - 1) PROVE q[i] \in On(p, n) \ {m}
      <3>1. CASE i <= k
        <4>1. q[i] = p[i] /\ i # k + 1 /\ i \in 1 .. n
          BY <3>1, <1>3, <1>7
        <4> QED BY <4>1, <1>3, <1>i DEF On
      <3>2. CASE i > k
        <4>1. q[i] = p[i + 1] /\ i + 1 # k + 1 /\ i + 1 \in 1 .. n
          BY <3>2, <1>3, <1>7
        <4> QED BY <4>1, <1>3, <1>i DEF On
      <3> QED BY <3>1, <3>2, <1>3
    <2>2. ASSUME NEW x \in On(p, n) \ {m} PROVE x \in On(q, n - 1)
      <3>1. PICK i \in 1 .. n : x = p[i]
        BY DEF On
      <3>2. CASE i <= k
        <4>1. q[i] = p[i] /\ i \in 1 .. (n - 1)
          BY <3>2, <1>3, <1>7
        <4> QED BY <3>1, <4>1 DEF On
      <3>3. CASE i > k
        <4>1. i # k + 1
          BY <3>1, <1>3
        <4>2. PICK j \in 1 .. (n - 1) : i = j + 1 /\ j > k
          BY <3>3, <4>1, <1>3
        <4>3. q[j] = p[i]
          BY <4>2, <1>7
        <4> QED BY <3>1, <4>2, <4>3 DEF On
      <3> QED BY <3>2, <3>3, <1>3
    <2>3. On(q, n - 1) = On(p, n) \ {m}
      <3>1. \A x \in On(q, n - 1) : x \in On(p, n) \ {m}
        BY <2>1 DEF On
      <3> QED BY <3>1, <2>2
    <2>4. m # DummyNode
      BY <1>4, NodesDiffer DEF LinksUp
    <2> QED BY <2>3, <2>4, <1>1
  <1> QED BY <1>5, <1>8, <1>9 DEF LinksUp, ny

\* What Listed computes: a walk of as many steps as there are clients meets the
\* whole list, which is no longer than that.
LEMMA ListedIs ==
  ASSUME NEW S, LinksUp(next, S)
  PROVE  Listed = S
  <1>N. PICK N \in Nat : N = Cardinality(Clients)
    BY NodesDiffer, FS_CardinalityType
  <1> DEFINE V == SUBSET (Clients \cup {Null})
             Wider(v) == v \cup {next[m] : m \in v \ {Null}}
             first == {next[DummyNode]}
             g == [i \in 1 .. N |-> [v \in V |-> Wider(v)]]
             Reaches(h) == h = [i \in 0 .. N |-> IF i = 0 THEN first
                                                 ELSE h[i - 1] \cup {next[m] : m \in h[i - 1] \ {Null}}]
             reach == CHOOSE h : Reaches(h)
  <1>1. Listed = reach[N] \ {Null}
    BY <1>N DEF Listed
  <1>2. first \in V /\ \A v \in V : Wider(v) \in V
    BY DEF LinksUp, Nodes
  <1>3. IsStep(g, V, N) /\ \A i \in 1 .. N : \A v \in V : g[i][v] = Wider(v)
    BY <1>2 DEF IsStep
  <1>4. \A h : (h = [i \in 0 .. N |-> IF i = 0 THEN first ELSE Wider(h[i - 1])]) => Reaches(h)
    OBVIOUS
  <1>5. \A h : Reaches(h) => h[0] = first /\ \A i \in 1 .. N : h[i] = Wider(h[i - 1])
    OBVIOUS
  <1> HIDE DEF V, Wider, first, g, Reaches
  <1>6. PICK f : Iterates(f, V, first, N, g)
    BY <1>2, <1>3, RecursionExists
  <1>7. f = [i \in 0 .. N |-> IF i = 0 THEN first ELSE Wider(f[i - 1])]
    <2>1. f \in [0 .. N -> V] /\ f[0] = first /\ \A i \in 1 .. N : f[i] = Wider(f[i - 1])
      BY <1>3, <1>6 DEF Iterates
    <2> QED BY <2>1
  <1>8. Reaches(f)
    BY <1>4, <1>7
  <1>9. Reaches(reach)
    BY <1>8
  <1> HIDE DEF reach
  <1>10. reach[0] = first /\ \A i \in 1 .. N : reach[i] = Wider(reach[i - 1])
    BY <1>5, <1>9
  <1>11. reach[N] \subseteq S \cup {Null}
    <2> DEFINE T == {i \in 0 .. N : reach[i] \subseteq S \cup {Null}}
    <2>1. first \subseteq S \cup {Null}
      BY LinkStays DEF first
    <2>2. \A v : v \subseteq S \cup {Null} => Wider(v) \subseteq S \cup {Null}
      BY LinkStays DEF Wider
    <2>3. ASSUME NEW i \in 0 .. (N - 1), i \in T PROVE i + 1 \in T
      <3>1. i + 1 \in 1 .. N /\ (i + 1) - 1 = i
        OBVIOUS
      <3> QED BY <3>1, <2>2, <2>3, <1>10
    <2>4. 0 \in T
      BY <2>1, <1>10
    <2> HIDE DEF T
    <2>5. N \in T
      BY <2>3, <2>4, BoundedInduction
    <2> QED BY <2>5 DEF T
  <1>12. PICK n, p : Way(next, p, n) /\ On(p, n) = S \cup {DummyNode}
    BY DEF LinksUp
  <1>13. \A j \in 1 .. n : j - 2 <= N
    <2>1. n \in Nat \ {0} /\ n - 1 \in Nat
      BY <1>12 DEF Way
    <2> DEFINE q == [i \in 1 .. (n - 1) |-> p[i + 1]]
    <2>2. ASSUME NEW i \in 1 .. (n - 1) PROVE p[i + 1] \in Clients
      <3>1. i + 1 \in 1 .. n /\ 1 \in 1 .. n /\ i + 1 # 1
        BY <2>1
      <3> QED BY <3>1, <1>12 DEF Way, Nodes
    <2>3. ASSUME NEW i \in 1 .. (n - 1), NEW j \in 1 .. (n - 1), q[i] = q[j] PROVE i = j
      <3>1. i + 1 \in 1 .. n /\ j + 1 \in 1 .. n /\ p[i + 1] = p[j + 1]
        BY <2>1, <2>3
      <3>2. i + 1 = j + 1
        BY <3>1, <1>12 DEF Way
      <3> QED BY <3>2
    <2>4. q \in Injection(1 .. (n - 1), Clients)
      BY <2>2, <2>3 DEF Injection, IsInjective
    <2>5. Cardinality(1 .. (n - 1)) <= N
      BY <2>4, <1>N, NodesDiffer, FS_Injection
    <2>6. Cardinality(1 .. (n - 1)) = n - 1
      BY <2>1, FS_Interval
    <2> QED BY <2>1, <2>5, <2>6
  <1>14. \A j \in 2 .. n : p[j] \in reach[N]
    <2> DEFINE T == {i \in 0 .. N : \A j \in 2 .. n : j <= i + 2 => p[j] \in reach[i]}
    <2>1. /\ n \in Nat \ {0} /\ p[1] = DummyNode
          /\ \A i \in 1 .. (n - 1) : next[p[i]] = p[i + 1]
          /\ \A j \in 2 .. n : p[j] \in Nodes
      BY <1>12 DEF Way
    <2>2. 0 \in T
      <3> SUFFICES ASSUME NEW j \in 2 .. n, j <= 2 PROVE p[j] \in reach[0]
        OBVIOUS
      <3>1. j = 2 /\ 1 \in 1 .. (n - 1) /\ 1 + 1 = 2
        BY <2>1
      <3> QED BY <3>1, <2>1, <1>10 DEF first
    <2>3. ASSUME NEW i \in 0 .. (N - 1), i \in T PROVE i + 1 \in T
      <3>1. i + 1 \in 1 .. N /\ (i + 1) - 1 = i /\ i + 1 \in 0 .. N
        OBVIOUS
      <3>2. reach[i + 1] = Wider(reach[i])
        BY <3>1, <1>10
      <3>3. ASSUME NEW j \in 2 .. n, j <= (i + 1) + 2 PROVE p[j] \in reach[i + 1]
        <4>1. CASE j <= i + 2
          BY <4>1, <2>3, <3>2 DEF Wider
        <4>2. CASE j = i + 3
          <5>1. PICK k \in 2 .. n : j = k + 1 /\ k <= i + 2 /\ k \in 1 .. (n - 1)
            BY <4>2, <2>1
          <5>2. p[k] \in reach[i] /\ p[k] # Null /\ next[p[k]] = p[j]
            BY <5>1, <2>1, <2>3, NodesDiffer
          <5> QED BY <5>2, <3>2 DEF Wider
        <4> QED BY <3>3, <4>1, <4>2
      <3> QED BY <3>1, <3>3
    <2> HIDE DEF T
    <2>4. N \in T
      BY <2>2, <2>3, BoundedInduction
    <2> QED BY <2>4, <1>13, <2>1 DEF T
  <1>15. S \subseteq reach[N]
    <2> SUFFICES ASSUME NEW m \in S PROVE m \in reach[N]
      OBVIOUS
    <2>1. PICK j \in 1 .. n : m = p[j]
      BY <1>12 DEF On
    <2>2. p[1] = DummyNode /\ n \in Nat /\ m # DummyNode
      BY <1>12, NodesDiffer DEF Way, LinksUp
    <2>3. j \in 2 .. n
      BY <2>1, <2>2
    <2> QED BY <2>1, <2>3, <1>14
  <1>16. Null \notin S
    BY NodesDiffer DEF LinksUp, Nodes
  <1> QED BY <1>1, <1>11, <1>15, <1>16

\* The threads that have been created and not joined, and the one of them that the
\* main thread has in its hands: to be linked, or unlinked and to be joined.
Threads == {c \in Clients : arg[c] = "live" /\ worker[c] # "forgotten"}
InHand == IF main \in {"append", "join"} THEN {client_fd} ELSE {}
Linked == Threads \ InHand

\* ListIsThreads needs more than itself: the list meets no node twice and ends, prev is
\* on it and current behind prev, and the node to be linked next leads nowhere.
ListShape ==
  /\ LinksUp(next, Linked)
  /\ \A c \in Clients : arg[c] = "none" => next[c] = Null
  /\ main = "append" => client_fd \in Threads /\ next[client_fd] = Null
  /\ main \in {"reap", "join"} => prev \in Linked \cup {DummyNode} /\ current = next[prev]

NoThreadYet == \A c \in Clients : worker[c] \in {"absent", "waiting", "accepted"} => arg[c] = "none"

ListInv == NoThreadYet /\ (Running => ListShape)

\* A list without a thread.
LEMMA EmptyList == LinksUp(OfAll(Nodes, Null), {})
  <1> DEFINE nx == OfAll(Nodes, Null)
             p == [i \in 1 .. 1 |-> DummyNode]
  <1>1. nx \in [Nodes -> Clients \cup {Null}] /\ nx[DummyNode] = Null
    BY DEF OfAll, Nodes
  <1>2. p \in [1 .. 1 -> Nodes] /\ p[1] = DummyNode
    BY DEF Nodes
  <1>3. 1 \in Nat \ {0} /\ (\A i \in 1 .. 1 : i = 1) /\ 1 .. (1 - 1) = {}
    OBVIOUS
  <1> HIDE DEF nx, p
  <1>4. Way(nx, p, 1)
    BY <1>1, <1>2, <1>3 DEF Way
  <1>5. On(p, 1) = {} \cup {DummyNode}
    BY <1>2, <1>3 DEF On
  <1> QED BY <1>1, <1>4, <1>5 DEF LinksUp, nx

LEMMA ListInit == Init => ListInv
  <1> SUFFICES ASSUME Init PROVE ListInv
    OBVIOUS
  <1>1. next = OfAll(Nodes, Null) /\ Linked = {}
    BY DEF Init, Nodes, Linked, Threads, OfAll
  <1>2. LinksUp(next, Linked)
    BY <1>1, EmptyList
  <1> QED BY <1>1, <1>2 DEF Init, ListInv, ListShape, NoThreadYet, OfAll, Nodes

\* A step away from the list: the main thread has the same node in its hands, or none.
LEMMA AsideKeepsList ==
  ASSUME ServerInv, ListInv, UNCHANGED <<listVars, arg>>, Threads' = Threads, NoThreadYet',
         \/ UNCHANGED <<main, client_fd>>
         \/ main \notin {"append", "join", "exited"} /\ main' \notin {"append", "join", "reap"}
         \/ main' = "exited"
  PROVE  ListInv'
  <1> SUFFICES ASSUME Running' PROVE ListShape'
    BY DEF ListInv
  <1>1. Running /\ Linked' = Linked
    BY DEF Running, Linked, InHand
  <1>2. /\ main' = "append" => main = "append" /\ client_fd' = client_fd
        /\ main' \in {"reap", "join"} => main \in {"reap", "join"}
    BY DEF Running
  <1> QED BY <1>1, <1>2 DEF ListInv, ListShape, listVars

LEMMA ThreadsKeepList ==
  ASSUME ServerInv, ListInv, UNCHANGED <<mainVars>>,
         \/ worker' = worker
         \/ \E c \in Clients : Connect(c)
         \/ \E c \in Clients, from, to \in Workers :
              /\ worker[c] = from /\ worker' = [worker EXCEPT ![c] = to]
              /\ from \notin {"absent", "waiting", "accepted", "forgotten"}
              /\ to \notin {"absent", "waiting", "accepted", "forgotten"}
  PROVE  ListInv'
  <1>0. UNCHANGED <<main, client_fd, listVars, arg>> /\ worker \in [Clients -> Workers]
    BY DEF mainVars, ServerInv, ServerTypes
  <1>1. Threads' = Threads
    BY <1>0 DEF Threads, Connect, ListInv, NoThreadYet
  <1>2. NoThreadYet'
    BY <1>0 DEF NoThreadYet, Connect, ListInv
  <1> QED BY <1>0, <1>1, <1>2, AsideKeepsList

LEMMA WorkersKeepList ==
  ASSUME ServerInv, ListInv, NEW c \in Clients,
         Connect(c) \/ LockFile(c) \/ Work(c)
  PROVE  ListInv'
  <1>1. CASE Connect(c)
    BY <1>1, ThreadsKeepList DEF Connect
  <1>2. CASE LockFile(c) \/ Work(c)
    <2> DEFINE Late == Workers \ {"absent", "waiting", "accepted", "forgotten"}
    <2>1. \E from, to \in Late : Go(c, from, to)
      <3> USE DEF Workers
      <3>1. CASE LockFile(c) \/ Recv(c) \/ RecvEnds(c) \/ OpenFile(c) \/ NoFile(c) \/ Seek(c)
        BY <3>1 DEF LockFile, Recv, RecvEnds, OpenFile, NoFile, Seek, GoOn
      <3>2. CASE WriteChunk(c) \/ WriteFails(c) \/ UnlockFile(c)
        BY <3>2 DEF WriteChunk, WriteNode, TakeNode, WriteFails, UnlockFile, Unlock
      <3>3. CASE Echo(c) \/ EchoCut(c) \/ EchoEnds(c) \/ ReadFails(c)
        BY <3>3 DEF Echo, EchoCut, ReadAndSend, EchoEnds, ReadFails, CloseFile
      <3>4. CASE CloseClient(c) \/ SetDone(c) \/ ThreadEnds(c)
        BY <3>4 DEF CloseClient, SetDone, ThreadEnds, Done, GoOn
      <3> QED BY <1>2, <3>1, <3>2, <3>3, <3>4 DEF Work
    <2>2. PICK from \in Late, to \in Late : Go(c, from, to)
      BY <2>1
    <2>3. worker[c] = from /\ worker' = [worker EXCEPT ![c] = to] /\ UNCHANGED mainVars
      BY <2>2 DEF Go
    <2> QED BY <2>3, ThreadsKeepList
  <1> QED BY <1>1, <1>2

LEMMA StampersKeepList ==
  ASSUME ServerInv, ListInv, NEW s \in Stampers,
         StamperStarts(s) \/ StamperLocks(s) \/ StampWork(s)
  PROVE  ListInv'
  <1>1. UNCHANGED <<mainVars, worker>>
    BY DEF StamperStarts, StamperLocks, StampWork, StamperWrites, StamperFails, StamperUnlocks, Stamp
  <1> QED BY <1>1, ThreadsKeepList

LEMMA MainAsideKeepsList ==
  ASSUME ServerInv, ListInv,
         \/ MainStart \/ MainStartFails \/ MainCheck \/ MainBlock \/ MainAcceptFails \/ MainExitCheck
         \/ \E c \in Clients : MainAccept(c) \/ EchoKills(c)
         \/ Signal \/ NoMemory
  PROVE  ListInv'
  <1>1. UNCHANGED <<listVars, arg>>
    BY DEF MainStart, MainStartFails, MainCheck, MainBlock, MainAcceptFails, MainExitCheck, MainAccept,
           EchoKills, Signal, NoMemory, Dies
  <1>2. \/ UNCHANGED worker
        \/ \E c \in Clients : worker[c] = "waiting" /\ worker' = [worker EXCEPT ![c] = "accepted"]
    BY DEF MainStart, MainStartFails, MainCheck, MainBlock, MainAcceptFails, MainExitCheck, MainAccept,
           EchoKills, Signal, NoMemory, Dies
  <1>3. Threads' = Threads /\ NoThreadYet'
    BY <1>1, <1>2 DEF Threads, NoThreadYet, ListInv, ServerInv, ServerTypes
  <1>4. \/ UNCHANGED <<main, client_fd>>
        \/ main \notin {"append", "join", "exited"} /\ main' \notin {"append", "join", "reap"}
        \/ main' = "exited"
    BY DEF MainStart, MainStartFails, MainCheck, MainBlock, MainAcceptFails, MainExitCheck, MainAccept,
           EchoKills, Signal, NoMemory, Dies, MainGo
  <1> QED BY <1>1, <1>3, <1>4, AsideKeepsList

LEMMA CreateKeepsList ==
  ASSUME ServerInv, ListInv, MainCreate \/ MainCreateFails
  PROVE  ListInv'
  <1>1. client_fd \in Clients /\ worker[client_fd] = "accepted" /\ main = "create"
    BY DEF MainCreate, MainCreateFails, MainGo, ServerInv, AcceptInv
  <1>2. arg[client_fd] = "none" /\ ListShape /\ next[client_fd] = Null /\ client_fd \notin Threads
    BY <1>1 DEF ListInv, NoThreadYet, Running, ListShape, Threads
  <1>3. PICK to \in {"recv", "forgotten"} :
          /\ worker' = [worker EXCEPT ![client_fd] = to]
          /\ arg' = [arg EXCEPT ![client_fd] = "live"]
          /\ UNCHANGED listVars
          /\ to = "recv" => main' = "append" /\ UNCHANGED client_fd
          /\ to = "forgotten" => main' = "check"
    BY DEF MainCreate, MainCreateFails, MainGo, NewArg
  <1>t. arg \in [Clients -> {"none", "live", "freed"}] /\ worker \in [Clients -> Workers]
    BY DEF ServerInv, ServerTypes
  <1>4. Threads' = IF to = "recv" THEN Threads \cup {client_fd} ELSE Threads
    BY <1>1, <1>2, <1>3, <1>t DEF Threads
  <1>5. Linked' = Linked
    BY <1>1, <1>2, <1>3, <1>4 DEF Linked, InHand
  <1>6. NoThreadYet'
    BY <1>1, <1>3, <1>t DEF ListInv, NoThreadYet
  <1>7. \A c \in Clients : arg'[c] = "none" => arg[c] = "none"
    BY <1>3, <1>t
  <1>8. ListShape'
    BY <1>1, <1>2, <1>3, <1>4, <1>5, <1>7 DEF ListShape, listVars
  <1> QED BY <1>6, <1>8 DEF ListInv

LEMMA AppendKeepsList ==
  ASSUME ServerInv, ListInv, MainAppend
  PROVE  ListInv'
  <1> DEFINE last == CHOOSE m \in Listed \cup {DummyNode} : next[m] = Null
  <1>1. /\ main = "append" /\ main' = "reap" /\ ListShape
        /\ next' = [next EXCEPT ![last] = client_fd]
        /\ prev' = DummyNode /\ current' = next'[DummyNode]
        /\ UNCHANGED <<arg, worker>>
    BY DEF MainAppend, AppendAndReap, MainGo, ListInv, Running
  <1>2. client_fd \in Threads /\ client_fd \in Clients /\ next[client_fd] = Null /\ client_fd \notin Linked
        /\ LinksUp(next, Linked)
    BY <1>1 DEF ListShape, Threads, Linked, InHand
  <1>3. Listed = Linked
    BY <1>2, ListedIs
  <1>4. last \in Linked \cup {DummyNode} /\ next[last] = Null
    BY <1>2, <1>3, LinkEnds
  <1> HIDE DEF last
  <1>5. LinksUp(next', Linked \cup {client_fd})
    BY <1>1, <1>2, <1>4, LinkAppend
  <1>6. Linked' = Linked \cup {client_fd}
    BY <1>1, <1>2 DEF Linked, InHand, Threads
  <1>7. ASSUME NEW c \in Clients, arg'[c] = "none" PROVE next'[c] = Null
    <2>1. next[c] = Null /\ arg[c] = "none"
      BY <1>1, <1>7 DEF ListShape
    <2>2. c \notin Linked \cup {DummyNode}
      BY <2>1, NodesDiffer DEF Linked, Threads
    <2>3. next \in [Nodes -> Clients \cup {Null}] /\ c \in Nodes
      BY <1>2 DEF LinksUp, Nodes
    <2> QED BY <2>1, <2>2, <2>3, <1>1, <1>4
  <1>8. ListShape'
    BY <1>1, <1>5, <1>6, <1>7 DEF ListShape
  <1>9. NoThreadYet'
    BY <1>1 DEF ListInv, NoThreadYet
  <1> QED BY <1>8, <1>9 DEF ListInv

LEMMA UnlinkKeepsList ==
  ASSUME ServerInv, ListInv, MainUnlink
  PROVE  ListInv'
  <1>1. /\ main = "reap" /\ main' = "join" /\ ListShape /\ current # Null
        /\ next' = [next EXCEPT ![prev] = next[current]]
        /\ client_fd' = current /\ current' = next[current]
        /\ UNCHANGED <<prev, arg, worker>>
    BY DEF MainUnlink, MainGo, ListInv, Running
  <1>2. LinksUp(next, Linked) /\ prev \in Linked \cup {DummyNode} /\ current = next[prev] /\ Linked = Threads
    BY <1>1 DEF ListShape, Linked, InHand
  <1>3. LinksUp(next', Linked \ {current})
    BY <1>1, <1>2, LinkUnlink
  <1>4. current \in Linked /\ prev \in Nodes /\ next \in [Nodes -> Clients \cup {Null}]
    <2>1. current \in Linked /\ prev \in Nodes
      BY <1>1, <1>2, LinkStays
    <2> QED BY <2>1, <1>2 DEF LinksUp
  <1>5. Linked' = Linked \ {current}
    BY <1>1, <1>2 DEF Linked, InHand, Threads
  <1>6. next'[prev] = next[current] /\ current' = next'[prev']
    BY <1>1, <1>4
  <1>7. prev \in Linked' \cup {DummyNode}
    <2> SUFFICES ASSUME prev = current PROVE FALSE
      BY <1>2, <1>5
    <2>1. LinksUp(next, Linked) /\ next[current] = current /\ current \in Linked
      BY <1>2, <1>4
    <2>2. PICK n, p : Way(next, p, n) /\ On(p, n) = Linked \cup {DummyNode}
      BY <2>1 DEF LinksUp
    <2>3. PICK i \in 1 .. n : p[i] = current
      BY <2>1, <2>2 DEF On
    <2>4. CASE i = n
      BY <2>1, <2>2, <2>3, <2>4, <1>1 DEF Way
    <2>5. CASE i # n
      <3>1. i \in 1 .. (n - 1) /\ i + 1 \in 1 .. n /\ i # i + 1
        BY <2>2, <2>3, <2>5 DEF Way
      <3> QED BY <3>1, <2>1, <2>2, <2>3 DEF Way
    <2> QED BY <2>4, <2>5
  <1>8. ASSUME NEW c \in Clients, arg'[c] = "none" PROVE next'[c] = Null
    <2>1. next[c] = Null /\ arg[c] = "none"
      BY <1>1, <1>8 DEF ListShape
    <2>2. c # prev
      BY <2>1, <1>2, NodesDiffer DEF Threads
    <2>3. c \in Nodes
      BY DEF Nodes
    <2> QED BY <2>1, <2>2, <2>3, <1>1, <1>4
  <1>9. ListShape'
    BY <1>1, <1>3, <1>5, <1>6, <1>7, <1>8 DEF ListShape
  <1>10. NoThreadYet'
    BY <1>1 DEF ListInv, NoThreadYet
  <1> QED BY <1>9, <1>10 DEF ListInv

LEMMA RestOfReapKeepsList ==
  ASSUME ServerInv, ListInv, MainSkip \/ MainJoin \/ MainReaped
  PROVE  ListInv'
  <1>0. ListShape /\ LinksUp(next, Linked) /\ Running
    BY DEF MainSkip, StepOn, MainJoin, FreeArg, MainReaped, MainGo, ListInv, Running, ListShape
  <1>1. CASE MainSkip
    <2>1. /\ main = "reap" /\ main' = "reap" /\ current # Null
          /\ prev' = current /\ current' = next[current]
          /\ UNCHANGED <<client_fd, next, arg, worker>>
      BY <1>1 DEF MainSkip, StepOn, MainGo
    <2>2. Linked' = Linked
      BY <2>1 DEF Linked, InHand, Threads
    <2>3. current \in Linked
      BY <1>0, <2>1, LinkStays DEF ListShape
    <2>4. ListShape' /\ NoThreadYet'
      BY <1>0, <2>1, <2>2, <2>3 DEF ListShape, ListInv, NoThreadYet
    <2> QED BY <2>4 DEF ListInv
  <1>2. CASE MainJoin
    <2>1. /\ main = "join" /\ main' = "reap" /\ worker[client_fd] = "exited"
          /\ arg' = [arg EXCEPT ![client_fd] = "freed"]
          /\ UNCHANGED <<listVars, worker>>
      BY <1>2 DEF MainJoin, FreeArg, MainGo
    <2>2. arg \in [Clients -> {"none", "live", "freed"}]
      BY DEF ServerInv, ServerTypes
    <2>3. Linked' = Linked
      BY <2>1, <2>2 DEF Linked, InHand, Threads
    <2>4. \A c \in Clients : arg'[c] = "none" <=> (arg[c] = "none" /\ c # client_fd)
      BY <2>1, <2>2
    <2>5. ListShape'
      BY <1>0, <2>1, <2>3, <2>4 DEF ListShape, listVars
    <2>6. NoThreadYet'
      BY <2>1, <2>4 DEF ListInv, NoThreadYet
    <2> QED BY <2>5, <2>6 DEF ListInv
  <1>3. CASE MainReaped
    <2>1. main = "reap" /\ main' = "check" /\ UNCHANGED <<next, arg, worker>>
      BY <1>3 DEF MainReaped, MainGo
    <2>2. Linked' = Linked
      BY <2>1 DEF Linked, InHand, Threads
    <2> QED BY <1>0, <2>1, <2>2 DEF ListShape, ListInv, NoThreadYet
  <1> QED BY <1>1, <1>2, <1>3

LEMMA RestartKeepsList ==
  ASSUME ServerInv, ListInv, Restart
  PROVE  ListInv'
  <1>1. /\ main' = "start" /\ next' = OfAll(Nodes, Null) /\ arg' = OfAll(Clients, "none")
    BY DEF Restart, Nodes
  <1>2. Linked' = {} /\ NoThreadYet'
    BY <1>1 DEF Linked, Threads, OfAll, NoThreadYet
  <1>3. \A c \in Clients : next'[c] = Null
    BY <1>1 DEF OfAll, Nodes
  <1>4. LinksUp(next', Linked')
    BY <1>1, <1>2, EmptyList
  <1> QED BY <1>1, <1>2, <1>3, <1>4 DEF ListInv, ListShape

LEMMA ListStep == ServerInv /\ ListInv /\ [Next]_vars => ListInv'
  <1> SUFFICES ASSUME ServerInv, ListInv, [Next]_vars PROVE ListInv'
    OBVIOUS
  <1>1. CASE Main \/ MainAcceptFails
    BY <1>1, MainAsideKeepsList, CreateKeepsList, AppendKeepsList, UnlinkKeepsList, RestOfReapKeepsList
       DEF Main
  <1>2. CASE Signal \/ NoMemory \/ Restart
    BY <1>2, MainAsideKeepsList, RestartKeepsList
  <1>3. CASE \E c \in Clients : Connect(c) \/ LockFile(c) \/ Work(c) \/ EchoKills(c)
    BY <1>3, WorkersKeepList, MainAsideKeepsList
  <1>4. CASE \E s \in Stampers : StamperStarts(s) \/ StamperLocks(s) \/ StampWork(s)
    BY <1>4, StampersKeepList
  <1>5. CASE UNCHANGED vars
    BY <1>5, ThreadsKeepList DEF vars
  <1> QED BY <1>1, <1>2, <1>3, <1>4, <1>5 DEF Next

\* The list of ThreadArgs holds the threads that have been created and not joined (main:
\* the loop that links a ThreadArg at the end, and the join loop), however many clients
\* there are.
THEOREM ServerListIsThreads == Spec => []ListIsThreads
  <1>1. ServerInv /\ ListInv => ListIsThreads
    <2> SUFFICES ASSUME ListInv, Running, main # "append"
                 PROVE  Listed = Threads \ (IF main = "join" THEN {client_fd} ELSE {})
      BY DEF ListIsThreads, Threads
    <2>1. Listed = Linked
      BY ListedIs DEF ListInv, ListShape
    <2> QED BY <2>1 DEF Linked, InHand
  <1>2. Init => ServerInv /\ ListInv
    BY ServerInit, ListInit
  <1>3. ServerInv /\ ListInv /\ [Next]_vars => (ServerInv /\ ListInv)'
    BY ServerStep, ListStep
  <1> QED BY <1>1, <1>2, <1>3, PTL DEF Spec

----------------------------------------------------------------------------
(* The types of the data.                                                  *)

SeekNumbers == [write_cmd : Nat, write_cmd_offset : Nat]

LEMMA WithDigitNat == \A n, d \in Nat : WithDigit(n, d) \in Nat
  BY CommandAssumption DEF WithDigit

\* The bytes before a newline are bytes of the chunk.
LEMMA BeforeNewlineType ==
  ASSUME NEW X, NEW chunk, chunk \in Seq(X)
  PROVE  BeforeNewline(chunk) \in Seq(X)
  <1>1. PICK n : n = SelectInSeq(chunk, LAMBDA byte : byte = Newline)
    OBVIOUS
  <1> DEFINE I == {i \in 1 .. Len(chunk) : chunk[i] = Newline}
  <1>2. n = IF I # {} THEN Min(I) ELSE 0
    BY <1>1 DEF SelectInSeq
  <1>3. n \in 0 .. Len(chunk)
    <2>1. CASE I = {}
      BY <1>2, <2>1
    <2>2. CASE I # {}
      <3>1. I \subseteq Nat /\ I \subseteq 1 .. Len(chunk)
        OBVIOUS
      <3>2. \E x \in I : \A y \in I : x <= y
        BY <2>2, <3>1, NatHasLeast
      <3>3. Min(I) \in I
        <4> HIDE DEF I
        <4> QED BY <3>2 DEF Min
      <3> HIDE DEF I
      <3>4. n = Min(I)
        BY <1>2, <2>2, Zenon
      <3>5. n \in 1 .. Len(chunk)
        BY <3>1, <3>3, <3>4, Zenon
      <3> QED BY <3>5
    <2> QED BY <2>1, <2>2
  <1>4. n # 0 => SubSeq(chunk, 1, n - 1) \in Seq(X)
    BY <1>3
  <1> QED BY <1>1, <1>4 DEF BeforeNewline

\* A command that findCommand finds names its byte with two numbers.
LEMMA FindCommandType ==
  ASSUME NEW X, NEW chunks, chunks \in Seq(Seq(X))
  PROVE  FindCommand(chunks) \subseteq SeekNumbers
  <1> DEFINE text == ScannedBytes(chunks)
             St == [i : Nat, write_cmd_found : BOOLEAN, write_cmd : Nat, write_cmd_offset : Nat]
             start == [i |-> 0, write_cmd_found |-> FALSE, write_cmd |-> 0, write_cmd_offset |-> 0]
             V == SUBSET St
             Turn(v, k) == UNION {NextByte(s, text[k]) : s \in v}
             Scans(h) == h = [k \in 0 .. Len(text) |->
                                IF k = 0 THEN {start} ELSE UNION {NextByte(s, text[k]) : s \in h[k - 1]}]
             scan == CHOOSE h : Scans(h)
             found == {s \in scan[Len(text)] : s.write_cmd_found}
  <1>1. FindCommand(chunks) = {[write_cmd |-> s.write_cmd, write_cmd_offset |-> s.write_cmd_offset] : s \in found}
    BY DEF FindCommand
  <1>2. Len(text) \in Nat
    <2>1. PICK w : w = [k \in DOMAIN chunks |-> BeforeNewline(chunks[k])]
      OBVIOUS
    <2>2. \A k \in 1 .. Len(chunks) : BeforeNewline(chunks[k]) \in Seq(X)
      BY BeforeNewlineType
    <2>3. w \in Seq(Seq(X))
      <3>1. PICK W : W = Seq(X)
        OBVIOUS
      <3>2. DOMAIN chunks = 1 .. Len(chunks) /\ Len(chunks) \in Nat
        OBVIOUS
      <3>3. w \in Seq(W)
        BY <2>1, <2>2, <3>1, <3>2
      <3> QED BY <3>1, <3>3
    <2>4. FlattenSeq(w) \in Seq(X)
      BY <2>3, FlattenLayout
    <2> QED BY <2>1, <2>4 DEF ScannedBytes
  <1>3. \A s \in St : \A byte : NextByte(s, byte) \in V
    <2> SUFFICES ASSUME NEW s \in St, NEW byte PROVE NextByte(s, byte) \subseteq St
      OBVIOUS
    <2>1. CASE s.i < Len(Command)
      <3>1. [s EXCEPT !.i = @ + 1] \in St
        OBVIOUS
      <3>2. NextByte(s, byte) \subseteq {[s EXCEPT !.i = @ + 1]}
        BY <2>1 DEF NextByte
      <3> QED BY <3>1, <3>2, Zenon
    <2>2. CASE ~(s.i < Len(Command)) /\ byte = Comma
      <3>1. [s EXCEPT !.write_cmd_found = TRUE] \in St
        OBVIOUS
      <3>2. NextByte(s, byte) = {[s EXCEPT !.write_cmd_found = TRUE]}
        BY <2>2, CommandAssumption DEF NextByte
      <3> QED BY <3>1, <3>2, Zenon
    <2>3. CASE ~(s.i < Len(Command)) /\ byte # Comma /\ byte \in 0 .. 9
      <3>1. WithDigit(s.write_cmd, byte) \in Nat /\ WithDigit(s.write_cmd_offset, byte) \in Nat
        <4>1. byte \in Nat /\ s.write_cmd \in Nat /\ s.write_cmd_offset \in Nat
          BY <2>3
        <4> QED BY <4>1, WithDigitNat
      <3>2. NextDigit(s, byte) \in St
        BY <3>1 DEF NextDigit
      <3>3. NextByte(s, byte) = {NextDigit(s, byte)}
        BY <2>3 DEF NextByte
      <3> QED BY <3>2, <3>3
    <2>4. CASE ~(s.i < Len(Command)) /\ byte # Comma /\ byte \notin 0 .. 9
      BY <2>4 DEF NextByte
    <2> QED BY <2>1, <2>2, <2>3, <2>4
  <1>4. {start} \in V
    OBVIOUS
  <1>n. PICK n \in Nat : n = Len(text)
    BY <1>2
  <1> DEFINE g == [k \in 1 .. n |-> [v \in V |-> Turn(v, k)]]
  <1>5. \A v \in V : \A k : Turn(v, k) \in V
    <2> HIDE DEF St, text
    <2> QED BY <1>3
  <1>6. IsStep(g, V, n) /\ \A k \in 1 .. n : \A v \in V : g[k][v] = Turn(v, k)
    <2> HIDE DEF V, Turn
    <2> QED BY <1>5 DEF IsStep
  <1>7. \A h : (h = [k \in 0 .. n |-> IF k = 0 THEN {start} ELSE Turn(h[k - 1], k)]) => Scans(h)
    BY <1>n
  <1>8. \A h : Scans(h) => h[0] = {start} /\ \A k \in 1 .. n : h[k] = Turn(h[k - 1], k)
    BY <1>n
  <1> HIDE DEF text, V, start, g, Turn, Scans
  <1>9. PICK f : Iterates(f, V, {start}, n, g)
    BY <1>4, <1>6, RecursionExists
  <1>10. f = [k \in 0 .. n |-> IF k = 0 THEN {start} ELSE Turn(f[k - 1], k)]
    <2>1. f \in [0 .. n -> V] /\ f[0] = {start} /\ \A k \in 1 .. n : f[k] = Turn(f[k - 1], k)
      BY <1>6, <1>9 DEF Iterates
    <2> QED BY <2>1
  <1>11. Scans(scan)
    <2>1. Scans(f)
      BY <1>7, <1>10
    <2> QED BY <2>1
  <1> HIDE DEF scan
  <1>12. scan[n] \in V
    <2> DEFINE T == {k \in 0 .. n : scan[k] \in V}
    <2>1. scan[0] = {start} /\ \A k \in 1 .. n : scan[k] = Turn(scan[k - 1], k)
      BY <1>8, <1>11
    <2>2. 0 \in T
      <3>1. 0 \in 0 .. n /\ scan[0] \in V
        BY <1>4, <2>1
      <3> QED BY <3>1
    <2>3. ASSUME NEW k \in 0 .. (n - 1), k \in T PROVE k + 1 \in T
      <3>1. k + 1 \in 1 .. n /\ (k + 1) - 1 = k
        OBVIOUS
      <3> QED BY <3>1, <2>1, <2>3, <1>5
    <2> HIDE DEF T
    <2>4. \A k \in 0 .. n : k \in T
      BY <2>2, <2>3, BoundedInduction
    <2> QED BY <2>4 DEF T
  <1>13. \A s \in found : s.write_cmd \in Nat /\ s.write_cmd_offset \in Nat
    BY <1>12, <1>n DEF V
  <1> QED BY <1>1, <1>13 DEF SeekNumbers

DataTypes ==
  /\ build \in {"device", "file"}
  /\ log \in Seq(Seq(Bytes)) /\ Len(log) <= MaxOps
  /\ partial \in Seq(Bytes)
  /\ got \in [Clients -> Nat]
  /\ written \in [Clients -> Nat]
  /\ f_pos \in [Clients -> Nat]
  /\ echo \in [Clients -> Seq(Bytes)]
  /\ file_fd \in [Clients -> BOOLEAN]

\* How far a worker is with its packet: nothing is written or sent back before its time,
\* nothing is written of a packet that is a seek command, and who has written has the
\* file open.
Progress(c) ==
  /\ written[c] <= got[c] /\ got[c] <= Len(Script[c])
  /\ worker[c] \in Fresh => written[c] = 0
  /\ worker[c] = "use" => written[c] < got[c]
  /\ worker[c] \in Fresh \cup {"use"} => f_pos[c] = 0 /\ echo[c] = <<>>
  /\ written[c] > 0 => Found(c) = {}
  /\ worker[c] = "use" => file_fd[c]
  /\ worker[c] = "unlock" /\ written[c] > 0 => file_fd[c]

DataInv == DataTypes /\ \A c \in Clients : Progress(c)

----------------------------------------------------------------------------
(* What a client is sent back.                                             *)

Commands == {i \in DOMAIN order : HasNewline(Script[order[i][1]][order[i][2]])}

EchoStart(c) == f_pos[c] - Len(echo[c])

\* EchoFromStart, of one client.
EchoedFrom(c) ==
  /\ EchoStart(c) \in SeekPositions(c) \cup {0}
  /\ \/ echo[c] = <<>>
     \/ f_pos[c] <= Len(Contents) /\ echo[c] = SubSeq(Contents, EchoStart(c) + 1, f_pos[c])

EndsIn(bytes, piece) == \E front \in Seq(Bytes) : bytes = front \o piece

\* The calls that have failed in the echo of c.
FailedOf(c) == {call \in {"send", "read"} : <<c, call>> \in failed}

\* Where the packet of a client is: while it is written at the end of all that the device
\* has been given, then in the contents, at last in what the client was sent.
PacketAt(c) ==
  /\ worker[c] = "use" =>
       EndsIn(Contents \o partial, FlattenSeq(SubSeq(Script[c], 1, written[c])))
  /\ worker[c] \in {"unlock", "echo"} \cup Served /\ PacketWritten(c) =>
       Holds(Contents, FlattenSeq(Script[c]))
  /\ worker[c] \in Served /\ PacketWritten(c) /\ FailedOf(c) = {} =>
       Holds(echo[c], FlattenSeq(Script[c]))

\* Until an eviction the log holds every command that has been written.
EchoInv ==
  build = "device" =>
    /\ \A s \in Stampers : stamper[s] = "absent"
    /\ NoEviction =>
         /\ Len(log) = Cardinality(Commands)
         /\ \A c \in Clients : "send" \notin FailedOf(c) => EchoedFrom(c)
         /\ "write" \notin Faults => \A c \in Clients : PacketAt(c)

----------------------------------------------------------------------------
(* The steps that move no data.                                            *)

CalmMove(c) ==
  /\ \/ worker'[c] = worker[c] \/ worker'[c] = "cut"
     \/ worker[c] \in Fresh /\ worker'[c] \in Fresh
     \/ worker[c] = "open" /\ worker'[c] = "use" /\ got[c] > 0 /\ file_fd'[c]
     \/ worker[c] = "open" /\ worker'[c] = "unlock"
     \/ worker[c] = "unlock" /\ worker'[c] = "echo"
     \/ worker[c] = "unlock" /\ worker'[c] = "close" /\ ~file_fd[c]
     \/ worker[c] \in Served /\ worker'[c] \in Served
  /\ worker'[c] \in {"use", "unlock"} /\ file_fd[c] => file_fd'[c]

Calm ==
  /\ \A c \in Clients : CalmMove(c)
  /\ file_fd' \in [Clients -> BOOLEAN]
  /\ UNCHANGED <<build, log, partial, order, got, written, f_pos, echo, failed>>

\* One worker moves, and nobody's file is closed.
LEMMA OneCalmMove ==
  ASSUME worker \in [Clients -> Workers], file_fd \in [Clients -> BOOLEAN],
         NEW c \in Clients, NEW to, worker' = [worker EXCEPT ![c] = to],
         \/ UNCHANGED file_fd
         \/ file_fd' = [file_fd EXCEPT ![c] = TRUE],
         CalmMove(c),
         UNCHANGED <<build, log, partial, order, got, written, f_pos, echo, failed>>
  PROVE  Calm
  <1>1. ASSUME NEW d \in Clients, d # c PROVE CalmMove(d)
    BY <1>1 DEF CalmMove
  <1>2. file_fd' \in [Clients -> BOOLEAN]
    OBVIOUS
  <1> QED BY <1>1, <1>2 DEF Calm

LEMMA WorkersCalm ==
  ASSUME ServerInv, DataInv, NEW c \in Clients,
         \/ Connect(c) \/ RecvEnds(c) \/ LockFile(c) \/ OpenFile(c) \/ NoFile(c) \/ UnlockFile(c)
         \/ CloseClient(c) \/ SetDone(c) \/ ThreadEnds(c)
  PROVE  Calm
  <1>0. worker \in [Clients -> Workers] /\ file_fd \in [Clients -> BOOLEAN]
    BY DEF ServerInv, ServerTypes, DataInv, DataTypes
  <1>1. UNCHANGED <<build, log, partial, order, got, written, f_pos, echo, failed>>
    BY DEF Connect, RecvEnds, LockFile, OpenFile, NoFile, UnlockFile, Unlock, CloseClient, SetDone,
           ThreadEnds, Done, GoOn, Go, workVars, fileVars, packetVars, outerVars
  <1>2. CASE Connect(c)
    <2>1. worker[c] = "absent" /\ worker' = [worker EXCEPT ![c] = "waiting"] /\ UNCHANGED file_fd
      BY <1>2 DEF Connect, workVars, fileVars
    <2>2. CalmMove(c)
      BY <1>0, <2>1 DEF CalmMove, Fresh
    <2> QED BY <1>0, <1>1, <2>1, <2>2, OneCalmMove
  <1>3. CASE RecvEnds(c) \/ LockFile(c)
    <2>1. PICK to \in {"lock", "open"} : worker' = [worker EXCEPT ![c] = to]
      BY <1>3 DEF RecvEnds, LockFile, GoOn, Go
    <2>2. worker[c] \in {"recv", "lock"} /\ UNCHANGED file_fd
      BY <1>3 DEF RecvEnds, LockFile, GoOn, Go, fileVars
    <2>3. CalmMove(c)
      BY <1>0, <2>1, <2>2 DEF CalmMove, Fresh
    <2> QED BY <1>0, <1>1, <2>1, <2>2, <2>3, OneCalmMove
  <1>4. CASE OpenFile(c)
    <2>1. /\ worker[c] = "open" /\ worker' = [worker EXCEPT ![c] = "use"] /\ got[c] > 0
          /\ file_fd' = [file_fd EXCEPT ![c] = TRUE]
      BY <1>4 DEF OpenFile, Go
    <2>2. CalmMove(c)
      BY <1>0, <2>1 DEF CalmMove
    <2> QED BY <1>0, <1>1, <2>1, <2>2, OneCalmMove
  <1>5. CASE NoFile(c)
    <2>1. worker[c] = "open" /\ worker' = [worker EXCEPT ![c] = "unlock"] /\ UNCHANGED file_fd
      BY <1>5 DEF NoFile, GoOn, Go, fileVars
    <2>2. CalmMove(c)
      BY <1>0, <2>1 DEF CalmMove
    <2> QED BY <1>0, <1>1, <2>1, <2>2, OneCalmMove
  <1>6. CASE UnlockFile(c)
    <2>1. PICK to : to = IF file_fd[c] THEN "echo" ELSE "close"
      OBVIOUS
    <2>2. worker[c] = "unlock" /\ worker' = [worker EXCEPT ![c] = to] /\ UNCHANGED file_fd
      BY <1>6, <2>1 DEF UnlockFile, Unlock, Go, fileVars
    <2>3. CalmMove(c)
      BY <1>0, <2>1, <2>2 DEF CalmMove
    <2> QED BY <1>0, <1>1, <2>2, <2>3, OneCalmMove
  <1>7. CASE CloseClient(c) \/ SetDone(c) \/ ThreadEnds(c)
    <2>1. PICK to \in Served : worker' = [worker EXCEPT ![c] = to]
      BY <1>7 DEF CloseClient, SetDone, ThreadEnds, Done, GoOn, Go, Served
    <2>2. worker[c] \in Served /\ UNCHANGED file_fd
      BY <1>7 DEF CloseClient, SetDone, ThreadEnds, Done, GoOn, Go, Served, fileVars
    <2>3. CalmMove(c)
      BY <1>0, <2>1, <2>2 DEF CalmMove, Served
    <2> QED BY <1>0, <1>1, <2>1, <2>2, <2>3, OneCalmMove
  <1> QED BY <1>2, <1>3, <1>4, <1>5, <1>6, <1>7

LEMMA OthersCalm ==
  ASSUME ServerInv, DataInv,
         \/ Main \/ MainAcceptFails \/ Signal \/ NoMemory \/ Restart
         \/ \E c \in Clients : EchoKills(c)
         \/ \E s \in Stampers : StamperStarts(s) \/ StamperLocks(s) \/ StamperFails(s) \/ StamperUnlocks(s)
         \/ UNCHANGED vars
  PROVE  Calm
  <1>0. /\ worker \in [Clients -> Workers] /\ file_fd \in [Clients -> BOOLEAN]
        /\ UNCHANGED <<worker, file_fd>> => file_fd' \in [Clients -> BOOLEAN] /\ \A c \in Clients : CalmMove(c)
    BY DEF ServerInv, ServerTypes, DataInv, DataTypes, CalmMove
  <1>1. CASE \/ MainStart \/ MainStartFails \/ MainCheck \/ MainBlock \/ MainExitCheck \/ MainAppend
             \/ MainUnlink \/ MainSkip \/ MainJoin \/ MainReaped \/ MainAcceptFails \/ Signal
             \/ NoMemory \/ \E c \in Clients : EchoKills(c)
    <2>1. UNCHANGED <<worker, workVars>>
      BY <1>1 DEF MainStart, MainStartFails, MainCheck, MainBlock, MainExitCheck, MainAppend,
                  AppendAndReap, MainUnlink, MainSkip, StepOn, MainJoin, FreeArg, MainReaped,
                  MainAcceptFails, Signal, NoMemory, EchoKills, Dies, MainGo
    <2> QED BY <1>0, <2>1 DEF Calm, workVars, packetVars, fileVars, outerVars
  <1>2. CASE MainCreate \/ MainCreateFails \/ \E c \in Clients : MainAccept(c)
    <2>1. PICK c \in Clients : /\ worker[c] \in {"waiting", "accepted"}
                               /\ \E to \in Fresh : worker' = [worker EXCEPT ![c] = to]
      <3>1. CASE MainCreate \/ MainCreateFails
        <4>1. client_fd \in Clients /\ worker[client_fd] = "accepted"
          BY <3>1 DEF MainCreate, MainCreateFails, MainGo, ServerInv, AcceptInv
        <4> QED BY <3>1, <4>1 DEF MainCreate, MainCreateFails, NewArg, Fresh
      <3>2. CASE \E c \in Clients : MainAccept(c)
        BY <3>2 DEF MainAccept, Fresh
      <3> QED BY <1>2, <3>1, <3>2
    <2>2. UNCHANGED workVars
      BY <1>2 DEF MainCreate, MainCreateFails, MainAccept, MainGo
    <2>3. PICK to \in Fresh : worker' = [worker EXCEPT ![c] = to]
      BY <2>1
    <2>4. UNCHANGED <<file_fd, build, log, partial, order, got, written, f_pos, echo, failed>>
      BY <2>2 DEF workVars, packetVars, fileVars, outerVars
    <2>5. CalmMove(c)
      BY <1>0, <2>1, <2>3, <2>4 DEF CalmMove, Fresh
    <2> QED BY <1>0, <2>3, <2>4, <2>5, OneCalmMove
  <1>3. CASE Restart
    <2>1. UNCHANGED <<build, log, partial, order, got, written, f_pos, echo, failed>>
      BY <1>3 DEF Restart, packetVars
    <2>2. file_fd' \in [Clients -> BOOLEAN]
      BY <1>3 DEF Restart, OfAll
    <2>3. ASSUME NEW c \in Clients PROVE CalmMove(c)
      BY <1>3 DEF Restart, CalmMove, Stopped
    <2> QED BY <2>1, <2>2, <2>3 DEF Calm
  <1>4. CASE \E s \in Stampers :
               StamperStarts(s) \/ StamperLocks(s) \/ StamperFails(s) \/ StamperUnlocks(s)
    <2>1. UNCHANGED <<worker, packetVars, fileVars, log, partial, build, order>>
      BY <1>4 DEF StamperStarts, StamperLocks, StamperFails, StamperUnlocks, Stamp
    <2> QED BY <1>0, <2>1 DEF Calm, packetVars, fileVars
  <1>5. CASE UNCHANGED vars
    <2>1. UNCHANGED <<worker, workVars>>
      BY <1>5 DEF vars
    <2> QED BY <1>0, <2>1 DEF Calm, workVars, packetVars, fileVars, outerVars
  <1> QED BY <1>1, <1>2, <1>3, <1>4, <1>5 DEF Main

\* findCommand is given what has been received.
LEMMA FoundStays ==
  ASSUME NEW c, got'[c] = got[c]
  PROVE  Found(c)' = Found(c)
  BY DEF Found, Received

LEMMA CalmKeepsData ==
  ASSUME ServerInv, DataInv, Calm
  PROVE  DataInv'
  <1>1. DataTypes'
    BY DEF DataInv, DataTypes, Calm
  <1>2. ASSUME NEW c \in Clients PROVE Progress(c)'
    <2>1. Found(c)' = Found(c)
      BY FoundStays DEF Calm
    <2>2. CalmMove(c) /\ UNCHANGED <<got, written, f_pos, echo>> /\ Progress(c)
      BY DEF Calm, DataInv
    <2>3. written[c] \in Nat /\ got[c] \in Nat
      BY DEF DataInv, DataTypes
    <2> QED BY <2>1, <2>2, <2>3 DEF Progress, CalmMove, Fresh, Served
  <1> QED BY <1>1, <1>2 DEF DataInv

----------------------------------------------------------------------------
(* The steps that move data.                                               *)

LEMMA ScriptType ==
  /\ \A c \in Clients : Script[c] \in Seq(Seq(Bytes)) /\ Len(Script[c]) \in Nat \ {0}
  /\ \A c \in Clients : \A k \in 1 .. Len(Script[c]) : Script[c][k] \in Seq(Bytes)
  /\ MaxOps \in Nat \ {0} /\ ReadSize \in Nat \ {0}
  <1>1. PICK V : V = Seq(Bytes)
    OBVIOUS
  <1>2. ASSUME NEW s, s \in Seq(V), s # <<>>
        PROVE  Len(s) \in Nat \ {0} /\ \A k \in 1 .. Len(s) : s[k] \in V
    BY <1>2
  <1> QED BY <1>1, <1>2, ScriptAssumption, NumbersAssumption

LEMMA ReceivedType ==
  ASSUME NEW c \in Clients, got[c] \in Nat, got[c] <= Len(Script[c])
  PROVE  Received(c) \in Seq(Seq(Bytes))
  <1>1. PICK V : V = Seq(Bytes)
    OBVIOUS
  <1>2. PICK s : s = Script[c]
    OBVIOUS
  <1>3. s \in Seq(V) /\ Len(s) \in Nat
    BY <1>1, <1>2, ScriptType
  <1>4. SubSeq(s, 1, got[c]) \in Seq(V)
    BY <1>2, <1>3
  <1> QED BY <1>1, <1>2, <1>4 DEF Received

LEMMA ContentsType == ASSUME log \in Seq(Seq(Bytes)) PROVE Contents \in Seq(Bytes) /\ Len(Contents) \in Nat
  <1>1. Contents \in Seq(Bytes)
    BY FlattenLayout DEF Contents
  <1> QED BY <1>1

\* The device's ioctl puts the position at a number.
LEMMA SeekPositionsNat ==
  ASSUME DataInv, NEW c \in Clients
  PROVE  SeekPositions(c) \subseteq Nat
  <1>1. log \in Seq(Seq(Bytes)) /\ got[c] \in Nat /\ got[c] <= Len(Script[c]) /\ Len(log) \in Nat
    BY DEF DataInv, DataTypes, Progress
  <1>2. Found(c) \subseteq SeekNumbers
    BY <1>1, ReceivedType, FindCommandType DEF Found
  <1>3. ASSUME NEW t \in Found(c), t.write_cmd <= Len(log)
        PROVE  Len(FlattenSeq(SubSeq(log, 1, t.write_cmd))) + t.write_cmd_offset \in Nat
    <2>1. t.write_cmd \in Nat /\ t.write_cmd_offset \in Nat
      BY <1>2 DEF SeekNumbers
    <2>2. t.write_cmd \in 0 .. Len(log)
      BY <1>1, <1>3, <2>1
    <2>3. Len(FlattenSeq(SubSeq(log, 1, t.write_cmd))) \in Nat
      BY <1>1, <2>2, BeginningSizes
    <2> QED BY <2>1, <2>3
  <1> QED BY <1>3 DEF SeekPositions

\* end is where a read of the echo of c stops at the latest: the end of the command that
\* holds the position.
StopsAt(c, end) ==
  /\ end \in {Len(FlattenSeq(SubSeq(log, 1, i))) : i \in 1 .. Len(log)}
  /\ f_pos[c] < end
  /\ \A i \in 1 .. Len(log) :
       f_pos[c] < Len(FlattenSeq(SubSeq(log, 1, i))) => end <= Len(FlattenSeq(SubSeq(log, 1, i)))

LEMMA ReadStops ==
  ASSUME log \in Seq(Seq(Bytes)), NEW c, f_pos[c] \in Nat, f_pos[c] < Len(Contents)
  PROVE  \E end \in Nat : /\ StopsAt(c, end) /\ end <= Len(Contents)
                          /\ ReadTo(c) = IF end < f_pos[c] + ReadSize THEN end ELSE f_pos[c] + ReadSize
  <1> DEFINE ends == {Len(FlattenSeq(SubSeq(log, 1, i))) : i \in 1 .. Len(log)}
             Is(e) == f_pos[c] < e /\ \A d \in ends : f_pos[c] < d => e <= d
             later == {e \in ends : f_pos[c] < e}
  <1>1. Len(log) \in Nat /\ Len(Contents) \in Nat /\ ReadSize \in Nat \ {0}
    BY ContentsType, ScriptType
  <1>2. \A e \in ends : e \in Nat /\ e <= Len(Contents)
    <2>1. \A i \in 0 .. Len(log) : /\ Len(FlattenSeq(SubSeq(log, 1, i))) \in Nat
                                   /\ Len(FlattenSeq(SubSeq(log, 1, i))) <= Len(FlattenSeq(log))
      BY BeginningSizes
    <2>2. \A i \in 1 .. Len(log) : i \in 0 .. Len(log)
      BY <1>1
    <2> QED BY <2>1, <2>2, Zenon DEF Contents
  <1>3. Len(log) # 0
    <2> SUFFICES ASSUME Len(log) = 0 PROVE FALSE
      OBVIOUS
    <2>1. PICK b : Joins(b, Bytes, log, Len(log)) /\ b[Len(log)] = FlattenSeq(log)
      BY FlattenBeginnings
    <2>2. FlattenSeq(log) = <<>>
      BY <2>1 DEF Joins
    <2> QED BY <2>2 DEF Contents
  <1>4. Len(Contents) \in ends
    <2>1. SubSeq(log, 1, Len(log)) = log /\ Len(log) \in 1 .. Len(log)
      BY <1>1, <1>3
    <2> QED BY <2>1 DEF Contents
  <1> HIDE DEF ends
  <1>5. \E e \in ends : Is(e)
    <2>1. later \subseteq Nat /\ later # {}
      BY <1>2, <1>4
    <2>2. PICK e \in later : \A d \in later : e <= d
      BY <2>1, NatHasLeast
    <2> QED BY <2>2
  <1> DEFINE end == CHOOSE e \in ends : Is(e)
  <1>6. end \in ends /\ Is(end)
    <2> HIDE DEF Is
    <2> QED BY <1>5
  <1>7. EndOfCommand(f_pos[c]) = end
    BY DEF EndOfCommand, ends
  <1> HIDE DEF end
  <1>8. end \in Nat /\ f_pos[c] < end /\ end <= Len(Contents)
    BY <1>2, <1>6
  <1>9. ReadTo(c) = IF end < f_pos[c] + ReadSize THEN end ELSE f_pos[c] + ReadSize
    BY <1>7 DEF ReadTo, Least
  <1>10. StopsAt(c, end)
    BY <1>6 DEF StopsAt, ends
  <1> QED BY <1>8, <1>9, <1>10

\* A read of the echo returns at least one byte, and none behind the newest.
LEMMA ReadToInside ==
  ASSUME log \in Seq(Seq(Bytes)), NEW c, f_pos[c] \in Nat, f_pos[c] < Len(Contents)
  PROVE  ReadTo(c) \in Nat /\ f_pos[c] < ReadTo(c) /\ ReadTo(c) <= Len(Contents)
  <1>1. ReadSize \in Nat \ {0} /\ Len(Contents) \in Nat
    BY ContentsType, NumbersAssumption
  <1>2. PICK end \in Nat : /\ StopsAt(c, end) /\ end <= Len(Contents)
                           /\ ReadTo(c) = IF end < f_pos[c] + ReadSize THEN end ELSE f_pos[c] + ReadSize
    BY ReadStops
  <1>3. f_pos[c] < end
    BY <1>2 DEF StopsAt
  <1>4. PICK f, r, l, z : f = f_pos[c] /\ r = ReadTo(c) /\ l = Len(Contents) /\ z = ReadSize
    OBVIOUS
  <1>5. /\ f \in Nat /\ z \in Nat \ {0} /\ l \in Nat /\ f < end /\ end <= l
        /\ r = IF end < f + z THEN end ELSE f + z
    BY <1>1, <1>2, <1>3, <1>4
  <1>6. r \in Nat /\ f < r /\ r <= l
    BY <1>5
  <1> QED BY <1>4, <1>6

\* What a write does: chunk, which is chunk k of client c, goes to the device or the file.
WriteStep(c, k, chunk) ==
  /\ k \in 1 .. got[c] /\ k = written[c] + 1 /\ chunk = Script[c][k]
  /\ worker[c] = "use" /\ Found(c) = {}
  /\ worker' = [worker EXCEPT ![c] = IF k = got[c] THEN "unlock" ELSE "use"]
  /\ written' = [written EXCEPT ![c] = k]
  /\ order' = Append(order, <<c, k>>)
  /\ UNCHANGED <<build, got, f_pos, echo, failed, file_fd, stamper, file_mutex>>
  /\ \/ build = "file" /\ UNCHANGED <<log, partial>>
     \/ /\ build = "device" /\ HasNewline(chunk)
        /\ log' = IF Len(log) < MaxOps THEN Append(log, partial \o chunk)
                                       ELSE Append(Tail(log), partial \o chunk)
        /\ partial' = <<>>
     \/ /\ build = "device" /\ ~HasNewline(chunk)
        /\ partial' = partial \o chunk /\ log' = log

LEMMA WriteIsStep ==
  ASSUME ServerInv, DataInv, NEW c \in Clients, WriteChunk(c)
  PROVE  \E k, chunk : WriteStep(c, k, chunk) /\ chunk \in Seq(Bytes)
  <1> DEFINE k == written[c] + 1
  <1>1. /\ worker[c] = "use" /\ Found(c) = {}
        /\ worker' = [worker EXCEPT ![c] = IF k = got[c] THEN "unlock" ELSE "use"]
        /\ written' = [written EXCEPT ![c] = k]
        /\ UNCHANGED <<got, file_fd, echo, failed, stamper, build>>
    BY DEF WriteChunk, WriteNode, TakeNode, Go
  <1>2. order' = Append(order, <<c, k>>) /\ UNCHANGED <<f_pos, file_mutex>>
    BY DEF WriteChunk, WriteNode
  <1>3. k \in 1 .. got[c] /\ Script[c][k] \in Seq(Bytes)
    <2>1. written[c] \in Nat /\ got[c] \in Nat /\ written[c] < got[c] /\ got[c] <= Len(Script[c])
      BY <1>1 DEF DataInv, DataTypes, Progress
    <2>2. k \in 1 .. got[c] /\ k \in 1 .. Len(Script[c])
      BY <2>1, ScriptType
    <2> QED BY <2>2, ScriptType
  <1>4. build \in {"device", "file"}
    BY DEF DataInv, DataTypes
  <1>5. \/ build = "file" /\ UNCHANGED <<log, partial>>
        \/ /\ build = "device" /\ HasNewline(Script[c][k])
           /\ log' = IF Len(log) < MaxOps THEN Append(log, partial \o Script[c][k])
                                          ELSE Append(Tail(log), partial \o Script[c][k])
           /\ partial' = <<>>
        \/ /\ build = "device" /\ ~HasNewline(Script[c][k])
           /\ partial' = partial \o Script[c][k] /\ log' = log
    BY <1>4 DEF WriteChunk, WriteNode, Device!Remember
  <1> HIDE DEF k
  <1>6. WriteStep(c, k, Script[c][k])
    BY <1>1, <1>2, <1>3, <1>5 DEF WriteStep, k
  <1> QED BY <1>3, <1>6

\* The log remembers one more command, and no more than MaxOps.
LEMMA RememberType ==
  ASSUME log \in Seq(Seq(Bytes)), Len(log) <= MaxOps, NEW data, data \in Seq(Bytes),
         NEW new, new = IF Len(log) < MaxOps THEN Append(log, data) ELSE Append(Tail(log), data)
  PROVE  new \in Seq(Seq(Bytes)) /\ Len(new) <= MaxOps
  <1>1. PICK V : V = Seq(Bytes)
    OBVIOUS
  <1>2. log \in Seq(V) /\ data \in V /\ Len(log) \in Nat /\ MaxOps \in Nat \ {0}
    BY <1>1, ScriptType
  <1>3. CASE Len(log) < MaxOps
    <2>1. new \in Seq(V) /\ Len(new) <= MaxOps
      BY <1>2, <1>3
    <2> QED BY <1>1, <2>1
  <1>4. CASE Len(log) = MaxOps
    <2>1. log # <<>>
      BY <1>2, <1>4
    <2>2. Tail(log) \in Seq(V) /\ Len(Tail(log)) = Len(log) - 1
      BY <1>2, <2>1
    <2>3. new \in Seq(V) /\ Len(new) <= MaxOps
      BY <1>2, <1>4, <2>2
    <2> QED BY <1>1, <2>3
  <1> QED BY <1>2, <1>3, <1>4

LEMMA WriteTypes ==
  ASSUME DataTypes, NEW c \in Clients, NEW k, NEW chunk, chunk \in Seq(Bytes), WriteStep(c, k, chunk)
  PROVE  DataTypes'
  <1>1. log \in Seq(Seq(Bytes)) /\ Len(log) <= MaxOps /\ partial \in Seq(Bytes)
        /\ partial \o chunk \in Seq(Bytes) /\ <<>> \in Seq(Bytes)
    BY DEF DataTypes
  <1>2. log' \in Seq(Seq(Bytes)) /\ Len(log') <= MaxOps /\ partial' \in Seq(Bytes)
    <2>1. \/ log' = log /\ (partial' = partial \/ partial' = partial \o chunk)
          \/ /\ log' = IF Len(log) < MaxOps THEN Append(log, partial \o chunk)
                                            ELSE Append(Tail(log), partial \o chunk)
             /\ partial' = <<>>
      BY DEF WriteStep
    <2>2. CASE log' = log
      BY <1>1, <2>1, <2>2
    <2>3. CASE log' # log
      <3>1. log' \in Seq(Seq(Bytes)) /\ Len(log') <= MaxOps
        BY <1>1, <2>1, <2>3, RememberType
      <3> QED BY <1>1, <2>1, <2>3, <3>1
    <2> QED BY <2>2, <2>3
  <1>3. k \in Nat /\ written' = [written EXCEPT ![c] = k] /\ UNCHANGED <<build, got, f_pos, echo, file_fd>>
    BY DEF WriteStep, DataTypes
  <1> QED BY <1>2, <1>3 DEF DataTypes

LEMMA WriteKeepsData ==
  ASSUME ServerInv, DataInv, NEW c \in Clients, NEW k, NEW chunk, chunk \in Seq(Bytes),
         WriteStep(c, k, chunk)
  PROVE  DataInv'
  <1>1. DataTypes'
    BY WriteTypes DEF DataInv
  <1>2. ASSUME NEW d \in Clients PROVE Progress(d)'
    <2>1. Found(d)' = Found(d)
      BY FoundStays DEF WriteStep
    <2>2. UNCHANGED <<got, f_pos, echo, file_fd>> /\ Progress(d)
          /\ worker' = [worker EXCEPT ![c] = IF k = got[c] THEN "unlock" ELSE "use"]
          /\ written' = [written EXCEPT ![c] = k] /\ k \in 1 .. got[c]
          /\ worker[c] = "use" /\ Found(c) = {}
      BY DEF WriteStep, DataInv
    <2>3. /\ written \in [Clients -> Nat] /\ got \in [Clients -> Nat]
          /\ worker \in [Clients -> Workers]
      BY DEF DataInv, DataTypes, ServerInv, ServerTypes
    <2>4. CASE d # c
      <3>1. worker'[d] = worker[d] /\ written'[d] = written[d]
        BY <2>2, <2>3, <2>4
      <3> QED BY <2>1, <2>2, <3>1 DEF Progress
    <2>5. CASE d = c
      <3>1. worker'[d] = (IF k = got[c] THEN "unlock" ELSE "use") /\ written'[d] = k
        BY <2>2, <2>3, <2>5
      <3>2. k \in Nat /\ got[c] \in Nat /\ k > 0 /\ k <= got[c] /\ file_fd[c] /\ got[c] <= Len(Script[c])
            /\ f_pos[c] = 0 /\ echo[c] = <<>>
        BY <2>2, <2>3, <2>5 DEF Progress
      <3> QED BY <2>1, <2>2, <2>5, <3>1, <3>2 DEF Progress, Fresh
    <2> QED BY <2>4, <2>5
  <1> QED BY <1>1, <1>2 DEF DataInv

\* A worker that receives, seeks, passes over a node or echoes: the others' data stay.
LEMMA OthersProgress ==
  ASSUME ServerInv, DataInv, NEW c \in Clients, NEW d \in Clients, d # c,
         NEW to, worker' = [worker EXCEPT ![c] = to],
         got'[d] = got[d], written'[d] = written[d], f_pos'[d] = f_pos[d], echo'[d] = echo[d],
         file_fd'[d] = file_fd[d]
  PROVE  Progress(d)'
  <1>1. Found(d)' = Found(d)
    BY FoundStays
  <1>2. worker'[d] = worker[d] /\ Progress(d)
    BY DEF ServerInv, ServerTypes, DataInv
  <1> QED BY <1>1, <1>2 DEF Progress

LEMMA RecvKeepsData == ASSUME ServerInv, DataInv, NEW c \in Clients, Recv(c) PROVE DataInv'
  <1>1. /\ got[c] < Len(Script[c]) /\ worker[c] = "recv"
        /\ got' = [got EXCEPT ![c] = @ + 1]
        /\ UNCHANGED <<build, written, f_pos, echo, file_fd, log, partial>>
    BY DEF Recv, Go, fileVars
  <1>2. PICK to \in {"lock", "recv"} : worker' = [worker EXCEPT ![c] = to]
    BY DEF Recv, Go
  <1>3. DataTypes'
    BY <1>1 DEF DataInv, DataTypes
  <1>4. Progress(c)'
    <2>1. /\ worker'[c] = to /\ got'[c] = got[c] + 1 /\ got[c] \in Nat /\ written[c] = 0
          /\ f_pos[c] = 0 /\ echo[c] = <<>> /\ Len(Script[c]) \in Nat
      BY <1>1, <1>2, ScriptType DEF DataInv, DataTypes, Progress, Fresh, ServerInv, ServerTypes
    <2> QED BY <1>1, <2>1 DEF Progress
  <1>5. ASSUME NEW d \in Clients, d # c PROVE Progress(d)'
    BY <1>1, <1>2, <1>5, OthersProgress DEF DataInv, DataTypes
  <1> QED BY <1>3, <1>4, <1>5 DEF DataInv

LEMMA SeekKeepsData == ASSUME ServerInv, DataInv, NEW c \in Clients, Seek(c) PROVE DataInv'
  <1>1. /\ worker[c] = "use" /\ Found(c) # {} /\ worker' = [worker EXCEPT ![c] = "unlock"]
        /\ UNCHANGED <<build, got, written, echo, file_fd, log, partial>>
    BY DEF Seek, Go, packetVars
  <1>2. \/ UNCHANGED f_pos
        \/ \E pos \in SeekPositions(c) : f_pos' = [f_pos EXCEPT ![c] = pos]
    BY DEF Seek
  <1>3. DataTypes'
    <2>1. f_pos' \in [Clients -> Nat]
      BY <1>2, SeekPositionsNat DEF DataInv, DataTypes
    <2> QED BY <1>1, <2>1 DEF DataInv, DataTypes
  <1>4. Progress(c)'
    <2>1. worker'[c] = "unlock" /\ Progress(c) /\ Found(c)' = Found(c) /\ written[c] \in Nat
      BY <1>1, FoundStays DEF DataInv, DataTypes, ServerInv, ServerTypes
    <2> QED BY <1>1, <2>1 DEF Progress, Fresh
  <1>5. ASSUME NEW d \in Clients, d # c PROVE Progress(d)'
    BY <1>1, <1>2, <1>5, OthersProgress DEF DataInv, DataTypes
  <1> QED BY <1>3, <1>4, <1>5 DEF DataInv

LEMMA WriteFailsKeepsData == ASSUME ServerInv, DataInv, NEW c \in Clients, WriteFails(c) PROVE DataInv'
  <1>1. /\ worker[c] = "use" /\ Found(c) = {}
        /\ worker' = [worker EXCEPT ![c] = IF written[c] + 1 = got[c] THEN "unlock" ELSE "use"]
        /\ written' = [written EXCEPT ![c] = @ + 1]
        /\ UNCHANGED <<build, got, f_pos, echo, file_fd, log, partial>>
    BY DEF WriteFails, TakeNode, Go
  <1>2. PICK to : to = IF written[c] + 1 = got[c] THEN "unlock" ELSE "use"
    OBVIOUS
  <1>3. DataTypes'
    BY <1>1 DEF DataInv, DataTypes
  <1>4. Progress(c)'
    <2>1. /\ worker'[c] = to /\ written'[c] = written[c] + 1 /\ Progress(c) /\ Found(c)' = Found(c)
          /\ written[c] \in Nat /\ got[c] \in Nat
      BY <1>1, <1>2, FoundStays DEF DataInv, DataTypes, ServerInv, ServerTypes
    <2>2. written[c] + 1 <= got[c] /\ (to = "use" => written[c] + 1 < got[c])
      BY <1>1, <1>2, <2>1 DEF Progress
    <2> QED BY <1>1, <1>2, <2>1, <2>2 DEF Progress, Fresh
  <1>5. ASSUME NEW d \in Clients, d # c PROVE Progress(d)'
    BY <1>1, <1>2, <1>5, OthersProgress DEF DataInv, DataTypes
  <1> QED BY <1>3, <1>4, <1>5 DEF DataInv

\* What a read and its send do: the bytes up to position to are sent, which are all that
\* were read unless the send failed.
SendStep(c, to) ==
  /\ worker[c] = "echo" /\ worker' = [worker EXCEPT ![c] = "echo"]
  /\ f_pos[c] < Len(Contents)
  /\ f_pos' = [f_pos EXCEPT ![c] = ReadTo(c)]
  /\ echo' = [echo EXCEPT ![c] = @ \o SubSeq(Contents, f_pos[c] + 1, to)]
  /\ UNCHANGED <<build, got, written, log, partial, order, file_fd>>
  /\ to \in Nat /\ f_pos[c] <= to /\ to <= ReadTo(c)
  /\ \/ to = ReadTo(c) /\ UNCHANGED failed
     \/ failed' = failed \cup {<<c, "send">>}

LEMMA EchoIsStep ==
  ASSUME DataInv, NEW c \in Clients, Echo(c) \/ EchoCut(c)
  PROVE  \E to : SendStep(c, to)
  <1>1. PICK to : /\ ReadAndSend(c, to, ReadTo(c))
                  /\ \/ to = ReadTo(c) /\ UNCHANGED failed
                     \/ to \in f_pos[c] .. (ReadTo(c) - 1) /\ failed' = failed \cup {<<c, "send">>}
    BY DEF Echo, EchoCut
  <1>2. f_pos[c] < Len(Contents) /\ f_pos[c] \in Nat /\ log \in Seq(Seq(Bytes))
    BY <1>1 DEF ReadAndSend, DataInv, DataTypes
  <1>3. PICK r : r = ReadTo(c)
    OBVIOUS
  <1>4. r \in Nat /\ f_pos[c] < r
    BY <1>2, <1>3, ReadToInside
  <1>5. to \in Nat /\ f_pos[c] <= to /\ to <= r
    BY <1>1, <1>2, <1>3, <1>4
  <1> QED BY <1>1, <1>3, <1>5 DEF SendStep, ReadAndSend, Go, packetVars

LEMMA EchoKeepsData ==
  ASSUME ServerInv, DataInv, NEW c \in Clients,
         Echo(c) \/ EchoCut(c) \/ EchoEnds(c) \/ ReadFails(c)
  PROVE  DataInv'
  <1>1. /\ worker[c] = "echo"
        /\ UNCHANGED <<build, got, written, log, partial>>
        /\ \E to \in {"echo", "close"} : worker' = [worker EXCEPT ![c] = to]
    BY DEF Echo, EchoCut, ReadAndSend, EchoEnds, ReadFails, CloseFile, Go, packetVars
  <1>2. PICK to \in {"echo", "close"} : worker' = [worker EXCEPT ![c] = to]
    BY <1>1
  <1>3. /\ \/ UNCHANGED <<f_pos, echo>>
           \/ \E sent : SendStep(c, sent)
        /\ file_fd' = file_fd \/ file_fd' = [file_fd EXCEPT ![c] = FALSE]
    BY EchoIsStep DEF Echo, EchoCut, ReadAndSend, EchoEnds, ReadFails, CloseFile
  <1>4. DataTypes'
    <2>1. DataTypes
      BY DEF DataInv
    <2>2. f_pos' \in [Clients -> Nat] /\ echo' \in [Clients -> Seq(Bytes)]
      <3>1. CASE UNCHANGED <<f_pos, echo>>
        BY <2>1, <3>1 DEF DataTypes
      <3>2. CASE ~UNCHANGED <<f_pos, echo>>
        <4>0. PICK sent : SendStep(c, sent)
          BY <1>3, <3>2
        <4>1. PICK r, f, w : r = ReadTo(c) /\ f = f_pos[c] /\ w = Contents
          OBVIOUS
        <4>2. /\ r \in Nat /\ f < r /\ r <= Len(w) /\ f \in Nat /\ w \in Seq(Bytes)
              /\ sent \in Nat /\ f <= sent /\ sent <= r
          BY <2>1, <4>0, <4>1, ReadToInside, ContentsType DEF DataTypes, SendStep
        <4>3. SubSeq(w, f + 1, sent) \in Seq(Bytes)
          BY <4>2
        <4>4. echo[c] \in Seq(Bytes) /\ f_pos \in [Clients -> Nat] /\ echo \in [Clients -> Seq(Bytes)]
          BY <2>1 DEF DataTypes
        <4>5. echo[c] \o SubSeq(w, f + 1, sent) \in Seq(Bytes)
          BY <4>3, <4>4
        <4>6. PICK t : t = echo[c] \o SubSeq(w, f + 1, sent)
          OBVIOUS
        <4>7. f_pos' = [f_pos EXCEPT ![c] = r] /\ echo' = [echo EXCEPT ![c] = t]
          BY <4>0, <4>1, <4>6 DEF SendStep
        <4>8. PICK S : S = Seq(Bytes)
          OBVIOUS
        <4>9. r \in Nat /\ t \in S /\ echo \in [Clients -> S]
          BY <4>2, <4>4, <4>5, <4>6, <4>8
        <4>10. f_pos' \in [Clients -> Nat] /\ echo' \in [Clients -> S]
          BY <4>4, <4>7, <4>9
        <4> QED BY <4>8, <4>10
      <3> QED BY <3>1, <3>2
    <2> QED BY <1>1, <1>3, <2>1, <2>2 DEF DataTypes
  <1>5. Progress(c)'
    <2>1. worker'[c] = to /\ Progress(c) /\ Found(c)' = Found(c)
      BY <1>1, <1>2, FoundStays DEF DataInv, ServerInv, ServerTypes
    <2> QED BY <1>1, <2>1 DEF Progress, Fresh
  <1>6. ASSUME NEW d \in Clients, d # c PROVE Progress(d)'
    <2>1. f_pos'[d] = f_pos[d] /\ echo'[d] = echo[d] /\ file_fd'[d] = file_fd[d]
      BY <1>3, <1>6 DEF SendStep, DataInv, DataTypes
    <2> QED BY <1>1, <1>2, <1>6, <2>1, OthersProgress
  <1> QED BY <1>4, <1>5, <1>6 DEF DataInv

\* A time stamp is no data of a client.
LEMMA StampKeepsData == ASSUME ServerInv, DataInv, NEW s \in Stampers, StamperWrites(s) PROVE DataInv'
  <1>1. UNCHANGED <<worker, got, written, file_fd, f_pos, echo, log, partial, build>>
    BY DEF StamperWrites, Stamp, packetVars, fileVars
  <1>2. ASSUME NEW c \in Clients PROVE Progress(c)'
    <2>1. Found(c)' = Found(c) /\ Progress(c)
      BY <1>1, FoundStays DEF DataInv
    <2> QED BY <1>1, <2>1 DEF Progress
  <1> QED BY <1>1, <1>2 DEF DataInv, DataTypes

LEMMA DataInit == Init => DataInv
  <1> SUFFICES ASSUME Init PROVE DataInv
    OBVIOUS
  <1>1. DataTypes
    <2>1. log \in Seq(Seq(Bytes)) /\ Len(log) <= MaxOps /\ partial \in Seq(Bytes)
      BY ScriptType DEF Init
    <2>2. build \in {"device", "file"}
      BY BuildsAssumption DEF Init
    <2> QED BY <2>1, <2>2 DEF Init, DataTypes, OfAll
  <1>2. ASSUME NEW c \in Clients PROVE Progress(c)
    BY ScriptType DEF Init, OfAll, Progress
  <1> QED BY <1>1, <1>2 DEF DataInv

LEMMA DataStep == ServerInv /\ DataInv /\ [Next]_vars => DataInv'
  <1> SUFFICES ASSUME ServerInv, DataInv, [Next]_vars PROVE DataInv'
    OBVIOUS
  <1>1. CASE \/ Main \/ MainAcceptFails \/ Signal \/ NoMemory \/ Restart \/ UNCHANGED vars
             \/ \E c \in Clients : EchoKills(c)
    BY <1>1, OthersCalm, CalmKeepsData
  <1>2. CASE \E c \in Clients : Connect(c) \/ LockFile(c) \/ Work(c)
    BY <1>2, WorkersCalm, CalmKeepsData, RecvKeepsData, SeekKeepsData, WriteIsStep, WriteKeepsData,
       WriteFailsKeepsData, EchoKeepsData DEF Work
  <1>3. CASE \E s \in Stampers : StamperStarts(s) \/ StamperLocks(s) \/ StampWork(s)
    BY <1>3, OthersCalm, CalmKeepsData, StampKeepsData DEF StampWork
  <1> QED BY <1>1, <1>2, <1>3 DEF Next

----------------------------------------------------------------------------
(* What happens to the echo when nothing is written.                       *)

LEMMA StampersIdle ==
  ASSUME [Next]_vars, build = "device", \A s \in Stampers : stamper[s] = "absent"
  PROVE  build' = build /\ \A s \in Stampers : stamper'[s] = "absent"
  <1>1. CASE Main \/ MainAcceptFails \/ Signal \/ NoMemory \/ \E c \in Clients : EchoKills(c)
    <2>1. UNCHANGED workVars
      BY <1>1 DEF Main, MainStart, MainStartFails, MainCheck, MainBlock, MainAccept, MainExitCheck,
                  MainCreate, MainCreateFails, MainAppend, AppendAndReap, MainUnlink, MainSkip,
                  StepOn, MainJoin, FreeArg, MainReaped, MainAcceptFails, Signal, NoMemory, EchoKills,
                  Dies, MainGo
    <2> QED BY <2>1 DEF workVars, threadVars, outerVars
  <1>2. CASE Restart
    BY <1>2 DEF Restart, Stopped
  <1>3. CASE \E c \in Clients : Connect(c) \/ LockFile(c) \/ Work(c)
    <2>1. PICK c \in Clients : Connect(c) \/ LockFile(c) \/ Work(c)
      BY <1>3
    <2>2. UNCHANGED workVars \/ \E from, to : Go(c, from, to)
      <3>1. CASE Connect(c) \/ LockFile(c) \/ Recv(c) \/ RecvEnds(c) \/ OpenFile(c) \/ NoFile(c) \/ Seek(c)
        BY <3>1 DEF Connect, LockFile, Recv, RecvEnds, OpenFile, NoFile, Seek, GoOn
      <3>2. CASE WriteChunk(c) \/ WriteFails(c) \/ UnlockFile(c)
        BY <3>2 DEF WriteChunk, WriteNode, TakeNode, WriteFails, UnlockFile, Unlock
      <3>3. CASE Echo(c) \/ EchoCut(c) \/ EchoEnds(c) \/ ReadFails(c)
        BY <3>3 DEF Echo, EchoCut, ReadAndSend, EchoEnds, ReadFails, CloseFile
      <3>4. CASE CloseClient(c) \/ SetDone(c) \/ ThreadEnds(c)
        BY <3>4 DEF CloseClient, SetDone, ThreadEnds, Done, GoOn
      <3> QED BY <2>1, <3>1, <3>2, <3>3, <3>4 DEF Work
    <2>3. UNCHANGED <<stamper, build>>
      BY <2>2 DEF Go, workVars, threadVars, outerVars
    <2> QED BY <2>3
  <1>4. CASE \E s \in Stampers : StamperStarts(s) \/ StamperLocks(s) \/ StampWork(s)
    BY <1>4 DEF StamperStarts, StamperLocks, StampWork, StamperWrites, StamperFails, StamperUnlocks, Stamp
  <1>5. CASE UNCHANGED vars
    BY <1>5 DEF vars, workVars, threadVars, outerVars
  <1> QED BY <1>1, <1>2, <1>3, <1>4, <1>5 DEF Next

\* Where a seek may lead depends on what was received and on the log.
LEMMA SeekPositionsStay ==
  ASSUME NEW c, got'[c] = got[c], UNCHANGED <<build, log>>
  PROVE  SeekPositions(c)' = SeekPositions(c)
  <1>1. Found(c)' = Found(c)
    BY FoundStays
  <1> QED BY <1>1 DEF SeekPositions, SizeOf

LEMMA EchoedFromStays ==
  ASSUME NEW c, got'[c] = got[c], f_pos'[c] = f_pos[c], echo'[c] = echo[c], UNCHANGED <<build, log>>,
         EchoedFrom(c)
  PROVE  EchoedFrom(c)'
  <1>1. SeekPositions(c)' = SeekPositions(c)
    BY SeekPositionsStay
  <1> QED BY <1>1 DEF EchoedFrom, EchoStart, Contents

LEMMA CommandsStay ==
  ASSUME UNCHANGED order
  PROVE  Commands' = Commands /\ (NoEviction' <=> NoEviction)
  BY DEF Commands, NoEviction

\* A packet has a chunk, so its client has written.
LEMMA PacketIsWritten ==
  ASSUME NEW c \in Clients, PacketWritten(c)
  PROVE  written[c] > 0 /\ written[c] = Len(Script[c])
  BY ScriptType DEF PacketWritten

LEMMA NothingFlat == \A c \in Clients : FlattenSeq(SubSeq(Script[c], 1, 0)) = <<>>
  <1> SUFFICES ASSUME NEW c \in Clients PROVE FlattenSeq(SubSeq(Script[c], 1, 0)) = <<>>
    OBVIOUS
  <1>1. PICK ss : ss = Script[c]
    OBVIOUS
  <1>2. ss \in Seq(Seq(Bytes)) /\ 0 \in 0 .. Len(ss)
    BY <1>1, ScriptType
  <1>3. Joins(Beginnings(ss), Bytes, ss, Len(ss))
    BY <1>2, FlattenBeginnings
  <1> QED BY <1>1, <1>2, <1>3 DEF Joins, Beginnings

LEMMA CalmKeepsPacketAt ==
  ASSUME ServerInv, DataInv, Calm, NEW c \in Clients, PacketAt(c)
  PROVE  PacketAt(c)'
  <1>1. /\ CalmMove(c) /\ UNCHANGED <<log, partial, written, echo, failed>>
        /\ Progress(c) /\ worker[c] \in Workers
    BY DEF Calm, DataInv, ServerInv, ServerTypes
  <1>2. Contents' = Contents /\ (PacketWritten(c)' <=> PacketWritten(c)) /\ FailedOf(c)' = FailedOf(c)
    BY <1>1 DEF Contents, PacketWritten, FailedOf
  <1>3. written[c] = 0 => EndsIn(Contents \o partial, FlattenSeq(SubSeq(Script[c], 1, written[c])))
    <2> SUFFICES ASSUME written[c] = 0
                 PROVE  EndsIn(Contents \o partial, FlattenSeq(SubSeq(Script[c], 1, 0)))
      OBVIOUS
    <2>1. FlattenSeq(SubSeq(Script[c], 1, 0)) = <<>>
      BY NothingFlat
    <2>2. Contents \o partial \in Seq(Bytes)
      BY ContentsType DEF DataInv, DataTypes
    <2>3. PICK w : w = Contents \o partial
      OBVIOUS
    <2>4. w \in Seq(Bytes) /\ w = w \o <<>>
      BY <2>2, <2>3
    <2>5. EndsIn(w, <<>>)
      BY <2>4 DEF EndsIn
    <2> QED BY <2>1, <2>3, <2>5
  <1>4. worker'[c] = "use" => worker[c] = "use" \/ written[c] = 0
    BY <1>1 DEF CalmMove, Fresh, Served, Progress
  <1>5. written[c] = 0 => ~PacketWritten(c)
    BY PacketIsWritten
  <1>6. worker'[c] \in {"unlock", "echo"} \cup Served =>
          worker[c] \in {"unlock", "echo"} \cup Served \/ written[c] = 0
    BY <1>1 DEF CalmMove, Fresh, Served, Progress
  <1>7. worker'[c] \in Served => worker[c] \in Served \/ written[c] = 0
    <2>1. worker[c] = "unlock" /\ ~file_fd[c] => written[c] = 0
      BY <1>1 DEF Progress, DataInv, DataTypes
    <2> QED BY <1>1, <2>1 DEF CalmMove, Fresh, Served, Progress
  <1> QED BY <1>1, <1>2, <1>3, <1>4, <1>5, <1>6, <1>7 DEF PacketAt

LEMMA CalmKeepsEcho ==
  ASSUME ServerInv, DataInv, EchoInv, Calm, [Next]_vars
  PROVE  EchoInv'
  <1> SUFFICES ASSUME build' = "device" PROVE EchoInv'
    BY DEF EchoInv
  <1>1. UNCHANGED <<build, log, partial, order, got, written, f_pos, echo, failed>>
    BY DEF Calm
  <1>2. \A s \in Stampers : stamper'[s] = "absent"
    BY <1>1, StampersIdle DEF EchoInv
  <1>3. Commands' = Commands /\ (NoEviction' <=> NoEviction)
    BY <1>1, CommandsStay
  <1>4. \A c \in Clients : (EchoedFrom(c) => EchoedFrom(c)') /\ FailedOf(c)' = FailedOf(c)
    BY <1>1, EchoedFromStays DEF FailedOf
  <1>5. \A c \in Clients : PacketAt(c) => PacketAt(c)'
    BY CalmKeepsPacketAt
  <1> QED BY <1>1, <1>2, <1>3, <1>4, <1>5 DEF EchoInv

----------------------------------------------------------------------------
(* Receiving, seeking and echoing.                                         *)

\* What holds of the echo of c after a step that concerns c alone.
EchoOf(c) ==
  /\ "send" \notin FailedOf(c) => EchoedFrom(c)
  /\ "write" \notin Faults => PacketAt(c)

LEMMA OthersEcho ==
  ASSUME ServerInv, NEW c \in Clients, NEW d \in Clients, d # c,
         NEW to, worker' = [worker EXCEPT ![c] = to],
         got'[d] = got[d], written'[d] = written[d], f_pos'[d] = f_pos[d], echo'[d] = echo[d],
         FailedOf(d)' = FailedOf(d), UNCHANGED <<build, log, partial>>, EchoOf(d)
  PROVE  EchoOf(d)'
  <1>1. EchoedFrom(d) => EchoedFrom(d)'
    BY EchoedFromStays
  <1>2. worker'[d] = worker[d]
    BY DEF ServerInv, ServerTypes
  <1>3. PacketAt(d) => PacketAt(d)'
    BY <1>2 DEF PacketAt, PacketWritten, Contents
  <1> QED BY <1>1, <1>3 DEF EchoOf

LEMMA OneMoves ==
  ASSUME ServerInv, EchoInv, [Next]_vars, NEW c \in Clients,
         UNCHANGED <<build, log, partial, order>>,
         NEW to, worker' = [worker EXCEPT ![c] = to],
         \A d \in Clients \ {c} : /\ got'[d] = got[d] /\ written'[d] = written[d]
                                  /\ f_pos'[d] = f_pos[d] /\ echo'[d] = echo[d]
                                  /\ FailedOf(d)' = FailedOf(d),
         EchoOf(c) => EchoOf(c)'
  PROVE  EchoInv'
  <1> SUFFICES ASSUME build' = "device" PROVE EchoInv'
    BY DEF EchoInv
  <1>1. \A s \in Stampers : stamper'[s] = "absent"
    BY StampersIdle DEF EchoInv
  <1>2. Commands' = Commands /\ (NoEviction' <=> NoEviction)
    BY CommandsStay
  <1>3. NoEviction => \A d \in Clients : EchoOf(d)
    BY DEF EchoInv, EchoOf
  <1>4. ASSUME NEW d \in Clients, d # c, EchoOf(d) PROVE EchoOf(d)'
    BY <1>4, OthersEcho
  <1>5. NoEviction => \A d \in Clients : EchoOf(d)'
    BY <1>3, <1>4
  <1> QED BY <1>1, <1>2, <1>5 DEF EchoInv, EchoOf

LEMMA EmptyEcho == \A n \in Nat : n - Len(<<>>) = n
  OBVIOUS

LEMMA RecvKeepsEcho ==
  ASSUME ServerInv, DataInv, EchoInv, [Next]_vars, NEW c \in Clients, Recv(c)
  PROVE  EchoInv'
  <1>1. /\ worker[c] = "recv" /\ got' = [got EXCEPT ![c] = @ + 1]
        /\ UNCHANGED <<build, written, f_pos, echo, failed, log, partial, order>>
    BY DEF Recv, Go, fileVars
  <1>2. PICK to \in {"lock", "recv"} : worker' = [worker EXCEPT ![c] = to]
    BY DEF Recv, Go
  <1>3. EchoOf(c)'
    <2>1. f_pos'[c] = 0 /\ echo'[c] = <<>> /\ worker'[c] = to
      BY <1>1, <1>2 DEF DataInv, Progress, Fresh, ServerInv, ServerTypes
    <2>2. EchoStart(c)' = 0
      <3>1. EchoStart(c)' = 0 - Len(<<>>)
        BY <2>1, Zenon DEF EchoStart
      <3> QED BY <3>1, EmptyEcho
    <2> QED BY <2>1, <2>2 DEF EchoOf, EchoedFrom, PacketAt, Served
  <1>4. \A d \in Clients \ {c} : got'[d] = got[d] /\ FailedOf(d)' = FailedOf(d)
    BY <1>1 DEF DataInv, DataTypes, FailedOf
  <1> QED BY <1>1, <1>2, <1>3, <1>4, OneMoves

LEMMA SeekKeepsEcho ==
  ASSUME ServerInv, DataInv, EchoInv, [Next]_vars, NEW c \in Clients, Seek(c)
  PROVE  EchoInv'
  <1>1. /\ worker[c] = "use" /\ Found(c) # {} /\ worker' = [worker EXCEPT ![c] = "unlock"]
        /\ UNCHANGED <<build, got, written, echo, failed, log, partial, order>>
    BY DEF Seek, Go, packetVars
  <1>2. \/ f_pos' = f_pos
        \/ \E pos \in SeekPositions(c) : f_pos' = [f_pos EXCEPT ![c] = pos]
    BY DEF Seek
  <1>3. \A d \in Clients \ {c} : f_pos'[d] = f_pos[d] /\ FailedOf(d)' = FailedOf(d)
    BY <1>1, <1>2 DEF DataInv, DataTypes, FailedOf
  <1>4. EchoOf(c)'
    <2>0. Progress(c) /\ written[c] \in Nat /\ worker'[c] = "unlock"
      BY <1>1 DEF DataInv, DataTypes, ServerInv, ServerTypes
    <2>1. f_pos[c] = 0 /\ echo'[c] = <<>> /\ written[c] = 0
      BY <1>1, <2>0 DEF Progress
    <2>2. f_pos'[c] \in SeekPositions(c) \cup {0} /\ f_pos'[c] \in Nat
      BY <1>2, <2>1, SeekPositionsNat DEF DataInv, DataTypes
    <2>3. EchoStart(c)' = f_pos'[c]
      BY <2>1, <2>2, EmptyEcho DEF EchoStart
    <2>4. SeekPositions(c)' = SeekPositions(c)
      BY <1>1, SeekPositionsStay
    <2>5. ~PacketWritten(c)'
      <3>1. ~PacketWritten(c)
        BY <2>1, PacketIsWritten
      <3> QED BY <1>1, <3>1 DEF PacketWritten
    <2> QED BY <2>0, <2>1, <2>2, <2>3, <2>4, <2>5 DEF EchoOf, EchoedFrom, PacketAt, Served
  <1> QED BY <1>1, <1>3, <1>4, OneMoves

LEMMA WriteFailsKeepsEcho ==
  ASSUME ServerInv, DataInv, EchoInv, [Next]_vars, NEW c \in Clients, WriteFails(c)
  PROVE  EchoInv'
  <1>1. /\ "write" \in Faults /\ written' = [written EXCEPT ![c] = @ + 1]
        /\ UNCHANGED <<build, got, f_pos, echo, failed, log, partial, order>>
    BY DEF WriteFails, TakeNode, Go
  <1>2. PICK to : worker' = [worker EXCEPT ![c] = to]
    BY DEF WriteFails, TakeNode, Go
  <1>3. EchoOf(c) => EchoOf(c)'
    BY <1>1, EchoedFromStays DEF EchoOf, FailedOf
  <1>4. \A d \in Clients \ {c} : written'[d] = written[d] /\ FailedOf(d)' = FailedOf(d)
    BY <1>1 DEF DataInv, DataTypes, FailedOf
  <1> QED BY <1>1, <1>2, <1>3, <1>4, OneMoves

\* Two neighbouring pieces are one piece.
LEMMA PiecesJoin ==
  ASSUME NEW X, NEW w, w \in Seq(X)
  PROVE  \A i, j, k \in Nat : i <= j /\ j <= k /\ k <= Len(w) =>
           SubSeq(w, i + 1, j) \o SubSeq(w, j + 1, k) = SubSeq(w, i + 1, k)
  OBVIOUS

\* While no send fails, the echo grows at its end by what comes next; after that nothing
\* is said of it.
LEMMA EchoKeepsEcho ==
  ASSUME ServerInv, DataInv, EchoInv, [Next]_vars, NEW c \in Clients, Echo(c) \/ EchoCut(c)
  PROVE  EchoInv'
  <1>1. PICK sent : SendStep(c, sent)
    BY EchoIsStep
  <1>2. /\ worker[c] = "echo" /\ worker' = [worker EXCEPT ![c] = "echo"]
        /\ UNCHANGED <<build, got, written, log, partial, order>>
        /\ \A d \in Clients \ {c} : /\ f_pos'[d] = f_pos[d] /\ echo'[d] = echo[d]
                                    /\ FailedOf(d)' = FailedOf(d)
    BY <1>1 DEF SendStep, DataInv, DataTypes, FailedOf
  <1>3. PacketAt(c) => PacketAt(c)'
    <2>1. worker'[c] = "echo" /\ Contents' = Contents /\ (PacketWritten(c)' <=> PacketWritten(c))
      BY <1>2 DEF ServerInv, ServerTypes, Contents, PacketWritten
    <2> QED BY <1>2, <2>1 DEF PacketAt, Served
  <1>4. ASSUME EchoedFrom(c), sent = ReadTo(c) PROVE EchoedFrom(c)'
    <2>1. PICK f, e, to, w : f = f_pos[c] /\ e = echo[c] /\ to = ReadTo(c) /\ w = Contents
      OBVIOUS
    <2>2. /\ f \in Nat /\ e \in Seq(Bytes) /\ w \in Seq(Bytes) /\ Len(w) \in Nat
          /\ to \in Nat /\ f < to /\ to <= Len(w)
      BY <1>1, <2>1, ReadToInside, ContentsType DEF SendStep, DataInv, DataTypes
    <2>3. f_pos'[c] = to /\ echo'[c] = e \o SubSeq(w, f + 1, to) /\ Contents' = w
      BY <1>1, <1>4, <2>1 DEF SendStep, DataInv, DataTypes, Contents
    <2>4. PICK s : s = EchoStart(c)
      OBVIOUS
    <2>5. s \in Nat /\ s = f - Len(e) /\ s \in SeekPositions(c) \cup {0}
          /\ (e = <<>> \/ e = SubSeq(w, s + 1, f))
      BY <1>4, <2>1, <2>4, SeekPositionsNat DEF EchoedFrom, EchoStart
    <2>6. Len(e) \in Nat /\ s <= f
      BY <2>2, <2>5
    <2>7. e \o SubSeq(w, f + 1, to) = SubSeq(w, s + 1, to) /\ Len(SubSeq(w, s + 1, to)) = to - s
      <3>1. Len(SubSeq(w, s + 1, to)) = to - s
        BY <2>2, <2>5, <2>6
      <3>2. CASE e = <<>>
        <4>1. s = f
          BY <2>2, <2>5, <3>2
        <4>2. <<>> \o SubSeq(w, f + 1, to) = SubSeq(w, f + 1, to)
          BY <2>2
        <4> QED BY <3>1, <3>2, <4>1, <4>2
      <3>3. CASE e = SubSeq(w, s + 1, f)
        <4>1. f <= to
          BY <2>2
        <4>2. SubSeq(w, s + 1, f) \o SubSeq(w, f + 1, to) = SubSeq(w, s + 1, to)
          <5>1. \A i, j, k \in Nat : i <= j /\ j <= k /\ k <= Len(w) =>
                  SubSeq(w, i + 1, j) \o SubSeq(w, j + 1, k) = SubSeq(w, i + 1, k)
            BY <2>2, PiecesJoin
          <5> QED BY <2>2, <2>5, <2>6, <4>1, <5>1
        <4> QED BY <3>1, <3>3, <4>2
      <3> QED BY <2>5, <3>2, <3>3
    <2>8. EchoStart(c)' = s
      <3>1. EchoStart(c)' = to - (to - s)
        BY <2>3, <2>7 DEF EchoStart
      <3> QED BY <3>1, <2>2, <2>5
    <2>9. SeekPositions(c)' = SeekPositions(c)
      BY <1>2, SeekPositionsStay
    <2> QED BY <2>2, <2>3, <2>5, <2>7, <2>8, <2>9 DEF EchoedFrom
  <1>5. "send" \notin FailedOf(c)' => sent = ReadTo(c) /\ "send" \notin FailedOf(c)
    BY <1>1 DEF SendStep, FailedOf
  <1>6. EchoOf(c) => EchoOf(c)'
    BY <1>3, <1>4, <1>5 DEF EchoOf
  <1> QED BY <1>2, <1>6, OneMoves

\* A packet that starts the echo at the first byte and is in the contents to the end
\* has been sent back.
LEMMA EchoEndsKeepsEcho ==
  ASSUME ServerInv, DataInv, EchoInv, [Next]_vars, NEW c \in Clients, EchoEnds(c) \/ ReadFails(c)
  PROVE  EchoInv'
  <1>1. /\ worker[c] = "echo" /\ worker' = [worker EXCEPT ![c] = "close"]
        /\ UNCHANGED <<build, got, written, f_pos, echo, log, partial, order>>
    BY DEF EchoEnds, ReadFails, CloseFile, Go, packetVars
  <1>2. /\ \/ f_pos[c] >= Len(Contents) /\ FailedOf(c)' = FailedOf(c)
           \/ FailedOf(c)' # {}
        /\ FailedOf(c) \subseteq FailedOf(c)'
        /\ \A d \in Clients \ {c} : FailedOf(d)' = FailedOf(d)
    BY DEF EchoEnds, ReadFails, FailedOf
  <1>3. ASSUME EchoOf(c) PROVE EchoOf(c)'
    <2>1. "send" \notin FailedOf(c)' => EchoedFrom(c)'
      <3>1. EchoedFrom(c) => EchoedFrom(c)'
        BY <1>1, EchoedFromStays
      <3> QED BY <1>3, <1>2, <3>1 DEF EchoOf
    <2>2. ASSUME PacketAt(c) PROVE PacketAt(c)'
      <3>1. worker'[c] = "close" /\ Contents' = Contents /\ (PacketWritten(c)' <=> PacketWritten(c))
        BY <1>1 DEF ServerInv, ServerTypes, Contents, PacketWritten
      <3>2. PacketWritten(c) => Holds(Contents, FlattenSeq(Script[c]))
        BY <1>1, <2>2 DEF PacketAt
      <3>3. ASSUME PacketWritten(c), FailedOf(c)' = {} PROVE echo[c] = Contents
        <4>1. PICK f, e, w : f = f_pos[c] /\ e = echo[c] /\ w = Contents
          OBVIOUS
        <4>2. f \in Nat /\ e \in Seq(Bytes) /\ w \in Seq(Bytes) /\ Len(w) \in Nat /\ f >= Len(w)
          BY <1>2, <3>3, <4>1, ContentsType DEF DataInv, DataTypes
        <4>3. SeekPositions(c) = {}
          <5>1. Found(c) = {}
            BY <3>3, PacketIsWritten DEF DataInv, Progress
          <5> QED BY <5>1 DEF SeekPositions
        <4>4. f - Len(e) = 0 /\ (e = <<>> \/ (f <= Len(w) /\ e = SubSeq(w, 1, f)))
          <5>1. EchoStart(c) = 0 /\ (e = <<>> \/ (f <= Len(w) /\ e = SubSeq(w, EchoStart(c) + 1, f)))
            BY <1>3, <1>2, <3>3, <4>1, <4>3 DEF EchoOf, EchoedFrom
          <5>2. EchoStart(c) = f - Len(e) /\ 0 + 1 = 1
            BY <4>1 DEF EchoStart
          <5> QED BY <5>1, <5>2
        <4>5. CASE e = <<>>
          BY <4>1, <4>2, <4>4, <4>5
        <4>6. CASE f = Len(w) /\ e = SubSeq(w, 1, f)
          BY <4>1, <4>2, <4>6
        <4> QED BY <4>2, <4>4, <4>5, <4>6
      <3> QED BY <1>1, <3>1, <3>2, <3>3 DEF PacketAt
    <2> QED BY <1>3, <2>1, <2>2 DEF EchoOf
  <1> QED BY <1>1, <1>2, <1>3, OneMoves

----------------------------------------------------------------------------
(* Writing.                                                                *)

\* A thread of the timer writes in the other build only.
LEMMA StamperWritesKeepsEcho ==
  ASSUME EchoInv, NEW s \in Stampers, StamperWrites(s)
  PROVE  EchoInv'
  <1>1. build' = build /\ stamper[s] = "write"
    BY DEF StamperWrites, Stamp
  <1>2. build # "device"
    BY <1>1 DEF EchoInv
  <1> QED BY <1>1, <1>2 DEF EchoInv

\* A chunk with a newline is one more command.
LEMMA CommandsGrow ==
  ASSUME ServerInv, NEW c \in Clients, NEW k, NEW chunk, WriteStep(c, k, chunk)
  PROVE  /\ Cardinality(Commands) \in Nat
         /\ HasNewline(chunk) => Cardinality(Commands') = Cardinality(Commands) + 1
         /\ ~HasNewline(chunk) => Commands' = Commands
  <1>1. PICK n \in Nat : n = Len(order)
    BY DEF ServerInv, ServerTypes
  <1>2. order' = Append(order, <<c, k>>) /\ chunk = Script[c][k]
    BY DEF WriteStep
  <1>3. /\ DOMAIN order = 1 .. n /\ DOMAIN order' = 1 .. (n + 1)
        /\ order'[n + 1] = <<c, k>> /\ \A i \in 1 .. n : order'[i] = order[i]
    BY <1>1, <1>2 DEF ServerInv, ServerTypes
  <1>4. Commands \subseteq 1 .. n
    BY <1>3 DEF Commands
  <1>5. IsFiniteSet(Commands) /\ Cardinality(Commands) \in Nat /\ n + 1 \notin Commands
    <2>1. IsFiniteSet(1 .. n)
      BY FS_Interval
    <2>2. IsFiniteSet(Commands)
      BY <1>4, <2>1, FS_Subset
    <2>3. n + 1 \notin 1 .. n
      OBVIOUS
    <2> QED BY <1>4, <2>2, <2>3, FS_CardinalityType
  <1> DEFINE Ends(o) == HasNewline(Script[o[1]][o[2]])
  <1>6. Commands = {i \in 1 .. n : Ends(order[i])} /\ Commands' = {i \in 1 .. (n + 1) : Ends(order'[i])}
    BY <1>3 DEF Commands, HasNewline
  <1>7. Ends(<<c, k>>) <=> HasNewline(chunk)
    BY <1>2
  <1> HIDE DEF Ends
  <1>8. HasNewline(chunk) => Commands' = Commands \cup {n + 1}
    BY <1>3, <1>6, <1>7
  <1>9. ~HasNewline(chunk) => Commands' = Commands
    BY <1>3, <1>6, <1>7
  <1>10. Cardinality(Commands \cup {n + 1}) = Cardinality(Commands) + 1
    BY <1>5, FS_AddElement
  <1> QED BY <1>5, <1>8, <1>9, <1>10

\* What a write to the device does while nothing leaves it.
Grows(chunk) ==
  \/ /\ HasNewline(chunk) /\ Len(log) < MaxOps
     /\ log' = Append(log, partial \o chunk) /\ partial' = <<>>
  \/ ~HasNewline(chunk) /\ log' = log /\ partial' = partial \o chunk

LEMMA LogGrows ==
  ASSUME ServerInv, DataInv, EchoInv, build = "device", NoEviction',
         NEW c \in Clients, NEW k, NEW chunk, WriteStep(c, k, chunk)
  PROVE  NoEviction /\ Len(log') = Cardinality(Commands') /\ Grows(chunk)
  <1>1. /\ Cardinality(Commands) \in Nat
        /\ HasNewline(chunk) => Cardinality(Commands') = Cardinality(Commands) + 1
        /\ ~HasNewline(chunk) => Commands' = Commands
    BY CommandsGrow
  <1>2. MaxOps \in Nat /\ Cardinality(Commands') <= MaxOps
    BY ScriptType DEF NoEviction, Commands
  <1>3. NoEviction
    <2>1. Cardinality(Commands) <= MaxOps
      BY <1>1, <1>2
    <2> QED BY <2>1 DEF NoEviction, Commands
  <1>4. Len(log) = Cardinality(Commands) /\ Len(log) \in Nat
    BY <1>3 DEF EchoInv, DataInv, DataTypes
  <1>5. CASE HasNewline(chunk)
    <2>1. Len(log) < MaxOps /\ Cardinality(Commands') = Len(log) + 1
      BY <1>1, <1>2, <1>4, <1>5
    <2>2. log' = Append(log, partial \o chunk) /\ partial' = <<>>
      BY <1>5, <2>1 DEF WriteStep
    <2>3. Len(log') = Len(log) + 1
      BY <2>2 DEF DataInv, DataTypes
    <2> QED BY <1>3, <1>5, <2>1, <2>2, <2>3 DEF Grows
  <1>6. CASE ~HasNewline(chunk)
    <2>1. log' = log /\ partial' = partial \o chunk
      BY <1>6 DEF WriteStep
    <2> QED BY <1>1, <1>3, <1>4, <1>6, <2>1 DEF Grows
  <1> QED BY <1>5, <1>6

LEMMA GrownContents ==
  ASSUME DataTypes, NEW chunk, chunk \in Seq(Bytes), Grows(chunk)
  PROVE  /\ Contents' \o partial' = (Contents \o partial) \o chunk
         /\ \E more \in Seq(Bytes) : Contents' = Contents \o more
         /\ HasNewline(chunk) => partial' = <<>>
         /\ Contents' \in Seq(Bytes)
  <1>1. log \in Seq(Seq(Bytes)) /\ partial \in Seq(Bytes) /\ Contents \in Seq(Bytes)
    BY ContentsType DEF DataTypes
  <1>2. CASE log' = Append(log, partial \o chunk) /\ partial' = <<>>
    <2>1. partial \o chunk \in Seq(Bytes)
      BY <1>1
    <2>2. Contents' = Contents \o (partial \o chunk)
      BY <1>1, <1>2, <2>1, FlattenAppend DEF Contents
    <2>3. PICK w : w = Contents
      OBVIOUS
    <2>4. (w \o (partial \o chunk)) \o <<>> = (w \o partial) \o chunk
          /\ w \o (partial \o chunk) \in Seq(Bytes)
      BY <1>1, <2>1, <2>3
    <2> QED BY <1>2, <2>1, <2>2, <2>3, <2>4
  <1>3. CASE ~HasNewline(chunk) /\ log' = log /\ partial' = partial \o chunk
    <2>1. Contents' = Contents
      BY <1>3 DEF Contents
    <2>2. PICK w : w = Contents
      OBVIOUS
    <2>3. w \o (partial \o chunk) = (w \o partial) \o chunk /\ w = w \o <<>> /\ <<>> \in Seq(Bytes)
      BY <1>1, <2>2
    <2> QED BY <1>1, <1>3, <2>1, <2>2, <2>3
  <1> QED BY <1>2, <1>3 DEF Grows

\* A position that a seek can lead to stays one.
LEMMA SeekPositionsGrow ==
  ASSUME DataInv, NEW d \in Clients, got'[d] = got[d], build' = build, NEW chunk, chunk \in Seq(Bytes),
         Grows(chunk)
  PROVE  SeekPositions(d) \subseteq SeekPositions(d)'
  <1>1. CASE log' = log
    BY <1>1, SeekPositionsStay
  <1>2. CASE Len(log) < MaxOps /\ log' = Append(log, partial \o chunk)
    <2>1. Found(d)' = Found(d) /\ Found(d) \subseteq SeekNumbers
      <3>1. Found(d) \subseteq SeekNumbers
        BY ReceivedType, FindCommandType DEF Found, DataInv, DataTypes, Progress
      <3> QED BY <3>1, FoundStays
    <2>2. PICK V : V = Seq(Bytes)
      OBVIOUS
    <2>3. log \in Seq(V) /\ partial \o chunk \in V /\ Len(log) \in Nat /\ MaxOps \in Nat
      BY <2>2, ScriptType DEF DataInv, DataTypes
    <2>4. /\ Len(log') = Len(log) + 1 /\ log' # <<>>
          /\ \A i \in 1 .. Len(log) : log'[i] = log[i]
          /\ \A n \in 0 .. Len(log) : SubSeq(log', 1, n) = SubSeq(log, 1, n)
          /\ Len(log'[Len(log) + 1]) \in Nat
      <3>1. Len(log'[Len(log) + 1]) \in Nat
        BY <1>2, <2>2, <2>3
      <3> QED BY <1>2, <2>3, <3>1
    <2>5. ASSUME NEW t \in Found(d), t.write_cmd <= Len(log), t.write_cmd_offset <= SizeOf(t.write_cmd)
          PROVE  /\ t.write_cmd <= Len(log') /\ t.write_cmd_offset <= SizeOf(t.write_cmd)'
                 /\ SubSeq(log', 1, t.write_cmd) = SubSeq(log, 1, t.write_cmd)
      <3>1. t.write_cmd \in Nat /\ t.write_cmd_offset \in Nat
        BY <2>1 DEF SeekNumbers
      <3>2. t.write_cmd \in 0 .. Len(log) /\ t.write_cmd < Len(log')
        BY <2>3, <2>4, <2>5, <3>1
      <3>3. SizeOf(t.write_cmd)' = Len(log'[t.write_cmd + 1])
        BY <3>2 DEF SizeOf
      <3>4. CASE t.write_cmd < Len(log)
        <4>1. t.write_cmd + 1 \in 1 .. Len(log)
          BY <2>3, <3>1, <3>4
        <4>2. SizeOf(t.write_cmd) = Len(log[t.write_cmd + 1])
          BY <3>4 DEF SizeOf
        <4> QED BY <2>3, <2>4, <2>5, <3>2, <3>3, <4>1, <4>2
      <3>5. CASE t.write_cmd = Len(log)
        <4>1. ~(Len(log) < Len(log)) /\ Len(log) # MaxOps
          BY <1>2, <2>3
        <4>2. SizeOf(t.write_cmd) = 0
          BY <3>5, <4>1 DEF SizeOf
        <4> QED BY <2>3, <2>4, <2>5, <3>1, <3>2, <3>3, <3>5, <4>2
      <3> QED BY <2>3, <3>2, <3>4, <3>5
    <2> QED BY <2>1, <2>4, <2>5 DEF SeekPositions
  <1> QED BY <1>1, <1>2 DEF Grows

LEMMA EchoedFromGrows ==
  ASSUME DataInv, NEW d \in Clients, got'[d] = got[d], f_pos'[d] = f_pos[d], echo'[d] = echo[d],
         build' = build, NEW chunk, chunk \in Seq(Bytes), Grows(chunk), EchoedFrom(d)
  PROVE  EchoedFrom(d)'
  <1>1. SeekPositions(d) \subseteq SeekPositions(d)'
    BY SeekPositionsGrow
  <1>2. PICK more \in Seq(Bytes) : Contents' = Contents \o more
    BY GrownContents DEF DataInv
  <1>3. PICK w, f, s : w = Contents /\ f = f_pos[d] /\ s = EchoStart(d)
    OBVIOUS
  <1>4. s \in SeekPositions(d) \cup {0} /\ (echo[d] = <<>> \/ (f <= Len(w) /\ echo[d] = SubSeq(w, s + 1, f)))
    BY <1>3 DEF EchoedFrom
  <1>5. w \in Seq(Bytes) /\ f \in Nat /\ s \in Nat /\ Len(w) \in Nat
    BY <1>3, <1>4, ContentsType, SeekPositionsNat DEF DataInv, DataTypes
  <1>6. f <= Len(w) => f <= Len(w \o more) /\ SubSeq(w \o more, s + 1, f) = SubSeq(w, s + 1, f)
    BY <1>5
  <1>7. EchoStart(d)' = s
    BY <1>3 DEF EchoStart
  <1> QED BY <1>1, <1>2, <1>3, <1>4, <1>6, <1>7 DEF EchoedFrom

LEMMA HoldsMore ==
  ASSUME NEW w, w \in Seq(Bytes), NEW more, more \in Seq(Bytes), NEW piece, piece \in Seq(Bytes),
         Holds(w, piece)
  PROVE  Holds(w \o more, piece)
  <1>1. PICK i \in 0 .. (Len(w) - Len(piece)) : SubSeq(w, i + 1, i + Len(piece)) = piece
    BY DEF Holds
  <1>2. i \in 0 .. (Len(w \o more) - Len(piece))
    OBVIOUS
  <1>3. SubSeq(w \o more, i + 1, i + Len(piece)) = SubSeq(w, i + 1, i + Len(piece))
    OBVIOUS
  <1> QED BY <1>1, <1>2, <1>3 DEF Holds

LEMMA HoldsEnd ==
  ASSUME NEW front, front \in Seq(Bytes), NEW piece, piece \in Seq(Bytes)
  PROVE  Holds(front \o piece, piece)
  <1>1. Len(front) \in 0 .. (Len(front \o piece) - Len(piece))
    OBVIOUS
  <1>2. SubSeq(front \o piece, Len(front) + 1, Len(front) + Len(piece)) = piece
    OBVIOUS
  <1> QED BY <1>1, <1>2 DEF Holds

\* The chunks up to the next one.
LEMMA ScriptPieces ==
  ASSUME NEW c \in Clients, NEW k \in 1 .. Len(Script[c])
  PROVE  /\ FlattenSeq(SubSeq(Script[c], 1, k)) = FlattenSeq(SubSeq(Script[c], 1, k - 1)) \o Script[c][k]
         /\ FlattenSeq(SubSeq(Script[c], 1, k - 1)) \in Seq(Bytes)
         /\ Script[c][k] \in Seq(Bytes)
         /\ FlattenSeq(Script[c]) \in Seq(Bytes)
         /\ k = Len(Script[c]) => FlattenSeq(SubSeq(Script[c], 1, k)) = FlattenSeq(Script[c])
  <1>1. PICK ss : ss = Script[c]
    OBVIOUS
  <1>2. ss \in Seq(Seq(Bytes)) /\ k \in 1 .. Len(ss) /\ Len(ss) \in Nat
    BY <1>1, ScriptType
  <1>3. Joins(Beginnings(ss), Bytes, ss, Len(ss)) /\ Beginnings(ss)[Len(ss)] = FlattenSeq(ss)
    BY <1>2, FlattenBeginnings
  <1>4. k - 1 \in 0 .. Len(ss) /\ k \in 0 .. Len(ss) /\ Len(ss) \in 0 .. Len(ss)
    BY <1>2
  <1>5. PICK b : b = Beginnings(ss)
    OBVIOUS
  <1>6. \A i \in 0 .. Len(ss) : b[i] = FlattenSeq(SubSeq(ss, 1, i))
    BY <1>5 DEF Beginnings
  <1>7. b[k] = b[k - 1] \o ss[k] /\ b[k - 1] \in Seq(Bytes) /\ b[Len(ss)] \in Seq(Bytes)
    BY <1>2, <1>3, <1>4, <1>5 DEF Joins
  <1>8. FlattenSeq(SubSeq(ss, 1, k)) = b[k] /\ FlattenSeq(SubSeq(ss, 1, k - 1)) = b[k - 1]
        /\ FlattenSeq(ss) = b[Len(ss)]
    BY <1>3, <1>4, <1>5, <1>6
  <1>9. ss[k] \in Seq(Bytes)
    BY <1>1, <1>2, ScriptType
  <1> QED BY <1>1, <1>7, <1>8, <1>9

\* What a worker other than the writer has of its packet in the contents stays there.
LEMMA OthersPacketAt ==
  ASSUME ServerInv, DataInv, NEW c \in Clients, NEW k, NEW chunk, chunk \in Seq(Bytes),
         WriteStep(c, k, chunk), Grows(chunk), NEW d \in Clients, d # c, PacketAt(d)
  PROVE  PacketAt(d)'
  <1>1. worker[c] = "use" /\ worker' = [worker EXCEPT ![c] = IF k = got[c] THEN "unlock" ELSE "use"]
        /\ written' = [written EXCEPT ![c] = k] /\ echo' = echo /\ failed' = failed
    BY DEF WriteStep
  <1>2. worker'[d] = worker[d] /\ written'[d] = written[d] /\ worker[d] # "use"
    <2>1. file_mutex = c /\ (worker[d] = "use" => file_mutex = d)
      BY <1>1 DEF ServerInv, WorkerInv, Holding
    <2> QED BY <1>1, <2>1 DEF ServerInv, ServerTypes
  <1>3. (PacketWritten(d)' <=> PacketWritten(d)) /\ FailedOf(d)' = FailedOf(d)
    BY <1>1, <1>2 DEF PacketWritten, FailedOf
  <1>4. PICK more \in Seq(Bytes) : Contents' = Contents \o more
    BY GrownContents DEF DataInv
  <1>5. PICK piece : piece = FlattenSeq(Script[d])
    OBVIOUS
  <1>6. piece \in Seq(Bytes)
    <2>1. 1 \in 1 .. Len(Script[d])
      BY ScriptType
    <2> QED BY <1>5, <2>1, ScriptPieces
  <1>7. Contents \in Seq(Bytes)
    BY ContentsType DEF DataInv, DataTypes
  <1>8. Holds(Contents, piece) => Holds(Contents', piece)
    BY <1>4, <1>6, <1>7, HoldsMore
  <1> QED BY <1>1, <1>2, <1>3, <1>5, <1>8 DEF PacketAt

\* With its last chunk the packet of the writer is in the contents: the chunk has the
\* newline that makes all that was in progress a command.
LEMMA WritersPacketAt ==
  ASSUME ServerInv, DataInv, NEW c \in Clients, NEW k, NEW chunk, chunk \in Seq(Bytes),
         WriteStep(c, k, chunk), Grows(chunk), PacketAt(c)
  PROVE  PacketAt(c)'
  <1>1. /\ k \in 1 .. got[c] /\ k = written[c] + 1 /\ chunk = Script[c][k] /\ worker[c] = "use"
        /\ worker' = [worker EXCEPT ![c] = IF k = got[c] THEN "unlock" ELSE "use"]
        /\ written' = [written EXCEPT ![c] = k]
    BY DEF WriteStep
  <1>2. /\ worker'[c] \in {"use", "unlock"} /\ written'[c] = k
        /\ k \in 1 .. Len(Script[c]) /\ written[c] = k - 1
    <2>1. got[c] \in Nat /\ written[c] \in Nat /\ got[c] <= Len(Script[c]) /\ Len(Script[c]) \in Nat
      BY ScriptType DEF DataInv, DataTypes, Progress
    <2>2. k \in 1 .. Len(Script[c]) /\ written[c] = k - 1
      BY <1>1, <2>1
    <2> QED BY <1>1, <2>2 DEF ServerInv, ServerTypes, DataInv, DataTypes
  <1>3. PICK old, new : /\ old = FlattenSeq(SubSeq(Script[c], 1, k - 1))
                        /\ new = FlattenSeq(SubSeq(Script[c], 1, k))
    OBVIOUS
  <1>4. /\ new = old \o chunk /\ old \in Seq(Bytes)
        /\ k = Len(Script[c]) => new = FlattenSeq(Script[c])
    BY <1>1, <1>2, <1>3, ScriptPieces
  <1>5. PICK w, v : w = Contents \o partial /\ v = Contents' \o partial'
    OBVIOUS
  <1>6. v = w \o chunk /\ Contents' \in Seq(Bytes) /\ (HasNewline(chunk) => partial' = <<>>)
    BY <1>5, GrownContents DEF DataInv
  <1>7. PICK front \in Seq(Bytes) : w = front \o old
    <2>1. EndsIn(w, old)
      BY <1>1, <1>2, <1>3, <1>5 DEF PacketAt
    <2> QED BY <2>1 DEF EndsIn
  <1>8. v = front \o new /\ new \in Seq(Bytes)
    BY <1>4, <1>6, <1>7
  <1>9. EndsIn(v, new)
    BY <1>8 DEF EndsIn
  <1>10. PacketWritten(c)' => Holds(Contents', FlattenSeq(Script[c]))
    <2> SUFFICES ASSUME PacketWritten(c)' PROVE Holds(Contents', FlattenSeq(Script[c]))
      OBVIOUS
    <2>1. k = Len(Script[c]) /\ HasNewline(chunk)
      BY <1>1, <1>2 DEF PacketWritten, HasNewline
    <2>2. v = Contents'
      <3>1. PICK z : z = Contents'
        OBVIOUS
      <3>2. z \in Seq(Bytes) /\ z \o <<>> = z
        BY <1>6, <3>1
      <3> QED BY <1>5, <1>6, <2>1, <3>1, <3>2
    <2>3. Holds(front \o new, new)
      BY <1>8, HoldsEnd
    <2> QED BY <1>4, <1>8, <2>1, <2>2, <2>3
  <1>11. worker'[c] \notin Served
    BY <1>2 DEF Served
  <1>12. EndsIn(Contents' \o partial', FlattenSeq(SubSeq(Script[c], 1, written'[c])))
    BY <1>2, <1>3, <1>5, <1>9
  <1> QED BY <1>10, <1>11, <1>12 DEF PacketAt

LEMMA WriteKeepsEcho ==
  ASSUME ServerInv, DataInv, EchoInv, [Next]_vars, NEW c \in Clients, WriteChunk(c)
  PROVE  EchoInv'
  <1>1. PICK k, chunk : WriteStep(c, k, chunk) /\ chunk \in Seq(Bytes)
    BY WriteIsStep
  <1>2. UNCHANGED <<build, got, f_pos, echo, failed>>
    BY <1>1 DEF WriteStep
  <1> SUFFICES ASSUME build = "device" PROVE EchoInv'
    BY <1>2 DEF EchoInv
  <1>3. \A s \in Stampers : stamper'[s] = "absent"
    BY <1>2, StampersIdle DEF EchoInv
  <1>4. ASSUME NoEviction'
        PROVE  /\ Len(log') = Cardinality(Commands')
               /\ \A d \in Clients : "send" \notin FailedOf(d)' => EchoedFrom(d)'
               /\ "write" \notin Faults => \A d \in Clients : PacketAt(d)'
    <2>1. NoEviction /\ Len(log') = Cardinality(Commands') /\ Grows(chunk)
      BY <1>1, <1>4, LogGrows
    <2>2. \A d \in Clients : (EchoedFrom(d) => EchoedFrom(d)') /\ FailedOf(d)' = FailedOf(d)
      BY <1>1, <1>2, <2>1, EchoedFromGrows DEF FailedOf
    <2>3. \A d \in Clients : PacketAt(d) => PacketAt(d)'
      BY <1>1, <2>1, OthersPacketAt, WritersPacketAt
    <2> QED BY <2>1, <2>2, <2>3 DEF EchoInv
  <1> QED BY <1>3, <1>4 DEF EchoInv

----------------------------------------------------------------------------

LEMMA EchoInit == Init => EchoInv
  <1> SUFFICES ASSUME Init PROVE EchoInv
    OBVIOUS
  <1>1. Commands = {} /\ Cardinality({}) = 0 /\ Len(log) = 0
    BY FS_EmptySet DEF Init, Commands
  <1>2. ASSUME NEW c \in Clients PROVE EchoedFrom(c) /\ PacketAt(c)
    <2>1. f_pos[c] = 0 /\ echo[c] = <<>> /\ worker[c] = "absent"
      BY DEF Init, OfAll
    <2>2. EchoStart(c) = 0
      <3>1. EchoStart(c) = 0 - Len(<<>>)
        BY <2>1, Zenon DEF EchoStart
      <3> QED BY <3>1, EmptyEcho
    <2> QED BY <2>1, <2>2 DEF EchoedFrom, PacketAt, Served
  <1> QED BY <1>1, <1>2 DEF Init, EchoInv, OfAll

LEMMA EchoStep == ServerInv /\ DataInv /\ EchoInv /\ [Next]_vars => EchoInv'
  <1> SUFFICES ASSUME ServerInv, DataInv, EchoInv, [Next]_vars PROVE EchoInv'
    OBVIOUS
  <1>1. CASE \/ Main \/ MainAcceptFails \/ Signal \/ NoMemory \/ Restart \/ UNCHANGED vars
             \/ \E c \in Clients : EchoKills(c)
    BY <1>1, OthersCalm, CalmKeepsEcho
  <1>2. CASE \E c \in Clients : Connect(c) \/ LockFile(c) \/ Work(c)
    BY <1>2, WorkersCalm, CalmKeepsEcho, RecvKeepsEcho, SeekKeepsEcho, WriteKeepsEcho,
       WriteFailsKeepsEcho, EchoKeepsEcho, EchoEndsKeepsEcho DEF Work
  <1>3. CASE \E s \in Stampers : StamperStarts(s) \/ StamperLocks(s) \/ StampWork(s)
    BY <1>3, OthersCalm, CalmKeepsEcho, StamperWritesKeepsEcho DEF StampWork
  <1> QED BY <1>1, <1>2, <1>3 DEF Next

\* The invariants about the data of a connection hold in every run.
LEMMA EchoInvariant == Spec => [](ServerInv /\ DataInv /\ EchoInv)
  <1>1. Init => ServerInv /\ DataInv /\ EchoInv
    BY ServerInit, DataInit, EchoInit
  <1>2. ServerInv /\ DataInv /\ EchoInv /\ [Next]_vars => (ServerInv /\ DataInv /\ EchoInv)'
    BY ServerStep, DataStep, EchoStep
  <1> QED BY <1>1, <1>2, PTL DEF Spec

\* The echo of a connection none of whose sends failed is one stretch of the contents,
\* from the start or the byte that the client's command names (processClientConnection,
\* the loop over read and send), although the mutex has been given up and other clients
\* write.  A send that fails or is short leaves a gap, which the loop does not look at.
THEOREM ServerEchoFromStart == Spec => []EchoFromStart
  <1>1. EchoInv => EchoFromStart
    BY DEF EchoInv, EchoFromStart, EchoedFrom, EchoStart, FailedOf
  <1> QED BY <1>1, EchoInvariant, PTL

\* A client whose packet was written gets it back in what it is sent
\* (processClientConnection), until the device forgets its oldest command, if no send or
\* read of its echo fails.
THEOREM ServerEchoHoldsPacket == Spec => []EchoHoldsPacket
  <1>1. EchoInv => EchoHoldsPacket
    BY DEF EchoInv, EchoHoldsPacket, PacketAt, FailedOf
  <1> QED BY <1>1, EchoInvariant, PTL

----------------------------------------------------------------------------
(* What the server asks of the device, and what the device promises.       *)

DeviceUse == \E c \in Clients : WritesChunk(c) \/ ReadsPiece(c)

\* The device remembers whole commands: what is in progress has no newline yet, and what
\* is remembered has one.
CommandsWhole ==
  /\ ~Device!HasNewline(partial)
  /\ \A k \in 1 .. Len(log) : Device!HasNewline(log[k])

LEMMA NewlineIsNewline ==
  ASSUME NEW bytes, bytes \in Seq(Bytes)
  PROVE  HasNewline(bytes) <=> Device!HasNewline(bytes)
  BY DEF HasNewline, Device!HasNewline, ToSet

\* A chunk brings the only newline there is.
LEMMA JoinedNewline ==
  ASSUME NEW x, x \in Seq(Bytes), NEW y, y \in Seq(Bytes), ~Device!HasNewline(x)
  PROVE  Device!HasNewline(x \o y) <=> Device!HasNewline(y)
  <1>1. Len(x) \in Nat /\ Len(y) \in Nat /\ Len(x \o y) = Len(x) + Len(y)
    OBVIOUS
  <1>2. /\ \A i \in 1 .. Len(x) : (x \o y)[i] = x[i]
        /\ \A i \in 1 .. Len(y) : (x \o y)[Len(x) + i] = y[i]
    OBVIOUS
  <1>3. ASSUME Device!HasNewline(x \o y) PROVE Device!HasNewline(y)
    <2>1. PICK i \in 1 .. Len(x \o y) : (x \o y)[i] = Newline
      BY <1>3 DEF Device!HasNewline
    <2>2. i \notin 1 .. Len(x)
      BY <1>2, <2>1 DEF Device!HasNewline
    <2>3. i - Len(x) \in 1 .. Len(y) /\ i = Len(x) + (i - Len(x))
      BY <1>1, <2>1, <2>2
    <2>4. y[i - Len(x)] = Newline
      BY <1>2, <2>1, <2>3
    <2> QED BY <2>3, <2>4 DEF Device!HasNewline
  <1>4. ASSUME Device!HasNewline(y) PROVE Device!HasNewline(x \o y)
    <2>1. PICK i \in 1 .. Len(y) : y[i] = Newline
      BY <1>4 DEF Device!HasNewline
    <2>2. Len(x) + i \in 1 .. Len(x \o y)
      BY <1>1, <2>1
    <2> QED BY <1>2, <2>1, <2>2 DEF Device!HasNewline
  <1> QED BY <1>3, <1>4

\* A write is one use of the device or none.
LEMMA WriteUsesDevice ==
  ASSUME ServerInv, DataInv, CommandsWhole, NEW c \in Clients, WriteChunk(c)
  PROVE  UNCHANGED <<log, partial, echo>> \/ WritesChunk(c)
  <1>1. PICK k, chunk : WriteStep(c, k, chunk) /\ chunk \in Seq(Bytes)
    BY WriteIsStep
  <1>2. k \in 1 .. Len(Script[c]) /\ chunk = Script[c][k] /\ UNCHANGED echo
    <2>1. k \in 1 .. got[c] /\ got[c] \in Nat /\ got[c] <= Len(Script[c]) /\ Len(Script[c]) \in Nat
      BY <1>1, ScriptType DEF WriteStep, DataInv, DataTypes, Progress
    <2>2. k \in 1 .. Len(Script[c])
      BY <2>1
    <2> QED BY <1>1, <2>2 DEF WriteStep
  <1>3. partial \in Seq(Bytes) /\ ~Device!HasNewline(partial)
    BY DEF DataInv, DataTypes, CommandsWhole
  <1>4. /\ HasNewline(chunk) <=> Device!HasNewline(chunk)
        /\ Device!HasNewline(partial \o chunk) <=> Device!HasNewline(chunk)
    BY <1>1, <1>3, NewlineIsNewline, JoinedNewline
  <1>5. CASE build = "file" /\ UNCHANGED <<log, partial>>
    BY <1>2, <1>5
  <1>6. CASE /\ HasNewline(chunk)
             /\ log' = IF Len(log) < MaxOps THEN Append(log, partial \o chunk)
                                            ELSE Append(Tail(log), partial \o chunk)
             /\ partial' = <<>>
    <2>1. ExtendAndCommit(chunk)
      BY <1>2, <1>3, <1>4, <1>6 DEF ExtendAndCommit, Device!Remember
    <2> QED BY <1>2, <2>1 DEF WritesChunk
  <1>7. CASE ~HasNewline(chunk) /\ partial' = partial \o chunk /\ log' = log
    <2>1. Device!Extend(chunk) /\ ~Device!HasNewline(partial')
      BY <1>2, <1>3, <1>4, <1>7 DEF Device!Extend
    <2> QED BY <1>2, <2>1 DEF WritesChunk
  <1> QED BY <1>1, <1>5, <1>6, <1>7 DEF WriteStep

\* A read ends where the command ends that holds the position, and that command is the
\* one it begins in, because none is empty.
LEMMA PieceUsesDevice ==
  ASSUME DataInv, CommandsWhole, NEW c \in Clients, NEW sent, SendStep(c, sent), sent # f_pos[c]
  PROVE  ReadsPiece(c)
  <1>1. /\ f_pos[c] < Len(Contents)
        /\ echo' = [echo EXCEPT ![c] = @ \o SubSeq(Contents, f_pos[c] + 1, sent)]
        /\ UNCHANGED <<log, partial>>
        /\ sent \in Nat /\ f_pos[c] <= sent /\ sent <= ReadTo(c)
    BY DEF SendStep
  <1>2. log \in Seq(Seq(Bytes)) /\ f_pos[c] \in Nat /\ ReadSize \in Nat \ {0}
    BY NumbersAssumption DEF DataInv, DataTypes
  <1>3. PICK end \in Nat : /\ StopsAt(c, end) /\ end <= Len(Contents)
                           /\ ReadTo(c) = IF end < f_pos[c] + ReadSize THEN end ELSE f_pos[c] + ReadSize
    BY <1>1, <1>2, ReadStops
  <1>4. PICK n \in Nat : n = Len(log) /\ log \in [1 .. n -> Seq(Bytes)]
    BY <1>2
  <1>5. PICK L : L = PartEnds(log)
    OBVIOUS
  <1>6. PICK w : w = Contents
    OBVIOUS
  <1>7. Layout(L, log, n, w) /\ w \in Seq(Bytes)
    BY <1>2, <1>4, <1>5, <1>6, BeginningLayout, ContentsType DEF Contents
  <1>8. \A i \in 1 .. n : L[i] = Len(FlattenSeq(SubSeq(log, 1, i)))
    BY <1>4, <1>5 DEF PartEnds
  <1>9. PICK f, to, r : f = f_pos[c] /\ to = sent /\ r = ReadTo(c)
    OBVIOUS
  <1>10. PICK k \in 1 .. n : L[k] = end /\ f < end /\ \A i \in 1 .. n : f < L[i] => end <= L[i]
    BY <1>3, <1>4, <1>8, <1>9 DEF StopsAt
  <1>11. L[k - 1] <= f
    <2>1. /\ L \in [0 .. n -> Nat] /\ L[0] = 0 /\ L[k] = L[k - 1] + Len(log[k])
          /\ k - 1 \in 0 .. n /\ f \in Nat
      BY <1>2, <1>7, <1>9 DEF Layout
    <2>2. Len(log[k]) \in Nat \ {0}
      <3>1. log[k] \in Seq(Bytes) /\ Device!HasNewline(log[k])
        BY <1>4 DEF CommandsWhole
      <3>2. Len(log[k]) \in Nat /\ 1 .. Len(log[k]) # {}
        BY <3>1 DEF Device!HasNewline
      <3> QED BY <3>2
    <2>3. L[k - 1] < L[k]
      BY <2>1, <2>2
    <2>4. CASE k = 1
      BY <2>1, <2>4
    <2>5. CASE k # 1
      <3>1. k - 1 \in 1 .. n
        BY <2>5
      <3>2. f < L[k - 1] => L[k] <= L[k - 1]
        BY <1>10, <3>1
      <3> QED BY <2>1, <2>3, <3>2
    <2> QED BY <2>4, <2>5
  <1>12. /\ f \in Nat /\ to \in Nat /\ f < to /\ to <= L[k] /\ to - f <= ReadSize
    <2>1. /\ f \in Nat /\ f < end /\ r = IF end < f + ReadSize THEN end ELSE f + ReadSize
          /\ to \in Nat /\ f <= to /\ to # f /\ to <= r
      BY <1>1, <1>2, <1>3, <1>9, <1>10
    <2>2. f < to /\ to <= end /\ to - f <= ReadSize
      BY <1>2, <2>1
    <2> QED BY <1>10, <2>1, <2>2
  <1>13. PICK p : p = L[k - 1]
    OBVIOUS
  <1>14. /\ SubSeq(w, f + 1, to) = SubSeq(log[k], f + 1 - p, to - p)
         /\ f + 1 - p \in 1 .. Len(log[k])
         /\ to - p \in (f + 1 - p) .. Len(log[k])
    <2>1. PICK m : m = log
      OBVIOUS
    <2>2. /\ m \in [1 .. n -> Seq(Bytes)] /\ Layout(L, m, n, w) /\ w \in Seq(Bytes)
          /\ L[k - 1] <= f /\ f \in Nat /\ to \in Nat /\ f < to /\ to <= L[k]
      BY <1>4, <1>7, <1>11, <1>12, <2>1
    <2>3. /\ SubSeq(w, f + 1, to) = SubSeq(m[k], f + 1 - L[k - 1], to - L[k - 1])
          /\ f + 1 - L[k - 1] \in 1 .. Len(m[k])
          /\ to - L[k - 1] \in (f + 1 - L[k - 1]) .. Len(m[k])
      BY <2>2, PieceOfOne
    <2> QED BY <1>13, <2>1, <2>3, Zenon
  <1>15. p \in Nat
    BY <1>7, <1>13 DEF Layout
  <1>16. PICK x, y : x = f + 1 - p /\ y = to - p
    OBVIOUS
  <1>17. y - x < ReadSize
    BY <1>2, <1>12, <1>15, <1>16
  <1>18. DeliverAndSend(c, k, x, y)
    BY <1>1, <1>6, <1>9, <1>14, <1>16 DEF DeliverAndSend
  <1> QED BY <1>4, <1>14, <1>16, <1>17, <1>18 DEF ReadsPiece

\* A send that passes nothing on is no use of the device.
LEMMA EchoUsesDevice ==
  ASSUME DataInv, CommandsWhole, NEW c \in Clients, Echo(c) \/ EchoCut(c)
  PROVE  UNCHANGED <<log, partial, echo>> \/ ReadsPiece(c)
  <1>1. PICK sent : SendStep(c, sent)
    BY EchoIsStep
  <1>2. CASE sent = f_pos[c]
    <2>1. PICK f, w : f = f_pos[c] /\ w = Contents
      OBVIOUS
    <2>2. f \in Nat /\ f < Len(w) /\ w \in Seq(Bytes) /\ echo' = [echo EXCEPT ![c] = @ \o SubSeq(w, f + 1, f)]
      BY <1>1, <1>2, <2>1, ContentsType DEF SendStep, DataInv, DataTypes
    <2>3. SubSeq(w, f + 1, f) = <<>>
      BY <2>2
    <2>4. echo \in [Clients -> Seq(Bytes)] /\ echo[c] \in Seq(Bytes)
      BY DEF DataInv, DataTypes
    <2>5. echo[c] \o <<>> = echo[c]
      BY <2>4
    <2>6. echo' = [echo EXCEPT ![c] = echo[c]]
      BY <2>2, <2>3, <2>5
    <2>7. echo' = echo
      BY <2>4, <2>6
    <2> QED BY <1>1, <2>7 DEF SendStep
  <1>3. CASE sent # f_pos[c]
    BY <1>1, <1>3, PieceUsesDevice
  <1> QED BY <1>2, <1>3

\* Everything else leaves the device and the echo alone.
LEMMA OthersUseNothing ==
  ASSUME ServerInv, DataInv, [Next]_vars, \A c \in Clients : ~(WriteChunk(c) \/ Echo(c) \/ EchoCut(c))
  PROVE  UNCHANGED <<log, partial, echo>>
  <1>1. CASE \/ Main \/ MainAcceptFails \/ Signal \/ NoMemory \/ Restart \/ UNCHANGED vars
             \/ \E c \in Clients : EchoKills(c)
    BY <1>1, OthersCalm DEF Calm
  <1>2. CASE \E c \in Clients : Connect(c) \/ LockFile(c) \/ Work(c)
    <2>1. PICK c \in Clients : Connect(c) \/ LockFile(c) \/ Work(c)
      BY <1>2
    <2>2. CASE \/ Connect(c) \/ RecvEnds(c) \/ LockFile(c) \/ OpenFile(c) \/ NoFile(c) \/ UnlockFile(c)
               \/ CloseClient(c) \/ SetDone(c) \/ ThreadEnds(c)
      BY <2>2, WorkersCalm DEF Calm
    <2>3. CASE Recv(c) \/ Seek(c) \/ WriteFails(c) \/ EchoEnds(c) \/ ReadFails(c)
      BY <2>3 DEF Recv, Seek, WriteFails, TakeNode, EchoEnds, ReadFails, CloseFile, fileVars
    <2> QED BY <2>1, <2>2, <2>3 DEF Work
  <1>3. CASE \E s \in Stampers : StamperStarts(s) \/ StamperLocks(s) \/ StamperFails(s) \/ StamperUnlocks(s)
    BY <1>3, OthersCalm DEF Calm
  <1>4. CASE \E s \in Stampers : StamperWrites(s)
    BY <1>4 DEF StamperWrites, Stamp, fileVars
  <1> QED BY <1>1, <1>2, <1>3, <1>4 DEF Next, StampWork

LEMMA StepUsesDevice ==
  ServerInv /\ DataInv /\ CommandsWhole /\ [Next]_vars => [DeviceUse]_<<log, partial, echo>>
  <1> SUFFICES ASSUME ServerInv, DataInv, CommandsWhole, [Next]_vars
               PROVE  [DeviceUse]_<<log, partial, echo>>
    OBVIOUS
  <1>1. CASE \A c \in Clients : ~(WriteChunk(c) \/ Echo(c) \/ EchoCut(c))
    BY <1>1, OthersUseNothing
  <1>2. CASE \E c \in Clients : WriteChunk(c) \/ Echo(c) \/ EchoCut(c)
    BY <1>2, WriteUsesDevice, EchoUsesDevice DEF DeviceUse
  <1> QED BY <1>1, <1>2

LEMMA CommandsStayWhole ==
  ASSUME DataInv, CommandsWhole, [DeviceUse]_<<log, partial, echo>>
  PROVE  CommandsWhole'
  <1>1. CASE UNCHANGED <<log, partial>>
    BY <1>1 DEF CommandsWhole, Device!HasNewline
  <1>2. CASE log' = log /\ ~Device!HasNewline(partial')
    BY <1>2 DEF CommandsWhole, Device!HasNewline
  <1>3. ASSUME NEW data, data \in Seq(Bytes), Device!HasNewline(data), log' = Device!Remember(data),
               partial' = <<>>
        PROVE  CommandsWhole'
    <2>1. PICK V : V = Seq(Bytes)
      OBVIOUS
    <2>2. log \in Seq(V) /\ Len(log) \in Nat /\ data \in V
      BY <1>3, <2>1 DEF DataInv, DataTypes
    <2>3. ASSUME NEW k \in 1 .. Len(log') PROVE Device!HasNewline(log'[k])
      <3>1. \/ log' = Append(log, data)
            \/ Len(log) >= MaxOps /\ log' = Append(Tail(log), data)
        BY <1>3, <2>2, ScriptType DEF Device!Remember
      <3>2. log'[k] = data \/ \E i \in 1 .. Len(log) : log'[k] = log[i]
        <4>1. CASE log' = Append(log, data)
          BY <2>2, <2>3, <4>1
        <4>2. CASE Len(log) >= MaxOps /\ log' = Append(Tail(log), data)
          <5>1. log # <<>>
            BY <2>2, <4>2, NumbersAssumption
          <5>2. PICK t : t = Tail(log)
            OBVIOUS
          <5>3. t \in Seq(V) /\ Len(t) = Len(log) - 1 /\ \A i \in 1 .. Len(t) : t[i] = log[i + 1]
            BY <2>2, <5>1, <5>2
          <5>4. /\ Len(log') = Len(t) + 1 /\ log'[Len(t) + 1] = data
                /\ \A i \in 1 .. Len(t) : log'[i] = t[i]
            BY <2>2, <4>2, <5>2, <5>3
          <5>5. Len(t) \in Nat /\ (k \in 1 .. Len(t) \/ k = Len(t) + 1)
            BY <2>3, <5>3, <5>4
          <5>6. CASE k \in 1 .. Len(t)
            <6>1. k + 1 \in 1 .. Len(log) /\ log'[k] = log[k + 1]
              BY <2>2, <5>3, <5>4, <5>6
            <6> QED BY <6>1
          <5> QED BY <5>4, <5>5, <5>6
        <4> QED BY <3>1, <4>1, <4>2
      <3> QED BY <1>3, <3>2 DEF CommandsWhole
    <2>4. ~Device!HasNewline(<<>>)
      BY DEF Device!HasNewline
    <2> QED BY <1>3, <2>3, <2>4 DEF CommandsWhole, Device!HasNewline
  <1>4. CASE \E c \in Clients : WritesChunk(c)
    <2>0. PICK c \in Clients : WritesChunk(c)
      BY <1>4
    <2>1. PICK i \in 1 .. Len(Script[c]) :
            \/ Device!Extend(Script[c][i]) /\ ~Device!HasNewline(partial')
            \/ ExtendAndCommit(Script[c][i])
      BY <2>0 DEF WritesChunk
    <2>2. PICK chunk : chunk = Script[c][i]
      OBVIOUS
    <2>3. chunk \in Seq(Bytes) /\ partial \in Seq(Bytes)
      BY <2>2, ScriptType DEF DataInv, DataTypes
    <2>4. partial \o chunk \in Seq(Bytes)
      BY <2>3
    <2> QED BY <1>2, <1>3, <2>1, <2>2, <2>4 DEF ExtendAndCommit, Device!Extend
  <1>5. CASE \E c \in Clients : ReadsPiece(c)
    BY <1>1, <1>5 DEF ReadsPiece, DeliverAndSend
  <1> QED BY <1>1, <1>4, <1>5 DEF DeviceUse

\* The device holds whole commands: between any two steps of the server nothing that it
\* remembers is without its newline, and nothing in progress has one
\* (processClientConnection, the write of a node).
THEOREM ServerCommandsWhole == Spec => []CommandsWhole
  <1>1. Init => ServerInv /\ DataInv /\ CommandsWhole
    <2>1. Init => CommandsWhole
      BY DEF Init, CommandsWhole, Device!HasNewline
    <2> QED BY <2>1, ServerInit, DataInit
  <1>2. ServerInv /\ DataInv /\ CommandsWhole /\ [Next]_vars => (ServerInv /\ DataInv /\ CommandsWhole)'
    BY ServerStep, DataStep, StepUsesDevice, CommandsStayWhole
  <1> QED BY <1>1, <1>2, PTL DEF Spec

\* The server asks of the device only what CommandDevice lets a user do, and takes from
\* it only what CommandDevice promises: a write of a node is one Extend, with a Commit
\* when the chunk brings the newline, and a read that is sent on is a Deliver of a piece
\* of one remembered command, at least a byte and at most ReadSize; a fault, a signal or a
\* restart between them is no use of the device (processClientConnection).
THEOREM ServerUsesDevice == Spec => UsesDevice
  <1>1. Init => ServerInv /\ DataInv
    BY ServerInit, DataInit
  <1>2. ServerInv /\ DataInv /\ [Next]_vars => (ServerInv /\ DataInv)'
    BY ServerStep, DataStep
  <1>3. ServerInv /\ DataInv /\ CommandsWhole /\ [Next]_vars => [DeviceUse]_<<log, partial, echo>>
    BY StepUsesDevice
  <1>4. Spec => [][DeviceUse]_<<log, partial, echo>>
    BY <1>1, <1>2, <1>3, ServerCommandsWhole, PTL DEF Spec
  <1> QED BY <1>4 DEF UsesDevice, DeviceUse

----------------------------------------------------------------------------
(* The types of everything else.                                           *)

Control ==
  /\ build \in Builds
  /\ starts \in 1 .. MaxStarts
  /\ main \in Mains
  /\ client_fd \in Clients \cup {Null}
  /\ exit_requested \in BOOLEAN
  /\ next \in [Nodes -> Clients \cup {Null}]
  /\ prev \in Nodes \cup {Null}
  /\ current \in Clients \cup {Null}
  /\ file_mutex \in Clients \cup Stampers \cup {Null}
  /\ failed \subseteq Clients \X {"send", "read"}

LEMMA ControlInit == Init => Control
  <1> SUFFICES ASSUME Init PROVE Control
    OBVIOUS
  <1>1. starts = 1 /\ exit_requested = FALSE /\ next = OfAll(Nodes, Null)
    BY DEF Init, Nodes
  <1>2. MaxStarts \in Nat \ {0}
    BY NumbersAssumption
  <1>3. starts \in 1 .. MaxStarts
    BY <1>1, <1>2
  <1>4. exit_requested \in BOOLEAN
    BY <1>1
  <1>5. next \in [Nodes -> Clients \cup {Null}]
    BY <1>1 DEF OfAll, Nodes
  <1> QED BY <1>3, <1>4, <1>5 DEF Init, Control, Mains

LEMMA ControlStep == ServerInv /\ Control /\ [Next]_vars => Control'
  <1> SUFFICES ASSUME ServerInv, Control, [Next]_vars PROVE Control'
    OBVIOUS
  <1>1. CASE Main \/ MainAcceptFails \/ Signal \/ NoMemory \/ \E c \in Clients : EchoKills(c)
    <2>1. UNCHANGED <<build, starts, file_mutex, failed>>
      BY <1>1 DEF Main, MainStart, MainStartFails, MainCheck, MainBlock, MainAccept, MainExitCheck,
                  MainCreate, MainCreateFails, NewArg, MainAppend, AppendAndReap, MainUnlink, MainSkip,
                  StepOn, MainJoin, FreeArg, MainReaped, MainAcceptFails, Signal, NoMemory, EchoKills,
                  Dies, MainGo, workVars, fileVars, outerVars
    <2>2. main' \in Mains /\ exit_requested' \in BOOLEAN
      BY <1>1 DEF Main, MainStart, MainStartFails, MainCheck, MainBlock, MainAccept, MainExitCheck,
                  MainCreate, MainCreateFails, NewArg, MainAppend, AppendAndReap, MainUnlink, MainSkip,
                  StepOn, MainJoin, FreeArg, MainReaped, MainAcceptFails, Signal, NoMemory, EchoKills,
                  Dies, MainGo, Control, Mains
    <2>3. CASE MainAppend
      <3>1. next' \in [Nodes -> Clients \cup {Null}]
        <4>1. PICK last : next' = [next EXCEPT ![last] = client_fd]
          BY <2>3 DEF MainAppend, AppendAndReap
        <4> QED BY <4>1 DEF Control
      <3>2. prev' = DummyNode /\ current' = next'[DummyNode] /\ client_fd' = Null
        BY <2>3 DEF MainAppend, AppendAndReap
      <3> QED BY <2>1, <2>2, <3>1, <3>2 DEF Control, Nodes
    <2>4. CASE MainUnlink
      <3>1. current \in Clients /\ next[current] \in Clients \cup {Null}
        BY <2>4 DEF MainUnlink, Control, Nodes
      <3>2. /\ next' = [next EXCEPT ![prev] = next[current]] /\ client_fd' = current
            /\ current' = next[current] /\ prev' = prev
        BY <2>4 DEF MainUnlink
      <3>3. next' \in [Nodes -> Clients \cup {Null}]
        BY <3>1, <3>2 DEF Control
      <3> QED BY <2>1, <2>2, <3>1, <3>2, <3>3 DEF Control
    <2>5. CASE MainSkip
      <3>1. current \in Clients /\ next[current] \in Clients \cup {Null}
        BY <2>5 DEF MainSkip, StepOn, Control, Nodes
      <3>2. UNCHANGED <<next, client_fd>> /\ current' = next[current] /\ prev' = current
        BY <2>5 DEF MainSkip, StepOn
      <3> QED BY <2>1, <2>2, <3>1, <3>2 DEF Control, Nodes
    <2>6. CASE ~(MainAppend \/ MainUnlink \/ MainSkip)
      <3>1. next' = next /\ current' = current /\ (prev' = prev \/ prev' = Null)
            /\ client_fd' \in Clients \cup {Null}
        BY <1>1, <2>6 DEF Main, MainStart, MainStartFails, MainCheck, MainBlock, MainAccept,
                  MainExitCheck, MainCreate, MainCreateFails, NewArg, MainJoin, FreeArg, MainReaped,
                  MainAcceptFails, Signal, NoMemory, EchoKills, Dies, listVars, Control
      <3> QED BY <2>1, <2>2, <3>1 DEF Control
    <2> QED BY <2>3, <2>4, <2>5, <2>6
  <1>2. CASE Restart
    <2>1. starts' \in 1 .. MaxStarts
      BY <1>2, NumbersAssumption DEF Restart, Control
    <2>2. next' \in [Nodes -> Clients \cup {Null}]
      BY <1>2 DEF Restart, OfAll, Nodes
    <2>3. exit_requested' \in BOOLEAN
      BY <1>2 DEF Restart
    <2> QED BY <1>2, <2>1, <2>2, <2>3 DEF Restart, Control, Mains
  <1>3. CASE \E c \in Clients : Connect(c) \/ LockFile(c) \/ Work(c)
    <2>1. PICK c \in Clients : Connect(c) \/ LockFile(c) \/ Work(c)
      BY <1>3
    <2>2. UNCHANGED <<build, starts, mainVars>> /\ file_mutex' \in {file_mutex, c, Null}
      <3>1. CASE Connect(c) \/ LockFile(c) \/ Recv(c) \/ RecvEnds(c) \/ OpenFile(c) \/ NoFile(c) \/ Seek(c)
        BY <3>1 DEF Connect, LockFile, Recv, RecvEnds, OpenFile, NoFile, Seek, GoOn, Go, workVars, outerVars
      <3>2. CASE WriteChunk(c) \/ WriteFails(c) \/ UnlockFile(c)
        BY <3>2 DEF WriteChunk, WriteNode, TakeNode, WriteFails, UnlockFile, Unlock, Go
      <3>3. CASE Echo(c) \/ EchoCut(c) \/ EchoEnds(c) \/ ReadFails(c)
        BY <3>3 DEF Echo, EchoCut, ReadAndSend, EchoEnds, ReadFails, CloseFile, Go
      <3>4. CASE CloseClient(c) \/ SetDone(c) \/ ThreadEnds(c)
        BY <3>4 DEF CloseClient, SetDone, ThreadEnds, Done, GoOn, Go
      <3> QED BY <2>1, <3>1, <3>2, <3>3, <3>4 DEF Work
    <2>3. failed' \in {failed, failed \cup {<<c, "send">>}, failed \cup {<<c, "read">>}}
      <3>1. CASE Connect(c) \/ LockFile(c) \/ Recv(c) \/ RecvEnds(c) \/ OpenFile(c) \/ NoFile(c) \/ Seek(c)
        BY <3>1 DEF Connect, LockFile, Recv, RecvEnds, OpenFile, NoFile, Seek, GoOn, workVars, fileVars
      <3>2. CASE WriteChunk(c) \/ WriteFails(c) \/ UnlockFile(c)
        BY <3>2 DEF WriteChunk, WriteNode, TakeNode, WriteFails, UnlockFile, Unlock, fileVars
      <3>3. CASE Echo(c) \/ EchoCut(c) \/ EchoEnds(c) \/ ReadFails(c)
        BY <3>3 DEF Echo, EchoCut, EchoEnds, ReadFails
      <3>4. CASE CloseClient(c) \/ SetDone(c) \/ ThreadEnds(c)
        BY <3>4 DEF CloseClient, SetDone, ThreadEnds, Done, GoOn, fileVars
      <3> QED BY <2>1, <3>1, <3>2, <3>3, <3>4 DEF Work
    <2>4. failed' \subseteq Clients \X {"send", "read"}
      BY <2>3 DEF Control
    <2> QED BY <2>2, <2>4 DEF Control, mainVars, listVars
  <1>4. CASE \E s \in Stampers : StamperStarts(s) \/ StamperLocks(s) \/ StampWork(s)
    <2>1. UNCHANGED <<build, starts, failed, mainVars>> /\ file_mutex' \in Stampers \cup {file_mutex, Null}
      BY <1>4 DEF StamperStarts, StamperLocks, StampWork, StamperWrites, StamperFails, StamperUnlocks, Stamp,
                  fileVars
    <2> QED BY <2>1 DEF Control, mainVars, listVars
  <1>5. CASE UNCHANGED vars
    BY <1>5 DEF vars, mainVars, listVars, workVars, fileVars, outerVars, Control
  <1> QED BY <1>1, <1>2, <1>3, <1>4, <1>5 DEF Next

\* Every variable of the server has its type; a position is never negative and the log is
\* never longer than the device's memory; the join loop has a node before it (main).
THEOREM ServerTypeCorrect == Spec => []TypeOK
  <1>1. ServerInv /\ ListInv /\ DataInv /\ Control => TypeOK
    <2> SUFFICES ASSUME ServerInv, ListInv, DataInv, Control PROVE TypeOK
      OBVIOUS
    <2>1. main \in {"reap", "join"} => prev # Null
      BY NodesDiffer DEF ListInv, ListShape, Running, Linked, Threads, Nodes
    <2>2. ASSUME NEW c \in Clients PROVE written[c] \in 0 .. got[c] /\ got[c] \in 0 .. Len(Script[c])
      BY ScriptType DEF DataInv, DataTypes, Progress
    <2> QED BY <2>1, <2>2 DEF TypeOK, Control, Nodes, ServerInv, ServerTypes, Stampings, DataInv, DataTypes
  <1>2. Init => ServerInv /\ ListInv /\ DataInv /\ Control
    BY ServerInit, ListInit, DataInit, ControlInit
  <1>3. ServerInv /\ ListInv /\ DataInv /\ Control /\ [Next]_vars =>
          (ServerInv /\ ListInv /\ DataInv /\ Control)'
    BY ServerStep, ListStep, DataStep, ControlStep
  <1> QED BY <1>1, <1>2, <1>3, PTL DEF Spec
=============================================================================
