--------------------------- MODULE ThreadingProofs ---------------------------
(***************************************************************************)
(* ThreadingExample's safety for any number of threads.  What each thread  *)
(* knows about its block, its mutex and its flag is one predicate on one   *)
(* thread, ThreadInv: a step moves one thread, and disturbs the others     *)
(* only by taking or giving back the mutex.                                *)
(***************************************************************************)
EXTENDS ThreadingExample, TLAPS

\* Whose block it is, what the thread has to do with the mutex, and what its flag
\* and the joiner's reading of it say.
ThreadInv(t) ==
  /\ thread[t] = "absent" <=> start[t] \in {"not_called", "allocated", "false"}
  /\ block[t] = "live" <=> start[t] = "allocated" \/ thread[t] \notin {"absent", "joined"}
  /\ thread[t] \in {"absent", "sleep", "lock"} => t \notin held
  /\ thread[t] \in {"hold", "unlock"} => mutex = t
  /\ thread[t] = "released" => t \in held /\ mutex # t
  /\ mutex = t => t \in held
  /\ thread_complete_success[t] <=>
       thread[t] \in {"returned", "joined"} /\ t \in held /\ mutex # t
  /\ verdict[t] # "unread" =>
       thread[t] = "joined" /\ (verdict[t] = "success" <=> thread_complete_success[t])

ThreadingInv == TypeOK /\ \A t \in Threads : ThreadInv(t)

\* The threads that this step does not move, when it leaves the mutex to them as it was.
LEMMA OthersKeep ==
  ASSUME NEW t \in Threads, NEW u \in Threads, ThreadInv(u), u # t,
         start'[u] = start[u], thread'[u] = thread[u], block'[u] = block[u],
         thread_complete_success'[u] = thread_complete_success[u],
         verdict'[u] = verdict[u],
         mutex = u <=> mutex' = u, u \in held <=> u \in held'
  PROVE  ThreadInv(u)'
  BY DEF ThreadInv

LEMMA InitHolds == Init => ThreadingInv
  BY NamesAssumption DEF Init, ThreadingInv, TypeOK, ThreadInv

\* The caller takes the mutex from nobody and gives back its own.
LEMMA CallerStep ==
  ASSUME ThreadingInv, CallerLock \/ CallerUnlock
  PROVE  ThreadingInv'
  <1>1. TypeOK'
    BY DEF ThreadingInv, TypeOK, CallerLock, CallerUnlock
  <1>2. ASSUME NEW t \in Threads PROVE ThreadInv(t)'
    BY NamesAssumption DEF ThreadingInv, ThreadInv, CallerLock, CallerUnlock
  <1> QED BY <1>1, <1>2 DEF ThreadingInv

\* start_thread_obtaining_mutex and the join.
LEMMA CallStep ==
  ASSUME ThreadingInv, NEW t \in Threads,
         \/ Allocate(t) \/ NoMemory(t) \/ Create(t) \/ CreateFails(t) \/ Return(t) \/ Join(t)
  PROVE  ThreadingInv'
  <1> USE DEF ThreadingInv, TypeOK, StartStep
  <1>1. CASE Allocate(t) \/ NoMemory(t)
    <2>1. TypeOK'
      BY <1>1 DEF Allocate, NoMemory
    <2>2. ThreadInv(t)'
      BY <1>1 DEF ThreadInv, Allocate, NoMemory
    <2>3. ASSUME NEW u \in Threads, u # t PROVE ThreadInv(u)'
      BY <1>1, <2>3, OthersKeep DEF Allocate, NoMemory
    <2> QED BY <2>1, <2>2, <2>3
  <1>2. CASE Create(t) \/ CreateFails(t) \/ Return(t)
    <2>1. TypeOK'
      BY <1>2 DEF Create, CreateFails, Return
    <2>2. ThreadInv(t)'
      BY <1>2 DEF ThreadInv, Create, CreateFails, Return
    <2>3. ASSUME NEW u \in Threads, u # t PROVE ThreadInv(u)'
      BY <1>2, <2>3, OthersKeep DEF Create, CreateFails, Return
    <2> QED BY <2>1, <2>2, <2>3
  <1>3. CASE Join(t)
    <2>1. TypeOK'
      BY <1>3 DEF Join
    <2>2. ThreadInv(t)'
      BY <1>3 DEF ThreadInv, Join
    <2>3. ASSUME NEW u \in Threads, u # t PROVE ThreadInv(u)'
      BY <1>3, <2>3, OthersKeep DEF Join
    <2> QED BY <2>1, <2>2, <2>3
  <1> QED BY <1>1, <1>2, <1>3

\* threadfunc.
LEMMA FuncStep ==
  ASSUME ThreadingInv, NEW t \in Threads,
         \/ Running(t) \/ Obtain(t) \/ ObtainFails(t) \/ ReleaseFails(t)
  PROVE  ThreadingInv'
  <1> USE NamesAssumption DEF ThreadingInv, TypeOK, ThreadStep
  <1>1. CASE WaitToObtain(t) \/ WaitToRelease(t) \/ Succeed(t)
    <2>1. TypeOK'
      BY <1>1 DEF WaitToObtain, WaitToRelease, Succeed
    <2>2. ThreadInv(t)'
      BY <1>1 DEF ThreadInv, WaitToObtain, WaitToRelease, Succeed
    <2>3. ASSUME NEW u \in Threads, u # t PROVE ThreadInv(u)'
      BY <1>1, <2>3, OthersKeep DEF WaitToObtain, WaitToRelease, Succeed
    <2> QED BY <2>1, <2>2, <2>3
  <1>2. CASE Obtain(t)
    <2>1. TypeOK'
      BY <1>2 DEF Obtain
    <2>2. ThreadInv(t)'
      BY <1>2 DEF ThreadInv, Obtain
    <2>3. ASSUME NEW u \in Threads, u # t PROVE ThreadInv(u)'
      <3>1. mutex # u /\ mutex' # u /\ (u \in held <=> u \in held')
        BY <1>2, <2>3 DEF Obtain
      <3> QED BY <1>2, <2>3, <3>1, OthersKeep DEF Obtain
    <2> QED BY <2>1, <2>2, <2>3
  <1>3. CASE Release(t)
    <2>1. TypeOK'
      BY <1>3 DEF Release
    <2>2. mutex = t /\ t \in held
      BY <1>3 DEF ThreadInv, Release
    <2>3. ThreadInv(t)'
      BY <1>3, <2>2 DEF ThreadInv, Release
    <2>4. ASSUME NEW u \in Threads, u # t PROVE ThreadInv(u)'
      <3>1. mutex # u /\ mutex' # u
        BY <1>3, <2>2, <2>4 DEF Release
      <3> QED BY <1>3, <2>4, <3>1, OthersKeep DEF Release
    <2> QED BY <2>1, <2>3, <2>4
  <1>4. CASE ObtainFails(t) \/ ReleaseFails(t)
    <2>1. TypeOK'
      BY <1>4 DEF ObtainFails, ReleaseFails
    <2>2. ThreadInv(t)'
      BY <1>4 DEF ThreadInv, ObtainFails, ReleaseFails
    <2>3. ASSUME NEW u \in Threads, u # t PROVE ThreadInv(u)'
      BY <1>4, <2>3, OthersKeep DEF ObtainFails, ReleaseFails
    <2> QED BY <2>1, <2>2, <2>3
  <1> QED BY <1>1, <1>2, <1>3, <1>4 DEF Running

\* ThreadingInv holds always, for any set of threads and whichever calls fail
\* (start_thread_obtaining_mutex, threadfunc and their caller).
THEOREM ThreadingInvariant == Spec => []ThreadingInv
  <1>1. Init => ThreadingInv
    BY InitHolds
  <1>2. ThreadingInv /\ [Next]_vars => ThreadingInv'
    <2> SUFFICES ASSUME ThreadingInv, [Next]_vars PROVE ThreadingInv'
      OBVIOUS
    <2>1. CASE CallerLock \/ CallerUnlock
      BY <2>1, CallerStep
    <2>2. CASE \E t \in Threads : Allocate(t) \/ NoMemory(t) \/ Starting(t) \/ Join(t)
      BY <2>2, CallStep DEF Starting
    <2>3. CASE \E t \in Threads : Running(t) \/ Obtain(t) \/ ObtainFails(t) \/ ReleaseFails(t)
      BY <2>3, FuncStep
    <2>4. CASE UNCHANGED vars
      BY <2>4 DEF vars, ThreadingInv, TypeOK, ThreadInv
    <2> QED BY <2>1, <2>2, <2>3, <2>4 DEF Next
  <1> QED BY <1>1, <1>2, PTL DEF Spec

\* A thread that is between the lock and the unlock of threadfunc owns the mutex,
\* however many threads the caller starts on it and whichever calls fail.
THEOREM ThreadsExclude == Spec => []MutualExclusion
  <1>1. ThreadingInv => MutualExclusion
    BY DEF ThreadingInv, ThreadInv, MutualExclusion
  <1> QED BY <1>1, ThreadingInvariant, PTL

\* The thread_data of a call is allocated exactly as long as the call, the thread
\* or the joiner has it (the free after a failed pthread_create, the joiner's free).
THEOREM BlocksHaveOneOwner == Spec => []BlockHasOneOwner
  <1>1. ThreadingInv => BlockHasOneOwner
    BY DEF ThreadingInv, ThreadInv, BlockHasOneOwner
  <1> QED BY <1>1, ThreadingInvariant, PTL

\* The joiner finds thread_complete_success true exactly when the thread has had
\* the mutex and given it back.
THEOREM FlagsTellTheTruth == Spec => []FlagTellsTheTruth
  <1>1. ThreadingInv => FlagTellsTheTruth
    BY DEF ThreadingInv, ThreadInv, FlagTellsTheTruth
  <1> QED BY <1>1, ThreadingInvariant, PTL
=============================================================================
