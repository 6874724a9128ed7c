-------------------------- MODULE ThreadingExample --------------------------
(***************************************************************************)
(* start_thread_obtaining_mutex and the thread it starts                   *)
(* (examples/threading/threading.c), with the caller its header describes: *)
(* it starts threads on one mutex, may hold the mutex itself meanwhile,    *)
(* joins the threads, looks at thread_complete_success and frees the       *)
(* thread_data.                                                            *)
(*                                                                         *)
(* A definition whose name ends in _Slip is not part of the model: see     *)
(* CircularBuffer.                                                         *)
(***************************************************************************)
CONSTANTS
  Threads,   \* one for each call of start_thread_obtaining_mutex
  Caller,    \* the program that makes the calls
  Nobody,
  Faults     \* whether malloc, pthread_create and the mutex calls may fail

ASSUME NamesAssumption ==
  Caller \notin Threads /\ Nobody \notin Threads \cup {Caller} /\ Faults \in BOOLEAN

VARIABLES
  start,     \* where the call that starts a thread is, or what it returned
  thread,    \* where the thread is
  block,     \* its thread_data: "none", "live", "freed"
  thread_complete_success,
  verdict,   \* what the caller read of it: "unread", "success", "failure"
  mutex,     \* its owner
  held       \* history: the threads that have had the mutex

vars == <<start, thread, block, thread_complete_success, verdict, mutex, held>>

\* A step of a thread that leaves the caller alone, and one of the caller.
ThreadStep(t, from, to) ==
  /\ thread[t] = from
  /\ thread' = [thread EXCEPT ![t] = to]
  /\ UNCHANGED <<start, block, verdict>>

StartStep(t, from, to) ==
  /\ start[t] = from
  /\ start' = [start EXCEPT ![t] = to]
  /\ UNCHANGED <<verdict, mutex, held>>

----------------------------------------------------------------------------
(* The caller                                                              *)

\* The call of start_thread_obtaining_mutex: malloc and the fields of the block.
Allocate(t) ==
  /\ StartStep(t, "not_called", "allocated")
  /\ block' = [block EXCEPT ![t] = "live"]
  /\ thread_complete_success' = [thread_complete_success EXCEPT ![t] = FALSE]
  /\ UNCHANGED thread

NoMemory(t) ==
  /\ Faults
  /\ StartStep(t, "not_called", "false")
  /\ UNCHANGED <<thread, block, thread_complete_success>>

\* The thread may run before the call that creates it returns.
Create(t) ==
  /\ StartStep(t, "allocated", "created")
  /\ thread' = [thread EXCEPT ![t] = "sleep"]
  /\ UNCHANGED <<block, thread_complete_success>>

\* The block is left to a thread that does not exist.
CreateFails_Slip(t) ==
  /\ Faults
  /\ StartStep(t, "allocated", "false")
  /\ UNCHANGED <<thread, block, thread_complete_success>>

CreateFails(t) ==
  /\ Faults
  /\ StartStep(t, "allocated", "false")
  /\ block' = [block EXCEPT ![t] = "freed"]
  /\ UNCHANGED <<thread, thread_complete_success>>

\* The call waits for its thread.
Return_Slip(t) ==
  /\ thread[t] = "returned"
  /\ StartStep(t, "created", "true")
  /\ UNCHANGED <<thread, block, thread_complete_success>>

Return(t) ==
  /\ StartStep(t, "created", "true")
  /\ UNCHANGED <<thread, block, thread_complete_success>>

\* pthread_join, thread_complete_success, free.
Join(t) ==
  /\ start[t] = "true"
  /\ thread[t] = "returned"
  /\ thread' = [thread EXCEPT ![t] = "joined"]
  /\ verdict' = [verdict EXCEPT ![t] =
                   IF thread_complete_success[t] THEN "success" ELSE "failure"]
  /\ block' = [block EXCEPT ![t] = "freed"]
  /\ UNCHANGED <<start, thread_complete_success, mutex, held>>

CallerLock ==
  /\ mutex = Nobody
  /\ mutex' = Caller
  /\ UNCHANGED <<start, thread, block, thread_complete_success, verdict, held>>

CallerUnlock ==
  /\ mutex = Caller
  /\ mutex' = Nobody
  /\ UNCHANGED <<start, thread, block, thread_complete_success, verdict, held>>

----------------------------------------------------------------------------
(* threadfunc                                                              *)

\* usleep(wait_to_obtain_ms * 1000)
WaitToObtain(t) ==
  /\ ThreadStep(t, "sleep", "lock")
  /\ UNCHANGED <<thread_complete_success, mutex, held>>

Obtain(t) ==
  /\ ThreadStep(t, "lock", "hold")
  /\ mutex = Nobody
  /\ mutex' = t
  /\ held' = held \cup {t}
  /\ UNCHANGED thread_complete_success

\* The thread goes on although it has not got the mutex.
ObtainFails_Slip(t) ==
  /\ Faults
  /\ ThreadStep(t, "lock", "hold")
  /\ UNCHANGED <<thread_complete_success, mutex, held>>

ObtainFails(t) ==
  /\ Faults
  /\ ThreadStep(t, "lock", "returned")
  /\ UNCHANGED <<thread_complete_success, mutex, held>>

\* The flag is set before the mutex is given back.
WaitToRelease_Slip(t) ==
  /\ ThreadStep(t, "hold", "unlock")
  /\ thread_complete_success' = [thread_complete_success EXCEPT ![t] = TRUE]
  /\ UNCHANGED <<mutex, held>>

\* usleep(wait_to_release_ms * 1000)
WaitToRelease(t) ==
  /\ ThreadStep(t, "hold", "unlock")
  /\ UNCHANGED <<thread_complete_success, mutex, held>>

\* The mutex is locked again instead.
Release_Slip(t) ==
  /\ mutex = Nobody
  /\ ThreadStep(t, "unlock", "released")
  /\ UNCHANGED <<thread_complete_success, mutex, held>>

Release(t) ==
  /\ ThreadStep(t, "unlock", "released")
  /\ mutex' = Nobody
  /\ UNCHANGED <<thread_complete_success, held>>

\* The mutex stays with a thread that ends.
ReleaseFails(t) ==
  /\ Faults
  /\ ThreadStep(t, "unlock", "returned")
  /\ UNCHANGED <<thread_complete_success, mutex, held>>

Succeed(t) ==
  /\ ThreadStep(t, "released", "returned")
  /\ thread_complete_success' = [thread_complete_success EXCEPT ![t] = TRUE]
  /\ UNCHANGED <<mutex, held>>

----------------------------------------------------------------------------

Init ==
  /\ start = [t \in Threads |-> "not_called"]
  /\ thread = [t \in Threads |-> "absent"]
  /\ block = [t \in Threads |-> "none"]
  /\ thread_complete_success = [t \in Threads |-> FALSE]
  /\ verdict = [t \in Threads |-> "unread"]
  /\ mutex = Nobody
  /\ held = {}

Starting(t) == Create(t) \/ CreateFails(t) \/ Return(t)

\* The thread, without its wait for the mutex.
Running(t) == WaitToObtain(t) \/ WaitToRelease(t) \/ Release(t) \/ Succeed(t)

Next ==
  \/ CallerLock \/ CallerUnlock
  \/ \E t \in Threads :
       \/ Allocate(t) \/ NoMemory(t) \/ Starting(t) \/ Join(t)
       \/ Running(t) \/ Obtain(t) \/ ObtainFails(t) \/ ReleaseFails(t)

Spec == Init /\ [][Next]_vars

\* Sleeps end, runnable threads run, the caller lets go of the mutex, and every
\* waiter gets it sooner or later.  Nobody has to call or join, and nothing has to fail.
Fairness ==
  /\ WF_vars(CallerUnlock)
  /\ \A t \in Threads : WF_vars(Starting(t)) /\ WF_vars(Running(t)) /\ SF_vars(Obtain(t))

FairSpec == Spec /\ Fairness

----------------------------------------------------------------------------
(* Properties                                                              *)

TypeOK ==
  /\ start \in [Threads -> {"not_called", "allocated", "created", "true", "false"}]
  /\ thread \in [Threads -> {"absent", "sleep", "lock", "hold", "unlock", "released",
                             "returned", "joined"}]
  /\ block \in [Threads -> {"none", "live", "freed"}]
  /\ thread_complete_success \in [Threads -> BOOLEAN]
  /\ verdict \in [Threads -> {"unread", "success", "failure"}]
  /\ mutex \in Threads \cup {Caller, Nobody}
  /\ held \subseteq Threads

\* A thread that holds (threadfunc, between lock and unlock) is the owner of the
\* mutex: never two at a time, nor one beside the caller, even when a lock fails.
MutualExclusion ==
  \A t \in Threads : thread[t] \in {"hold", "unlock"} => mutex = t

\* A thread_data has one owner at a time (the call, the thread, the joiner) who
\* frees it: it is allocated as long as somebody will use it, and not longer,
\* whatever fails in between.
BlockHasOneOwner ==
  \A t \in Threads :
    block[t] = "live" <=> start[t] = "allocated" \/ thread[t] \notin {"absent", "joined"}

\* What the joiner reads in thread_complete_success is true exactly when the
\* thread has held the mutex and given it back.
FlagTellsTheTruth ==
  \A t \in Threads :
    verdict[t] # "unread" => (verdict[t] = "success" <=> t \in held /\ mutex # t)

\* start_thread_obtaining_mutex returns whoever holds the mutex, for however long.
StartDoesNotBlock ==
  \A t \in Threads : start[t] = "allocated" ~> start[t] \in {"true", "false"}

\* Every started thread ends, unless one that failed to unlock has ended with
\* the mutex.
EveryThreadEnds ==
  \A t \in Threads :
    thread[t] = "sleep" ~>
      \/ thread[t] \in {"returned", "joined"}
      \/ mutex \in Threads /\ thread[mutex] \in {"returned", "joined"}
=============================================================================
