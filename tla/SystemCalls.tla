---------------------------- MODULE SystemCalls ----------------------------
(***************************************************************************)
(* do_system, do_exec and do_exec_redirect (examples/systemcalls): a       *)
(* program that makes some of these calls one after the other, and the     *)
(* child process of each of them, which may outlive its call.              *)
(*                                                                         *)
(* A descriptor is named for what it refers to; the lowest free number is  *)
(* the one that open returns.  A definition whose name ends in _Slip is    *)
(* not part of the model: see CircularBuffer.                              *)
(***************************************************************************)
EXTENDS Naturals

CONSTANTS
  MaxCalls,  \* bound: the calls of the program
  Faults     \* whether fork, waitpid and the child's system calls may fail

ASSUME BoundAssumption == MaxCalls \in Nat /\ Faults \in BOOLEAN

Calls == 1 .. MaxCalls

VARIABLES
  stdout,    \* STDOUT_FILENO of the program: "terminal" or "closed"
  n,         \* the call it is in, or was in last
  func,      \* the function of each call
  parent,    \* where the program is
  result,    \* what each call returned: "none", "true", "false"
  child,     \* the process of each call: pc, fd1 (its STDOUT_FILENO), spare (the
             \* output file is open as another descriptor too), status (its end)
  cut_short  \* history: the calls whose waitpid was interrupted

vars == <<stdout, n, func, parent, result, child, cut_short>>

Return(value) ==
  /\ parent' = "ready"
  /\ result' = [result EXCEPT ![n] = IF value THEN "true" ELSE "false"]

Call(f) ==
  /\ parent = "ready"
  /\ n < MaxCalls
  /\ n' = n + 1
  /\ func' = [func EXCEPT ![n'] = f]
  /\ parent' = IF f = "do_system" THEN "system" ELSE "fork"
  /\ UNCHANGED <<stdout, result, child, cut_short>>

\* system(3) runs the command in a child of its own and waits for it; "error" is
\* its -1, and also the NULL command that do_system turns down before.
System(status) ==
  /\ parent = "system"
  /\ child' = [child EXCEPT ![n].pc = "reaped", ![n].status = status]
  /\ Return(status = "zero")
  /\ UNCHANGED <<stdout, n, func, cut_short>>

\* The child starts with a copy of the program's descriptors.
Fork ==
  /\ parent = "fork"
  /\ parent' = "wait"
  /\ child' = [child EXCEPT ![n].fd1 = stdout,
                            ![n].pc = IF func[n] = "do_exec" THEN "exec" ELSE "open"]
  /\ UNCHANGED <<stdout, n, func, result, cut_short>>

ForkFails ==
  /\ Faults
  /\ parent = "fork"
  /\ Return(FALSE)
  /\ UNCHANGED <<stdout, n, func, child, cut_short>>

\* A signal the program handles interrupts waitpid; the child goes on.
WaitInterrupted ==
  /\ Faults
  /\ parent = "wait"
  /\ Return(FALSE)
  /\ cut_short' = cut_short \cup {n}
  /\ UNCHANGED <<stdout, n, func, child>>

WaitFor(c, value) ==
  /\ parent = "wait"
  /\ child[c].pc = "zombie"
  /\ child' = [child EXCEPT ![c].pc = "reaped"]
  /\ Return(value)
  /\ UNCHANGED <<stdout, n, func, cut_short>>

\* Any child will do (wait instead of waitpid).
Wait_AnyChild_Slip == \E c \in Calls : WaitFor(c, child[c].status = "zero")

\* WNOHANG: there is nothing to wait for yet.
Wait_NoHang_Slip == parent = "wait" /\ Return(FALSE) /\ UNCHANGED <<stdout, n, func, child, cut_short>>

\* waitpid, WIFEXITED and WEXITSTATUS
Wait == WaitFor(n, child[n].status = "zero")

----------------------------------------------------------------------------
(* The child of call c                                                     *)

ChildStep(c, from, next) ==
  /\ child[c].pc = from
  /\ child' = [child EXCEPT ![c] = next]
  /\ UNCHANGED <<stdout, n, func, parent, result, cut_short>>

Alive == {"open", "dup2", "close", "exec", "command"}

Ended(c, status) == [child[c] EXCEPT !.pc = "zombie", !.status = status]

\* With STDOUT_FILENO closed, that is the number open returns.
Open(c) ==
  ChildStep(c, "open", [child[c] EXCEPT !.pc = "dup2",
                          !.fd1 = IF @ = "closed" THEN "file" ELSE @,
                          !.spare = (child[c].fd1 # "closed")])

\* The arguments are swapped.
Dup2_Slip(c) == ChildStep(c, "dup2", [child[c] EXCEPT !.pc = "close"])

\* dup2(fd, STDOUT_FILENO), which does nothing when they are equal
Dup2(c) == ChildStep(c, "dup2", [child[c] EXCEPT !.pc = "close", !.fd1 = "file"])

\* close(fd)
Close(c) ==
  ChildStep(c, "close", IF child[c].spare
                        THEN [child[c] EXCEPT !.pc = "exec", !.spare = FALSE]
                        ELSE [child[c] EXCEPT !.pc = "exec", !.fd1 = "closed"])

Execv(c) == ChildStep(c, "exec", [child[c] EXCEPT !.pc = "command"])

\* The child returns from the function as a second copy of the program.
ExitFailure_Slip(c) ==
  /\ Faults
  /\ \E pc \in {"open", "dup2", "exec"} : ChildStep(c, pc, [child[c] EXCEPT !.pc = "loose"])

\* open, dup2 or execv fails: exit(EXIT_FAILURE)
ExitFailure(c) ==
  /\ Faults
  /\ \E pc \in {"open", "dup2", "exec"} : ChildStep(c, pc, Ended(c, "nonzero"))

CommandEnds(c) ==
  \E status \in {"zero", "nonzero"} : ChildStep(c, "command", Ended(c, status))

Killed(c) == \E pc \in Alive : ChildStep(c, pc, Ended(c, "signal"))

----------------------------------------------------------------------------

Init ==
  /\ stdout \in {"terminal", "closed"}
  /\ n = 0
  /\ func = [c \in Calls |-> "none"]
  /\ parent = "ready"
  /\ result = [c \in Calls |-> "none"]
  /\ child = [c \in Calls |-> [pc |-> "none", fd1 |-> "none", spare |-> FALSE, status |-> "none"]]
  /\ cut_short = {}

Parent ==
  \/ \E status \in {"error", "zero", "nonzero", "signal"} : System(status)
  \/ Fork \/ Wait

Child(c) == Open(c) \/ Dup2(c) \/ Close(c) \/ Execv(c) \/ CommandEnds(c)

Next ==
  \/ \E f \in {"do_system", "do_exec", "do_exec_redirect"} : Call(f)
  \/ Parent \/ ForkFails \/ WaitInterrupted
  \/ \E c \in Calls : Child(c) \/ ExitFailure(c) \/ Killed(c)

Spec == Init /\ [][Next]_vars

\* Processes that can run do, and a command ends.
FairSpec == Spec /\ WF_vars(Parent) /\ \A c \in Calls : WF_vars(Child(c))

----------------------------------------------------------------------------
(* Properties                                                              *)

TypeOK ==
  /\ n \in 0 .. MaxCalls
  /\ parent \in {"ready", "system", "fork", "wait"}
  /\ cut_short \subseteq Calls
  /\ \A c \in Calls :
       /\ child[c].pc \in Alive \cup {"none", "zombie", "reaped"}
       /\ child[c].fd1 \in {"none", "terminal", "closed", "file"}
       /\ child[c].status \in {"none", "error", "zero", "nonzero", "signal"}

\* A call returns true exactly when its own command has ended, with status 0:
\* not for a failed execv, a command killed by a signal, or the end of a child
\* that an earlier, interrupted call left behind (the tests of WIFEXITED and
\* WEXITSTATUS after waitpid).
ResultTellsStatus ==
  \A c \in Calls :
    result[c] # "none" =>
      (result[c] = "true" <=> child[c].pc = "reaped" /\ child[c].status = "zero")

\* A command run by a program that has its standard output open writes into the
\* output file when it was redirected, and to the program's own output when not,
\* and is handed no second descriptor of the file (open, dup2, close).
CommandWritesWhereTold ==
  \A c \in Calls :
    stdout # "closed" /\ child[c].pc = "command" =>
      /\ child[c].fd1 = IF func[c] = "do_exec_redirect" THEN "file" ELSE stdout
      /\ ~child[c].spare

\* A call that has returned leaves no child behind, running or unreaped, unless
\* its waitpid was interrupted.
NoChildLeft ==
  \A c \in Calls :
    result[c] # "none" /\ c \notin cut_short => child[c].pc \in {"none", "reaped"}

\* A call returns, whichever step of its child fails.
CallReturns == parent # "ready" ~> parent = "ready"
=============================================================================
