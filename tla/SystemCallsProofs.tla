------------------------- MODULE SystemCallsProofs -------------------------
(***************************************************************************)
(* Results, redirection and reaping of the systemcalls exercise, for any   *)
(* number of calls and whatever fails.                                     *)
(***************************************************************************)
EXTENDS SystemCalls, TLAPS

Statuses == {"none", "error", "zero", "nonzero", "signal"}

ChildTypes ==
  [pc : Alive \cup {"none", "zombie", "reaped"}, fd1 : {"none", "terminal", "closed", "file"},
   spare : BOOLEAN, status : Statuses]

Types ==
  /\ stdout \in {"terminal", "closed"}
  /\ n \in 0 .. MaxCalls
  /\ func \in [Calls -> {"none", "do_system", "do_exec", "do_exec_redirect"}]
  /\ parent \in {"ready", "system", "fork", "wait"}
  /\ result \in [Calls -> {"none", "true", "false"}]
  /\ child \in [Calls -> ChildTypes]
  /\ cut_short \subseteq Calls

\* The program is in call n, whose child exists once it waits for it.
ParentInv ==
  /\ parent # "ready" => n \in Calls /\ result[n] = "none"
  /\ parent \in {"system", "fork"} => child[n].pc = "none"
  /\ parent = "fork" => func[n] \in {"do_exec", "do_exec_redirect"}
  /\ parent = "wait" => child[n].pc \notin {"none", "reaped"}

\* A call that has returned: its child has been reaped by it, or never was, or was left
\* behind by an interrupted wait and is reaped by nobody.
ReturnInv(c) ==
  /\ c > n => result[c] = "none" /\ child[c].pc = "none"
  /\ child[c].pc = "reaped" => result[c] # "none" /\ c \notin cut_short
  /\ result[c] = "true" => child[c].pc = "reaped" /\ child[c].status = "zero"
  /\ result[c] = "false" => ~(child[c].pc = "reaped" /\ child[c].status = "zero")
  /\ c \in cut_short => result[c] # "none"
  /\ result[c] = "none" /\ child[c].pc # "none" => c = n /\ parent = "wait"
  /\ result[c] # "none" /\ c \notin cut_short => child[c].pc \in {"none", "reaped"}

\* The descriptors of a child on its way from fork to execv.
DescriptorInv(c) ==
  stdout # "closed" =>
    /\ child[c].pc \in {"open", "dup2", "close"} => func[c] = "do_exec_redirect"
    /\ child[c].pc = "dup2" => child[c].spare
    /\ child[c].pc = "close" => child[c].spare /\ child[c].fd1 = "file"
    /\ child[c].pc = "open" => child[c].fd1 = stdout
    /\ child[c].pc = "none" => ~child[c].spare
    /\ child[c].pc \in {"exec", "command"} =>
         /\ child[c].fd1 = IF func[c] = "do_exec_redirect" THEN "file" ELSE stdout
         /\ ~child[c].spare

SystemInv ==
  /\ Types
  /\ ParentInv
  /\ \A c \in Calls : ReturnInv(c) /\ DescriptorInv(c)

LEMMA SystemInit == Init => SystemInv
  <1> SUFFICES ASSUME Init PROVE SystemInv
    OBVIOUS
  <1>1. Types
    BY BoundAssumption DEF Init, Types, ChildTypes, Statuses, Alive
  <1>2. ParentInv
    BY DEF Init, ParentInv
  <1>3. \A c \in Calls : ReturnInv(c) /\ DescriptorInv(c)
    BY DEF Init, ReturnInv, DescriptorInv, Calls
  <1> QED BY <1>1, <1>2, <1>3 DEF SystemInv

----------------------------------------------------------------------------
(* The program                                                             *)

LEMMA CallStep ==
  ASSUME SystemInv, NEW f \in {"do_system", "do_exec", "do_exec_redirect"}, Call(f)
  PROVE  SystemInv'
  <1>1. /\ parent = "ready" /\ n' = n + 1 /\ n' \in Calls /\ n \in Nat
        /\ func' = [func EXCEPT ![n'] = f]
        /\ parent' = IF f = "do_system" THEN "system" ELSE "fork"
        /\ UNCHANGED <<stdout, result, child, cut_short>>
    BY BoundAssumption DEF Call, Calls, SystemInv, Types
  <1>2. Types'
    BY <1>1, BoundAssumption DEF SystemInv, Types, Calls
  <1>3. result[n'] = "none" /\ child[n'].pc = "none"
    BY <1>1 DEF SystemInv, ReturnInv
  <1>4. ParentInv'
    BY <1>1, <1>3 DEF ParentInv, SystemInv, Types
  <1>5. ASSUME NEW c \in Calls PROVE ReturnInv(c)' /\ DescriptorInv(c)'
    <2>1. c > n' => c > n
      BY <1>1 DEF Calls
    <2>2. c # n' => func'[c] = func[c]
      BY <1>1 DEF SystemInv, Types
    <2>3. ReturnInv(c)'
      BY <1>1, <2>1 DEF SystemInv, ReturnInv
    <2>4. DescriptorInv(c)'
      BY <1>1, <1>3, <2>2 DEF SystemInv, DescriptorInv
    <2> QED BY <2>3, <2>4
  <1> QED BY <1>2, <1>4, <1>5 DEF SystemInv

\* The program returns from call n, with its child as it is after the step.
LEMMA ReturnStep ==
  ASSUME SystemInv, parent # "ready", NEW value \in BOOLEAN, Return(value),
         UNCHANGED <<stdout, n, func>>, NEW r \in ChildTypes, child' = [child EXCEPT ![n] = r],
         r.pc = child[n].pc \/ r.pc = "reaped",
         value <=> r.pc = "reaped" /\ r.status = "zero",
         \/ cut_short' = cut_short /\ r.pc \in {"none", "reaped"}
         \/ cut_short' = cut_short \cup {n} /\ r.pc = child[n].pc /\ r.pc # "reaped",
         r = child[n] \/ r.pc = "reaped"
  PROVE  SystemInv'
  <1>1. /\ n \in Calls /\ result[n] = "none" /\ parent' = "ready"
        /\ result' = [result EXCEPT ![n] = IF value THEN "true" ELSE "false"]
    BY DEF SystemInv, ParentInv, Return
  <1>2. Types'
    BY <1>1 DEF SystemInv, Types
  <1>3. ParentInv'
    BY <1>1 DEF ParentInv
  <1>4. n \notin cut_short
    BY <1>1 DEF SystemInv, ReturnInv
  <1>5. ReturnInv(n)' /\ DescriptorInv(n)'
    <2>1. ~(n > n)
      BY DEF SystemInv, Types
    <2> QED BY <1>1, <1>4, <2>1 DEF SystemInv, Types, ReturnInv, DescriptorInv
  <1>6. ASSUME NEW c \in Calls, c # n PROVE ReturnInv(c)' /\ DescriptorInv(c)'
    BY <1>1, <1>6 DEF SystemInv, Types, ReturnInv, DescriptorInv
  <1> QED BY <1>2, <1>3, <1>5, <1>6 DEF SystemInv

LEMMA SystemStep ==
  ASSUME SystemInv, NEW status \in {"error", "zero", "nonzero", "signal"}, System(status)
  PROVE  SystemInv'
  <1> DEFINE r == [child[n] EXCEPT !.pc = "reaped", !.status = status]
  <1>1. n \in Calls /\ child \in [Calls -> ChildTypes]
    BY DEF System, SystemInv, ParentInv, Types
  <1>2. r \in ChildTypes /\ r.pc = "reaped" /\ r.status = status
    BY <1>1 DEF ChildTypes, Statuses
  <1>3. child' = [child EXCEPT ![n] = r]
    BY DEF System
  <1> QED BY <1>2, <1>3, ReturnStep DEF System

LEMMA ForkStep ==
  ASSUME SystemInv, Fork
  PROVE  SystemInv'
  <1> DEFINE pc == IF func[n] = "do_exec" THEN "exec" ELSE "open"
             r == [child[n] EXCEPT !.fd1 = stdout, !.pc = pc]
  <1>1. /\ n \in Calls /\ child \in [Calls -> ChildTypes] /\ child[n].pc = "none"
        /\ result[n] = "none" /\ stdout \in {"terminal", "closed"}
        /\ func[n] \in {"do_exec", "do_exec_redirect"}
    BY DEF Fork, SystemInv, ParentInv, Types
  <1>2. /\ r \in ChildTypes /\ r.pc = pc /\ r.fd1 = stdout /\ r.spare = child[n].spare
        /\ child' = [child EXCEPT ![n] = r]
    BY <1>1 DEF ChildTypes, Alive, Fork
  <1> HIDE DEF r
  <1>3. Types'
    BY <1>1, <1>2 DEF Fork, SystemInv, Types
  <1>4. ParentInv'
    BY <1>1, <1>2 DEF Fork, ParentInv
  <1>5. ReturnInv(n)' /\ DescriptorInv(n)'
    <2>1. ~(n > n)
      BY DEF SystemInv, Types
    <2> QED BY <1>1, <1>2, <2>1 DEF Fork, SystemInv, ReturnInv, DescriptorInv
  <1>6. ASSUME NEW c \in Calls, c # n PROVE ReturnInv(c)' /\ DescriptorInv(c)'
    <2>1. child'[c] = child[c] /\ UNCHANGED <<stdout, n, func, result, cut_short>>
      BY <1>1, <1>2, <1>6 DEF Fork
    <2>2. ReturnInv(c)'
      BY <1>6, <2>1 DEF SystemInv, ReturnInv
    <2>3. DescriptorInv(c)'
      BY <2>1 DEF SystemInv, DescriptorInv
    <2> QED BY <2>2, <2>3
  <1>7. \A c \in Calls : ReturnInv(c)' /\ DescriptorInv(c)'
    BY <1>5, <1>6 DEF Fork
  <1> QED BY <1>3, <1>4, <1>7 DEF SystemInv

LEMMA FailStep ==
  ASSUME SystemInv, ForkFails \/ WaitInterrupted
  PROVE  SystemInv'
  <1>1. /\ n \in Calls /\ child \in [Calls -> ChildTypes]
        /\ Return(FALSE) /\ UNCHANGED <<stdout, n, func, child>>
        /\ parent \in {"fork", "wait"}
    BY DEF ForkFails, WaitInterrupted, SystemInv, ParentInv, Types
  <1>2. child[n] \in ChildTypes /\ child' = [child EXCEPT ![n] = child[n]]
    BY <1>1
  <1>3. CASE ForkFails
    <2>1. cut_short' = cut_short /\ child[n].pc = "none"
      BY <1>3 DEF ForkFails, SystemInv, ParentInv
    <2> QED BY <1>1, <1>2, <2>1, ReturnStep
  <1>4. CASE WaitInterrupted
    <2>1. cut_short' = cut_short \cup {n} /\ child[n].pc # "reaped"
      BY <1>4 DEF WaitInterrupted, SystemInv, ParentInv
    <2> QED BY <1>1, <1>2, <2>1, ReturnStep
  <1> QED BY <1>3, <1>4

LEMMA WaitStep ==
  ASSUME SystemInv, Wait
  PROVE  SystemInv'
  <1> DEFINE r == [child[n] EXCEPT !.pc = "reaped"]
  <1>1. n \in Calls /\ child \in [Calls -> ChildTypes]
    BY DEF Wait, WaitFor, SystemInv, ParentInv, Types
  <1>2. /\ r \in ChildTypes /\ r.pc = "reaped" /\ r.status = child[n].status
        /\ child' = [child EXCEPT ![n] = r]
    BY <1>1 DEF ChildTypes, Wait, WaitFor
  <1> QED BY <1>2, ReturnStep DEF Wait, WaitFor

----------------------------------------------------------------------------
(* The children                                                            *)

\* A step of a child that is alive; it does not become reaped.
LEMMA ChildMoves ==
  ASSUME SystemInv, NEW c \in Calls, NEW from \in Alive, NEW r \in ChildTypes,
         ChildStep(c, from, r), r.pc \in Alive \cup {"zombie"},
         DescriptorInv(c)'
  PROVE  SystemInv'
  <1>1. /\ child \in [Calls -> ChildTypes] /\ child[c].pc = from
        /\ child' = [child EXCEPT ![c] = r]
        /\ UNCHANGED <<stdout, n, func, parent, result, cut_short>>
    BY DEF ChildStep, SystemInv, Types
  <1>2. from \notin {"none", "zombie", "reaped"} /\ r.pc \notin {"none", "reaped"}
    BY DEF Alive
  <1>3. Types' /\ ParentInv'
    BY <1>1, <1>2 DEF SystemInv, Types, ParentInv
  <1>4. ReturnInv(c)'
    BY <1>1, <1>2 DEF SystemInv, ReturnInv
  <1>5. ASSUME NEW d \in Calls, d # c PROVE ReturnInv(d)' /\ DescriptorInv(d)'
    BY <1>1, <1>5 DEF SystemInv, ReturnInv, DescriptorInv
  <1> QED BY <1>3, <1>4, <1>5 DEF SystemInv

\* The child's end.
LEMMA EndStep ==
  ASSUME SystemInv, NEW c \in Calls, ExitFailure(c) \/ CommandEnds(c) \/ Killed(c)
  PROVE  SystemInv'
  <1>1. PICK from \in Alive, status \in Statuses : ChildStep(c, from, Ended(c, status))
    BY DEF ExitFailure, CommandEnds, Killed, Alive, Statuses
  <1>2. /\ Ended(c, status) \in ChildTypes /\ Ended(c, status).pc = "zombie"
        /\ child' = [child EXCEPT ![c] = Ended(c, status)] /\ child \in [Calls -> ChildTypes]
    BY <1>1 DEF ChildStep, SystemInv, Types, Ended, ChildTypes
  <1>3. DescriptorInv(c)'
    BY <1>2 DEF DescriptorInv
  <1> QED BY <1>1, <1>2, <1>3, ChildMoves

\* Its way to the command.
LEMMA ChildRuns ==
  ASSUME SystemInv, NEW c \in Calls, Open(c) \/ Dup2(c) \/ Close(c) \/ Execv(c)
  PROVE  SystemInv'
  <1>1. child \in [Calls -> ChildTypes] /\ DescriptorInv(c)
    BY DEF SystemInv, Types
  <1>2. CASE Open(c)
    <2> DEFINE r == [child[c] EXCEPT !.pc = "dup2",
                       !.fd1 = IF @ = "closed" THEN "file" ELSE @,
                       !.spare = (child[c].fd1 # "closed")]
    <2>1. ChildStep(c, "open", r)
      BY <1>2 DEF Open
    <2>2. r \in ChildTypes /\ r.pc = "dup2" /\ r.spare = (child[c].fd1 # "closed")
      BY <1>1 DEF ChildTypes, Alive
    <2> HIDE DEF r
    <2>3. DescriptorInv(c)'
      BY <1>1, <2>1, <2>2 DEF ChildStep, DescriptorInv
    <2> QED BY <2>1, <2>2, <2>3, ChildMoves DEF Alive
  <1>3. CASE Dup2(c)
    <2> DEFINE r == [child[c] EXCEPT !.pc = "close", !.fd1 = "file"]
    <2>1. ChildStep(c, "dup2", r)
      BY <1>3 DEF Dup2
    <2>2. r \in ChildTypes /\ r.pc = "close" /\ r.fd1 = "file" /\ r.spare = child[c].spare
      BY <1>1 DEF ChildTypes, Alive
    <2> HIDE DEF r
    <2>3. DescriptorInv(c)'
      BY <1>1, <2>1, <2>2 DEF ChildStep, DescriptorInv
    <2> QED BY <2>1, <2>2, <2>3, ChildMoves DEF Alive
  <1>4. CASE Close(c)
    <2> DEFINE r == IF child[c].spare
                    THEN [child[c] EXCEPT !.pc = "exec", !.spare = FALSE]
                    ELSE [child[c] EXCEPT !.pc = "exec", !.fd1 = "closed"]
    <2>1. ChildStep(c, "close", r)
      BY <1>4 DEF Close
    <2>2. /\ r \in ChildTypes /\ r.pc = "exec"
          /\ child[c].spare => ~r.spare /\ r.fd1 = child[c].fd1
      BY <1>1 DEF ChildTypes, Alive
    <2> HIDE DEF r
    <2>3. DescriptorInv(c)'
      BY <1>1, <2>1, <2>2 DEF ChildStep, DescriptorInv
    <2> QED BY <2>1, <2>2, <2>3, ChildMoves DEF Alive
  <1>5. CASE Execv(c)
    <2> DEFINE r == [child[c] EXCEPT !.pc = "command"]
    <2>1. ChildStep(c, "exec", r)
      BY <1>5 DEF Execv
    <2>2. /\ r \in ChildTypes /\ r.pc = "command"
          /\ r.spare = child[c].spare /\ r.fd1 = child[c].fd1
      BY <1>1 DEF ChildTypes, Alive
    <2> HIDE DEF r
    <2>3. DescriptorInv(c)'
      BY <1>1, <2>1, <2>2 DEF ChildStep, DescriptorInv
    <2> QED BY <2>1, <2>2, <2>3, ChildMoves DEF Alive
  <1> QED BY <1>2, <1>3, <1>4, <1>5

----------------------------------------------------------------------------
(* The theorems.                                                           *)

LEMMA SystemNext == SystemInv /\ [Next]_vars => SystemInv'
  <1> SUFFICES ASSUME SystemInv, [Next]_vars PROVE SystemInv'
    OBVIOUS
  <1>1. CASE \E f \in {"do_system", "do_exec", "do_exec_redirect"} : Call(f)
    BY <1>1, CallStep
  <1>2. CASE Parent
    BY <1>2, SystemStep, ForkStep, WaitStep DEF Parent
  <1>3. CASE ForkFails \/ WaitInterrupted
    BY <1>3, FailStep
  <1>4. ASSUME NEW c \in Calls, Child(c) \/ ExitFailure(c) \/ Killed(c) PROVE SystemInv'
    BY <1>4, ChildRuns, EndStep DEF Child
  <1>5. CASE UNCHANGED vars
    BY <1>5 DEF vars, SystemInv, Types, ParentInv, ReturnInv, DescriptorInv
  <1> QED BY <1>1, <1>2, <1>3, <1>4, <1>5 DEF Next

LEMMA SystemInvariant == Spec => []SystemInv
  BY SystemInit, SystemNext, PTL DEF Spec

\* Type correctness of the program and its children.
THEOREM SystemTypeCorrect == Spec => []TypeOK
  <1>1. SystemInv => TypeOK
    BY DEF SystemInv, Types, ChildTypes, Statuses, TypeOK
  <1> QED BY <1>1, SystemInvariant, PTL

\* The boolean that do_system, do_exec and do_exec_redirect return is about their own
\* command, also after earlier calls were interrupted and left children behind.
THEOREM ResultsTellStatus == Spec => []ResultTellsStatus
  <1>1. SystemInv => ResultTellsStatus
    BY DEF SystemInv, Types, ReturnInv, ResultTellsStatus
  <1> QED BY <1>1, SystemInvariant, PTL

\* open, dup2 and close leave the command with the output it was told to have, in a program
\* whose standard output is open.
THEOREM CommandsWriteWhereTold == Spec => []CommandWritesWhereTold
  <1>1. SystemInv => CommandWritesWhereTold
    BY DEF SystemInv, DescriptorInv, CommandWritesWhereTold
  <1> QED BY <1>1, SystemInvariant, PTL

\* A call that was not interrupted leaves no child, whatever fails in it.
THEOREM CallsLeaveNoChild == Spec => []NoChildLeft
  <1>1. SystemInv => NoChildLeft
    BY DEF SystemInv, ReturnInv, NoChildLeft
  <1> QED BY <1>1, SystemInvariant, PTL
=============================================================================
