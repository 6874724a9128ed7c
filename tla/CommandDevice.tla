--------------------------- MODULE CommandDevice ---------------------------
(***************************************************************************)
(* What /dev/aesdchar promises its users, with no ring, no pointers and no *)
(* lock.  The device remembers the last MaxOps commands.  A write extends  *)
(* the command in progress; once that holds a newline it becomes one       *)
(* command, whole, before anything else is written.  A read answers with a *)
(* piece of one remembered command.  Loading the module again forgets      *)
(* everything.                                                             *)
(***************************************************************************)
EXTENDS Integers, Sequences

CONSTANTS
  MaxOps,     \* how many commands the device remembers
  Procs,      \* the processes that use it
  Payloads,   \* the byte sequences that a write may carry
  Newline     \* the byte that ends a command

VARIABLES
  log,        \* the remembered commands, oldest first
  partial,    \* the command in progress
  answer      \* what a read of a process in progress has delivered

vars == <<log, partial, answer>>

HasNewline(bytes) == \E i \in 1 .. Len(bytes) : bytes[i] = Newline

\* log after command is remembered.
Remember(command) ==
  IF Len(log) < MaxOps THEN Append(log, command) ELSE Append(Tail(log), command)

----------------------------------------------------------------------------

Init ==
  /\ log = <<>>
  /\ partial = <<>>
  /\ answer = [p \in Procs |-> <<>>]

Extend(bytes) ==
  /\ ~HasNewline(partial)
  /\ partial' = partial \o bytes
  /\ UNCHANGED <<log, answer>>

Commit ==
  /\ HasNewline(partial)
  /\ log' = Remember(partial)
  /\ partial' = <<>>
  /\ UNCHANGED answer

Deliver(p, c, from, to) ==
  /\ answer[p] = <<>>
  /\ answer' = [answer EXCEPT ![p] = SubSeq(log[c], from, to)]
  /\ UNCHANGED <<log, partial>>

Take(p) ==
  /\ answer' = [answer EXCEPT ![p] = <<>>]
  /\ UNCHANGED <<log, partial>>

Forget ==
  /\ log' = <<>>
  /\ partial' = <<>>
  /\ UNCHANGED answer

Next ==
  \/ \E bytes \in Payloads : Extend(bytes)
  \/ Commit
  \/ \E p \in Procs, c \in 1 .. Len(log) :
       \E from, to \in 1 .. Len(log[c]) : Deliver(p, c, from, to)
  \/ \E p \in Procs : Take(p)
  \/ Forget

Spec == Init /\ [][Next]_vars
=============================================================================
