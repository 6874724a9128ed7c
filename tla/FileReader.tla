----------------------------- MODULE FileReader -----------------------------
(***************************************************************************)
(* AesdChar with a history variable that says how far each file has been   *)
(* read.  A position counts from the oldest command the ring holds, so a   *)
(* write that evicts a command moves the data under every reader.          *)
(***************************************************************************)
EXTENDS AesdChar

VARIABLE mark   \* just past the last byte read, in today's positions

varsMark == <<vars, mark>>

\* The bytes that this step takes out of the ring.
Evicted ==
  IF module = "live" /\ buffer'.out_offs # buffer.out_offs THEN SizeAt(buffer, 0) ELSE 0

Seeks(f) == \E p \in Procs :
  call[p].filp = f /\ call[p].pc \in {"llseek_store", "ioctl_set"} /\ call'[p].pc = "idle"

Reads(p) == call[p].pc = "read_copy" /\ ubuf'[p] # ubuf[p]

NextMark(f) ==
  IF f \notin opened' \/ Seeks(f) THEN 0
  ELSE IF \E p \in Procs : Reads(p) /\ call[p].filp = f
       THEN LET p == CHOOSE p \in Procs : Reads(p) IN num[p] + Len(ubuf'[p])
       ELSE IF mark[f] < Evicted THEN 0 ELSE mark[f] - Evicted

InitMark == Init /\ mark = [f \in Files |-> 0]

NextWithMark == Next /\ mark' = [f \in Files |-> NextMark(f)]

SpecMark == InitMark /\ [][NextWithMark]_varsMark

FairSpecMark == SpecMark /\ Fairness

\* A program that reads a file nobody else holds, and does not seek, is never
\* given the same byte twice, however many commands are evicted between its
\* reads and even inside one: the position it read before the eviction is used
\* and stored back after it (aesd_read and the VFS).
NeverRereads ==
  [][\A p \in Procs :
       Reads(p) /\ Holders[call[p].filp] = {p} => num[p] >= mark[call[p].filp]]_varsMark
=============================================================================
