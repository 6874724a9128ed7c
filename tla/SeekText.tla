------------------------------ MODULE SeekText ------------------------------
(***************************************************************************)
(* The lists of chunks that a worker of the server can hand to             *)
(* findCommand, byte by byte, and what findCommand must make of the text   *)
(* in them.                                                                *)
(***************************************************************************)
EXTENDS SeekCommand

CONSTANTS
  Bytes,       \* the bytes clients send
  BufferSize,  \* BUFFER_SIZE: the longest chunk
  MaxLength    \* bound: the bytes of a text

ASSUME LengthAssumption == MaxLength \in Nat
\* (True of every MaxLength; it is there for the proofs, which know no powers.)
ASSUME PowersAssumption ==
  10^0 = 1 /\ \A n \in 0 .. MaxLength : 10^n \in Nat /\ 10^(n + 1) = 10 * 10^n

VARIABLE head  \* the list, a chunk per node

Init == head = <<>>

Received == FlattenSeq(head)

\* The receive loop goes on until a chunk with a newline.
Receiving == Len(Received) < MaxLength /\ Newline \notin ToSet(Received)

\* recv starts a new node ...
NewNode(byte) ==
  /\ Receiving
  /\ head' = Append(head, <<byte>>)

\* ... and may return more bytes in it, also behind a newline.
SameNode(byte) ==
  /\ head # <<>>
  /\ Len(Received) < MaxLength
  /\ Len(Last(head)) < BufferSize
  /\ head' = [head EXCEPT ![Len(head)] = Append(@, byte)]

Next == \E byte \in Bytes : NewNode(byte) \/ SameNode(byte)

Spec == Init /\ [][Next]_head

----------------------------------------------------------------------------

\* The value of the digits at some places of a text, as far as a uint32_t holds it: each
\* counts for its power of ten.
Decimal(text, places) ==
  MapThenSumSet(LAMBDA k : text[k] * 10^Cardinality({j \in places : k < j}), places) % 2^Width

\* The seekto a text stands for: the command, a number, a comma and a number;
\* either number may be empty (0), and commas in the second one are ignored.
Meant(text) ==
  LET from   == Len(Command) + 1
      commas == {k \in from .. Len(text) : text[k] = Comma}
      first  == CHOOSE k \in commas : \A j \in commas : k <= j
  IN  IF /\ IsPrefix(Command, text)
         /\ commas # {}
         /\ \A k \in from .. Len(text) : k \in commas \/ text[k] \in 0 .. 9
      THEN {[write_cmd |-> Decimal(text, from .. first - 1),
             write_cmd_offset |-> Decimal(text, (first + 1 .. Len(text)) \ commas)]}
      ELSE {}

\* However recv cuts a packet into chunks, findCommand finds the seek that the
\* text up to the newline stands for, and none in any other text; numbers wrap at
\* 2^32 only when they are too large to be held (findCommand, digit by digit over
\* the nodes of the list).
FindsWhatIsMeant ==
  /\ FindCommand(head) = Meant(BeforeNewline(Received))
  /\ FindCommand(head) \subseteq Seekto
=============================================================================
