----------------------------- MODULE SeekCommand -----------------------------
(***************************************************************************)
(* findCommand of the server (server/aesdsocket.c): the parser that        *)
(* recognises "AESDCHAR_IOCSEEKTO:X,Y" in the list of chunks a worker has  *)
(* received and turns it into a struct aesd_seekto (aesd_ioctl.h).         *)
(*                                                                         *)
(* A byte is a digit, as its value in 0 .. 9, or any other value.          *)
(***************************************************************************)
EXTENDS Integers, Sequences, SequencesExt

CONSTANTS
  Command,   \* the bytes of AESDCHAR_IOCSEEKTO_CMD
  Comma,
  Newline,
  Width      \* the bits of a uint32_t

\* (The last conjunct is true of every Width; it is there for the proofs.)
ASSUME CommandAssumption ==
  /\ Command \in Seq(ToSet(Command)) \ {<<>>}
  /\ Comma \notin 0 .. 9 /\ Newline \notin 0 .. 9 /\ Comma # Newline
  /\ Width \in Nat /\ 2^Width \in Nat \ {0}

Uint == 0 .. 2^Width - 1

Seekto == [write_cmd : Uint, write_cmd_offset : Uint]

\* The bytes of one chunk that the inner loop gets to: it breaks at a newline.
BeforeNewline(chunk) ==
  LET n == SelectInSeq(chunk, LAMBDA byte : byte = Newline)
  IN  IF n = 0 THEN chunk ELSE SubSeq(chunk, 1, n - 1)

\* The outer loop goes on to the next chunk even then.
ScannedBytes(chunks) == FlattenSeq([k \in DOMAIN chunks |-> BeforeNewline(chunks[k])])

WithDigit(number, digit) == (number * 10 + digit) % 2^Width

\* The offset is its last digit.
NextDigit_Slip(s, byte) ==
  IF s.write_cmd_found THEN [s EXCEPT !.write_cmd_offset = byte % 2^Width]
                       ELSE [s EXCEPT !.write_cmd = WithDigit(@, byte)]

NextDigit(s, byte) ==
  IF s.write_cmd_found THEN [s EXCEPT !.write_cmd_offset = WithDigit(@, byte)]
                       ELSE [s EXCEPT !.write_cmd = WithDigit(@, byte)]

\* One turn of the inner loop: the empty set is its return false.
NextByte(s, byte) ==
  IF s.i < Len(Command)
  THEN IF byte = Command[s.i + 1] THEN {[s EXCEPT !.i = @ + 1]} ELSE {}
  ELSE CASE byte = Comma    -> {[s EXCEPT !.write_cmd_found = TRUE]}
         [] byte \in 0 .. 9 -> {NextDigit(s, byte)}
         [] OTHER           -> {}

\* The seekto of a list of chunks: the empty set when the function returns false.
FindCommand(chunks) ==
  LET text  == ScannedBytes(chunks)
      start == [i |-> 0, write_cmd_found |-> FALSE, write_cmd |-> 0, write_cmd_offset |-> 0]
      scan[k \in 0 .. Len(text)] ==
        IF k = 0 THEN {start} ELSE UNION {NextByte(s, text[k]) : s \in scan[k - 1]}
      found == {s \in scan[Len(text)] : s.write_cmd_found}
  IN  {[write_cmd |-> s.write_cmd, write_cmd_offset |-> s.write_cmd_offset] : s \in found}
=============================================================================
