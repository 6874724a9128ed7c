----------------------------- MODULE MCSeekText -----------------------------
(***************************************************************************)
(* Texts over a command of two bytes, two digits, the comma and the        *)
(* newline; numbers of four bits.                                          *)
(***************************************************************************)
EXTENDS SeekText

CONSTANTS cmd, colon, comma, nl

CommandText == <<cmd, colon>>

Alphabet == {cmd, colon, 1, 9, comma, nl}
=============================================================================
