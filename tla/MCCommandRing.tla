--------------------------- MODULE MCCommandRing ---------------------------
(***************************************************************************)
(* The command ring for TLC: three slots and seven additions, so that the  *)
(* ring wraps twice, with empty, one-byte and two-byte commands.           *)
(***************************************************************************)
EXTENDS CommandRing

=============================================================================
