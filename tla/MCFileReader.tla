---------------------------- MODULE MCFileReader ----------------------------
(***************************************************************************)
(* FileReader for TLC: two processes with a struct file each, the first    *)
(* open for reading and writing and the second for writing only, a ring of *)
(* one command, and a krealloc that may fail.  Both processes write, seek  *)
(* and reopen; nothing is symmetric, so that liveness can be checked.      *)
(***************************************************************************)
EXTENDS FileReader, TLC

CONSTANTS p1, p2, f1, f2, a, nl

Private == f1 :> {p1} @@ f2 :> {p2}

ShortPayloads == {<<a>>, <<nl>>}
=============================================================================
