----------------------------- MODULE MCAesdChar -----------------------------
(***************************************************************************)
(* The driver for TLC: two processes that share one struct file, a ring of *)
(* one or two commands, and as many blocks as the ring, the command in     *)
(* progress and a krealloc that moves it can need.  A payload may end its  *)
(* command in the middle (<<nl, b>>): the driver commits all of it.        *)
(***************************************************************************)
EXTENDS AesdChar, TLC

CONSTANTS p1, p2, f1, a, b, nl

Shared == f1 :> {p1, p2}

MCPayloads == {<<a>>, <<nl, b>>}
ShortPayloads == {<<a>>, <<nl>>}

BothWays == {-1, 1}

\* Addresses are compared only for equality.
Pointers == Permutations(Ptrs)
=============================================================================
