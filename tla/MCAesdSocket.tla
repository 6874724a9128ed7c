---------------------------- MODULE MCAesdSocket ----------------------------
(***************************************************************************)
(* The server for TLC: a client whose packet comes in two chunks beside    *)
(* two interchangeable ones whose packet comes in one, or beside one that  *)
(* sends the seek command in two chunks; or one of either, in one chunk.   *)
(***************************************************************************)
EXTENDS AesdSocket, TLC

CONSTANTS c1, c2, c3, a, b, nl, iocseekto, comma

SeekToCommand == <<iocseekto>>

Packets == c1 :> << <<a>>, <<a, nl>> >> @@ c2 :> << <<b, nl>> >> @@ c3 :> << <<b, nl>> >>

PacketAndSeek == c1 :> << <<a>>, <<nl>> >> @@ c2 :> << <<iocseekto, 0>>, <<comma, 1, nl>> >>

OneChunkEach == c1 :> << <<a, nl>> >> @@ c2 :> << <<iocseekto, 0, comma, 1, nl>> >>

Interchangeable == Permutations({c2, c3})
=============================================================================
