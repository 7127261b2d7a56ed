----------------------------- MODULE MCDmrReceive -----------------------------
(***************************************************************************)
(* DmrReceive with two streams and sequence numbers modulo 16, two rounds  *)
(* of the eight frame numbers.                                             *)
(***************************************************************************)
EXTENDS DmrReceive

MCStreamId == {1, 2}
MCNone == -1
=============================================================================
