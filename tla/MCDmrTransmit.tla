--------------------------- MODULE MCDmrTransmit ---------------------------
(***************************************************************************)
(* DmrTransmit with a sequence number that wraps at 16: like 256 it leaves *)
(* 4 when divided by 6, so the wrap disturbs the superframes the same way. *)
(***************************************************************************)
EXTENDS DmrTransmit

MCTalkgroup == {3205642, 31291}
MCStreamId == {1, 2}
=============================================================================
