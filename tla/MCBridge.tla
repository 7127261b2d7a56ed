------------------------------- MODULE MCBridge -------------------------------
(***************************************************************************)
(* Bridge with two colour codes, the one that has slot types and another.  *)
(* What the bits are worth needs no instances: they are unknowns.          *)
(***************************************************************************)
EXTENDS Bridge

CONSTANTS tg
=============================================================================
