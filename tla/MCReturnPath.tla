---------------------------- MODULE MCReturnPath ----------------------------
(***************************************************************************)
(* ReturnPath on the frames and settings that tell its branches apart: the *)
(* settings of the seed configuration, immediate mode, no header insertion *)
(* and no DG-ID rewriting.                                                 *)
(***************************************************************************)
EXTENDS ReturnPath

Whole(kinds) == [kind : kinds, whole : {TRUE}, plain : {TRUE}]

MCPacket ==
    Whole({"control", "other", "header", "voice", "term"})
    \cup [kind : {"header", "voice"}, whole : {FALSE}, plain : {TRUE}]
    \cup [kind : {"voice"}, whole : {TRUE}, plain : {FALSE}]

\* interval, startDelay, insertHeader, rewriteDgid, showCallsign
Setting(i, d, h, r, s) ==
    [interval |-> i, startDelay |-> d, insertHeader |-> h, rewriteDgid |-> r,
     showCallsign |-> s]

MCBehavior ==
    {Setting(2, 1, TRUE, TRUE, TRUE),
     Setting(0, 2, TRUE, TRUE, TRUE),
     Setting(1, 2, TRUE, FALSE, FALSE),
     Setting(1, 2, FALSE, TRUE, FALSE)}
=============================================================================
