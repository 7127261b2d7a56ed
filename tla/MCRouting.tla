------------------------------ MODULE MCRouting ------------------------------
(***************************************************************************)
(* Routing on the seed configuration cut down to what tells the cases      *)
(* apart: the default route, two routes that share a talkgroup, a disabled *)
(* route and a DG-ID no route has.  Ticks of 0.75 s shrunk until every     *)
(* threshold is reached on both sides.                                     *)
(***************************************************************************)
EXTENDS Routing

MCDgId == {10, 22, 23, 40, 99}
MCTalkgroup == {3205642, 31291}

MCRoutes ==
    [d \in {10, 22, 23, 40} |->
        [talkgroup |-> IF d = 10 THEN 3205642 ELSE 31291, enabled |-> d # 40]]

MCConfig ==
    [routes : {MCRoutes}, defaultDgid : {10}, returnAfter : {0, 4},
     silence : {0, 1, 2}, suppress : BOOLEAN]
    \cup
    [routes : {MCRoutes}, defaultDgid : {40}, returnAfter : {0},
     silence : {2}, suppress : {FALSE}]
=============================================================================
