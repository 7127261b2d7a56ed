---------------------------- MODULE MCConfigStore ----------------------------
(***************************************************************************)
(* ConfigStore with two writers and four configurations: one that starts   *)
(* the router, another that does, the first with a text that does not      *)
(* parse, and one that fails validation.                                   *)
(***************************************************************************)
EXTENDS ConfigStore, TLC

Lz  == [dgid |-> 10, enabled |-> TRUE]
Usa == [dgid |-> 20, enabled |-> TRUE]

MCSeed     == [routes |-> {Lz, Usa}, defaultDgid |-> 10, plain |-> TRUE]
MCDisabled == [MCSeed EXCEPT !.routes = {[Lz EXCEPT !.enabled = FALSE], Usa}]
MCMissing  == [MCSeed EXCEPT !.defaultDgid = 30]

MCBroken   == [MCSeed EXCEPT !.plain = FALSE]

MCOther    == [MCSeed EXCEPT !.defaultDgid = 20]

MCConfig == {MCSeed, MCOther, MCBroken, MCMissing}
MCDefaultDisabled == {MCSeed, MCDisabled}

\* With and without a file from the installer.
MCInitialText == {MCSeed, Absent}
MCInstalled   == {MCSeed}

\* Threads are alike.
ThreadSymmetry == Permutations(Thread)
=============================================================================
