--------------------------- MODULE MCMasterLogin ---------------------------
(***************************************************************************)
(* MasterLogin with two salts, so that a challenge of an earlier attempt   *)
(* can be told from the current one.                                       *)
(***************************************************************************)
EXTENDS MasterLogin

CONSTANTS s1, s2

MCAnyBackend == {"ysf_direct", "dmr_master", "hybrid_dmr_return"}
MCHybrid == {"hybrid_dmr_return"}
=============================================================================
