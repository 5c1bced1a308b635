--------------------------- MODULE MCAccountSend ---------------------------
(***************************************************************************)
(* Two replicas share one account at the end of the first stage of its     *)
(* warming.                                                                *)
(***************************************************************************)
EXTENDS AccountSend, TLC

CONSTANTS r1, r2, r3
ReplicaSymmetry == Permutations(Replicas)
=============================================================================
