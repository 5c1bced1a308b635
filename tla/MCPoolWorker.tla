---------------------------- MODULE MCPoolWorker ----------------------------
(***************************************************************************)
(* Instances of PoolWorker for TLC: one or two replicas, two accounts, two *)
(* messages of one or two campaigns.                                       *)
(***************************************************************************)
EXTENDS PoolWorker, TLC

CONSTANTS w1, w2, c1, c2

\* All messages in one campaign, or one campaign each.
MCOneCampaign == [m \in Msgs |-> c1]
MCCampaigns   == [m \in Msgs |-> IF \A n \in Msgs : m <= n THEN c1 ELSE c2]

\* Two replicas whose hostnames hash to the same index share every list.
MCSameIndex == [w \in Workers |-> 0]

WorkerSymmetry == Permutations(Workers)
=============================================================================
