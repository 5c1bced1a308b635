-------------------------- MODULE MCStagingBridge --------------------------
(***************************************************************************)
(* Instances of StagingBridge for TLC: up to three staged items, one or two  *)
(* campaigns, and the process mixes the configurations name.               *)
(***************************************************************************)
EXTENDS StagingBridge

CONSTANTS c1, c2, beat1, beat2, op1, op2, api1, api2, s1, s2, whatsapp, bale

MCCampaignOf == [i \in Items |-> IF i = 2 /\ c2 \in Campaigns THEN c2 ELSE c1]
\* Item 2 goes to the second platform; with a third item its channel is invalid.
MCChannelOf  == [i \in Items |-> CASE i = 1 -> bale [] i = 2 -> whatsapp [] OTHER -> None]
MCSameChannel == [i \in Items |-> IF i = 3 THEN None ELSE whatsapp]
MCPlatformOf == [a \in Accounts |-> IF a = 1 THEN bale ELSE whatsapp]

\* All requests on the one uvicorn process; each celery task has its own loop.
Task(p)      == IF p = beat1 THEN s1 ELSE s2
MCOneServer  == [p \in Procs |-> IF p \in Operators THEN api1 ELSE Task(p)]
=============================================================================
