-------------------------- MODULE MCBaileysResults --------------------------
(***************************************************************************)
(* Two shards with an account each and two messages of one account: the    *)
(* other shard meets them too and defers them.                             *)
(***************************************************************************)
EXTENDS BaileysResults, TLC

CONSTANTS s1, s2, a1, a2, m1, m2, c1, c2

MCAccountOf == m1 :> a1 @@ m2 :> a1
MCAssigned  == s1 :> {a1} @@ s2 :> {a2}
\* What the back end gives: message_id or dedupe_key where there is one ...
MCOwnId     == m1 :> m1 @@ m2 :> m2
\* ... and str(None) for a campaign payload, which has neither.
MCNoId      == m1 :> "None" @@ m2 :> "None"

Symmetry == Permutations(Consumers) \cup Permutations(Messages)
=============================================================================
