----------------------------- MODULE MCSessions -----------------------------
(***************************************************************************)
(* The accounts and sessions side of the platform on a small instance.     *)
(* Its parts share no variable, so a behaviour explores one of them; the   *)
(* accounts part meets the Evolution part where an account's readiness     *)
(* reads the Evolution row.                                                *)
(***************************************************************************)
EXTENDS AccountSessions, LinkSession

CONSTANTS l1, l2, l3, l4

VARIABLE part

vars == <<evolutionVars, accountVars, linkVars, warmupVars, part>>

Parts == {"evolution", "accounts", "link", "warmup"}

\* proxies.json: none; one of the line and one of the worker; one default.
Proxy(id, account, worker, default) ==
    [id |-> id, account |-> account, worker |-> worker, default |-> default]
MCProxyFiles ==
    { <<>>,
      <<Proxy("own", l1, 2, FALSE), Proxy("worker", l2, 1, FALSE)>>,
      <<Proxy("worker", l2, 1, FALSE), Proxy("default", Nobody, 0, TRUE)>> }

Init ==
    /\ EvolutionInit /\ AccountInit /\ LinkInit /\ WarmupInit
    /\ part \in Parts
    /\ part # "evolution" => row = Absent /\ mode # "evolution"
    /\ part = "evolution" => mode = "evolution" /\ accounts # <<>>
    /\ part # "accounts" => accounts # <<>> /\ mode \in {"web", "evolution"}
    /\ part # "link" => file = <<>>

EvolutionPart == EvolutionNext /\ UNCHANGED <<accountVars, linkVars, warmupVars>>
AccountPart   == AccountNext /\ UNCHANGED <<evolutionVars, linkVars, warmupVars>>
LinkPart      == LinkNext /\ UNCHANGED <<evolutionVars, accountVars, warmupVars>>
WarmupPart    == WarmupNext /\ UNCHANGED <<evolutionVars, accountVars, linkVars>>

Next ==
    /\ \/ part = "evolution" /\ EvolutionPart
       \/ part = "accounts" /\ AccountPart
       \/ part = "link" /\ LinkPart
       \/ part = "warmup" /\ WarmupPart
    /\ UNCHANGED part

\* The other parts rest in their initial states, where these actions are disabled.
Spec == Init /\ [][Next]_vars /\ EvolutionFairness /\ LinkFairness

SessionsTypeOK == EvolutionTypeOK /\ AccountTypeOK /\ LinkTypeOK
=============================================================================
