------------------------------ MODULE MCDispatch ------------------------------
(***************************************************************************)
(* Consent and dispatch, and the workers of one account with the test      *)
(* sends of the API, on a small instance.  A behaviour explores one part.  *)
(***************************************************************************)
EXTENDS SingleWorker, Dispatch

CONSTANTS c1, c2, i1, i2, t1

VARIABLE part

vars == <<workerVars, dispatchVars, part>>

MCChannel(r) == "whatsapp"

\* A staged row with a handle, one with a phone only, one with a field missing, one of
\* another account.
Staged(conn, c, handle, complete, ours) ==
    [platform |-> PlatformOf(conn), campaign |-> c, phone |-> "+phone", handle |-> handle,
     recipient |-> NoValue, type |-> NoValue, complete |-> complete, ours |-> ours]

MCRaws(conn) ==
    {Staged(conn, c1, "@name", TRUE, TRUE), Staged(conn, c2, NoValue, TRUE, TRUE),
     Staged(conn, c1, "@name", FALSE, TRUE), Staged(conn, c2, "@name", TRUE, FALSE)}

\* A test to what the operator typed.
TypedFor(conn, recipient) ==
    [platform |-> PlatformOf(conn), campaign |-> "test", phone |-> NoValue, handle |-> NoValue,
     recipient |-> recipient, type |-> NoValue, complete |-> TRUE, ours |-> TRUE]

Quiet ==
    /\ mode = "live" /\ connector = "cloud" /\ opsFlag = FALSE /\ opsQueue = FALSE /\ shownBefore = {}
    /\ raw = [i \in Letters |-> IF i \in Tests THEN TypedFor("cloud", "+phone")
                               ELSE Staged("cloud", c1, "@name", TRUE, TRUE)]

Init ==
    /\ WorkerInit /\ DispatchInit
    /\ \/ /\ part = "dispatch" /\ Quiet
       \/ /\ part \in {"workers", "tests"}
          /\ dryRun /\ ~(shadowMode \/ shadowPhone \/ pushes \/ sends \/ blacklisted)
          /\ \A r \in Requests : request[r].entry = "task"
          /\ mode \in Modes /\ connector \in Connectors_ \ (IF part = "workers" THEN {"baileys"} ELSE {})
          /\ mode \in {"live", "shadow"} \/ connector \in {"web", "telegram"}
          /\ opsFlag \in BOOLEAN /\ opsQueue \in BOOLEAN
          /\ shownBefore \in {{}, {i1, t1}} /\ (shownBefore # {} => connector = "web")
          /\ raw \in [Letters -> MCRaws(connector)
                                 \cup {TypedFor(connector, a) : a \in {"@name", "+phone", "bad phone"}}]
          /\ \A i \in Items : raw[i] \in MCRaws(connector)
          /\ \A t \in Tests : raw[t].campaign = "test"
          /\ part = "workers" => /\ ~opsFlag /\ ~opsQueue
                                 /\ \A t \in Tests : raw[t].recipient = "+phone"
                                 /\ raw[i2].complete /\ raw[i2].ours
          /\ part = "tests" => \A i \in Items : raw[i] = Staged(connector, c1, "@name", TRUE, TRUE)
    /\ ConfigInit

DispatchPart == DispatchNext /\ UNCHANGED workerVars

\* The switches that matter to the part.
WorkersPart ==
    /\ \/ \E w \in Workers : WorkerStep(w)
       \/ \E i \in Items : Push(i)
       \/ set_kill_switch \/ PauseAccount \/ PauseCampaign(c1)
    /\ UNCHANGED dispatchVars

OneWorker == CHOOSE w \in Workers : TRUE

TestsPart ==
    /\ \/ \E t \in Tests : TestStep(t)
       \/ WorkerStep(OneWorker) \/ Push(i1)
       \/ set_whatsapp_send_kill_switch \/ AccountFails
    /\ UNCHANGED dispatchVars

Next ==
    /\ UNCHANGED part
    /\ \/ part = "dispatch" /\ DispatchPart
       \/ part = "workers" /\ WorkersPart
       \/ part = "tests" /\ TestsPart

Spec == Init /\ [][Next]_vars
=============================================================================
