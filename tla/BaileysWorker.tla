--------------------------- MODULE BaileysWorker ---------------------------
(***************************************************************************)
(* The Node side of WhatsApp delivery (whatsapp-service).  The back end    *)
(* pushes jobs to the Redis list whatsapp:raw_outgoing; every worker shard *)
(* runs a bridge that moves them into one BullMQ queue (rawOutgoingBridge) *)
(* and a processor, one job at a time, that sends and pushes a result      *)
(* (worker.js).  Shards crash, are stopped and come back; BullMQ hands a   *)
(* job whose shard died to another one, once.                              *)
(*                                                                         *)
(* BullMQ is a library, modelled from the options worker.js gives it.      *)
(***************************************************************************)
EXTENDS Naturals, Sequences, FiniteSets

CONSTANTS
    Shards, Accounts, Messages, NoMessage,
    AccountOf,   \* sender of a message
    JobId,       \* the jobId the back end gives a message
    Assigned,    \* ACCOUNT_IDS of a shard, {} for every account
    MaxStalls,   \* maxStalledCount
    MaxFaults    \* bound on crashes, failed calls, closed sockets, stops and
                 \* what the operators do

ASSUME BaileysSets ==
    /\ IsFiniteSet(Shards) /\ IsFiniteSet(Messages) /\ NoMessage \notin Messages
    /\ AccountOf \in [Messages -> Accounts] /\ DOMAIN JobId = Messages
    /\ Assigned \in [Shards -> SUBSET Accounts]
ASSUME BaileysBounds == MaxStalls \in Nat /\ MaxFaults \in Nat

Outcomes == {"delivered", "killed", "session_invalid", "failed"}
Results  == [msg : Messages, out : Outcomes]
Lists    == {"results", "statuses"}   \* whatsapp:results, whatsapp:session_status

VARIABLES
    toSend,    \* messages the back end has not pushed yet
    raw,       \* whatsapp:raw_outgoing
    hand,      \* what a bridge has popped and not yet added
    life,      \* of a shard: up, closing (BLPOP in flight), closed
    queue, delayed, active, known, stalls,   \* BullMQ
    run,       \* the job a shard is processing, and where in it
    conn, blocked,   \* activeConnections, blockedAccounts
    linked,    \* accounts whose creds.json can be read
    kill,      \* whatsapp:kill_switch
    list,      \* the result and the session status list, newest first
    \* history
    gone,      \* popped from raw and never queued
    ended,     \* jobs BullMQ counts as completed or failed
    mute,      \* ... whose result could not be pushed
    sent,      \* how often WhatsApp took the message
    said,      \* how often a result was pushed
    unsaid,    \* accounts whose session status could not be pushed
    lateSends, \* sends of a shard since the kill switch was turned on
    faults

bull    == <<queue, delayed, active, known, stalls>>
bridge  == <<toSend, raw, hand, life>>
session == <<conn, blocked, linked>>
history == <<gone, ended, mute, sent, said, unsaid, lateSends, faults>>
workerVars == <<bridge, bull, run, session, kill, list, history>>

Idle == [at |-> "idle", msg |-> NoMessage, out |-> "failed"]
Points == {"idle", "check", "connect", "send", "report", "publish", "finish"}

Mine(s, a) == Assigned[s] = {} \/ a \in Assigned[s]
Sender(s)  == AccountOf[run[s].msg]
At(s, p)   == run[s].at = p
Answer(s, p, out) == run' = [run EXCEPT ![s] = [at |-> p, msg |-> @.msg, out |-> out]]
Goto(s, p) == Answer(s, p, run[s].out)
Fault      == faults < MaxFaults /\ faults' = faults + 1

---------------------------------------------------------------------------
(* From the back end to BullMQ.                                            *)

enqueue_baileys_job(m) ==
    /\ m \in toSend
    /\ toSend' = toSend \ {m}
    /\ raw' = Append(raw, m)
    /\ UNCHANGED <<hand, life, bull, run, session, kill, list, history>>

\* A pop that returns after the stop was asked for is thrown away.
Pop(s) ==
    /\ life[s] \in {"up", "closing"} /\ hand[s] = NoMessage /\ raw # <<>>
    /\ raw' = Tail(raw)
    /\ IF life[s] = "up"
       THEN hand' = [hand EXCEPT ![s] = Head(raw)] /\ UNCHANGED <<life, gone>>
       ELSE /\ gone' = gone \cup {Head(raw)}
            /\ life' = [life EXCEPT ![s] = "closed"] /\ UNCHANGED hand
    /\ UNCHANGED <<toSend, bull, run, session, kill, list,
                   ended, mute, sent, said, unsaid, lateSends, faults>>

\* queue.add leaves an id alone that the queue already knows.
Add(s) ==
    /\ hand[s] # NoMessage
    /\ hand' = [hand EXCEPT ![s] = NoMessage]
    /\ IF JobId[hand[s]] \in known
       THEN gone' = gone \cup {hand[s]} /\ UNCHANGED <<queue, known>>
       ELSE /\ queue' = Append(queue, hand[s])
            /\ known' = known \cup {JobId[hand[s]]} /\ UNCHANGED gone
    /\ UNCHANGED <<toSend, raw, life, delayed, active, stalls, run, session, kill, list,
                   ended, mute, sent, said, unsaid, lateSends, faults>>

\* An exception after the pop: logged, the job is not put back.
AddFails(s) ==
    /\ hand[s] # NoMessage /\ Fault
    /\ hand' = [hand EXCEPT ![s] = NoMessage]
    /\ gone' = gone \cup {hand[s]}
    /\ UNCHANGED <<toSend, raw, life, bull, run, session, kill, list,
                   ended, mute, sent, said, unsaid, lateSends>>

---------------------------------------------------------------------------
(* BullMQ.                                                                 *)

Take(s) ==
    /\ life[s] = "up" /\ At(s, "idle") /\ queue # <<>>
    /\ queue' = Tail(queue)
    /\ active' = active \cup {Head(queue)}
    /\ run' = [run EXCEPT ![s] = [at |-> "check", msg |-> Head(queue), out |-> "failed"]]
    /\ UNCHANGED <<bridge, delayed, known, stalls, session, kill, list, history>>

Promote(m) ==
    /\ m \in delayed
    /\ delayed' = delayed \ {m}
    /\ queue' = Append(queue, m)
    /\ UNCHANGED <<bridge, active, known, stalls, run, session, kill, list, history>>

\* The lock of an active job has run out: nobody has renewed it.
LockLost_Ignored(m) == m \in active
LockLost(m) == m \in active /\ \A s \in Shards : run[s].msg # m

Stalled(m) ==
    /\ LockLost(m)
    /\ active' = active \ {m}
    /\ stalls' = [stalls EXCEPT ![m] = @ + 1]
    /\ IF stalls[m] < MaxStalls
       THEN queue' = Append(queue, m) /\ UNCHANGED ended
       ELSE ended' = ended \cup {m} /\ UNCHANGED queue
    /\ UNCHANGED <<bridge, delayed, known, run, session, kill, list,
                   gone, mute, sent, said, unsaid, lateSends, faults>>

End(s) ==
    /\ active' = active \ {run[s].msg}
    /\ ended' = ended \cup {run[s].msg}
    /\ run' = [run EXCEPT ![s] = Idle]

---------------------------------------------------------------------------
(* processOutgoingJob, cut at its awaits.                                  *)

Elsewhere_Never(s) == FALSE
Elsewhere(s) == ~Mine(s, Sender(s))

Defer(s) ==
    /\ At(s, "check") /\ Elsewhere(s)
    /\ active' = active \ {run[s].msg}
    /\ delayed' = delayed \cup {run[s].msg}
    /\ run' = [run EXCEPT ![s] = Idle]
    /\ UNCHANGED <<bridge, queue, known, stalls, session, kill, list, history>>

Evict(s, a) == conn' = [conn EXCEPT ![s] = @ \ {a}]
\* An account is blocked together with the eviction of its socket.
Block(s, a) == blocked' = [blocked EXCEPT ![s] = @ \cup {a}] /\ Evict(s, a)

Checked_CachedFirst(s, a) ==
    IF a \in conn[s] THEN Goto(s, "send") /\ UNCHANGED <<conn, blocked>>
    ELSE \/ kill /\ Answer(s, "publish", "killed") /\ UNCHANGED <<conn, blocked>>
         \/ ~kill /\ Goto(s, "connect") /\ UNCHANGED <<conn, blocked>>

\* The switch is read; what follows runs in one piece to the next await.
Checked(s, a) ==
    \/ kill /\ Answer(s, "publish", "killed") /\ UNCHANGED <<conn, blocked>>
    \/ /\ ~kill /\ a \in blocked[s]
       /\ Answer(s, "publish", "session_invalid") /\ UNCHANGED <<conn, blocked>>
    \/ /\ ~kill /\ a \notin blocked[s] /\ a \notin linked
       /\ Answer(s, "report", "session_invalid") /\ Block(s, a)
    \/ /\ ~kill /\ a \notin blocked[s] /\ a \in linked
       /\ Goto(s, IF a \in conn[s] THEN "send" ELSE "connect") /\ UNCHANGED <<conn, blocked>>

CheckJob(s) ==
    /\ At(s, "check") /\ ~Elsewhere(s)
    /\ Checked(s, Sender(s))
    /\ UNCHANGED <<bridge, bull, linked, kill, list, history>>

OpenSocket(s) ==
    /\ At(s, "connect") /\ Sender(s) \in linked
    /\ conn' = [conn EXCEPT ![s] = @ \cup {Sender(s)}]
    /\ Goto(s, "send")
    /\ UNCHANGED <<bridge, bull, blocked, linked, kill, list, history>>

\* The folder was removed while the proxy was being probed.
CredsGone(s) ==
    /\ At(s, "connect") /\ Sender(s) \notin linked
    /\ Block(s, Sender(s))
    /\ Answer(s, "report", "session_invalid")
    /\ UNCHANGED <<bridge, bull, linked, kill, list, history>>

PushStatus(a) == list' = [list EXCEPT !["statuses"] = <<a>> \o @]

\* 401 while connecting: two listeners publish it, the handler once more.
LoginRefused(s) ==
    /\ At(s, "connect") /\ Sender(s) \in linked /\ Fault
    /\ Block(s, Sender(s))
    /\ list' = [list EXCEPT !["statuses"] = <<Sender(s), Sender(s)>> \o @]
    /\ Answer(s, "report", "session_invalid")
    /\ UNCHANGED <<bridge, bull, linked, kill,
                   gone, ended, mute, sent, said, unsaid, lateSends>>

ConnectFails(s) ==
    /\ At(s, "connect") /\ Sender(s) \in linked /\ Fault
    /\ Answer(s, "publish", "failed")
    /\ UNCHANGED <<bridge, bull, session, kill, list,
                   gone, ended, mute, sent, said, unsaid, lateSends>>

\* The socket is closed, by WhatsApp (401) or by the network.
SocketCloses(s, a, loggedOut) ==
    /\ a \in conn[s] /\ Fault
    /\ IF loggedOut THEN Block(s, a) ELSE Evict(s, a) /\ UNCHANGED blocked
    /\ \/ loggedOut /\ PushStatus(a) /\ UNCHANGED unsaid
       \/ loggedOut /\ unsaid' = unsaid \cup {a} /\ UNCHANGED list   \* only logged
       \/ ~loggedOut /\ UNCHANGED <<list, unsaid>>
    /\ UNCHANGED <<bridge, bull, run, linked, kill, gone, ended, mute, sent, said, lateSends>>

Sent(s) ==
    /\ sent' = [sent EXCEPT ![run[s].msg] = @ + 1]
    /\ lateSends' = [lateSends EXCEPT ![s] = IF kill THEN @ + 1 ELSE @]

SendMessage(s) ==
    /\ At(s, "send") /\ Sender(s) \in conn[s]
    /\ Sent(s)
    /\ Answer(s, "publish", "delivered")
    /\ UNCHANGED <<bridge, bull, session, kill, list,
                   gone, ended, mute, said, unsaid, faults>>

\* An exception on a socket that was closed, before the message is out ...
SendFails(s) ==
    /\ At(s, "send") /\ Sender(s) \notin conn[s]
    /\ Answer(s, "publish", "failed")
    /\ UNCHANGED <<bridge, bull, session, kill, list, history>>

\* ... or after it: the presence update fails, or the reply is lost.
SentThenFails(s) ==
    /\ At(s, "send") /\ Sender(s) \in conn[s] /\ Fault
    /\ Sent(s)
    /\ Answer(s, "publish", "failed")
    /\ \/ Evict(s, Sender(s))
       \/ UNCHANGED conn
    /\ UNCHANGED <<bridge, bull, blocked, linked, kill, list,
                   gone, ended, mute, said, unsaid>>

Report_Ends(s) ==
    /\ At(s, "report")
    /\ PushStatus(Sender(s))
    /\ Goto(s, "finish")
    /\ UNCHANGED <<bridge, bull, session, kill, history>>

Report(s) ==
    /\ At(s, "report")
    /\ PushStatus(Sender(s))
    /\ Goto(s, "publish")
    /\ UNCHANGED <<bridge, bull, session, kill, history>>

ReportFails(s) ==
    /\ At(s, "report") /\ Fault
    /\ End(s)
    /\ mute' = mute \cup {run[s].msg}
    /\ unsaid' = unsaid \cup {Sender(s)}
    /\ UNCHANGED <<bridge, queue, delayed, known, stalls, session, kill, list,
                   gone, sent, said, lateSends>>

Result(s) == [msg |-> run[s].msg, out |-> run[s].out]
PushResult(s) ==
    /\ list' = [list EXCEPT !["results"] = <<Result(s)>> \o @]
    /\ said' = [said EXCEPT ![Result(s)] = @ + 1]

publishResult(s) ==
    /\ At(s, "publish")
    /\ PushResult(s)
    /\ Goto(s, "finish")
    /\ UNCHANGED <<bridge, bull, session, kill,
                   gone, ended, mute, sent, unsaid, lateSends, faults>>

PublishFails_Resends(s) ==
    /\ At(s, "publish") /\ Fault
    /\ IF run[s].out = "delivered"
       THEN Goto(s, "send") /\ UNCHANGED <<active, ended, mute>>
       ELSE End(s) /\ mute' = mute \cup {run[s].msg}
    /\ UNCHANGED <<bridge, queue, delayed, known, stalls, session, kill, list,
                   gone, sent, said, unsaid, lateSends>>

\* The push of "delivered" is inside the try: the handler says "failed".
\* Any other push that fails ends the job without a result.
PublishFails(s) ==
    /\ At(s, "publish") /\ Fault
    /\ IF run[s].out = "delivered"
       THEN Answer(s, "publish", "failed") /\ UNCHANGED <<active, ended, mute>>
       ELSE End(s) /\ mute' = mute \cup {run[s].msg}
    /\ UNCHANGED <<bridge, queue, delayed, known, stalls, session, kill, list,
                   gone, sent, said, unsaid, lateSends>>

Finish(s) ==
    /\ At(s, "finish")
    /\ End(s)
    /\ UNCHANGED <<bridge, queue, delayed, known, stalls, session, kill, list,
                   gone, mute, sent, said, unsaid, lateSends, faults>>

---------------------------------------------------------------------------
(* The shards' processes, the operators and the files.                     *)

\* Jobs that failed are removed at the start, and their ids with them.
Failed == {m \in ended : m \in mute \/ stalls[m] > MaxStalls}
purgeFailedQueueJobs == known' = known \ {JobId[m] : m \in Failed}

Restart(s) ==
    /\ purgeFailedQueueJobs
    /\ life' = [life EXCEPT ![s] = "up"]
    /\ hand' = [hand EXCEPT ![s] = NoMessage]
    /\ gone' = IF hand[s] = NoMessage THEN gone ELSE gone \cup {hand[s]}
    /\ conn' = [conn EXCEPT ![s] = {}]
    /\ blocked' = [blocked EXCEPT ![s] = {}]

\* PM2 starts it again; the job stays active until its lock runs out.
Crash(s) ==
    /\ Fault
    /\ Restart(s)
    /\ run' = [run EXCEPT ![s] = Idle]
    /\ UNCHANGED <<toSend, raw, queue, delayed, active, stalls, linked, kill, list,
                   ended, mute, sent, said, unsaid, lateSends>>

shutdown(s) ==
    /\ life[s] = "up" /\ Fault
    /\ life' = [life EXCEPT ![s] = IF hand[s] = NoMessage THEN "closing" ELSE "closed"]
    /\ UNCHANGED <<toSend, raw, hand, bull, run, session, kill, list,
                   gone, ended, mute, sent, said, unsaid, lateSends>>

BlpopTimesOut(s) ==
    /\ life[s] = "closing"
    /\ life' = [life EXCEPT ![s] = "closed"]
    /\ UNCHANGED <<toSend, raw, hand, bull, run, session, kill, list, history>>

\* The processor is waited for, the bridge is not.
Exit(s) ==
    /\ life[s] = "closed" /\ At(s, "idle")
    /\ Restart(s)
    /\ UNCHANGED <<toSend, raw, queue, delayed, active, stalls, run, linked, kill, list,
                   ended, mute, sent, said, unsaid, lateSends, faults>>

set_whatsapp_send_kill_switch(on) ==
    /\ kill # on /\ Fault
    /\ kill' = on
    /\ lateSends' = [s \in Shards |-> 0]
    /\ UNCHANGED <<bridge, bull, run, session, list,
                   gone, ended, mute, sent, said, unsaid>>

\* The operator removes a session folder, or links the phone again.
Unlink(a) ==
    /\ a \in linked /\ Fault
    /\ linked' = linked \ {a}
    /\ UNCHANGED <<bridge, bull, run, conn, blocked, kill, list,
                   gone, ended, mute, sent, said, unsaid, lateSends>>
Link(a) ==
    /\ a \notin linked /\ Fault
    /\ linked' = linked \cup {a}
    /\ UNCHANGED <<bridge, bull, run, conn, blocked, kill, list,
                   gone, ended, mute, sent, said, unsaid, lateSends>>

WorkerInit ==
    /\ toSend = Messages /\ raw = <<>>
    /\ hand = [s \in Shards |-> NoMessage] /\ life = [s \in Shards |-> "up"]
    /\ queue = <<>> /\ delayed = {} /\ active = {} /\ known = {}
    /\ stalls = [m \in Messages |-> 0]
    /\ run = [s \in Shards |-> Idle]
    /\ conn = [s \in Shards |-> {}] /\ blocked = [s \in Shards |-> {}]
    /\ linked = Accounts /\ kill = FALSE /\ list = [l \in Lists |-> <<>>]
    /\ gone = {} /\ ended = {} /\ mute = {} /\ unsaid = {}
    /\ sent = [m \in Messages |-> 0] /\ said = [r \in Results |-> 0]
    /\ lateSends = [s \in Shards |-> 0] /\ faults = 0

Bridging(s)   == Pop(s) \/ Add(s) \/ AddFails(s)
Processing(s) ==
    \/ Take(s) \/ Defer(s) \/ CheckJob(s)
    \/ OpenSocket(s) \/ CredsGone(s) \/ LoginRefused(s) \/ ConnectFails(s)
    \/ SendMessage(s) \/ SendFails(s) \/ SentThenFails(s)
    \/ Report(s) \/ ReportFails(s) \/ publishResult(s) \/ PublishFails(s) \/ Finish(s)
Lifecycle(s)  == Crash(s) \/ shutdown(s) \/ BlpopTimesOut(s) \/ Exit(s)

WorkerNext ==
    \/ \E m \in Messages : enqueue_baileys_job(m) \/ Promote(m) \/ Stalled(m)
    \/ \E s \in Shards : Bridging(s) \/ Processing(s) \/ Lifecycle(s)
    \/ \E s \in Shards, a \in Accounts, loggedOut \in BOOLEAN : SocketCloses(s, a, loggedOut)
    \/ \E on \in BOOLEAN : set_whatsapp_send_kill_switch(on)
    \/ \E a \in Accounts : Unlink(a)

WorkerTypeOK ==
    /\ toSend \subseteq Messages /\ raw \in Seq(Messages)
    /\ hand \in [Shards -> Messages \cup {NoMessage}]
    /\ life \in [Shards -> {"up", "closing", "closed"}]
    /\ queue \in Seq(Messages) /\ delayed \subseteq Messages /\ active \subseteq Messages
    /\ known \subseteq {JobId[m] : m \in Messages} /\ stalls \in [Messages -> Nat]
    /\ run \in [Shards -> [at : Points, msg : Messages \cup {NoMessage}, out : Outcomes]]
    /\ conn \in [Shards -> SUBSET Accounts] /\ blocked \in [Shards -> SUBSET Accounts]
    /\ linked \subseteq Accounts /\ kill \in BOOLEAN
    /\ DOMAIN list = Lists
    /\ list["results"] \in Seq(Results) /\ list["statuses"] \in Seq(Accounts)
    /\ gone \subseteq Messages /\ ended \subseteq Messages /\ mute \subseteq Messages
    /\ sent \in [Messages -> Nat] /\ said \in [Results -> Nat]
    /\ unsaid \subseteq Accounts /\ lateSends \in [Shards -> Nat] /\ faults \in Nat
=============================================================================
