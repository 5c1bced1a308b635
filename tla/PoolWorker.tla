----------------------------- MODULE PoolWorker -----------------------------
(***************************************************************************)
(* The WhatsApp worker pool (workers/multi_account_worker.py and           *)
(* workers/whatsapp_pool_worker.py): each replica pops the Redis lists of  *)
(* its accounts in turn, puts a payload back when its account or campaign  *)
(* is paused, sends it, records the outcome (workers/db.py) and queues a   *)
(* retry.  A replica is suspended at every Redis call; its refresh loop    *)
(* then may swap the account list.  A popped payload lives in the          *)
(* replica's memory only.                                                  *)
(***************************************************************************)
EXTENDS Naturals, Sequences, FiniteSets, OrderedIds

CONSTANTS
    Workers,
    Accounts,        \* accounts.id of the WhatsApp accounts
    Msgs,            \* rendered_messages.id, carried as message_id
    Campaigns,
    CampaignOf,
    PoolSize, PoolIndex,
    Configured,      \* WHATSAPP_ACCOUNT_IDS
    MaxAttempts,     \* WHATSAPP_MAX_RETRY_ATTEMPTS
    MaxFaults,       \* bound on crashes, failed calls and ambiguous sends
    Operated,        \* bound on the switches the operators use
    Kill, None

Switches == {Kill} \cup Accounts \cup Campaigns

\* shard_account_ids.
Shard(w, S) == {a \in S : a % PoolSize = PoolIndex[w]}

ASSUME IdsAssumption ==
    /\ Accounts \subseteq Nat \ {0} /\ IsFiniteSet(Accounts)
    /\ Msgs \subseteq Nat \ {0} /\ Configured \subseteq Accounts
ASSUME PoolAssumption ==
    /\ PoolSize \in Nat \ {0} /\ PoolIndex \in [Workers -> 0..(PoolSize - 1)]
    /\ \A w \in Workers : Shard(w, Configured) # {}
ASSUME ConfigAssumption ==
    /\ CampaignOf \in [Msgs -> Campaigns]
    /\ MaxAttempts \in Nat /\ MaxFaults \in Nat
    /\ Operated \subseteq Switches
ASSUME NamesAssumption ==
    /\ None \notin Accounts \cup Msgs \cup [msg : Msgs, attempt : Nat]
    /\ Kill \notin Accounts \cup Campaigns /\ Accounts \cap Campaigns = {}

VARIABLES
    queue,        \* queue:whatsapp:{account}
    on,           \* kill switch, account and campaign pause keys that are set
    active,       \* WhatsApp accounts with status ACTIVE
    accountIds,   \* a replica's account_ids, in id order
    rr,           \* _round_robin_index
    pc,
    count, scan,  \* account_count and step of read_next_payload
    hand, source, \* the payload popped, and the account whose list it came from
    outcome,      \* the WorkerResult to be handled
    messages,     \* messages.id -> the rendered message it was made from
    nextId,       \* the sequence of messages.id
    sendStatus,   \* campaign_recipients.send_status
    finalId,      \* campaign_recipients.final_message_id
    attempts,     \* message_attempts: <<message_id, attempt_no>>
    \* history
    pushed, settled, lost,
    delivered,    \* per message, how often it reached the phone
    ambiguous,    \* deliveries reported as a retryable failure
    lateSends,    \* <<replica, switch>>: a delivery made while the switch is on
    faults

redis   == <<queue, on>>
pool    == <<accountIds, rr>>
run     == <<pc, count, scan, hand, source, outcome>>
db      == <<messages, nextId, sendStatus, finalId, attempts>>
history == <<pushed, settled, lost, delivered, ambiguous, lateSends, faults>>
vars    == <<redis, active, pool, run, db, history>>

Payloads == [msg : Msgs, attempt : Nat]
Outcomes == {"delivered", "failed_retryable", "failed_permanent"}
Holding  == {"popped", "campaign", "requeue", "putBack", "send", "record", "backoff"}

Goto(w, point) == pc' = [pc EXCEPT ![w] = point]
Fault == faults < MaxFaults /\ faults' = faults + 1

\* run_once returns: its locals are gone.
Return(w) ==
    /\ Goto(w, "idle")
    /\ hand' = [hand EXCEPT ![w] = None]
    /\ source' = [source EXCEPT ![w] = None]
    /\ outcome' = [outcome EXCEPT ![w] = None]
    /\ count' = [count EXCEPT ![w] = 0]
    /\ scan' = [scan EXCEPT ![w] = 0]

\* handle_error only logs: a payload in hand is forgotten.
handle_error(w) ==
    /\ Return(w)
    /\ lost' = IF hand[w] = None THEN lost ELSE lost \cup {hand[w].msg}

---------------------------------------------------------------------------
(* run_once.                                                               *)

check_kill_switch_Ignored(w) ==
    /\ pc[w] = "idle"
    /\ Goto(w, "scan")
    /\ count' = [count EXCEPT ![w] = Cardinality(accountIds[w])]
    /\ UNCHANGED <<redis, active, pool, scan, hand, source, outcome, db, history>>

check_kill_switch(w) ==
    /\ pc[w] = "idle" /\ Kill \notin on
    /\ Goto(w, "scan")
    /\ count' = [count EXCEPT ![w] = Cardinality(accountIds[w])]
    /\ UNCHANGED <<redis, active, pool, scan, hand, source, outcome, db, history>>

Index(w) == (rr[w] + scan[w]) % count[w]

\* self.account_ids[index]: the list may have shrunk since account_count.
ListShrank(w) ==
    /\ pc[w] = "scan" /\ Index(w) >= Cardinality(accountIds[w])
    /\ handle_error(w)
    /\ UNCHANGED <<redis, active, pool, db, pushed, settled, delivered, ambiguous,
                   lateSends, faults>>

LpopEmpty(w) ==
    /\ pc[w] = "scan" /\ Index(w) < Cardinality(accountIds[w])
    /\ queue[Nth(accountIds[w], Index(w))] = <<>>
    /\ IF scan[w] + 1 = count[w]
       THEN Return(w)
       ELSE /\ scan' = [scan EXCEPT ![w] = @ + 1]
            /\ UNCHANGED <<pc, count, hand, source, outcome>>
    /\ UNCHANGED <<redis, active, pool, db, history>>

\* The round-robin index advances past the account served.
Advance_Stays(w) == rr' = rr
Advance(w) == rr' = [rr EXCEPT ![w] = (Index(w) + 1) % count[w]]

Lpop(w, a) ==
    /\ pc[w] = "scan" /\ Index(w) < Cardinality(accountIds[w])
    /\ a = Nth(accountIds[w], Index(w)) /\ queue[a] # <<>>
    /\ queue' = [queue EXCEPT ![a] = Tail(@)]
    /\ hand' = [hand EXCEPT ![w] = Head(queue[a])]
    /\ source' = [source EXCEPT ![w] = a]
    /\ Advance(w)
    /\ Goto(w, "popped")
    /\ UNCHANGED <<on, active, accountIds, count, scan, outcome, db, history>>

\* A payload names the account of the list it was pushed to.
Allowed(w) == source[w] \in accountIds[w]

AccountPaused(w) ==
    /\ pc[w] = "popped" /\ source[w] \in on
    /\ Goto(w, "requeue")
    /\ UNCHANGED <<redis, active, pool, count, scan, hand, source, outcome, db, history>>

validate_payload(w) ==
    /\ pc[w] = "popped" /\ source[w] \notin on /\ Allowed(w)
    /\ Goto(w, "campaign")
    /\ UNCHANGED <<redis, active, pool, count, scan, hand, source, outcome, db, history>>

\* "not assigned to this worker": PayloadValidationError.
RejectPayload(w) ==
    /\ pc[w] = "popped" /\ source[w] \notin on /\ ~Allowed(w)
    /\ handle_error(w)
    /\ UNCHANGED <<redis, active, pool, db, pushed, settled, delivered, ambiguous,
                   lateSends, faults>>

check_campaign_paused(w) ==
    /\ pc[w] = "campaign"
    /\ Goto(w, IF CampaignOf[hand[w].msg] \in on THEN "putBack" ELSE "send")
    /\ UNCHANGED <<redis, active, pool, count, scan, hand, source, outcome, db, history>>

PutAtTail(w, payload) == queue' = [queue EXCEPT ![source[w]] = Append(@, payload)]
PutAtHead(w) == queue' = [queue EXCEPT ![source[w]] = <<hand[w]>> \o @]

Requeue_Twice(w) ==
    /\ pc[w] = "requeue"
    /\ queue' = [queue EXCEPT ![source[w]] = @ \o <<hand[w], hand[w]>>]
    /\ Return(w)
    /\ UNCHANGED <<on, active, pool, db, history>>

Requeue(w) ==
    /\ pc[w] = "requeue"
    /\ PutAtTail(w, hand[w])
    /\ Return(w)
    /\ UNCHANGED <<on, active, pool, db, history>>

PutBack_Dropped(w) ==
    /\ pc[w] = "putBack"
    /\ Return(w)
    /\ UNCHANGED <<redis, active, pool, db, history>>

PutBack(w) ==
    /\ pc[w] = "putBack"
    /\ PutAtHead(w)
    /\ Return(w)
    /\ UNCHANGED <<on, active, pool, db, history>>

\* What the platform did, and the switches it did it in spite of.
SwitchesOver(w) == {Kill, source[w], CampaignOf[hand[w].msg]} \cap on
Reaches(w) ==
    /\ delivered' = [delivered EXCEPT ![hand[w].msg] = @ + 1]
    /\ lateSends' = lateSends \cup ({w} \X SwitchesOver(w))

\* deliver_platform_message, and the throttles before it (AccountSend): a
\* WorkerResult, true to what happened.
send_message(w, result) ==
    /\ pc[w] = "send"
    /\ outcome' = [outcome EXCEPT ![w] = result]
    /\ Goto(w, "record")
    /\ IF result = "delivered" THEN Reaches(w) ELSE UNCHANGED <<delivered, lateSends>>
    /\ UNCHANGED <<redis, active, pool, count, scan, hand, source, db, pushed, settled,
                   lost, ambiguous, faults>>

\* A timeout after the platform accepted the message is a retryable failure.
SendTimesOut(w) ==
    /\ pc[w] = "send" /\ Fault
    /\ outcome' = [outcome EXCEPT ![w] = "failed_retryable"]
    /\ Goto(w, "record")
    /\ Reaches(w)
    /\ ambiguous' = [ambiguous EXCEPT ![hand[w].msg] = @ + 1]
    /\ UNCHANGED <<redis, active, pool, count, scan, hand, source, db, pushed, settled, lost>>

\* The connector raises, or a counter update after a successful delivery does.
SendRaises(w) ==
    /\ pc[w] = "send" /\ Fault
    /\ Reaches(w) \/ UNCHANGED <<delivered, lateSends>>
    /\ handle_error(w)
    /\ UNCHANGED <<redis, active, pool, db, pushed, settled, ambiguous>>

---------------------------------------------------------------------------
(* handle_result.                                                          *)

\* dedupe_key = rm_{message_id}_{campaign}_{contact} is unique.
DuplicateKey(m) == \E id \in DOMAIN messages : messages[id] = m
\* session.get(Message, message_id): a messages.id is looked up by a
\* rendered_messages.id.
Looked(m) == m \in DOMAIN messages

\* update_message_attempt_result commits.
Persist(m, n, result) ==
    /\ ~Looked(m) => ~DuplicateKey(m)
    /\ sendStatus' = [sendStatus EXCEPT ![m] = result]
    /\ IF Looked(m)
       THEN /\ finalId' = [finalId EXCEPT ![m] = m]
            /\ UNCHANGED <<messages, nextId>>
       ELSE /\ finalId' = [finalId EXCEPT ![m] = nextId]
            /\ messages' = [id \in DOMAIN messages \cup {nextId} |->
                              IF id = nextId THEN m ELSE messages[id]]
            /\ nextId' = nextId + 1
    /\ attempts' = IF m \in DOMAIN messages' THEN attempts \cup {<<m, n>>} ELSE attempts

should_schedule_retry_Always(w) == hand[w].attempt < MaxAttempts
should_schedule_retry(w) ==
    outcome[w] = "failed_retryable" /\ hand[w].attempt < MaxAttempts

handle_result(w) ==
    /\ pc[w] = "record"
    /\ Persist(hand[w].msg, hand[w].attempt, outcome[w])
    /\ IF should_schedule_retry(w)
       THEN /\ Goto(w, "backoff")
            /\ UNCHANGED <<count, scan, hand, source, outcome, settled>>
       ELSE /\ Return(w)
            /\ settled' = settled \cup {hand[w].msg}
    /\ UNCHANGED <<redis, active, pool, pushed, lost, delivered, ambiguous, lateSends, faults>>

\* The INSERT violates the unique dedupe_key: rolled back and re-raised, so no
\* retry is scheduled; the sequence value is consumed all the same.
IntegrityError(w) ==
    /\ pc[w] = "record" /\ ~Looked(hand[w].msg) /\ DuplicateKey(hand[w].msg)
    /\ nextId' = nextId + 1
    /\ handle_error(w)
    /\ UNCHANGED <<redis, active, pool, messages, sendStatus, finalId, attempts, pushed,
                   settled, delivered, ambiguous, lateSends, faults>>

DbFails(w) ==
    /\ pc[w] = "record" /\ Fault
    /\ handle_error(w)
    /\ UNCHANGED <<redis, active, pool, db, pushed, settled, delivered, ambiguous, lateSends>>

RetryPayload(w) == [hand[w] EXCEPT !.attempt = @ + 1]

\* _schedule_retry: sleeps first, with the payload in memory only.
_schedule_retry(w) ==
    /\ pc[w] = "backoff"
    /\ PutAtTail(w, RetryPayload(w))
    /\ Return(w)
    /\ UNCHANGED <<on, active, pool, db, history>>

---------------------------------------------------------------------------
(* Failures, and the refresh loop.                                         *)

\* A Redis call raises.  A write may have been executed; a pop that was, took
\* the payload with it.
RedisFails(w) ==
    /\ pc[w] \in {"scan", "popped", "campaign", "requeue", "putBack", "backoff"} /\ Fault
    /\ \/ UNCHANGED queue /\ handle_error(w)
       \/ /\ pc[w] = "scan" /\ Return(w)
          /\ \E a \in accountIds[w] :
                /\ Index(w) < Cardinality(accountIds[w])
                /\ a = Nth(accountIds[w], Index(w)) /\ queue[a] # <<>>
                /\ queue' = [queue EXCEPT ![a] = Tail(@)]
                /\ lost' = lost \cup {Head(queue[a]).msg}
       \/ /\ \/ pc[w] = "requeue" /\ PutAtTail(w, hand[w])
             \/ pc[w] = "putBack" /\ PutAtHead(w)
             \/ pc[w] = "backoff" /\ PutAtTail(w, RetryPayload(w))
          /\ Return(w) /\ UNCHANGED lost
    /\ UNCHANGED <<on, active, pool, db, pushed, settled, delivered, ambiguous, lateSends>>

\* A slip: the payload in hand is put back, whether or not it was sent (mutation runs only).
Crash_Recovers(w) ==
    /\ Fault /\ Return(w)
    /\ queue' = IF hand[w] = None THEN queue
                ELSE [queue EXCEPT ![source[w]] = <<hand[w]>> \o @]
    /\ accountIds' = [accountIds EXCEPT ![w] = Shard(w, Configured)]
    /\ rr' = [rr EXCEPT ![w] = 0]
    /\ UNCHANGED <<on, active, db, pushed, settled, lost, delivered, ambiguous, lateSends>>

\* The container dies and is restarted with the configured account list.
Crash(w) ==
    /\ Fault
    /\ handle_error(w)
    /\ accountIds' = [accountIds EXCEPT ![w] = Shard(w, Configured)]
    /\ rr' = [rr EXCEPT ![w] = 0]
    /\ UNCHANGED <<redis, active, db, pushed, settled, delivered, ambiguous, lateSends>>

_refresh_account_ids(w) ==
    LET new == Shard(w, active) IN
    /\ new # {} /\ new # accountIds[w]
    /\ accountIds' = [accountIds EXCEPT ![w] = new]
    /\ rr' = [rr EXCEPT ![w] = @ % Cardinality(new)]
    /\ UNCHANGED <<redis, active, run, db, history>>

---------------------------------------------------------------------------
(* The rest of the system, as far as the pool sees it.                     *)

\* The staging bridge pushes each message once, to an ACTIVE account.
BridgePush(m, a) ==
    /\ m \notin pushed /\ a \in active
    /\ queue' = [queue EXCEPT ![a] = Append(@, [msg |-> m, attempt |-> 1])]
    /\ pushed' = pushed \cup {m}
    /\ UNCHANGED <<on, active, pool, run, db, settled, lost, delivered, ambiguous,
                   lateSends, faults>>

\* An operator sets or deletes the kill switch or a pause key.
Toggle(s) ==
    /\ on' = (on \ {s}) \cup ({s} \ on)
    /\ lateSends' = lateSends \ (Workers \X {s})
    /\ UNCHANGED <<queue, active, pool, run, db, pushed, settled, lost, delivered,
                   ambiguous, faults>>

AccountStatusChanges(a) ==
    /\ active' = (active \ {a}) \cup ({a} \ active)
    /\ UNCHANGED <<redis, pool, run, db, history>>

Init ==
    /\ queue = [a \in Accounts |-> <<>>] /\ on = {} /\ active = Accounts
    /\ accountIds = [w \in Workers |-> Shard(w, Configured)]
    /\ rr = [w \in Workers |-> 0]
    /\ pc = [w \in Workers |-> "idle"]
    /\ count = [w \in Workers |-> 0] /\ scan = [w \in Workers |-> 0]
    /\ hand = [w \in Workers |-> None] /\ source = [w \in Workers |-> None]
    /\ outcome = [w \in Workers |-> None]
    /\ messages = <<>> /\ nextId = 1
    /\ sendStatus = [m \in Msgs |-> "pending"] /\ finalId = [m \in Msgs |-> None]
    /\ attempts = {}
    /\ pushed = {} /\ settled = {} /\ lost = {}
    /\ delivered = [m \in Msgs |-> 0] /\ ambiguous = [m \in Msgs |-> 0]
    /\ lateSends = {} /\ faults = 0

run_once(w) ==
    \/ check_kill_switch(w)
    \/ ListShrank(w) \/ LpopEmpty(w) \/ \E a \in Accounts : Lpop(w, a)
    \/ AccountPaused(w) \/ validate_payload(w) \/ RejectPayload(w)
    \/ check_campaign_paused(w) \/ Requeue(w) \/ PutBack(w)
    \/ \E result \in Outcomes : send_message(w, result)
    \/ handle_result(w) \/ IntegrityError(w) \/ _schedule_retry(w)

Fail(w) ==
    \/ SendTimesOut(w) \/ SendRaises(w) \/ DbFails(w) \/ RedisFails(w) \/ Crash(w)

Next ==
    \/ \E w \in Workers : run_once(w) \/ Fail(w) \/ _refresh_account_ids(w)
    \/ \E m \in Msgs, a \in Accounts : BridgePush(m, a)
    \/ \E s \in Operated : Toggle(s)
    \/ \E a \in Accounts : AccountStatusChanges(a)

Spec == Init /\ [][Next]_vars

\* run_forever repeats run_once, and the refresh loop ticks; nothing obliges an
\* operator or a fault.
Fairness == \A w \in Workers : /\ WF_vars(run_once(w))
                               /\ WF_vars(_refresh_account_ids(w))
FairSpec == Spec /\ Fairness

---------------------------------------------------------------------------
(* Properties.                                                             *)

TypeOK ==
    /\ queue \in [Accounts -> Seq(Payloads)]
    /\ on \subseteq Switches /\ active \subseteq Accounts
    /\ accountIds \in [Workers -> SUBSET Accounts] /\ rr \in [Workers -> Nat]
    /\ pc \in [Workers -> Holding \cup {"idle", "scan"}]
    /\ count \in [Workers -> Nat] /\ scan \in [Workers -> Nat]
    /\ hand \in [Workers -> Payloads \cup {None}]
    /\ source \in [Workers -> Accounts \cup {None}]
    /\ outcome \in [Workers -> Outcomes \cup {None}]
    /\ DOMAIN messages \subseteq Nat /\ \A id \in DOMAIN messages : messages[id] \in Msgs
    /\ nextId \in Nat
    /\ sendStatus \in [Msgs -> Outcomes \cup {"pending"}]
    /\ finalId \in [Msgs -> Nat \cup {None}]
    /\ attempts \subseteq Msgs \X Nat
    /\ pushed \subseteq Msgs /\ settled \subseteq Msgs /\ lost \subseteq Msgs
    /\ delivered \in [Msgs -> Nat] /\ ambiguous \in [Msgs -> Nat]
    /\ lateSends \subseteq Workers \X Switches /\ faults \in Nat

Queued(m) == \E a \in Accounts : \E i \in 1..Len(queue[a]) : queue[a][i].msg = m
Held(m)   == \E w \in Workers : hand[w] # None /\ hand[w].msg = m

\* However replicas share lists, requeue, retry and fail, a message is in one
\* place: once in one list, or in one replica's hand, or finished.
OnePlace ==
    /\ \A a, b \in Accounts : \A i \in 1..Len(queue[a]), j \in 1..Len(queue[b]) :
          queue[a][i].msg = queue[b][j].msg => a = b /\ i = j
    /\ \A v, w \in Workers :
          hand[v] # None /\ hand[w] # None /\ hand[v].msg = hand[w].msg => v = w
    /\ \A w \in Workers : hand[w] # None => ~Queued(hand[w].msg)
    /\ \A m \in settled \cup lost : ~Queued(m) /\ ~Held(m)

\* What the pool makes of a message, seen as its life: held by a replica it is taken, and
\* passed on once a delivery is known to have succeeded.
LifeOf(m) ==
    [at     |-> CASE m \in settled \cup lost -> "over"
                  [] Held(m) -> IF delivered[m] = ambiguous[m] THEN "taken" ELSE "passed"
                  [] OTHER   -> "waiting",
     copies |-> delivered[m],
     doubts |-> ambiguous[m]]
Life == INSTANCE MessageLife WITH Messages <- Msgs, life <- [m \in Msgs |-> LifeOf(m)]

\* The pool implements MessageLife: through pauses, requeues, retries, crashes and shared
\* lists, a recipient gets a message once, plus once for every delivery the connector
\* reported as a retryable failure, and nothing is sent of a message that was settled or lost.
MessagesLive == Life!LifeSpec

\* A pushed message is queued, held, finished, or was dropped by an error: no
\* pause, retry or shared list makes one disappear.
NothingVanishes ==
    \A m \in pushed : m \in settled \cup lost \/ Queued(m) \/ Held(m)

\* What the reports show as delivered was delivered, and is never delivered again.
DeliveredIsFinal ==
    /\ [](\A m \in Msgs : sendStatus[m] = "delivered" => delivered[m] > 0)
    /\ [][\A m \in Msgs : sendStatus[m] = "delivered" => delivered'[m] = delivered[m]]_vars

\* After the kill switch or a pause key is set, each replica delivers at most the
\* one message it had already cleared: a second delivery over the same switch
\* never happens.
OneLateSend ==
    [][\A w \in Workers :
          pc[w] = "send" /\ delivered'[hand[w].msg] # delivered[hand[w].msg]
          => \A s \in SwitchesOver(w) : <<w, s>> \notin lateSends]_vars

\* Fair round-robin: once account statuses have settled (each change may abort a
\* scan by IndexError before it reaches the last account) and nothing holds an
\* account back - kill switch, its pause key, its status, a paused campaign of
\* its own messages - the pool empties its list, though other accounts stay
\* paused or blocked by a paused campaign.
Free(a) ==
    /\ Kill \notin on /\ a \notin on
    /\ \E w \in Workers : a \in Shard(w, active)
    /\ \A i \in 1..Len(queue[a]) : CampaignOf[queue[a][i].msg] \notin on
    /\ \A w \in Workers : source[w] = a => CampaignOf[hand[w].msg] \notin on
FreeAccountsDrain ==
    <>[][active' = active]_vars =>
        \A a \in Accounts : <>[]Free(a) => []<>(queue[a] = <<>>)

\* "the swap ... is atomic relative to run_once" (_refresh_account_ids): a payload
\* popped for one of the replica's accounts is never rejected as unassigned.
\* It does not hold (README, section 5).
SwapIsAtomic == \A w \in Workers : pc[w] = "popped" => Allowed(w)

\* "Persist worker send outcome to campaign_recipients" (db.py): when no database
\* call fails, handling a result leaves it as the recipient's status.
OutcomePersisted ==
    [][\A w \in Workers : pc[w] = "record" /\ pc'[w] # "record" /\ faults' = faults
          => sendStatus'[hand[w].msg] = outcome[w]]_vars
=============================================================================
