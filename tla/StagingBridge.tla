--------------------------- MODULE StagingBridge ---------------------------
(***************************************************************************)
(* The hand-over of staged campaign messages from PostgreSQL to the Redis  *)
(* lists of the worker accounts (core_engine/services/queue_bridge.py),    *)
(* run both by the celery beat task and inside the "start campaign"        *)
(* request, together with campaign start/stop                              *)
(* (core_engine/services/campaign_control.py), which keep a database row   *)
(* and a Redis pause key in step.                                          *)
(*                                                                         *)
(* A process runs its code without interruption between two awaits when it *)
(* shares an event loop with others (ServerOf); its SQL statements         *)
(* interleave with those of other servers.  Row locks and uncommitted      *)
(* writes are explicit, because both SKIP LOCKED and a blocking UPDATE     *)
(* depend on them.                                                         *)
(***************************************************************************)
EXTENDS Naturals, Sequences, FiniteSets, OrderedIds

CONSTANTS
    Items,       \* staged_queue_items.id, ordered
    Campaigns,
    Accounts,    \* accounts.id, ordered
    Platforms,
    Beats,       \* celery tasks running push_ready_staged_items
    Operators,   \* in-flight start/stop requests
    Servers,     \* event loops: one per API process, one per celery task
    ServerOf,
    CampaignOf,
    ChannelOf,   \* the item's channel, None when it names no platform
    PlatformOf,
    BatchSize,
    MaxFaults,   \* bound on failed Redis calls and abandoned runs
    None

Procs == Beats \cup Operators

ASSUME IdsAssumption ==
    /\ Items \subseteq Nat /\ IsFiniteSet(Items)
    /\ Accounts \subseteq Nat /\ IsFiniteSet(Accounts)
ASSUME MapsAssumption ==
    /\ CampaignOf \in [Items -> Campaigns]
    /\ ChannelOf \in [Items -> Platforms \cup {None}]
    /\ PlatformOf \in [Accounts -> Platforms]
    /\ ServerOf \in [Procs -> Servers]
ASSUME BoundsAssumption == BatchSize \in Nat \ {0} /\ MaxFaults \in Nat
ASSUME NoneAssumption ==
    /\ None \notin Procs \cup Campaigns \cup Accounts \cup Platforms
    /\ None \notin {"draft", "prepared", "running", "paused"}
    /\ Beats \cap Operators = {}

VARIABLES
    itemStatus,     \* staged_queue_items.status, committed
    campaignStatus, \* campaigns.status, committed
    rowLock,        \* which transaction holds a campaign row
    pauseKeys,      \* campaigns whose Redis pause key is set
    blocked,        \* items whose contact get_consent_block_reason rejects
    active,         \* accounts with status ACTIVE
    pushedTo,       \* per item, the accounts whose Redis list received it
    pc,             \* where each process is
    camp,           \* the campaign an operator's request is about
    wrote,          \* its uncommitted campaign status, None when it has none
    claim,          \* claimed_items still to be handled by a bridge run
    cursor,         \* rr_cursor of a bridge run
    target,         \* the account chosen for the current item
    \* history, read by the properties only
    lostReplies,    \* per item, RPUSHes that took effect but raised
    abandoned,      \* items claimed by a run that never finished them
    consented,      \* items whose contact was allowed since their last claim
    faults

db      == <<itemStatus, campaignStatus, rowLock>>
world   == <<pauseKeys, blocked, active, pushedTo>>
local   == <<camp, wrote, claim, cursor, target>>
history == <<lostReplies, abandoned, consented, faults>>
vars    == <<db, world, pc, local, history>>

ItemStatuses     == {"absent", "ready", "pushing", "queued", "skipped"}
CampaignStatuses == {"draft", "prepared", "running", "paused"}
STARTABLE_STATUSES == {"draft", "prepared", "paused", "running"}
STOPPABLE_STATUSES == {"running", "paused", "prepared"}

\* Program points at which a coroutine is suspended: everything else runs to
\* the next of them without giving the event loop to another request.
AwaitPoints == {"idle", "clearPause", "setPause", "push"}
ItemPoints  == {"consent", "account", "push", "mark"}
Points      == AwaitPoints \cup ItemPoints
                 \cup {"flushStart", "flushStop", "bridge", "claimed", "commit"}

---------------------------------------------------------------------------
item(p) == First(claim[p])

CanRun(p) == \A q \in Procs \ {p} :
                ServerOf[q] = ServerOf[p] => pc[q] \in AwaitPoints

\* The campaign status a transaction of p reads: its own write, if any.
Status(p, c) == IF rowLock[c] = p /\ camp[p] = c /\ wrote[p] # None
                THEN wrote[p] ELSE campaignStatus[c]

Unlocked(p) == [c \in Campaigns |-> IF rowLock[c] = p THEN None ELSE rowLock[c]]
Committed(p) == IF camp[p] # None /\ wrote[p] # None
                THEN [campaignStatus EXCEPT ![camp[p]] = wrote[p]]
                ELSE campaignStatus

\* Slips a change to the claim query could make (mutation runs only).
Claimable_NoSkipLocked(p) ==
    {i \in Items : itemStatus[i] = "ready" /\ Status(p, CampaignOf[i]) = "running"}
Claimable_AlsoPushing(p) == {i \in Items : /\ itemStatus[i] \in {"ready", "pushing"}
                                           /\ Status(p, CampaignOf[i]) = "running"
                                           /\ rowLock[CampaignOf[i]] \in {None, p}}
Claimable_AnyCampaign(p) == {i \in Items : /\ itemStatus[i] = "ready"
                                           /\ rowLock[CampaignOf[i]] \in {None, p}}

\* FOR UPDATE SKIP LOCKED on the join locks, and skips, item and campaign rows;
\* an item row is never locked while its campaign row is not.
Claimable(p) == {i \in Items : /\ itemStatus[i] = "ready"
                               /\ Status(p, CampaignOf[i]) = "running"
                               /\ rowLock[CampaignOf[i]] \in {None, p}}

Eligible(ch) == {a \in active : PlatformOf[a] = ch}

\* What follows the last item of a bridge run.
AfterBridge(p) == IF p \in Beats THEN "idle" ELSE "commit"

Goto(p, point) == pc' = [pc EXCEPT ![p] = point]

\* The locals rr_cursor and account end with the run.
FreshCursor == [x \in Platforms |-> 0]
NextItem(p) ==
    LET last == claim[p] = {item(p)} IN
    /\ claim' = [claim EXCEPT ![p] = @ \ {item(p)}]
    /\ target' = [target EXCEPT ![p] = None]
    /\ cursor' = IF last THEN [cursor EXCEPT ![p] = FreshCursor] ELSE cursor
    /\ Goto(p, IF last THEN AfterBridge(p) ELSE "consent")

---------------------------------------------------------------------------
(* Campaign start and stop.                                                *)

Request(p, c, allowed, new, flush, redisCall) ==
    /\ pc[p] = "idle" /\ CanRun(p)
    /\ campaignStatus[c] \in allowed
    /\ camp' = [camp EXCEPT ![p] = c]
    /\ wrote' = [wrote EXCEPT ![p] = IF campaignStatus[c] = new THEN None ELSE new]
    /\ Goto(p, IF campaignStatus[c] = new THEN redisCall ELSE flush)
    /\ UNCHANGED <<db, world, claim, cursor, target, history>>

\* start_campaign up to db.flush(): assigning an unchanged status emits no UPDATE.
StartRequest(p, c) ==
    Request(p, c, STARTABLE_STATUSES, "running", "flushStart", "clearPause")

StopRequest(p, c) ==
    Request(p, c, STOPPABLE_STATUSES, "paused", "flushStop", "setPause")

\* db.flush(): the UPDATE waits, inside the event loop, for the row lock.
Flush(p) ==
    /\ pc[p] \in {"flushStart", "flushStop"}
    /\ rowLock[camp[p]] = None
    /\ rowLock' = [rowLock EXCEPT ![camp[p]] = p]
    /\ Goto(p, IF pc[p] = "flushStart" THEN "clearPause" ELSE "setPause")
    /\ UNCHANGED <<itemStatus, campaignStatus, world, local, history>>

clear_campaign_pause(p) ==
    /\ pc[p] = "clearPause" /\ CanRun(p)
    /\ pauseKeys' = pauseKeys \ {camp[p]}
    /\ Goto(p, "bridge")
    /\ UNCHANGED <<db, blocked, active, pushedTo, local, history>>

set_campaign_pause(p) ==
    /\ pc[p] = "setPause" /\ CanRun(p)
    /\ pauseKeys' = pauseKeys \cup {camp[p]}
    /\ Goto(p, "commit")
    /\ UNCHANGED <<db, blocked, active, pushedTo, local, history>>

Rollback_KeepsLock(p) ==
    /\ camp' = [camp EXCEPT ![p] = None]
    /\ wrote' = [wrote EXCEPT ![p] = None]
    /\ claim' = [claim EXCEPT ![p] = {}]
    /\ cursor' = [cursor EXCEPT ![p] = FreshCursor]
    /\ target' = [target EXCEPT ![p] = None]
    /\ Goto(p, "idle") /\ UNCHANGED rowLock

Rollback(p) ==
    /\ rowLock' = Unlocked(p)
    /\ camp' = [camp EXCEPT ![p] = None]
    /\ wrote' = [wrote EXCEPT ![p] = None]
    /\ claim' = [claim EXCEPT ![p] = {}]
    /\ cursor' = [cursor EXCEPT ![p] = FreshCursor]
    /\ target' = [target EXCEPT ![p] = None]
    /\ Goto(p, "idle")

\* CampaignControlError: the Redis command may have taken effect before it
\* raised; the database change is rolled back and the client gets a 503.
PauseCallFails(p) ==
    /\ pc[p] \in {"clearPause", "setPause"} /\ CanRun(p)
    /\ faults < MaxFaults /\ faults' = faults + 1
    /\ \/ UNCHANGED pauseKeys
       \/ pc[p] = "clearPause" /\ pauseKeys' = pauseKeys \ {camp[p]}
       \/ pc[p] = "setPause" /\ pauseKeys' = pauseKeys \cup {camp[p]}
    /\ Rollback(p)
    /\ UNCHANGED <<itemStatus, campaignStatus, blocked, active, pushedTo,
                   lostReplies, abandoned, consented>>

\* The endpoint's own db.commit() after start_campaign / stop_campaign.
CommitRequest(p) ==
    /\ pc[p] = "commit"
    /\ campaignStatus' = Committed(p)
    /\ Rollback(p)
    /\ UNCHANGED <<itemStatus, world, history>>

---------------------------------------------------------------------------
(* push_staged_items_to_worker_queue.                                      *)

BeatTick(p) ==
    /\ p \in Beats /\ pc[p] = "idle" /\ CanRun(p)
    /\ Goto(p, "bridge")
    /\ UNCHANGED <<db, world, local, history>>

ClaimBatch(p) ==
    /\ pc[p] = "bridge" /\ Claimable(p) # {}
    /\ claim' = [claim EXCEPT ![p] = FirstN(Claimable(p), BatchSize)]
    /\ rowLock' = [c \in Campaigns |->
                     IF \E i \in claim'[p] : CampaignOf[i] = c THEN p ELSE rowLock[c]]
    /\ Goto(p, "claimed")
    /\ UNCHANGED <<itemStatus, campaignStatus, world, camp, wrote, cursor, target,
                   history>>

ClaimNothing(p) ==
    /\ pc[p] = "bridge" /\ Claimable(p) = {}
    /\ Goto(p, AfterBridge(p))
    /\ UNCHANGED <<db, world, local, history>>

\* The early commit: it also commits an operator's pending campaign status.
CommitClaim(p) ==
    /\ pc[p] = "claimed"
    /\ itemStatus' = [i \in Items |-> IF i \in claim[p] THEN "pushing" ELSE itemStatus[i]]
    /\ campaignStatus' = Committed(p)
    /\ rowLock' = Unlocked(p)
    /\ wrote' = [wrote EXCEPT ![p] = None]
    /\ consented' = (consented \ claim[p]) \cup (claim[p] \ blocked)
    /\ Goto(p, "consent")
    /\ UNCHANGED <<world, camp, claim, cursor, target, lostReplies, abandoned, faults>>

Settle(p, status) == itemStatus' = [itemStatus EXCEPT ![item(p)] = status]

SkipItem(p) ==
    /\ pc[p] = "consent"
    /\ item(p) \in blocked \/ ChannelOf[item(p)] = None
    /\ Settle(p, "skipped")
    /\ NextItem(p)
    /\ UNCHANGED <<campaignStatus, rowLock, world, camp, wrote, history>>

PassConsent(p) ==
    /\ pc[p] = "consent"
    /\ item(p) \notin blocked /\ ChannelOf[item(p)] # None
    /\ Goto(p, "account")
    /\ UNCHANGED <<db, world, local, history>>

NoAccount_KeepsPushing(p) ==
    /\ pc[p] = "account" /\ Eligible(ChannelOf[item(p)]) = {}
    /\ NextItem(p)
    /\ UNCHANGED <<db, world, camp, wrote, history>>

NoAccount(p) ==
    /\ pc[p] = "account" /\ Eligible(ChannelOf[item(p)]) = {}
    /\ Settle(p, "ready")
    /\ NextItem(p)
    /\ UNCHANGED <<campaignStatus, rowLock, world, camp, wrote, history>>

ChooseAccount(p) ==
    LET ch       == ChannelOf[item(p)]
        accounts == Eligible(ch)
        idx      == cursor[p][ch] % Cardinality(accounts)
    IN /\ pc[p] = "account" /\ accounts # {}
       /\ target' = [target EXCEPT ![p] = Nth(accounts, idx)]
       /\ cursor' = [cursor EXCEPT ![p][ch] = idx + 1]
       /\ Goto(p, "push")
       /\ UNCHANGED <<db, world, camp, wrote, claim, history>>

Deliver(p) == pushedTo' = [pushedTo EXCEPT ![item(p)] = Append(@, target[p])]

Push(p) ==
    /\ pc[p] = "push" /\ CanRun(p)
    /\ Deliver(p)
    /\ Goto(p, "mark")
    /\ UNCHANGED <<db, pauseKeys, blocked, active, local, history>>

PushFails_StillQueued(p) ==
    /\ pc[p] = "push" /\ CanRun(p)
    /\ faults < MaxFaults /\ faults' = faults + 1
    /\ Settle(p, "queued")
    /\ NextItem(p)
    /\ UNCHANGED <<campaignStatus, rowLock, world, camp, wrote, lostReplies, abandoned,
                   consented>>
PushFails_NoReset(p) ==
    /\ pc[p] = "push" /\ CanRun(p)
    /\ faults < MaxFaults /\ faults' = faults + 1
    /\ NextItem(p)
    /\ UNCHANGED <<db, world, camp, wrote, lostReplies, abandoned, consented>>

\* rpush raises, whether or not Redis executed it: the item is READY again.
PushFails(p) ==
    /\ pc[p] = "push" /\ CanRun(p)
    /\ faults < MaxFaults /\ faults' = faults + 1
    /\ \/ UNCHANGED <<pushedTo, lostReplies>>
       \/ /\ Deliver(p)
          /\ lostReplies' = [lostReplies EXCEPT ![item(p)] = @ + 1]
    /\ Settle(p, "ready")
    /\ NextItem(p)
    /\ UNCHANGED <<campaignStatus, rowLock, pauseKeys, blocked, active, camp, wrote,
                   abandoned, consented>>

MarkQueued(p) ==
    /\ pc[p] = "mark"
    /\ Settle(p, "queued")
    /\ NextItem(p)
    /\ UNCHANGED <<campaignStatus, rowLock, world, camp, wrote, history>>

\* The process dies, or a commit fails: the session then refuses every later
\* commit, so the exception leaves the loop and nothing resets the claim.
Abandon(p) ==
    /\ pc[p] # "idle"
    /\ faults < MaxFaults /\ faults' = faults + 1
    /\ abandoned' = abandoned \cup {i \in claim[p] : itemStatus[i] = "pushing"}
    /\ Rollback(p)
    /\ UNCHANGED <<itemStatus, campaignStatus, world, lostReplies, consented>>

---------------------------------------------------------------------------
(* The rest of the system, as far as the bridge sees it.                   *)

\* prepare_campaign_messages: stages some absent items of a campaign, and
\* writes PREPARED whatever the campaign's status was.
Prepare(c) ==
    \E S \in SUBSET {i \in Items : CampaignOf[i] = c /\ itemStatus[i] = "absent"} :
        /\ S # {} \/ \E i \in Items : CampaignOf[i] = c /\ itemStatus[i] = "ready"
        /\ rowLock[c] = None
        /\ itemStatus' = [i \in Items |-> IF i \in S THEN "ready" ELSE itemStatus[i]]
        /\ campaignStatus' = [campaignStatus EXCEPT ![c] = "prepared"]
        /\ UNCHANGED <<rowLock, world, pc, local, history>>

record_opt_out(i) ==
    /\ blocked' = blocked \cup {i}
    /\ UNCHANGED <<db, pauseKeys, active, pushedTo, pc, local, history>>

record_opt_in(i) ==
    /\ blocked' = blocked \ {i}
    /\ consented' = consented \cup {i}
    /\ UNCHANGED <<db, pauseKeys, active, pushedTo, pc, local, lostReplies, abandoned,
                   faults>>

\* Operators, session monitors and the risk monitor change accounts.status.
AccountStatusChanges(a) ==
    /\ active' = (active \ {a}) \cup ({a} \ active)
    /\ UNCHANGED <<db, pauseKeys, blocked, pushedTo, pc, local, history>>

Init ==
    /\ itemStatus = [i \in Items |-> "absent"]
    /\ campaignStatus = [c \in Campaigns |-> "draft"]
    /\ rowLock = [c \in Campaigns |-> None]
    /\ pauseKeys = {} /\ blocked = {} /\ active = Accounts
    /\ pushedTo = [i \in Items |-> <<>>]
    /\ pc = [p \in Procs |-> "idle"]
    /\ camp = [p \in Procs |-> None]
    /\ wrote = [p \in Procs |-> None]
    /\ claim = [p \in Procs |-> {}]
    /\ cursor = [p \in Procs |-> FreshCursor]
    /\ target = [p \in Procs |-> None]
    /\ lostReplies = [i \in Items |-> 0]
    /\ abandoned = {} /\ consented = Items /\ faults = 0

\* What a process does by itself once a task or request has started.
Run(p) ==
    \/ Flush(p) \/ clear_campaign_pause(p) \/ set_campaign_pause(p) \/ CommitRequest(p)
    \/ ClaimBatch(p) \/ ClaimNothing(p) \/ CommitClaim(p)
    \/ SkipItem(p) \/ PassConsent(p) \/ NoAccount(p) \/ ChooseAccount(p)
    \/ Push(p) \/ MarkQueued(p)

Fail(p) == PauseCallFails(p) \/ PushFails(p) \/ Abandon(p)

Environment ==
    \/ \E c \in Campaigns : Prepare(c)
    \/ \E i \in Items : record_opt_out(i) \/ record_opt_in(i)
    \/ \E a \in Accounts : AccountStatusChanges(a)

Next ==
    \/ \E p \in Operators, c \in Campaigns : StartRequest(p, c) \/ StopRequest(p, c)
    \/ \E p \in Beats : BeatTick(p)
    \/ \E p \in Procs : Run(p) \/ Fail(p)
    \/ Environment

Spec == Init /\ [][Next]_vars

\* The beat schedule fires every five seconds, a started process keeps running,
\* and PostgreSQL grants a row lock to its waiter some time after it is free;
\* nothing obliges an operator, a contact or a fault to act.
Fairness == /\ \A p \in Beats : WF_vars(BeatTick(p))
            /\ \A p \in Procs : WF_vars(Run(p))
            /\ \A p \in Operators : SF_vars(Flush(p))
FairSpec == Spec /\ Fairness

---------------------------------------------------------------------------
(* Properties.                                                             *)

StatusOrNone == CampaignStatuses \cup {None}

TypeOK ==
    /\ itemStatus \in [Items -> ItemStatuses]
    /\ campaignStatus \in [Campaigns -> CampaignStatuses]
    /\ rowLock \in [Campaigns -> Procs \cup {None}]
    /\ pauseKeys \subseteq Campaigns /\ blocked \subseteq Items /\ active \subseteq Accounts
    /\ pushedTo \in [Items -> Seq(Accounts)]
    /\ pc \in [Procs -> Points]
    /\ camp \in [Procs -> Campaigns \cup {None}]
    /\ wrote \in [Procs -> StatusOrNone]
    /\ claim \in [Procs -> SUBSET Items]
    /\ cursor \in [Procs -> [Platforms -> Nat]]
    /\ target \in [Procs -> Accounts \cup {None}]
    /\ lostReplies \in [Items -> Nat]
    /\ abandoned \subseteq Items /\ consented \subseteq Items /\ faults \in Nat

\* Two bridge runs never work on the same staged item, from the moment the
\* first of them selects it (SKIP LOCKED before the commit, PUSHING after it).
ClaimsDisjoint ==
    \A p, q \in Procs : p # q => claim[p] \cap claim[q] = {}

\* A message reaches the worker queues at most once, plus once for every
\* RPUSH that took effect although the bridge saw it fail.
AtMostOncePlusLostReplies ==
    \A i \in Items : Len(pushedTo[i]) <= lostReplies[i] + 1

\* QUEUED is never reported for a message no worker queue has received, and a
\* skipped message was received only by way of a lost reply.
StatusTellsDelivery ==
    \A i \in Items :
        /\ itemStatus[i] = "queued" => Len(pushedTo[i]) = lostReplies[i] + 1
        /\ itemStatus[i] \in {"absent", "ready", "skipped"} => Len(pushedTo[i]) = lostReplies[i]

\* A PUSHING item belongs to a run that is still going to settle it, unless
\* that run was abandoned: nothing else strands an item.
PushingIsOwned ==
    \A i \in Items : itemStatus[i] = "pushing" =>
        i \in abandoned \/ \E p \in Procs : i \in claim[p]

\* An item is claimed only in a commit after which its campaign is RUNNING (the row lock
\* keeps a stop from slipping between select and commit), and it is pushed only if its
\* contact's consent allowed it at some moment since that claim.
ClaimsArePermitted ==
    [][\A i \in Items :
          /\ itemStatus[i] = "ready" /\ itemStatus'[i] = "pushing"
                => campaignStatus'[CampaignOf[i]] = "running"
          /\ pushedTo'[i] # pushedTo[i] => i \in consented]_vars

\* What the bridge makes of an item, seen as the life of a message: a PUSHING item is
\* taken, and passed on once a list has a copy that no failed RPUSH explains.
LifeOf(i) ==
    [at     |-> CASE itemStatus[i] \in {"absent", "ready"} -> "waiting"
                  [] itemStatus[i] = "pushing" ->
                        IF Len(pushedTo[i]) = lostReplies[i] THEN "taken" ELSE "passed"
                  [] OTHER -> "over",
     copies |-> Len(pushedTo[i]),
     doubts |-> lostReplies[i]]
Life == INSTANCE MessageLife WITH Messages <- Items, life <- [i \in Items |-> LifeOf(i)]

\* The bridge implements MessageLife: with several runs on the same rows, lost replies and
\* abandoned runs, an item is claimed from READY, goes back only if no copy of this claim is
\* known to have left, leaves once more only for a lost reply, and is never reopened.
ItemsLive == Life!LifeSpec

\* "PAUSED in the database and the Redis pause key set" (stop endpoint): when
\* no request is in flight, a PAUSED campaign has its pause key.
PausedHasKey ==
    (\A p \in Operators : pc[p] = "idle") =>
        \A c \in Campaigns : campaignStatus[c] = "paused" => c \in pauseKeys

\* Every start or stop request is answered.
RequestsReturn ==
    \A p \in Operators : (pc[p] # "idle") ~> (pc[p] = "idle")

Sendable(i) == ChannelOf[i] = None \/ Eligible(ChannelOf[i]) # {}
Settled(i)  == itemStatus[i] \in {"absent", "queued", "skipped"}
Served(i)   == campaignStatus[CampaignOf[i]] = "running" /\ i \notin abandoned

\* While a campaign stays RUNNING and every channel keeps an account, the
\* periodic bridge settles each of its READY items for good, however small the
\* batch and whatever requests and other bridge runs lock meanwhile.
RunningDrains ==
    \A i \in Items : <>[](Served(i) /\ \A j \in Items : Sendable(j)) => <>[]Settled(i)
=============================================================================
