------------------------------- MODULE Dispatch -------------------------------
(***************************************************************************)
(* Consent, and the dispatch of one message for a contact on a channel:    *)
(* queue_manager, message_dispatch, and the consent gate each of them asks. *)
(* The two handlers, a queue to push to and a channel to send on, are      *)
(* plugged in by whoever uses the module; either may be absent.            *)
(***************************************************************************)
EXTENDS Naturals, FiniteSets

CONSTANTS
    Channels,
    Requests,      \* messages to dispatch
    Decisions,     \* opt-ins and opt-outs
    Channel(_),    \* the channel of a request
    MaxRetries     \* of the Celery task

ASSUME MaxRetriesIsNat == MaxRetries \in Nat

EveryChannel == "every channel"

VARIABLES
    dryRun, shadowMode, shadowPhone,       \* settings
    pushes, sends,                         \* the handlers that are plugged in
    events,        \* the committed opt events
    blacklisted,   \* contacts.blacklisted
    decision,      \* per decision: its transaction
    request,       \* per request: where it is and what it carries
    left,          \* what left by a handler: [request, by, to]
    refused        \* ghost, per request: consent was refused when its last stage began

settings == <<dryRun, shadowMode, shadowPhone, pushes, sends>>
consent  == <<events, blacklisted, decision>>
dispatchVars == <<settings, consent, request, left, refused>>

\* How a request reaches the code: the Celery task dispatches the payload that was saved
\* with the rendered message; the queue manager enqueues and then dispatches it, or one
\* that is built again from the rendered message and has no phone.
Entries == {"task", "queue", "rebuilt", "malformed"}

NoDecision == [pc |-> "idle", optedIn |-> FALSE, channel |-> EveryChannel, seen |-> FALSE, at |-> 0]

DispatchInit ==
    /\ dryRun \in BOOLEAN /\ shadowMode \in BOOLEAN /\ shadowPhone \in BOOLEAN
    /\ pushes \in BOOLEAN /\ sends \in BOOLEAN
    /\ events = {} /\ blacklisted \in BOOLEAN
    /\ decision = [d \in Decisions |-> NoDecision]
    /\ request \in [Requests -> {[pc |-> "idle", entry |-> e, to |-> IF e = "rebuilt" THEN "" ELSE "customer",
                                  retries |-> 0, status |-> "none"] : e \in Entries}]
    /\ left = {} /\ refused = {}

-----------------------------------------------------------------------------
(***************************************************************************)
(* Decisions.  An event takes its place among the others when it is        *)
(* flushed, and others see it when its transaction commits; the row of the *)
(* contact is written, and locked, only when the flag changes.             *)
(***************************************************************************)
\* Flushed events, committed or not, are numbered in order.
Flushed == {d \in Decisions : decision[d].pc \in {"flushed", "committed"}}
NextPlace == Cardinality(Flushed) + 1

LoadContact(d) ==
    /\ decision[d].pc = "idle"
    /\ \E in \in BOOLEAN, ch \in Channels \cup {EveryChannel} :
          decision' = [decision EXCEPT ![d] = [pc |-> "loaded", optedIn |-> in, channel |-> ch,
                                               seen |-> blacklisted, at |-> 0]]
    /\ UNCHANGED <<settings, events, blacklisted, request, left, refused>>

\* An opt-out sets the flag of the contact, an opt-in clears it, whatever the channel.
Writes(d) == decision[d].seen = decision[d].optedIn

FlushDecision(d) ==
    /\ decision[d].pc = "loaded"
    /\ Writes(d) => \A e \in Decisions : decision[e].pc = "flushed" => ~Writes(e)
    /\ decision' = [decision EXCEPT ![d].pc = "flushed", ![d].at = NextPlace]
    /\ UNCHANGED <<settings, events, blacklisted, request, left, refused>>

Event(d) == [id |-> d, optedIn |-> decision[d].optedIn, channel |-> decision[d].channel, at |-> decision[d].at]

\* record_opt_in and record_opt_out, as their caller commits them.
CommitDecision(d) ==
    /\ decision[d].pc = "flushed"
    /\ events' = events \cup {Event(d)}
    /\ blacklisted' = IF Writes(d) THEN ~decision[d].optedIn ELSE blacklisted
    /\ decision' = [decision EXCEPT ![d].pc = "committed"]
    /\ UNCHANGED <<settings, request, left, refused>>

DecisionStep(d) == LoadContact(d) \/ FlushDecision(d) \/ CommitDecision(d)

Concerns(event, channel) == event.channel \in {EveryChannel, channel}

\* The newest of the events opts in.
NewestOptsIn(some) == \E e \in some : e.optedIn /\ \A f \in some : f.at <= e.at

_latest_event_opted_in_AnyChannel(channel) == events = {} \/ NewestOptsIn(events)

\* The newest event for the channel, or for every channel, decides.
_latest_event_opted_in(channel) ==
    LET concerning == {e \in events : Concerns(e, channel)}
    IN  concerning = {} \/ NewestOptsIn(concerning)

get_consent_block_reason(channel) ==
    IF ~_latest_event_opted_in(channel) THEN "opted_out"
    ELSE IF blacklisted THEN "blacklisted" ELSE "none"

\* Ghost: an opt-out for the channel was committed, and no opt-in for it came after.
Refused(channel) ==
    \E d \in Decisions :
        /\ decision[d].pc = "committed" /\ ~decision[d].optedIn /\ Concerns(decision[d], channel)
        /\ ~ \E e \in Flushed : /\ decision[e].optedIn /\ Concerns(decision[e], channel)
                                /\ decision[e].at > decision[d].at

-----------------------------------------------------------------------------
(***************************************************************************)
(* One request.                                                            *)
(***************************************************************************)
\* The request ends with a status, which the message log gets too.
Ends(r, status) == request' = [request EXCEPT ![r].pc = "done", ![r].status = status]

Shadowed == shadowMode /\ shadowPhone

\* A slip: the shadow phone is forgotten (mutation runs only).
apply_shadow_recipient_Ignored(to) == to

apply_shadow_recipient(to) == IF Shadowed THEN "shadow" ELSE to

Sees(r) == refused' = IF Refused(Channel(r)) THEN refused \cup {r} ELSE refused \ {r}

\* The gate of a stage: blocked, unavailable when the database fails, or open to stage.
check_consent_or_log(r, from, to) ==
    /\ request[r].pc = from
    /\ Sees(r)
    /\ LET reason == get_consent_block_reason(Channel(r))
       IN  \/ reason # "none" /\ Ends(r, reason)
           \/ Ends(r, "failed_retryable")
           \/ reason = "none" /\ request' = [request EXCEPT ![r].pc = to]
    /\ UNCHANGED <<settings, consent, left>>

StartRequest(r) ==
    /\ request[r].pc = "idle" /\ request[r].entry # "malformed"
    /\ request' = [request EXCEPT ![r].pc = IF request[r].entry = "task"
                                            THEN "dispatching" ELSE "enqueueing"]
    /\ UNCHANGED <<settings, consent, left, refused>>

\* The task retries what raises; a payload without its ids raises every time.
send_message_task(r) ==
    /\ request[r].pc = "idle" /\ request[r].entry = "malformed"
    /\ IF request[r].retries < MaxRetries
       THEN request' = [request EXCEPT ![r].retries = @ + 1]
       ELSE Ends(r, "raised")
    /\ UNCHANGED <<settings, consent, left, refused>>

\* The queue payload carries the shadow recipient on to the dispatch.
enqueue_message(r) ==
    /\ request[r].pc = "enqueue"
    /\ IF dryRun
       THEN Ends(r, "dry_run")
       ELSE /\ request' = [request EXCEPT ![r].pc = "dispatching", ![r].to = apply_shadow_recipient(@)]
    /\ UNCHANGED <<settings, consent, left, refused>>

PlanDispatch(r) ==
    /\ request[r].pc = "plan"
    /\ IF dryRun
       THEN Ends(r, "dry_run")
       ELSE request' = [request EXCEPT ![r].pc = "push", ![r].to = apply_shadow_recipient(@)]
    /\ UNCHANGED <<settings, consent, left, refused>>

Leaves(r, by) == left' = left \cup {[request |-> r, by |-> by, to |-> request[r].to]}

\* A failed push ends the request.
PushToQueue(r) ==
    /\ request[r].pc = "push"
    /\ \/ /\ pushes => Leaves(r, "queue")
          /\ ~pushes => UNCHANGED left
          /\ request' = [request EXCEPT ![r].pc = "send"]
       \/ /\ pushes /\ UNCHANGED left
          /\ Ends(r, "failed_retryable")
    /\ UNCHANGED <<settings, consent, refused>>

\* After a push the message is sent on the channel as well; a failed send marks it for a
\* retry, except in shadow mode.
SendToChannel(r) ==
    /\ request[r].pc = "send"
    /\ LET sent == IF Shadowed THEN "shadow_sent" ELSE "queued"
       IN  \/ /\ sends => Leaves(r, "channel")
              /\ ~sends => UNCHANGED left
              /\ Ends(r, sent)
           \/ /\ sends
              /\ Leaves(r, "channel") \/ UNCHANGED left        \* an error may hide a delivery
              /\ LET status == IF Shadowed THEN sent ELSE "failed_retryable"
                 IN  Ends(r, status)
    /\ UNCHANGED <<settings, consent, refused>>

RequestStep(r) ==
    \/ StartRequest(r) \/ send_message_task(r)
    \/ check_consent_or_log(r, "enqueueing", "enqueue") \/ enqueue_message(r)
    \/ check_consent_or_log(r, "dispatching", "plan") \/ PlanDispatch(r)
    \/ PushToQueue(r) \/ SendToChannel(r)

DispatchNext == (\E d \in Decisions : DecisionStep(d)) \/ (\E r \in Requests : RequestStep(r))
DispatchSpec == DispatchInit /\ [][DispatchNext]_dispatchVars

-----------------------------------------------------------------------------
ChannelOrAll == Channels \cup {EveryChannel}
Endings == {"none", "opted_out", "blacklisted", "failed_retryable", "raised", "dry_run", "shadow_sent", "queued"}

DispatchTypeOK ==
    /\ {dryRun, shadowMode, shadowPhone, pushes, sends, blacklisted} \subseteq BOOLEAN
    /\ decision \in [Decisions -> [pc : {"idle", "loaded", "flushed", "committed"}, optedIn : BOOLEAN,
                                   channel : ChannelOrAll, seen : BOOLEAN, at : Nat]]
    /\ events \subseteq [id : Decisions, optedIn : BOOLEAN, channel : ChannelOrAll, at : Nat]
    /\ request \in [Requests ->
          [pc : {"idle", "enqueueing", "enqueue", "dispatching", "plan", "push", "send", "done"},
           entry : Entries, to : {"", "customer", "shadow"}, retries : 0..MaxRetries, status : Endings]]
    /\ left \subseteq [request : Requests, by : {"queue", "channel"}, to : {"", "customer", "shadow"}]
    /\ refused \subseteq Requests

(* A contact who refused a channel gets nothing on it: whatever is pushed or sent belongs to
   a request whose last stage began when no opt-out for its channel was in force, however
   opt-ins for other channels and concurrent decisions changed the contact's flag.  Breaks
   if an opt-in for one channel reopens another, or if the flag alone were trusted. *)
OptOutHolds == \A l \in left : l.request \notin refused

(* With a shadow phone every message goes there, through both stages; in a dry run nothing
   leaves.  Without a shadow phone SHADOW_MODE changes nothing in these two modules. *)
DispatchRehearses ==
    \A l \in left : ~dryRun /\ (Shadowed => l.to = "shadow")

(* "Dispatch a message honoring DRY_RUN and SHADOW_MODE settings" (message_dispatch.py:117):
   in shadow mode nothing reaches the customer.
   It does not hold (README, section 5). *)
ShadowIsHonoured == \A l \in left : ~dryRun /\ (shadowMode => l.to # "customer")
=============================================================================
