----------------------------- MODULE SingleWorker -----------------------------
(***************************************************************************)
(* The workers of one account (base_worker) and the operational test sends *)
(* of the API, which use the same delivery path: straight to the connector *)
(* or through the account's queue.                                         *)
(***************************************************************************)
EXTENDS Connectors, Sequences, FiniteSets

CONSTANTS
    Workers,       \* processes that serve the account
    Items,         \* messages pushed to the account's queue
    Tests,         \* test sends asked of the API
    Campaigns

ASSUME Disjoint == Workers \cap Tests = {} /\ Items \cap Tests = {}

Letters == Items \cup Tests
Actors  == Workers \cup Tests
None    == "none"

ASSUME NoneAssumption == None \notin Letters

Connectors_ == {"telegram", "bale", "rubika", "cloud", "web", "evolution", "baileys"}
WhatsApp    == {"cloud", "web", "evolution", "baileys"}
Modes       == {"dry", "shadow", "no shadow phone", "real off", "connectors off", "live"}

VARIABLES
    mode, connector,   \* the settings, read once per process
    opsFlag, opsQueue, \* OPS_LIVE_SEND_API_ENABLED, WHATSAPP_OPS_SEND_VIA_WORKER_QUEUE
    raw,               \* the payload of a message
    queue,             \* Redis list of the account
    killSwitch, accountPaused, pausedCampaigns,    \* Redis flags
    sendKill,          \* the WhatsApp send kill switch
    banned, session,   \* the account
    at, hand, result,  \* per worker or test: where it is, its message, its result
    asked,             \* per test: [dry, confirm]
    row,               \* the outcome persisted for a message
    bridged,           \* tests pushed to the Baileys list
    pushed,            \* messages put on the queue so far
    handed, accepted,  \* how often a platform got a message, and whether it took it
    shownBefore,       \* messages whose chat showed the same text before
    lost               \* why a message taken from the queue will never be reported

config   == <<mode, connector, opsFlag, opsQueue, raw, shownBefore>>
flags    == <<killSwitch, accountPaused, pausedCampaigns, sendKill, banned, session>>
actors   == <<at, hand, result, asked>>
outcome  == <<row, lost>>
platform == <<handed, accepted>>
workerVars == <<config, flags, actors, outcome, platform, queue, bridged, pushed>>

PlatformOf(conn) == IF conn \in WhatsApp THEN "whatsapp" ELSE conn

\* What the campaign side stages: an address of each kind, or none.  What a test says: the
\* recipient an operator typed.
StagedPayloads(conn) ==
    [platform : {PlatformOf(conn)}, campaign : Campaigns, phone : Phones \cup {NoValue},
     handle : Handles \cup {NoValue}, recipient : {NoValue}, type : {NoValue},
     complete : BOOLEAN, ours : BOOLEAN]
TestPayloads(conn) ==
    [platform : {PlatformOf(conn)}, campaign : {"test"}, phone : {NoValue}, handle : {NoValue},
     recipient : Handles \cup Phones, type : {NoValue}, complete : {TRUE}, ours : {TRUE}]

NotAsked == [dry |-> TRUE, confirm |-> FALSE]

WorkerInit ==
    /\ queue = <<>> /\ bridged = {} /\ pushed = {}
    /\ killSwitch = FALSE /\ accountPaused = FALSE /\ pausedCampaigns = {} /\ sendKill = FALSE
    /\ banned = FALSE /\ session = TRUE
    /\ at = [a \in Actors |-> "idle"] /\ hand = [a \in Actors |-> None]
    /\ result = [a \in Actors |-> None] /\ asked = [t \in Tests |-> NotAsked]
    /\ row = [i \in Letters |-> None] /\ lost = [i \in Letters |-> "no"]
    /\ handed = [i \in Letters |-> 0] /\ accepted = {}

\* The settings and the messages are given.
ConfigInit ==
    /\ mode \in Modes /\ connector \in Connectors_
    /\ opsFlag \in BOOLEAN /\ opsQueue \in BOOLEAN /\ shownBefore \in SUBSET Letters
    /\ raw \in [Letters -> StagedPayloads(connector) \cup TestPayloads(connector)]
    /\ \A i \in Items : raw[i] \in StagedPayloads(connector)
    /\ \A t \in Tests : raw[t] \in TestPayloads(connector)

\* What a test's payload says: the recipient as it was typed.
build_test_worker_payload(t) ==
    LET r == raw[t]
    IN  [r EXCEPT !.phone = NoValue, !.handle = IF r.platform \in BotPlatforms THEN r.recipient ELSE NoValue,
                  !.type = IF r.platform \in BotPlatforms THEN "channel_handle" ELSE "phone_number"]

Payload(i) == normalize_queue_payload(IF i \in Tests THEN build_test_worker_payload(i) ELSE raw[i])

\* An actor goes on to pc, leaving the rest of its state.
Goes(a, pc) == at' = [at EXCEPT ![a] = pc]

\* A worker's run ends: nothing is in its hands.
EndsRun(w) ==
    /\ Goes(w, "idle")
    /\ hand' = [hand EXCEPT ![w] = None] /\ result' = [result EXCEPT ![w] = None]

-----------------------------------------------------------------------------
(***************************************************************************)
(* Delivery.                                                               *)
(***************************************************************************)

\* A slip: the branch of SHADOW_MODE is lost (mutation runs only).
Precheck_NoShadow(i, dry) ==
    IF mode = "dry" \/ dry THEN "dry_run"
    ELSE IF \/ mode \notin {"live", "shadow"} \/ (connector = "web" /\ sendKill) \/ ~session
            \/ Address(connector, Payload(i)) = NoValue
         THEN "failed_permanent" ELSE "go"

\* What stops a delivery before the platform hears of it, or "go".
Precheck(i, dry) ==
    IF mode = "dry" \/ dry THEN "dry_run"
    ELSE IF mode = "shadow" THEN "shadow_sent"
    ELSE IF \/ mode # "live" \/ (connector = "web" /\ sendKill) \/ ~session
            \/ Address(connector, Payload(i)) = NoValue
         THEN "failed_permanent" ELSE "go"

Finishes(a, status) == Goes(a, "answered") /\ result' = [result EXCEPT ![a] = status]

\* The answers an API may give, whether it took the message or not: a gateway in front
\* of it answers 502 or 504, or with a page.
Answers(taken) ==
    {Timeout, Transport, Http(502, Text), Http(200, Text)} \cup
    IF taken
    THEN {Http(200, Json(connector # "rubika", TRUE, s, NoCode)) : s \in {"", "OK"}}
         \cup {Http(200, Json(connector # "rubika", FALSE, "OK", NoCode))}
    ELSE {Http(c, Json(FALSE, FALSE, "ERROR", c)) : c \in {400, 401, 429}}
         \cup IF connector = "evolution" THEN {}
              ELSE {Http(200, Json(FALSE, FALSE, "ERROR", c)) : c \in {403, 429}}

\* The WhatsApp mode "baileys" has no connector of its own here: it is the Cloud API's.
Classify(answer) ==
    CASE connector = "telegram"  -> send_telegram_text_message(answer)
      [] connector = "bale"      -> send_bale_text_message(answer)
      [] connector = "rubika"    -> send_rubika_text_message(answer)
      [] connector = "evolution" -> deliver_whatsapp_evolution_live(answer)
      [] OTHER                   -> send_whatsapp_text_message(answer)

\* The browser may fail before anything leaves; the API may refuse.
HandsOver(a, taken) ==
    /\ Goes(a, IF taken THEN "taken" ELSE "refused")
    /\ handed' = [handed EXCEPT ![hand[a]] = @ + 1]
    /\ accepted' = IF taken THEN accepted \cup {hand[a]} ELSE accepted
    /\ UNCHANGED result

deliver_platform_message(a) ==
    /\ at[a] = "deliver"
    /\ LET stop == Precheck(hand[a], a \in Tests /\ asked[a].dry)
       IN  IF stop # "go"
           THEN Finishes(a, stop) /\ UNCHANGED platform
           ELSE \E taken \in BOOLEAN : HandsOver(a, taken)
    /\ UNCHANGED <<config, flags, hand, asked, outcome, queue, bridged, pushed>>

Results(a) ==
    IF connector = "web"
    THEN {send_whatsapp_web_message(run) : run \in
            {b \in BrowserRuns : /\ b.goesOut = (at[a] = "taken")
                                 /\ b.goesOut => PressesSend(b)
                                 /\ b.earlier = (hand[a] \in shownBefore)}}
    ELSE {Classify(answer) : answer \in Answers(at[a] = "taken")}

\* The connector's answer.  An exception drops a worker's message; the attempt is not recorded.
Answer(a) ==
    /\ at[a] \in {"taken", "refused"}
    /\ \E status \in Results(a) :
          IF status = "raised" /\ a \in Workers
          THEN EndsRun(a) /\ lost' = [lost EXCEPT ![hand[a]] = "error"]
          ELSE Finishes(a, status) /\ UNCHANGED <<hand, lost>>
    /\ UNCHANGED <<config, flags, asked, row, platform, queue, bridged, pushed>>

-----------------------------------------------------------------------------
(***************************************************************************)
(* run_once.                                                               *)
(***************************************************************************)
Moves == UNCHANGED <<config, flags, hand, result, asked, outcome, platform, queue, bridged, pushed>>

check_kill_switch(w) ==
    /\ at[w] = "idle" /\ ~killSwitch
    /\ Goes(w, "unkilled") /\ Moves

check_account_paused(w) ==
    /\ at[w] = "unkilled"
    /\ Goes(w, IF accountPaused THEN "idle" ELSE "open") /\ Moves

read_next_payload_Peeks(w) ==
    /\ at[w] = "open"
    /\ IF queue = <<>> THEN Goes(w, "idle") /\ UNCHANGED <<hand, queue>>
       ELSE /\ Goes(w, "read") /\ hand' = [hand EXCEPT ![w] = Head(queue)]
            /\ UNCHANGED queue
    /\ UNCHANGED <<config, flags, result, asked, outcome, platform, bridged, pushed>>

read_next_payload(w) ==
    /\ at[w] = "open"
    /\ IF queue = <<>> THEN Goes(w, "idle") /\ UNCHANGED <<hand, queue>>
       ELSE /\ Goes(w, "read") /\ hand' = [hand EXCEPT ![w] = Head(queue)]
            /\ queue' = Tail(queue)
    /\ UNCHANGED <<config, flags, result, asked, outcome, platform, bridged, pushed>>

\* A payload with a field missing, or of another platform or account, is dropped.
validate_payload(w) ==
    /\ at[w] = "read"
    /\ LET p == Payload(hand[w])
       IN  IF p.complete /\ p.ours /\ p.recipient # NoValue
           THEN Goes(w, "valid") /\ UNCHANGED <<hand, result, lost>>
           ELSE EndsRun(w) /\ lost' = [lost EXCEPT ![hand[w]] = "invalid"]
    /\ UNCHANGED <<config, flags, asked, row, platform, queue, bridged, pushed>>

check_campaign_paused(w) ==
    /\ at[w] = "valid"
    /\ Goes(w, IF Payload(hand[w]).campaign \in pausedCampaigns THEN "requeue" ELSE "deliver")
    /\ Moves

\* Back to the head of the queue.
Requeue(w) ==
    /\ at[w] = "requeue"
    /\ queue' = <<hand[w]>> \o queue /\ EndsRun(w)
    /\ UNCHANGED <<config, flags, asked, outcome, platform, bridged, pushed>>

\* The status a result leaves on the campaign's recipient.
Recorded(status) == IF status = "sent" THEN "delivered" ELSE status

\* The database may fail: the exception is logged and the outcome is gone.
handle_result(w) ==
    /\ at[w] = "answered"
    /\ \/ row' = [row EXCEPT ![hand[w]] = Recorded(result[w])] /\ UNCHANGED lost
       \/ lost' = [lost EXCEPT ![hand[w]] = "error"] /\ UNCHANGED row
    /\ EndsRun(w)
    /\ UNCHANGED <<config, flags, asked, platform, queue, bridged, pushed>>

CrashWorker(w) ==
    /\ at[w] # "idle" /\ EndsRun(w)
    /\ lost' = IF hand[w] = None THEN lost ELSE [lost EXCEPT ![hand[w]] = "crash"]
    /\ UNCHANGED <<config, flags, asked, row, platform, queue, bridged, pushed>>

WorkerStep(w) ==
    \/ check_kill_switch(w) \/ check_account_paused(w) \/ read_next_payload(w)
    \/ validate_payload(w) \/ check_campaign_paused(w) \/ Requeue(w)
    \/ deliver_platform_message(w) \/ Answer(w) \/ handle_result(w) \/ CrashWorker(w)

-----------------------------------------------------------------------------
(***************************************************************************)
(* Operational test sends.                                                 *)
(***************************************************************************)
AskTest(t) ==
    /\ at[t] = "idle"
    /\ \E dry, confirm \in BOOLEAN :
          /\ asked' = [asked EXCEPT ![t] = [dry |-> dry, confirm |-> confirm]]
          /\ Goes(t, IF dry THEN "deliver" ELSE "preflight")
    /\ hand' = [hand EXCEPT ![t] = t]
    /\ UNCHANGED <<config, flags, result, outcome, platform, queue, bridged, pushed>>

\* Real sending and the connectors are on and DRY_RUN is off.
_global_live_env_checks == opsFlag /\ mode \in {"live", "shadow", "no shadow phone"}

build_live_send_preflight(t) ==
    /\ at[t] = "preflight"
    /\ Goes(t, IF /\ _global_live_env_checks /\ ~banned /\ session
                  /\ connector \in WhatsApp => ~sendKill
               THEN "cleared" ELSE "rejected")
    /\ Moves

build_operational_worker_settings(t) ==
    /\ at[t] = "cleared"
    /\ Goes(t, IF asked[t].confirm THEN "route" ELSE "rejected")
    /\ Moves

\* Tests that the host's workers or the Node workers send.
ViaQueue == (connector = "web" /\ opsQueue) \/ connector = "baileys"

\* The guard is read again, then the message is pushed.
RouteTest(t) ==
    /\ at[t] = "route"
    /\ Goes(t, IF ~ViaQueue THEN "deliver" ELSE IF sendKill THEN "rejected" ELSE "enqueue")
    /\ Moves

_enqueue_whatsapp_ops_test_send(t) ==
    /\ at[t] = "enqueue" /\ connector = "web"
    /\ queue' = Append(queue, t) /\ pushed' = pushed \cup {t} /\ Goes(t, "queued")
    /\ UNCHANGED <<config, flags, hand, result, asked, outcome, platform, bridged>>

_enqueue_whatsapp_baileys_ops_test_send(t) ==
    /\ at[t] = "enqueue" /\ connector = "baileys"
    /\ bridged' = bridged \cup {t} /\ Goes(t, "queued")
    /\ UNCHANGED <<config, flags, hand, result, asked, outcome, platform, queue, pushed>>

TestStep(t) ==
    \/ AskTest(t) \/ build_live_send_preflight(t) \/ build_operational_worker_settings(t)
    \/ RouteTest(t) \/ _enqueue_whatsapp_ops_test_send(t)
    \/ _enqueue_whatsapp_baileys_ops_test_send(t)
    \/ deliver_platform_message(t) \/ Answer(t)

-----------------------------------------------------------------------------
(***************************************************************************)
(* The campaign side and the operators of the switches.                    *)
(***************************************************************************)
Push(i) ==
    /\ i \notin pushed
    /\ queue' = Append(queue, i) /\ pushed' = pushed \cup {i}
    /\ UNCHANGED <<config, flags, actors, outcome, platform, bridged>>

Others == UNCHANGED <<config, actors, outcome, platform, queue, bridged, pushed>>

set_kill_switch ==
    /\ killSwitch' = ~killSwitch
    /\ UNCHANGED <<accountPaused, pausedCampaigns, sendKill, banned, session>> /\ Others

PauseAccount ==
    /\ accountPaused' = ~accountPaused
    /\ UNCHANGED <<killSwitch, pausedCampaigns, sendKill, banned, session>> /\ Others

PauseCampaign(c) ==
    /\ pausedCampaigns' = IF c \in pausedCampaigns THEN pausedCampaigns \ {c} ELSE pausedCampaigns \cup {c}
    /\ UNCHANGED <<killSwitch, accountPaused, sendKill, banned, session>> /\ Others

set_whatsapp_send_kill_switch ==
    /\ sendKill' = ~sendKill
    /\ UNCHANGED <<killSwitch, accountPaused, pausedCampaigns, banned, session>> /\ Others

\* The platform bans the account, or its session is removed.
AccountFails ==
    /\ \/ ~banned /\ banned' = TRUE /\ UNCHANGED session
       \/ session /\ session' = FALSE /\ UNCHANGED banned
    /\ UNCHANGED <<killSwitch, accountPaused, pausedCampaigns, sendKill>> /\ Others

WorkersNext ==
    \/ \E w \in Workers : WorkerStep(w)
    \/ \E t \in Tests : TestStep(t)
    \/ \E i \in Items : Push(i)
    \/ set_kill_switch \/ PauseAccount \/ set_whatsapp_send_kill_switch \/ AccountFails
    \/ \E c \in Campaigns : PauseCampaign(c)

WorkersSpec == ConfigInit /\ WorkerInit /\ [][WorkersNext]_workerVars

-----------------------------------------------------------------------------
Points == {"idle", "unkilled", "open", "read", "valid", "requeue", "deliver", "taken", "refused",
           "answered", "preflight", "cleared", "route", "enqueue", "queued", "rejected"}
Statuses == {"delivered", "sent", "dry_run", "shadow_sent", "failed_retryable", "failed_permanent", "raised"}

WorkersTypeOK ==
    /\ mode \in Modes /\ connector \in Connectors_ /\ at \in [Actors -> Points]
    /\ queue \in Seq(Letters) /\ pushed \subseteq Letters /\ bridged \subseteq Tests
    /\ hand \in [Actors -> Letters \cup {None}] /\ result \in [Actors -> Statuses \cup {None}]
    /\ asked \in [Tests -> [dry : BOOLEAN, confirm : BOOLEAN]]
    /\ row \in [Letters -> Statuses \cup {None}] /\ lost \in [Letters -> {"no", "invalid", "error", "crash"}]
    /\ {killSwitch, accountPaused, sendKill, banned, session} \subseteq BOOLEAN
    /\ pausedCampaigns \subseteq Campaigns
    /\ handed \in [Letters -> Nat] /\ accepted \subseteq Letters

Held(i) == {w \in Workers : hand[w] = i}
Times(i) == Cardinality({k \in DOMAIN queue : queue[k] = i})

(* What is put on the account's queue is somewhere: once in the queue, in the hands of one
   worker, recorded, or dropped for a known reason (an invalid payload, an exception, a
   crash), and only one of these, with two workers on one queue and messages of paused
   campaigns put back; and no message is handed to its platform twice. *)
TakenIsAccounted ==
    /\ \A i \in pushed :
          Times(i) + Cardinality(Held(i)) + (IF row[i] # None THEN 1 ELSE 0)
                   + (IF lost[i] # "no" THEN 1 ELSE 0) = 1
    /\ \A i \in Letters : handed[i] <= 1

\* A status somebody is told: a row of a campaign, or the answer to a test.
Told(i, status) == row[i] = status \/ (i \in Tests /\ at[i] = "answered" /\ result[i] = status)

(* What is reported happened.  "delivered" is only told of a message its platform took
   (except by WhatsApp Web in a chat that showed the same text before), and
   "failed_permanent", which nobody retries, only of one it did not take, however the answer
   was lost or garbled; a message of a campaign that was taken went to a handle on Telegram and Bale and
   to a valid phone number on the Cloud API and WhatsApp Web. *)
ReportsAreTrue ==
    \A i \in Letters :
        /\ Told(i, "delivered") \/ Told(i, "sent") =>
              i \in accepted \/ (connector = "web" /\ i \in shownBefore /\ handed[i] = 1)
        /\ Told(i, "failed_permanent") => i \notin accepted
        /\ i \in accepted \cap Items =>
              CASE connector \in {"telegram", "bale"} -> Address(connector, Payload(i)) \in Handles
                [] connector \in {"cloud", "web"}     -> Address(connector, Payload(i)) = "+phone"
                [] OTHER -> TRUE

(* Nothing is handed to a platform unless sending is live, by workers or tests; and a test
   goes out, is queued or is given to the Node workers only if it was asked for as live and
   confirmed, with the API's own flag on. *)
WorkersRehearse ==
    /\ mode # "live" => \A i \in Letters : handed[i] = 0
    /\ \A t \in Tests : handed[t] > 0 \/ t \in pushed \cup bridged =>
            opsFlag /\ ~asked[t].dry /\ asked[t].confirm
=============================================================================
