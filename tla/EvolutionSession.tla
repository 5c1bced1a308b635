-------------------------- MODULE EvolutionSession --------------------------
(***************************************************************************)
(* One WhatsApp account behind the Evolution API: its channel_sessions row *)
(* and the processes that write it -- the webhook and the operator routes  *)
(* of the API process, the health monitor and the auto-reconnect worker.   *)
(* The database is READ COMMITTED and an UPDATE carries only the columns   *)
(* the writer changed, so a writer that read the row before another one    *)
(* committed overwrites some of its columns and keeps the others.          *)
(*                                                                         *)
(* `real' is the connection as the Evolution server sees it; `revoked'     *)
(* says that the phone removed the device, so only a new QR opens it.      *)
(***************************************************************************)
EXTENDS Naturals, FiniteSets

CONSTANTS
    MaxReconnects,   \* MAX_RECONNECT_ATTEMPTS
    YellowAt,        \* YELLOW_CARD_THRESHOLD
    RequireProxy,    \* WHATSAPP_EVOLUTION_REQUIRE_PROXY
    Hosts,           \* proxy hosts an operator may assign
    MaxFlips,        \* bound: connection changes and operator requests
    MaxHooks,        \* bound: webhooks on their way
    MaxDbErrors,     \* bound: failed transactions
    NoHost

ASSUME EvolutionAssumption == MaxReconnects \in Nat /\ YellowAt \in Nat

VARIABLES row, real, revoked, hooks, seen, work, calls, request, flips, dbErrors

evolutionVars == <<row, real, revoked, hooks, seen, work, calls, request,
                   flips, dbErrors>>
-----------------------------------------------------------------------------
Reals    == {"none", "close", "connecting", "open"}
Statuses == {"absent", "created", "connecting", "connected", "disconnected"}
Auths    == {"not_authorized", "authorized", "yellow_card", "blocked"}

Normalize_Raw(state) == state

\* The Evolution state as the row spells it, the same in webhook and monitor.
Normalize(state) ==
    CASE state = "open" -> "connected" [] state = "close" -> "disconnected"
      [] OTHER -> state

NewRow == [status |-> "disconnected", auth |-> "not_authorized",
           socket |-> "offline", attempts |-> 0, drops |-> 0, proxy |-> NoHost]
Absent == [NewRow EXCEPT !.status = "absent"]

\* The row a route gets or creates.
GetOrCreate == IF row.status = "absent" THEN NewRow ELSE row

\* An account that works.
Connected(r) == [r EXCEPT !.auth = "authorized", !.socket = "online", !.attempts = 0]

\* A new account, or one that is linked and authorised.
EvolutionInit ==
    /\ \/ row = Absent /\ real = "none" /\ revoked = TRUE
       \/ \E host \in Hosts :
            /\ row = [Connected(NewRow) EXCEPT !.status = "connected", !.proxy = host]
            /\ real = "open" /\ revoked = FALSE
    /\ hooks = {} /\ seen = "nothing"
    /\ work = [at |-> "idle", read |-> Absent]
    /\ calls = 0 /\ request = "idle" /\ flips = 0 /\ dbErrors = 0

Flip == flips < MaxFlips /\ flips' = flips + 1
-----------------------------------------------------------------------------
(* The Evolution server.  Every change of state posts a webhook; webhooks  *)
(* are separate HTTP requests and may overtake each other.                 *)

Post(state, reason) == hooks' = hooks \cup {[state |-> state, reason |-> reason]}

Change(state, reason) ==
    /\ Flip /\ Cardinality(hooks) < MaxHooks
    /\ real' = state /\ Post(state, reason)
    /\ UNCHANGED <<row, seen, work, calls, request, dbErrors>>

ScanQr    == real = "connecting" /\ Change("open", "ok") /\ revoked' = FALSE
Opens     == real = "connecting" /\ ~revoked /\ Change("open", "ok") /\ UNCHANGED revoked
Drops     == real = "open" /\ Change("close", "lost") /\ UNCHANGED revoked
Removed   == real = "open" /\ Change("close", "401") /\ revoked' = TRUE
GivesUp   == real = "connecting" /\ Change("close", "lost") /\ UNCHANGED revoked
-----------------------------------------------------------------------------
(* The webhook: one transaction in the API process.                        *)

ApplyUpdate(r, hook) ==
    LET new    == Normalize(hook.state)
        moved  == [r EXCEPT !.status = new]
        landed == CASE new = "connected"    -> Connected(moved)
                    [] new = "disconnected" -> [moved EXCEPT !.socket = "offline"]
                    [] OTHER                -> moved
    IN  IF hook.reason = "401"
        THEN [landed EXCEPT !.auth = "blocked", !.socket = "offline"]
        ELSE landed

evolution_webhook_receiver == \E hook \in hooks :
    /\ hooks' = hooks \ {hook}
    /\ row.status # "absent"
    /\ row' = ApplyUpdate(row, hook)
    /\ calls' = IF Normalize(hook.state) = "connected" THEN 0 ELSE calls
    /\ UNCHANGED <<real, revoked, seen, work, request, flips, dbErrors>>

\* No row of the account yet, or the transaction fails: the answer is
\* "received" all the same and nothing sends the event again.
WebhookLost == \E hook \in hooks :
    /\ \/ row.status = "absent" /\ UNCHANGED dbErrors
       \/ dbErrors < MaxDbErrors /\ dbErrors' = dbErrors + 1
    /\ hooks' = hooks \ {hook}
    /\ UNCHANGED <<row, real, revoked, seen, work, calls, request, flips>>
-----------------------------------------------------------------------------
(* The health monitor: fetchInstances, then one transaction per instance.  *)

_fetch_instances ==
    /\ seen = "nothing" /\ real # "none"
    /\ seen' = Normalize(real)
    /\ UNCHANGED <<row, real, revoked, hooks, work, calls, request, flips, dbErrors>>

_sync_one_OpenOnly ==
    /\ seen # "nothing" /\ seen' = "nothing"
    /\ row' = IF row.status = "absent" \/ seen # "connected" THEN row
              ELSE [row EXCEPT !.status = seen]
    /\ UNCHANGED <<real, revoked, hooks, work, calls, request, flips, dbErrors>>

_sync_one ==
    /\ seen # "nothing" /\ seen' = "nothing"
    /\ row' = IF row.status \in {"absent", seen} THEN row
              ELSE [row EXCEPT !.status = seen]
    /\ UNCHANGED <<real, revoked, hooks, work, calls, request, flips, dbErrors>>

SyncFails ==
    /\ seen # "nothing" /\ seen' = "nothing"
    /\ dbErrors < MaxDbErrors /\ dbErrors' = dbErrors + 1
    /\ UNCHANGED <<row, real, revoked, hooks, work, calls, request, flips>>
-----------------------------------------------------------------------------
(* The auto-reconnect worker.                                              *)

Idle(w) == [w EXCEPT !.at = "idle", !.read = Absent]

\* The loop selects the rows that are disconnected ...
SelectDisconnected ==
    /\ work.at = "idle" /\ row.status = "disconnected"
    /\ work' = [work EXCEPT !.at = "selected"]
    /\ UNCHANGED <<row, real, revoked, hooks, seen, calls, request, flips, dbErrors>>

ReadAccount_AuthorizedOnly ==
    /\ work.at = "selected"
    /\ work' = IF \/ row.status = "connected"
                  \/ row.auth = "authorized" /\ row.status = "disconnected"
               THEN [at |-> "read", read |-> row] ELSE Idle(work)
    /\ UNCHANGED <<row, real, revoked, hooks, seen, calls, request, flips, dbErrors>>

\* ... and reads each again in a transaction of its own.
ReadAccount ==
    /\ work.at = "selected"
    /\ work' = IF \/ row.status = "connected"
                  \/ row.auth # "blocked" /\ row.status = "disconnected"
               THEN [at |-> "read", read |-> row] ELSE Idle(work)
    /\ UNCHANGED <<row, real, revoked, hooks, seen, calls, request, flips, dbErrors>>

\* What the worker sets on the object it read.
Reconnected(r) == [Connected(r) EXCEPT !.status = r.status]
CardFor(r, n) == IF n >= YellowAt /\ r.auth # "blocked" THEN "yellow_card" ELSE r.auth
RecordDisconnect(r) ==
    LET n == IF r.drops < YellowAt THEN r.drops + 1 ELSE YellowAt
    IN  [r EXCEPT !.socket = "offline", !.drops = n, !.auth = CardFor(r, n)]
MayReconnect(r) == r.attempts < MaxReconnects
Processed_Uncounted(r) ==
    IF r.status = "connected" THEN Reconnected(r) ELSE RecordDisconnect(r)

Processed(r) ==
    IF r.status = "connected" THEN Reconnected(r)
    ELSE IF MayReconnect(r)
         THEN [RecordDisconnect(r) EXCEPT !.attempts = r.attempts + 1]
         ELSE RecordDisconnect(r)

\* The UPDATE: the columns that differ from the ones read, on today's row.
Flush(now, read, new) ==
    [f \in DOMAIN now |-> IF new[f] = read[f] THEN now[f] ELSE new[f]]

_process_account ==
    /\ work.at = "read"
    /\ row' = Flush(row, work.read, Processed(work.read))
    /\ work' = IF work.read.status = "disconnected" /\ MayReconnect(work.read)
               THEN [work EXCEPT !.at = "call"] ELSE Idle(work)
    /\ calls' = IF work.read.status = "connected" THEN 0 ELSE calls
    /\ UNCHANGED <<real, revoked, hooks, seen, request, flips, dbErrors>>

ProcessFails ==
    /\ work.at = "read" /\ work' = Idle(work)
    /\ dbErrors < MaxDbErrors /\ dbErrors' = dbErrors + 1
    /\ UNCHANGED <<row, real, revoked, hooks, seen, calls, request, flips>>

\* instance/connect moves a closed connection to connecting; it may also fail.
Connects ==
    \/ real = "close" /\ real' = "connecting" /\ Post("connecting", "ok")
    \/ UNCHANGED <<real, hooks>>

reconnect_instance ==
    /\ work.at = "call" /\ work' = Idle(work)
    /\ calls' = calls + 1 /\ Connects
    /\ UNCHANGED <<row, revoked, seen, request, flips, dbErrors>>

\* Ten minutes pass: an event leaves the window.
WindowMoves ==
    /\ row.drops > 0 /\ Flip
    /\ row' = [row EXCEPT !.drops = @ - 1]
    /\ UNCHANGED <<real, revoked, hooks, seen, work, calls, request, dbErrors>>
-----------------------------------------------------------------------------
(* The operator's routes.                                                  *)

assign_proxy_to_account == \E host \in Hosts, force \in BOOLEAN :
    /\ Flip
    /\ GetOrCreate.proxy \in {NoHost, host} \/ force
    /\ row' = [GetOrCreate EXCEPT !.proxy = host]
    /\ UNCHANGED <<real, revoked, hooks, seen, work, calls, request, dbErrors>>

\* check_instance_connection: an open instance, or the request goes on.
connect_evolution_instance ==
    /\ request = "idle" /\ real # "open" /\ Flip
    /\ request' = "check"
    /\ UNCHANGED <<row, real, revoked, hooks, seen, work, calls, dbErrors>>

\* An instance that is listed is returned as it is.  The list is searched
\* for "instanceName" while the monitor reads "name": depending on the
\* server one of the two finds nothing.
InstanceExists ==
    /\ request = "check" /\ real # "none" /\ request' = "qr"
    /\ UNCHANGED <<row, real, revoked, hooks, seen, work, calls, flips, dbErrors>>

\* Not listed: POST create, which says 403 "already in use" for a known name.
CreateInstance ==
    /\ request = "check" /\ request' = "save"
    /\ RequireProxy => row.proxy # NoHost
    /\ real' = IF real = "none" THEN "close" ELSE real
    /\ UNCHANGED <<row, revoked, hooks, seen, work, calls, flips, dbErrors>>

\* No proxy, a time-out or an error status: the route answers 400.
CreateFails ==
    /\ request = "check" /\ request' = "idle"
    /\ UNCHANGED <<row, real, revoked, hooks, seen, work, calls, flips, dbErrors>>

create_or_get_instance ==
    /\ request = "save" /\ request' = "qr"
    /\ row' = [GetOrCreate EXCEPT !.status = "created"]
    /\ UNCHANGED <<real, revoked, hooks, seen, work, calls, flips, dbErrors>>

get_instance_qr ==
    /\ request = "qr" /\ request' = "idle" /\ Connects
    /\ UNCHANGED <<row, revoked, seen, work, calls, flips, dbErrors>>

\* DELETE logout is answered (with any status) ...
LogoutAnswered == \E done \in BOOLEAN :
    /\ request = "idle" /\ real # "none" /\ Flip
    /\ request' = "logout"
    /\ IF done THEN /\ real' = "close" /\ revoked' = TRUE
                    /\ Cardinality(hooks) < MaxHooks /\ Post("close", "401")
               ELSE UNCHANGED <<real, revoked, hooks>>
    /\ UNCHANGED <<row, seen, work, calls, dbErrors>>

\* ... and the row says disconnected, its proxy untouched.
logout_instance ==
    /\ request = "logout" /\ request' = "idle"
    /\ row' = IF row.status = "absent" THEN row
              ELSE [row EXCEPT !.status = "disconnected"]
    /\ UNCHANGED <<real, revoked, hooks, seen, work, calls, flips, dbErrors>>
-----------------------------------------------------------------------------
Evolution == ScanQr \/ Opens \/ Drops \/ Removed \/ GivesUp
Webhook   == evolution_webhook_receiver \/ WebhookLost
Monitor   == _fetch_instances \/ _sync_one \/ SyncFails
Reconnect == SelectDisconnected \/ ReadAccount \/ _process_account
             \/ ProcessFails \/ reconnect_instance
Routes    == assign_proxy_to_account \/ connect_evolution_instance
             \/ InstanceExists \/ CreateInstance \/ CreateFails
             \/ create_or_get_instance \/ get_instance_qr
             \/ LogoutAnswered \/ logout_instance

EvolutionNext == Evolution \/ Webhook \/ Monitor \/ Reconnect \/ Routes \/ WindowMoves
EvolutionSpec == EvolutionInit /\ [][EvolutionNext]_evolutionVars

\* The two workers loop for ever, a posted webhook arrives, a route ends.
EvolutionFairness ==
    /\ WF_evolutionVars(Monitor) /\ WF_evolutionVars(Reconnect)
    /\ WF_evolutionVars(Webhook)
    /\ WF_evolutionVars(InstanceExists \/ CreateInstance \/ CreateFails
                        \/ create_or_get_instance \/ get_instance_qr
                        \/ logout_instance)
-----------------------------------------------------------------------------
\* Types of the row, the connection and every process's position.
EvolutionTypeOK ==
    /\ row \in [status : Statuses, auth : Auths, socket : {"online", "offline"},
                attempts : 0 .. MaxReconnects, drops : 0 .. YellowAt,
                proxy : Hosts \cup {NoHost}]
    /\ real \in Reals /\ revoked \in BOOLEAN
    /\ hooks \subseteq [state : Reals, reason : {"ok", "lost", "401"}]
    /\ seen \in Statuses \cup {"nothing"}
    /\ work.at \in {"idle", "selected", "read", "call"}
    /\ work.read.status \in {"absent", "connected", "disconnected"}
    /\ request \in {"idle", "check", "save", "qr", "logout"}

\* Between two recoveries the worker calls reconnect at most MaxReconnects
\* times, and once more when a recovery is recorded between its commit and its
\* call (_process_account counts the attempt before it makes it).
ReconnectsBounded == calls <= MaxReconnects + 1

\* Once the connection stops changing, the row's status comes to agree with it
\* and stays so, whatever late webhook, fetch or create wrote last: the
\* monitor repairs it (_sync_one).
StatusSettles == <>[](real = "none" \/ row.status \in {"absent", Normalize(real)})

\* A lost connection of a known account is dealt with: it moves again, the
\* account is known to be blocked, or every attempt has been made.
OutageIsHandled ==
    (real = "close" /\ row.status # "absent") ~>
        (real # "close" \/ row.auth = "blocked" \/ row.attempts = MaxReconnects)

\* "blocked" (401, a new QR is needed) is left only when the connection was
\* reported open: what the worker's `!= "blocked"' tests are there to keep.
\* It does not hold (README, section 5).
BlockedIsKept ==
    [][row.auth = "blocked" /\ row'.auth # "blocked" =>
        row.status = "connected" \/ row'.status = "connected"]_evolutionVars
=============================================================================
