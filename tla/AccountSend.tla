---------------------------- MODULE AccountSend ----------------------------
(***************************************************************************)
(* One WhatsApp account and the pool replicas that may send for it at the  *)
(* same time: WhatsAppPoolWorker.send_message with its throttles           *)
(* (workers/rate_limit.py) and the Redis lock around the browser           *)
(* (workers/distributed_lock.py).  Each check, the lock, the delivery and  *)
(* each counter is a Redis call of its own; the lock covers the delivery   *)
(* but neither the checks before it nor the counters after it.             *)
(***************************************************************************)
EXTENDS Naturals, FiniteSets

CONSTANTS
    Replicas,
    HourlyCap,    \* WHATSAPP_HOURLY_SEND_CAP, 0 for none
    SettingCap,   \* WHATSAPP_DAILY_SEND_CAP
    PolicyCap,    \* account_policies.daily_cap, or None
    FirstDay, LastDay,  \* bound on the days of warming that are looked at
    MaxFaults,
    None

ASSUME ReplicasAssumption ==
    /\ IsFiniteSet(Replicas) /\ Replicas # {} /\ None \notin Replicas
ASSUME CapsAssumption ==
    /\ HourlyCap \in Nat /\ SettingCap \in Nat /\ PolicyCap \in Nat \cup {None}
    /\ None \notin Nat
    /\ FirstDay \in Nat /\ LastDay \in Nat /\ MaxFaults \in Nat

Windows == {"hour", "day"}

VARIABLES
    delayKey,    \* config:delay:{account}: absent, with a TTL, or without
    lock,        \* lock:wa:browser:{account}: the replica whose token it holds
    counter,     \* rate:{account}:{hour}, rate:daily:{account}:{day}
    day,         \* warming day
    pc,
    sentOk,      \* result.success of the delivery being finished
    \* history
    sent,        \* deliveries of the current hour and day
    uncounted,   \* ... whose count was lost, or that skipped the daily check
    overrun,     \* replicas whose lock expired while they deliver
    cooling,     \* a cooldown was started and has not run out
    coolSends,   \* deliveries since it started
    overwritten, \* an operator's delay replaced the cooldown
    faults

history == <<sent, uncounted, overrun, cooling, coolSends, overwritten, faults>>
vars    == <<delayKey, lock, counter, day, pc, sentOk, history>>

Points == {"idle", "delay", "hour", "day", "lock", "deliver", "release",
           "incrHour", "incrDay", "setDelay"}

\* The ramp of daily sends, by day of warming.
warming_ramp(d) == CASE d <= 2 -> 5 [] d \in 3..6 -> 15 [] d \in 7..13 -> 50 [] OTHER -> 150

Smaller(a, b) == IF a <= b THEN a ELSE b
effective_daily_cap_NoRamp(d, policy) == IF policy = None THEN SettingCap ELSE policy
effective_daily_cap(d, policy) ==
    Smaller(warming_ramp(d), IF policy = None THEN SettingCap ELSE policy)

DailyCap == effective_daily_cap(day, PolicyCap)

Goto(r, point) == pc' = [pc EXCEPT ![r] = point]
Fault == faults < MaxFaults /\ faults' = faults + 1
Keeps == UNCHANGED <<delayKey, lock, counter, day, sentOk, history>>

---------------------------------------------------------------------------
Begin(r) == pc[r] = "idle" /\ Goto(r, "delay") /\ Keeps

\* ttl(key) > 0 holds only for a key that has a TTL.
is_min_delay_active == delayKey = "ttl"

CheckDelay_Ignored(r) == pc[r] = "delay" /\ Goto(r, "hour") /\ Keeps
CheckDelay(r) ==
    /\ pc[r] = "delay"
    /\ Goto(r, IF is_min_delay_active THEN "idle" ELSE "hour")
    /\ Keeps

is_hourly_cap_reached == HourlyCap > 0 /\ counter["hour"] >= HourlyCap

CheckHour(r) ==
    /\ pc[r] = "hour"
    /\ Goto(r, IF is_hourly_cap_reached THEN "idle" ELSE "day")
    /\ Keeps

can_send_daily == counter["day"] < DailyCap

CheckDay(r) ==
    /\ pc[r] = "day"
    /\ Goto(r, IF can_send_daily THEN "lock" ELSE "idle")
    /\ Keeps

\* _load_account returns None on any database error: the daily cap is skipped.
SkipDay(r) ==
    /\ pc[r] = "day" /\ Fault
    /\ uncounted' = [uncounted EXCEPT !["day"] = @ + 1]
    /\ Goto(r, "lock")
    /\ UNCHANGED <<delayKey, lock, counter, day, sentOk, sent, overrun, cooling,
                   coolSends, overwritten>>

\* SET NX EX.
acquire(r) ==
    /\ pc[r] = "lock"
    /\ IF lock = None THEN lock' = r /\ Goto(r, "deliver")
                      ELSE UNCHANGED lock /\ Goto(r, "idle")
    /\ UNCHANGED <<delayKey, counter, day, sentOk, history>>

\* The browser sends the message, or does not.
Deliver(r, ok) ==
    /\ pc[r] = "deliver"
    /\ sentOk' = [sentOk EXCEPT ![r] = ok]
    /\ IF ok THEN /\ sent' = [x \in Windows |-> sent[x] + 1]
                  /\ coolSends' = IF cooling THEN coolSends + 1 ELSE 0
             ELSE UNCHANGED <<sent, coolSends>>
    /\ overrun' = overrun \ {r}
    /\ Goto(r, "release")
    /\ UNCHANGED <<delayKey, lock, counter, day, uncounted, cooling, overwritten, faults>>

\* A slip: the release deletes the key whoever holds it.
Unlock_AnyToken(r) == None
\* The script deletes the key only if it still holds this replica's token.
Unlock(r) == IF lock = r THEN None ELSE lock

release(r) ==
    /\ pc[r] = "release"
    /\ lock' = Unlock(r)
    /\ Goto(r, IF sentOk[r] THEN "incrHour" ELSE "idle")
    /\ sentOk' = [sentOk EXCEPT ![r] = FALSE]
    /\ UNCHANGED <<delayKey, counter, day, history>>

record_successful_send(r) ==
    /\ pc[r] = "incrHour"
    /\ counter' = [counter EXCEPT !["hour"] = @ + 1]
    /\ Goto(r, "incrDay")
    /\ UNCHANGED <<delayKey, lock, day, sentOk, history>>

incr_daily_count_Skipped(r) ==
    /\ pc[r] = "incrDay"
    /\ Goto(r, "setDelay")
    /\ Keeps
incr_daily_count(r) ==
    /\ pc[r] = "incrDay"
    /\ counter' = [counter EXCEPT !["day"] = @ + 1]
    /\ Goto(r, "setDelay")
    /\ UNCHANGED <<delayKey, lock, day, sentOk, history>>

\* A random delay from account_send_settings; none if it truncates to zero.
set_min_delay(r) ==
    /\ pc[r] = "setDelay"
    /\ \/ UNCHANGED <<delayKey, cooling, coolSends, overwritten>>
       \/ /\ delayKey' = "ttl" /\ cooling' = TRUE /\ overwritten' = FALSE
          /\ coolSends' = IF cooling /\ ~overwritten THEN coolSends ELSE 0
    /\ Goto(r, "idle")
    /\ UNCHANGED <<lock, counter, day, sentOk, sent, uncounted, overrun, faults>>

---------------------------------------------------------------------------
\* A delivery of r that the counter of window x does not show yet.
Uncounted(r, x) ==
    \/ pc[r] = "release" /\ sentOk[r]
    \/ pc[r] = "incrHour"
    \/ pc[r] = "incrDay" /\ x = "day"

\* The process dies, or a Redis call raises and run_once gives up; the lock, if
\* held, stays until it expires, and counts not yet made are never made.
Abort(r) ==
    /\ pc[r] # "idle" /\ Fault
    /\ uncounted' = [x \in Windows |->
                       IF Uncounted(r, x) THEN uncounted[x] + 1 ELSE uncounted[x]]
    /\ overrun' = overrun \ {r}
    /\ sentOk' = [sentOk EXCEPT ![r] = FALSE]
    /\ Goto(r, "idle")
    /\ UNCHANGED <<delayKey, lock, counter, day, sent, cooling, coolSends, overwritten>>

LockExpires ==
    /\ lock # None
    /\ lock' = None
    /\ overrun' = overrun \cup {r \in {lock} : pc[r] = "deliver"}
    /\ UNCHANGED <<delayKey, counter, day, pc, sentOk, sent, uncounted, cooling,
                   coolSends, overwritten, faults>>

CooldownEnds ==
    /\ cooling
    /\ cooling' = FALSE /\ coolSends' = 0 /\ overwritten' = FALSE
    /\ delayKey' = IF delayKey = "ttl" THEN "absent" ELSE delayKey
    /\ UNCHANGED <<lock, counter, day, pc, sentOk, sent, uncounted, overrun, faults>>

\* control_service.set_account_delay: a plain SET on the cooldown's own key.
set_account_delay ==
    /\ delayKey' = "noTtl"
    /\ overwritten' = cooling
    /\ UNCHANGED <<lock, counter, day, pc, sentOk, sent, uncounted, overrun, cooling,
                   coolSends, faults>>

\* The keys carry the hour and the day: a new one starts from zero.
Fresh(f, W) == [x \in Windows |-> IF x \in W THEN 0 ELSE f[x]]
Turn(W) ==
    /\ counter' = Fresh(counter, W)
    /\ sent' = Fresh(sent, W)
    /\ uncounted' = Fresh(uncounted, W)
    /\ UNCHANGED <<delayKey, lock, pc, sentOk, overrun, cooling, coolSends, overwritten,
                   faults>>
HourTurns == Turn({"hour"}) /\ UNCHANGED day
DayTurns  == day < LastDay /\ day' = day + 1 /\ Turn(Windows)

Init ==
    /\ delayKey = "absent" /\ lock = None /\ day = FirstDay
    /\ counter = [x \in Windows |-> 0]
    /\ pc = [r \in Replicas |-> "idle"] /\ sentOk = [r \in Replicas |-> FALSE]
    /\ sent = [x \in Windows |-> 0] /\ uncounted = [x \in Windows |-> 0]
    /\ overrun = {} /\ cooling = FALSE /\ coolSends = 0 /\ overwritten = FALSE
    /\ faults = 0

Step(r) ==
    \/ Begin(r) \/ CheckDelay(r) \/ CheckHour(r) \/ CheckDay(r) \/ SkipDay(r)
    \/ acquire(r) \/ \E ok \in BOOLEAN : Deliver(r, ok)
    \/ release(r) \/ record_successful_send(r) \/ incr_daily_count(r)
    \/ set_min_delay(r) \/ Abort(r)

Next ==
    \/ \E r \in Replicas : Step(r)
    \/ LockExpires \/ CooldownEnds \/ set_account_delay \/ HourTurns \/ DayTurns

Spec == Init /\ [][Next]_vars

---------------------------------------------------------------------------
(* Properties.                                                             *)

TypeOK ==
    /\ delayKey \in {"absent", "ttl", "noTtl"} /\ lock \in Replicas \cup {None}
    /\ counter \in [Windows -> Nat] /\ day \in Nat
    /\ pc \in [Replicas -> Points] /\ sentOk \in [Replicas -> BOOLEAN]
    /\ sent \in [Windows -> Nat] /\ uncounted \in [Windows -> Nat]
    /\ overrun \subseteq Replicas /\ cooling \in BOOLEAN
    /\ coolSends \in Nat /\ overwritten \in BOOLEAN /\ faults \in Nat

\* Two replicas drive the account's browser at the same time only if the lock of
\* one of them expired under it; that replica's late release frees nobody else's.
LockExclusive ==
    \A r, q \in Replicas :
        r # q /\ pc[r] = "deliver" /\ pc[q] = "deliver" => r \in overrun \/ q \in overrun

Others == Cardinality(Replicas) - 1

\* Checks come before the lock and counts after it, so the caps are not exact:
\* each other replica can add one send, and no more, plus those never counted.
\* A warming account stays under the ramp although its own cap is higher.
OwnCap == IF PolicyCap = None THEN SettingCap ELSE PolicyCap
CapsHold ==
    /\ \A cap \in {warming_ramp(day), OwnCap} :
          cap > 0 => sent["day"] <= cap + Others + uncounted["day"]
    /\ HourlyCap > 0 => sent["hour"] <= HourlyCap + Others + uncounted["hour"]

\* After a send, each other replica can slip at most one message into the account's
\* mandatory cooldown, unless an operator overwrites it.
CooldownHolds == cooling /\ ~overwritten => coolSends <= Others
=============================================================================
