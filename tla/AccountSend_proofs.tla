------------------------- MODULE AccountSend_proofs -------------------------
(***************************************************************************)
(* An account and the replicas that send for it, for any number of them    *)
(* and any caps: two drive the browser together only after a lock has run  *)
(* out under one, and the caps and the cooldown are exceeded by one send   *)
(* per other replica at most.                                              *)
(***************************************************************************)
EXTENDS AccountSend, FiniteSetTheorems, TLAPS

\* A replica in its delivery owns the lock, until the lock expires under it.
OwnsLock == \A r \in Replicas : pc[r] = "deliver" => lock = r \/ r \in overrun

LockInv == TypeOK /\ OwnsLock

LEMMA InitLockInv == Init => LockInv
<1> SUFFICES ASSUME Init PROVE LockInv
    OBVIOUS
<1>1. TypeOK
      BY ReplicasAssumption, CapsAssumption DEF Init, TypeOK, Points, Windows
<1>2. OwnsLock
      BY DEF Init, OwnsLock
<1> QED
      BY <1>1, <1>2 DEF LockInv

\* The step keeps every variable in its type.
LEMMA TypeStep == TypeOK /\ [Next]_vars => TypeOK'
<1> SUFFICES ASSUME TypeOK, [Next]_vars PROVE TypeOK'
    OBVIOUS
<1> USE ReplicasAssumption, CapsAssumption DEF TypeOK, Points, Windows
<1>1. ASSUME NEW r \in Replicas, Step(r) PROVE TypeOK'
  <2>1. CASE Begin(r) \/ CheckDelay(r) \/ CheckHour(r) \/ CheckDay(r)
        BY <2>1 DEF Begin, CheckDelay, CheckHour, CheckDay, Goto, Keeps, history
  <2>2. CASE SkipDay(r)
        BY <2>2 DEF SkipDay, Fault, Goto
  <2>3. CASE acquire(r)
        BY <2>3 DEF acquire, Goto, history
  <2>4. ASSUME NEW ok \in BOOLEAN, Deliver(r, ok) PROVE TypeOK'
    <3>1. sent' \in [Windows -> Nat] /\ coolSends' \in Nat
          BY <2>4 DEF Deliver
    <3> QED
          BY <2>4, <3>1 DEF Deliver, Goto
  <2>5. CASE release(r)
        BY <2>5 DEF release, Unlock, Goto, history
  <2>6. CASE record_successful_send(r) \/ incr_daily_count(r)
        BY <2>6 DEF record_successful_send, incr_daily_count, Goto, history
  <2>7. CASE set_min_delay(r)
    <3>1. cooling' \in BOOLEAN /\ overwritten' \in BOOLEAN
          BY <2>7 DEF set_min_delay
    <3>2. delayKey' \in {"absent", "ttl", "noTtl"} /\ coolSends' \in Nat
          BY <2>7 DEF set_min_delay
    <3> QED
          BY <2>7, <3>1, <3>2 DEF set_min_delay, Goto
  <2>8. CASE Abort(r)
    <3>1. uncounted' \in [Windows -> Nat]
          BY <2>8 DEF Abort
    <3>2. faults' \in Nat
          BY <2>8 DEF Abort, Fault
    <3> QED
          BY <2>8, <3>1, <3>2 DEF Abort, Goto
  <2> QED
        BY <1>1, <2>1, <2>2, <2>3, <2>4, <2>5, <2>6, <2>7, <2>8 DEF Step
<1>2. CASE LockExpires
  <2>1. lock \in Replicas
        BY <1>2 DEF LockExpires
  <2>2. overrun' \subseteq Replicas
        BY <1>2, <2>1 DEF LockExpires
  <2> QED
        BY <1>2, <2>2 DEF LockExpires
<1>3. CASE CooldownEnds \/ set_account_delay
  <2>1. cooling' \in BOOLEAN /\ overwritten' \in BOOLEAN
        BY <1>3 DEF CooldownEnds, set_account_delay
  <2>2. delayKey' \in {"absent", "ttl", "noTtl"} /\ coolSends' \in Nat
        BY <1>3 DEF CooldownEnds, set_account_delay
  <2> QED
        BY <1>3, <2>1, <2>2 DEF CooldownEnds, set_account_delay
<1>4. CASE HourTurns \/ DayTurns
  <2>1. counter' \in [Windows -> Nat] /\ sent' \in [Windows -> Nat]
                                      /\ uncounted' \in [Windows -> Nat]
        BY <1>4 DEF HourTurns, DayTurns, Turn, Fresh
  <2>2. day' \in Nat
        BY <1>4 DEF HourTurns, DayTurns
  <2> QED
        BY <1>4, <2>1, <2>2 DEF HourTurns, DayTurns, Turn
<1>5. CASE UNCHANGED vars
      BY <1>5 DEF vars, history
<1> QED
      BY <1>1, <1>2, <1>3, <1>4, <1>5 DEF Next

\* Only acquire enters the delivery, and it takes a free lock; only the owner's
\* release and the expiry give it up.
LEMMA OwnsLockStep == LockInv /\ [Next]_vars => OwnsLock'
<1> SUFFICES ASSUME LockInv, [Next]_vars, NEW q \in Replicas, pc'[q] = "deliver"
             PROVE  lock' = q \/ q \in overrun'
    BY DEF OwnsLock
<1> USE ReplicasAssumption DEF LockInv, TypeOK, OwnsLock
<1>1. ASSUME NEW r \in Replicas, Step(r) PROVE lock' = q \/ q \in overrun'
  <2>1. CASE Begin(r) \/ CheckDelay(r) \/ CheckHour(r) \/ CheckDay(r)
        BY <2>1 DEF Begin, CheckDelay, CheckHour, CheckDay, Goto, Keeps, history
  <2>2. CASE SkipDay(r)
        BY <2>2 DEF SkipDay, Goto
  <2>3. CASE acquire(r)
        BY <2>3 DEF acquire, Goto, history
  <2>4. ASSUME NEW ok \in BOOLEAN, Deliver(r, ok) PROVE lock' = q \/ q \in overrun'
        BY <2>4 DEF Deliver, Goto
  <2>5. CASE release(r)
        BY <2>5 DEF release, Unlock, Goto, history
  <2>6. CASE record_successful_send(r) \/ incr_daily_count(r)
        BY <2>6 DEF record_successful_send, incr_daily_count, Goto, history
  <2>7. CASE set_min_delay(r)
        BY <2>7 DEF set_min_delay, Goto
  <2>8. CASE Abort(r)
        BY <2>8 DEF Abort, Goto
  <2> QED
        BY <1>1, <2>1, <2>2, <2>3, <2>4, <2>5, <2>6, <2>7, <2>8 DEF Step
<1>2. CASE LockExpires
      BY <1>2 DEF LockExpires
<1>3. CASE CooldownEnds \/ set_account_delay
      BY <1>3 DEF CooldownEnds, set_account_delay
<1>4. CASE HourTurns \/ DayTurns
      BY <1>4 DEF HourTurns, DayTurns, Turn
<1>5. CASE UNCHANGED vars
      BY <1>5 DEF vars, history
<1> QED
      BY <1>1, <1>2, <1>3, <1>4, <1>5 DEF Next

LEMMA LockInvariance == Spec => []LockInv
<1>1. LockInv /\ [Next]_vars => LockInv'
      BY TypeStep, OwnsLockStep DEF LockInv
<1> QED
      BY InitLockInv, <1>1, PTL DEF Spec

\* Every variable keeps its type, for any caps and any number of replicas.
THEOREM TypeCorrect == Spec => []TypeOK
<1>1. LockInv => TypeOK
      BY DEF LockInv
<1> QED
      BY LockInvariance, <1>1, PTL

\* Two replicas deliver together only if the lock of one of them has expired,
\* whatever the replicas' number and however late they release.
THEOREM BrowserShared == Spec => []LockExclusive
<1>1. LockInv => LockExclusive
      BY DEF LockInv, OwnsLock, LockExclusive
<1> QED
      BY LockInvariance, <1>1, PTL

---------------------------------------------------------------------------
(* The caps and the cooldown.                                              *)

\* Replicas whose delivery the counter of x does not show yet, ...
Pending(x) == {r \in Replicas : Uncounted(r, x)}
\* ... that have passed the check of x and not delivered yet, ...
IsCleared(r, x) == pc[r] \in {"lock", "deliver"} \/ (x = "hour" /\ pc[r] = "day")
Cleared(x)      == {r \in Replicas : IsCleared(r, x)}
\* ... or have seen that no cooldown runs.
IsPast(r) == pc[r] \in {"hour", "day", "lock", "deliver"}
Past      == {r \in Replicas : IsPast(r)}

CapsOf(x) == IF x = "day" THEN {warming_ramp(day), OwnCap} ELSE {HourlyCap}

\* A delivery is counted, about to be counted, or was lost to the count.
CountedInv ==
    \A x \in Windows : sent[x] <= counter[x] + Cardinality(Pending(x)) + uncounted[x]
\* There is room under the cap for every replica that was cleared.
RoomInv ==
    \A x \in Windows : \A cap \in CapsOf(x) :
        cap > 0 => sent[x] + Cardinality(Cleared(x)) <= cap + Others + uncounted[x]
\* A cooldown that nobody overwrote has its key, and there is room in it too.
CoolInv ==
    cooling /\ ~overwritten => delayKey = "ttl" /\ coolSends + Cardinality(Past) <= Others

Bit(b) == IF b THEN 1 ELSE 0

\* Two sets that differ in one element at most.
LEMMA OneDiffers ==
    ASSUME NEW S, NEW T, IsFiniteSet(S), NEW r, S \ {r} = T \ {r}
    PROVE  /\ IsFiniteSet(T) /\ Cardinality(S) \in Nat /\ Cardinality(T) \in Nat
           /\ Cardinality(T) + Bit(r \in S) = Cardinality(S) + Bit(r \in T)
<1> DEFINE rest == S \ {r}
<1>1. /\ IsFiniteSet(rest) /\ Cardinality(S) \in Nat
      /\ Cardinality(rest) = IF r \in S THEN Cardinality(S) - 1 ELSE Cardinality(S)
      BY FS_RemoveElement, FS_CardinalityType
<1>2. Cardinality(rest) \in Nat /\ r \notin rest
      BY <1>1, FS_CardinalityType
<1>3. IsFiniteSet(T) /\ Cardinality(T) = Cardinality(rest) + Bit(r \in T)
  <2>1. CASE r \in T
    <3>1. T = rest \cup {r}
          BY <2>1
    <3>2. IsFiniteSet(rest \cup {r}) /\ Cardinality(rest \cup {r}) = Cardinality(rest) + 1
          BY <1>1, <1>2, FS_AddElement
    <3> QED
          BY <2>1, <3>1, <3>2 DEF Bit
  <2>2. CASE r \notin T
    <3>1. T = rest
          BY <2>2
    <3> QED
          BY <1>1, <1>2, <2>2, <3>1 DEF Bit
  <2> QED
        BY <2>1, <2>2
<1> HIDE DEF rest
<1> QED
      BY <1>1, <1>2, <1>3 DEF Bit

\* Disjoint sets of replicas, and one replica in neither.
LEMMA OneApart ==
    ASSUME NEW S \in SUBSET Replicas, NEW T \in SUBSET Replicas, NEW r \in Replicas,
           S \cap T = {}, r \notin S, r \notin T
    PROVE  /\ Cardinality(S) \in Nat /\ Cardinality(T) \in Nat /\ Others \in Nat
           /\ Cardinality(S) + Cardinality(T) <= Others
<1>1. /\ IsFiniteSet(S) /\ IsFiniteSet(T) /\ IsFiniteSet(S \cup T)
      /\ Cardinality(S \cup T) = Cardinality(S) + Cardinality(T)
  <2>1. IsFiniteSet(S) /\ IsFiniteSet(T)
        BY FS_Subset, ReplicasAssumption
  <2>2. /\ IsFiniteSet(S \cup T)
        /\ Cardinality(S \cup T) = Cardinality(S) + Cardinality(T) - Cardinality(S \cap T)
        BY <2>1, FS_Union
  <2>3. Cardinality(S \cap T) = 0
        BY FS_EmptySet
  <2> QED
        BY <2>1, <2>2, <2>3, FS_CardinalityType
<1>2. Cardinality((S \cup T) \cup {r}) = Cardinality(S \cup T) + 1
      BY <1>1, FS_AddElement
<1>3. Cardinality((S \cup T) \cup {r}) <= Cardinality(Replicas)
  <2>1. (S \cup T) \cup {r} \in SUBSET Replicas
        OBVIOUS
  <2> QED
        BY <2>1, FS_Subset, ReplicasAssumption
<1>4. /\ Cardinality(S) \in Nat /\ Cardinality(T) \in Nat /\ Cardinality(Replicas) \in Nat
      /\ Cardinality(Replicas) # 0
      BY <1>1, FS_CardinalityType, FS_EmptySet, ReplicasAssumption
<1> QED
      BY <1>1, <1>2, <1>3, <1>4 DEF Others

\* The sizes of the three sets, before a step of r and after.
OthersStay(r) == \A q \in Replicas \ {r} : pc'[q] = pc[q] /\ sentOk'[q] = sentOk[q]

LEMMA SizesStep ==
    ASSUME TypeOK, TypeOK', NEW r \in Replicas, OthersStay(r), NEW x \in Windows
    PROVE  /\ Cardinality(Pending(x)) \in Nat /\ Cardinality(Pending(x)') \in Nat
           /\ Cardinality(Cleared(x)) \in Nat /\ Cardinality(Cleared(x)') \in Nat
           /\ Cardinality(Past) \in Nat /\ Cardinality(Past') \in Nat
           /\ Cardinality(Pending(x)') + Bit(Uncounted(r, x)) = Cardinality(Pending(x)) + Bit(Uncounted(r, x)')
           /\ Cardinality(Cleared(x)') + Bit(IsCleared(r, x)) = Cardinality(Cleared(x)) + Bit(IsCleared(r, x)')
           /\ Cardinality(Past') + Bit(IsPast(r)) = Cardinality(Past) + Bit(IsPast(r)')
<1>1. IsFiniteSet(Pending(x)) /\ IsFiniteSet(Cleared(x)) /\ IsFiniteSet(Past)
  <2>1. Pending(x) \in SUBSET Replicas /\ Cleared(x) \in SUBSET Replicas /\ Past \in SUBSET Replicas
        BY DEF Pending, Cleared, Past
  <2> QED
        BY <2>1, FS_Subset, ReplicasAssumption
<1>2. /\ Pending(x) \ {r} = Pending(x)' \ {r}
      /\ r \in Pending(x) <=> Uncounted(r, x)
      /\ r \in Pending(x)' <=> Uncounted(r, x)'
      BY DEF Pending, Uncounted, OthersStay
<1>3. /\ Cleared(x) \ {r} = Cleared(x)' \ {r}
      /\ r \in Cleared(x) <=> IsCleared(r, x)
      /\ r \in Cleared(x)' <=> IsCleared(r, x)'
      BY DEF Cleared, IsCleared, OthersStay
<1>4. /\ Past \ {r} = Past' \ {r}
      /\ r \in Past <=> IsPast(r)
      /\ r \in Past' <=> IsPast(r)'
      BY DEF Past, IsPast, OthersStay
<1>5. /\ Cardinality(Pending(x)) \in Nat /\ Cardinality(Pending(x)') \in Nat
      /\ Cardinality(Pending(x)') + Bit(r \in Pending(x)) = Cardinality(Pending(x)) + Bit(r \in Pending(x)')
  <2>1. PICK S, T : S = Pending(x) /\ T = Pending(x)'
        OBVIOUS
  <2>2. IsFiniteSet(S) /\ S \ {r} = T \ {r}
        BY <1>1, <1>2, <2>1
  <2>3. /\ Cardinality(S) \in Nat /\ Cardinality(T) \in Nat
        /\ Cardinality(T) + Bit(r \in S) = Cardinality(S) + Bit(r \in T)
        BY <2>2, OneDiffers
  <2> QED
        BY <2>1, <2>3
<1>6. /\ Cardinality(Cleared(x)) \in Nat /\ Cardinality(Cleared(x)') \in Nat
      /\ Cardinality(Cleared(x)') + Bit(r \in Cleared(x)) = Cardinality(Cleared(x)) + Bit(r \in Cleared(x)')
  <2>1. PICK S, T : S = Cleared(x) /\ T = Cleared(x)'
        OBVIOUS
  <2>2. IsFiniteSet(S) /\ S \ {r} = T \ {r}
        BY <1>1, <1>3, <2>1
  <2>3. /\ Cardinality(S) \in Nat /\ Cardinality(T) \in Nat
        /\ Cardinality(T) + Bit(r \in S) = Cardinality(S) + Bit(r \in T)
        BY <2>2, OneDiffers
  <2> QED
        BY <2>1, <2>3
<1>7. /\ Cardinality(Past) \in Nat /\ Cardinality(Past') \in Nat
      /\ Cardinality(Past') + Bit(r \in Past) = Cardinality(Past) + Bit(r \in Past')
  <2>1. PICK S, T : S = Past /\ T = Past'
        OBVIOUS
  <2>2. IsFiniteSet(S) /\ S \ {r} = T \ {r}
        BY <1>1, <1>4, <2>1
  <2>3. /\ Cardinality(S) \in Nat /\ Cardinality(T) \in Nat
        /\ Cardinality(T) + Bit(r \in S) = Cardinality(S) + Bit(r \in T)
        BY <2>2, OneDiffers
  <2> QED
        BY <2>1, <2>3
<1> QED
      BY <1>2, <1>3, <1>4, <1>5, <1>6, <1>7 DEF Bit

LEMMA CapsAreNats ==
    ASSUME TypeOK, NEW x \in Windows, NEW cap \in CapsOf(x)
    PROVE  cap \in Nat
<1>1. warming_ramp(day) \in Nat /\ OwnCap \in Nat /\ HourlyCap \in Nat
      BY CapsAssumption DEF TypeOK, warming_ramp, OwnCap
<1> QED
      BY <1>1 DEF CapsOf

\* The day's check compares with the smaller of the ramp and the account's own cap.
LEMMA DailyCapIs ==
    ASSUME TypeOK, NEW cap \in CapsOf("day"), can_send_daily
    PROVE  counter["day"] < cap
<1>1. warming_ramp(day) \in Nat /\ OwnCap \in Nat /\ counter["day"] \in Nat
      BY CapsAssumption DEF TypeOK, warming_ramp, OwnCap, Windows
<1>2. DailyCap = Smaller(warming_ramp(day), OwnCap)
      BY DEF DailyCap, effective_daily_cap, OwnCap
<1>3. cap \in {warming_ramp(day), OwnCap} /\ counter["day"] < DailyCap
      BY DEF CapsOf, can_send_daily
<1> QED
      BY <1>1, <1>2, <1>3 DEF Smaller

\* What a step of r adds to the deliveries of x it adds to one of their accounts.
Balanced(r, x) ==
    sent'[x] + counter[x] + uncounted[x] + Bit(Uncounted(r, x))
        <= sent[x] + counter'[x] + uncounted'[x] + Bit(Uncounted(r, x)')
\* It delivers only what was cleared, ...
Spends(r, x) ==
    sent'[x] + uncounted[x] + Bit(IsCleared(r, x)') <= sent[x] + uncounted'[x] + Bit(IsCleared(r, x))
\* ... and clears only below the cap.
Clears(r, x) ==
    /\ sent'[x] = sent[x] /\ uncounted'[x] = uncounted[x]
    /\ ~Uncounted(r, x) /\ ~IsCleared(r, x)
    /\ \A cap \in CapsOf(x) : cap > 0 => counter[x] < cap
\* A cooldown is over, or it spends what was seen before it, or it starts anew.
Cools(r) ==
    \/ ~(cooling' /\ ~overwritten')
    \/ /\ cooling /\ ~overwritten /\ delayKey' = delayKey
       /\ coolSends' + Bit(IsPast(r)') <= coolSends + Bit(IsPast(r))
    \/ coolSends' = 0 /\ delayKey' = "ttl" /\ ~IsPast(r) /\ ~IsPast(r)'

LEMMA StepEffects ==
    ASSUME TypeOK, CoolInv, NEW r \in Replicas, Step(r), NEW x \in Windows
    PROVE  /\ OthersStay(r) /\ day' = day
           /\ Balanced(r, x) /\ (Spends(r, x) \/ Clears(r, x)) /\ Cools(r)
<1> DEFINE Effects == /\ OthersStay(r) /\ day' = day
                      /\ Balanced(r, x) /\ (Spends(r, x) \/ Clears(r, x)) /\ Cools(r)
<1> USE DEF TypeOK, OthersStay, Balanced, Spends, Cools, Bit, Uncounted, IsCleared, IsPast, Goto
<1>0. /\ sent[x] \in Nat /\ counter[x] \in Nat /\ uncounted[x] \in Nat /\ coolSends \in Nat
      /\ x = "hour" \/ x = "day"
      BY DEF Windows
<1>1. CASE Begin(r)
      BY <1>0, <1>1 DEF Begin, Keeps, history
<1>2. CASE CheckDelay(r)
  <2>1. pc'[r] = "idle" \/ ~(cooling /\ ~overwritten)
        BY <1>2 DEF CheckDelay, is_min_delay_active, CoolInv
  <2> QED
        BY <1>0, <1>2, <2>1 DEF CheckDelay, Keeps, history
<1>3. CASE CheckHour(r)
  <2>1. pc'[r] = "day" => (HourlyCap > 0 => counter["hour"] < HourlyCap)
        BY <1>3, CapsAssumption DEF CheckHour, is_hourly_cap_reached, Windows
  <2>2. x = "hour" => CapsOf(x) = {HourlyCap}
        BY DEF CapsOf
  <2>3. pc[r] = "hour" /\ pc'[r] \in {"idle", "day"}
        BY <1>3 DEF CheckHour
  <2> QED
        BY <1>0, <1>3, <2>1, <2>2, <2>3 DEF CheckHour, Keeps, history, Clears
<1>4. CASE CheckDay(r)
  <2>1. pc'[r] = "lock" => (x = "day" => \A cap \in CapsOf(x) : counter[x] < cap)
        BY <1>4, DailyCapIs DEF CheckDay
  <2>2. pc[r] = "day" /\ pc'[r] \in {"idle", "lock"}
        BY <1>4 DEF CheckDay
  <2> QED
        BY <1>0, <1>4, <2>1, <2>2 DEF CheckDay, Keeps, history, Clears
<1>5. CASE SkipDay(r)
      BY <1>0, <1>5 DEF SkipDay
<1>6. CASE acquire(r)
      BY <1>0, <1>6 DEF acquire, history
<1>7. ASSUME NEW ok \in BOOLEAN, Deliver(r, ok) PROVE Effects
      BY <1>0, <1>7 DEF Deliver
<1>8. CASE release(r)
      BY <1>0, <1>8 DEF release, history
<1>9. CASE record_successful_send(r)
      BY <1>0, <1>9 DEF record_successful_send, history
<1>10. CASE incr_daily_count(r)
      BY <1>0, <1>10 DEF incr_daily_count, history
<1>11. CASE set_min_delay(r)
  <2>1. /\ pc[r] = "setDelay" /\ pc'[r] = "idle" /\ OthersStay(r) /\ UNCHANGED <<counter, day, sent, uncounted, sentOk>>
        BY <1>11 DEF set_min_delay
  <2>2. ~IsPast(r) /\ ~IsPast(r)'
        BY <2>1
  <2>3. ASSUME UNCHANGED <<delayKey, cooling, coolSends, overwritten>> PROVE Cools(r)
        BY <1>0, <2>2, <2>3
  <2>4. ASSUME delayKey' = "ttl", coolSends' = IF cooling /\ ~overwritten THEN coolSends ELSE 0
        PROVE  Cools(r)
        BY <1>0, <2>2, <2>4 DEF CoolInv
  <2>5. Cools(r)
        BY <1>11, <2>3, <2>4 DEF set_min_delay
  <2> QED
        BY <1>0, <2>1, <2>5
<1>12. CASE Abort(r)
  <2>1. /\ pc'[r] = "idle" /\ OthersStay(r)
        /\ UNCHANGED <<delayKey, counter, day, sent, cooling, coolSends, overwritten>>
        /\ uncounted'[x] = IF Uncounted(r, x) THEN uncounted[x] + 1 ELSE uncounted[x]
        BY <1>12 DEF Abort
  <2> QED
        BY <1>0, <2>1
<1> QED
    BY <1>1, <1>2, <1>3, <1>4, <1>5, <1>6, <1>7, <1>8, <1>9, <1>10, <1>11, <1>12 DEF Step

CapsInv == CountedInv /\ RoomInv /\ CoolInv

LEMMA SizesAreNats ==
    ASSUME NEW x \in Windows
    PROVE  /\ Cardinality(Pending(x)) \in Nat /\ Cardinality(Cleared(x)) \in Nat
           /\ Cardinality(Past) \in Nat /\ Others \in Nat
           /\ Cardinality(Cleared(x)) <= Others + 1
<1>1. Pending(x) \in SUBSET Replicas /\ Cleared(x) \in SUBSET Replicas /\ Past \in SUBSET Replicas
      BY DEF Pending, Cleared, Past
<1>2. /\ IsFiniteSet(Pending(x)) /\ IsFiniteSet(Cleared(x)) /\ IsFiniteSet(Past)
      /\ Cardinality(Cleared(x)) <= Cardinality(Replicas)
      BY <1>1, FS_Subset, ReplicasAssumption
<1>3. Cardinality(Replicas) \in Nat /\ Cardinality(Replicas) # 0
      BY FS_CardinalityType, FS_EmptySet, ReplicasAssumption
<1>4. /\ Cardinality(Pending(x)) \in Nat /\ Cardinality(Cleared(x)) \in Nat
      /\ Cardinality(Past) \in Nat
      BY <1>2, FS_CardinalityType
<1> QED
      BY <1>2, <1>3, <1>4 DEF Others

LEMMA ReplicaStepCaps ==
    ASSUME TypeOK, TypeOK', CapsInv, NEW r \in Replicas, Step(r)
    PROVE  CapsInv'
<1>1. OthersStay(r) /\ Cools(r) /\ day' = day
  <2>1. "day" \in Windows
        BY DEF Windows
  <2> QED
        BY <2>1, StepEffects DEF CapsInv
<1>2. CountedInv'
  <2> SUFFICES ASSUME NEW x \in Windows
               PROVE  sent'[x] <= counter'[x] + Cardinality(Pending(x)') + uncounted'[x]
      BY DEF CountedInv
  <2>1. /\ Cardinality(Pending(x)) \in Nat /\ Cardinality(Pending(x)') \in Nat
        /\ Cardinality(Pending(x)') + Bit(Uncounted(r, x)) = Cardinality(Pending(x)) + Bit(Uncounted(r, x)')
        BY <1>1, SizesStep
  <2>2. Balanced(r, x) /\ sent[x] <= counter[x] + Cardinality(Pending(x)) + uncounted[x]
        BY StepEffects DEF CapsInv, CountedInv
  <2>3. /\ sent[x] \in Nat /\ counter[x] \in Nat /\ uncounted[x] \in Nat
        /\ sent'[x] \in Nat /\ counter'[x] \in Nat /\ uncounted'[x] \in Nat
        BY DEF TypeOK
  <2> QED
        BY <2>1, <2>2, <2>3 DEF Balanced, Bit
<1>3. RoomInv'
  <2> SUFFICES ASSUME NEW x \in Windows, NEW cap \in CapsOf(x), cap > 0
               PROVE  sent'[x] + Cardinality(Cleared(x)') <= cap + Others + uncounted'[x]
      BY <1>1 DEF RoomInv, CapsOf, Others, OwnCap, warming_ramp
  <2>1. /\ Cardinality(Cleared(x)) \in Nat /\ Cardinality(Cleared(x)') \in Nat
        /\ Cardinality(Cleared(x)') + Bit(IsCleared(r, x)) = Cardinality(Cleared(x)) + Bit(IsCleared(r, x)')
        BY <1>1, SizesStep
  <2>2. /\ Spends(r, x) \/ Clears(r, x)
        /\ sent[x] + Cardinality(Cleared(x)) <= cap + Others + uncounted[x]
        /\ sent[x] <= counter[x] + Cardinality(Pending(x)) + uncounted[x]
        BY StepEffects DEF CapsInv, CountedInv, RoomInv
  <2>3. /\ sent[x] \in Nat /\ counter[x] \in Nat /\ uncounted[x] \in Nat
        /\ sent'[x] \in Nat /\ uncounted'[x] \in Nat /\ cap \in Nat /\ Others \in Nat
        BY CapsAreNats, SizesAreNats DEF TypeOK
  <2>4. CASE Spends(r, x)
        BY <2>1, <2>2, <2>3, <2>4 DEF Spends, Bit
  <2>5. CASE Clears(r, x)
    <3>1. Pending(x) \cap Cleared(x) = {} /\ r \notin Pending(x) /\ r \notin Cleared(x)
          BY <2>5 DEF Clears, Pending, Cleared, Uncounted, IsCleared
    <3>2. /\ Pending(x) \in SUBSET Replicas /\ Cleared(x) \in SUBSET Replicas
          BY DEF Pending, Cleared
    <3>3. /\ Cardinality(Pending(x)) + Cardinality(Cleared(x)) <= Others
          /\ Cardinality(Pending(x)) \in Nat
          BY <3>1, <3>2, OneApart
    <3>4. counter[x] < cap /\ sent'[x] = sent[x] /\ uncounted'[x] = uncounted[x]
          BY <2>5 DEF Clears
    <3>5. Cardinality(Cleared(x)') <= Cardinality(Cleared(x)) + 1
          BY <2>1 DEF Bit
    <3> QED
          BY <2>1, <2>2, <2>3, <3>3, <3>4, <3>5
  <2> QED
        BY <2>2, <2>4, <2>5
<1>4. CoolInv'
  <2> SUFFICES ASSUME cooling', ~overwritten'
               PROVE  delayKey' = "ttl" /\ coolSends' + Cardinality(Past') <= Others
      BY DEF CoolInv, Others
  <2>1. "day" \in Windows
        BY DEF Windows
  <2>2. /\ Cardinality(Past) \in Nat /\ Cardinality(Past') \in Nat
        /\ Cardinality(Past') + Bit(IsPast(r)) = Cardinality(Past) + Bit(IsPast(r)')
        BY <1>1, <2>1, SizesStep
  <2>3. coolSends \in Nat /\ coolSends' \in Nat /\ Others \in Nat
        BY <2>1, SizesAreNats DEF TypeOK
  <2>4. CASE /\ cooling /\ ~overwritten /\ delayKey' = delayKey
             /\ coolSends' + Bit(IsPast(r)') <= coolSends + Bit(IsPast(r))
    <3>1. delayKey = "ttl" /\ coolSends + Cardinality(Past) <= Others
          BY <2>4 DEF CapsInv, CoolInv
    <3>2. /\ Bit(IsPast(r)) \in Nat /\ Bit(IsPast(r)') \in Nat
          /\ coolSends' + Bit(IsPast(r)') <= coolSends + Bit(IsPast(r))
          BY <2>4 DEF Bit
    <3>3. coolSends' + Cardinality(Past') <= Others
          BY <2>2, <2>3, <3>1, <3>2
    <3> QED
          BY <2>4, <3>1, <3>3
  <2>5. CASE coolSends' = 0 /\ delayKey' = "ttl" /\ ~IsPast(r) /\ ~IsPast(r)'
    <3>1. Past \in SUBSET Replicas /\ {} \in SUBSET Replicas /\ r \notin Past /\ Past \cap {} = {}
          BY <2>5 DEF Past
    <3>2. Cardinality(Past) + Cardinality({}) <= Others
          BY <3>1, OneApart
    <3>3. Cardinality(Past') = Cardinality(Past)
          BY <2>2, <2>5 DEF Bit
    <3> QED
          BY <2>2, <2>3, <2>5, <3>2, <3>3, FS_EmptySet
  <2> QED
        BY <1>1, <2>4, <2>5 DEF Cools
<1> QED
      BY <1>2, <1>3, <1>4 DEF CapsInv

\* The keys of the windows that turn start from zero.
LEMMA TurnKeepsCaps ==
    ASSUME TypeOK, TypeOK', CapsInv, HourTurns \/ DayTurns
    PROVE  CapsInv'
<1>1. UNCHANGED <<pc, sentOk, delayKey, cooling, coolSends, overwritten>>
      BY DEF HourTurns, DayTurns, Turn
<1>2. /\ \A x \in Windows : Cardinality(Pending(x))' = Cardinality(Pending(x))
      /\ \A x \in Windows : Cardinality(Cleared(x))' = Cardinality(Cleared(x))
      /\ Cardinality(Past)' = Cardinality(Past)
      BY <1>1 DEF Pending, Uncounted, Cleared, IsCleared, Past, IsPast
<1>3. CoolInv'
      BY <1>1, <1>2 DEF CapsInv, CoolInv, Others
<1>4. ASSUME NEW x \in Windows
      PROVE  \/ sent'[x] = 0 /\ counter'[x] = 0 /\ uncounted'[x] = 0
             \/ /\ sent'[x] = sent[x] /\ counter'[x] = counter[x] /\ uncounted'[x] = uncounted[x]
                /\ CapsOf(x)' = CapsOf(x)
      BY DEF HourTurns, DayTurns, Turn, Fresh, CapsOf, Windows
<1>5. ASSUME NEW x \in Windows
      PROVE  sent'[x] <= counter'[x] + Cardinality(Pending(x)') + uncounted'[x]
  <2>1. sent[x] <= counter[x] + Cardinality(Pending(x)) + uncounted[x]
        BY DEF CapsInv, CountedInv
  <2> QED
        BY <1>2, <1>4, <2>1, SizesAreNats
<1>6. ASSUME NEW x \in Windows, NEW cap \in CapsOf(x)', cap > 0
      PROVE  sent'[x] + Cardinality(Cleared(x)') <= cap + Others + uncounted'[x]
  <2>1. cap \in Nat
    <3>1. warming_ramp(day)' \in Nat /\ OwnCap \in Nat /\ HourlyCap \in Nat
          BY CapsAssumption DEF TypeOK, warming_ramp, OwnCap
    <3> QED
          BY <3>1 DEF CapsOf, OwnCap
  <2>2. CASE sent'[x] = 0 /\ uncounted'[x] = 0
        BY <1>2, <1>6, <2>1, <2>2, SizesAreNats
  <2>3. CASE sent'[x] = sent[x] /\ uncounted'[x] = uncounted[x] /\ CapsOf(x)' = CapsOf(x)
        BY <1>2, <1>6, <2>3 DEF CapsInv, RoomInv
  <2> QED
        BY <1>4, <2>2, <2>3
<1>7. CountedInv' /\ RoomInv'
      BY <1>5, <1>6 DEF CountedInv, RoomInv, Others
<1> QED
      BY <1>3, <1>7 DEF CapsInv

LEMMA CapsStep == LockInv /\ CapsInv /\ [Next]_vars => CapsInv'
<1> SUFFICES ASSUME TypeOK, CapsInv, [Next]_vars PROVE CapsInv'
    BY DEF LockInv
<1>1. TypeOK'
      BY TypeStep
<1>2. ASSUME UNCHANGED <<pc, sentOk, counter, sent, uncounted, day>>, CoolInv' PROVE CapsInv'
      BY <1>2 DEF CapsInv, CountedInv, RoomInv, CapsOf, Pending, Uncounted, Cleared, IsCleared, Others
<1>3. CASE LockExpires \/ UNCHANGED vars
  <2>1. UNCHANGED <<pc, delayKey, cooling, coolSends, overwritten>>
        BY <1>3 DEF LockExpires, vars, history
  <2>2. CoolInv'
        BY <2>1 DEF CapsInv, CoolInv, Past, IsPast, Others
  <2> QED
        BY <1>2, <1>3, <2>2 DEF LockExpires, vars, history
<1>4. CASE CooldownEnds \/ set_account_delay
  <2>1. ~(cooling' /\ ~overwritten')
        BY <1>4 DEF CooldownEnds, set_account_delay
  <2> QED
        BY <1>2, <1>4, <2>1 DEF CooldownEnds, set_account_delay, CoolInv
<1>5. CASE HourTurns \/ DayTurns
      BY <1>1, <1>5, TurnKeepsCaps
<1>6. CASE \E r \in Replicas : Step(r)
      BY <1>1, <1>6, ReplicaStepCaps
<1> QED
      BY <1>3, <1>4, <1>5, <1>6 DEF Next

LEMMA InitCaps == Init => CapsInv
<1> SUFFICES ASSUME Init PROVE CapsInv
    OBVIOUS
<1>1. TypeOK
      BY InitLockInv DEF LockInv
<1>2. \A x \in Windows : sent[x] = 0 /\ counter[x] = 0 /\ uncounted[x] = 0 /\ Cleared(x) = {}
      BY DEF Init, Cleared, IsCleared
<1>3. CountedInv
      BY <1>2, SizesAreNats DEF CountedInv
<1>4. RoomInv
      BY <1>1, <1>2, SizesAreNats, CapsAreNats, FS_EmptySet DEF RoomInv
<1>5. CoolInv
      BY DEF Init, CoolInv
<1> QED
      BY <1>3, <1>4, <1>5 DEF CapsInv

LEMMA CapsInvariance == Spec => [](TypeOK /\ CapsInv)
<1>1. LockInv => TypeOK
      BY DEF LockInv
<1> QED
      BY InitCaps, CapsStep, LockInvariance, <1>1, PTL DEF Spec

\* In an hour or a day an account exceeds each of its caps, and the ramp of its warming, by one
\* send per other replica at most, plus the sends whose count was lost: whatever the number of
\* replicas, the caps and the order of checks, deliveries and counts (rate_limit.py).
THEOREM CapsAreKept == Spec => []CapsHold
<1>1. TypeOK /\ CapsInv => CapsHold
  <2> SUFFICES ASSUME TypeOK, CapsInv PROVE CapsHold
      OBVIOUS
  <2>1. ASSUME NEW x \in Windows, NEW cap \in CapsOf(x), cap > 0
        PROVE  sent[x] <= cap + Others + uncounted[x]
    <3>1. sent[x] + Cardinality(Cleared(x)) <= cap + Others + uncounted[x]
          BY <2>1 DEF CapsInv, RoomInv
    <3>2. /\ sent[x] \in Nat /\ uncounted[x] \in Nat /\ cap \in Nat
          /\ Others \in Nat /\ Cardinality(Cleared(x)) \in Nat
          BY SizesAreNats, CapsAreNats DEF TypeOK
    <3> QED
          BY <3>1, <3>2
  <2> QED
        BY <2>1 DEF CapsHold, CapsOf, Windows
<1> QED
      BY <1>1, CapsInvariance, PTL

\* After a send, each other replica slips at most one message into the account's cooldown,
\* unless an operator overwrites it (set_min_delay, is_min_delay_active).
THEOREM CooldownIsKept == Spec => []CooldownHolds
<1>1. TypeOK /\ CapsInv => CooldownHolds
  <2> SUFFICES ASSUME TypeOK, CapsInv, cooling, ~overwritten PROVE coolSends <= Others
      BY DEF CooldownHolds
  <2>1. coolSends + Cardinality(Past) <= Others
        BY DEF CapsInv, CoolInv
  <2>2. coolSends \in Nat /\ Cardinality(Past) \in Nat /\ Others \in Nat
        BY SizesAreNats DEF TypeOK, Windows
  <2> QED
        BY <2>1, <2>2
<1> QED
      BY <1>1, CapsInvariance, PTL
=============================================================================
