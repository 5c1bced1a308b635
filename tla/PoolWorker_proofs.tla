-------------------------- MODULE PoolWorker_proofs --------------------------
(***************************************************************************)
(* Safety of the worker pool for every number of replicas, accounts,       *)
(* messages and faults: a message has one place and never vanishes, a      *)
(* reported delivery is final, a switch is overrun by one message per      *)
(* replica at most, and the pool implements MessageLife.                   *)
(***************************************************************************)
EXTENDS PoolWorker, FiniteSetTheorems, SequenceTheorems, TLAPS

---------------------------------------------------------------------------
(* The inductive invariant.                                                *)

\* A replica that is past its pop and not done has a payload, and nobody else has.
HandInv ==
    \A w \in Workers :
        IF pc[w] \in Holding THEN hand[w] \in Payloads /\ source[w] \in Accounts
                             ELSE hand[w] = None
\* A replica always serves an account, ...
AccountsInv == \A w \in Workers : accountIds[w] # {}
\* ... so it scans a list of some, and only what may be sent again is retried.
ResultInv ==
    \A w \in Workers :
        /\ pc[w] = "scan" => count[w] # 0
        /\ pc[w] = "record" => outcome[w] \in Outcomes
        /\ pc[w] = "backoff" => outcome[w] = "failed_retryable"

\* The places of a message: a list, a hand, or over.
MsgsOf(seq)   == {seq[i].msg : i \in 1..Len(seq)}
Distinct(seq) == \A i, j \in 1..Len(seq) : seq[i].msg = seq[j].msg => i = j
Listed(a)     == MsgsOf(queue[a])
Carried(w)    == IF hand[w] = None THEN {} ELSE {hand[w].msg}
Over          == settled \cup lost

\* No two places share a message, and only what was pushed is anywhere.
PlacesInv ==
    /\ \A a \in Accounts : Distinct(queue[a])
    /\ \A a, b \in Accounts : a # b => Listed(a) \cap Listed(b) = {}
    /\ \A v, w \in Workers : v # w => Carried(v) \cap Carried(w) = {}
    /\ \A w \in Workers, a \in Accounts : Carried(w) \cap Listed(a) = {}
    /\ \A a \in Accounts : Listed(a) \cap Over = {} /\ Listed(a) \subseteq pushed
    /\ \A w \in Workers : Carried(w) \cap Over = {} /\ Carried(w) \subseteq pushed
    /\ Over \subseteq pushed
\* What was pushed is somewhere.
PushedInv ==
    \A m \in pushed : \/ m \in Over
                      \/ \E a \in Accounts : m \in Listed(a)
                      \/ \E w \in Workers : m \in Carried(w)

\* The replica knows that it has delivered what it holds.
Knows(w) == pc[w] = "record" /\ outcome[w] = "delivered"
\* A message in a list or a hand was delivered as often as that was in doubt, and once more
\* if who holds it knows.
CopiesInv ==
    /\ \A m \in Msgs \ Over :
          (\A w \in Workers : m \in Carried(w) => ~Knows(w)) => delivered[m] = ambiguous[m]
    /\ \A w \in Workers : Knows(w) => \A m \in Carried(w) : delivered[m] = ambiguous[m] + 1
\* A reported delivery is one, and the message is over.
ReportInv == \A m \in Msgs : sendStatus[m] = "delivered" => delivered[m] > 0 /\ m \in Over

\* A replica that has delivered over a switch does not pass it again while it is on.
LateInv ==
    \A w \in Workers, s \in Switches : <<w, s>> \in lateSends =>
        /\ s \in on
        /\ s = Kill => pc[w] \in {"idle", "record", "backoff"}
        /\ s = source[w] => pc[w] \notin {"campaign", "putBack", "send"}
        /\ pc[w] = "send" => s # CampaignOf[hand[w].msg]

IInv ==
    /\ TypeOK /\ HandInv /\ AccountsInv /\ ResultInv /\ PlacesInv /\ PushedInv /\ CopiesInv
    /\ ReportInv /\ LateInv

---------------------------------------------------------------------------
(* Types.  The variables of a replica's run first.                         *)

RunOK ==
    /\ pc \in [Workers -> Holding \cup {"idle", "scan"}]
    /\ count \in [Workers -> Nat] /\ scan \in [Workers -> Nat]
    /\ hand \in [Workers -> Payloads \cup {None}]
    /\ source \in [Workers -> Accounts \cup {None}]
    /\ outcome \in [Workers -> Outcomes \cup {None}]
RunInv == RunOK /\ HandInv /\ ResultInv

LEMMA ReturnKeepsRun ==
    ASSUME RunInv, NEW w \in Workers, Return(w)
    PROVE  RunInv'
BY DEF RunInv, RunOK, HandInv, ResultInv, Return, Goto, Holding

\* The point a replica goes to with everything else as it was.
LEMMA GotoKeepsRun ==
    ASSUME RunInv, NEW w \in Workers, NEW point \in Holding \ {"record", "backoff"}, pc[w] \in Holding,
           Goto(w, point), UNCHANGED <<count, scan, hand, source, outcome>>
    PROVE  RunInv'
BY DEF RunInv, RunOK, HandInv, ResultInv, Goto, Holding

LEMMA RunStep ==
    ASSUME TypeOK, RunInv, AccountsInv, [Next]_vars
    PROVE  RunInv'
<1>1. ASSUME NEW w \in Workers, check_kill_switch(w) PROVE RunInv'
  <2>1. accountIds[w] \subseteq Accounts /\ accountIds[w] # {}
        BY DEF TypeOK, AccountsInv
  <2>2. Cardinality(accountIds[w]) \in Nat \ {0}
        BY <2>1, FS_Subset, FS_EmptySet, FS_CardinalityType, IdsAssumption
  <2> QED
        BY <1>1, <2>2 DEF check_kill_switch, Goto, RunInv, RunOK, HandInv, ResultInv, Holding
<1>2. ASSUME NEW w \in Workers,
             \/ ListShrank(w) \/ RejectPayload(w) \/ Requeue(w) \/ PutBack(w) \/ IntegrityError(w)
             \/ _schedule_retry(w) \/ SendRaises(w) \/ DbFails(w) \/ Crash(w)
      PROVE RunInv'
  <2>1. Return(w)
        BY <1>2 DEF ListShrank, RejectPayload, Requeue, PutBack, IntegrityError, _schedule_retry,
                    SendRaises, DbFails, Crash, handle_error
  <2> QED
        BY <2>1, ReturnKeepsRun
<1>3. ASSUME NEW w \in Workers, RedisFails(w) PROVE RunInv'
  <2>1. Return(w)
        BY <1>3 DEF RedisFails, handle_error
  <2> QED
        BY <2>1, ReturnKeepsRun
<1>4. ASSUME NEW w \in Workers, LpopEmpty(w) PROVE RunInv'
  <2>1. CASE Return(w)
        BY <2>1, ReturnKeepsRun
  <2>2. CASE scan' = [scan EXCEPT ![w] = @ + 1] /\ UNCHANGED <<pc, count, hand, source, outcome>>
        BY <2>2 DEF RunInv, RunOK, HandInv, ResultInv
  <2> QED
        BY <1>4, <2>1, <2>2 DEF LpopEmpty
<1>5. ASSUME NEW w \in Workers, NEW a \in Accounts, Lpop(w, a) PROVE RunInv'
  <2>1. Head(queue[a]) \in Payloads
        BY <1>5, HeadTailProperties DEF Lpop, TypeOK
  <2> QED
        BY <1>5, <2>1 DEF Lpop, Goto, RunInv, RunOK, HandInv, ResultInv, Holding
<1>6. ASSUME NEW w \in Workers, AccountPaused(w) \/ validate_payload(w) \/ check_campaign_paused(w)
      PROVE RunInv'
  <2>1. /\ pc[w] \in Holding /\ UNCHANGED <<count, scan, hand, source, outcome>>
        /\ \/ Goto(w, "requeue") \/ Goto(w, "campaign") \/ Goto(w, "putBack") \/ Goto(w, "send")
        BY <1>6 DEF AccountPaused, validate_payload, check_campaign_paused, Holding
  <2> QED
        BY <2>1, GotoKeepsRun DEF Holding
<1>7. ASSUME NEW w \in Workers, NEW result \in Outcomes, Goto(w, "record"), pc[w] = "send",
             outcome' = [outcome EXCEPT ![w] = result], UNCHANGED <<count, scan, hand, source>>
      PROVE RunInv'
      BY <1>7 DEF Goto, RunInv, RunOK, HandInv, ResultInv, Holding
<1>8. ASSUME NEW w \in Workers, NEW result \in Outcomes, send_message(w, result) PROVE RunInv'
      BY <1>7, <1>8 DEF send_message
<1>9. ASSUME NEW w \in Workers, SendTimesOut(w) PROVE RunInv'
      BY <1>7, <1>9 DEF SendTimesOut, Outcomes
<1>10. ASSUME NEW w \in Workers, handle_result(w) PROVE RunInv'
  <2>1. CASE Return(w)
        BY <2>1, ReturnKeepsRun
  <2>2. CASE /\ pc[w] = "record" /\ should_schedule_retry(w) /\ Goto(w, "backoff")
             /\ UNCHANGED <<count, scan, hand, source, outcome>>
        BY <2>2 DEF should_schedule_retry, Goto, RunInv, RunOK, HandInv, ResultInv, Holding
  <2> QED
        BY <1>10, <2>1, <2>2 DEF handle_result
<1>11. ASSUME UNCHANGED run PROVE RunInv'
       BY <1>11 DEF run, RunInv, RunOK, HandInv, ResultInv
<1>12. ASSUME NEW w \in Workers, _refresh_account_ids(w) PROVE RunInv'
       BY <1>11, <1>12 DEF _refresh_account_ids
<1>13. ASSUME \/ \E m \in Msgs, a \in Accounts : BridgePush(m, a)
              \/ \E s \in Operated : Toggle(s)
              \/ \E a \in Accounts : AccountStatusChanges(a)
              \/ UNCHANGED vars
       PROVE RunInv'
       BY <1>11, <1>13 DEF BridgePush, Toggle, AccountStatusChanges, vars
<1> QED
       BY <1>1, <1>2, <1>3, <1>4, <1>5, <1>6, <1>8, <1>9, <1>10, <1>12, <1>13 DEF Next, run_once, Fail

LEMMA IndexIsNat ==
    ASSUME RunInv, NEW w \in Workers, pc[w] = "scan", TypeOK
    PROVE  Index(w) \in Nat
BY DEF RunInv, RunOK, ResultInv, Index, TypeOK

\* The account lists.
PoolOK == accountIds \in [Workers -> SUBSET Accounts] /\ rr \in [Workers -> Nat]

LEMMA PoolStep ==
    ASSUME TypeOK, RunInv, AccountsInv, [Next]_vars
    PROVE  PoolOK' /\ AccountsInv'
<1> USE DEF PoolOK, AccountsInv
<1> DEFINE Restarted(w) ==
        /\ accountIds' = [accountIds EXCEPT ![w] = Shard(w, Configured)]
        /\ rr' = [rr EXCEPT ![w] = 0]
<1>1. PoolOK
      BY DEF TypeOK
<1>2. CASE UNCHANGED pool
      BY <1>1, <1>2 DEF pool
<1>3. ASSUME NEW w \in Workers, NEW a \in Accounts, Lpop(w, a) PROVE PoolOK' /\ AccountsInv'
  <2>1. Index(w) \in Nat /\ count[w] \in Nat \ {0}
        BY <1>3, IndexIsNat DEF Lpop, RunInv, RunOK, ResultInv
  <2>2. (Index(w) + 1) % count[w] \in Nat
        BY <2>1
  <2> HIDE DEF Index
  <2> QED
        BY <1>1, <1>3, <2>2 DEF Lpop, Advance
<1>4. ASSUME NEW w \in Workers, Crash(w) PROVE PoolOK' /\ AccountsInv'
  <2>1. Shard(w, Configured) # {} /\ Shard(w, Configured) \subseteq Accounts
        BY PoolAssumption, IdsAssumption DEF Shard
  <2> QED
        BY <1>1, <1>4, <2>1 DEF Crash
<1>5. ASSUME NEW w \in Workers, _refresh_account_ids(w) PROVE PoolOK' /\ AccountsInv'
  <2> DEFINE new == Shard(w, active)
  <2>1. new # {} /\ new \subseteq Accounts
        BY <1>5 DEF _refresh_account_ids, Shard, TypeOK
  <2>2. Cardinality(new) \in Nat \ {0}
        BY <2>1, FS_Subset, FS_EmptySet, FS_CardinalityType, IdsAssumption
  <2>3. rr[w] % Cardinality(new) \in Nat
        BY <1>1, <2>2
  <2>4. accountIds' = [accountIds EXCEPT ![w] = new] /\ rr' = [rr EXCEPT ![w] = @ % Cardinality(new)]
        BY <1>5 DEF _refresh_account_ids
  <2> HIDE DEF new
  <2> QED
        BY <1>1, <2>1, <2>3, <2>4
<1>6. ASSUME NEW w \in Workers,
             \/ check_kill_switch(w) \/ ListShrank(w) \/ LpopEmpty(w) \/ AccountPaused(w)
             \/ validate_payload(w) \/ RejectPayload(w) \/ check_campaign_paused(w) \/ Requeue(w)
             \/ PutBack(w) \/ handle_result(w) \/ IntegrityError(w) \/ _schedule_retry(w)
             \/ SendTimesOut(w) \/ SendRaises(w) \/ DbFails(w) \/ RedisFails(w)
             \/ \E result \in Outcomes : send_message(w, result)
      PROVE UNCHANGED pool
      BY <1>6 DEF check_kill_switch, ListShrank, LpopEmpty, AccountPaused, validate_payload,
                  RejectPayload, check_campaign_paused, Requeue, PutBack, handle_result,
                  IntegrityError, _schedule_retry, SendTimesOut, SendRaises, DbFails, RedisFails,
                  send_message
<1>7. ASSUME \/ \E m \in Msgs, a \in Accounts : BridgePush(m, a)
             \/ \E s \in Operated : Toggle(s)
             \/ \E a \in Accounts : AccountStatusChanges(a)
             \/ UNCHANGED vars
      PROVE UNCHANGED pool
      BY <1>7 DEF BridgePush, Toggle, AccountStatusChanges, vars
<1> QED
      BY <1>2, <1>3, <1>4, <1>5, <1>6, <1>7 DEF Next, run_once, Fail

---------------------------------------------------------------------------
(* Lists of payloads.                                                      *)

LEMMA AtTail ==
    ASSUME NEW seq \in Seq(Payloads), NEW p \in Payloads
    PROVE  /\ Append(seq, p) \in Seq(Payloads)
           /\ MsgsOf(Append(seq, p)) = MsgsOf(seq) \cup {p.msg}
           /\ Distinct(seq) /\ p.msg \notin MsgsOf(seq) => Distinct(Append(seq, p))
<1> DEFINE new == Append(seq, p)
<1>1. /\ new \in Seq(Payloads) /\ Len(new) = Len(seq) + 1 /\ Len(seq) \in Nat
      /\ \A i \in 1..Len(seq) : new[i] = seq[i]
      /\ new[Len(seq) + 1] = p
      BY AppendProperties
<1> HIDE DEF new
<1>2. MsgsOf(new) = MsgsOf(seq) \cup {p.msg}
  <2>1. \A i \in 1..Len(new) : i \in 1..Len(seq) \/ i = Len(seq) + 1
        BY <1>1
  <2>2. \A i \in 1..Len(seq) : i \in 1..Len(new)
        BY <1>1
  <2>3. Len(seq) + 1 \in 1..Len(new)
        BY <1>1
  <2> QED
        BY <1>1, <2>1, <2>2, <2>3 DEF MsgsOf
<1>3. ASSUME Distinct(seq), p.msg \notin MsgsOf(seq) PROVE Distinct(new)
      BY <1>1, <1>3 DEF Distinct, MsgsOf
<1> QED
      BY <1>1, <1>2, <1>3 DEF new

LEMMA AtHead ==
    ASSUME NEW seq \in Seq(Payloads), NEW p \in Payloads
    PROVE  /\ <<p>> \o seq \in Seq(Payloads)
           /\ MsgsOf(<<p>> \o seq) = MsgsOf(seq) \cup {p.msg}
           /\ Distinct(seq) /\ p.msg \notin MsgsOf(seq) => Distinct(<<p>> \o seq)
<1> DEFINE new == <<p>> \o seq
<1>1. /\ new \in Seq(Payloads) /\ Len(new) = Len(seq) + 1 /\ Len(seq) \in Nat
      /\ \A i \in 1..Len(seq) : new[i + 1] = seq[i]
      /\ new[1] = p
  <2>1. <<p>> \in Seq(Payloads) /\ Len(<<p>>) = 1 /\ Len(seq) \in Nat /\ <<p>>[1] = p
        OBVIOUS
  <2>2. new \in Seq(Payloads) /\ Len(new) = 1 + Len(seq)
        BY <2>1, ConcatProperties
  <2>3. \A i \in 1..(1 + Len(seq)) : new[i] = IF i <= 1 THEN <<p>>[i] ELSE seq[i - 1]
        BY <2>1, ConcatProperties
  <2>4. ASSUME NEW i \in 1..Len(seq) PROVE new[i + 1] = seq[i]
    <3>1. i + 1 \in 1..(1 + Len(seq)) /\ ~(i + 1 <= 1) /\ (i + 1) - 1 = i
          BY <2>1
    <3> HIDE DEF new
    <3> QED
          BY <2>3, <3>1
  <2>5. new[1] = p
    <3>1. 1 \in 1..(1 + Len(seq))
          BY <2>1
    <3> HIDE DEF new
    <3> QED
          BY <2>1, <2>3, <3>1
  <2> QED
        BY <2>1, <2>2, <2>4, <2>5
<1> HIDE DEF new
<1>2. MsgsOf(new) = MsgsOf(seq) \cup {p.msg}
  <2>1. \A i \in 1..Len(new) : i = 1 \/ (i - 1 \in 1..Len(seq) /\ new[i] = seq[i - 1])
    <3> SUFFICES ASSUME NEW i \in 1..Len(new), i # 1
                 PROVE  i - 1 \in 1..Len(seq) /\ new[i] = seq[i - 1]
        OBVIOUS
    <3>1. i - 1 \in 1..Len(seq) /\ (i - 1) + 1 = i
          BY <1>1
    <3> QED
          BY <1>1, <3>1
  <2>2. \A i \in 1..Len(seq) : i + 1 \in 1..Len(new)
        BY <1>1
  <2>3. 1 \in 1..Len(new)
        BY <1>1
  <2>4. MsgsOf(new) \subseteq MsgsOf(seq) \cup {p.msg}
    <3> SUFFICES ASSUME NEW i \in 1..Len(new)
                 PROVE  new[i].msg \in MsgsOf(seq) \cup {p.msg}
        BY DEF MsgsOf
    <3>1. i = 1 => new[i].msg = p.msg
          BY <1>1
    <3>2. i # 1 => new[i].msg \in MsgsOf(seq)
          BY <2>1 DEF MsgsOf
    <3> QED
        BY <3>1, <3>2
  <2>5. ASSUME NEW i \in 1..Len(seq) PROVE seq[i].msg \in MsgsOf(new)
        BY <1>1, <2>2 DEF MsgsOf
  <2>6. p.msg \in MsgsOf(new)
        BY <1>1, <2>3 DEF MsgsOf
  <2>7. MsgsOf(seq) \subseteq MsgsOf(new)
        BY <2>5 DEF MsgsOf
  <2> QED
        BY <2>4, <2>6, <2>7
<1>3. ASSUME Distinct(seq), p.msg \notin MsgsOf(seq) PROVE Distinct(new)
  <2> SUFFICES ASSUME NEW i \in 1..Len(new), NEW j \in 1..Len(new), new[i].msg = new[j].msg
               PROVE  i = j
      BY DEF Distinct
  <2>1. ASSUME NEW k \in 1..Len(new), k # 1
        PROVE  k - 1 \in 1..Len(seq) /\ new[k] = seq[k - 1]
    <3>1. k - 1 \in 1..Len(seq) /\ (k - 1) + 1 = k
          BY <1>1, <2>1
    <3> QED
          BY <1>1, <3>1
  <2>2. \A k \in 1..Len(seq) : seq[k].msg # p.msg
        BY <1>3 DEF MsgsOf
  <2>3. CASE i = 1 \/ j = 1
        BY <1>1, <2>1, <2>2, <2>3
  <2>4. CASE i # 1 /\ j # 1
    <3>1. i - 1 = j - 1
          BY <1>3, <2>1, <2>4 DEF Distinct
    <3> QED
          BY <1>1, <3>1
  <2> QED
        BY <2>3, <2>4
<1> QED
      BY <1>1, <1>2, <1>3 DEF new

LEMMA OffHead ==
    ASSUME NEW seq \in Seq(Payloads), seq # <<>>
    PROVE  /\ Tail(seq) \in Seq(Payloads) /\ Head(seq) \in Payloads
           /\ Head(seq).msg \in MsgsOf(seq)
           /\ MsgsOf(seq) = MsgsOf(Tail(seq)) \cup {Head(seq).msg}
           /\ Distinct(seq) => Distinct(Tail(seq)) /\ Head(seq).msg \notin MsgsOf(Tail(seq))
<1> DEFINE rest == Tail(seq)
<1>1. /\ Head(seq) = seq[1] /\ rest \in Seq(Payloads) /\ Len(rest) = Len(seq) - 1
      /\ Head(seq) \in Payloads
      /\ \A i \in 1..Len(rest) : rest[i] = seq[i + 1]
      BY HeadTailProperties
<1>2. Len(seq) \in Nat \ {0}
      BY EmptySeq
<1> HIDE DEF rest
<1>3. 1 \in 1..Len(seq) /\ \A i \in 1..Len(rest) : i + 1 \in 1..Len(seq)
      BY <1>1, <1>2
<1>4. ASSUME NEW i \in 1..Len(seq), i # 1 PROVE i - 1 \in 1..Len(rest) /\ rest[i - 1] = seq[i]
  <2>1. i - 1 \in 1..Len(rest) /\ (i - 1) + 1 = i
        BY <1>1, <1>2, <1>4
  <2> QED
        BY <1>1, <2>1
<1>5. MsgsOf(seq) = MsgsOf(rest) \cup {Head(seq).msg}
      BY <1>1, <1>3, <1>4 DEF MsgsOf
<1>6. ASSUME Distinct(seq) PROVE Distinct(rest) /\ Head(seq).msg \notin MsgsOf(rest)
  <2>1. Distinct(rest)
    <3> SUFFICES ASSUME NEW i \in 1..Len(rest), NEW j \in 1..Len(rest), rest[i].msg = rest[j].msg
                 PROVE  i = j
        BY DEF Distinct
    <3>1. i + 1 = j + 1
          BY <1>1, <1>3, <1>6 DEF Distinct
    <3> QED
          BY <1>1, <1>2, <3>1
  <2>2. ASSUME NEW i \in 1..Len(rest) PROVE rest[i].msg # Head(seq).msg
    <3>1. i + 1 # 1
          BY <1>1, <1>2
    <3> QED
          BY <1>1, <1>3, <1>6, <3>1 DEF Distinct
  <2> QED
        BY <2>1, <2>2 DEF MsgsOf
<1> QED
      BY <1>1, <1>5, <1>6 DEF rest

---------------------------------------------------------------------------
(* What a step does to the places of the messages.                         *)

QueueOK == queue \in [Accounts -> Seq(Payloads)] /\ \A a \in Accounts : Distinct(queue[a])

SameLists(As) == \A a \in As : Listed(a)' = Listed(a)
SameHands(Ws) == \A w \in Ws : Carried(w)' = Carried(w) /\ (Knows(w)' <=> Knows(w))
SameCounts    == UNCHANGED <<delivered, ambiguous>>
Counted(f, m) == f' = [f EXCEPT ![m] = @ + 1]

Keeps ==
    /\ SameLists(Accounts) /\ SameHands(Workers) /\ Over' = Over
    /\ pushed' = pushed /\ SameCounts
Comes(a, m) ==
    /\ m \notin pushed /\ pushed' = pushed \cup {m}
    /\ Listed(a)' = Listed(a) \cup {m} /\ SameLists(Accounts \ {a})
    /\ SameHands(Workers) /\ Over' = Over /\ SameCounts
\* m leaves the list of a.
Leaves(a, m) ==
    /\ Listed(a) = Listed(a)' \cup {m} /\ m \notin Listed(a)'
    /\ SameLists(Accounts \ {a}) /\ pushed' = pushed /\ SameCounts
Takes(w, a, m) ==
    /\ Leaves(a, m) /\ Carried(w) = {} /\ Carried(w)' = {m} /\ ~Knows(w)'
    /\ SameHands(Workers \ {w}) /\ Over' = Over
Cuts(a, m) == Leaves(a, m) /\ Over' = Over \cup {m} /\ SameHands(Workers)
\* w no longer holds m.
Frees(w, m) ==
    /\ Carried(w) = {m} /\ Carried(w)' = {} /\ ~Knows(w)'
    /\ SameHands(Workers \ {w}) /\ pushed' = pushed
GivesBack(w, a, m) ==
    /\ Frees(w, m) /\ ~Knows(w) /\ Listed(a)' = Listed(a) \cup {m} /\ SameLists(Accounts \ {a})
    /\ Over' = Over /\ SameCounts
Ends(w, m) ==
    /\ Frees(w, m) /\ Over' = Over \cup {m} /\ SameLists(Accounts)
    /\ \/ SameCounts
       \/ ~Knows(w) /\ Counted(delivered, m) /\ ambiguous' = ambiguous
\* w holds m and delivers it.
Delivers(w, m) ==
    /\ Carried(w) = {m} /\ Carried(w)' = {m} /\ ~Knows(w) /\ SameHands(Workers \ {w})
    /\ SameLists(Accounts) /\ Over' = Over /\ pushed' = pushed /\ Counted(delivered, m)
Sends(w, m)  == Delivers(w, m) /\ Knows(w)' /\ ambiguous' = ambiguous
Doubts(w, m) == Delivers(w, m) /\ ~Knows(w)' /\ Counted(ambiguous, m)

Moves ==
    \/ Keeps
    \/ \E a \in Accounts, m \in Msgs : Comes(a, m) \/ Cuts(a, m)
    \/ \E w \in Workers, a \in Accounts, m \in Msgs : Takes(w, a, m) \/ GivesBack(w, a, m)
    \/ \E w \in Workers, m \in Msgs : Ends(w, m) \/ Sends(w, m) \/ Doubts(w, m)

\* A payload is put at one end of a list, ...
LEMMA PutInList ==
    ASSUME QueueOK, NEW a \in Accounts, NEW p \in Payloads, p.msg \notin Listed(a),
           \/ queue' = [queue EXCEPT ![a] = Append(@, p)]
           \/ queue' = [queue EXCEPT ![a] = <<p>> \o @]
    PROVE  QueueOK' /\ Listed(a)' = Listed(a) \cup {p.msg} /\ SameLists(Accounts \ {a})
<1>1. PICK new : /\ new \in {Append(queue[a], p), <<p>> \o queue[a]}
                 /\ queue' = [queue EXCEPT ![a] = new]
  <2>1. CASE queue' = [queue EXCEPT ![a] = Append(@, p)]
        BY <2>1
  <2>2. CASE queue' = [queue EXCEPT ![a] = <<p>> \o @]
        BY <2>2
  <2> QED
        BY <2>1, <2>2
<1>2. queue[a] \in Seq(Payloads) /\ Distinct(queue[a]) /\ p.msg \notin MsgsOf(queue[a])
      BY DEF QueueOK, Listed
<1>3. new \in Seq(Payloads) /\ Distinct(new) /\ MsgsOf(new) = MsgsOf(queue[a]) \cup {p.msg}
  <2>1. CASE new = Append(queue[a], p)
        BY <1>2, <2>1, AtTail
  <2>2. CASE new = <<p>> \o queue[a]
        BY <1>2, <2>2, AtHead
  <2> QED
        BY <1>1, <2>1, <2>2
<1>4. queue'[a] = new /\ \A b \in Accounts \ {a} : queue'[b] = queue[b]
      BY <1>1 DEF QueueOK
<1> QED
      BY <1>1, <1>3, <1>4 DEF QueueOK, Listed, SameLists

\* ... or taken off its head.
LEMMA TakeFromList ==
    ASSUME QueueOK, NEW a \in Accounts, queue[a] # <<>>, queue' = [queue EXCEPT ![a] = Tail(@)]
    PROVE  /\ QueueOK' /\ Head(queue[a]) \in Payloads
           /\ Listed(a) = Listed(a)' \cup {Head(queue[a]).msg} /\ Head(queue[a]).msg \notin Listed(a)'
           /\ SameLists(Accounts \ {a})
<1>1. queue[a] \in Seq(Payloads) /\ Distinct(queue[a])
      BY DEF QueueOK
<1>2. queue'[a] = Tail(queue[a]) /\ \A b \in Accounts \ {a} : queue'[b] = queue[b]
      BY DEF QueueOK
<1>3. /\ Tail(queue[a]) \in Seq(Payloads) /\ Head(queue[a]) \in Payloads /\ Distinct(Tail(queue[a]))
      /\ MsgsOf(queue[a]) = MsgsOf(Tail(queue[a])) \cup {Head(queue[a]).msg}
      /\ Head(queue[a]).msg \notin MsgsOf(Tail(queue[a]))
      BY <1>1, OffHead
<1> QED
      BY <1>2, <1>3 DEF QueueOK, Listed, SameLists

LEMMA ListsKept ==
    ASSUME QueueOK, UNCHANGED queue
    PROVE  QueueOK' /\ SameLists(Accounts)
BY DEF QueueOK, SameLists, Listed

\* What a replica holds.
LEMMA Holds ==
    ASSUME RunInv, NEW w \in Workers
    PROVE  IF pc[w] \in Holding THEN /\ hand[w] # None /\ hand[w] \in Payloads /\ hand[w].msg \in Msgs
                                     /\ Carried(w) = {hand[w].msg} /\ source[w] \in Accounts
                                ELSE hand[w] = None /\ Carried(w) = {} /\ ~Knows(w)
BY NamesAssumption DEF RunInv, HandInv, Carried, Knows, Payloads, Holding

LEMMA ReturnFrees ==
    ASSUME RunInv, NEW w \in Workers, Return(w)
    PROVE  Carried(w)' = {} /\ ~Knows(w)' /\ SameHands(Workers \ {w})
BY DEF RunInv, RunOK, Return, Goto, Carried, Knows, SameHands

\* An error, outside the handling of lists: the payload, if there is one, is dropped.
LEMMA ErrorDrops ==
    ASSUME RunInv, NEW w \in Workers, handle_error(w), QueueOK,
           UNCHANGED <<queue, pushed, settled, ambiguous>>,
           \/ UNCHANGED delivered
           \/ pc[w] = "send" /\ Counted(delivered, hand[w].msg)
    PROVE  QueueOK' /\ Moves
<1>1. QueueOK' /\ SameLists(Accounts)
      BY ListsKept
<1>2. Carried(w)' = {} /\ ~Knows(w)' /\ SameHands(Workers \ {w})
      BY ReturnFrees DEF handle_error
<1>3. CASE pc[w] \in Holding
  <2>1. PICK m \in Msgs : hand[w] # None /\ m = hand[w].msg /\ Carried(w) = {m}
        BY <1>3, Holds
  <2>2. Over' = Over \cup {m}
        BY <2>1 DEF handle_error, Over
  <2>3. pc[w] = "send" => ~Knows(w)
        BY DEF Knows
  <2>4. Frees(w, m)
        BY <1>2, <2>1 DEF Frees
  <2>5. SameCounts \/ (~Knows(w) /\ Counted(delivered, m) /\ ambiguous' = ambiguous)
        BY <2>1, <2>3 DEF SameCounts, Counted
  <2>6. Ends(w, m)
        BY <1>1, <2>2, <2>4, <2>5 DEF Ends
  <2> QED
        BY <1>1, <2>6 DEF Moves
<1>4. CASE pc[w] \notin Holding
  <2>1. hand[w] = None /\ Carried(w) = {} /\ ~Knows(w)
        BY <1>4, Holds
  <2>2. Over' = Over /\ SameHands(Workers) /\ SameCounts
        BY <1>2, <1>4, <2>1 DEF handle_error, Over, SameHands, SameCounts, Holding
  <2> QED
        BY <1>1, <2>2 DEF Moves, Keeps
<1> QED
      BY <1>3, <1>4

\* A payload goes back to the list it was popped from, perhaps as its own retry.
LEMMA PayloadBack ==
    ASSUME RunInv, PlacesInv, NEW w \in Workers, Return(w), QueueOK,
           pc[w] \in {"requeue", "putBack", "backoff"},
           UNCHANGED <<pushed, settled, lost, delivered, ambiguous>>,
           NEW p \in Payloads, p.msg = hand[w].msg,
           \/ PutAtTail(w, p)
           \/ PutAtHead(w) /\ p = hand[w]
    PROVE  QueueOK' /\ Moves
<1>1. PICK a \in Accounts, m \in Msgs :
         a = source[w] /\ m = hand[w].msg /\ Carried(w) = {m} /\ hand[w] \in Payloads
      BY Holds DEF Holding
<1>2. m \notin Listed(a) /\ ~Knows(w)
      BY <1>1 DEF PlacesInv, Knows
<1>3. \/ queue' = [queue EXCEPT ![a] = Append(@, p)]
      \/ queue' = [queue EXCEPT ![a] = <<p>> \o @]
      BY <1>1 DEF PutAtTail, PutAtHead
<1>4. QueueOK' /\ Listed(a)' = Listed(a) \cup {m} /\ SameLists(Accounts \ {a})
  <2>1. p.msg \notin Listed(a) /\ p.msg = m
        BY <1>1, <1>2
  <2>2. QueueOK' /\ Listed(a)' = Listed(a) \cup {p.msg} /\ SameLists(Accounts \ {a})
        BY <1>3, <2>1, PutInList
  <2> QED
        BY <2>1, <2>2
<1>5. Carried(w)' = {} /\ ~Knows(w)' /\ SameHands(Workers \ {w})
      BY ReturnFrees
<1>6. GivesBack(w, a, m)
      BY <1>1, <1>2, <1>4, <1>5 DEF GivesBack, Frees, Over, SameCounts
<1> QED
      BY <1>4, <1>6 DEF Moves

\* Nothing moves, and no replica learns that it has delivered.
LEMMA NothingMoves ==
    ASSUME QueueOK, UNCHANGED <<queue, hand, pushed, settled, lost, delivered, ambiguous>>,
           \A v \in Workers : Knows(v)' <=> Knows(v)
    PROVE  QueueOK' /\ Moves
<1>1. QueueOK' /\ SameLists(Accounts)
      BY ListsKept
<1>2. SameHands(Workers) /\ Over' = Over /\ SameCounts
      BY DEF SameHands, Carried, Over, SameCounts
<1> QED
      BY <1>1, <1>2 DEF Moves, Keeps

\* Every step is one of the moves.
LEMMA MoveStep ==
    ASSUME RunInv, QueueOK, PlacesInv, PoolOK, [Next]_vars
    PROVE  QueueOK' /\ Moves
<1>1. ASSUME NEW w \in Workers,
             \/ check_kill_switch(w) \/ AccountPaused(w) \/ validate_payload(w)
             \/ check_campaign_paused(w)
      PROVE QueueOK' /\ Moves
  <2>1. /\ UNCHANGED <<queue, hand, outcome, pushed, settled, lost, delivered, ambiguous>>
        /\ pc[w] # "record" /\ pc'[w] # "record" /\ \A v \in Workers \ {w} : pc'[v] = pc[v]
        BY <1>1 DEF check_kill_switch, AccountPaused, validate_payload, check_campaign_paused, Goto,
                    RunInv, RunOK, redis, history
  <2> QED
        BY <2>1, NothingMoves DEF Knows
<1>2. ASSUME \/ \E s \in Operated : Toggle(s)
             \/ \E a \in Accounts : AccountStatusChanges(a)
             \/ \E w \in Workers : _refresh_account_ids(w)
             \/ UNCHANGED vars
      PROVE QueueOK' /\ Moves
  <2>1. UNCHANGED <<queue, hand, pc, outcome, pushed, settled, lost, delivered, ambiguous>>
        BY <1>2 DEF Toggle, AccountStatusChanges, _refresh_account_ids, vars, redis, run, history
  <2> QED
        BY <2>1, NothingMoves DEF Knows
<1>3. ASSUME NEW w \in Workers, LpopEmpty(w) PROVE QueueOK' /\ Moves
  <2>1. UNCHANGED <<queue, pushed, settled, lost, delivered, ambiguous>> /\ pc[w] = "scan"
        BY <1>3 DEF LpopEmpty, redis, history
  <2>2. CASE Return(w)
    <3>1. hand[w] = None /\ Carried(w) = {} /\ ~Knows(w)
          BY <2>1, Holds DEF Holding
    <3>2. SameHands(Workers) /\ SameLists(Accounts) /\ QueueOK'
          BY <2>1, <2>2, <3>1, ReturnFrees, ListsKept DEF SameHands
    <3> QED
          BY <2>1, <3>2 DEF Moves, Keeps, Over, SameCounts
  <2>3. CASE UNCHANGED <<pc, count, hand, source, outcome>>
        BY <2>1, <2>3, NothingMoves DEF Knows
  <2> QED
        BY <1>3, <2>2, <2>3 DEF LpopEmpty
<1>4. ASSUME NEW w \in Workers, NEW a \in Accounts, Lpop(w, a) PROVE QueueOK' /\ Moves
  <2>1. queue[a] # <<>> /\ queue' = [queue EXCEPT ![a] = Tail(@)]
        BY <1>4 DEF Lpop
  <2>2. PICK p \in Payloads, m \in Msgs : p = Head(queue[a]) /\ m = p.msg
        BY <2>1, TakeFromList DEF Payloads
  <2>3. /\ QueueOK' /\ Listed(a) = Listed(a)' \cup {m} /\ m \notin Listed(a)'
        /\ SameLists(Accounts \ {a})
        BY <2>1, <2>2, TakeFromList
  <2>4. Leaves(a, m) /\ Over' = Over
        BY <1>4, <2>3 DEF Leaves, Lpop, SameCounts, Over, history
  <2>5. /\ hand' = [hand EXCEPT ![w] = p] /\ p # None /\ pc' = [pc EXCEPT ![w] = "popped"]
        /\ outcome' = outcome
        BY <1>4, <2>2, NamesAssumption DEF Lpop, Goto, Payloads
  <2>6. Carried(w)' = {m} /\ ~Knows(w)' /\ SameHands(Workers \ {w})
        BY <2>2, <2>5 DEF Carried, Knows, SameHands, RunInv, RunOK
  <2>7. Carried(w) = {}
        BY <1>4, Holds DEF Lpop, Holding
  <2>8. Takes(w, a, m)
        BY <2>4, <2>6, <2>7 DEF Takes
  <2> QED
        BY <2>3, <2>8 DEF Moves
<1>5. ASSUME NEW w \in Workers,
             \/ ListShrank(w) \/ RejectPayload(w) \/ IntegrityError(w) \/ SendRaises(w) \/ DbFails(w)
             \/ Crash(w)
      PROVE QueueOK' /\ Moves
  <2>1. handle_error(w) /\ UNCHANGED <<queue, pushed, settled, ambiguous>>
        BY <1>5 DEF ListShrank, RejectPayload, IntegrityError, SendRaises, DbFails, Crash, redis
  <2>2. UNCHANGED delivered \/ (pc[w] = "send" /\ Counted(delivered, hand[w].msg))
        BY <1>5 DEF ListShrank, RejectPayload, IntegrityError, SendRaises, DbFails, Crash, Reaches,
                    Counted
  <2> QED
        BY <2>1, <2>2, ErrorDrops
<1>6. ASSUME NEW w \in Workers, Requeue(w) \/ PutBack(w) PROVE QueueOK' /\ Moves
  <2>1. /\ Return(w) /\ pc[w] \in {"requeue", "putBack", "backoff"}
        /\ UNCHANGED <<pushed, settled, lost, delivered, ambiguous>>
        /\ PutAtTail(w, hand[w]) \/ PutAtHead(w)
        BY <1>6 DEF Requeue, PutBack, history
  <2>2. PICK p \in Payloads : p = hand[w]
        BY <2>1, Holds DEF Holding
  <2> QED
        BY <2>1, <2>2, PayloadBack DEF PutAtTail, PutAtHead
<1>7. ASSUME NEW w \in Workers, _schedule_retry(w) PROVE QueueOK' /\ Moves
  <2>1. /\ Return(w) /\ pc[w] \in {"requeue", "putBack", "backoff"}
        /\ UNCHANGED <<pushed, settled, lost, delivered, ambiguous>>
        /\ PutAtTail(w, RetryPayload(w))
        BY <1>7 DEF _schedule_retry, history
  <2>2. PICK p \in Payloads : p = RetryPayload(w) /\ p.msg = hand[w].msg
        BY <2>1, Holds DEF Holding, RetryPayload, Payloads
  <2> QED
        BY <2>1, <2>2, PayloadBack DEF PutAtTail
<1>8. ASSUME NEW w \in Workers, RedisFails(w) PROVE QueueOK' /\ Moves
  <2>1. /\ UNCHANGED <<pushed, settled, delivered, ambiguous>> /\ Return(w)
        /\ pc[w] \in {"scan", "popped", "campaign", "requeue", "putBack", "backoff"}
        BY <1>8 DEF RedisFails, handle_error
  <2>2. CASE UNCHANGED queue /\ handle_error(w)
        BY <2>1, <2>2, ErrorDrops
  <2>3. CASE pc[w] = "scan" /\ \E a \in accountIds[w] :
                 /\ Index(w) < Cardinality(accountIds[w])
                 /\ a = Nth(accountIds[w], Index(w)) /\ queue[a] # <<>>
                 /\ queue' = [queue EXCEPT ![a] = Tail(@)]
                 /\ lost' = lost \cup {Head(queue[a]).msg}
    <3>1. PICK a \in Accounts : /\ queue[a] # <<>> /\ queue' = [queue EXCEPT ![a] = Tail(@)]
                                /\ lost' = lost \cup {Head(queue[a]).msg}
          BY <2>3 DEF PoolOK
    <3>2. PICK p \in Payloads, m \in Msgs : p = Head(queue[a]) /\ m = p.msg
          BY <3>1, TakeFromList DEF Payloads
    <3>3. /\ QueueOK' /\ Listed(a) = Listed(a)' \cup {m} /\ m \notin Listed(a)'
          /\ SameLists(Accounts \ {a})
          BY <3>1, <3>2, TakeFromList
    <3>4. Leaves(a, m) /\ Over' = Over \cup {m}
          BY <2>1, <3>1, <3>2, <3>3 DEF Leaves, SameCounts, Over
    <3>5. Carried(w) = {} /\ ~Knows(w)
          BY <2>3, Holds DEF Holding
    <3>6. SameHands(Workers)
          BY <2>1, <3>5, ReturnFrees DEF SameHands
    <3>7. Cuts(a, m)
          BY <3>4, <3>6 DEF Cuts
    <3> QED
          BY <3>3, <3>7 DEF Moves
  <2>4. CASE /\ \/ pc[w] = "requeue" /\ PutAtTail(w, hand[w])
                \/ pc[w] = "putBack" /\ PutAtHead(w)
                \/ pc[w] = "backoff" /\ PutAtTail(w, RetryPayload(w))
             /\ UNCHANGED lost
    <3>1. hand[w] \in Payloads /\ pc[w] \in {"requeue", "putBack", "backoff"}
          BY <2>4, Holds DEF Holding
    <3>2. RetryPayload(w) \in Payloads /\ RetryPayload(w).msg = hand[w].msg
          BY <3>1 DEF RetryPayload, Payloads
    <3>3. PICK p \in Payloads : /\ p.msg = hand[w].msg
                                /\ \/ PutAtTail(w, p)
                                   \/ PutAtHead(w) /\ p = hand[w]
          BY <2>4, <3>1, <3>2 DEF PutAtTail
    <3> QED
          BY <2>1, <2>4, <3>1, <3>3, PayloadBack
  <2> QED
        BY <1>8, <2>1, <2>2, <2>3, <2>4 DEF RedisFails
<1>9. ASSUME NEW w \in Workers, NEW result \in Outcomes, pc[w] = "send", Goto(w, "record"),
             outcome' = [outcome EXCEPT ![w] = result],
             UNCHANGED <<queue, hand, pushed, settled, lost>>,
             \/ /\ UNCHANGED <<delivered, ambiguous>> /\ result # "delivered"
             \/ /\ Counted(delivered, hand[w].msg) /\ UNCHANGED ambiguous /\ result = "delivered"
             \/ /\ Counted(delivered, hand[w].msg) /\ Counted(ambiguous, hand[w].msg)
                /\ result # "delivered"
      PROVE QueueOK' /\ Moves
  <2>1. PICK m \in Msgs : m = hand[w].msg /\ Carried(w) = {m}
        BY <1>9, Holds DEF Holding
  <2>2. /\ ~Knows(w) /\ (Knows(w)' <=> result = "delivered")
        /\ \A v \in Workers \ {w} : Knows(v)' <=> Knows(v)
        BY <1>9 DEF Knows, Goto, RunInv, RunOK
  <2>3. /\ Carried(w)' = {m} /\ SameHands(Workers \ {w}) /\ QueueOK' /\ SameLists(Accounts)
        /\ Over' = Over /\ pushed' = pushed
        BY <1>9, <2>1, <2>2, ListsKept DEF Carried, SameHands, Over
  <2>4. CASE UNCHANGED <<delivered, ambiguous>> /\ result # "delivered"
        BY <1>9, <2>2, <2>4, NothingMoves
  <2>5. CASE Counted(delivered, hand[w].msg) /\ UNCHANGED ambiguous /\ result = "delivered"
    <3>1. Sends(w, m)
          BY <2>1, <2>2, <2>3, <2>5 DEF Sends, Delivers, Counted
    <3> QED
          BY <2>3, <3>1 DEF Moves
  <2>6. CASE Counted(delivered, hand[w].msg) /\ Counted(ambiguous, hand[w].msg) /\ result # "delivered"
    <3>1. Doubts(w, m)
          BY <2>1, <2>2, <2>3, <2>6 DEF Doubts, Delivers, Counted
    <3> QED
          BY <2>3, <3>1 DEF Moves
  <2> QED
        BY <1>9, <2>4, <2>5, <2>6
<1>10. ASSUME NEW w \in Workers, NEW result \in Outcomes, send_message(w, result)
       PROVE QueueOK' /\ Moves
       BY <1>9, <1>10 DEF send_message, Reaches, Counted, redis
<1>11. ASSUME NEW w \in Workers, SendTimesOut(w) PROVE QueueOK' /\ Moves
  <2> DEFINE result == "failed_retryable"
  <2>1. result \in Outcomes /\ result # "delivered"
        BY DEF Outcomes
  <2>2. /\ pc[w] = "send" /\ Goto(w, "record") /\ outcome' = [outcome EXCEPT ![w] = result]
        /\ UNCHANGED <<queue, hand, pushed, settled, lost>>
        /\ Counted(delivered, hand[w].msg) /\ Counted(ambiguous, hand[w].msg)
        BY <1>11 DEF SendTimesOut, Reaches, Counted, redis
  <2> QED
        BY <1>9, <2>1, <2>2
<1>12. ASSUME NEW w \in Workers, handle_result(w) PROVE QueueOK' /\ Moves
  <2>1. UNCHANGED <<queue, pushed, lost, delivered, ambiguous>> /\ pc[w] = "record"
        BY <1>12 DEF handle_result, redis
  <2>2. CASE /\ should_schedule_retry(w) /\ Goto(w, "backoff")
             /\ UNCHANGED <<count, scan, hand, source, outcome, settled>>
    <3>1. \A v \in Workers : Knows(v)' <=> Knows(v)
          BY <2>1, <2>2 DEF should_schedule_retry, Goto, Knows, RunInv, RunOK
    <3> QED
          BY <2>1, <2>2, <3>1, NothingMoves
  <2>3. CASE Return(w) /\ settled' = settled \cup {hand[w].msg}
    <3>1. PICK m \in Msgs : m = hand[w].msg /\ Carried(w) = {m}
          BY <2>1, Holds DEF Holding
    <3>2. QueueOK' /\ SameLists(Accounts) /\ SameCounts
          BY <2>1, ListsKept DEF SameCounts
    <3>3. Frees(w, m)
          BY <2>1, <2>3, <3>1, ReturnFrees DEF Frees
    <3>4. Ends(w, m)
          BY <2>1, <2>3, <3>1, <3>2, <3>3 DEF Ends, Over
    <3> QED
          BY <3>2, <3>4 DEF Moves
  <2> QED
        BY <1>12, <2>2, <2>3 DEF handle_result
<1>13. ASSUME NEW m \in Msgs, NEW a \in Accounts, BridgePush(m, a) PROVE QueueOK' /\ Moves
  <2> DEFINE p == [msg |-> m, attempt |-> 1]
  <2>1. p \in Payloads /\ p.msg = m /\ m \notin pushed /\ pushed' = pushed \cup {m}
        BY <1>13 DEF BridgePush, Payloads
  <2>2. p.msg \notin Listed(a)
        BY <2>1 DEF PlacesInv
  <2>3. queue' = [queue EXCEPT ![a] = Append(@, p)]
        BY <1>13 DEF BridgePush
  <2> HIDE DEF p
  <2>4. QueueOK' /\ Listed(a)' = Listed(a) \cup {p.msg} /\ SameLists(Accounts \ {a})
        BY <2>1, <2>2, <2>3, PutInList
  <2>5. SameHands(Workers) /\ Over' = Over /\ SameCounts
        BY <1>13 DEF BridgePush, SameHands, Carried, Knows, Over, SameCounts, run
  <2>6. Comes(a, m)
        BY <2>1, <2>4, <2>5 DEF Comes
  <2> QED
        BY <2>4, <2>6 DEF Moves
<1> QED
      BY <1>1, <1>2, <1>3, <1>4, <1>5, <1>6, <1>7, <1>8, <1>10, <1>11, <1>12, <1>13
      DEF Next, run_once, Fail

---------------------------------------------------------------------------
(* The moves keep the places and the counts.                               *)

CountsOK == delivered \in [Msgs -> Nat] /\ ambiguous \in [Msgs -> Nat]

LEMMA CarriedAreMsgs ==
    ASSUME RunOK, NEW w \in Workers
    PROVE  Carried(w) \subseteq Msgs
BY DEF RunOK, Carried, Payloads

LEMMA MovesKeepPlaces ==
    ASSUME PlacesInv, Moves, QueueOK'
    PROVE  PlacesInv'
<1> USE DEF PlacesInv, SameLists, SameHands
<1>1. \A a \in Accounts : Distinct(queue[a])'
      BY DEF QueueOK
<1>2. CASE Keeps
      BY <1>1, <1>2 DEF Keeps
<1>3. ASSUME NEW a \in Accounts, NEW m \in Msgs, Comes(a, m) PROVE PlacesInv'
      BY <1>1, <1>3 DEF Comes
<1>4. ASSUME NEW a \in Accounts, NEW m \in Msgs, Cuts(a, m) PROVE PlacesInv'
      BY <1>1, <1>4 DEF Cuts, Leaves
<1>5. ASSUME NEW w \in Workers, NEW a \in Accounts, NEW m \in Msgs, Takes(w, a, m) PROVE PlacesInv'
      BY <1>1, <1>5 DEF Takes, Leaves
<1>6. ASSUME NEW w \in Workers, NEW a \in Accounts, NEW m \in Msgs, GivesBack(w, a, m)
      PROVE PlacesInv'
      BY <1>1, <1>6 DEF GivesBack, Frees
<1>7. ASSUME NEW w \in Workers, NEW m \in Msgs, Ends(w, m) PROVE PlacesInv'
      BY <1>1, <1>7 DEF Ends, Frees
<1>8. ASSUME NEW w \in Workers, NEW m \in Msgs, Sends(w, m) \/ Doubts(w, m) PROVE PlacesInv'
      BY <1>1, <1>8 DEF Sends, Doubts, Delivers
<1> QED
      BY <1>2, <1>3, <1>4, <1>5, <1>6, <1>7, <1>8 DEF Moves

LEMMA MovesKeepPushed ==
    ASSUME PushedInv, Moves
    PROVE  PushedInv'
<1> USE DEF PushedInv, SameLists, SameHands
<1>1. CASE Keeps
      BY <1>1 DEF Keeps
<1>2. ASSUME NEW a \in Accounts, NEW m \in Msgs, Comes(a, m) PROVE PushedInv'
      BY <1>2 DEF Comes
<1>3. ASSUME NEW a \in Accounts, NEW m \in Msgs, Cuts(a, m) PROVE PushedInv'
      BY <1>3 DEF Cuts, Leaves
<1>4. ASSUME NEW w \in Workers, NEW a \in Accounts, NEW m \in Msgs, Takes(w, a, m) PROVE PushedInv'
      BY <1>4 DEF Takes, Leaves
<1>5. ASSUME NEW w \in Workers, NEW a \in Accounts, NEW m \in Msgs, GivesBack(w, a, m)
      PROVE PushedInv'
      BY <1>5 DEF GivesBack, Frees
<1>6. ASSUME NEW w \in Workers, NEW m \in Msgs, Ends(w, m) PROVE PushedInv'
      BY <1>6 DEF Ends, Frees
<1>7. ASSUME NEW w \in Workers, NEW m \in Msgs, Sends(w, m) \/ Doubts(w, m) PROVE PushedInv'
      BY <1>7 DEF Sends, Doubts, Delivers
<1> QED
      BY <1>1, <1>2, <1>3, <1>4, <1>5, <1>6, <1>7 DEF Moves

LEMMA MovesKeepCounts ==
    ASSUME RunOK, PlacesInv, CopiesInv, CountsOK, Moves
    PROVE  CopiesInv' /\ CountsOK'
<1> USE DEF CopiesInv, PlacesInv, CountsOK, SameLists, SameHands, SameCounts, Counted
<1>1. CASE Keeps
      BY <1>1 DEF Keeps
<1>2. ASSUME NEW a \in Accounts, NEW m \in Msgs, Comes(a, m) PROVE CopiesInv' /\ CountsOK'
      BY <1>2 DEF Comes
<1>3. ASSUME NEW a \in Accounts, NEW m \in Msgs, Cuts(a, m) PROVE CopiesInv' /\ CountsOK'
      BY <1>3 DEF Cuts, Leaves
<1>4. ASSUME NEW w \in Workers, NEW a \in Accounts, NEW m \in Msgs, Takes(w, a, m)
      PROVE CopiesInv' /\ CountsOK'
      BY <1>4 DEF Takes, Leaves
<1>5. ASSUME NEW w \in Workers, NEW a \in Accounts, NEW m \in Msgs, GivesBack(w, a, m)
      PROVE CopiesInv' /\ CountsOK'
      BY <1>5 DEF GivesBack, Frees
<1>6. ASSUME NEW w \in Workers, NEW m \in Msgs, Ends(w, m) PROVE CopiesInv' /\ CountsOK'
  <2>1. /\ CountsOK' /\ Over' = Over \cup {m}
        /\ \A n \in Msgs \ {m} : delivered'[n] = delivered[n] /\ ambiguous'[n] = ambiguous[n]
        BY <1>6 DEF Ends
  <2>2. /\ Carried(w) = {m} /\ Carried(w)' = {} /\ ~Knows(w)'
        /\ \A v \in Workers \ {w} : /\ Carried(v)' = Carried(v) /\ m \notin Carried(v)
                                    /\ Knows(v)' <=> Knows(v)
        BY <1>6 DEF Ends, Frees
  <2>3. \A v \in Workers : Carried(v) \subseteq Msgs
        BY CarriedAreMsgs
  <2>4. ASSUME NEW n \in Msgs \ Over', \A v \in Workers : n \in Carried(v)' => ~Knows(v)'
        PROVE  delivered'[n] = ambiguous'[n]
        BY <2>1, <2>2, <2>4
  <2>5. ASSUME NEW v \in Workers, Knows(v)', NEW n \in Carried(v)'
        PROVE  delivered'[n] = ambiguous'[n] + 1
    <3>1. v # w
          BY <2>2, <2>5
    <3>2. Carried(v)' = Carried(v) /\ m \notin Carried(v) /\ Knows(v)
          BY <2>2, <2>5, <3>1
    <3>3. n \in Msgs \ {m} /\ delivered[n] = ambiguous[n] + 1
          BY <2>3, <3>2
    <3> QED
          BY <2>1, <3>3
  <2> QED
        BY <2>1, <2>4, <2>5
<1>7. ASSUME NEW w \in Workers, NEW m \in Msgs, Sends(w, m) PROVE CopiesInv' /\ CountsOK'
      BY <1>7 DEF Sends, Delivers
<1>8. ASSUME NEW w \in Workers, NEW m \in Msgs, Doubts(w, m) PROVE CopiesInv' /\ CountsOK'
      BY <1>8 DEF Doubts, Delivers
<1> QED
      BY <1>1, <1>2, <1>3, <1>4, <1>5, <1>6, <1>7, <1>8 DEF Moves

---------------------------------------------------------------------------
(* What was recorded.                                                      *)

DbOK ==
    /\ DOMAIN messages \subseteq Nat /\ \A id \in DOMAIN messages : messages[id] \in Msgs
    /\ nextId \in Nat
    /\ sendStatus \in [Msgs -> Outcomes \cup {"pending"}]
    /\ finalId \in [Msgs -> Nat \cup {None}]
    /\ attempts \subseteq Msgs \X Nat

\* Only handle_result writes the outcome of a message, and it is the replica's result.
LEMMA DbStep ==
    ASSUME RunInv, DbOK, [Next]_vars
    PROVE  /\ DbOK'
           /\ \/ sendStatus' = sendStatus
              \/ \E w \in Workers, m \in Msgs :
                    /\ handle_result(w) /\ m = hand[w].msg
                    /\ sendStatus' = [sendStatus EXCEPT ![m] = outcome[w]]
<1> USE DEF DbOK
<1>1. CASE UNCHANGED db
      BY <1>1 DEF db
<1>2. ASSUME NEW w \in Workers, IntegrityError(w) PROVE DbOK' /\ sendStatus' = sendStatus
      BY <1>2 DEF IntegrityError
<1>3. ASSUME NEW w \in Workers, handle_result(w)
      PROVE  /\ DbOK'
             /\ \E m \in Msgs : /\ m = hand[w].msg
                                /\ sendStatus' = [sendStatus EXCEPT ![m] = outcome[w]]
  <2>1. /\ pc[w] = "record" /\ outcome[w] \in Outcomes
        /\ Persist(hand[w].msg, hand[w].attempt, outcome[w])
        BY <1>3 DEF handle_result, RunInv, ResultInv
  <2>2. PICK m \in Msgs, n \in Nat : m = hand[w].msg /\ n = hand[w].attempt
        BY <2>1, Holds DEF Holding, Payloads
  <2>3. /\ sendStatus' = [sendStatus EXCEPT ![m] = outcome[w]]
        /\ \/ finalId' = [finalId EXCEPT ![m] = m] /\ UNCHANGED <<messages, nextId>>
           \/ /\ finalId' = [finalId EXCEPT ![m] = nextId]
              /\ messages' = [id \in DOMAIN messages \cup {nextId} |->
                                IF id = nextId THEN m ELSE messages[id]]
              /\ nextId' = nextId + 1
        /\ attempts' = attempts \cup {<<m, n>>} \/ attempts' = attempts
        BY <2>1, <2>2 DEF Persist
  <2>4. m \in Nat
        BY IdsAssumption
  <2>5. DbOK'
        BY <2>1, <2>2, <2>3, <2>4
  <2> QED
        BY <2>2, <2>3, <2>5
<1>4. ASSUME NEW w \in Workers,
             \/ check_kill_switch(w) \/ ListShrank(w) \/ LpopEmpty(w) \/ AccountPaused(w)
             \/ validate_payload(w) \/ RejectPayload(w) \/ check_campaign_paused(w) \/ Requeue(w)
             \/ PutBack(w) \/ _schedule_retry(w) \/ SendTimesOut(w) \/ SendRaises(w) \/ DbFails(w)
             \/ RedisFails(w) \/ Crash(w) \/ _refresh_account_ids(w)
             \/ \E result \in Outcomes : send_message(w, result)
             \/ \E a \in Accounts : Lpop(w, a)
      PROVE UNCHANGED db
      BY <1>4 DEF check_kill_switch, ListShrank, LpopEmpty, AccountPaused, validate_payload,
                  RejectPayload, check_campaign_paused, Requeue, PutBack, _schedule_retry,
                  SendTimesOut, SendRaises, DbFails, RedisFails, Crash, _refresh_account_ids,
                  send_message, Lpop
<1>5. ASSUME \/ \E m \in Msgs, a \in Accounts : BridgePush(m, a)
             \/ \E s \in Operated : Toggle(s)
             \/ \E a \in Accounts : AccountStatusChanges(a)
             \/ UNCHANGED vars
      PROVE UNCHANGED db
      BY <1>5 DEF BridgePush, Toggle, AccountStatusChanges, vars
<1>6. CASE \E w \in Workers : handle_result(w)
      BY <1>3, <1>6
<1> QED
      BY <1>1, <1>2, <1>4, <1>5, <1>6 DEF Next, run_once, Fail

\* A message that is over stays so, and is not delivered again.
LEMMA MovesGrow ==
    ASSUME PlacesInv, CountsOK, Moves, NEW m \in Msgs
    PROVE  /\ delivered'[m] >= delivered[m]
           /\ m \in Over => m \in Over' /\ delivered'[m] = delivered[m]
<1> USE DEF PlacesInv, CountsOK, SameCounts, Counted
<1>1. CASE Keeps
      BY <1>1 DEF Keeps
<1>2. CASE \E a \in Accounts, n \in Msgs : Comes(a, n) \/ Cuts(a, n)
      BY <1>2 DEF Comes, Cuts, Leaves
<1>3. CASE \E w \in Workers, a \in Accounts, n \in Msgs : Takes(w, a, n) \/ GivesBack(w, a, n)
      BY <1>3 DEF Takes, Leaves, GivesBack
<1>4. ASSUME NEW w \in Workers, NEW n \in Msgs, Ends(w, n) \/ Sends(w, n) \/ Doubts(w, n)
      PROVE  /\ delivered'[m] >= delivered[m]
             /\ m \in Over => m \in Over' /\ delivered'[m] = delivered[m]
  <2>1. /\ Carried(w) = {n} /\ Over \subseteq Over'
        /\ delivered' = delivered \/ delivered' = [delivered EXCEPT ![n] = @ + 1]
        BY <1>4 DEF Ends, Frees, Sends, Doubts, Delivers
  <2>2. m \in Over => m # n
        BY <2>1
  <2> QED
        BY <2>1, <2>2
<1> QED
      BY <1>1, <1>2, <1>3, <1>4 DEF Moves

LEMMA ReportStep ==
    ASSUME RunInv, PlacesInv, CopiesInv, CountsOK, DbOK, ReportInv, Moves, [Next]_vars
    PROVE  ReportInv'
<1>1. CASE sendStatus' = sendStatus
      BY <1>1, MovesGrow DEF ReportInv, CountsOK
<1>2. ASSUME NEW w \in Workers, handle_result(w), NEW m \in Msgs, m = hand[w].msg,
             sendStatus' = [sendStatus EXCEPT ![m] = outcome[w]]
      PROVE  ReportInv'
  <2>1. Carried(w) = {m} /\ delivered' = delivered
        BY <1>2, Holds DEF handle_result, Holding
  <2>2. ASSUME outcome[w] = "delivered"
        PROVE  delivered[m] > 0 /\ m \in Over'
    <3>1. Knows(w) /\ ~should_schedule_retry(w)
          BY <1>2, <2>2 DEF Knows, should_schedule_retry, handle_result
    <3>2. delivered[m] = ambiguous[m] + 1
          BY <2>1, <3>1 DEF CopiesInv
    <3> QED
          BY <1>2, <3>1, <3>2 DEF handle_result, Over, CountsOK
  <2>3. ASSUME NEW n \in Msgs \ {m} PROVE sendStatus'[n] = sendStatus[n]
        BY <1>2 DEF DbOK
  <2>4. sendStatus'[m] = outcome[w]
        BY <1>2 DEF DbOK
  <2> QED
        BY <2>1, <2>2, <2>3, <2>4, MovesGrow DEF ReportInv
<1> QED
      BY <1>1, <1>2, DbStep

---------------------------------------------------------------------------
(* The switches.                                                           *)

SwitchesOK ==
    /\ on \subseteq Switches /\ active \subseteq Accounts /\ faults \in Nat
    /\ lateSends \subseteq Workers \X Switches

\* Only a delivery adds to the late sends, and only switches that are on.
LateBy(w) ==
    lateSends' = lateSends \/ (pc[w] = "send" /\ lateSends' = lateSends \cup ({w} \X SwitchesOver(w)))
OthersRun(w) ==
    \A v \in Workers \ {w} : pc'[v] = pc[v] /\ hand'[v] = hand[v] /\ source'[v] = source[v]

\* A replica that is done, or has sent, has passed every switch it was late for.
LEMMA PassedSwitches ==
    ASSUME LateInv, RunOK, NEW w \in Workers, OthersRun(w), LateBy(w), on' = on,
           \/ pc'[w] = "idle"
           \/ pc'[w] \in {"record", "backoff"}
           \/ pc'[w] = pc[w] /\ hand'[w] = hand[w] /\ source'[w] = source[w] /\ lateSends' = lateSends
    PROVE  LateInv'
<1> SUFFICES ASSUME NEW v \in Workers, NEW s \in Switches, <<v, s>> \in lateSends'
             PROVE  /\ s \in on
                    /\ s = Kill => pc'[v] \in {"idle", "record", "backoff"}
                    /\ s = source'[v] => pc'[v] \notin {"campaign", "putBack", "send"}
                    /\ pc'[v] = "send" => s # CampaignOf[hand'[v].msg]
    BY DEF LateInv
<1>1. CASE v # w
  <2>1. <<v, s>> \in lateSends
        BY <1>1 DEF LateBy
  <2> QED
        BY <1>1, <2>1 DEF LateInv, OthersRun
<1>2. CASE v = w
  <2>1. s \in on
        BY <1>2 DEF LateBy, SwitchesOver, LateInv
  <2> QED
        BY <1>2, <2>1 DEF LateInv
<1> QED
    BY <1>1, <1>2

LEMMA SwitchStep ==
    ASSUME RunInv, SwitchesOK, [Next]_vars
    PROVE  SwitchesOK'
<1> USE DEF SwitchesOK
<1>1. ASSUME NEW w \in Workers, run_once(w) \/ Fail(w) \/ _refresh_account_ids(w)
      PROVE  LateBy(w) /\ on' = on /\ active' = active /\ (faults' = faults \/ Fault)
  <2>1. ASSUME \/ check_kill_switch(w) \/ ListShrank(w) \/ LpopEmpty(w) \/ AccountPaused(w)
               \/ validate_payload(w) \/ RejectPayload(w) \/ check_campaign_paused(w) \/ Requeue(w)
               \/ PutBack(w) \/ handle_result(w) \/ IntegrityError(w) \/ _schedule_retry(w)
               \/ DbFails(w) \/ RedisFails(w) \/ Crash(w) \/ _refresh_account_ids(w)
               \/ \E a \in Accounts : Lpop(w, a)
        PROVE UNCHANGED <<lateSends, on, active>> /\ (faults' = faults \/ Fault)
        BY <2>1 DEF check_kill_switch, ListShrank, LpopEmpty, AccountPaused, validate_payload,
                    RejectPayload, check_campaign_paused, Requeue, PutBack, handle_result,
                    IntegrityError, _schedule_retry, DbFails, RedisFails, Crash, Lpop,
                    _refresh_account_ids, redis, history
  <2>2. ASSUME \/ SendTimesOut(w) \/ SendRaises(w)
               \/ \E result \in Outcomes : send_message(w, result)
        PROVE LateBy(w) /\ UNCHANGED <<on, active>> /\ (faults' = faults \/ Fault)
        BY <2>2 DEF SendTimesOut, SendRaises, send_message, Reaches, LateBy, redis
  <2> QED
        BY <1>1, <2>1, <2>2 DEF run_once, Fail, LateBy
<1>2. ASSUME NEW w \in Workers, LateBy(w), on' = on, active' = active, faults' = faults \/ Fault
      PROVE  SwitchesOK'
      BY <1>2 DEF LateBy, SwitchesOver, Fault
<1>3. ASSUME NEW s \in Operated, Toggle(s) PROVE SwitchesOK'
      BY <1>3, ConfigAssumption DEF Toggle
<1>4. ASSUME NEW a \in Accounts, AccountStatusChanges(a) PROVE SwitchesOK'
      BY <1>4 DEF AccountStatusChanges, redis, history
<1>5. ASSUME NEW m \in Msgs, NEW a \in Accounts, BridgePush(m, a) PROVE SwitchesOK'
      BY <1>5 DEF BridgePush
<1>6. CASE UNCHANGED vars
      BY <1>6 DEF vars, redis, history
<1> QED
      BY <1>1, <1>2, <1>3, <1>4, <1>5, <1>6 DEF Next

LEMMA LateStep ==
    ASSUME RunInv, SwitchesOK, LateInv, [Next]_vars
    PROVE  LateInv'
<1>1. ASSUME NEW w \in Workers,
             \/ ListShrank(w) \/ RejectPayload(w) \/ Requeue(w) \/ PutBack(w) \/ IntegrityError(w)
             \/ _schedule_retry(w) \/ SendRaises(w) \/ DbFails(w) \/ RedisFails(w) \/ Crash(w)
      PROVE LateInv'
  <2>1. Return(w) /\ LateBy(w) /\ on' = on
        BY <1>1 DEF ListShrank, RejectPayload, Requeue, PutBack, IntegrityError, _schedule_retry,
                    SendRaises, DbFails, RedisFails, Crash, handle_error, LateBy, Reaches, redis, history
  <2>2. OthersRun(w) /\ pc'[w] = "idle"
        BY <2>1 DEF Return, Goto, OthersRun, RunInv, RunOK
  <2> QED
        BY <2>1, <2>2, PassedSwitches DEF RunInv
<1>2. ASSUME NEW w \in Workers, LpopEmpty(w) PROVE LateInv'
  <2>1. LateBy(w) /\ on' = on /\ lateSends' = lateSends
        BY <1>2 DEF LpopEmpty, LateBy, redis, history
  <2>2. CASE Return(w)
    <3>1. OthersRun(w) /\ pc'[w] = "idle"
          BY <2>2 DEF Return, Goto, OthersRun, RunInv, RunOK
    <3> QED
          BY <2>1, <3>1, PassedSwitches DEF RunInv
  <2>3. CASE UNCHANGED <<pc, count, hand, source, outcome>>
        BY <2>1, <2>3, PassedSwitches DEF OthersRun, RunInv
  <2> QED
        BY <1>2, <2>2, <2>3 DEF LpopEmpty
<1>3. ASSUME NEW w \in Workers,
             SendTimesOut(w) \/ \E result \in Outcomes : send_message(w, result)
      PROVE LateInv'
  <2>1. LateBy(w) /\ on' = on /\ pc[w] = "send" /\ Goto(w, "record") /\ UNCHANGED <<hand, source>>
        BY <1>3 DEF SendTimesOut, send_message, Reaches, LateBy, redis
  <2>2. OthersRun(w) /\ pc'[w] = "record"
        BY <2>1 DEF Goto, OthersRun, RunInv, RunOK
  <2> QED
        BY <2>1, <2>2, PassedSwitches DEF RunInv
<1>4. ASSUME NEW w \in Workers, handle_result(w) PROVE LateInv'
  <2>1. LateBy(w) /\ on' = on
        BY <1>4 DEF handle_result, LateBy, redis
  <2>2. OthersRun(w) /\ pc'[w] \in {"idle", "backoff"}
        BY <1>4 DEF handle_result, Return, Goto, OthersRun, RunInv, RunOK
  <2> QED
        BY <2>1, <2>2, PassedSwitches DEF RunInv
<1>5. ASSUME NEW w \in Workers,
             \/ check_kill_switch(w) \/ AccountPaused(w) \/ validate_payload(w)
             \/ check_campaign_paused(w)
      PROVE LateInv'
  <2>1. UNCHANGED <<on, lateSends, hand, source>> /\ \A v \in Workers \ {w} : pc'[v] = pc[v]
        BY <1>5 DEF check_kill_switch, AccountPaused, validate_payload, check_campaign_paused, Goto,
                    redis, history, RunInv, RunOK
  <2>2. \/ pc[w] = "idle" /\ Kill \notin on /\ pc'[w] = "scan"
        \/ pc[w] = "popped" /\ pc'[w] = "requeue"
        \/ pc[w] = "popped" /\ source[w] \notin on /\ pc'[w] = "campaign"
        \/ pc[w] = "campaign" /\ pc'[w] = "putBack"
        \/ pc[w] = "campaign" /\ CampaignOf[hand[w].msg] \notin on /\ pc'[w] = "send"
        BY <1>5 DEF check_kill_switch, AccountPaused, validate_payload, check_campaign_paused, Goto,
                    RunInv, RunOK
  <2>3. ASSUME NEW s \in Switches, <<w, s>> \in lateSends
        PROVE  /\ s \in on
               /\ s = Kill => pc'[w] \in {"idle", "record", "backoff"}
               /\ s = source[w] => pc'[w] \notin {"campaign", "putBack", "send"}
               /\ pc'[w] = "send" => s # CampaignOf[hand[w].msg]
        BY <2>2, <2>3 DEF LateInv
  <2> QED
        BY <2>1, <2>3 DEF LateInv
<1>6. ASSUME NEW w \in Workers, NEW a \in Accounts, Lpop(w, a) PROVE LateInv'
  <2>1. /\ UNCHANGED <<on, lateSends>> /\ pc[w] = "scan" /\ pc'[w] = "popped"
        /\ \A v \in Workers \ {w} : pc'[v] = pc[v] /\ hand'[v] = hand[v] /\ source'[v] = source[v]
        BY <1>6 DEF Lpop, Goto, history, RunInv, RunOK
  <2> QED
        BY <2>1 DEF LateInv
<1>7. ASSUME NEW s \in Operated, Toggle(s) PROVE LateInv'
  <2>1. /\ UNCHANGED <<pc, hand, source>> /\ on' = (on \ {s}) \cup ({s} \ on)
        /\ lateSends' = lateSends \ (Workers \X {s})
        BY <1>7 DEF Toggle, run
  <2> QED
        BY <2>1 DEF LateInv
<1>8. ASSUME \/ \E m \in Msgs, a \in Accounts : BridgePush(m, a)
             \/ \E a \in Accounts : AccountStatusChanges(a)
             \/ \E w \in Workers : _refresh_account_ids(w)
             \/ UNCHANGED vars
      PROVE LateInv'
  <2>1. UNCHANGED <<on, lateSends, pc, hand, source>>
        BY <1>8 DEF BridgePush, AccountStatusChanges, _refresh_account_ids, vars, redis, run, history
  <2> QED
        BY <2>1 DEF LateInv
<1> QED
      BY <1>1, <1>2, <1>3, <1>4, <1>5, <1>6, <1>7, <1>8 DEF Next, run_once, Fail

---------------------------------------------------------------------------
(* The theorems.                                                           *)

LEMMA TypesAre ==
    TypeOK <=> /\ RunOK /\ PoolOK /\ DbOK /\ SwitchesOK /\ CountsOK
               /\ queue \in [Accounts -> Seq(Payloads)]
               /\ pushed \subseteq Msgs /\ settled \subseteq Msgs /\ lost \subseteq Msgs
BY DEF TypeOK, RunOK, PoolOK, DbOK, SwitchesOK, CountsOK

\* The moves add messages to the pushed and finished ones.
LEMMA MovesKeepMsgs ==
    ASSUME pushed \subseteq Msgs, Over \subseteq Msgs, Moves
    PROVE  pushed' \subseteq Msgs /\ Over' \subseteq Msgs
BY DEF Moves, Keeps, Comes, Cuts, Leaves, Takes, GivesBack, Frees, Ends, Sends, Doubts, Delivers

LEMMA InitInv == Init => IInv
<1> SUFFICES ASSUME Init PROVE IInv
    OBVIOUS
<1>1. \A w \in Workers : Shard(w, Configured) # {} /\ Shard(w, Configured) \subseteq Accounts
      BY PoolAssumption, IdsAssumption DEF Shard
<1>2. RunOK /\ PoolOK /\ SwitchesOK /\ CountsOK
      BY <1>1 DEF Init, RunOK, PoolOK, SwitchesOK, CountsOK
<1>3. DbOK
      BY DEF Init, DbOK
<1>4. TypeOK
      BY <1>2, <1>3, TypesAre DEF Init
<1>5. \A a \in Accounts : Len(queue[a]) = 0
      BY DEF Init
<1>6. \A a \in Accounts : Listed(a) = {} /\ Distinct(queue[a])
      BY <1>5 DEF Listed, MsgsOf, Distinct
<1>7. /\ \A w \in Workers : Carried(w) = {} /\ ~Knows(w)
      /\ Over = {}
      BY DEF Init, Carried, Knows, Over
<1>8. HandInv /\ ResultInv /\ AccountsInv
      BY <1>1 DEF Init, HandInv, ResultInv, AccountsInv, Holding
<1>9. PlacesInv /\ PushedInv
      BY <1>6, <1>7 DEF PlacesInv, PushedInv, Init
<1>10. CopiesInv /\ ReportInv /\ LateInv
      BY <1>7 DEF CopiesInv, ReportInv, LateInv, Init
<1> QED
      BY <1>4, <1>8, <1>9, <1>10 DEF IInv

\* What a step does in a state of the invariant.
LEMMA Parts ==
    ASSUME IInv
    PROVE  /\ TypeOK /\ RunInv /\ PoolOK /\ QueueOK /\ DbOK /\ SwitchesOK /\ CountsOK
           /\ AccountsInv /\ PlacesInv /\ PushedInv /\ CopiesInv /\ ReportInv /\ LateInv
<1>1. TypeOK /\ HandInv /\ ResultInv /\ PlacesInv
      BY DEF IInv
<1> QED
      BY <1>1, TypesAre DEF IInv, RunInv, QueueOK, PlacesInv

LEMMA StepMoves ==
    ASSUME IInv, [Next]_vars
    PROVE  QueueOK' /\ Moves
BY Parts, MoveStep

LEMMA StepInv == IInv /\ [Next]_vars => IInv'
<1> SUFFICES ASSUME IInv, [Next]_vars PROVE IInv'
    OBVIOUS
<1>1. /\ TypeOK /\ RunInv /\ PoolOK /\ QueueOK /\ DbOK /\ SwitchesOK /\ CountsOK
      /\ AccountsInv /\ PlacesInv /\ PushedInv /\ CopiesInv /\ ReportInv /\ LateInv
      BY Parts
<1>2. QueueOK' /\ Moves
      BY StepMoves
<1>3. RunInv' /\ PoolOK' /\ AccountsInv'
      BY <1>1, RunStep, PoolStep
<1>4. DbOK' /\ SwitchesOK' /\ LateInv'
      BY <1>1, DbStep, SwitchStep, LateStep
<1>5. PlacesInv' /\ PushedInv' /\ CopiesInv' /\ CountsOK'
      BY <1>1, <1>2, MovesKeepPlaces, MovesKeepPushed, MovesKeepCounts DEF RunInv
<1>6. ReportInv'
      BY <1>1, <1>2, ReportStep
<1>7. pushed' \subseteq Msgs /\ settled' \subseteq Msgs /\ lost' \subseteq Msgs
  <2>1. pushed \subseteq Msgs /\ Over \subseteq Msgs
        BY <1>1, TypesAre DEF Over
  <2> QED
        BY <1>2, <2>1, MovesKeepMsgs DEF Over
<1>8. TypeOK'
  <2>1. RunOK' /\ queue' \in [Accounts -> Seq(Payloads)]
        BY <1>2, <1>3 DEF RunInv, QueueOK
  <2> QED
        BY <1>3, <1>4, <1>5, <1>7, <2>1 DEF TypeOK, RunOK, PoolOK, DbOK, SwitchesOK, CountsOK
<1> QED
      BY <1>3, <1>4, <1>5, <1>6, <1>8 DEF IInv, RunInv

LEMMA Invariance == Spec => []IInv
BY InitInv, StepInv, PTL DEF Spec

\* The pool's state stays well typed (multi_account_worker.py, workers/db.py).
THEOREM TypeCorrect == Spec => []TypeOK
<1>1. IInv => TypeOK
      BY DEF IInv
<1> QED
      BY <1>1, Invariance, PTL

\* However many replicas share the lists, requeue, retry, fail and restart, a message is in one
\* list once, or in one hand, or finished (read_next_payload, _requeue_payload,
\* _schedule_retry).
THEOREM OnePlaceEach == Spec => []OnePlace
<1>1. IInv => OnePlace
  <2> SUFFICES ASSUME IInv PROVE OnePlace
      OBVIOUS
  <2>1. PlacesInv
        BY DEF IInv
  <2>2. \A m : Queued(m) <=> \E a \in Accounts : m \in Listed(a)
        BY DEF Queued, Listed, MsgsOf
  <2>3. \A m : Held(m) <=> \E w \in Workers : m \in Carried(w)
        BY DEF Held, Carried
  <2>4. ASSUME NEW a \in Accounts, NEW b \in Accounts,
               NEW i \in 1..Len(queue[a]), NEW j \in 1..Len(queue[b]),
               queue[a][i].msg = queue[b][j].msg
        PROVE  a = b /\ i = j
    <3>1. queue[a][i].msg \in Listed(a) /\ queue[b][j].msg \in Listed(b)
          BY DEF Listed, MsgsOf
    <3>2. a = b
          BY <2>1, <2>4, <3>1 DEF PlacesInv
    <3> QED
          BY <2>1, <2>4, <3>2 DEF PlacesInv, Distinct
  <2>5. ASSUME NEW v \in Workers, NEW w \in Workers,
               hand[v] # None, hand[w] # None, hand[v].msg = hand[w].msg
        PROVE  v = w
    <3>1. hand[v].msg \in Carried(v) /\ hand[v].msg \in Carried(w)
          BY <2>5 DEF Carried
    <3> QED
          BY <2>1, <3>1 DEF PlacesInv
  <2>6. ASSUME NEW w \in Workers, hand[w] # None PROVE ~Queued(hand[w].msg)
    <3>1. hand[w].msg \in Carried(w)
          BY <2>6 DEF Carried
    <3> QED
          BY <2>1, <2>2, <3>1 DEF PlacesInv
  <2>7. ASSUME NEW m \in settled \cup lost PROVE ~Queued(m) /\ ~Held(m)
        BY <2>1, <2>2, <2>3 DEF PlacesInv, Over
  <2> QED
        BY <2>4, <2>5, <2>6, <2>7 DEF OnePlace
<1> QED
      BY <1>1, Invariance, PTL

\* No pause, retry, shared list or restart makes a pushed message disappear: it is queued, held,
\* settled, or was dropped by an error that handle_error logged (whatsapp_pool_worker.py).
THEOREM PushedIsSomewhere == Spec => []NothingVanishes
<1>1. IInv => NothingVanishes
  <2> SUFFICES ASSUME IInv, NEW m \in pushed, m \notin settled \cup lost
               PROVE  Queued(m) \/ Held(m)
      BY DEF NothingVanishes
  <2>1. (\E a \in Accounts : m \in Listed(a)) \/ (\E w \in Workers : m \in Carried(w))
        BY DEF IInv, PushedInv, Over
  <2> QED
        BY <2>1 DEF Queued, Held, Listed, MsgsOf, Carried
<1> QED
      BY <1>1, Invariance, PTL

\* What update_message_attempt_result recorded as delivered was delivered, and no replica
\* delivers it again (workers/db.py, multi_account_worker.py).
THEOREM ReportedDeliveryIsFinal == Spec => DeliveredIsFinal
<1> DEFINE Reported == \A m \in Msgs : sendStatus[m] = "delivered" => delivered[m] > 0
           Final    == \A m \in Msgs : sendStatus[m] = "delivered" => delivered'[m] = delivered[m]
<1>1. IInv => Reported
      BY DEF IInv, ReportInv
<1>2. IInv /\ [Next]_vars => [Final]_vars
  <2> SUFFICES ASSUME IInv, [Next]_vars, NEW m \in Msgs, sendStatus[m] = "delivered"
               PROVE  delivered'[m] = delivered[m]
      OBVIOUS
  <2>1. m \in Over
        BY DEF IInv, ReportInv
  <2> QED
        BY <2>1, Parts, StepMoves, MovesGrow
<1> HIDE DEF Reported, Final
<1>3. Spec => []Reported
      BY <1>1, Invariance, PTL
<1>4. Spec => [][Final]_vars
      BY <1>2, Invariance, PTL DEF Spec
<1> QED
      BY <1>3, <1>4 DEF DeliveredIsFinal, Reported, Final

\* A replica that delivered after the kill switch or a pause key was set does not deliver over
\* the same switch again (check_kill_switch, read_next_payload, run_once).
THEOREM LateSendsOnce == Spec => OneLateSend
<1> DEFINE Once == \A w \in Workers :
                       pc[w] = "send" /\ delivered'[hand[w].msg] # delivered[hand[w].msg]
                       => \A s \in SwitchesOver(w) : <<w, s>> \notin lateSends
<1>1. IInv => Once
  <2> SUFFICES ASSUME IInv, NEW w \in Workers, pc[w] = "send", NEW s \in SwitchesOver(w)
               PROVE  <<w, s>> \notin lateSends
      OBVIOUS
  <2>1. s \in Switches /\ s \in {Kill, source[w], CampaignOf[hand[w].msg]}
        BY Parts DEF SwitchesOver, SwitchesOK
  <2> QED
        BY <2>1, Parts DEF LateInv
<1> HIDE DEF Once
<1>2. Spec => [][Once]_vars
      BY <1>1, Invariance, PTL DEF Spec
<1> QED
      BY <1>2 DEF OneLateSend, Once

---------------------------------------------------------------------------
(* The pool implements MessageLife.                                        *)

InHand(m) == \E w \in Workers : m \in Carried(w)
AtIs(m)   == IF m \in Over THEN "over"
             ELSE IF ~InHand(m) THEN "waiting"
             ELSE IF delivered[m] = ambiguous[m] THEN "taken" ELSE "passed"
\* What a step leaves of a message it is not about.
Untouched(m) ==
    /\ m \in Over' <=> m \in Over
    /\ \A w \in Workers : m \in Carried(w)' <=> m \in Carried(w)
    /\ delivered'[m] = delivered[m] /\ ambiguous'[m] = ambiguous[m]

\* Since the places are disjoint, the cases of LifeOf are too.
LEMMA LifeIs ==
    ASSUME PlacesInv, NEW m \in Msgs
    PROVE  LifeOf(m) = [at |-> AtIs(m), copies |-> delivered[m], doubts |-> ambiguous[m]]
<1>1. Held(m) <=> InHand(m)
      BY DEF Held, InHand, Carried
<1>2. ~(m \in Over /\ InHand(m))
      BY DEF PlacesInv, InHand
<1> QED
      BY <1>1, <1>2 DEF LifeOf, AtIs, Over

LEMMA LifeIsNext ==
    ASSUME PlacesInv', NEW m \in Msgs
    PROVE  LifeOf(m)' = [at |-> AtIs(m)', copies |-> delivered'[m], doubts |-> ambiguous'[m]]
<1>1. Held(m)' <=> InHand(m)'
      BY DEF Held, InHand, Carried
<1>2. ~(m \in Over' /\ InHand(m)')
      BY DEF PlacesInv, InHand
<1> QED
      BY <1>1, <1>2 DEF LifeOf, AtIs, Over

\* A message in hand is passed exactly if who holds it knows.
LEMMA HeldIs ==
    ASSUME PlacesInv, CopiesInv, CountsOK, NEW w \in Workers, NEW m \in Msgs, Carried(w) = {m}
    PROVE  /\ AtIs(m) = IF Knows(w) THEN "passed" ELSE "taken"
           /\ ~Knows(w) => delivered[m] = ambiguous[m]
<1>1. m \notin Over /\ InHand(m) /\ \A v \in Workers \ {w} : m \notin Carried(v)
      BY DEF PlacesInv, InHand
<1>2. CASE Knows(w)
  <2>1. delivered[m] = ambiguous[m] + 1
        BY <1>2 DEF CopiesInv
  <2>2. delivered[m] # ambiguous[m]
        BY <2>1 DEF CountsOK
  <2> QED
        BY <1>1, <1>2, <2>2 DEF AtIs
<1>3. CASE ~Knows(w)
      BY <1>1, <1>3 DEF CopiesInv, AtIs
<1> QED
      BY <1>2, <1>3

LEMMA UntouchedLives ==
    ASSUME NEW m \in Msgs, Untouched(m)
    PROVE  AtIs(m)' = AtIs(m)
<1>1. InHand(m)' <=> InHand(m)
      BY DEF Untouched, InHand
<1> QED
      BY <1>1 DEF Untouched, AtIs

\* The moves, as steps of a message's life.
LEMMA MoveIsLife ==
    ASSUME PlacesInv, PlacesInv', CopiesInv, CountsOK, Moves, NEW m \in Msgs
    PROVE  \/ Untouched(m)
           \/ Life!Step([at |-> AtIs(m), copies |-> delivered[m], doubts |-> ambiguous[m]],
                        [at |-> AtIs(m)', copies |-> delivered'[m], doubts |-> ambiguous'[m]])
<1> DEFINE old == [at |-> AtIs(m), copies |-> delivered[m], doubts |-> ambiguous[m]]
           new == [at |-> AtIs(m)', copies |-> delivered'[m], doubts |-> ambiguous'[m]]
<1> USE DEF Life!Waiting, Life!Taken, Life!Passed, Life!Over, Life!Moved, SameHands, SameCounts
<1>1. CASE Keeps \/ \E a \in Accounts, n \in Msgs : Comes(a, n)
      BY <1>1 DEF Keeps, Comes, Untouched
<1>2. ASSUME NEW a \in Accounts, NEW n \in Msgs, Cuts(a, n) PROVE Untouched(m) \/ Life!End(old, new)
  <2>1. CASE m # n
        BY <1>2, <2>1 DEF Cuts, Leaves, Untouched
  <2>2. CASE m = n
    <3>1. m \notin Over /\ m \in Over' /\ AtIs(m)' = "over" /\ UNCHANGED <<delivered, ambiguous>>
          BY <1>2, <2>2 DEF Cuts, Leaves, PlacesInv, AtIs
    <3>2. AtIs(m) # "over"
          BY <3>1 DEF AtIs
    <3> QED
          BY <3>1, <3>2 DEF Life!End
  <2> QED
        BY <2>1, <2>2
<1>3. ASSUME NEW w \in Workers, NEW a \in Accounts, NEW n \in Msgs, Takes(w, a, n)
      PROVE  Untouched(m) \/ Life!Take(old, new)
  <2>1. CASE m # n
    <3>1. m \notin Carried(w)' /\ m \notin Carried(w)
          BY <1>3, <2>1 DEF Takes
    <3> QED
          BY <1>3, <3>1 DEF Takes, Leaves, Untouched
  <2>2. CASE m = n
    <3>1. m \notin Over /\ ~InHand(m) /\ m \notin Over' /\ InHand(m)'
          BY <1>3, <2>2 DEF Takes, Leaves, PlacesInv, InHand
    <3>2. delivered[m] = ambiguous[m] /\ UNCHANGED <<delivered, ambiguous>>
          BY <1>3, <3>1 DEF Takes, Leaves, CopiesInv, InHand
    <3>3. AtIs(m) = "waiting" /\ AtIs(m)' = "taken"
          BY <3>1, <3>2 DEF AtIs
    <3> QED
          BY <3>2, <3>3 DEF Life!Take
  <2> QED
        BY <2>1, <2>2
<1>4. ASSUME NEW w \in Workers, NEW a \in Accounts, NEW n \in Msgs, GivesBack(w, a, n)
      PROVE  Untouched(m) \/ Life!GiveBack(old, new)
  <2>1. CASE m # n
    <3>1. m \notin Carried(w)' /\ m \notin Carried(w)
          BY <1>4, <2>1 DEF GivesBack, Frees
    <3> QED
          BY <1>4, <3>1 DEF GivesBack, Frees, Untouched
  <2>2. CASE m = n
    <3>1. Carried(w) = {m} /\ ~Knows(w) /\ AtIs(m) = "taken"
          BY <1>4, <2>2, HeldIs DEF GivesBack, Frees
    <3>2. m \notin Over' /\ ~InHand(m)' /\ UNCHANGED <<delivered, ambiguous>>
          BY <1>4, <2>2 DEF GivesBack, Frees, PlacesInv, InHand
    <3>3. AtIs(m)' = "waiting"
          BY <3>2 DEF AtIs
    <3> QED
          BY <3>1, <3>2, <3>3 DEF Life!GiveBack
  <2> QED
        BY <2>1, <2>2
<1>5. ASSUME NEW w \in Workers, NEW n \in Msgs, Ends(w, n)
      PROVE  Untouched(m) \/ Life!End(old, new) \/ Life!Pass(old, new)
  <2>1. CASE m # n
    <3>1. m \notin Carried(w)' /\ m \notin Carried(w)
          BY <1>5, <2>1 DEF Ends, Frees
    <3>2. delivered'[m] = delivered[m] /\ ambiguous'[m] = ambiguous[m] /\ Over' = Over \cup {n}
          BY <1>5, <2>1 DEF Ends, Counted, CountsOK
    <3>3. \A v \in Workers \ {w} : Carried(v)' = Carried(v)
          BY <1>5 DEF Ends, Frees
    <3> QED
          BY <2>1, <3>1, <3>2, <3>3 DEF Untouched
  <2>2. CASE m = n
    <3>1. Carried(w) = {m} /\ m \in Over'
          BY <1>5, <2>2 DEF Ends, Frees
    <3>2. AtIs(m)' = "over" /\ AtIs(m) # "over" /\ (~Knows(w) => AtIs(m) = "taken")
          BY <3>1, HeldIs DEF AtIs
    <3>3. \/ delivered'[m] = delivered[m] /\ ambiguous'[m] = ambiguous[m]
          \/ ~Knows(w) /\ delivered'[m] = delivered[m] + 1 /\ ambiguous'[m] = ambiguous[m]
          BY <1>5, <2>2 DEF Ends, Counted, CountsOK
    <3> QED
          BY <3>2, <3>3 DEF Life!End, Life!Pass
  <2> QED
        BY <2>1, <2>2
<1>6. ASSUME NEW w \in Workers, NEW n \in Msgs, Sends(w, n) \/ Doubts(w, n)
      PROVE  Untouched(m) \/ Life!Pass(old, new) \/ Life!Doubt(old, new)
  <2>1. Delivers(w, n)
        BY <1>6 DEF Sends, Doubts
  <2>2. CASE m # n
    <3>1. delivered'[m] = delivered[m] /\ ambiguous'[m] = ambiguous[m]
          BY <1>6, <2>2 DEF Sends, Doubts, Delivers, Counted, CountsOK
    <3> QED
          BY <2>1, <3>1 DEF Delivers, Untouched
  <2>3. CASE m = n
    <3>1. Carried(w) = {m} /\ ~Knows(w) /\ delivered'[m] = delivered[m] + 1
          BY <2>1, <2>3 DEF Delivers, Counted, CountsOK
    <3>2. AtIs(m) = "taken" /\ delivered[m] = ambiguous[m]
          BY <3>1, HeldIs
    <3>3. m \notin Over' /\ InHand(m)'
          BY <2>1, <2>3 DEF Delivers, PlacesInv, InHand
    <3>4. CASE Sends(w, n)
      <4>1. ambiguous'[m] = ambiguous[m] /\ delivered'[m] # ambiguous'[m]
            BY <3>1, <3>2, <3>4 DEF Sends, CountsOK
      <4>2. AtIs(m)' = "passed"
            BY <3>3, <4>1 DEF AtIs
      <4> QED
            BY <3>1, <3>2, <4>1, <4>2 DEF Life!Pass
    <3>5. CASE Doubts(w, n)
      <4>1. ambiguous'[m] = ambiguous[m] + 1 /\ delivered'[m] = ambiguous'[m]
            BY <2>3, <3>1, <3>2, <3>5 DEF Doubts, Counted, CountsOK
      <4>2. AtIs(m)' = "taken"
            BY <3>3, <4>1 DEF AtIs
      <4> QED
            BY <3>1, <3>2, <4>1, <4>2 DEF Life!Doubt
    <3> QED
          BY <1>6, <3>4, <3>5
  <2> QED
        BY <2>2, <2>3
<1> QED
      BY <1>1, <1>2, <1>3, <1>4, <1>5, <1>6 DEF Moves, Life!Step

\* The pool implements MessageLife, whatever the numbers of replicas, accounts and messages:
\* while it is held a message is delivered once, and once more for each delivery reported as a
\* retryable failure, and nothing is sent of one that was settled or lost.
THEOREM PoolImplementsLife == Spec => MessagesLive
<1>1. Init => Life!LifeInit
  <2> SUFFICES ASSUME Init, NEW m \in Msgs
               PROVE  LifeOf(m) = [at |-> "waiting", copies |-> 0, doubts |-> 0]
      BY DEF Life!LifeInit, Life!Waiting
  <2>1. m \notin settled \cup lost /\ ~Held(m) /\ delivered[m] = 0 /\ ambiguous[m] = 0
        BY DEF Init, Held
  <2> QED
        BY <2>1 DEF LifeOf
<1>2. IInv /\ [Next]_vars => [Life!LifeNext]_([m \in Msgs |-> LifeOf(m)])
  <2> SUFFICES ASSUME IInv, [Next]_vars PROVE Life!LifeNext
      OBVIOUS
  <2>1. PlacesInv /\ PlacesInv' /\ CopiesInv /\ CountsOK /\ Moves
        BY Parts, StepMoves, MovesKeepPlaces
  <2>2. ASSUME NEW m \in Msgs PROVE LifeOf(m)' = LifeOf(m) \/ Life!Step(LifeOf(m), LifeOf(m)')
    <3>1. CASE Untouched(m)
      <4>1. AtIs(m)' = AtIs(m) /\ delivered'[m] = delivered[m] /\ ambiguous'[m] = ambiguous[m]
            BY <3>1, UntouchedLives DEF Untouched
      <4> QED
            BY <2>1, <4>1, LifeIs, LifeIsNext
    <3>2. CASE ~Untouched(m)
          BY <2>1, <3>2, LifeIs, LifeIsNext, MoveIsLife
    <3> QED
          BY <3>1, <3>2
  <2> QED
        BY <2>2 DEF Life!LifeNext
<1> QED
      BY <1>1, <1>2, Invariance, PTL DEF Spec, MessagesLive, Life!LifeSpec
=============================================================================
