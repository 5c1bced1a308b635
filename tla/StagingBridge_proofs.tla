------------------------ MODULE StagingBridge_proofs ------------------------
(***************************************************************************)
(* Safety of the staging bridge for every number of items, accounts,       *)
(* bridge runs and requests: type correctness, exclusive claims, bounded   *)
(* duplication and the meaning of the staged item's status.                *)
(***************************************************************************)
EXTENDS StagingBridge, Lemmas

---------------------------------------------------------------------------
(* The inductive invariant.                                                *)

\* A selected but uncommitted claim: its campaign rows are locked, so nobody
\* else can select its items.
SelectedInv ==
    \A p \in Procs : pc[p] = "claimed" =>
        /\ claim[p] # {}
        /\ \A i \in claim[p] : itemStatus[i] = "ready" /\ rowLock[CampaignOf[i]] = p

\* A committed claim: its items are PUSHING, so nobody else can select them.
WorkingInv ==
    \A p \in Procs : pc[p] \in ItemPoints =>
        claim[p] # {} /\ \A i \in claim[p] : itemStatus[i] = "pushing"

\* Outside the bridge loop a process holds no claim.
RestInv ==
    \A p \in Procs : pc[p] \notin ItemPoints \cup {"claimed"} => claim[p] = {}

\* A request always names a campaign, and a run between choosing an account
\* and the push has one.
LocalsInv ==
    /\ \A p \in Procs : pc[p] \in {"flushStart", "flushStop", "clearPause", "setPause"}
                          => camp[p] \in Campaigns
    /\ \A p \in Procs : pc[p] = "push" => target[p] \in Accounts

\* How often each message was pushed, by where its item is.
SettledCount(i) ==
    /\ itemStatus[i] \in {"absent", "ready", "skipped"} => Len(pushedTo[i]) = lostReplies[i]
    /\ itemStatus[i] = "queued" => Len(pushedTo[i]) = lostReplies[i] + 1
    /\ itemStatus[i] = "pushing" => Len(pushedTo[i]) <= lostReplies[i] + 1
Pushed(p, i) == pc[p] = "mark" /\ i = item(p)
WorkingCount(p) ==
    pc[p] \in ItemPoints =>
        \A i \in claim[p] : /\ Pushed(p, i) => Len(pushedTo[i]) = lostReplies[i] + 1
                            /\ ~ Pushed(p, i) => Len(pushedTo[i]) = lostReplies[i]
CountInv == /\ \A i \in Items : SettledCount(i)
            /\ \A p \in Procs : WorkingCount(p)

ClaimsInv == SelectedInv /\ WorkingInv /\ RestInv /\ ClaimsDisjoint

IInv == TypeOK /\ LocalsInv /\ ClaimsInv /\ CountInv /\ PushingIsOwned

---------------------------------------------------------------------------
(* Types.                                                                  *)

\* A non-empty set of ids limited to one row or more is not empty.
LEMMA FirstNNonEmpty ==
    ASSUME NEW S, S \subseteq Nat, S # {}, NEW n \in Nat \ {0}
    PROVE  FirstN(S, n) # {} /\ FirstN(S, n) \subseteq S
<1>1. PICK m \in S : \A j \in S : m <= j
    BY LeastId
<1>2. {j \in S : j < m} = {}
  <2>1. \A j \in S : ~ (j < m)
      BY <1>1
  <2> QED BY <2>1
<1>3. Cardinality({j \in S : j < m}) = 0
    BY <1>2, FS_EmptySet
<1>4. m \in FirstN(S, n)
    BY <1>3 DEF FirstN
<1> QED BY <1>4 DEF FirstN

\* The item at hand belongs to the claim it is taken from.
LEMMA ItemAtHand ==
    ASSUME TypeOK, NEW p \in Procs, claim[p] # {}
    PROVE  item(p) \in claim[p] /\ item(p) \in Items
<1>1. claim[p] \subseteq Nat /\ claim[p] \subseteq Items
    BY IdsAssumption DEF TypeOK
<1>2. PICK i \in claim[p] : \A j \in claim[p] : i <= j
    BY <1>1, LeastId
<1> QED BY <1>1, <1>2 DEF item, First

\* Round robin picks an existing account of the item's platform.
LEMMA ChosenAccount ==
    ASSUME TypeOK, WorkingInv, NEW p \in Procs, ChooseAccount(p)
    PROVE  LET ch == ChannelOf[item(p)] IN
           /\ ch \in Platforms
           /\ cursor[p][ch] % Cardinality(Eligible(ch)) \in Nat
           /\ target'[p] \in Eligible(ch)
           /\ target'[p] \in Accounts
<1> DEFINE ch == ChannelOf[item(p)]
           accounts == Eligible(ch)
           idx == cursor[p][ch] % Cardinality(accounts)
<1>1. accounts \subseteq Accounts /\ accounts \subseteq Nat /\ IsFiniteSet(accounts)
    BY FS_Subset, IdsAssumption DEF Eligible, TypeOK
<1>2. Cardinality(accounts) \in Nat \ {0}
    BY <1>1, FS_EmptySet, FS_CardinalityType DEF ChooseAccount
<1>3. item(p) \in Items
    BY ItemAtHand DEF WorkingInv, ItemPoints, ChooseAccount
<1>4. PICK a \in accounts : TRUE
    BY DEF ChooseAccount
<1>5. ch \in Platforms
    BY <1>4, MapsAssumption DEF Eligible, TypeOK
<1>6. cursor[p][ch] \in Nat
    BY <1>5 DEF TypeOK
<1>7. idx \in Nat /\ idx < Cardinality(accounts)
    BY <1>2, <1>6
<1>8. target'[p] = Nth(accounts, idx)
    BY DEF ChooseAccount, TypeOK
<1> HIDE DEF accounts, idx
<1>9. Nth(accounts, idx) \in accounts
    BY <1>1, <1>7, NthId DEF Nth
<1>10. target'[p] \in accounts /\ target'[p] \in Accounts
    BY <1>1, <1>8, <1>9
<1> QED BY <1>5, <1>7, <1>10 DEF accounts, idx

\* Every step keeps the types; the account chosen by round robin is an account.
LEMMA TypeStep ==
    ASSUME TypeOK, WorkingInv, LocalsInv, [Next]_vars
    PROVE  TypeOK'
<1>1. ASSUME NEW p \in Operators, NEW c \in Campaigns, StartRequest(p, c) PROVE TypeOK'
    BY <1>1 DEF StartRequest, Request, Goto, STARTABLE_STATUSES, vars, db, world, local, history, TypeOK, Points, AwaitPoints, ItemPoints, ItemStatuses, CampaignStatuses, StatusOrNone, Procs, FreshCursor
<1>2. ASSUME NEW p \in Operators, NEW c \in Campaigns, StopRequest(p, c) PROVE TypeOK'
    BY <1>2 DEF StopRequest, Request, Goto, STOPPABLE_STATUSES, vars, db, world, local, history, TypeOK, Points, AwaitPoints, ItemPoints, ItemStatuses, CampaignStatuses, StatusOrNone, Procs, FreshCursor
<1>3. ASSUME NEW p \in Procs, BeatTick(p) PROVE TypeOK'
    BY <1>3 DEF BeatTick, Goto, vars, db, world, local, history, TypeOK, Points, AwaitPoints, ItemPoints, ItemStatuses, CampaignStatuses, StatusOrNone, Procs, FreshCursor
<1>4. ASSUME NEW p \in Procs, Flush(p) PROVE TypeOK'
    BY <1>4 DEF Flush, Goto, vars, db, world, local, history, TypeOK, Points, AwaitPoints, ItemPoints, ItemStatuses, CampaignStatuses, StatusOrNone, Procs, FreshCursor
<1>5. ASSUME NEW p \in Procs, clear_campaign_pause(p) PROVE TypeOK'
    BY <1>5 DEF clear_campaign_pause, Goto, vars, db, world, local, history, TypeOK, Points, AwaitPoints, ItemPoints, ItemStatuses, CampaignStatuses, StatusOrNone, Procs, FreshCursor
<1>6. ASSUME NEW p \in Procs, set_campaign_pause(p) PROVE TypeOK'
    BY <1>6 DEF set_campaign_pause, Goto, LocalsInv, vars, db, world, local, history, TypeOK, Points, AwaitPoints, ItemPoints, ItemStatuses, CampaignStatuses, StatusOrNone, Procs
<1>7. ASSUME NEW p \in Procs, CommitRequest(p) PROVE TypeOK'
    BY <1>7 DEF CommitRequest, Committed, Rollback, Unlocked, Goto, vars, db, world, local, history, TypeOK, Points, AwaitPoints, ItemPoints, ItemStatuses, CampaignStatuses, StatusOrNone, Procs, FreshCursor
<1>8. ASSUME NEW p \in Procs, ClaimBatch(p) PROVE TypeOK'
  <2>1. FirstN(Claimable(p), BatchSize) \subseteq Items
      BY DEF FirstN, Claimable
  <2> QED BY <2>1, <1>8 DEF ClaimBatch, Goto, vars, db, world, local, history, TypeOK, Points, AwaitPoints, ItemPoints, ItemStatuses, CampaignStatuses, StatusOrNone, Procs
<1>9. ASSUME NEW p \in Procs, ClaimNothing(p) PROVE TypeOK'
    BY <1>9 DEF ClaimNothing, Goto, AfterBridge, vars, db, world, local, history, TypeOK, Points, AwaitPoints, ItemPoints, ItemStatuses, CampaignStatuses, StatusOrNone, Procs, FreshCursor
<1>10. ASSUME NEW p \in Procs, CommitClaim(p) PROVE TypeOK'
    BY <1>10 DEF CommitClaim, Committed, Unlocked, Goto, vars, db, world, local, history, TypeOK, Points, AwaitPoints, ItemPoints, ItemStatuses, CampaignStatuses, StatusOrNone, Procs, FreshCursor
<1>11. ASSUME NEW p \in Procs, SkipItem(p) PROVE TypeOK'
  <2>1. item(p) \in claim[p] /\ item(p) \in Items
      BY <1>11, ItemAtHand DEF WorkingInv, ItemPoints, SkipItem
  <2> QED BY <2>1, <1>11 DEF SkipItem, Settle, NextItem, Goto, AfterBridge, FreshCursor, vars, db, world, local, history, TypeOK, Points, AwaitPoints, ItemPoints, ItemStatuses, CampaignStatuses, StatusOrNone, Procs
<1>12. ASSUME NEW p \in Procs, PassConsent(p) PROVE TypeOK'
    BY <1>12 DEF PassConsent, Goto, vars, db, world, local, history, TypeOK, Points, AwaitPoints, ItemPoints, ItemStatuses, CampaignStatuses, StatusOrNone, Procs, FreshCursor
<1>13. ASSUME NEW p \in Procs, NoAccount(p) PROVE TypeOK'
  <2>1. item(p) \in claim[p] /\ item(p) \in Items
      BY <1>13, ItemAtHand DEF WorkingInv, ItemPoints, NoAccount
  <2> QED BY <2>1, <1>13 DEF NoAccount, Settle, NextItem, Goto, AfterBridge, FreshCursor, vars, db, world, local, history, TypeOK, Points, AwaitPoints, ItemPoints, ItemStatuses, CampaignStatuses, StatusOrNone, Procs
<1>14. ASSUME NEW p \in Procs, ChooseAccount(p) PROVE TypeOK'
  <2>1. item(p) \in Items
      BY <1>14, ItemAtHand DEF WorkingInv, ItemPoints, ChooseAccount
  <2> DEFINE ch == ChannelOf[item(p)]
             idx == cursor[p][ch] % Cardinality(Eligible(ch))
  <2>2. target'[p] \in Accounts /\ idx \in Nat /\ ch \in Platforms
      BY <1>14, ChosenAccount
  <2> HIDE DEF idx, ch
  <2>3. /\ target' = [target EXCEPT ![p] = target'[p]]
        /\ cursor' = [cursor EXCEPT ![p][ch] = idx + 1]
        /\ pc' = [pc EXCEPT ![p] = "push"]
        /\ UNCHANGED <<db, world, camp, wrote, claim, history>>
      BY <1>14 DEF ChooseAccount, Goto, idx, ch, TypeOK
  <2>4. cursor' \in [Procs -> [Platforms -> Nat]]
      BY <2>2, <2>3 DEF TypeOK
  <2> QED BY <2>2, <2>3, <2>4 DEF vars, db, world, local, history, TypeOK, Points, AwaitPoints, ItemPoints, ItemStatuses, CampaignStatuses, StatusOrNone, Procs
<1>15. ASSUME NEW p \in Procs, Push(p) PROVE TypeOK'
  <2>1. item(p) \in claim[p] /\ item(p) \in Items
      BY <1>15, ItemAtHand DEF WorkingInv, ItemPoints, Push
  <2>2. Append(pushedTo[item(p)], target[p]) \in Seq(Accounts)
      BY <2>1, <1>15 DEF Push, LocalsInv, TypeOK
  <2> QED BY <2>1, <2>2, <1>15 DEF Push, Deliver, Goto, vars, db, world, local, history, TypeOK, Points, AwaitPoints, ItemPoints, ItemStatuses, CampaignStatuses, StatusOrNone, Procs
<1>16. ASSUME NEW p \in Procs, MarkQueued(p) PROVE TypeOK'
  <2>1. item(p) \in claim[p] /\ item(p) \in Items
      BY <1>16, ItemAtHand DEF WorkingInv, ItemPoints, MarkQueued
  <2> QED BY <2>1, <1>16 DEF MarkQueued, Settle, NextItem, Goto, AfterBridge, FreshCursor, vars, db, world, local, history, TypeOK, Points, AwaitPoints, ItemPoints, ItemStatuses, CampaignStatuses, StatusOrNone, Procs
<1>17. ASSUME NEW p \in Procs, PauseCallFails(p) PROVE TypeOK'
  <2>1. camp[p] \in Campaigns
      BY <1>17 DEF PauseCallFails, LocalsInv
  <2>2. pauseKeys' \subseteq Campaigns
      BY <2>1, <1>17 DEF PauseCallFails, TypeOK
  <2> QED BY <2>2, <1>17 DEF PauseCallFails, Rollback, Unlocked, Goto, FreshCursor, vars, db, world, local, history, TypeOK, Points, AwaitPoints, ItemPoints, ItemStatuses, CampaignStatuses, StatusOrNone, Procs
<1>18. ASSUME NEW p \in Procs, PushFails(p) PROVE TypeOK'
  <2>1. item(p) \in claim[p] /\ item(p) \in Items
      BY <1>18, ItemAtHand DEF WorkingInv, ItemPoints, PushFails
  <2>2. Append(pushedTo[item(p)], target[p]) \in Seq(Accounts)
      BY <2>1, <1>18 DEF PushFails, LocalsInv, TypeOK
  <2>3. pushedTo' \in [Items -> Seq(Accounts)] /\ lostReplies' \in [Items -> Nat]
    <3>1. CASE UNCHANGED <<pushedTo, lostReplies>>
        BY <3>1 DEF TypeOK
    <3>2. CASE Deliver(p) /\ lostReplies' = [lostReplies EXCEPT ![item(p)] = @ + 1]
        BY <3>2, <2>1, <2>2 DEF Deliver, TypeOK
    <3> QED BY <3>1, <3>2, <1>18 DEF PushFails
  <2>4. faults' \in Nat
      BY <1>18 DEF PushFails, TypeOK
  <2> HIDE DEF Deliver
  <2> QED BY <2>1, <2>3, <2>4, <1>18 DEF PushFails, Settle, NextItem, Goto, AfterBridge, FreshCursor, vars, db, world, local, history, TypeOK, Points, AwaitPoints, ItemPoints, ItemStatuses, CampaignStatuses, StatusOrNone, Procs
<1>19. ASSUME NEW p \in Procs, Abandon(p) PROVE TypeOK'
    BY <1>19 DEF Abandon, Rollback, Unlocked, Goto, vars, db, world, local, history, TypeOK, Points, AwaitPoints, ItemPoints, ItemStatuses, CampaignStatuses, StatusOrNone, Procs, FreshCursor
<1>20. ASSUME NEW c \in Campaigns, Prepare(c) PROVE TypeOK'
    BY <1>20 DEF Prepare, vars, db, world, local, history, TypeOK, Points, AwaitPoints, ItemPoints, ItemStatuses, CampaignStatuses, StatusOrNone, Procs, FreshCursor
<1>21. ASSUME NEW i \in Items, record_opt_out(i) PROVE TypeOK'
    BY <1>21 DEF record_opt_out, vars, db, world, local, history, TypeOK, Points, AwaitPoints, ItemPoints, ItemStatuses, CampaignStatuses, StatusOrNone, Procs, FreshCursor
<1>22. ASSUME NEW i \in Items, record_opt_in(i) PROVE TypeOK'
    BY <1>22 DEF record_opt_in, vars, db, world, local, history, TypeOK, Points, AwaitPoints, ItemPoints, ItemStatuses, CampaignStatuses, StatusOrNone, Procs, FreshCursor
<1>23. ASSUME NEW a \in Accounts, AccountStatusChanges(a) PROVE TypeOK'
    BY <1>23 DEF AccountStatusChanges, vars, db, world, local, history, TypeOK, Points, AwaitPoints, ItemPoints, ItemStatuses, CampaignStatuses, StatusOrNone, Procs, FreshCursor
<1>24. CASE UNCHANGED vars
    BY <1>24 DEF vars, db, world, local, history, TypeOK, Points, AwaitPoints, ItemPoints, ItemStatuses, CampaignStatuses, StatusOrNone, Procs, FreshCursor
<1> QED
    BY <1>1, <1>2, <1>3, <1>4, <1>5, <1>6, <1>7, <1>8, <1>9, <1>10, <1>11, <1>12, <1>13, <1>14, <1>15, <1>16, <1>17, <1>18, <1>19, <1>20, <1>21, <1>22, <1>23, <1>24 DEF Next, Run, Fail, Environment, Procs

\* A request keeps its campaign, and a push its account.
LEMMA LocalsStep ==
    ASSUME TypeOK, WorkingInv, LocalsInv, [Next]_vars
    PROVE  LocalsInv'
<1>1. ASSUME NEW p \in Operators, NEW c \in Campaigns, StartRequest(p, c) PROVE LocalsInv'
    BY <1>1 DEF StartRequest, Request, Goto, STARTABLE_STATUSES, vars, db, world, local, history, TypeOK, LocalsInv, Points, AwaitPoints, ItemPoints, Procs
<1>2. ASSUME NEW p \in Operators, NEW c \in Campaigns, StopRequest(p, c) PROVE LocalsInv'
    BY <1>2 DEF StopRequest, Request, Goto, STOPPABLE_STATUSES, vars, db, world, local, history, TypeOK, LocalsInv, Points, AwaitPoints, ItemPoints, Procs
<1>3. ASSUME NEW p \in Procs, BeatTick(p) PROVE LocalsInv'
    BY <1>3 DEF BeatTick, Goto, vars, db, world, local, history, TypeOK, LocalsInv, Points, AwaitPoints, ItemPoints, Procs
<1>4. ASSUME NEW p \in Procs, Flush(p) PROVE LocalsInv'
    BY <1>4 DEF Flush, Goto, vars, db, world, local, history, TypeOK, LocalsInv, Points, AwaitPoints, ItemPoints, Procs
<1>5. ASSUME NEW p \in Procs, clear_campaign_pause(p) PROVE LocalsInv'
    BY <1>5 DEF clear_campaign_pause, Goto, vars, db, world, local, history, TypeOK, LocalsInv, Points, AwaitPoints, ItemPoints, Procs
<1>6. ASSUME NEW p \in Procs, set_campaign_pause(p) PROVE LocalsInv'
    BY <1>6 DEF set_campaign_pause, Goto, vars, db, world, local, history, TypeOK, LocalsInv, Points, AwaitPoints, ItemPoints, Procs
<1>7. ASSUME NEW p \in Procs, CommitRequest(p) PROVE LocalsInv'
    BY <1>7 DEF CommitRequest, Committed, Rollback, Unlocked, Goto, vars, db, world, local, history, TypeOK, LocalsInv, Points, AwaitPoints, ItemPoints, Procs
<1>8. ASSUME NEW p \in Procs, ClaimBatch(p) PROVE LocalsInv'
    BY <1>8 DEF ClaimBatch, Goto, vars, db, world, local, history, TypeOK, LocalsInv, Points, AwaitPoints, ItemPoints, Procs
<1>9. ASSUME NEW p \in Procs, ClaimNothing(p) PROVE LocalsInv'
    BY <1>9 DEF ClaimNothing, Goto, AfterBridge, vars, db, world, local, history, TypeOK, LocalsInv, Points, AwaitPoints, ItemPoints, Procs
<1>10. ASSUME NEW p \in Procs, CommitClaim(p) PROVE LocalsInv'
    BY <1>10 DEF CommitClaim, Committed, Unlocked, Goto, vars, db, world, local, history, TypeOK, LocalsInv, Points, AwaitPoints, ItemPoints, Procs
<1>11. ASSUME NEW p \in Procs, SkipItem(p) PROVE LocalsInv'
    BY <1>11 DEF SkipItem, Settle, NextItem, Goto, AfterBridge, vars, db, world, local, history, TypeOK, LocalsInv, Points, AwaitPoints, ItemPoints, Procs
<1>12. ASSUME NEW p \in Procs, PassConsent(p) PROVE LocalsInv'
    BY <1>12 DEF PassConsent, Goto, vars, db, world, local, history, TypeOK, LocalsInv, Points, AwaitPoints, ItemPoints, Procs
<1>13. ASSUME NEW p \in Procs, NoAccount(p) PROVE LocalsInv'
    BY <1>13 DEF NoAccount, Settle, NextItem, Goto, AfterBridge, vars, db, world, local, history, TypeOK, LocalsInv, Points, AwaitPoints, ItemPoints, Procs
<1>14. ASSUME NEW p \in Procs, ChooseAccount(p) PROVE LocalsInv'
  <2>1. pc' = [pc EXCEPT ![p] = "push"] /\ UNCHANGED camp
      BY <1>14 DEF ChooseAccount, Goto
  <2>2. target' = [target EXCEPT ![p] = target'[p]] /\ target'[p] \in Accounts
      BY <1>14, ChosenAccount DEF ChooseAccount, TypeOK
  <2> QED BY <2>1, <2>2 DEF vars, db, world, local, history, TypeOK, LocalsInv, Points, AwaitPoints, ItemPoints, Procs
<1>15. ASSUME NEW p \in Procs, Push(p) PROVE LocalsInv'
    BY <1>15 DEF Push, Deliver, Goto, vars, db, world, local, history, TypeOK, LocalsInv, Points, AwaitPoints, ItemPoints, Procs
<1>16. ASSUME NEW p \in Procs, MarkQueued(p) PROVE LocalsInv'
    BY <1>16 DEF MarkQueued, Settle, NextItem, Goto, AfterBridge, vars, db, world, local, history, TypeOK, LocalsInv, Points, AwaitPoints, ItemPoints, Procs
<1>17. ASSUME NEW p \in Procs, PauseCallFails(p) PROVE LocalsInv'
    BY <1>17 DEF PauseCallFails, Rollback, Unlocked, Goto, vars, db, world, local, history, TypeOK, LocalsInv, Points, AwaitPoints, ItemPoints, Procs
<1>18. ASSUME NEW p \in Procs, PushFails(p) PROVE LocalsInv'
    BY <1>18 DEF PushFails, Deliver, Settle, NextItem, Goto, AfterBridge, vars, db, world, local, history, TypeOK, LocalsInv, Points, AwaitPoints, ItemPoints, Procs
<1>19. ASSUME NEW p \in Procs, Abandon(p) PROVE LocalsInv'
    BY <1>19 DEF Abandon, Rollback, Unlocked, Goto, vars, db, world, local, history, TypeOK, LocalsInv, Points, AwaitPoints, ItemPoints, Procs
<1>20. ASSUME NEW c \in Campaigns, Prepare(c) PROVE LocalsInv'
    BY <1>20 DEF Prepare, vars, db, world, local, history, TypeOK, LocalsInv, Points, AwaitPoints, ItemPoints, Procs
<1>21. ASSUME NEW i \in Items, record_opt_out(i) PROVE LocalsInv'
    BY <1>21 DEF record_opt_out, vars, db, world, local, history, TypeOK, LocalsInv, Points, AwaitPoints, ItemPoints, Procs
<1>22. ASSUME NEW i \in Items, record_opt_in(i) PROVE LocalsInv'
    BY <1>22 DEF record_opt_in, vars, db, world, local, history, TypeOK, LocalsInv, Points, AwaitPoints, ItemPoints, Procs
<1>23. ASSUME NEW a \in Accounts, AccountStatusChanges(a) PROVE LocalsInv'
    BY <1>23 DEF AccountStatusChanges, vars, db, world, local, history, TypeOK, LocalsInv, Points, AwaitPoints, ItemPoints, Procs
<1>24. CASE UNCHANGED vars
    BY <1>24 DEF vars, db, world, local, history, TypeOK, LocalsInv, Points, AwaitPoints, ItemPoints, Procs
<1> QED
    BY <1>1, <1>2, <1>3, <1>4, <1>5, <1>6, <1>7, <1>8, <1>9, <1>10, <1>11, <1>12, <1>13, <1>14, <1>15, <1>16, <1>17, <1>18, <1>19, <1>20, <1>21, <1>22, <1>23, <1>24 DEF Next, Run, Fail, Environment, Procs

---------------------------------------------------------------------------
(* Claims.                                                                 *)

\* A process that gives its claim up (commit, rollback or abandonment) frees
\* only locks of its own: what the others claimed stays theirs.
LEMMA ClaimGivenUp ==
    ASSUME TypeOK, ClaimsInv, NEW p \in Procs,
           \A q \in Procs \ {p} : \A c \in Campaigns : rowLock[c] = q => rowLock'[c] = q,
           pc' = [pc EXCEPT ![p] = pc'[p]], claim' = [claim EXCEPT ![p] = claim'[p]],
           UNCHANGED itemStatus,
           pc'[p] \notin ItemPoints \cup {"claimed"}, claim'[p] = {}
    PROVE  ClaimsInv'
<1>1. \A i \in Items : CampaignOf[i] \in Campaigns
      BY MapsAssumption
<1>2. \A q \in Procs \ {p} : pc'[q] = pc[q] /\ claim'[q] = claim[q] /\ claim[q] \subseteq Items
      BY DEF TypeOK
<1>3. SelectedInv'
  <2>1. SUFFICES ASSUME NEW q \in Procs, pc'[q] = "claimed"
                 PROVE  claim'[q] # {} /\ \A i \in claim'[q] :
                            itemStatus'[i] = "ready" /\ rowLock'[CampaignOf[i]] = q
        BY DEF SelectedInv
  <2>2. q # p
        BY <2>1
  <2> QED
        BY <2>1, <2>2, <1>1, <1>2 DEF ClaimsInv, SelectedInv
<1>4. WorkingInv'
      BY <1>2 DEF ClaimsInv, WorkingInv
<1>5. RestInv'
      BY <1>2 DEF ClaimsInv, RestInv
<1>6. ClaimsDisjoint'
      BY <1>2 DEF ClaimsInv, ClaimsDisjoint
<1> QED
      BY <1>3, <1>4, <1>5, <1>6 DEF ClaimsInv

\* Claims stay exclusive: row locks before their commit, PUSHING after it.
LEMMA ClaimsStep ==
    ASSUME TypeOK, ClaimsInv, [Next]_vars
    PROVE  ClaimsInv'
<1>1. ASSUME NEW p \in Operators, NEW c \in Campaigns, StartRequest(p, c) PROVE ClaimsInv'
    BY <1>1 DEF StartRequest, Request, Goto, STARTABLE_STATUSES, vars, db, world, local, history, TypeOK, ClaimsInv, SelectedInv, WorkingInv, RestInv, ClaimsDisjoint, Points, AwaitPoints, ItemPoints, Procs
<1>2. ASSUME NEW p \in Operators, NEW c \in Campaigns, StopRequest(p, c) PROVE ClaimsInv'
    BY <1>2 DEF StopRequest, Request, Goto, STOPPABLE_STATUSES, vars, db, world, local, history, TypeOK, ClaimsInv, SelectedInv, WorkingInv, RestInv, ClaimsDisjoint, Points, AwaitPoints, ItemPoints, Procs
<1>3. ASSUME NEW p \in Procs, BeatTick(p) PROVE ClaimsInv'
    BY <1>3 DEF BeatTick, Goto, vars, db, world, local, history, TypeOK, ClaimsInv, SelectedInv, WorkingInv, RestInv, ClaimsDisjoint, Points, AwaitPoints, ItemPoints, Procs
<1>4. ASSUME NEW p \in Procs, Flush(p) PROVE ClaimsInv'
  <2>1. \A q \in Procs : \A c \in Campaigns : rowLock[c] = q => rowLock'[c] = q
      BY <1>4, NoneAssumption DEF Flush, TypeOK
  <2>2. \A i \in Items : CampaignOf[i] \in Campaigns
      BY MapsAssumption
  <2>3. /\ pc' = [pc EXCEPT ![p] = pc'[p]] /\ UNCHANGED <<claim, itemStatus>>
        /\ pc'[p] \notin ItemPoints \cup {"claimed"} /\ claim[p] = {}
      BY <1>4 DEF Flush, Goto, local, ItemPoints, TypeOK, ClaimsInv, RestInv
  <2>4. SelectedInv'
    <3>1. SUFFICES ASSUME NEW q \in Procs, pc'[q] = "claimed"
                   PROVE  claim'[q] # {} /\ \A i \in claim'[q] :
                              itemStatus'[i] = "ready" /\ rowLock'[CampaignOf[i]] = q
        BY DEF SelectedInv
    <3>2. q # p /\ pc[q] = "claimed" /\ claim'[q] = claim[q] /\ claim[q] \subseteq Items
        BY <3>1, <2>3 DEF ItemPoints, TypeOK
    <3> QED BY <3>2, <2>1, <2>2, <2>3 DEF ClaimsInv, SelectedInv
  <2>5. WorkingInv' /\ RestInv' /\ ClaimsDisjoint'
      BY <2>3 DEF ClaimsInv, WorkingInv, RestInv, ClaimsDisjoint, TypeOK
  <2> QED BY <2>4, <2>5 DEF ClaimsInv
<1>5. ASSUME NEW p \in Procs, clear_campaign_pause(p) PROVE ClaimsInv'
    BY <1>5 DEF clear_campaign_pause, Goto, vars, db, world, local, history, TypeOK, ClaimsInv, SelectedInv, WorkingInv, RestInv, ClaimsDisjoint, Points, AwaitPoints, ItemPoints, Procs
<1>6. ASSUME NEW p \in Procs, set_campaign_pause(p) PROVE ClaimsInv'
    BY <1>6 DEF set_campaign_pause, Goto, vars, db, world, local, history, TypeOK, ClaimsInv, SelectedInv, WorkingInv, RestInv, ClaimsDisjoint, Points, AwaitPoints, ItemPoints, Procs
<1>7. ASSUME NEW p \in Procs, CommitRequest(p) PROVE ClaimsInv'
  <2>1. \A q \in Procs \ {p} : \A c \in Campaigns : rowLock[c] = q => rowLock'[c] = q
      BY <1>7 DEF CommitRequest, Committed, Rollback, Unlocked, Goto, TypeOK
  <2>2. /\ pc' = [pc EXCEPT ![p] = pc'[p]] /\ claim' = [claim EXCEPT ![p] = claim'[p]]
        /\ UNCHANGED itemStatus
      BY <1>7 DEF CommitRequest, Committed, Rollback, Unlocked, Goto, TypeOK
  <2>3. pc'[p] \notin ItemPoints \cup {"claimed"} /\ claim'[p] = {}
      BY <1>7 DEF CommitRequest, Committed, Rollback, Unlocked, Goto, ItemPoints, TypeOK, ClaimsInv, RestInv
  <2> QED BY <2>1, <2>2, <2>3, ClaimGivenUp
<1>8. ASSUME NEW p \in Procs, ClaimBatch(p) PROVE ClaimsInv'
  <2> DEFINE S == FirstN(Claimable(p), BatchSize)
  <2>1. Claimable(p) \subseteq Nat /\ Claimable(p) # {}
      BY <1>8, IdsAssumption DEF ClaimBatch, Claimable
  <2> HIDE DEF S
  <2>2. S # {} /\ S \subseteq Claimable(p)
      BY <2>1, FirstNNonEmpty, BoundsAssumption DEF S
  <2>3. \A i \in S : /\ i \in Items /\ itemStatus[i] = "ready"
                      /\ CampaignOf[i] \in Campaigns
                      /\ rowLock[CampaignOf[i]] \in {None, p}
      BY <2>2, MapsAssumption DEF Claimable
  <2>4. /\ pc' = [pc EXCEPT ![p] = "claimed"] /\ claim' = [claim EXCEPT ![p] = S]
        /\ UNCHANGED itemStatus
        /\ \A c \in Campaigns : rowLock'[c] = IF \E i \in claim'[p] : CampaignOf[i] = c
                                              THEN p ELSE rowLock[c]
      BY <1>8 DEF ClaimBatch, Goto, S
  <2>5. claim'[p] = S /\ \A q \in Procs \ {p} : claim'[q] = claim[q] /\ pc'[q] = pc[q]
      BY <2>4 DEF TypeOK
  <2>6. \A q \in Procs \ {p} : \A i \in claim[q] : i \in Items /\ CampaignOf[i] \in Campaigns
      BY MapsAssumption DEF TypeOK
  <2>7. \A q \in Procs \ {p} : pc[q] = "claimed" =>
            \A i \in claim[q] : rowLock[CampaignOf[i]] = q /\ q # None
      BY NoneAssumption DEF ClaimsInv, SelectedInv
  <2>8. \A q \in Procs \ {p} : claim[q] \cap S = {}
      BY <2>3, <2>7 DEF ClaimsInv, WorkingInv, RestInv
  <2>9. SelectedInv'
    <3>1. ASSUME NEW q \in Procs, pc'[q] = "claimed", q # p
          PROVE  claim'[q] # {} /\ \A i \in claim'[q] : itemStatus'[i] = "ready" /\ rowLock'[CampaignOf[i]] = q
        BY <3>1, <2>3, <2>4, <2>5, <2>6, <2>7 DEF ClaimsInv, SelectedInv
    <3>2. claim'[p] # {} /\ \A i \in claim'[p] : itemStatus'[i] = "ready" /\ rowLock'[CampaignOf[i]] = p
        BY <2>2, <2>3, <2>4, <2>5
    <3> QED BY <3>1, <3>2 DEF SelectedInv
  <2>10. pc'[p] = "claimed"
      BY <2>4 DEF TypeOK
  <2>11. WorkingInv'
      BY <2>4, <2>5, <2>10 DEF ClaimsInv, WorkingInv, ItemPoints
  <2>12. RestInv'
      BY <2>5, <2>10 DEF ClaimsInv, RestInv
  <2>13. ClaimsDisjoint'
      BY <2>5, <2>8 DEF ClaimsInv, ClaimsDisjoint
  <2> QED BY <2>9, <2>11, <2>12, <2>13 DEF ClaimsInv
<1>9. ASSUME NEW p \in Procs, ClaimNothing(p) PROVE ClaimsInv'
    BY <1>9 DEF ClaimNothing, Goto, AfterBridge, vars, db, world, local, history, TypeOK, ClaimsInv, SelectedInv, WorkingInv, RestInv, ClaimsDisjoint, Points, AwaitPoints, ItemPoints, Procs
<1>10. ASSUME NEW p \in Procs, CommitClaim(p) PROVE ClaimsInv'
  <2>1. \A q \in Procs \ {p} : \A c \in Campaigns : rowLock[c] = q => rowLock'[c] = q
      BY <1>10 DEF CommitClaim, Unlocked, TypeOK
  <2>2. \A i \in Items : CampaignOf[i] \in Campaigns
      BY MapsAssumption
  <2>3. /\ pc' = [pc EXCEPT ![p] = "consent"] /\ UNCHANGED claim
        /\ \A i \in Items : itemStatus'[i] = IF i \in claim[p] THEN "pushing" ELSE itemStatus[i]
      BY <1>10 DEF CommitClaim, Goto, TypeOK
  <2>4. claim[p] # {}
      BY <1>10 DEF CommitClaim, ClaimsInv, SelectedInv
  <2>5. SelectedInv'
      BY <2>1, <2>2, <2>3 DEF ClaimsInv, SelectedInv, ClaimsDisjoint, TypeOK
  <2>6. pc'[p] = "consent" /\ \A q \in Procs \ {p} : pc'[q] = pc[q]
      BY <2>3 DEF TypeOK
  <2>7. WorkingInv'
      BY <2>3, <2>4, <2>6 DEF ClaimsInv, WorkingInv, ItemPoints, TypeOK
  <2>8. RestInv'
      BY <2>3, <2>6 DEF ClaimsInv, RestInv, ItemPoints
  <2>9. ClaimsDisjoint'
      BY <2>3 DEF ClaimsInv, ClaimsDisjoint
  <2> QED BY <2>5, <2>7, <2>8, <2>9 DEF ClaimsInv
<1>11. ASSUME NEW p \in Procs, SkipItem(p) PROVE ClaimsInv'
  <2>1. item(p) \in claim[p] /\ item(p) \in Items
      BY <1>11, ItemAtHand DEF ClaimsInv, WorkingInv, ItemPoints, SkipItem
  <2> QED BY <2>1, <1>11 DEF SkipItem, Settle, NextItem, Goto, AfterBridge, vars, db, world, local, history, TypeOK, ClaimsInv, SelectedInv, WorkingInv, RestInv, ClaimsDisjoint, Points, AwaitPoints, ItemPoints, Procs
<1>12. ASSUME NEW p \in Procs, PassConsent(p) PROVE ClaimsInv'
    BY <1>12 DEF PassConsent, Goto, vars, db, world, local, history, TypeOK, ClaimsInv, SelectedInv, WorkingInv, RestInv, ClaimsDisjoint, Points, AwaitPoints, ItemPoints, Procs
<1>13. ASSUME NEW p \in Procs, NoAccount(p) PROVE ClaimsInv'
  <2>1. item(p) \in claim[p] /\ item(p) \in Items
      BY <1>13, ItemAtHand DEF ClaimsInv, WorkingInv, ItemPoints, NoAccount
  <2> QED BY <2>1, <1>13 DEF NoAccount, Settle, NextItem, Goto, AfterBridge, vars, db, world, local, history, TypeOK, ClaimsInv, SelectedInv, WorkingInv, RestInv, ClaimsDisjoint, Points, AwaitPoints, ItemPoints, Procs
<1>14. ASSUME NEW p \in Procs, ChooseAccount(p) PROVE ClaimsInv'
    BY <1>14 DEF ChooseAccount, Goto, vars, db, world, local, history, TypeOK, ClaimsInv, SelectedInv, WorkingInv, RestInv, ClaimsDisjoint, Points, AwaitPoints, ItemPoints, Procs
<1>15. ASSUME NEW p \in Procs, Push(p) PROVE ClaimsInv'
    BY <1>15 DEF Push, Deliver, Goto, vars, db, world, local, history, TypeOK, ClaimsInv, SelectedInv, WorkingInv, RestInv, ClaimsDisjoint, Points, AwaitPoints, ItemPoints, Procs
<1>16. ASSUME NEW p \in Procs, MarkQueued(p) PROVE ClaimsInv'
  <2>1. item(p) \in claim[p] /\ item(p) \in Items
      BY <1>16, ItemAtHand DEF ClaimsInv, WorkingInv, ItemPoints, MarkQueued
  <2> QED BY <2>1, <1>16 DEF MarkQueued, Settle, NextItem, Goto, AfterBridge, vars, db, world, local, history, TypeOK, ClaimsInv, SelectedInv, WorkingInv, RestInv, ClaimsDisjoint, Points, AwaitPoints, ItemPoints, Procs
<1>17. ASSUME NEW p \in Procs, PauseCallFails(p) PROVE ClaimsInv'
  <2>1. \A q \in Procs \ {p} : \A c \in Campaigns : rowLock[c] = q => rowLock'[c] = q
      BY <1>17 DEF PauseCallFails, Rollback, Unlocked, Goto, TypeOK
  <2>2. /\ pc' = [pc EXCEPT ![p] = pc'[p]] /\ claim' = [claim EXCEPT ![p] = claim'[p]]
        /\ UNCHANGED itemStatus
      BY <1>17 DEF PauseCallFails, Rollback, Unlocked, Goto, TypeOK
  <2>3. pc'[p] \notin ItemPoints \cup {"claimed"} /\ claim'[p] = {}
      BY <1>17 DEF PauseCallFails, Rollback, Unlocked, Goto, ItemPoints, TypeOK, ClaimsInv, RestInv
  <2> QED BY <2>1, <2>2, <2>3, ClaimGivenUp
<1>18. ASSUME NEW p \in Procs, PushFails(p) PROVE ClaimsInv'
  <2>1. item(p) \in claim[p] /\ item(p) \in Items
      BY <1>18, ItemAtHand DEF ClaimsInv, WorkingInv, ItemPoints, PushFails
  <2> QED BY <2>1, <1>18 DEF PushFails, Deliver, Settle, NextItem, Goto, AfterBridge, vars, db, world, local, history, TypeOK, ClaimsInv, SelectedInv, WorkingInv, RestInv, ClaimsDisjoint, Points, AwaitPoints, ItemPoints, Procs
<1>19. ASSUME NEW p \in Procs, Abandon(p) PROVE ClaimsInv'
  <2>1. \A q \in Procs \ {p} : \A c \in Campaigns : rowLock[c] = q => rowLock'[c] = q
      BY <1>19 DEF Abandon, Rollback, Unlocked, Goto, TypeOK
  <2>2. /\ pc' = [pc EXCEPT ![p] = pc'[p]] /\ claim' = [claim EXCEPT ![p] = claim'[p]]
        /\ UNCHANGED itemStatus
      BY <1>19 DEF Abandon, Rollback, Unlocked, Goto, TypeOK
  <2>3. pc'[p] \notin ItemPoints \cup {"claimed"} /\ claim'[p] = {}
      BY <1>19 DEF Abandon, Rollback, Unlocked, Goto, ItemPoints, TypeOK, ClaimsInv, RestInv
  <2> QED BY <2>1, <2>2, <2>3, ClaimGivenUp
<1>20. ASSUME NEW c \in Campaigns, Prepare(c) PROVE ClaimsInv'
    BY <1>20 DEF Prepare, vars, db, world, local, history, TypeOK, ClaimsInv, SelectedInv, WorkingInv, RestInv, ClaimsDisjoint, Points, AwaitPoints, ItemPoints, Procs
<1>21. ASSUME NEW i \in Items, record_opt_out(i) PROVE ClaimsInv'
    BY <1>21 DEF record_opt_out, vars, db, world, local, history, TypeOK, ClaimsInv, SelectedInv, WorkingInv, RestInv, ClaimsDisjoint, Points, AwaitPoints, ItemPoints, Procs
<1>22. ASSUME NEW i \in Items, record_opt_in(i) PROVE ClaimsInv'
    BY <1>22 DEF record_opt_in, vars, db, world, local, history, TypeOK, ClaimsInv, SelectedInv, WorkingInv, RestInv, ClaimsDisjoint, Points, AwaitPoints, ItemPoints, Procs
<1>23. ASSUME NEW a \in Accounts, AccountStatusChanges(a) PROVE ClaimsInv'
    BY <1>23 DEF AccountStatusChanges, vars, db, world, local, history, TypeOK, ClaimsInv, SelectedInv, WorkingInv, RestInv, ClaimsDisjoint, Points, AwaitPoints, ItemPoints, Procs
<1>24. CASE UNCHANGED vars
    BY <1>24 DEF vars, db, world, local, history, TypeOK, ClaimsInv, SelectedInv, WorkingInv, RestInv, ClaimsDisjoint, Points, AwaitPoints, ItemPoints, Procs
<1> QED
    BY <1>1, <1>2, <1>3, <1>4, <1>5, <1>6, <1>7, <1>8, <1>9, <1>10, <1>11, <1>12, <1>13, <1>14, <1>15, <1>16, <1>17, <1>18, <1>19, <1>20, <1>21, <1>22, <1>23, <1>24 DEF Next, Run, Fail, Environment, Procs

---------------------------------------------------------------------------
(* Copies and ownership.                                                   *)

\* The copies of a message follow the state of its item.
LEMMA CountStep ==
    ASSUME TypeOK, LocalsInv, ClaimsInv, CountInv, [Next]_vars
    PROVE  CountInv'
<1>1. ASSUME NEW p \in Operators, NEW c \in Campaigns, StartRequest(p, c) PROVE CountInv'
    BY <1>1 DEF StartRequest, Request, Goto, STARTABLE_STATUSES, vars, db, world, local, history, TypeOK, CountInv, SettledCount, WorkingCount, Pushed, item, Points, AwaitPoints, ItemPoints, Procs
<1>2. ASSUME NEW p \in Operators, NEW c \in Campaigns, StopRequest(p, c) PROVE CountInv'
    BY <1>2 DEF StopRequest, Request, Goto, STOPPABLE_STATUSES, vars, db, world, local, history, TypeOK, CountInv, SettledCount, WorkingCount, Pushed, item, Points, AwaitPoints, ItemPoints, Procs
<1>3. ASSUME NEW p \in Procs, BeatTick(p) PROVE CountInv'
    BY <1>3 DEF BeatTick, Goto, vars, db, world, local, history, TypeOK, CountInv, SettledCount, WorkingCount, Pushed, item, Points, AwaitPoints, ItemPoints, Procs
<1>4. ASSUME NEW p \in Procs, Flush(p) PROVE CountInv'
    BY <1>4 DEF Flush, Goto, vars, db, world, local, history, TypeOK, CountInv, SettledCount, WorkingCount, Pushed, item, Points, AwaitPoints, ItemPoints, Procs
<1>5. ASSUME NEW p \in Procs, clear_campaign_pause(p) PROVE CountInv'
    BY <1>5 DEF clear_campaign_pause, Goto, vars, db, world, local, history, TypeOK, CountInv, SettledCount, WorkingCount, Pushed, item, Points, AwaitPoints, ItemPoints, Procs
<1>6. ASSUME NEW p \in Procs, set_campaign_pause(p) PROVE CountInv'
    BY <1>6 DEF set_campaign_pause, Goto, vars, db, world, local, history, TypeOK, CountInv, SettledCount, WorkingCount, Pushed, item, Points, AwaitPoints, ItemPoints, Procs
<1>7. ASSUME NEW p \in Procs, CommitRequest(p) PROVE CountInv'
    BY <1>7 DEF CommitRequest, Committed, Rollback, Unlocked, Goto, vars, db, world, local, history, TypeOK, CountInv, SettledCount, WorkingCount, Pushed, item, Points, AwaitPoints, ItemPoints, Procs
<1>8. ASSUME NEW p \in Procs, ClaimBatch(p) PROVE CountInv'
    BY <1>8 DEF ClaimBatch, Goto, vars, db, world, local, history, TypeOK, CountInv, SettledCount, WorkingCount, Pushed, item, Points, AwaitPoints, ItemPoints, Procs
<1>9. ASSUME NEW p \in Procs, ClaimNothing(p) PROVE CountInv'
    BY <1>9 DEF ClaimNothing, Goto, AfterBridge, vars, db, world, local, history, TypeOK, CountInv, SettledCount, WorkingCount, Pushed, item, Points, AwaitPoints, ItemPoints, Procs
<1>10. ASSUME NEW p \in Procs, CommitClaim(p) PROVE CountInv'
  <2>1. /\ pc' = [pc EXCEPT ![p] = "consent"] /\ UNCHANGED <<claim, pushedTo, lostReplies>>
        /\ \A i \in Items : itemStatus'[i] = IF i \in claim[p] THEN "pushing" ELSE itemStatus[i]
      BY <1>10 DEF CommitClaim, Goto, world, TypeOK
  <2>2. \A i \in claim[p] : i \in Items /\ itemStatus[i] = "ready"
      BY <1>10 DEF CommitClaim, ClaimsInv, SelectedInv, TypeOK
  <2>3. \A i \in Items : SettledCount(i)'
      BY <2>1, <2>2 DEF CountInv, SettledCount, TypeOK
  <2>4. \A q \in Procs : item(q)' = item(q)
      BY <2>1 DEF item
  <2>5. \A q \in Procs : WorkingCount(q)'
      BY <2>1, <2>2, <2>4 DEF CountInv, SettledCount, WorkingCount, Pushed, TypeOK
  <2> QED BY <2>3, <2>5 DEF CountInv
<1>11. ASSUME NEW p \in Procs, SkipItem(p) PROVE CountInv'
  <2>1. item(p) \in claim[p] /\ item(p) \in Items
      BY <1>11, ItemAtHand DEF ClaimsInv, WorkingInv, ItemPoints, SkipItem
  <2>2. /\ pc' = [pc EXCEPT ![p] = pc'[p]] /\ pc'[p] \in {"idle", "commit", "consent"}
        /\ claim' = [claim EXCEPT ![p] = @ \ {item(p)}]
        /\ itemStatus' = [itemStatus EXCEPT ![item(p)] = "skipped"]
        /\ UNCHANGED <<pushedTo, lostReplies>>
      BY <1>11 DEF SkipItem, Settle, NextItem, Goto, AfterBridge, world, history, TypeOK
  <2>3. Len(pushedTo[item(p)]) = lostReplies[item(p)]
      BY <2>1, <1>11 DEF SkipItem, CountInv, WorkingCount, Pushed, ItemPoints
  <2>4. \A i \in Items : SettledCount(i)'
      BY <2>1, <2>2, <2>3 DEF CountInv, SettledCount, TypeOK
  <2>5. \A q \in Procs : WorkingCount(q)'
    <3>1. SUFFICES ASSUME NEW q \in Procs, pc'[q] \in ItemPoints, NEW i \in claim'[q]
                   PROVE  /\ Pushed(q, i)' => Len(pushedTo'[i]) = lostReplies'[i] + 1
                          /\ ~ Pushed(q, i)' => Len(pushedTo'[i]) = lostReplies'[i]
        BY DEF WorkingCount
    <3>2. CASE q = p
        BY <3>1, <3>2, <2>1, <2>2, <1>11 DEF SkipItem, CountInv, WorkingCount, Pushed, ItemPoints, TypeOK
    <3>3. CASE q # p
        BY <3>1, <3>3, <2>2 DEF CountInv, WorkingCount, Pushed, item, TypeOK
    <3> QED BY <3>2, <3>3
  <2> QED BY <2>4, <2>5 DEF CountInv
<1>12. ASSUME NEW p \in Procs, PassConsent(p) PROVE CountInv'
    BY <1>12 DEF PassConsent, Goto, vars, db, world, local, history, TypeOK, CountInv, SettledCount, WorkingCount, Pushed, item, Points, AwaitPoints, ItemPoints, Procs
<1>13. ASSUME NEW p \in Procs, NoAccount(p) PROVE CountInv'
  <2>1. item(p) \in claim[p] /\ item(p) \in Items
      BY <1>13, ItemAtHand DEF ClaimsInv, WorkingInv, ItemPoints, NoAccount
  <2>2. /\ pc' = [pc EXCEPT ![p] = pc'[p]] /\ pc'[p] \in {"idle", "commit", "consent"}
        /\ claim' = [claim EXCEPT ![p] = @ \ {item(p)}]
        /\ itemStatus' = [itemStatus EXCEPT ![item(p)] = "ready"]
        /\ UNCHANGED <<pushedTo, lostReplies>>
      BY <1>13 DEF NoAccount, Settle, NextItem, Goto, AfterBridge, world, history, TypeOK
  <2>3. Len(pushedTo[item(p)]) = lostReplies[item(p)]
      BY <2>1, <1>13 DEF NoAccount, CountInv, WorkingCount, Pushed, ItemPoints
  <2>4. \A i \in Items : SettledCount(i)'
      BY <2>1, <2>2, <2>3 DEF CountInv, SettledCount, TypeOK
  <2>5. \A q \in Procs : WorkingCount(q)'
    <3>1. SUFFICES ASSUME NEW q \in Procs, pc'[q] \in ItemPoints, NEW i \in claim'[q]
                   PROVE  /\ Pushed(q, i)' => Len(pushedTo'[i]) = lostReplies'[i] + 1
                          /\ ~ Pushed(q, i)' => Len(pushedTo'[i]) = lostReplies'[i]
        BY DEF WorkingCount
    <3>2. CASE q = p
        BY <3>1, <3>2, <2>1, <2>2, <1>13 DEF NoAccount, CountInv, WorkingCount, Pushed, ItemPoints, TypeOK
    <3>3. CASE q # p
        BY <3>1, <3>3, <2>2 DEF CountInv, WorkingCount, Pushed, item, TypeOK
    <3> QED BY <3>2, <3>3
  <2> QED BY <2>4, <2>5 DEF CountInv
<1>14. ASSUME NEW p \in Procs, ChooseAccount(p) PROVE CountInv'
    BY <1>14 DEF ChooseAccount, Goto, vars, db, world, local, history, TypeOK, CountInv, SettledCount, WorkingCount, Pushed, item, Points, AwaitPoints, ItemPoints, Procs
<1>15. ASSUME NEW p \in Procs, Push(p) PROVE CountInv'
  <2>1. item(p) \in claim[p] /\ item(p) \in Items /\ itemStatus[item(p)] = "pushing"
      BY <1>15, ItemAtHand DEF ClaimsInv, WorkingInv, ItemPoints, Push
  <2>2. \A q \in Procs \ {p} : \A i \in claim[q] : i \in Items /\ i # item(p)
      BY <2>1 DEF ClaimsInv, ClaimsDisjoint, TypeOK
  <2>3. Len(pushedTo[item(p)]) = lostReplies[item(p)]
      BY <2>1, <1>15 DEF Push, CountInv, WorkingCount, Pushed, ItemPoints
  <2>4. /\ pushedTo' = [pushedTo EXCEPT ![item(p)] = pushedTo'[item(p)]]
        /\ Len(pushedTo'[item(p)]) = Len(pushedTo[item(p)]) + 1
        /\ pc' = [pc EXCEPT ![p] = "mark"] /\ UNCHANGED <<itemStatus, claim, lostReplies>>
      BY <2>1, <1>15, AppendProperties DEF Push, Deliver, Goto, db, local, history, TypeOK, LocalsInv
  <2>5. \A i \in Items : SettledCount(i)'
    <3>1. ASSUME NEW i \in Items, i # item(p) PROVE SettledCount(i)'
        BY <3>1, <2>1, <2>4 DEF CountInv, SettledCount, TypeOK
    <3>2. Len(pushedTo'[item(p)]) = lostReplies'[item(p)] + 1 /\ itemStatus'[item(p)] = "pushing"
        BY <2>1, <2>3, <2>4
    <3>3. ASSUME NEW i \in Items, i = item(p) PROVE SettledCount(i)'
        BY <3>2, <3>3, <2>1, <2>4 DEF SettledCount, TypeOK
    <3> QED BY <3>1, <3>3, <2>1
  <2>6. \A q \in Procs : item(q)' = item(q)
      BY <2>4 DEF item
  <2>7. \A q \in Procs : WorkingCount(q)'
    <3>1. SUFFICES ASSUME NEW q \in Procs, pc'[q] \in ItemPoints, NEW i \in claim'[q]
                   PROVE  /\ Pushed(q, i)' => Len(pushedTo'[i]) = lostReplies'[i] + 1
                          /\ ~ Pushed(q, i)' => Len(pushedTo'[i]) = lostReplies'[i]
        BY DEF WorkingCount
    <3>2. i \in claim[q] /\ i \in Items
        BY <3>1, <2>4 DEF TypeOK
    <3>3. CASE q = p
        BY <3>2, <3>3, <2>1, <2>3, <2>4, <2>6, <1>15 DEF Push, CountInv, WorkingCount, Pushed, ItemPoints, TypeOK
    <3>4. CASE q # p
        BY <3>1, <3>2, <3>4, <2>1, <2>2, <2>4, <2>6 DEF CountInv, WorkingCount, Pushed, TypeOK
    <3> QED BY <3>3, <3>4
  <2> QED BY <2>5, <2>7 DEF CountInv
<1>16. ASSUME NEW p \in Procs, MarkQueued(p) PROVE CountInv'
  <2>1. item(p) \in claim[p] /\ item(p) \in Items
      BY <1>16, ItemAtHand DEF ClaimsInv, WorkingInv, ItemPoints, MarkQueued
  <2>2. /\ pc' = [pc EXCEPT ![p] = pc'[p]] /\ pc'[p] \in {"idle", "commit", "consent"}
        /\ claim' = [claim EXCEPT ![p] = @ \ {item(p)}]
        /\ itemStatus' = [itemStatus EXCEPT ![item(p)] = "queued"]
        /\ UNCHANGED <<pushedTo, lostReplies>>
      BY <1>16 DEF MarkQueued, Settle, NextItem, Goto, AfterBridge, world, history, TypeOK
  <2>3. Len(pushedTo[item(p)]) = lostReplies[item(p)] + 1
      BY <2>1, <1>16 DEF MarkQueued, CountInv, WorkingCount, Pushed, ItemPoints
  <2>4. \A i \in Items : SettledCount(i)'
      BY <2>1, <2>2, <2>3 DEF CountInv, SettledCount, TypeOK
  <2>5. \A q \in Procs : WorkingCount(q)'
    <3>1. SUFFICES ASSUME NEW q \in Procs, pc'[q] \in ItemPoints, NEW i \in claim'[q]
                   PROVE  /\ Pushed(q, i)' => Len(pushedTo'[i]) = lostReplies'[i] + 1
                          /\ ~ Pushed(q, i)' => Len(pushedTo'[i]) = lostReplies'[i]
        BY DEF WorkingCount
    <3>2. CASE q = p
        BY <3>1, <3>2, <2>1, <2>2, <1>16 DEF MarkQueued, CountInv, WorkingCount, Pushed, ItemPoints, TypeOK
    <3>3. CASE q # p
        BY <3>1, <3>3, <2>2 DEF CountInv, WorkingCount, Pushed, item, TypeOK
    <3> QED BY <3>2, <3>3
  <2> QED BY <2>4, <2>5 DEF CountInv
<1>17. ASSUME NEW p \in Procs, PauseCallFails(p) PROVE CountInv'
    BY <1>17 DEF PauseCallFails, Rollback, Unlocked, Goto, vars, db, world, local, history, TypeOK, CountInv, SettledCount, WorkingCount, Pushed, item, Points, AwaitPoints, ItemPoints, Procs
<1>18. ASSUME NEW p \in Procs, PushFails(p) PROVE CountInv'
  <2>1. item(p) \in claim[p] /\ item(p) \in Items /\ itemStatus[item(p)] = "pushing"
      BY <1>18, ItemAtHand DEF ClaimsInv, WorkingInv, ItemPoints, PushFails
  <2>2. \A q \in Procs \ {p} : \A i \in claim[q] : i \in Items /\ i # item(p)
      BY <2>1 DEF ClaimsInv, ClaimsDisjoint, TypeOK
  <2>3. Len(pushedTo[item(p)]) = lostReplies[item(p)]
      BY <2>1, <1>18 DEF PushFails, CountInv, WorkingCount, Pushed, ItemPoints
  <2>4. /\ \A i \in Items : i # item(p) => pushedTo'[i] = pushedTo[i] /\ lostReplies'[i] = lostReplies[i]
        /\ Len(pushedTo'[item(p)]) = lostReplies'[item(p)]
    <3>1. CASE UNCHANGED <<pushedTo, lostReplies>>
        BY <3>1, <2>3
    <3>2. CASE Deliver(p) /\ lostReplies' = [lostReplies EXCEPT ![item(p)] = @ + 1]
        BY <3>2, <2>1, <2>3, <1>18, AppendProperties DEF PushFails, Deliver, TypeOK, LocalsInv
    <3> QED BY <3>1, <3>2, <1>18 DEF PushFails
  <2>5. /\ pc' = [pc EXCEPT ![p] = pc'[p]] /\ pc'[p] \in {"idle", "commit", "consent"}
        /\ claim' = [claim EXCEPT ![p] = @ \ {item(p)}]
        /\ itemStatus' = [itemStatus EXCEPT ![item(p)] = "ready"]
      BY <1>18 DEF PushFails, Settle, NextItem, Goto, AfterBridge, TypeOK
  <2>6. \A i \in Items : SettledCount(i)'
      BY <2>1, <2>4, <2>5 DEF CountInv, SettledCount, TypeOK
  <2>7. \A q \in Procs : WorkingCount(q)'
    <3>1. SUFFICES ASSUME NEW q \in Procs, pc'[q] \in ItemPoints, NEW i \in claim'[q]
                   PROVE  /\ Pushed(q, i)' => Len(pushedTo'[i]) = lostReplies'[i] + 1
                          /\ ~ Pushed(q, i)' => Len(pushedTo'[i]) = lostReplies'[i]
        BY DEF WorkingCount
    <3>2. CASE q = p
        BY <3>1, <3>2, <2>1, <2>4, <2>5, <1>18 DEF PushFails, CountInv, WorkingCount, Pushed, ItemPoints, TypeOK
    <3>3. CASE q # p
        BY <3>1, <3>3, <2>2, <2>4, <2>5 DEF CountInv, WorkingCount, Pushed, item, TypeOK
    <3> QED BY <3>2, <3>3
  <2> QED BY <2>6, <2>7 DEF CountInv
<1>19. ASSUME NEW p \in Procs, Abandon(p) PROVE CountInv'
    BY <1>19 DEF Abandon, Rollback, Unlocked, Goto, vars, db, world, local, history, TypeOK, CountInv, SettledCount, WorkingCount, Pushed, item, Points, AwaitPoints, ItemPoints, Procs
<1>20. ASSUME NEW c \in Campaigns, Prepare(c) PROVE CountInv'
    BY <1>20 DEF Prepare, vars, db, world, local, history, TypeOK, CountInv, SettledCount, WorkingCount, Pushed, item, Points, AwaitPoints, ItemPoints, Procs
<1>21. ASSUME NEW i \in Items, record_opt_out(i) PROVE CountInv'
    BY <1>21 DEF record_opt_out, vars, db, world, local, history, TypeOK, CountInv, SettledCount, WorkingCount, Pushed, item, Points, AwaitPoints, ItemPoints, Procs
<1>22. ASSUME NEW i \in Items, record_opt_in(i) PROVE CountInv'
    BY <1>22 DEF record_opt_in, vars, db, world, local, history, TypeOK, CountInv, SettledCount, WorkingCount, Pushed, item, Points, AwaitPoints, ItemPoints, Procs
<1>23. ASSUME NEW a \in Accounts, AccountStatusChanges(a) PROVE CountInv'
    BY <1>23 DEF AccountStatusChanges, vars, db, world, local, history, TypeOK, CountInv, SettledCount, WorkingCount, Pushed, item, Points, AwaitPoints, ItemPoints, Procs
<1>24. CASE UNCHANGED vars
    BY <1>24 DEF vars, db, world, local, history, TypeOK, CountInv, SettledCount, WorkingCount, Pushed, item, Points, AwaitPoints, ItemPoints, Procs
<1> QED
    BY <1>1, <1>2, <1>3, <1>4, <1>5, <1>6, <1>7, <1>8, <1>9, <1>10, <1>11, <1>12, <1>13, <1>14, <1>15, <1>16, <1>17, <1>18, <1>19, <1>20, <1>21, <1>22, <1>23, <1>24 DEF Next, Run, Fail, Environment, Procs

\* No step leaves an item PUSHING without an owner, except abandoning it.
LEMMA OwnedStep ==
    ASSUME TypeOK, ClaimsInv, PushingIsOwned, [Next]_vars
    PROVE  PushingIsOwned'
<1>1. ASSUME NEW p \in Operators, NEW c \in Campaigns, StartRequest(p, c) PROVE PushingIsOwned'
    BY <1>1 DEF StartRequest, Request, Goto, STARTABLE_STATUSES, vars, db, world, local, history, TypeOK, PushingIsOwned, Procs
<1>2. ASSUME NEW p \in Operators, NEW c \in Campaigns, StopRequest(p, c) PROVE PushingIsOwned'
    BY <1>2 DEF StopRequest, Request, Goto, STOPPABLE_STATUSES, vars, db, world, local, history, TypeOK, PushingIsOwned, Procs
<1>3. ASSUME NEW p \in Procs, BeatTick(p) PROVE PushingIsOwned'
    BY <1>3 DEF BeatTick, Goto, vars, db, world, local, history, TypeOK, PushingIsOwned, Procs
<1>4. ASSUME NEW p \in Procs, Flush(p) PROVE PushingIsOwned'
    BY <1>4 DEF Flush, Goto, vars, db, world, local, history, TypeOK, PushingIsOwned, Procs
<1>5. ASSUME NEW p \in Procs, clear_campaign_pause(p) PROVE PushingIsOwned'
    BY <1>5 DEF clear_campaign_pause, Goto, vars, db, world, local, history, TypeOK, PushingIsOwned, Procs
<1>6. ASSUME NEW p \in Procs, set_campaign_pause(p) PROVE PushingIsOwned'
    BY <1>6 DEF set_campaign_pause, Goto, vars, db, world, local, history, TypeOK, PushingIsOwned, Procs
<1>7. ASSUME NEW p \in Procs, CommitRequest(p) PROVE PushingIsOwned'
  <2>1. claim[p] = {}
      BY <1>7 DEF CommitRequest, ClaimsInv, RestInv, ItemPoints
  <2> QED BY <2>1, <1>7 DEF CommitRequest, Committed, Rollback, Unlocked, Goto, vars, db, world, local, history, TypeOK, PushingIsOwned, Procs
<1>8. ASSUME NEW p \in Procs, ClaimBatch(p) PROVE PushingIsOwned'
  <2>1. claim[p] = {}
      BY <1>8 DEF ClaimBatch, ClaimsInv, RestInv, ItemPoints
  <2> QED BY <2>1, <1>8 DEF ClaimBatch, Goto, vars, db, world, local, history, TypeOK, PushingIsOwned, Procs
<1>9. ASSUME NEW p \in Procs, ClaimNothing(p) PROVE PushingIsOwned'
    BY <1>9 DEF ClaimNothing, Goto, AfterBridge, vars, db, world, local, history, TypeOK, PushingIsOwned, Procs
<1>10. ASSUME NEW p \in Procs, CommitClaim(p) PROVE PushingIsOwned'
    BY <1>10 DEF CommitClaim, Committed, Unlocked, Goto, vars, db, world, local, history, TypeOK, PushingIsOwned, Procs
<1>11. ASSUME NEW p \in Procs, SkipItem(p) PROVE PushingIsOwned'
  <2>1. item(p) \in claim[p] /\ item(p) \in Items
      BY <1>11, ItemAtHand DEF ClaimsInv, WorkingInv, ItemPoints, SkipItem
  <2> QED BY <2>1, <1>11 DEF SkipItem, Settle, NextItem, Goto, AfterBridge, vars, db, world, local, history, TypeOK, PushingIsOwned, Procs
<1>12. ASSUME NEW p \in Procs, PassConsent(p) PROVE PushingIsOwned'
    BY <1>12 DEF PassConsent, Goto, vars, db, world, local, history, TypeOK, PushingIsOwned, Procs
<1>13. ASSUME NEW p \in Procs, NoAccount(p) PROVE PushingIsOwned'
  <2>1. item(p) \in claim[p] /\ item(p) \in Items
      BY <1>13, ItemAtHand DEF ClaimsInv, WorkingInv, ItemPoints, NoAccount
  <2> QED BY <2>1, <1>13 DEF NoAccount, Settle, NextItem, Goto, AfterBridge, vars, db, world, local, history, TypeOK, PushingIsOwned, Procs
<1>14. ASSUME NEW p \in Procs, ChooseAccount(p) PROVE PushingIsOwned'
    BY <1>14 DEF ChooseAccount, Goto, vars, db, world, local, history, TypeOK, PushingIsOwned, Procs
<1>15. ASSUME NEW p \in Procs, Push(p) PROVE PushingIsOwned'
    BY <1>15 DEF Push, Deliver, Goto, vars, db, world, local, history, TypeOK, PushingIsOwned, Procs
<1>16. ASSUME NEW p \in Procs, MarkQueued(p) PROVE PushingIsOwned'
  <2>1. item(p) \in claim[p] /\ item(p) \in Items
      BY <1>16, ItemAtHand DEF ClaimsInv, WorkingInv, ItemPoints, MarkQueued
  <2> QED BY <2>1, <1>16 DEF MarkQueued, Settle, NextItem, Goto, AfterBridge, vars, db, world, local, history, TypeOK, PushingIsOwned, Procs
<1>17. ASSUME NEW p \in Procs, PauseCallFails(p) PROVE PushingIsOwned'
  <2>1. claim[p] = {}
      BY <1>17 DEF PauseCallFails, ClaimsInv, RestInv, ItemPoints
  <2> QED BY <2>1, <1>17 DEF PauseCallFails, Rollback, Unlocked, Goto, vars, db, world, local, history, TypeOK, PushingIsOwned, Procs
<1>18. ASSUME NEW p \in Procs, PushFails(p) PROVE PushingIsOwned'
  <2>1. item(p) \in claim[p] /\ item(p) \in Items
      BY <1>18, ItemAtHand DEF ClaimsInv, WorkingInv, ItemPoints, PushFails
  <2> QED BY <2>1, <1>18 DEF PushFails, Deliver, Settle, NextItem, Goto, AfterBridge, vars, db, world, local, history, TypeOK, PushingIsOwned, Procs
<1>19. ASSUME NEW p \in Procs, Abandon(p) PROVE PushingIsOwned'
    BY <1>19 DEF Abandon, Rollback, Unlocked, Goto, vars, db, world, local, history, TypeOK, PushingIsOwned, Procs
<1>20. ASSUME NEW c \in Campaigns, Prepare(c) PROVE PushingIsOwned'
    BY <1>20 DEF Prepare, vars, db, world, local, history, TypeOK, PushingIsOwned, Procs
<1>21. ASSUME NEW i \in Items, record_opt_out(i) PROVE PushingIsOwned'
    BY <1>21 DEF record_opt_out, vars, db, world, local, history, TypeOK, PushingIsOwned, Procs
<1>22. ASSUME NEW i \in Items, record_opt_in(i) PROVE PushingIsOwned'
    BY <1>22 DEF record_opt_in, vars, db, world, local, history, TypeOK, PushingIsOwned, Procs
<1>23. ASSUME NEW a \in Accounts, AccountStatusChanges(a) PROVE PushingIsOwned'
    BY <1>23 DEF AccountStatusChanges, vars, db, world, local, history, TypeOK, PushingIsOwned, Procs
<1>24. CASE UNCHANGED vars
    BY <1>24 DEF vars, db, world, local, history, TypeOK, PushingIsOwned, Procs
<1> QED
    BY <1>1, <1>2, <1>3, <1>4, <1>5, <1>6, <1>7, <1>8, <1>9, <1>10, <1>11, <1>12, <1>13, <1>14, <1>15, <1>16, <1>17, <1>18, <1>19, <1>20, <1>21, <1>22, <1>23, <1>24 DEF Next, Run, Fail, Environment, Procs

---------------------------------------------------------------------------
(* The theorems.                                                           *)

LEMMA InitInv == Init => IInv
<1> SUFFICES ASSUME Init PROVE IInv
    OBVIOUS
<1>1. TypeOK
    BY DEF Init, TypeOK, FreshCursor, ItemStatuses, CampaignStatuses, Points, AwaitPoints,
           StatusOrNone
<1>2. LocalsInv /\ ClaimsInv /\ PushingIsOwned
    BY DEF Init, LocalsInv, ClaimsInv, SelectedInv, WorkingInv, RestInv, ClaimsDisjoint,
           PushingIsOwned, ItemPoints
<1>3. CountInv
    BY DEF Init, CountInv, SettledCount, WorkingCount, ItemPoints
<1> QED BY <1>1, <1>2, <1>3 DEF IInv

LEMMA StepInv == IInv /\ [Next]_vars => IInv'
<1> SUFFICES ASSUME IInv, [Next]_vars PROVE IInv'
    OBVIOUS
<1>1. TypeOK /\ LocalsInv /\ ClaimsInv /\ WorkingInv /\ CountInv /\ PushingIsOwned
    BY DEF IInv, ClaimsInv
<1>2. TypeOK' /\ LocalsInv'
    BY <1>1, TypeStep, LocalsStep
<1>3. ClaimsInv' /\ CountInv' /\ PushingIsOwned'
    BY <1>1, ClaimsStep, CountStep, OwnedStep
<1> QED BY <1>2, <1>3 DEF IInv

\* The inductive invariant holds in every reachable state.
THEOREM Invariance == Spec => []IInv
BY InitInv, StepInv, PTL DEF Spec

\* The bridge's state stays well typed (queue_bridge.py, campaign_control.py).
THEOREM TypeCorrect == Spec => []TypeOK
<1>1. IInv => TypeOK
    BY DEF IInv
<1> QED BY <1>1, Invariance, PTL

\* However many bridge runs overlap, no two of them ever hold the same staged
\* item: SELECT ... FOR UPDATE SKIP LOCKED followed by the PUSHING commit is a
\* correct claim protocol (queue_bridge.py).
THEOREM ClaimExclusive == Spec => []ClaimsDisjoint
<1>1. IInv => ClaimsDisjoint
    BY DEF IInv, ClaimsInv
<1> QED BY <1>1, Invariance, PTL

\* The worker queues receive a message at most once plus once per lost reply,
\* for any number of runs, crashes and restarts (queue_bridge.py).
THEOREM BoundedDuplication == Spec => []AtMostOncePlusLostReplies
<1>1. IInv => AtMostOncePlusLostReplies
  <2> SUFFICES ASSUME IInv, NEW i \in Items PROVE Len(pushedTo[i]) <= lostReplies[i] + 1
      BY DEF AtMostOncePlusLostReplies
  <2>1. TypeOK /\ SettledCount(i)
      BY DEF IInv, CountInv
  <2>2. itemStatus[i] \in ItemStatuses /\ lostReplies[i] \in Nat
      BY <2>1 DEF TypeOK
  <2> QED BY <2>1, <2>2 DEF SettledCount, ItemStatuses
<1> QED BY <1>1, Invariance, PTL

\* A staged item's status says exactly how often its message was pushed, up to
\* lost replies (queue_bridge.py).
THEOREM StatusIsHonest == Spec => []StatusTellsDelivery
<1>1. IInv => StatusTellsDelivery
    BY DEF IInv, CountInv, SettledCount, StatusTellsDelivery
<1> QED BY <1>1, Invariance, PTL

\* Every PUSHING item has a live owner or was abandoned by a run that died
\* (queue_bridge.py).
THEOREM PushingOwned == Spec => []PushingIsOwned
<1>1. IInv => PushingIsOwned
    BY DEF IInv
<1> QED BY <1>1, Invariance, PTL
---------------------------------------------------------------------------
(* The bridge implements MessageLife.                                      *)

\* What one step may do to an item.
Kept(i)     == UNCHANGED <<pushedTo[i], lostReplies[i]>>
Stays(i)    == itemStatus'[i] = itemStatus[i] /\ Kept(i)
Staged(i)   == itemStatus[i] = "absent" /\ itemStatus'[i] = "ready" /\ Kept(i)
Claims(i)   == itemStatus[i] = "ready" /\ itemStatus'[i] = "pushing" /\ Kept(i)
Unsent(i)   == itemStatus[i] = "pushing" /\ Len(pushedTo[i]) = lostReplies[i]
Returns(i)  == Unsent(i) /\ itemStatus'[i] \in {"ready", "skipped"} /\ Kept(i)
Marks(i)    == /\ itemStatus[i] = "pushing" /\ Len(pushedTo[i]) = lostReplies[i] + 1
               /\ itemStatus'[i] = "queued" /\ Kept(i)
Copied(i)   == Len(pushedTo'[i]) = Len(pushedTo[i]) + 1
Sends(i)    == Unsent(i) /\ itemStatus'[i] = "pushing" /\ Copied(i) /\ lostReplies'[i] = lostReplies[i]
Doubts(i)   == /\ Unsent(i) /\ itemStatus'[i] = "ready" /\ Copied(i)
               /\ lostReplies'[i] = lostReplies[i] + 1
ItemMoves(i) == \/ Stays(i) \/ Staged(i) \/ Claims(i) \/ Returns(i) \/ Marks(i)
                \/ Sends(i) \/ Doubts(i)

\* The item at hand of a run that has not pushed it yet.
LEMMA AtHand ==
    ASSUME IInv, NEW p \in Procs, pc[p] \in ItemPoints
    PROVE  /\ item(p) \in claim[p] /\ item(p) \in Items /\ itemStatus[item(p)] = "pushing"
           /\ pc[p] # "mark" => Unsent(item(p))
           /\ pc[p] = "mark" => Len(pushedTo[item(p)]) = lostReplies[item(p)] + 1
<1>1. TypeOK /\ WorkingInv /\ WorkingCount(p)
    BY DEF IInv, ClaimsInv, CountInv
<1>2. claim[p] # {} /\ item(p) \in claim[p] /\ item(p) \in Items /\ itemStatus[item(p)] = "pushing"
    BY <1>1, ItemAtHand DEF WorkingInv
<1> QED BY <1>1, <1>2 DEF WorkingCount, Pushed, Unsent

LEMMA ItemStep ==
    ASSUME IInv, [Next]_vars, NEW i \in Items
    PROVE  ItemMoves(i)
<1> USE DEF ItemMoves
<1>1. TypeOK
    BY DEF IInv
<1>2. ASSUME UNCHANGED <<itemStatus, pushedTo, lostReplies>> PROVE ItemMoves(i)
    BY <1>2 DEF Stays, Kept
<1>3. ASSUME NEW p \in Procs, CommitClaim(p) PROVE ItemMoves(i)
  <2>1. i \in claim[p] => itemStatus[i] = "ready"
      BY <1>3 DEF CommitClaim, IInv, ClaimsInv, SelectedInv
  <2> QED BY <2>1, <1>1, <1>3 DEF CommitClaim, world, Claims, Stays, Kept, TypeOK
<1>4. ASSUME NEW p \in Procs, NEW status \in {"ready", "skipped"}, pc[p] \in {"consent", "account"},
             Settle(p, status), UNCHANGED <<pushedTo, lostReplies>>
      PROVE ItemMoves(i)
  <2>1. Unsent(item(p)) /\ item(p) \in Items
      BY <1>4, AtHand DEF ItemPoints
  <2> QED BY <2>1, <1>1, <1>4 DEF Settle, Returns, Stays, Kept, TypeOK
<1>5. ASSUME NEW p \in Procs, Push(p) PROVE ItemMoves(i)
  <2>1. Unsent(item(p)) /\ item(p) \in Items
      BY <1>5, AtHand DEF ItemPoints, Push
  <2>2. pushedTo[item(p)] \in Seq(Accounts) /\ target[p] \in Accounts
      BY <2>1, <1>1, <1>5 DEF TypeOK, Push, IInv, LocalsInv
  <2>3. Len(Append(pushedTo[item(p)], target[p])) = Len(pushedTo[item(p)]) + 1
      BY <2>2, AppendProperties
  <2> QED BY <2>1, <2>3, <1>1, <1>5 DEF Push, Deliver, db, history, Sends, Copied, Unsent, Stays, Kept, TypeOK
<1>6. ASSUME NEW p \in Procs, PushFails(p) PROVE ItemMoves(i)
  <2>1. Unsent(item(p)) /\ item(p) \in Items
      BY <1>6, AtHand DEF ItemPoints, PushFails
  <2>2. pushedTo[item(p)] \in Seq(Accounts) /\ target[p] \in Accounts
      BY <2>1, <1>1, <1>6 DEF TypeOK, PushFails, IInv, LocalsInv
  <2>3. Len(Append(pushedTo[item(p)], target[p])) = Len(pushedTo[item(p)]) + 1
      BY <2>2, AppendProperties
  <2>4. itemStatus' = [itemStatus EXCEPT ![item(p)] = "ready"]
      BY <1>6 DEF PushFails, Settle
  <2>5. CASE UNCHANGED <<pushedTo, lostReplies>>
      BY <2>1, <2>4, <2>5, <1>1 DEF Returns, Stays, Kept, TypeOK
  <2>6. CASE Deliver(p) /\ lostReplies' = [lostReplies EXCEPT ![item(p)] = @ + 1]
      BY <2>1, <2>3, <2>4, <2>6, <1>1 DEF Deliver, Doubts, Copied, Unsent, Stays, Kept, TypeOK
  <2> QED BY <2>5, <2>6, <1>6 DEF PushFails
<1>7. ASSUME NEW p \in Procs, MarkQueued(p) PROVE ItemMoves(i)
  <2>1. item(p) \in Items /\ itemStatus[item(p)] = "pushing" /\ Len(pushedTo[item(p)]) = lostReplies[item(p)] + 1
      BY <1>7, AtHand DEF ItemPoints, MarkQueued
  <2> QED BY <2>1, <1>1, <1>7 DEF MarkQueued, Settle, world, history, Marks, Stays, Kept, TypeOK
<1>8. ASSUME NEW c \in Campaigns, Prepare(c) PROVE ItemMoves(i)
    BY <1>1, <1>8 DEF Prepare, world, history, Staged, Stays, Kept, TypeOK
<1>9. ASSUME NEW p \in Procs, Run(p) \/ Fail(p) PROVE ItemMoves(i)
  <2>1. CASE SkipItem(p)
      BY <2>1, <1>4 DEF SkipItem, world, history
  <2>2. CASE NoAccount(p)
      BY <2>2, <1>4 DEF NoAccount, world, history
  <2>3. CASE \/ Flush(p) \/ clear_campaign_pause(p) \/ set_campaign_pause(p) \/ CommitRequest(p)
             \/ ClaimBatch(p) \/ ClaimNothing(p) \/ PassConsent(p) \/ ChooseAccount(p)
             \/ PauseCallFails(p) \/ Abandon(p)
      BY <2>3, <1>2 DEF Flush, clear_campaign_pause, set_campaign_pause, CommitRequest, ClaimBatch,
             ClaimNothing, PassConsent, ChooseAccount, PauseCallFails, Abandon, db, world, history
  <2> QED BY <2>1, <2>2, <2>3, <1>3, <1>5, <1>6, <1>7, <1>9 DEF Run, Fail
<1>10. ASSUME \/ \E p \in Operators, c \in Campaigns : StartRequest(p, c) \/ StopRequest(p, c)
              \/ \E p \in Beats : BeatTick(p)
              \/ \E j \in Items : record_opt_out(j) \/ record_opt_in(j)
              \/ \E a \in Accounts : AccountStatusChanges(a)
              \/ UNCHANGED vars
       PROVE ItemMoves(i)
    BY <1>2, <1>10 DEF StartRequest, StopRequest, Request, BeatTick, record_opt_out, record_opt_in,
           AccountStatusChanges, vars, db, world, history
<1> QED BY <1>8, <1>9, <1>10 DEF Next, Environment

\* Each of them is a step of the message's life, or none.
LEMMA MoveIsLife ==
    ASSUME IInv, NEW i \in Items, ItemMoves(i)
    PROVE  LifeOf(i)' = LifeOf(i) \/ Life!Step(LifeOf(i), LifeOf(i)')
<1>1. lostReplies[i] \in Nat /\ SettledCount(i)
    BY DEF IInv, TypeOK, CountInv
<1> USE DEF LifeOf, Life!Step, Life!Moved, Life!Waiting, Life!Taken, Life!Passed, Life!Over
<1>2. CASE Stays(i) \/ Staged(i)
    BY <1>2 DEF Stays, Staged, Kept
<1>3. CASE Claims(i)
    BY <1>1, <1>3 DEF Claims, Kept, SettledCount, Life!Take
<1>4. CASE Returns(i)
    BY <1>1, <1>4 DEF Returns, Unsent, Kept, Life!GiveBack, Life!End
<1>5. CASE Marks(i)
    BY <1>1, <1>5 DEF Marks, Kept, Life!End
<1>6. CASE Sends(i)
    BY <1>1, <1>6 DEF Sends, Unsent, Copied, Life!Pass
<1>7. CASE Doubts(i)
    BY <1>1, <1>7 DEF Doubts, Unsent, Copied, Life!Doubt
<1> QED BY <1>2, <1>3, <1>4, <1>5, <1>6, <1>7 DEF ItemMoves

\* The bridge is a correct stage of the pipeline, for any number of runs, requests, items and
\* faults: whatever it does to a staged item is a step of MessageLife (queue_bridge.py).
THEOREM BridgeImplementsLife == Spec => ItemsLive
<1>1. Init => Life!LifeInit
  <2> SUFFICES ASSUME Init, NEW i \in Items
               PROVE  LifeOf(i) = [at |-> "waiting", copies |-> 0, doubts |-> 0]
      BY DEF Life!LifeInit, Life!Waiting
  <2> QED BY DEF Init, LifeOf
<1>2. IInv /\ [Next]_vars => [Life!LifeNext]_([i \in Items |-> LifeOf(i)])
  <2> SUFFICES ASSUME IInv, [Next]_vars PROVE Life!LifeNext
      OBVIOUS
  <2>1. \A i \in Items : LifeOf(i)' = LifeOf(i) \/ Life!Step(LifeOf(i), LifeOf(i)')
      BY ItemStep, MoveIsLife
  <2> QED BY <2>1 DEF Life!LifeNext
<1> QED BY <1>1, <1>2, Invariance, PTL DEF Spec, ItemsLive, Life!LifeSpec

---------------------------------------------------------------------------
(* Claims are permitted.                                                   *)

\* A status that was flushed and not committed is under its request's row lock.
Flushing == {"flushStart", "flushStop"}
PendingIsLocked ==
    \A p \in Procs : wrote[p] # None /\ pc[p] \notin Flushing =>
        camp[p] \in Campaigns /\ rowLock[camp[p]] = p

\* Whoever has selected items still sees their campaigns RUNNING.
SelectedRunning ==
    \A p \in Procs : pc[p] = "claimed" =>
        \A i \in claim[p] : Status(p, CampaignOf[i]) = "running"

\* The contact of a claimed item was allowed since the claim, or is blocked and
\* will be found so; past that check it was allowed.
ConsentInv ==
    /\ \A p \in Procs : pc[p] \in ItemPoints => claim[p] \subseteq consented \cup blocked
    /\ \A p \in Procs : pc[p] \in {"account", "push"} => item(p) \in consented

PermitInv == PendingIsLocked /\ SelectedRunning /\ ConsentInv

\* A commit writes nothing but the campaign row its transaction has locked.
LEMMA CommitsOwnRow ==
    ASSUME TypeOK, PendingIsLocked, NEW p \in Procs, pc[p] \notin Flushing,
           NEW c \in Campaigns, rowLock[c] # p
    PROVE  Committed(p)[c] = campaignStatus[c]
BY DEF Committed, PendingIsLocked, TypeOK

\* A transaction's own locks outlive what other processes do to theirs.
Keeps(q) == /\ pc'[q] = pc[q] /\ claim'[q] = claim[q]
            /\ camp'[q] = camp[q] /\ wrote'[q] = wrote[q]
            /\ \A c \in Campaigns : rowLock[c] = q => rowLock'[c] = q

LEMMA PendingStep ==
    ASSUME TypeOK, LocalsInv, PendingIsLocked, [Next]_vars
    PROVE  PendingIsLocked'
<1> DEFINE Holds(q) == /\ wrote'[q] = wrote[q] /\ camp'[q] = camp[q]
                       /\ pc[q] \notin Flushing \/ pc'[q] \in Flushing
                       /\ \A c \in Campaigns : rowLock[c] = q => rowLock'[c] = q
<1>1. ASSUME \A q \in Procs : \/ wrote'[q] = None \/ pc'[q] \in Flushing \/ Holds(q)
      PROVE PendingIsLocked'
    BY <1>1 DEF PendingIsLocked
<1>2. ASSUME NEW p \in Procs, wrote'[p] = None \/ pc'[p] \in Flushing,
             \A q \in Procs \ {p} : Keeps(q)
      PROVE PendingIsLocked'
    BY <1>2 DEF PendingIsLocked, Keeps
<1>3. ASSUME NEW p \in Operators, NEW c \in Campaigns, StartRequest(p, c) \/ StopRequest(p, c)
      PROVE PendingIsLocked'
  <2>1. p \in Procs
      BY DEF Procs
  <2>2. wrote'[p] = None \/ pc'[p] \in Flushing
      BY <2>1, <1>3 DEF StartRequest, StopRequest, Request, Goto, Flushing, TypeOK
  <2>3. \A q \in Procs \ {p} : Keeps(q)
      BY <2>1, <1>3 DEF StartRequest, StopRequest, Request, Goto, db, TypeOK, Keeps
  <2> QED BY <2>1, <2>2, <2>3, <1>2
<1>4. ASSUME NEW p \in Procs, CommitRequest(p) \/ PauseCallFails(p) \/ Abandon(p) \/ CommitClaim(p)
      PROVE PendingIsLocked'
  <2>1. wrote'[p] = None /\ \A q \in Procs \ {p} : Keeps(q)
      BY <1>4 DEF CommitRequest, PauseCallFails, Abandon, Rollback, CommitClaim, Unlocked, Goto, TypeOK, Keeps
  <2> QED BY <2>1, <1>2
<1>5. ASSUME NEW p \in Procs, Flush(p) PROVE PendingIsLocked'
  <2>1. camp[p] \in Campaigns /\ rowLock[camp[p]] = None
      BY <1>5 DEF Flush, LocalsInv
  <2>2. /\ rowLock' = [rowLock EXCEPT ![camp[p]] = p] /\ pc' = [pc EXCEPT ![p] = pc'[p]]
        /\ UNCHANGED <<wrote, camp>>
      BY <1>5 DEF Flush, Goto, local, TypeOK
  <2>3. SUFFICES ASSUME NEW q \in Procs, wrote[q] # None, pc'[q] \notin Flushing
                 PROVE  camp[q] \in Campaigns /\ rowLock'[camp[q]] = q
      BY <2>2 DEF PendingIsLocked
  <2>4. CASE q = p
      BY <2>1, <2>2, <2>4 DEF TypeOK
  <2>5. CASE q # p
    <3>1. camp[q] \in Campaigns /\ rowLock[camp[q]] = q
        BY <2>2, <2>3, <2>5 DEF PendingIsLocked, TypeOK
    <3>2. camp[q] # camp[p]
        BY <2>1, <3>1, NoneAssumption
    <3> QED BY <2>1, <2>2, <3>1, <3>2 DEF TypeOK
  <2> QED BY <2>4, <2>5
<1>6. ASSUME NEW p \in Procs, ClaimBatch(p) PROVE PendingIsLocked'
  <2>1. claim'[p] \subseteq Claimable(p)
      BY <1>6 DEF ClaimBatch, FirstN, TypeOK
  <2>2. \A i \in claim'[p] : rowLock[CampaignOf[i]] \in {None, p}
      BY <2>1 DEF Claimable
  <2>3. \A c \in Campaigns : rowLock'[c] = IF \E i \in claim'[p] : CampaignOf[i] = c
                                           THEN p ELSE rowLock[c]
      BY <1>6 DEF ClaimBatch
  <2>4. \A q \in Procs : \A c \in Campaigns : rowLock[c] = q => rowLock'[c] = q
      BY <2>2, <2>3, NoneAssumption
  <2>5. UNCHANGED <<wrote, camp>> /\ \A q \in Procs : pc[q] \notin Flushing \/ pc'[q] \in Flushing
      BY <1>6 DEF ClaimBatch, Goto, Flushing, TypeOK
  <2> QED BY <2>4, <2>5, <1>1
<1>7. ASSUME NEW p \in Procs, \/ BeatTick(p) \/ clear_campaign_pause(p) \/ set_campaign_pause(p)
                              \/ ClaimNothing(p) \/ SkipItem(p) \/ PassConsent(p) \/ NoAccount(p)
                              \/ ChooseAccount(p) \/ Push(p) \/ MarkQueued(p) \/ PushFails(p)
      PROVE PendingIsLocked'
  <2>1. UNCHANGED <<wrote, camp, rowLock>>
      BY <1>7 DEF BeatTick, clear_campaign_pause, set_campaign_pause, ClaimNothing, SkipItem, PassConsent,
             NoAccount, ChooseAccount, Push, MarkQueued, PushFails, db, local
  <2>2. pc[p] \notin Flushing /\ \A q \in Procs \ {p} : pc'[q] = pc[q]
      BY <1>7 DEF BeatTick, clear_campaign_pause, set_campaign_pause, ClaimNothing, SkipItem, PassConsent,
             NoAccount, ChooseAccount, Push, MarkQueued, PushFails, NextItem, Goto, Flushing, TypeOK
  <2> QED BY <2>1, <2>2, <1>1
<1>8. ASSUME \/ \E c \in Campaigns : Prepare(c)
             \/ \E i \in Items : record_opt_out(i) \/ record_opt_in(i)
             \/ \E a \in Accounts : AccountStatusChanges(a)
             \/ UNCHANGED vars
      PROVE PendingIsLocked'
  <2>1. UNCHANGED <<wrote, camp, rowLock, pc>>
      BY <1>8 DEF Prepare, record_opt_out, record_opt_in, AccountStatusChanges, vars, db, local
  <2> QED BY <2>1, <1>1
<1> QED
    BY <1>3, <1>4, <1>5, <1>6, <1>7, <1>8 DEF Next, Run, Fail, Environment, Procs

\* What a run has selected is kept as it saw it: nobody else commits those rows.
Untouched(q) == /\ pc[q] = "claimed" /\ Keeps(q)
                /\ \A i \in claim[q] :
                      campaignStatus'[CampaignOf[i]] = campaignStatus[CampaignOf[i]]

LEMMA SelectedStep ==
    ASSUME TypeOK, ClaimsInv, ClaimsInv', PendingIsLocked, SelectedRunning, [Next]_vars
    PROVE  SelectedRunning'
<1> DEFINE Safe(q) == pc'[q] = "claimed" => Untouched(q)
<1>1. ASSUME NEW q \in Procs, Safe(q), pc'[q] = "claimed", NEW i \in claim'[q]
      PROVE  Status(q, CampaignOf[i])' = "running"
  <2>1. pc[q] = "claimed" /\ claim'[q] = claim[q] /\ claim[q] \subseteq Items
      BY <1>1 DEF Untouched, Keeps, TypeOK
  <2>2. /\ CampaignOf[i] \in Campaigns /\ rowLock[CampaignOf[i]] = q
        /\ Status(q, CampaignOf[i]) = "running"
      BY <1>1, <2>1, MapsAssumption DEF ClaimsInv, SelectedInv, SelectedRunning
  <2> QED BY <1>1, <2>1, <2>2 DEF Untouched, Keeps, Status
<1>2. ASSUME \A q \in Procs : Safe(q) PROVE SelectedRunning'
    BY <1>1, <1>2 DEF SelectedRunning
<1> HIDE DEF Safe
<1>3. ASSUME NEW p \in Procs, pc'[p] # "claimed", \A q \in Procs \ {p} : Keeps(q),
             \A c \in Campaigns : campaignStatus'[c] = campaignStatus[c] \/ rowLock[c] \in {None, p}
      PROVE SelectedRunning'
  <2>1. SUFFICES ASSUME NEW q \in Procs, pc'[q] = "claimed" PROVE Untouched(q)
      BY <1>2 DEF Safe
  <2>2. q # p /\ pc[q] = "claimed" /\ Keeps(q)
      BY <1>3, <2>1 DEF Keeps
  <2>3. \A i \in claim[q] : CampaignOf[i] \in Campaigns /\ rowLock[CampaignOf[i]] = q
      BY <2>2, MapsAssumption DEF ClaimsInv, SelectedInv, TypeOK
  <2>4. \A i \in claim[q] : campaignStatus'[CampaignOf[i]] = campaignStatus[CampaignOf[i]]
      BY <1>3, <2>2, <2>3, NoneAssumption
  <2> QED BY <2>2, <2>4 DEF Untouched
<1>4. ASSUME NEW p \in Procs, CommitRequest(p) \/ CommitClaim(p) PROVE SelectedRunning'
  <2>1. campaignStatus' = Committed(p) /\ pc[p] \notin Flushing /\ pc'[p] # "claimed"
      BY <1>4 DEF CommitRequest, CommitClaim, Rollback, Goto, Flushing, TypeOK
  <2>2. \A q \in Procs \ {p} : Keeps(q)
      BY <1>4 DEF CommitRequest, CommitClaim, Rollback, Unlocked, Goto, TypeOK, Keeps
  <2>3. \A c \in Campaigns : campaignStatus'[c] = campaignStatus[c] \/ rowLock[c] \in {None, p}
      BY <2>1, CommitsOwnRow
  <2> QED BY <2>1, <2>2, <2>3, <1>3
<1>5. ASSUME NEW p \in Procs, PauseCallFails(p) \/ Abandon(p) PROVE SelectedRunning'
  <2>1. UNCHANGED campaignStatus /\ pc'[p] # "claimed"
      BY <1>5 DEF PauseCallFails, Abandon, Rollback, Goto, TypeOK
  <2>2. \A q \in Procs \ {p} : Keeps(q)
      BY <1>5 DEF PauseCallFails, Abandon, Rollback, Unlocked, Goto, TypeOK, Keeps
  <2> QED BY <2>1, <2>2, <1>3
<1>6. ASSUME NEW p \in Procs, Flush(p) PROVE SelectedRunning'
  <2>1. UNCHANGED campaignStatus /\ pc'[p] # "claimed"
      BY <1>6 DEF Flush, Goto, TypeOK
  <2>2. \A q \in Procs \ {p} : Keeps(q)
      BY <1>6, NoneAssumption DEF Flush, Goto, local, TypeOK, Keeps
  <2> QED BY <2>1, <2>2, <1>3
<1>7. ASSUME NEW p \in Operators, NEW c \in Campaigns, StartRequest(p, c) \/ StopRequest(p, c)
      PROVE SelectedRunning'
  <2>1. p \in Procs
      BY DEF Procs
  <2>2. UNCHANGED campaignStatus /\ pc'[p] # "claimed"
      BY <2>1, <1>7 DEF StartRequest, StopRequest, Request, Goto, db, TypeOK
  <2>3. \A q \in Procs \ {p} : Keeps(q)
      BY <2>1, <1>7 DEF StartRequest, StopRequest, Request, Goto, db, TypeOK, Keeps
  <2> QED BY <2>1, <2>2, <2>3, <1>3
<1>8. ASSUME NEW p \in Procs, ClaimBatch(p) PROVE SelectedRunning'
  <2>1. claim'[p] \subseteq Claimable(p) /\ pc[p] = "bridge"
      BY <1>8 DEF ClaimBatch, FirstN, TypeOK
  <2>2. \A c \in Campaigns : rowLock'[c] = IF \E i \in claim'[p] : CampaignOf[i] = c
                                           THEN p ELSE rowLock[c]
      BY <1>8 DEF ClaimBatch
  <2>3. UNCHANGED <<campaignStatus, wrote, camp>>
      BY <1>8 DEF ClaimBatch
  <2>4. SUFFICES ASSUME NEW q \in Procs, pc'[q] = "claimed", NEW i \in claim'[q]
                 PROVE  Status(q, CampaignOf[i])' = "running"
      BY DEF SelectedRunning
  <2>5. CASE q = p
    <3>1. i \in Items /\ CampaignOf[i] \in Campaigns /\ Status(p, CampaignOf[i]) = "running"
        BY <2>1, <2>4, <2>5, MapsAssumption DEF Claimable
    <3>2. rowLock'[CampaignOf[i]] = p
        BY <2>2, <2>4, <2>5, <3>1
    <3>3. wrote[p] # None => rowLock[camp[p]] = p
        BY <2>1 DEF PendingIsLocked, Flushing
    <3> QED BY <2>3, <2>5, <3>1, <3>2, <3>3 DEF Status
  <2>6. CASE q # p
    <3>1. pc'[q] = pc[q] /\ claim'[q] = claim[q]
        BY <2>6, <1>8 DEF ClaimBatch, Goto, TypeOK
    <3>2. \A c \in Campaigns : rowLock[c] = q => rowLock'[c] = q
        BY <2>1, <2>2, <2>6, NoneAssumption DEF Claimable
    <3>3. Safe(q)
        BY <2>3, <3>1, <3>2 DEF Safe, Untouched, Keeps
    <3> QED BY <2>4, <3>3, <1>1
  <2> QED BY <2>5, <2>6
<1>9. ASSUME NEW p \in Procs, \/ BeatTick(p) \/ clear_campaign_pause(p) \/ set_campaign_pause(p)
                              \/ ClaimNothing(p) \/ SkipItem(p) \/ PassConsent(p) \/ NoAccount(p)
                              \/ ChooseAccount(p) \/ Push(p) \/ MarkQueued(p) \/ PushFails(p)
      PROVE SelectedRunning'
  <2>1. UNCHANGED <<campaignStatus, wrote, camp, rowLock>>
      BY <1>9 DEF BeatTick, clear_campaign_pause, set_campaign_pause, ClaimNothing, SkipItem, PassConsent,
             NoAccount, ChooseAccount, Push, MarkQueued, PushFails, db, local
  <2>2. pc'[p] # "claimed" /\ \A q \in Procs \ {p} : pc'[q] = pc[q] /\ claim'[q] = claim[q]
      BY <1>9 DEF BeatTick, clear_campaign_pause, set_campaign_pause, ClaimNothing, SkipItem, PassConsent,
             NoAccount, ChooseAccount, Push, MarkQueued, PushFails, NextItem, AfterBridge, Goto, local, TypeOK
  <2>3. \A q \in Procs \ {p} : Keeps(q)
      BY <2>1, <2>2 DEF Keeps
  <2> QED BY <2>1, <2>2, <2>3, <1>3
<1>10. ASSUME NEW c \in Campaigns, Prepare(c) PROVE SelectedRunning'
  <2>1. /\ rowLock[c] = None /\ UNCHANGED <<rowLock, pc, claim, camp, wrote>>
        /\ \A d \in Campaigns \ {c} : campaignStatus'[d] = campaignStatus[d]
      BY <1>10 DEF Prepare, local, TypeOK
  <2>2. SUFFICES ASSUME NEW q \in Procs, pc'[q] = "claimed" PROVE Untouched(q)
      BY <1>2 DEF Safe
  <2>3. \A i \in claim[q] : CampaignOf[i] \in Campaigns /\ rowLock[CampaignOf[i]] = q
      BY <2>1, <2>2, MapsAssumption DEF ClaimsInv, SelectedInv, TypeOK
  <2> QED BY <2>1, <2>2, <2>3, NoneAssumption DEF Untouched, Keeps
<1>11. ASSUME \/ \E i \in Items : record_opt_out(i) \/ record_opt_in(i)
              \/ \E a \in Accounts : AccountStatusChanges(a)
              \/ UNCHANGED vars
       PROVE SelectedRunning'
  <2>1. UNCHANGED <<campaignStatus, rowLock, pc, claim, camp, wrote>>
      BY <1>11 DEF record_opt_out, record_opt_in, AccountStatusChanges, vars, db, local
  <2> QED BY <2>1, <1>2 DEF Safe, Untouched, Keeps
<1> QED
    BY <1>4, <1>5, <1>6, <1>7, <1>8, <1>9, <1>10, <1>11 DEF Next, Run, Fail, Environment, Procs

\* Consent is lost only to a new claim of the same item, or to an opt-out that the check
\* before the push still sees.
LEMMA ConsentStep ==
    ASSUME TypeOK, ClaimsInv, ConsentInv, [Next]_vars
    PROVE  ConsentInv'
<1> DEFINE Kept1(q) == /\ pc'[q] = pc[q] /\ claim'[q] = claim[q]
                       /\ claim[q] \cap (consented \cup blocked) \subseteq consented' \cup blocked'
                       /\ claim[q] \cap consented \subseteq consented'
           Out(q)   == pc'[q] \notin ItemPoints
           Fits(q)  == /\ claim'[q] \subseteq consented' \cup blocked'
                       /\ pc'[q] \in {"account", "push"} => item(q)' \in consented'
<1>1. ASSUME NEW q \in Procs, Kept1(q), pc'[q] \in ItemPoints PROVE Fits(q)
  <2>1. claim[q] \subseteq consented \cup blocked
      BY <1>1 DEF ConsentInv
  <2>2. item(q) \in claim[q] /\ item(q)' = item(q)
      BY <1>1, ItemAtHand DEF ClaimsInv, WorkingInv, item
  <2> QED BY <1>1, <2>1, <2>2 DEF ConsentInv
<1>2. ASSUME \A q \in Procs : Kept1(q) \/ Out(q) \/ Fits(q) PROVE ConsentInv'
    BY <1>1, <1>2 DEF ConsentInv, ItemPoints
<1> HIDE DEF Kept1, Out, Fits
<1>3. ASSUME NEW p \in Procs, Out(p) \/ Fits(p), UNCHANGED <<blocked, consented>>,
             \A q \in Procs \ {p} : pc'[q] = pc[q] /\ claim'[q] = claim[q]
      PROVE ConsentInv'
    BY <1>2, <1>3 DEF Kept1
<1>4. ASSUME NEW p \in Operators, NEW c \in Campaigns, StartRequest(p, c) \/ StopRequest(p, c)
      PROVE ConsentInv'
  <2>1. p \in Procs
      BY DEF Procs
  <2>2. UNCHANGED <<blocked, consented, claim>> /\ pc'[p] \notin ItemPoints
      BY <2>1, <1>4 DEF StartRequest, StopRequest, Request, Goto, world, history, ItemPoints, TypeOK
  <2>3. \A q \in Procs \ {p} : pc'[q] = pc[q]
      BY <2>1, <1>4 DEF StartRequest, StopRequest, Request, Goto, TypeOK
  <2> QED BY <2>1, <2>2, <2>3, <1>3 DEF Out
<1>5. ASSUME NEW p \in Procs, \/ BeatTick(p) \/ Flush(p) \/ clear_campaign_pause(p)
                              \/ set_campaign_pause(p) \/ CommitRequest(p) \/ PauseCallFails(p)
                              \/ Abandon(p) \/ ClaimBatch(p) \/ ClaimNothing(p) \/ Push(p)
      PROVE ConsentInv'
  <2>1. UNCHANGED <<blocked, consented>>
      BY <1>5 DEF BeatTick, Flush, clear_campaign_pause, set_campaign_pause, CommitRequest, PauseCallFails,
             Abandon, ClaimBatch, ClaimNothing, Push, world, history
  <2>2. \A q \in Procs \ {p} : pc'[q] = pc[q] /\ claim'[q] = claim[q]
      BY <1>5 DEF BeatTick, Flush, clear_campaign_pause, set_campaign_pause, CommitRequest, PauseCallFails,
             Abandon, Rollback, ClaimBatch, ClaimNothing, AfterBridge, Push, Goto, local, TypeOK
  <2>3. CASE Push(p)
    <3>1. pc[p] = "push" /\ pc'[p] = "mark" /\ UNCHANGED claim
        BY <2>3 DEF Push, Goto, local, TypeOK
    <3>2. Fits(p)
        BY <2>1, <3>1 DEF Fits, ConsentInv, ItemPoints
    <3> QED BY <2>1, <2>2, <3>2, <1>3
  <2>4. ASSUME ~ Push(p) PROVE pc'[p] \notin ItemPoints
      BY <1>5, <2>4 DEF BeatTick, Flush, clear_campaign_pause, set_campaign_pause, CommitRequest, PauseCallFails,
             Abandon, Rollback, ClaimBatch, ClaimNothing, AfterBridge, Goto, ItemPoints, TypeOK
  <2> QED BY <2>1, <2>2, <2>3, <2>4, <1>3 DEF Out
<1>6. ASSUME NEW p \in Procs, SkipItem(p) \/ NoAccount(p) \/ PushFails(p) \/ MarkQueued(p)
      PROVE ConsentInv'
  <2>1. UNCHANGED <<blocked, consented>> /\ NextItem(p) /\ pc[p] \in ItemPoints
      BY <1>6 DEF SkipItem, NoAccount, PushFails, MarkQueued, world, history, ItemPoints
  <2>2. \A q \in Procs \ {p} : pc'[q] = pc[q] /\ claim'[q] = claim[q]
      BY <2>1 DEF NextItem, Goto, TypeOK
  <2>3. claim'[p] \subseteq claim[p] /\ pc'[p] \notin {"account", "push"}
      BY <2>1 DEF NextItem, Goto, AfterBridge, TypeOK
  <2>4. Fits(p)
      BY <2>1, <2>3 DEF Fits, ConsentInv
  <2> QED BY <2>1, <2>2, <2>4, <1>3
<1>7. ASSUME NEW p \in Procs, PassConsent(p) \/ ChooseAccount(p) PROVE ConsentInv'
  <2>1. UNCHANGED <<blocked, consented, claim>> /\ pc[p] \in {"consent", "account"}
      BY <1>7 DEF PassConsent, ChooseAccount, world, history, local
  <2>2. \A q \in Procs \ {p} : pc'[q] = pc[q]
      BY <1>7 DEF PassConsent, ChooseAccount, Goto, TypeOK
  <2>3. item(p) \in claim[p] /\ claim[p] \subseteq consented \cup blocked
      BY <2>1, ItemAtHand DEF ClaimsInv, WorkingInv, ConsentInv, ItemPoints
  <2>4. item(p) \in consented
      BY <1>7, <2>3 DEF PassConsent, ChooseAccount, ConsentInv
  <2>5. item(p)' = item(p)
      BY <2>1 DEF item
  <2> QED BY <2>1, <2>2, <2>3, <2>4, <2>5, <1>3 DEF Fits
<1>8. ASSUME NEW p \in Procs, CommitClaim(p) PROVE ConsentInv'
  <2>1. /\ UNCHANGED <<blocked, claim>> /\ pc' = [pc EXCEPT ![p] = "consent"]
        /\ consented' = (consented \ claim[p]) \cup (claim[p] \ blocked)
      BY <1>8 DEF CommitClaim, world, Goto
  <2>2. Fits(p)
      BY <2>1 DEF Fits, TypeOK
  <2>3. \A q \in Procs \ {p} : Kept1(q)
      BY <2>1 DEF Kept1, ClaimsInv, ClaimsDisjoint, TypeOK
  <2> QED BY <2>2, <2>3, <1>2
<1>9. ASSUME \/ \E c \in Campaigns : Prepare(c)
             \/ \E i \in Items : record_opt_out(i) \/ record_opt_in(i)
             \/ \E a \in Accounts : AccountStatusChanges(a)
             \/ UNCHANGED vars
      PROVE ConsentInv'
  <2>1. UNCHANGED <<pc, claim>>
      BY <1>9 DEF Prepare, record_opt_out, record_opt_in, AccountStatusChanges, vars, local
  <2>2. consented \subseteq consented' /\ consented \cup blocked \subseteq consented' \cup blocked'
      BY <1>9 DEF Prepare, record_opt_out, record_opt_in, AccountStatusChanges, vars, world, history
  <2> QED BY <2>1, <2>2, <1>2 DEF Kept1
<1> QED
    BY <1>4, <1>5, <1>6, <1>7, <1>8, <1>9 DEF Next, Run, Fail, Environment, Procs

THEOREM PermitInvariance == Spec => []PermitInv
<1>1. Init => PermitInv
    BY DEF Init, PermitInv, PendingIsLocked, SelectedRunning, ConsentInv, ItemPoints
<1>2. IInv /\ IInv' /\ PermitInv /\ [Next]_vars => PermitInv'
  <2> SUFFICES ASSUME IInv, IInv', PermitInv, [Next]_vars PROVE PermitInv'
      OBVIOUS
  <2>1. TypeOK /\ LocalsInv /\ ClaimsInv /\ ClaimsInv'
      BY DEF IInv
  <2>2. PendingIsLocked /\ SelectedRunning /\ ConsentInv
      BY DEF PermitInv
  <2> QED BY <2>1, <2>2, PendingStep, SelectedStep, ConsentStep DEF PermitInv
<1> QED BY <1>1, <1>2, Invariance, PTL DEF Spec

\* Whatever stops, claims, opt-outs and opt-ins interleave, an item is claimed only under a
\* RUNNING campaign, and pushed only if its contact was allowed at some moment since
\* (queue_bridge.py, campaign_control.py).
THEOREM ClaimsPermitted == Spec => ClaimsArePermitted
<1>1. ASSUME IInv, PermitInv, [Next]_vars, NEW i \in Items
      PROVE  /\ itemStatus[i] = "ready" /\ itemStatus'[i] = "pushing"
                   => campaignStatus'[CampaignOf[i]] = "running"
             /\ pushedTo'[i] # pushedTo[i] => i \in consented
  <2>1. TypeOK /\ SelectedInv /\ CampaignOf[i] \in Campaigns
      BY <1>1, MapsAssumption DEF IInv, ClaimsInv
  <2>2. ASSUME itemStatus[i] = "ready", itemStatus'[i] = "pushing"
        PROVE  campaignStatus'[CampaignOf[i]] = "running"
    <3>1. PICK p \in Procs : CommitClaim(p)
      <4>1. ASSUME NEW p \in Procs, SkipItem(p) \/ NoAccount(p) \/ MarkQueued(p) \/ PushFails(p)
            PROVE  FALSE
          BY <2>1, <2>2, <4>1 DEF SkipItem, NoAccount, MarkQueued, PushFails, Settle, TypeOK
      <4>2. ASSUME NEW c \in Campaigns, Prepare(c) PROVE FALSE
          BY <2>1, <2>2, <4>2 DEF Prepare, TypeOK
      <4>3. itemStatus' # itemStatus
          BY <2>2
      <4> QED BY <1>1, <4>1, <4>2, <4>3 DEF Next, Run, Fail, Environment, Procs, StartRequest, StopRequest, Request,
                 BeatTick, Flush, clear_campaign_pause, set_campaign_pause, CommitRequest, PauseCallFails,
                 Abandon, ClaimBatch, ClaimNothing, PassConsent, ChooseAccount, Push, record_opt_out,
                 record_opt_in, AccountStatusChanges, vars, db
    <3>2. i \in claim[p] /\ pc[p] = "claimed"
        BY <2>1, <2>2, <3>1 DEF CommitClaim, TypeOK
    <3>3. rowLock[CampaignOf[i]] = p /\ Status(p, CampaignOf[i]) = "running"
        BY <1>1, <3>2 DEF IInv, ClaimsInv, SelectedInv, PermitInv, SelectedRunning
    <3>4. CASE wrote[p] = None
        BY <2>1, <3>1, <3>3, <3>4 DEF CommitClaim, Committed, Status, TypeOK
    <3>5. CASE wrote[p] # None
      <4>1. camp[p] \in Campaigns
          BY <1>1, <3>2, <3>5 DEF PermitInv, PendingIsLocked, Flushing
      <4>2. campaignStatus' = [campaignStatus EXCEPT ![camp[p]] = wrote[p]]
          BY <4>1, <3>1, <3>5, NoneAssumption DEF CommitClaim, Committed
      <4> QED BY <2>1, <3>3, <3>5, <4>1, <4>2 DEF Status, TypeOK
    <3> QED BY <3>4, <3>5
  <2>3. ASSUME pushedTo'[i] # pushedTo[i] PROVE i \in consented
    <3>1. PICK p \in Procs : Push(p) \/ PushFails(p)
        BY <1>1, <2>3 DEF Next, Run, Fail, Environment, Procs, StartRequest, StopRequest, Request,
               BeatTick, Flush, clear_campaign_pause, set_campaign_pause, CommitRequest, PauseCallFails,
               Abandon, ClaimBatch, ClaimNothing, CommitClaim, SkipItem, PassConsent, NoAccount,
               ChooseAccount, MarkQueued, Prepare, record_opt_out, record_opt_in, AccountStatusChanges,
               vars, world
    <3>2. pc[p] = "push" /\ i = item(p)
        BY <2>1, <2>3, <3>1 DEF Push, PushFails, Deliver, TypeOK
    <3> QED BY <1>1, <3>2 DEF PermitInv, ConsentInv
  <2> QED BY <2>2, <2>3
<1>2. IInv /\ PermitInv /\ [Next]_vars =>
        [\A i \in Items :
            /\ itemStatus[i] = "ready" /\ itemStatus'[i] = "pushing"
                  => campaignStatus'[CampaignOf[i]] = "running"
            /\ pushedTo'[i] # pushedTo[i] => i \in consented]_vars
    BY <1>1
<1> QED BY <1>2, Invariance, PermitInvariance, PTL DEF Spec, ClaimsArePermitted
=============================================================================
