--------------------------- MODULE CampaignPrepare ---------------------------
(***************************************************************************)
(* prepare_campaign_messages stages one message for each contact of the    *)
(* debug campaign that allows it, within the campaign's limits and with    *)
(* the prices of the newest snapshot.  It reads the snapshots, the         *)
(* contacts and the staged rows in separate queries and commits once; the  *)
(* table of staged rows has no constraint on campaign and contact.         *)
(***************************************************************************)
EXTENDS PriceBoard, ContactImport

CONSTANTS
    Prepares,      \* prepare requests
    MaxContacts,   \* the smaller of the campaign's max_contacts and daily_limit
    MaxPushes      \* bound: rows the bridge takes

ASSUME PrepareAssumption == IsFiniteSet(Prepares) /\ MaxContacts \in Nat /\ MaxPushes \in Nat

VARIABLES staged, prepare, status, includeProducts, overlaps

prepareVars == <<staged, prepare, status, includeProducts, overlaps>>

NoContext == [at |-> 0, snapshot |-> 0, fetched |-> 0, enabled |-> FALSE]

PrepareInit ==
    /\ staged = <<>>
    /\ prepare = [p \in Prepares |-> [pc |-> "idle", context |-> NoContext, chosen |-> {},
                                      ready |-> FALSE, stale |-> FALSE]]
    /\ status = "draft"
    /\ includeProducts \in BOOLEAN
    /\ overlaps = 0

SetPrepare(p, rec) == prepare' = [prepare EXCEPT ![p] = rec]

StagedQueueItem_DefaultStatus(phone, context) ==
    [contact |-> phone, status |-> "staged", context |-> context]

\* StagedQueueItem with its RenderedMessage.
StagedQueueItem(phone, context) == [contact |-> phone, status |-> "ready", context |-> context]

Rows(phone) == {i \in DOMAIN staged : staged[i].contact = phone}

Allowed == {c.phone : c \in {d \in contacts : d.campaign = DebugCampaign /\ d.consent = "allowed"}}

\* A campaign with products needs a newest snapshot that is valid.
BeginPrepare(p) ==
    /\ prepare[p].pc = "idle"
    /\ LET s == get_latest_valid_product_snapshot
       IN  SetPrepare(p,
             IF includeProducts /\ s = 0 THEN [prepare[p] EXCEPT !.pc = "refused"]
             ELSE [prepare[p] EXCEPT !.pc = "context",
                      !.context = [NoContext EXCEPT !.snapshot = IF includeProducts THEN s ELSE 0]])
    /\ UNCHANGED <<staged, status, includeProducts, overlaps>>

\* The snapshot is looked up again; the row keeps the id of the first one.
build_product_context(p) ==
    LET s == get_latest_valid_product_snapshot
        old == prepare[p].context
    IN  /\ prepare[p].pc = "context"
        /\ SetPrepare(p, [prepare[p] EXCEPT !.pc = "read",
               !.context = IF includeProducts /\ s # 0
                           THEN [old EXCEPT !.at = now, !.enabled = TRUE, !.fetched = snapshots[s].fetched]
                           ELSE [old EXCEPT !.at = now]])
        /\ UNCHANGED <<staged, status, includeProducts, overlaps>>

Min2(a, b) == IF a < b THEN a ELSE b

\* The limits bound the rows that are ready, not those the bridge has taken.
_compute_effective_limit(limit) == Min2(Cardinality(Allowed), Min2(limit, MaxContacts))

\* Contacts with a row are left alone, whatever its status.
Unstaged_AllAllowed == Allowed

Unstaged == {c \in Allowed : Rows(c) = {}}

\* Contacts come in the order of their ids, of which the model keeps none.
ReadCampaign(p) ==
    \E limit \in 1..MaxContacts :
    \E kept \in {f \in [{staged[i].contact : i \in DOMAIN staged} -> DOMAIN staged] :
                    \A c \in DOMAIN f : staged[f[c]].contact = c} :
        LET ready == Cardinality({c \in DOMAIN kept : staged[kept[c]].status = "ready"})
            slots == IF _compute_effective_limit(limit) > ready
                     THEN _compute_effective_limit(limit) - ready ELSE 0
        IN  /\ prepare[p].pc = "read"
            /\ \E chosen \in SUBSET Unstaged :
                /\ Cardinality(chosen) = Min2(slots, Cardinality(Unstaged))
                /\ SetPrepare(p, [prepare[p] EXCEPT !.pc = "commit", !.chosen = chosen,
                                      !.ready = chosen # {} \/ ready > 0])
            /\ UNCHANGED <<staged, status, includeProducts, overlaps>>

\* One commit of all rows and of the status; it fails without a trace.
CommitPrepare(p) ==
    LET f == prepare[p] IN
    /\ f.pc = "commit"
    /\ \/ /\ staged' = staged \o [i \in 1..Cardinality(f.chosen) |->
                                    StagedQueueItem(SetToSeq(f.chosen)[i], f.context)]
          /\ status' = IF f.ready THEN "prepared" ELSE status
          /\ overlaps' = IF f.stale /\ f.chosen # {} THEN overlaps + 1 ELSE overlaps
          /\ prepare' = [q \in Prepares |->
                 IF q = p THEN [f EXCEPT !.pc = "done", !.chosen = {}]
                 ELSE [prepare[q] EXCEPT !.stale = @ \/ (prepare[q].pc = "commit" /\ f.chosen # {})]]
       \/ /\ SetPrepare(p, [f EXCEPT !.pc = "failed", !.chosen = {}])
          /\ UNCHANGED <<staged, status, overlaps>>
    /\ UNCHANGED includeProducts

\* The campaign is started and the bridge takes rows (StagingBridge).
StartCampaign ==
    /\ status = "prepared"
    /\ status' = "running"
    /\ UNCHANGED <<staged, prepare, includeProducts, overlaps>>

TakeRow ==
    /\ status = "running"
    /\ Cardinality({i \in DOMAIN staged : staged[i].status # "ready"}) < MaxPushes
    /\ \E i \in DOMAIN staged :
        /\ staged[i].status = "ready"
        /\ staged' = [staged EXCEPT ![i].status = "pushed"]
    /\ UNCHANGED <<prepare, status, includeProducts, overlaps>>

PrepareStep(p) == BeginPrepare(p) \/ build_product_context(p) \/ ReadCampaign(p) \/ CommitPrepare(p)

\* Prices are refreshed, contacts imported and messages prepared, all at the same time.
PreparationInit == PriceInit /\ ContactInit /\ PrepareInit

PreparationNext ==
    \/ /\ \/ Tick \/ EditBoard
          \/ \E r \in Refreshes : RefreshStep(r) \/ BrowserStep(r)
          \/ \E c \in Creators : SnapshotStep(c)
       /\ UNCHANGED <<contactVars, prepareVars>>
    \/ ContactNext /\ UNCHANGED <<priceVars, prepareVars>>
    \/ /\ StartCampaign \/ TakeRow \/ \E p \in Prepares : PrepareStep(p)
       /\ UNCHANGED <<priceVars, contactVars>>

PreparationSpec ==
    PreparationInit /\ [][PreparationNext]_<<priceVars, contactVars, prepareVars>>

----------------------------------------------------------------------------
(* Properties *)

PrepareTypeOK ==
    /\ \A p \in Prepares :
         prepare[p].pc \in {"idle", "context", "read", "commit", "done", "failed", "refused"}
    /\ \A i \in DOMAIN staged : staged[i].status \in {"ready", "pushed"}
    /\ status \in {"draft", "prepared", "running"}
    /\ overlaps \in 0..Cardinality(Prepares)

\* A contact has one staged row and one more for each prepare that committed over
\* another's: repeated prepares, limits and rows already taken add no second one;
\* and the ready rows stay within the campaign's limit, the same excess allowed.
PreparesAddUp ==
    /\ \A i \in DOMAIN staged : Cardinality(Rows(staged[i].contact)) <= 1 + overlaps
    /\ Cardinality({i \in DOMAIN staged : staged[i].status = "ready"})
          <= MaxContacts * (1 + overlaps)

\* The prices in a message were fetched at most TTL before it was built: the time
\* in the cache counts towards a snapshot's age (compute_expires_at).
PricesAreRecent ==
    \A i \in DOMAIN staged : staged[i].context.enabled =>
        staged[i].context.at - staged[i].context.fetched <= TTL

\* prepare answers 409 with "Duplicate staged item detected for this campaign
\* contact." (phase4_prepare.py): a contact has at most one staged row.
StagedOnce == \A i \in DOMAIN staged : Cardinality(Rows(staged[i].contact)) <= 1
=============================================================================
