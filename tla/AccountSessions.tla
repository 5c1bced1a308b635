--------------------------- MODULE AccountSessions ---------------------------
(***************************************************************************)
(* The accounts API and the stored sessions behind it.  Routes and command *)
(* line tools run side by side, each in one transaction: Begin reads the   *)
(* account and inserts its new channel_sessions row (the id is taken then, *)
(* other transactions see the row only after the commit), Commit writes    *)
(* the columns of the account the transaction changed.                     *)
(*                                                                         *)
(* An account's record joins its account_send_settings row.  `evolution'   *)
(* delivery reads the row of module EvolutionSession.                      *)
(***************************************************************************)
EXTENDS EvolutionSession, Sequences

CONSTANTS
    Phones,       \* account identifiers
    Requests,     \* bound: transactions open at the same time
    MaxAccounts,  \* bound: accounts
    MaxTxns,      \* bound: transactions begun
    Floor,        \* ABSOLUTE_FLOOR
    Delays        \* delays an operator may ask for

ASSUME AccountAssumption == MaxTxns \in Nat /\ Floor \in Delays

VARIABLES
    mode,      \* WHATSAPP_DELIVERY_MODE, read at start
    accounts,  \* the accounts table, by id
    stored,    \* committed channel_sessions rows
    nextRow,   \* the id sequence of channel_sessions
    txn,       \* the open transaction of each request
    profile,   \* accounts whose browser profile is on disk
    unlinked   \* accounts whose newest committed session change was a disconnect

accountVars == <<mode, accounts, stored, nextRow, txn, profile, unlinked>>
-----------------------------------------------------------------------------
Modes       == {"web", "cloud_api", "evolution"}
AccountStatus == {"active", "resting", "banned", "requires_login"}
Ids         == DOMAIN accounts
NewAccount(phone, status) ==
    [phone |-> phone, status |-> status, min |-> Floor, max |-> Floor]

\* "evolution" is none of the modes the wiring knows.
resolve_whatsapp_delivery_mode == IF mode = "cloud_api" THEN mode ELSE "web"

required_session_type ==
    IF resolve_whatsapp_delivery_mode = "cloud_api" THEN "API_TOKEN" ELSE "BROWSER_PROFILE"

_latest_session_row_Oldest(a, type) ==
    LET mine == {s \in stored : s.account = a /\ s.type = type}
    IN  IF mine = {} THEN [id |-> 0, account |-> a, type |-> type, good |-> FALSE]
        ELSE CHOOSE s \in mine : \A t \in mine : t.id >= s.id

\* The newest row of an account and type: the largest id.
_latest_session_row(a, type) ==
    LET mine == {s \in stored : s.account = a /\ s.type = type}
    IN  IF mine = {} THEN [id |-> 0, account |-> a, type |-> type, good |-> FALSE]
        ELSE CHOOSE s \in mine : \A t \in mine : t.id <= s.id

build_whatsapp_web_status(a) ==
    [profile_exists |-> a \in profile, linked |-> _latest_session_row(a, "BROWSER_PROFILE").good]

evaluate_account_session_readiness(a) ==
    /\ accounts[a].status \notin {"banned", "requires_login"}
    /\ CASE mode = "evolution" -> row.status = "open"
         [] mode = "web" -> LET status == build_whatsapp_web_status(a)
                            IN  status.linked /\ status.profile_exists
         [] mode = "cloud_api" -> _latest_session_row(a, required_session_type).good

_find_duplicate_account(phone, exclude) ==
    \E a \in Ids \ exclude : accounts[a].phone = phone

\* The account a Baileys account id (its phone) stands for.
resolve_account_by_phone(phone) ==
    LET matches == {a \in Ids : accounts[a].phone = phone}
    IN  IF matches = {} THEN 0 ELSE CHOOSE a \in matches : \A b \in matches : b <= a
-----------------------------------------------------------------------------
\* A transaction: what it read and will write, and the row it inserted.
NoTxn == [kind |-> "none"]

AccountInit ==
    /\ mode \in Modes
    /\ \/ accounts = <<>>
       \/ \E phone \in Phones : accounts = <<NewAccount(phone, "active")>>
    /\ stored = {} /\ nextRow = 1
    /\ txn = [r \in Requests |-> NoTxn]
    /\ profile = {} /\ unlinked = {}

Begin(r, t) ==
    /\ txn[r] = NoTxn /\ nextRow <= MaxTxns
    /\ nextRow' = nextRow + 1
    /\ txn' = [txn EXCEPT ![r] = t]
    /\ UNCHANGED <<mode, accounts, stored, profile, unlinked>>

Write(a, kind, new) ==
    [id |-> nextRow, kind |-> kind, account |-> a, read |-> accounts[a], new |-> new]
Store(a, new, type, good) ==
    [id |-> nextRow, kind |-> "session", account |-> a, read |-> accounts[a], new |-> new,
     type |-> type, good |-> good]

create_account(r) == \E phone \in Phones, status \in {"active", "requires_login"} :
    /\ ~_find_duplicate_account(phone, {})
    /\ Begin(r, [id |-> nextRow, kind |-> "create", new |-> NewAccount(phone, status)])

update_account(r) == \E a \in Ids :
    \/ \E phone \in Phones :
        /\ ~_find_duplicate_account(phone, {a})
        /\ Begin(r, Write(a, "update", [accounts[a] EXCEPT !.phone = phone]))
    \/ \E status \in AccountStatus :
        Begin(r, Write(a, "update", [accounts[a] EXCEPT !.status = status]))

\* Both validators of the body, then the columns that differ.
update_send_settings(r) == \E a \in Ids, min, max \in Delays :
    /\ min >= Floor /\ max >= min
    /\ Begin(r, Write(a, "settings", [accounts[a] EXCEPT !.min = min, !.max = max]))

Activated(account) ==
    IF account.status = "requires_login" THEN [account EXCEPT !.status = "active"]
    ELSE account

register_whatsapp_web_session(r) == \E a \in Ids, linked \in BOOLEAN :
    Begin(r, Store(a, IF linked THEN Activated(accounts[a]) ELSE accounts[a],
                   "BROWSER_PROFILE", linked))

\* An API token: refused in web mode and when it does not validate.
register_api_token_session(r) == \E a \in Ids :
    /\ resolve_whatsapp_delivery_mode = "cloud_api"
    /\ Begin(r, Store(a, Activated(accounts[a]), "API_TOKEN", TRUE))

\* whatsapp_web_link: the row says linked, the account's status is left as it is.
_store_linked_session(r) == \E a \in profile :
    Begin(r, Store(a, accounts[a], "BROWSER_PROFILE", TRUE))

mark_baileys_session_disconnected(r) == \E phone \in Phones :
    LET a == resolve_account_by_phone(phone)
    IN  /\ a # 0
        /\ Begin(r, Store(a, [accounts[a] EXCEPT !.status = "requires_login"],
                          "BROWSER_PROFILE", FALSE))

\* The row a transaction inserted, for those that store a session.
Inserted(t) == IF t.kind # "session" THEN {}
               ELSE {[id |-> t.id, account |-> t.account, type |-> t.type, good |-> t.good]}

\* Ghost: a disconnect counts until a newer session is linked or an operator
\* sets the account active.
Newest(t) == _latest_session_row(t.account, "BROWSER_PROFILE").id < t.id
Disconnects(t) == t.kind = "session" /\ ~t.good /\ t.new.status = "requires_login"
Relinks(t) ==
    \/ t.kind = "session" /\ t.good /\ t.type = "BROWSER_PROFILE" /\ Newest(t)
    \/ t.kind = "update" /\ t.new.status = "active" /\ t.read.status # "active"
Unlinked(t) ==
    CASE Disconnects(t) /\ Newest(t) -> unlinked \cup {t.account}
      [] Relinks(t)                 -> unlinked \ {t.account}
      [] OTHER                      -> unlinked

Commit(r) ==
    /\ txn[r] # NoTxn
    /\ txn' = [txn EXCEPT ![r] = NoTxn]
    /\ LET t == txn[r]
       IN  IF t.kind = "create"
           THEN /\ accounts' = Append(accounts, t.new)
                /\ UNCHANGED <<stored, unlinked>>
           ELSE /\ accounts' = [accounts EXCEPT ![t.account] = Flush(@, t.read, t.new)]
                /\ stored' = stored \cup Inserted(t)
                /\ unlinked' = Unlinked(t)
    /\ UNCHANGED <<mode, nextRow, profile>>

\* Any exception: the transaction leaves nothing behind.
Rollback(r) ==
    /\ txn[r] # NoTxn /\ txn' = [txn EXCEPT ![r] = NoTxn]
    /\ UNCHANGED <<mode, accounts, stored, nextRow, profile, unlinked>>

\* The QR is scanned in a browser that keeps its profile on disk.
_wait_for_qr_login == \E a \in Ids \ profile :
    /\ profile' = profile \cup {a}
    /\ UNCHANGED <<mode, accounts, stored, nextRow, txn, unlinked>>

AccountNext ==
    \/ \E r \in Requests :
        \/ create_account(r) /\ Len(accounts) < MaxAccounts
        \/ update_account(r) \/ update_send_settings(r)
        \/ register_whatsapp_web_session(r) \/ register_api_token_session(r)
        \/ _store_linked_session(r) \/ mark_baileys_session_disconnected(r)
        \/ Commit(r) \/ Rollback(r)
    \/ _wait_for_qr_login

AccountSpec == AccountInit /\ [][AccountNext]_accountVars
-----------------------------------------------------------------------------
\* Types of the tables and of the open transactions.
AccountTypeOK ==
    /\ mode \in Modes
    /\ \A a \in Ids : accounts[a] \in [phone : Phones, status : AccountStatus,
                                       min : Delays, max : Delays]
    /\ stored \subseteq [id : 1 .. MaxTxns, account : Ids, good : BOOLEAN,
                         type : {"BROWSER_PROFILE", "API_TOKEN"}]
    /\ profile \subseteq Ids /\ unlinked \subseteq Ids
    /\ \A r \in Requests :
        txn[r].kind \in {"none", "create", "update", "settings", "session"}

\* Once a Baileys disconnect is recorded the account is not ready again until a
\* newer session is linked or an operator sets it active, whatever requests were
\* open at the time: the newest row wins (_latest_session_row) and a
\* registration that read the account before does not touch its status.
DisconnectHolds ==
    mode = "web" => \A a \in unlinked : ~evaluate_account_session_readiness(a)

\* The send delays of an account are an interval (update_send_settings refuses a
\* body whose maximum is below its minimum).
\* It does not hold (README, section 5).
MinBelowMax == \A a \in Ids : accounts[a].min <= accounts[a].max

\* No two accounts have the same identifier (create_account and update_account
\* answer 409).
\* It does not hold (README, section 5).
IdentifiersAreUnique ==
    \A a, b \in Ids : accounts[a].phone = accounts[b].phone => a = b

\* An Evolution account whose row says connected and authorised is ready.
\* It does not hold (README, section 5).
ConnectedIsReady ==
    mode = "evolution" /\ row.status = "connected" /\ row.auth = "authorized" =>
        \A a \in Ids : accounts[a].status = "active" => evaluate_account_session_readiness(a)
=============================================================================
