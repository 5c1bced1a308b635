-------------------------- MODULE Sessions_proofs --------------------------
(***************************************************************************)
(* Proofs about the accounts and sessions side: the row of an Evolution    *)
(* session and the processes that write it, the accounts API and its       *)
(* stored sessions, link sessions and the warm-up matrix.  Each part keeps *)
(* its own specification; the last theorem is about all of them together.  *)
(***************************************************************************)
EXTENDS MCSessions, Lemmas

---------------------------------------------------------------------------
(* The Evolution session.                                                  *)

Columns  == [status : Statuses, auth : Auths, socket : {"online", "offline"},
             attempts : 0 .. MaxReconnects, drops : 0 .. YellowAt,
             proxy : Hosts \cup {NoHost}]
Posted   == [state : {"close", "connecting", "open"}, reason : {"ok", "lost", "401"}]
SeenType == {"nothing", "connecting", "connected", "disconnected"}
SessionTypes ==
    /\ row \in Columns /\ real \in Reals /\ revoked \in BOOLEAN
    /\ hooks \subseteq Posted /\ seen \in SeenType
    /\ work \in [at : {"idle", "selected", "read", "call"}, read : Columns]
    /\ request \in {"idle", "check", "save", "qr", "logout"}
    /\ calls \in Nat

\* The worker never holds a row that is not there, nor one of another attempt: what it
\* read is today's count, or the count was set back meanwhile.
WorkInv ==
    /\ row.status = "absent" => row.attempts = 0 /\ work.at = "idle"
    /\ work.read.status \in {"absent", "connected", "disconnected"}
    /\ work.at = "read" => /\ work.read.status # "absent"
                           /\ row.attempts \in {0, work.read.attempts}

\* Calls are counted before they are made: one at most is ahead of the count.
CallsInv ==
    /\ calls <= row.attempts + 1
    /\ work.at = "call" => calls <= row.attempts

EvolutionInv == SessionTypes /\ WorkInv /\ CallsInv

\* The UPDATE keeps a row a row, and writes a column only where the worker changed it.
LEMMA FlushColumns ==
    ASSUME NEW now \in Columns, NEW read, NEW new \in Columns, NEW f, f = Flush(now, read, new)
    PROVE  /\ f \in Columns
           /\ f.attempts = IF new.attempts = read.attempts THEN now.attempts ELSE new.attempts
           /\ f.status = IF new.status = read.status THEN now.status ELSE new.status
<1>1. DOMAIN now = {"status", "auth", "socket", "attempts", "drops", "proxy"}
    BY SMTT(20) DEF Columns
<1>2. f = [x \in {"status", "auth", "socket", "attempts", "drops", "proxy"} |->
               IF new[x] = read[x] THEN now[x] ELSE new[x]]
    BY <1>1, Zenon DEF Flush
<1>3. /\ f.status = IF new.status = read.status THEN now.status ELSE new.status
      /\ f.auth = IF new.auth = read.auth THEN now.auth ELSE new.auth
      /\ f.socket = IF new.socket = read.socket THEN now.socket ELSE new.socket
      /\ f.attempts = IF new.attempts = read.attempts THEN now.attempts ELSE new.attempts
      /\ f.drops = IF new.drops = read.drops THEN now.drops ELSE new.drops
      /\ f.proxy = IF new.proxy = read.proxy THEN now.proxy ELSE new.proxy
    BY <1>2
<1>4. f = [status |-> f.status, auth |-> f.auth, socket |-> f.socket,
           attempts |-> f.attempts, drops |-> f.drops, proxy |-> f.proxy]
    BY <1>2
<1>5. /\ f.status \in Statuses /\ f.auth \in Auths /\ f.socket \in {"online", "offline"}
      /\ f.attempts \in 0 .. MaxReconnects /\ f.drops \in 0 .. YellowAt
      /\ f.proxy \in Hosts \cup {NoHost}
    BY <1>3 DEF Columns
<1>6. f \in Columns
    BY <1>4, <1>5 DEF Columns
<1> QED BY <1>3, <1>6

\* What the writers make of a row: the count of attempts goes on, stays or starts anew.
LEMMA WrittenRows ==
    ASSUME NEW r \in Columns
    PROVE  /\ Connected(r) \in Columns /\ Connected(r).attempts = 0 /\ Connected(r).status = r.status
           /\ Absent \in Columns /\ NewRow \in Columns
<1>1. 0 \in 0 .. MaxReconnects /\ 0 \in 0 .. YellowAt
    BY EvolutionAssumption
<1>2. [r EXCEPT !.auth = "authorized", !.socket = "online"] \in Columns
    BY DEF Columns, Auths
<1>3. \A s \in Columns : [s EXCEPT !.attempts = 0] \in Columns /\ [s EXCEPT !.attempts = 0].attempts = 0
    BY <1>1 DEF Columns
<1>4. Connected(r) = [[r EXCEPT !.auth = "authorized", !.socket = "online"] EXCEPT !.attempts = 0]
    BY DEF Connected
<1>5. Connected(r).status = r.status
    BY DEF Connected, Columns
<1>6. Absent \in Columns /\ NewRow \in Columns
    BY <1>1 DEF Columns, Absent, NewRow, Statuses, Auths
<1> QED BY <1>2, <1>3, <1>4, <1>5, <1>6

LEMMA EvolutionStarts == EvolutionInit => EvolutionInv
<1> SUFFICES ASSUME EvolutionInit PROVE EvolutionInv
    OBVIOUS
<1>1. /\ hooks = {} /\ seen = "nothing" /\ work = [at |-> "idle", read |-> Absent]
      /\ calls = 0 /\ request = "idle"
    BY DEF EvolutionInit
<1>2. Absent \in Columns /\ NewRow \in Columns /\ Absent.status = "absent" /\ Absent.attempts = 0
    BY EvolutionAssumption DEF Columns, Absent, NewRow, Statuses, Auths
<1>3. row \in Columns /\ (row.status = "absent" => row.attempts = 0) /\ row.attempts = 0
      /\ real \in Reals /\ revoked \in BOOLEAN
  <2>1. CASE row = Absent /\ real = "none" /\ revoked = TRUE
      BY <1>2, <2>1 DEF Reals
  <2>2. ASSUME NEW host \in Hosts,
               row = [Connected(NewRow) EXCEPT !.status = "connected", !.proxy = host],
               real = "open", revoked = FALSE
        PROVE  row \in Columns /\ row.attempts = 0
    <3>1. Connected(NewRow) \in Columns /\ Connected(NewRow).attempts = 0
        BY <1>2, WrittenRows
    <3> QED BY <2>2, <3>1 DEF Columns, Statuses
  <2> QED BY <1>2, <2>1, <2>2 DEF EvolutionInit, Reals
<1>4. SessionTypes
    BY <1>1, <1>2, <1>3 DEF SessionTypes, SeenType
<1>5. WorkInv
    BY <1>1, <1>2, <1>3 DEF WorkInv
<1>6. CallsInv
    BY <1>1, <1>3 DEF CallsInv
<1> QED BY <1>4, <1>5, <1>6 DEF EvolutionInv

\* A step that leaves the row, the worker and the calls alone.
LEMMA Elsewhere ==
    ASSUME EvolutionInv, SessionTypes', UNCHANGED <<row, work, calls>>
    PROVE  EvolutionInv'
BY DEF EvolutionInv, WorkInv, CallsInv

LEMMA ServerKeeps ==
    ASSUME EvolutionInv, Evolution
    PROVE  EvolutionInv'
<1>1. UNCHANGED <<row, work, calls, seen, request>>
    BY DEF Evolution, ScanQr, Opens, Drops, Removed, GivesUp, Change
<1>2. /\ real' \in {"open", "close"} /\ revoked' \in BOOLEAN
      /\ \E reason \in {"ok", "lost", "401"} :
             hooks' = hooks \cup {[state |-> real', reason |-> reason]}
    BY DEF EvolutionInv, SessionTypes, Evolution, ScanQr, Opens, Drops, Removed, GivesUp, Change,
           Post
<1>3. hooks' \subseteq Posted /\ real' \in Reals
    BY <1>2 DEF EvolutionInv, SessionTypes, Posted, Reals
<1> QED BY <1>1, <1>2, <1>3, Elsewhere DEF EvolutionInv, SessionTypes

\* The webhook: a connection that is reported open sets the count and the calls back.
LEMMA WebhookKeeps ==
    ASSUME EvolutionInv, Webhook
    PROVE  EvolutionInv'
<1>1. CASE WebhookLost
    BY <1>1, Elsewhere DEF WebhookLost, EvolutionInv, SessionTypes
<1>2. ASSUME evolution_webhook_receiver PROVE EvolutionInv'
  <2>1. PICK hook \in hooks :
            /\ hooks' = hooks \ {hook} /\ row.status # "absent" /\ row' = ApplyUpdate(row, hook)
            /\ calls' = IF Normalize(hook.state) = "connected" THEN 0 ELSE calls
            /\ UNCHANGED <<real, revoked, seen, work, request>>
      BY <1>2 DEF evolution_webhook_receiver
  <2>2. row \in Columns /\ hook.state \in {"close", "connecting", "open"}
      BY DEF EvolutionInv, SessionTypes, Posted
  <2> DEFINE new == Normalize(hook.state)
             moved == [row EXCEPT !.status = new]
  <2>3. new \in {"connected", "disconnected", "connecting"}
      BY <2>2 DEF Normalize
  <2> HIDE DEF new
  <2>4. moved \in Columns /\ moved.status = new /\ moved.attempts = row.attempts
      BY <2>2, <2>3 DEF Columns, Statuses
  <2> DEFINE landed == CASE new = "connected"    -> Connected(moved)
                         [] new = "disconnected" -> [moved EXCEPT !.socket = "offline"]
                         [] OTHER                -> moved
  <2>5. /\ landed \in Columns /\ landed.status = new
        /\ landed.attempts = IF new = "connected" THEN 0 ELSE row.attempts
    <3> HIDE DEF moved
    <3>1. CASE new = "connected"
        BY <3>1, <2>4, WrittenRows
    <3>2. CASE new = "disconnected"
        BY <3>2, <2>4 DEF Columns
    <3>3. CASE new = "connecting"
        BY <3>3, <2>4
    <3> QED BY <2>3, <3>1, <3>2, <3>3
  <2>6. row' = IF hook.reason = "401" THEN [landed EXCEPT !.auth = "blocked", !.socket = "offline"]
               ELSE landed
      BY <2>1 DEF ApplyUpdate, new
  <2> HIDE DEF landed
  <2>7. /\ row' \in Columns /\ row'.status = new
        /\ row'.attempts = IF new = "connected" THEN 0 ELSE row.attempts
      BY <2>5, <2>6 DEF Columns, Auths
  <2>8. calls' = IF new = "connected" THEN 0 ELSE calls
      BY <2>1 DEF new
  <2>9. SessionTypes'
      BY <2>1, <2>7, <2>8 DEF EvolutionInv, SessionTypes
  <2>10. WorkInv' /\ CallsInv'
      BY <2>1, <2>2, <2>3, <2>7, <2>8, EvolutionAssumption
         DEF EvolutionInv, SessionTypes, WorkInv, CallsInv, Columns
  <2> QED BY <2>9, <2>10 DEF EvolutionInv
<1> QED BY <1>1, <1>2 DEF Webhook

\* A writer that leaves the count, the worker and the calls alone, and the account there.
LEMMA CountStays ==
    ASSUME EvolutionInv, SessionTypes', UNCHANGED <<work, calls>>,
           row'.attempts = row.attempts, row'.status = "absent" => row.status = "absent"
    PROVE  EvolutionInv'
BY DEF EvolutionInv, WorkInv, CallsInv

LEMMA MonitorKeeps ==
    ASSUME EvolutionInv, Monitor
    PROVE  EvolutionInv'
<1>1. CASE _fetch_instances
  <2>1. seen' \in SeenType
      BY <1>1 DEF _fetch_instances, EvolutionInv, SessionTypes, SeenType, Normalize, Reals
  <2> QED BY <1>1, <2>1, Elsewhere DEF _fetch_instances, EvolutionInv, SessionTypes
<1>2. CASE _sync_one
  <2>1. /\ UNCHANGED <<real, revoked, hooks, work, calls, request>> /\ seen' = "nothing"
        /\ row' = IF row.status \in {"absent", seen} THEN row ELSE [row EXCEPT !.status = seen]
        /\ seen # "nothing" /\ seen \in SeenType /\ row \in Columns
      BY <1>2 DEF _sync_one, EvolutionInv, SessionTypes
  <2>2. CASE row.status \in {"absent", seen}
      BY <2>1, <2>2, Elsewhere DEF EvolutionInv, SessionTypes, SeenType
  <2>3. CASE row.status \notin {"absent", seen}
    <3>1. row' \in Columns /\ row'.attempts = row.attempts /\ row'.status # "absent"
        BY <2>1, <2>3 DEF Columns, Statuses, SeenType
    <3> QED BY <2>1, <3>1, CountStays DEF EvolutionInv, SessionTypes, SeenType
  <2> QED BY <2>2, <2>3
<1>3. CASE SyncFails
    BY <1>3, Elsewhere DEF SyncFails, EvolutionInv, SessionTypes, SeenType
<1> QED BY <1>1, <1>2, <1>3 DEF Monitor

\* The worker: it counts an attempt on the row it read, then makes the call.
LEMMA ReconnectKeeps ==
    ASSUME EvolutionInv, Reconnect
    PROVE  EvolutionInv'
<1>1. /\ row \in Columns /\ work.at \in {"idle", "selected", "read", "call"}
      /\ work.read \in Columns /\ work = [at |-> work.at, read |-> work.read]
      /\ row.attempts \in 0 .. MaxReconnects /\ calls \in Nat /\ calls <= row.attempts + 1
      /\ Absent \in Columns /\ Absent.status = "absent"
    BY EvolutionAssumption, WrittenRows DEF EvolutionInv, SessionTypes, CallsInv, Columns, Absent, NewRow
<1>2. Idle(work) = [at |-> "idle", read |-> Absent]
  <2>1. ASSUME NEW at, NEW held, NEW none
        PROVE  [[at |-> at, read |-> held] EXCEPT !.at = "idle", !.read = none]
                   = [at |-> "idle", read |-> none]
    <3>1. [[at |-> at, read |-> held] EXCEPT !.at = "idle"] = [at |-> "idle", read |-> held]
        OBVIOUS
    <3>2. [[at |-> "idle", read |-> held] EXCEPT !.read = none] = [at |-> "idle", read |-> none]
        OBVIOUS
    <3> QED BY <3>1, <3>2
  <2> QED BY <1>1, <2>1, Zenon DEF Idle
<1>3. CASE SelectDisconnected
  <2>1. work' = [at |-> "selected", read |-> work.read] /\ row.status = "disconnected"
        /\ UNCHANGED <<row, real, revoked, hooks, seen, calls, request>>
      BY <1>1, <1>3 DEF SelectDisconnected
  <2> QED BY <1>1, <2>1 DEF EvolutionInv, SessionTypes, WorkInv, CallsInv
<1>4. CASE ReadAccount
  <2>1. /\ \/ work' = [at |-> "read", read |-> row] /\ row.status \in {"connected", "disconnected"}
           \/ work' = [at |-> "idle", read |-> Absent]
        /\ UNCHANGED <<row, real, revoked, hooks, seen, calls, request>>
      BY <1>2, <1>4 DEF ReadAccount
  <2>2. SessionTypes' /\ WorkInv' /\ CallsInv'
      BY <1>1, <2>1 DEF EvolutionInv, SessionTypes, WorkInv, CallsInv
  <2> QED BY <2>2 DEF EvolutionInv
<1>5. CASE ProcessFails
  <2>1. work' = [at |-> "idle", read |-> Absent]
        /\ UNCHANGED <<row, real, revoked, hooks, seen, calls, request>>
      BY <1>2, <1>5 DEF ProcessFails
  <2> QED BY <1>1, <2>1 DEF EvolutionInv, SessionTypes, WorkInv, CallsInv
<1>6. CASE reconnect_instance
  <2>1. /\ work.at = "call" /\ work' = [at |-> "idle", read |-> Absent] /\ calls' = calls + 1
        /\ UNCHANGED <<row, revoked, seen, request>>
      BY <1>2, <1>6 DEF reconnect_instance
  <2>2. calls <= row.attempts
      BY <2>1 DEF EvolutionInv, CallsInv
  <2>3. real' \in Reals /\ hooks' \subseteq Posted
      BY <1>6 DEF reconnect_instance, Connects, Post, EvolutionInv, SessionTypes, Reals, Posted
  <2> QED BY <1>1, <2>1, <2>2, <2>3 DEF EvolutionInv, SessionTypes, WorkInv, CallsInv
<1>7. ASSUME _process_account PROVE EvolutionInv'
  <2> DEFINE read == work.read
             new  == Processed(read)
  <2>1. /\ work.at = "read" /\ row' = Flush(row, read, new)
        /\ work' = IF read.status = "disconnected" /\ MayReconnect(read)
                   THEN [at |-> "call", read |-> read] ELSE [at |-> "idle", read |-> Absent]
        /\ calls' = IF read.status = "connected" THEN 0 ELSE calls
        /\ UNCHANGED <<real, revoked, hooks, seen, request>>
      BY <1>1, <1>2, <1>7 DEF _process_account
  <2>2. /\ read \in Columns /\ read.status \in {"connected", "disconnected"}
        /\ row.attempts \in {0, read.attempts} /\ row.status # "absent"
      BY <1>1, <2>1 DEF EvolutionInv, WorkInv
  <2> HIDE DEF read
  <2>3. RecordDisconnect(read) \in Columns
    <3> DEFINE n == IF read.drops < YellowAt THEN read.drops + 1 ELSE YellowAt
    <3>1. n \in 0 .. YellowAt
        BY <2>2, EvolutionAssumption DEF Columns
    <3>2. CardFor(read, n) \in Auths
        BY <2>2 DEF CardFor, Columns, Auths
    <3>3. RecordDisconnect(read) = [read EXCEPT !.socket = "offline", !.drops = n,
                                                !.auth = CardFor(read, n)]
        BY DEF RecordDisconnect
    <3> HIDE DEF n
    <3> QED BY <2>2, <3>1, <3>2, <3>3 DEF Columns
  <2>4. RecordDisconnect(read).attempts = read.attempts /\ RecordDisconnect(read).status = read.status
      BY <2>2 DEF RecordDisconnect, Columns
  <2>5. CASE read.status = "connected"
    <3>1. new = [Connected(read) EXCEPT !.status = read.status]
        BY <2>5 DEF Processed, Reconnected
    <3>2. new \in Columns /\ new.attempts = 0 /\ new.status = read.status
        BY <2>2, <3>1, WrittenRows DEF Columns
    <3> HIDE DEF new
    <3>3. row' \in Columns /\ row'.status = row.status
          /\ row'.attempts = IF read.attempts = 0 THEN row.attempts ELSE 0
        BY <1>1, <2>1, <3>2, FlushColumns
    <3>4. work' = [at |-> "idle", read |-> Absent] /\ calls' = 0
        BY <2>1, <2>5
    <3>5. SessionTypes'
        BY <1>1, <2>1, <3>3, <3>4 DEF EvolutionInv, SessionTypes
    <3>6. WorkInv' /\ CallsInv'
        BY <1>1, <2>2, <3>3, <3>4 DEF WorkInv, CallsInv
    <3> QED BY <3>5, <3>6 DEF EvolutionInv
  <2>6. CASE read.status = "disconnected" /\ MayReconnect(read)
    <3>1. new = [RecordDisconnect(read) EXCEPT !.attempts = read.attempts + 1]
        BY <2>6 DEF Processed
    <3>2. /\ read.attempts + 1 \in 0 .. MaxReconnects /\ read.attempts \in Nat
          /\ read.attempts + 1 # read.attempts
        BY <2>2, <2>6, EvolutionAssumption DEF MayReconnect, Columns
    <3>3. new \in Columns /\ new.attempts = read.attempts + 1 /\ new.status = read.status
        BY <2>3, <2>4, <3>1, <3>2 DEF Columns
    <3> HIDE DEF new
    <3>4. row' \in Columns /\ row'.status = row.status /\ row'.attempts = read.attempts + 1
        BY <1>1, <2>1, <3>2, <3>3, FlushColumns
    <3>5. work' = [at |-> "call", read |-> read] /\ calls' = calls
        BY <2>1, <2>6
    <3>6. SessionTypes'
        BY <1>1, <2>1, <2>2, <3>4, <3>5 DEF EvolutionInv, SessionTypes
    <3>7. calls <= read.attempts + 1
        BY <1>1, <2>2, <3>2
    <3>8. WorkInv' /\ CallsInv'
        BY <1>1, <2>2, <3>2, <3>4, <3>5, <3>7 DEF WorkInv, CallsInv
    <3> QED BY <3>6, <3>8 DEF EvolutionInv
  <2>7. CASE read.status = "disconnected" /\ ~ MayReconnect(read)
    <3>1. new = RecordDisconnect(read)
        BY <2>7 DEF Processed
    <3> HIDE DEF new
    <3>2. row' \in Columns /\ row'.status = row.status /\ row'.attempts = row.attempts
        BY <1>1, <2>1, <2>3, <2>4, <3>1, FlushColumns
    <3>3. work' = [at |-> "idle", read |-> Absent] /\ calls' = calls
        BY <2>1, <2>7
    <3>4. SessionTypes'
        BY <1>1, <2>1, <3>2, <3>3 DEF EvolutionInv, SessionTypes
    <3>5. WorkInv' /\ CallsInv'
        BY <1>1, <2>2, <3>2, <3>3 DEF WorkInv, CallsInv
    <3> QED BY <3>4, <3>5 DEF EvolutionInv
  <2> QED BY <2>2, <2>5, <2>6, <2>7
<1> QED BY <1>3, <1>4, <1>5, <1>6, <1>7 DEF Reconnect

\* The operator: a row is made where there was none, and its count stays.
LEMMA RoutesKeep ==
    ASSUME EvolutionInv, Routes \/ WindowMoves
    PROVE  EvolutionInv'
<1>1. /\ row \in Columns /\ NewRow \in Columns /\ NewRow.status = "disconnected"
      /\ NewRow.attempts = 0 /\ (row.status = "absent" => row.attempts = 0)
    BY WrittenRows DEF EvolutionInv, SessionTypes, WorkInv, NewRow
<1>2. /\ GetOrCreate \in Columns /\ GetOrCreate.status # "absent"
      /\ GetOrCreate.attempts = row.attempts
    BY <1>1 DEF GetOrCreate
<1>3. CASE assign_proxy_to_account
  <2>1. PICK host \in Hosts : row' = [GetOrCreate EXCEPT !.proxy = host]
        /\ UNCHANGED <<real, revoked, hooks, seen, work, calls, request>>
      BY <1>3 DEF assign_proxy_to_account
  <2>2. row' \in Columns /\ row'.status # "absent" /\ row'.attempts = row.attempts
      BY <1>2, <2>1 DEF Columns
  <2> QED BY <2>1, <2>2, CountStays DEF EvolutionInv, SessionTypes
<1>4. CASE create_or_get_instance
  <2>1. row' = [GetOrCreate EXCEPT !.status = "created"] /\ request' = "qr"
        /\ UNCHANGED <<real, revoked, hooks, seen, work, calls>>
      BY <1>4 DEF create_or_get_instance
  <2>2. row' \in Columns /\ row'.status # "absent" /\ row'.attempts = row.attempts
      BY <1>2, <2>1 DEF Columns, Statuses
  <2> QED BY <2>1, <2>2, CountStays DEF EvolutionInv, SessionTypes
<1>5. CASE logout_instance
  <2>1. /\ row' = IF row.status = "absent" THEN row ELSE [row EXCEPT !.status = "disconnected"]
        /\ request' = "idle"
        /\ UNCHANGED <<real, revoked, hooks, seen, work, calls>>
      BY <1>5 DEF logout_instance
  <2>2. row' \in Columns /\ row'.attempts = row.attempts
        /\ (row'.status = "absent" => row.status = "absent")
      BY <1>1, <2>1 DEF Columns, Statuses
  <2> QED BY <2>1, <2>2, CountStays DEF EvolutionInv, SessionTypes
<1>6. CASE WindowMoves
  <2>1. row' = [row EXCEPT !.drops = @ - 1] /\ row.drops > 0
        /\ UNCHANGED <<real, revoked, hooks, seen, work, calls, request>>
      BY <1>6 DEF WindowMoves
  <2>2. row.drops - 1 \in 0 .. YellowAt
      BY <1>1, <2>1, EvolutionAssumption DEF Columns
  <2>3. row' \in Columns /\ row'.attempts = row.attempts /\ row'.status = row.status
      BY <1>1, <2>1, <2>2 DEF Columns
  <2> QED BY <2>1, <2>3, CountStays DEF EvolutionInv, SessionTypes
<1>7. CASE connect_evolution_instance \/ InstanceExists \/ CreateFails
    BY <1>7, Elsewhere DEF connect_evolution_instance, InstanceExists, CreateFails, EvolutionInv,
       SessionTypes
<1>8. CASE CreateInstance
    BY <1>8, Elsewhere DEF CreateInstance, EvolutionInv, SessionTypes, Reals
<1>9. CASE get_instance_qr
  <2>1. /\ request' = "idle" /\ UNCHANGED <<row, revoked, seen, work, calls>>
        /\ real' \in Reals /\ hooks' \subseteq Posted
      BY <1>9 DEF get_instance_qr, Connects, Post, EvolutionInv, SessionTypes, Reals, Posted
  <2> QED BY <2>1, Elsewhere DEF EvolutionInv, SessionTypes
<1>10. CASE LogoutAnswered
  <2>1. /\ request' = "logout" /\ UNCHANGED <<row, seen, work, calls>>
        /\ \/ real' = "close" /\ revoked' = TRUE /\ Post("close", "401")
           \/ UNCHANGED <<real, revoked, hooks>>
    <3>1. PICK done \in BOOLEAN :
              /\ request' = "logout" /\ UNCHANGED <<row, seen, work, calls>>
              /\ IF done THEN /\ real' = "close" /\ revoked' = TRUE /\ Post("close", "401")
                         ELSE UNCHANGED <<real, revoked, hooks>>
        BY <1>10, Zenon DEF LogoutAnswered
    <3> QED BY <3>1
  <2>2. real' \in Reals /\ hooks' \subseteq Posted /\ revoked' \in BOOLEAN
    <3>1. real \in Reals /\ hooks \subseteq Posted /\ revoked \in BOOLEAN
        BY DEF EvolutionInv, SessionTypes
    <3>2. CASE real' = "close" /\ revoked' = TRUE /\ Post("close", "401")
      <4>1. [state |-> "close", reason |-> "401"] \in Posted /\ "close" \in Reals
          BY DEF Posted, Reals
      <4> QED BY <3>1, <3>2, <4>1 DEF Post
    <3>3. CASE UNCHANGED <<real, revoked, hooks>>
        BY <3>1, <3>3
    <3> QED BY <2>1, <3>2, <3>3
  <2> QED BY <2>1, <2>2, Elsewhere DEF EvolutionInv, SessionTypes
<1> QED BY <1>3, <1>4, <1>5, <1>6, <1>7, <1>8, <1>9, <1>10 DEF Routes

THEOREM EvolutionInvariance == EvolutionSpec => []EvolutionInv
<1>1. EvolutionInv /\ [EvolutionNext]_evolutionVars => EvolutionInv'
  <2> SUFFICES ASSUME EvolutionInv, [EvolutionNext]_evolutionVars
               PROVE  EvolutionInv'
      OBVIOUS
  <2>1. CASE UNCHANGED evolutionVars
      BY <2>1, Elsewhere DEF evolutionVars, EvolutionInv, SessionTypes
  <2> QED BY <2>1, ServerKeeps, WebhookKeeps, MonitorKeeps, ReconnectKeeps, RoutesKeep DEF EvolutionNext
<1> QED BY EvolutionStarts, <1>1, PTL DEF EvolutionSpec

\* The row, the connection, the webhooks on their way and the positions of the worker, the
\* monitor and the routes stay well typed, whoever overwrites which columns
\* (evolution_webhook.py, whatsapp_auto_reconnect.py).
THEOREM EvolutionTypeCorrect == EvolutionSpec => []EvolutionTypeOK
<1>1. EvolutionInv => EvolutionTypeOK
    BY DEF EvolutionInv, SessionTypes, WorkInv, EvolutionTypeOK, Columns, Posted, Reals, SeenType, Statuses
<1> QED BY <1>1, EvolutionInvariance, PTL

\* Between two recoveries the worker asks the Evolution server to reconnect MaxReconnects
\* times at most, and once more for a recovery that came between its commit and its call,
\* for every limit and any number of connection changes.
THEOREM ReconnectsAreBounded == EvolutionSpec => []ReconnectsBounded
<1>1. EvolutionInv => ReconnectsBounded
  <2> SUFFICES ASSUME EvolutionInv PROVE ReconnectsBounded
      OBVIOUS
  <2>1. row.attempts \in 0 .. MaxReconnects /\ calls \in Nat /\ calls <= row.attempts + 1
      BY DEF EvolutionInv, SessionTypes, CallsInv, Columns
  <2> QED BY <2>1, EvolutionAssumption DEF ReconnectsBounded
<1> QED BY <1>1, EvolutionInvariance, PTL
---------------------------------------------------------------------------
(* Accounts and their stored sessions.                                     *)

Account == [phone : Phones, status : AccountStatus, min : Delays, max : Delays]
Types   == {"BROWSER_PROFILE", "API_TOKEN"}
Rows(owners) == [id : 1 .. MaxTxns, account : owners, good : BOOLEAN, type : Types]

\* A session that is stored: an API token has been validated.
Session(type, good) == type \in Types /\ good \in BOOLEAN /\ (type = "API_TOKEN" => good)

\* An open transaction: its id, what it read and what it writes.
Open(t, owners, next) ==
    /\ t.kind \in {"create", "update", "settings", "session"} /\ t.new \in Account
    /\ t.kind # "create" => t.account \in owners /\ t.read \in Account
    /\ t.kind = "session" => Session(t.type, t.good)
    /\ t.id \in 1 .. MaxTxns /\ t.id < next

AccountTypes ==
    /\ mode \in Modes /\ accounts \in Seq(Account) /\ stored \subseteq Rows(Ids)
    /\ nextRow \in Nat \ {0} /\ profile \subseteq Ids /\ unlinked \subseteq Ids
    /\ txn = [r \in Requests |-> txn[r]]
    /\ \A r \in Requests : txn[r] = NoTxn \/ Open(txn[r], Ids, nextRow)

\* The id sequence gives every transaction an id of its own.
IdsInv ==
    /\ \A s \in stored : s.id < nextRow
    /\ \A s, t \in stored : s.id = t.id => s = t
    /\ \A r \in Requests : txn[r].kind # "none" => \A s \in stored : s.id # txn[r].id
    /\ \A r, q \in Requests :
          txn[r].kind # "none" /\ txn[q].kind # "none" /\ txn[r].id = txn[q].id => r = q

\* The newest session of an account whose disconnect counts is not linked.
UnlinkedInv == \A a \in unlinked : ~ _latest_session_row(a, "BROWSER_PROFILE").good

AccountInv == AccountTypes /\ IdsInv /\ UnlinkedInv

\* Some row is the newest one, if there is any.
LEMMA LatestRow ==
    ASSUME NEW mine, \A s \in mine : s.id \in 1 .. MaxTxns, mine # {}
    PROVE  \E s \in mine : \A t \in mine : t.id <= s.id
<1> DEFINE ids == {s.id : s \in mine}
<1>1. \A s \in mine : s.id \in Nat /\ s.id <= MaxTxns
    BY AccountAssumption
<1>2. ids \subseteq Nat /\ ids # {} /\ \A i \in ids : i <= MaxTxns
    BY <1>1
<1>3. PICK i \in ids : \A j \in ids : j <= i
  <2> HIDE DEF ids
  <2> QED BY <1>2, GreatestId, AccountAssumption
<1>4. PICK s \in mine : s.id = i
    OBVIOUS
<1>5. \A t \in mine : t.id <= s.id
    BY <1>3, <1>4
<1> QED BY <1>4, <1>5

\* The account of a phone that has one is an account.
LEMMA PhoneAccount ==
    ASSUME AccountTypes, NEW phone, resolve_account_by_phone(phone) # 0
    PROVE  resolve_account_by_phone(phone) \in Ids
<1> DEFINE matches == {a \in Ids : accounts[a].phone = phone}
<1>1. matches # {} /\ matches \subseteq Nat /\ Len(accounts) \in Nat
      /\ \A a \in matches : a <= Len(accounts)
    BY DEF AccountTypes, Ids, resolve_account_by_phone
<1>2. PICK a \in matches : \A b \in matches : b <= a
  <2> HIDE DEF matches
  <2> QED BY <1>1, GreatestId
<1>3. resolve_account_by_phone(phone) = CHOOSE m \in matches : \A b \in matches : b <= m
    BY <1>1 DEF resolve_account_by_phone
<1>4. resolve_account_by_phone(phone) \in matches
  <2> HIDE DEF matches
  <2> QED BY <1>2, <1>3
<1> QED BY <1>4

\* The UPDATE keeps an account an account.
LEMMA FlushAccount ==
    ASSUME NEW now \in Account, NEW read \in Account, NEW new \in Account
    PROVE  Flush(now, read, new) \in Account
<1> DEFINE f == Flush(now, read, new)
<1>1. DOMAIN now = {"phone", "status", "min", "max"}
    BY DEF Account
<1>2. f = [x \in {"phone", "status", "min", "max"} |-> IF new[x] = read[x] THEN now[x] ELSE new[x]]
    BY <1>1, Zenon DEF Flush
<1> HIDE DEF f
<1>3. f = [phone |-> f.phone, status |-> f.status, min |-> f.min, max |-> f.max]
    BY <1>2
<1>4. f.phone \in {now.phone, new.phone} /\ f.status \in {now.status, new.status}
      /\ f.min \in {now.min, new.min} /\ f.max \in {now.max, new.max}
    BY <1>2
<1>5. f.phone \in Phones /\ f.status \in AccountStatus /\ f.min \in Delays /\ f.max \in Delays
    BY <1>4 DEF Account
<1> QED BY <1>3, <1>5 DEF Account, f

LEMMA AccountStarts == AccountInit => AccountInv
<1> SUFFICES ASSUME AccountInit PROVE AccountInv
    OBVIOUS
<1>1. /\ mode \in Modes /\ stored = {} /\ nextRow = 1 /\ txn = [r \in Requests |-> NoTxn]
      /\ profile = {} /\ unlinked = {}
    BY DEF AccountInit
<1>2. accounts \in Seq(Account)
  <2>1. ASSUME NEW phone \in Phones PROVE <<NewAccount(phone, "active")>> \in Seq(Account)
    <3>1. NewAccount(phone, "active") \in Account
        BY AccountAssumption DEF NewAccount, Account, AccountStatus
    <3> QED BY <3>1
  <2>2. <<>> \in Seq(Account)
      OBVIOUS
  <2> QED BY <2>1, <2>2 DEF AccountInit
<1>3. \A r \in Requests : txn[r].kind = "none"
    BY <1>1 DEF NoTxn
<1> QED BY <1>1, <1>2, <1>3 DEF AccountInv, AccountTypes, IdsInv, UnlinkedInv

\* A transaction begins: it takes the next id.
LEMMA Begins ==
    ASSUME AccountInv, NEW r \in Requests, NEW t, Begin(r, t), t.id = nextRow,
           t.kind \in {"create", "update", "settings", "session"}, t.new \in Account,
           t.kind # "create" => t.account \in Ids /\ t.read \in Account,
           t.kind = "session" => Session(t.type, t.good)
    PROVE  AccountInv'
<1>1. /\ txn' = [txn EXCEPT ![r] = t] /\ nextRow <= MaxTxns /\ nextRow' = nextRow + 1
      /\ UNCHANGED <<mode, accounts, stored, profile, unlinked>>
    BY DEF Begin
<1>2. /\ txn' = [q \in Requests |-> txn'[q]] /\ txn'[r] = t
      /\ \A q \in Requests \ {r} : txn'[q] = txn[q]
    BY <1>1 DEF AccountInv, AccountTypes
<1>3. Ids' = Ids
    BY <1>1 DEF Ids
<1>4. nextRow \in Nat \ {0} /\ nextRow \in 1 .. MaxTxns
    BY <1>1, AccountAssumption DEF AccountInv, AccountTypes
<1>5. Open(t, Ids, nextRow + 1)
    BY <1>4 DEF Open
<1>6. \A q \in Requests : Open(txn[q], Ids, nextRow) => Open(txn[q], Ids, nextRow + 1)
    BY <1>4, AccountAssumption DEF Open
<1>7. AccountTypes'
  <2>1. \A q \in Requests : txn'[q] = NoTxn \/ Open(txn'[q], Ids, nextRow + 1)
      BY <1>2, <1>5, <1>6 DEF AccountInv, AccountTypes
  <2> QED BY <1>1, <1>2, <1>3, <1>4, <2>1 DEF AccountInv, AccountTypes
<1>8. IdsInv'
  <2>1. \A s \in stored : s.id \in Nat /\ s.id < nextRow
      BY AccountAssumption DEF AccountInv, AccountTypes, Rows, IdsInv
  <2>2. \A q \in Requests : txn[q].kind # "none" => txn[q].id \in Nat /\ txn[q].id < nextRow
      BY AccountAssumption DEF AccountInv, AccountTypes, Open, NoTxn
  <2> QED BY <1>1, <1>2, <1>4, <2>1, <2>2 DEF AccountInv, IdsInv
<1>9. UnlinkedInv'
    BY <1>1 DEF AccountInv, UnlinkedInv, _latest_session_row
<1> QED BY <1>7, <1>8, <1>9 DEF AccountInv

\* The routes and tools that begin one: what they read is the account, what they write is one.
LEMMA RequestsKeep ==
    ASSUME AccountInv, NEW r \in Requests,
           \/ create_account(r) \/ update_account(r) \/ update_send_settings(r)
           \/ register_whatsapp_web_session(r) \/ register_api_token_session(r)
           \/ _store_linked_session(r) \/ mark_baileys_session_disconnected(r)
    PROVE  AccountInv'
<1>1. \A a \in Ids : accounts[a] \in Account
    BY DEF AccountInv, AccountTypes, Ids
<1>2. \A a \in Ids, new \in Account, kind \in {"update", "settings"} :
          Begin(r, Write(a, kind, new)) => AccountInv'
    BY <1>1, Begins DEF Write
<1>3. \A a \in Ids, new \in Account, type \in Types, good \in BOOLEAN :
          Session(type, good) /\ Begin(r, Store(a, new, type, good)) => AccountInv'
    BY <1>1, Begins DEF Store
<1>4. \A a \in Ids : Activated(accounts[a]) \in Account
  <2>1. \A x \in Account : [x EXCEPT !.status = "active"] \in Account
      BY DEF Account, AccountStatus
  <2> QED BY <1>1, <2>1 DEF Activated
<1>5. CASE create_account(r)
  <2>1. PICK phone \in Phones, status \in {"active", "requires_login"} :
            Begin(r, [id |-> nextRow, kind |-> "create", new |-> NewAccount(phone, status)])
      BY <1>5 DEF create_account
  <2>2. NewAccount(phone, status) \in Account
      BY AccountAssumption DEF NewAccount, Account, AccountStatus
  <2> QED BY <2>1, <2>2, Begins
<1>6. CASE update_account(r)
  <2>1. PICK a \in Ids :
            \/ \E phone \in Phones : Begin(r, Write(a, "update", [accounts[a] EXCEPT !.phone = phone]))
            \/ \E status \in AccountStatus :
                  Begin(r, Write(a, "update", [accounts[a] EXCEPT !.status = status]))
      BY <1>6, Zenon DEF update_account
  <2>2. /\ \A phone \in Phones : [accounts[a] EXCEPT !.phone = phone] \in Account
        /\ \A status \in AccountStatus : [accounts[a] EXCEPT !.status = status] \in Account
      BY <1>1 DEF Account
  <2> QED BY <1>2, <2>1, <2>2
<1>7. CASE update_send_settings(r)
  <2>1. PICK a \in Ids, min \in Delays, max \in Delays :
            Begin(r, Write(a, "settings", [accounts[a] EXCEPT !.min = min, !.max = max]))
      BY <1>7, Zenon DEF update_send_settings
  <2>2. [[accounts[a] EXCEPT !.min = min] EXCEPT !.max = max] \in Account
      BY <1>1 DEF Account
  <2> QED BY <1>2, <2>1, <2>2
<1>8. CASE register_whatsapp_web_session(r)
    BY <1>1, <1>3, <1>4, <1>8 DEF register_whatsapp_web_session, Session, Types
<1>9. CASE register_api_token_session(r)
    BY <1>3, <1>4, <1>9 DEF register_api_token_session, Session, Types
<1>10. CASE _store_linked_session(r)
    BY <1>1, <1>3, <1>10 DEF _store_linked_session, Session, Types, AccountInv, AccountTypes
<1>11. CASE mark_baileys_session_disconnected(r)
  <2>1. PICK phone \in Phones :
            LET a == resolve_account_by_phone(phone)
            IN  /\ a # 0
                /\ Begin(r, Store(a, [accounts[a] EXCEPT !.status = "requires_login"],
                                  "BROWSER_PROFILE", FALSE))
      BY <1>11 DEF mark_baileys_session_disconnected
  <2> DEFINE a == resolve_account_by_phone(phone)
  <2>2. a \in Ids
      BY <2>1, PhoneAccount DEF AccountInv
  <2>3. Begin(r, Store(a, [accounts[a] EXCEPT !.status = "requires_login"], "BROWSER_PROFILE", FALSE))
      BY <2>1
  <2> HIDE DEF a
  <2>4. [accounts[a] EXCEPT !.status = "requires_login"] \in Account
      BY <1>1, <2>2 DEF Account, AccountStatus
  <2> QED BY <1>3, <2>2, <2>3, <2>4 DEF Session, Types
<1> QED BY <1>5, <1>6, <1>7, <1>8, <1>9, <1>10, <1>11

\* A commit that stores a session: the newest row of an account whose disconnect counts is
\* still not linked, whichever transaction took its id first.
LEMMA StoreKeepsUnlinked ==
    ASSUME AccountInv, AccountTypes', IdsInv',
           NEW t, t.kind = "session", t.id \in Nat \ {0}, Session(t.type, t.good),
           \A s \in stored : s.id # t.id,
           stored' = stored \cup Inserted(t), unlinked' = Unlinked(t)
    PROVE  UnlinkedInv'
<1>1. PICK x : x = [id |-> t.id, account |-> t.account, type |-> t.type, good |-> t.good]
    OBVIOUS
<1>2. stored' = stored \cup {x} /\ x.id = t.id /\ x.account = t.account /\ x.type = t.type
      /\ x.good = t.good
    BY <1>1 DEF Inserted
<1>3. /\ \A s \in stored : s.id \in 1 .. MaxTxns /\ s.id # t.id
      /\ \A s \in stored' : s.id \in 1 .. MaxTxns
      /\ \A s, u \in stored : s.id = u.id => s = u
    BY DEF AccountInv, AccountTypes, IdsInv, Rows
<1> SUFFICES ASSUME NEW a \in unlinked', _latest_session_row(a, "BROWSER_PROFILE")'.good
             PROVE  FALSE
    BY DEF UnlinkedInv
<1> DEFINE mine == {s \in stored : s.account = a /\ s.type = "BROWSER_PROFILE"}
           mine2 == {s \in stored' : s.account = a /\ s.type = "BROWSER_PROFILE"}
           was == _latest_session_row(a, "BROWSER_PROFILE")
           now == _latest_session_row(a, "BROWSER_PROFILE")'
           none == [id |-> 0, account |-> a, type |-> "BROWSER_PROFILE", good |-> FALSE]
<1>4. now \in mine2 /\ \A s \in mine2 : s.id <= now.id
  <2>1. now = IF mine2 = {} THEN none ELSE CHOOSE s \in mine2 : \A u \in mine2 : u.id <= s.id
      BY DEF _latest_session_row
  <2>2. \A s \in mine2 : s.id \in 1 .. MaxTxns
      BY <1>3
  <2>3. none.id = 0 /\ ~ none.good
      OBVIOUS
  <2> HIDE DEF now, mine2, none
  <2>4. mine2 # {} => \E s \in mine2 : \A u \in mine2 : u.id <= s.id
      BY <2>2, LatestRow
  <2>5. (mine2 = {} => now = none) /\ (mine2 # {} => now \in mine2 /\ \A s \in mine2 : s.id <= now.id)
      BY <2>1, <2>4
  <2> QED BY <2>3, <2>5 DEF now, none
<1>5. /\ mine = {} => was.id = 0 /\ ~ was.good
      /\ mine # {} => was \in mine /\ \A s \in mine : s.id <= was.id
  <2>1. was = IF mine = {} THEN none ELSE CHOOSE s \in mine : \A u \in mine : u.id <= s.id
      BY DEF _latest_session_row
  <2>2. \A s \in mine : s.id \in 1 .. MaxTxns
      BY <1>3
  <2>3. none.id = 0 /\ ~ none.good
      OBVIOUS
  <2> HIDE DEF was, mine, none
  <2>4. mine # {} => \E s \in mine : \A u \in mine : u.id <= s.id
      BY <2>2, LatestRow
  <2>5. (mine = {} => was = none) /\ (mine # {} => was \in mine /\ \A s \in mine : s.id <= was.id)
      BY <2>1, <2>4
  <2> QED BY <2>3, <2>5 DEF none
<1>6. mine \subseteq mine2 /\ now.good
    BY <1>2
<1>7. a = t.account => (Newest(t) <=> was.id < t.id)
    BY DEF Newest
<1> HIDE DEF mine, was, now
<1>8. was.id \in Nat
    BY <1>3, <1>5, AccountAssumption DEF mine
<1>9. CASE now = x
  <2>1. t.account = a /\ t.type = "BROWSER_PROFILE" /\ t.good
      BY <1>2, <1>4, <1>6, <1>9
  <2>2. was.id <= t.id /\ was.id # t.id
    <3>1. CASE mine = {}
        BY <1>5, <3>1
    <3>2. CASE mine # {}
        BY <1>2, <1>3, <1>4, <1>5, <1>6, <1>9, <3>2 DEF mine
    <3> QED BY <3>1, <3>2
  <2>3. Newest(t)
      BY <1>7, <1>8, <2>1, <2>2
  <2>4. Unlinked(t) = unlinked \ {t.account}
      BY <2>1, <2>3 DEF Unlinked, Disconnects, Relinks
  <2> QED BY <2>1, <2>4
<1>10. CASE now \in stored
  <2>1. now \in mine /\ was \in mine /\ now.id <= was.id /\ was.id <= now.id
      BY <1>4, <1>5, <1>6, <1>10 DEF mine
  <2>2. now = was
      BY <1>3, <2>1, AccountAssumption DEF mine
  <2>3. a \notin unlinked
      BY <1>6, <2>2 DEF AccountInv, UnlinkedInv, was
  <2>4. Disconnects(t) /\ Newest(t) /\ t.account = a
      BY <2>3 DEF Unlinked
  <2>5. t.type = "BROWSER_PROFILE"
      BY <2>4 DEF Disconnects, Session, Types
  <2>6. x \in mine2 /\ x.id > was.id
      BY <1>2, <1>7, <1>8, <2>4, <2>5
  <2> QED BY <1>2, <1>4, <1>8, <2>2, <2>6
<1> QED BY <1>2, <1>4, <1>9, <1>10

\* A commit writes what its transaction set out to write.
LEMMA CommitKeeps ==
    ASSUME AccountInv, NEW r \in Requests, Commit(r)
    PROVE  AccountInv'
<1> DEFINE t == txn[r]
<1>1. /\ txn' = [txn EXCEPT ![r] = NoTxn] /\ UNCHANGED <<mode, nextRow, profile>>
      /\ Open(t, Ids, nextRow) /\ accounts \in Seq(Account) /\ nextRow \in Nat \ {0}
      /\ Ids = 1 .. Len(accounts) /\ Len(accounts) \in Nat
    BY DEF Commit, AccountInv, AccountTypes, Ids
<1>2. /\ txn' = [q \in Requests |-> txn'[q]] /\ txn'[r] = NoTxn
      /\ \A q \in Requests \ {r} : txn'[q] = txn[q]
    BY <1>1 DEF AccountInv, AccountTypes
<1>3. NoTxn.kind = "none" /\ t.kind # "none"
    BY <1>1 DEF NoTxn, Open
<1>4. CASE t.kind = "create"
  <2>1. accounts' = Append(accounts, t.new) /\ UNCHANGED <<stored, unlinked>>
      BY <1>4 DEF Commit
  <2>2. accounts' \in Seq(Account) /\ Ids \subseteq Ids'
      BY <1>1, <2>1, AppendProperties DEF Open, Ids
  <2>3. \A q \in Requests : txn[q] = NoTxn \/ Open(txn[q], Ids', nextRow)
      BY <2>2 DEF AccountInv, AccountTypes, Open
  <2>4. Rows(Ids) \subseteq Rows(Ids')
      BY <2>2 DEF Rows
  <2>5. AccountTypes'
      BY <1>1, <1>2, <2>1, <2>2, <2>3, <2>4 DEF AccountInv, AccountTypes
  <2>6. IdsInv'
      BY <1>1, <1>2, <1>3, <2>1 DEF AccountInv, IdsInv
  <2>7. UnlinkedInv'
      BY <2>1 DEF AccountInv, UnlinkedInv, _latest_session_row
  <2> QED BY <2>5, <2>6, <2>7 DEF AccountInv
<1>5. CASE t.kind # "create"
  <2>1. /\ accounts' = [accounts EXCEPT ![t.account] = Flush(@, t.read, t.new)]
        /\ stored' = stored \cup Inserted(t) /\ unlinked' = Unlinked(t)
      BY <1>5 DEF Commit
  <2>2. t.account \in Ids /\ t.read \in Account /\ t.new \in Account
        /\ (t.kind = "session" => Session(t.type, t.good)) /\ t.id \in 1 .. MaxTxns /\ t.id < nextRow
      BY <1>1, <1>5 DEF Open
  <2>3. Flush(accounts[t.account], t.read, t.new) \in Account
      BY <1>1, <2>2, FlushAccount DEF Ids
  <2>4. accounts' \in Seq(Account) /\ Ids' = Ids
      BY <1>1, <2>1, <2>2, <2>3, ExceptSeq DEF Ids
  <2>5. unlinked' \subseteq Ids
      BY <2>1, <2>2 DEF Unlinked, AccountInv, AccountTypes
  <2>6. \A s \in Inserted(t) : s \in Rows(Ids) /\ s.id = t.id
      BY <2>2 DEF Inserted, Rows, Session
  <2>7. AccountTypes'
      BY <1>1, <1>2, <2>1, <2>4, <2>5, <2>6 DEF AccountInv, AccountTypes
  <2>8. IdsInv'
    <3>1. Inserted(t) = {} \/ \E x : Inserted(t) = {x} /\ x.id = t.id
        BY <2>6 DEF Inserted
    <3> QED BY <1>1, <1>2, <1>3, <2>1, <2>2, <2>6, <3>1 DEF AccountInv, IdsInv
  <2>9. UnlinkedInv'
    <3>1. CASE t.kind = "session"
      <4>1. t.id \in Nat \ {0} /\ \A s \in stored : s.id # t.id
          BY <1>3, <2>2, AccountAssumption DEF AccountInv, IdsInv
      <4> HIDE DEF t
      <4> QED BY <2>1, <2>2, <2>7, <2>8, <3>1, <4>1, StoreKeepsUnlinked
    <3>2. CASE t.kind # "session"
      <4>1. stored' = stored /\ unlinked' \subseteq unlinked
          BY <2>1, <3>2 DEF Inserted, Unlinked, Disconnects
      <4> QED BY <4>1 DEF AccountInv, UnlinkedInv, _latest_session_row
    <3> QED BY <3>1, <3>2
  <2> QED BY <2>7, <2>8, <2>9 DEF AccountInv
<1> QED BY <1>4, <1>5

\* A step that leaves the tables and the transactions alone, or ends one without a trace.
LEMMA NothingWritten ==
    ASSUME AccountInv,
           UNCHANGED <<mode, accounts, stored, nextRow, unlinked>>, profile' \subseteq Ids,
           txn' = txn \/ \E r \in Requests : txn' = [txn EXCEPT ![r] = NoTxn]
    PROVE  AccountInv'
<1>1. Ids' = Ids
    BY DEF Ids
<1>2. /\ txn' = [q \in Requests |-> txn'[q]]
      /\ \A q \in Requests : txn'[q] \in {txn[q], NoTxn}
    BY DEF AccountInv, AccountTypes
<1>3. AccountTypes'
    BY <1>1, <1>2 DEF AccountInv, AccountTypes
<1>4. IdsInv'
    BY <1>2 DEF AccountInv, IdsInv, NoTxn
<1>5. UnlinkedInv'
    BY DEF AccountInv, UnlinkedInv, _latest_session_row
<1> QED BY <1>3, <1>4, <1>5 DEF AccountInv

THEOREM AccountInvariance == AccountSpec => []AccountInv
<1>1. AccountInv /\ [AccountNext]_accountVars => AccountInv'
  <2> SUFFICES ASSUME AccountInv, [AccountNext]_accountVars
               PROVE  AccountInv'
      OBVIOUS
  <2>1. ASSUME NEW r \in Requests, Rollback(r) PROVE AccountInv'
      BY <2>1, NothingWritten DEF Rollback, AccountInv, AccountTypes
  <2>2. CASE _wait_for_qr_login
    <3>1. profile' \subseteq Ids
        BY <2>2 DEF _wait_for_qr_login, AccountInv, AccountTypes
    <3> QED BY <2>2, <3>1, NothingWritten DEF _wait_for_qr_login
  <2>3. CASE UNCHANGED accountVars
      BY <2>3, NothingWritten DEF accountVars, AccountInv, AccountTypes
  <2> QED BY <2>1, <2>2, <2>3, RequestsKeep, CommitKeeps DEF AccountNext
<1> QED BY AccountStarts, <1>1, PTL DEF AccountSpec

\* Accounts, stored sessions and open transactions stay well typed, whatever requests
\* overlap (accounts.py, send_settings.py).
THEOREM AccountTypeCorrect == AccountSpec => []AccountTypeOK
<1>1. AccountInv => AccountTypeOK
  <2> SUFFICES ASSUME AccountInv PROVE AccountTypeOK
      OBVIOUS
  <2>1. /\ mode \in Modes /\ profile \subseteq Ids /\ unlinked \subseteq Ids
        /\ stored \subseteq Rows(Ids)
        /\ \A a \in Ids : accounts[a] \in Account
      BY DEF AccountInv, AccountTypes, Ids
  <2>2. ASSUME NEW r \in Requests
        PROVE  txn[r].kind \in {"none", "create", "update", "settings", "session"}
    <3>1. txn[r] = NoTxn \/ Open(txn[r], Ids, nextRow)
        BY DEF AccountInv, AccountTypes
    <3>2. CASE txn[r] = NoTxn
        BY <3>2 DEF NoTxn
    <3>3. CASE Open(txn[r], Ids, nextRow)
        BY <3>3 DEF Open
    <3> QED BY <3>1, <3>2, <3>3
  <2> QED BY <2>1, <2>2 DEF AccountTypeOK, Rows, Types, Account
<1> QED BY <1>1, AccountInvariance, PTL

\* Once a Baileys disconnect is recorded the account is not ready again until a newer
\* session is linked or an operator sets it active, for any number of accounts and of
\* requests open at the same time, in whatever order they commit: each took its id from
\* the sequence, and readiness asks the newest row (account_session_wiring.py).
THEOREM DisconnectsHold == AccountSpec => []DisconnectHolds
<1>1. AccountInv => DisconnectHolds
    BY DEF AccountInv, UnlinkedInv, DisconnectHolds, evaluate_account_session_readiness,
           build_whatsapp_web_status
<1> QED BY <1>1, AccountInvariance, PTL
---------------------------------------------------------------------------
(* Sequences of sequences.                                                 *)

\* Sequences that are put one behind the other, as a function of how many.
LEMMA FlattenExists ==
    ASSUME NEW T, NEW seqs \in Seq(Seq(T))
    PROVE  \E g : g = [i \in 1 .. Len(seqs) |-> IF i = 1 THEN seqs[i] ELSE g[i - 1] \o seqs[i]]
<1> DEFINE Upto(n) == \E g : g = [i \in 1 .. n |-> IF i = 1 THEN seqs[i] ELSE g[i - 1] \o seqs[i]]
           Bad == {n \in Nat : ~ Upto(n)}
<1>1. Upto(0)
  <2>1. \A g : [i \in 1 .. 0 |-> IF i = 1 THEN seqs[i] ELSE g[i - 1] \o seqs[i]] = <<>>
      OBVIOUS
  <2> QED BY <2>1
<1>2. ASSUME NEW n \in Nat, Upto(n) PROVE Upto(n + 1)
  <2>1. PICK g : g = [i \in 1 .. n |-> IF i = 1 THEN seqs[i] ELSE g[i - 1] \o seqs[i]]
      BY <1>2
  <2> DEFINE last == IF n = 0 THEN seqs[1] ELSE g[n] \o seqs[n + 1]
             h == [i \in 1 .. n + 1 |-> IF i = n + 1 THEN last ELSE g[i]]
  <2>2. \A i \in 1 .. n + 1 : h[i] = IF i = n + 1 THEN last ELSE g[i]
      OBVIOUS
  <2>3. h = [i \in 1 .. n + 1 |-> h[i]]
      OBVIOUS
  <2> HIDE DEF h
  <2>4. ASSUME NEW i \in 1 .. n + 1 PROVE h[i] = IF i = 1 THEN seqs[i] ELSE h[i - 1] \o seqs[i]
    <3>1. CASE i = n + 1 /\ n = 0
        BY <2>2, <3>1
    <3>2. CASE i = n + 1 /\ n # 0
      <4>1. h[i - 1] = g[n]
          BY <2>2, <3>2
      <4> QED BY <2>2, <3>2, <4>1
    <3>3. CASE i # n + 1
      <4>1. i \in 1 .. n /\ h[i] = g[i] /\ (i # 1 => h[i - 1] = g[i - 1])
          BY <2>2, <3>3
      <4>2. g[i] = IF i = 1 THEN seqs[i] ELSE g[i - 1] \o seqs[i]
          BY <2>1, <4>1
      <4> QED BY <4>1, <4>2
    <3> QED BY <3>1, <3>2, <3>3
  <2>5. h = [i \in 1 .. n + 1 |-> IF i = 1 THEN seqs[i] ELSE h[i - 1] \o seqs[i]]
      BY <2>3, <2>4
  <2> QED BY <2>5
<1>3. Bad = {}
  <2> SUFFICES ASSUME Bad # {} PROVE FALSE
      OBVIOUS
  <2> HIDE DEF Upto
  <2>1. PICK m \in Bad : \A n \in Bad : m <= n
      BY LeastId
  <2>2. m # 0 /\ m - 1 \in Nat /\ m - 1 \notin Bad
      BY <1>1, <2>1
  <2>3. Upto(m - 1) /\ m = (m - 1) + 1
      BY <2>1, <2>2
  <2>4. Upto((m - 1) + 1)
      BY <1>2, <2>2, <2>3
  <2> QED BY <2>1, <2>3, <2>4
<1>4. Len(seqs) \in Nat
    OBVIOUS
<1> HIDE DEF Upto
<1>5. Upto(Len(seqs))
    BY <1>3, <1>4
<1> QED BY <1>5 DEF Upto

\* A concatenation has the elements of both sequences.
LEMMA ConcatHas ==
    ASSUME NEW T, NEW x \in Seq(T), NEW y \in Seq(T), NEW z, z = x \o y
    PROVE  /\ z \in Seq(T) /\ Len(z) = Len(x) + Len(y)
           /\ \A i \in 1 .. Len(x) : i \in 1 .. Len(z) /\ z[i] = x[i]
           /\ \A i \in 1 .. Len(y) : Len(x) + i \in 1 .. Len(z) /\ z[Len(x) + i] = y[i]
<1>1. /\ Len(x) \in Nat /\ Len(y) \in Nat /\ Len(z) = Len(x) + Len(y) /\ z \in Seq(T)
      /\ \A j \in 1 .. Len(x) + Len(y) : z[j] = IF j <= Len(x) THEN x[j] ELSE y[j - Len(x)]
    BY ConcatProperties
<1>2. ASSUME NEW i \in 1 .. Len(x) PROVE i \in 1 .. Len(z) /\ z[i] = x[i]
    BY <1>1
<1>3. ASSUME NEW i \in 1 .. Len(y)
      PROVE  Len(x) + i \in 1 .. Len(z) /\ z[Len(x) + i] = y[i]
  <2>1. Len(x) + i \in 1 .. Len(x) + Len(y) /\ ~ (Len(x) + i <= Len(x)) /\ (Len(x) + i) - Len(x) = i
      BY <1>1
  <2> QED BY <1>1, <2>1
<1> QED BY <1>1, <1>2, <1>3

\* FlattenSeq keeps every element of every one of the sequences.
LEMMA FlattenKeeps ==
    ASSUME NEW T, NEW seqs \in Seq(Seq(T)), NEW i \in 1 .. Len(seqs), NEW k \in 1 .. Len(seqs[i])
    PROVE  \E j \in DOMAIN FlattenSeq(seqs) : FlattenSeq(seqs)[j] = seqs[i][k]
<1> DEFINE n == Len(seqs)
           flatten == CHOOSE g : g = [a \in 1 .. n |-> IF a = 1 THEN seqs[a] ELSE g[a - 1] \o seqs[a]]
<1>1. n \in Nat /\ n # 0 /\ \A a \in 1 .. n : seqs[a] \in Seq(T)
    OBVIOUS
<1>2. flatten = [a \in 1 .. n |-> IF a = 1 THEN seqs[a] ELSE flatten[a - 1] \o seqs[a]]
    BY FlattenExists
<1>3. FlattenSeq(seqs) = flatten[n]
    BY <1>1 DEF FlattenSeq
<1> HIDE DEF flatten, n
<1>4. \A a \in 1 .. n : flatten[a] = IF a = 1 THEN seqs[a] ELSE flatten[a - 1] \o seqs[a]
    BY <1>2
<1>5. PICK e : e = seqs[i][k] /\ i \in 1 .. n
    BY DEF n
<1> DEFINE Has(a) == /\ flatten[a] \in Seq(T)
                     /\ a >= i => \E j \in 1 .. Len(flatten[a]) : flatten[a][j] = e
           Bad == {a \in 1 .. n : ~ Has(a)}
<1>6. Has(1)
  <2>1. flatten[1] = seqs[1] /\ seqs[1] \in Seq(T) /\ i \in Nat /\ i >= 1
      BY <1>1, <1>4, <1>5
  <2>2. 1 >= i => k \in 1 .. Len(flatten[1]) /\ flatten[1][k] = e
      BY <1>5, <2>1
  <2> QED BY <2>1, <2>2
<1>7. ASSUME NEW a \in 1 .. n, a # 1, Has(a - 1) PROVE Has(a)
  <2>1. flatten[a - 1] \in Seq(T) /\ seqs[a] \in Seq(T) /\ a - 1 \in 1 .. n
      BY <1>1, <1>7
  <2>2. flatten[a] = flatten[a - 1] \o seqs[a]
      BY <1>4, <1>7
  <2>3. PICK x \in Seq(T), y \in Seq(T) : x = flatten[a - 1] /\ y = seqs[a] /\ flatten[a] = x \o y
      BY <2>1, <2>2
  <2>4. /\ flatten[a] \in Seq(T)
        /\ \A b \in 1 .. Len(x) : b \in 1 .. Len(flatten[a]) /\ flatten[a][b] = x[b]
        /\ \A b \in 1 .. Len(y) :
              Len(x) + b \in 1 .. Len(flatten[a]) /\ flatten[a][Len(x) + b] = y[b]
    <3>1. PICK z : z = flatten[a]
        OBVIOUS
    <3>2. z = x \o y
        BY <2>3, <3>1
    <3> QED BY <3>1, <3>2, ConcatHas
  <2>5. CASE a - 1 >= i
    <3>1. PICK j \in 1 .. Len(x) : x[j] = e
        BY <1>7, <2>3, <2>5
    <3> QED BY <2>4, <3>1
  <2>6. CASE a = i
    <3>1. k \in 1 .. Len(y) /\ y[k] = e
        BY <1>5, <2>3, <2>6
    <3> QED BY <2>4, <3>1
  <2>7. CASE a < i
    <3>1. ~ (a >= i)
        BY <1>1, <1>5, <2>7
    <3> QED BY <2>4, <3>1
  <2> QED BY <1>1, <1>5, <2>5, <2>6, <2>7
<1>8. Bad = {}
  <2> SUFFICES ASSUME Bad # {} PROVE FALSE
      OBVIOUS
  <2> HIDE DEF Has
  <2>1. PICK m \in Bad : \A a \in Bad : m <= a
    <3>1. Bad \subseteq Nat
        BY <1>1
    <3> HIDE DEF Bad
    <3> QED BY <3>1, LeastId
  <2>2. m \in 1 .. n /\ ~ Has(m) /\ m # 1
      BY <1>6, <2>1
  <2>3. m - 1 \in 1 .. n /\ m - 1 \notin Bad
      BY <1>1, <2>1, <2>2
  <2> QED BY <1>7, <2>2, <2>3
<1>9. Has(n) /\ n >= i
  <2> HIDE DEF Has
  <2> QED BY <1>1, <1>5, <1>8
<1>10. flatten[n] \in Seq(T)
    BY <1>9
<1> QED BY <1>3, <1>5, <1>9, <1>10
---------------------------------------------------------------------------
(* The warm-up matrix.                                                     *)

\* A shuffle lists two lines or more, each once.
LEMMA ShuffledLines ==
    ASSUME NEW s \in Shuffles
    PROVE  /\ s \in Seq(Lines) /\ Len(s) \in Nat /\ Len(s) >= 2 /\ Len(s) <= Cardinality(Lines)
           /\ \A i, j \in 1 .. Len(s) : i # j => s[i] # s[j]
<1>1. PICK some \in SUBSET Lines : s \in SetToSeqs(some) /\ Len(s) >= 2
    BY DEF Shuffles, SetToAllKPermutations
<1> DEFINE n == Cardinality(some)
<1>2. n \in Nat /\ n <= Cardinality(Lines)
    BY LinesAssumption, FS_Subset, FS_CardinalityType
<1>3. s \in [1 .. n -> some] /\ \A i, j \in 1 .. n : i # j => s[i] # s[j]
    BY <1>1 DEF SetToSeqs
<1> HIDE DEF n
<1>4. s \in Seq(Lines) /\ Len(s) = n
    BY <1>2, <1>3
<1> QED BY <1>1, <1>2, <1>3, <1>4

\* The groups of a shuffle: half as many as lines, and in every line's group it writes first
\* to another line in some step.
Writes(group, line) ==
    \E j \in 1 .. 4 : scheduleGroup(group)[j][1] = line /\ scheduleGroup(group)[j][2] # line

LEMMA GroupsCover ==
    ASSUME NEW s \in Shuffles
    PROVE  LET groups == buildWarmupGroups(s)
           IN  /\ groups \in Seq(Seq(Lines)) /\ Len(groups) = Len(s) \div 2
               /\ \A i \in 1 .. Len(groups) : Len(groups[i]) \in {2, 3}
               /\ \A k \in 1 .. Len(s) : \E i \in 1 .. Len(groups) : Writes(groups[i], s[k])
<1> DEFINE n == Len(s)
<1>1. /\ s \in Seq(Lines) /\ n \in Nat /\ n >= 2
      /\ \A i, j \in 1 .. n : i # j => s[i] # s[j]
    BY ShuffledLines
<1> HIDE DEF n
<1>2. ASSUME NEW t \in Seq(Lines)
      PROVE  /\ Pairs(t) \in Seq(Seq(Lines)) /\ Len(Pairs(t)) = Len(t) \div 2
             /\ \A i \in 1 .. Len(t) \div 2 : /\ 2 * i - 1 \in 1 .. Len(t) /\ 2 * i \in 1 .. Len(t)
                                            /\ Pairs(t)[i] = <<t[2 * i - 1], t[2 * i]>>
                                            /\ Len(Pairs(t)[i]) = 2
  <2>1. Len(t) \in Nat /\ Len(t) \div 2 \in Nat /\ 2 * (Len(t) \div 2) <= Len(t)
      OBVIOUS
  <2>2. \A i \in 1 .. Len(t) \div 2 : 2 * i - 1 \in 1 .. Len(t) /\ 2 * i \in 1 .. Len(t)
      BY <2>1
  <2>3. \A i \in 1 .. Len(t) \div 2 : <<t[2 * i - 1], t[2 * i]>> \in Seq(Lines)
      BY <2>2
  <2>4. \A i \in 1 .. Len(t) \div 2 : Pairs(t)[i] = <<t[2 * i - 1], t[2 * i]>>
      BY DEF Pairs
  <2>5. Pairs(t) \in Seq(Seq(Lines)) /\ Len(Pairs(t)) = Len(t) \div 2
      BY <2>1, <2>3 DEF Pairs
  <2>6. \A i \in 1 .. Len(t) \div 2 : Len(Pairs(t)[i]) = 2
    <3>1. \A a, b : Len(<<a, b>>) = 2
        OBVIOUS
    <3> QED BY <2>4, <3>1, Zenon
  <2> QED BY <2>2, <2>4, <2>5, <2>6
<1>3. ASSUME NEW g, NEW a, NEW b, g = <<a, b>>, a # b PROVE Writes(g, a) /\ Writes(g, b)
  <2>1. scheduleGroup(g)[1] = <<a, b>> /\ scheduleGroup(g)[2] = <<b, a>>
      BY <1>3 DEF scheduleGroup, pairConversationSteps
  <2> QED BY <1>3, <2>1 DEF Writes
<1>4. ASSUME NEW g, NEW a, NEW b, NEW c, g = <<a, b, c>>, a # b, b # c, c # a
      PROVE  Writes(g, a) /\ Writes(g, b) /\ Writes(g, c)
  <2>1. /\ scheduleGroup(g)[1] = <<a, b>> /\ scheduleGroup(g)[2] = <<b, c>>
        /\ scheduleGroup(g)[3] = <<c, a>>
      BY <1>4 DEF scheduleGroup, trioConversationSteps
  <2> QED BY <1>4, <2>1 DEF Writes
<1>5. ASSUME NEW t \in Seq(Lines), \A i, j \in 1 .. Len(t) : i # j => t[i] # t[j],
             NEW k \in 1 .. Len(t), k <= 2 * (Len(t) \div 2)
      PROVE  \E i \in 1 .. Len(t) \div 2 : Writes(Pairs(t)[i], t[k])
  <2>1. PICK i \in 1 .. Len(t) \div 2 : k = 2 * i - 1 \/ k = 2 * i
    <3> DEFINE h == Len(t) \div 2
    <3>1. h \in Nat /\ k <= 2 * h
        BY <1>5
    <3> HIDE DEF h
    <3>2. (k + 1) \div 2 \in 1 .. h /\ (k = 2 * ((k + 1) \div 2) - 1 \/ k = 2 * ((k + 1) \div 2))
        BY <3>1
    <3> QED BY <3>2 DEF h
  <2>2. /\ 2 * i - 1 \in 1 .. Len(t) /\ 2 * i \in 1 .. Len(t)
        /\ Pairs(t)[i] = <<t[2 * i - 1], t[2 * i]>>
      BY <1>2
  <2>3. 2 * i - 1 # 2 * i
      OBVIOUS
  <2>4. t[2 * i - 1] # t[2 * i]
      BY <1>5, <2>2, <2>3
  <2>5. Writes(Pairs(t)[i], t[2 * i - 1]) /\ Writes(Pairs(t)[i], t[2 * i])
      BY <1>3, <2>2, <2>4
  <2> QED BY <2>1, <2>5
<1>6. CASE n % 2 = 0
  <2>1. buildWarmupGroups(s) = Pairs(s) /\ n = 2 * (n \div 2)
      BY <1>1, <1>6 DEF buildWarmupGroups, n
  <2>2. \A i \in 1 .. n \div 2 : Len(Pairs(s)[i]) = 2
      BY <1>1, <1>2 DEF n
  <2>3. Pairs(s) \in Seq(Seq(Lines)) /\ Len(Pairs(s)) = n \div 2
      BY <1>1, <1>2 DEF n
  <2>4. \A k \in 1 .. n : \E i \in 1 .. n \div 2 : Writes(Pairs(s)[i], s[k])
      BY <1>1, <1>5, <2>1 DEF n
  <2> QED BY <2>1, <2>2, <2>3, <2>4 DEF n
<1>7. CASE n % 2 = 1
  <2> DEFINE middle == SubSeq(s, 2, n - 1)
             trio == <<s[1], s[n], s[n - 1]>>
             h == (n - 2) \div 2
  <2>1. /\ middle \in Seq(Lines) /\ Len(middle) = n - 2 /\ n - 2 \in Nat /\ n - 2 >= 1
        /\ \A i \in 1 .. n - 2 : middle[i] = s[i + 1]
      BY <1>1, <1>7 DEF n
  <2>2. n \div 2 = h + 1 /\ h \in Nat /\ n - 2 = 2 * h + 1
      BY <1>1, <1>7
  <2>3. buildWarmupGroups(s) = Append(Pairs(middle), trio)
      BY <1>1, <1>7, <2>1 DEF buildWarmupGroups, Last, n
  <2>4. /\ Pairs(middle) \in Seq(Seq(Lines)) /\ Len(Pairs(middle)) = h
        /\ \A i \in 1 .. h : Len(Pairs(middle)[i]) = 2
    <3>1. Len(middle) \div 2 = h
        BY <2>1
    <3> HIDE DEF middle, h
    <3> QED BY <1>2, <2>1, <3>1
  <2>5. trio \in Seq(Lines) /\ Len(trio) = 3
      BY <1>1, <2>1 DEF n
  <2> HIDE DEF middle, trio, h
  <2> DEFINE groups == Append(Pairs(middle), trio)
  <2>6. /\ groups \in Seq(Seq(Lines)) /\ Len(groups) = h + 1 /\ groups[h + 1] = trio
        /\ \A i \in 1 .. h : groups[i] = Pairs(middle)[i]
      BY <2>2, <2>4, <2>5, AppendProperties
  <2> HIDE DEF groups
  <2>7. \A i \in 1 .. h + 1 : Len(groups[i]) \in {2, 3}
      BY <2>2, <2>4, <2>5, <2>6
  <2>8. ASSUME NEW k \in 1 .. n
        PROVE  \E i \in 1 .. h + 1 : Writes(groups[i], s[k])
    <3>1. s[1] # s[n] /\ s[n] # s[n - 1] /\ s[n - 1] # s[1]
        BY <1>1, <2>1
    <3>2. Writes(trio, s[1]) /\ Writes(trio, s[n]) /\ Writes(trio, s[n - 1]) /\ h + 1 \in 1 .. h + 1
        BY <1>4, <2>2, <3>1 DEF trio
    <3>3. CASE k = 1
        BY <2>6, <3>2, <3>3
    <3>4. CASE k = n
        BY <2>6, <3>2, <3>4
    <3>5. CASE k = n - 1
        BY <2>6, <3>2, <3>5
    <3>6. CASE k \in 2 .. n - 2
      <4>1. k - 1 \in 1 .. n - 2 /\ k - 1 <= 2 * h /\ middle[k - 1] = s[k]
          BY <1>1, <2>1, <2>2, <3>6
      <4>2. \A i, j \in 1 .. Len(middle) : i # j => middle[i] # middle[j]
          BY <1>1, <2>1
      <4>3. Len(middle) \div 2 = h
          BY <2>1 DEF h
      <4>4. PICK i \in 1 .. h : Writes(Pairs(middle)[i], middle[k - 1])
          BY <1>5, <2>1, <4>1, <4>2, <4>3
      <4>5. i \in 1 .. h + 1 /\ groups[i] = Pairs(middle)[i]
          BY <2>2, <2>6
      <4> QED BY <4>1, <4>4, <4>5
    <3> QED BY <1>1, <3>3, <3>4, <3>5, <3>6
  <2> QED BY <2>2, <2>3, <2>6, <2>7, <2>8 DEF n, groups
<1> QED BY <1>1, <1>6, <1>7

\* The requests of a warm-up: where they are, the shuffle Node drew and the groups it added.
WarmupAt == {"idle", "refused", "tested", "locked", "called", "scheduled", "failed", "died"}
Progress(w) ==
    /\ w = [at |-> w.at, groups |-> w.groups, order |-> w.order]
    /\ w.at \in WarmupAt /\ w.groups \in Nat
    /\ w.at \in {"called", "scheduled"} =>
          w.order \in Shuffles /\ w.groups <= Len(buildWarmupGroups(w.order))
    /\ w.at = "scheduled" => w.groups = Len(buildWarmupGroups(w.order))
    /\ w.at \notin {"called", "scheduled"} => w.groups = 0 /\ w.order = <<>>

\* The lock is that of a request that is still open, or it is earned.
LockInv == lock => earned \/ \E t \in WarmupRequests : warmup[t].at \in {"locked", "called"}

WarmupInv ==
    /\ warmup = [t \in WarmupRequests |-> warmup[t]]
    /\ \A t \in WarmupRequests : Progress(warmup[t])
    /\ lock \in BOOLEAN /\ earned \in BOOLEAN
    /\ LockInv

LEMMA WarmupStarts == WarmupInit => WarmupInv
<1> SUFFICES ASSUME WarmupInit PROVE WarmupInv
    OBVIOUS
<1> DEFINE start == [at |-> "idle", groups |-> 0, order |-> <<>>]
<1>1. Progress(start)
    BY DEF Progress, WarmupAt
<1>2. warmup = [t \in WarmupRequests |-> start] /\ lock = FALSE /\ earned = FALSE
    BY DEF WarmupInit
<1> HIDE DEF start
<1> QED BY <1>1, <1>2 DEF WarmupInv, LockInv

\* One request moves on; the others stay where they are.
LEMMA RequestMoves ==
    ASSUME WarmupInv, NEW t \in WarmupRequests, NEW w, Progress(w),
           warmup' = [warmup EXCEPT ![t] = w],
           lock' \in BOOLEAN, earned' \in BOOLEAN,
           lock' => earned' \/ w.at \in {"locked", "called"}
                    \/ /\ lock /\ (earned => earned')
                       /\ warmup[t].at \notin {"locked", "called"}
    PROVE  WarmupInv'
<1>1. /\ warmup' = [q \in WarmupRequests |-> warmup'[q]] /\ warmup'[t] = w
      /\ \A q \in WarmupRequests \ {t} : warmup'[q] = warmup[q]
    BY DEF WarmupInv
<1>2. \A q \in WarmupRequests : Progress(warmup'[q])
    BY <1>1 DEF WarmupInv
<1>3. LockInv'
    BY <1>1 DEF WarmupInv, LockInv
<1> QED BY <1>1, <1>2, <1>3 DEF WarmupInv

LEMMA WarmupStepKeeps ==
    ASSUME WarmupInv, NEW t \in WarmupRequests, WarmupStep(t)
    PROVE  WarmupInv'
<1>1. PICK at, n, s : warmup[t] = [at |-> at, groups |-> n, order |-> s]
    BY DEF WarmupInv, Progress
<1>2. /\ at \in WarmupAt /\ n \in Nat
      /\ at \in {"called", "scheduled"} => s \in Shuffles /\ n <= Len(buildWarmupGroups(s))
      /\ at = "scheduled" => n = Len(buildWarmupGroups(s))
      /\ at \notin {"called", "scheduled"} => n = 0 /\ s = <<>>
      /\ lock \in BOOLEAN /\ earned \in BOOLEAN
    BY <1>1 DEF WarmupInv, Progress
<1>3. ASSUME NEW place, Goto(t, place)
      PROVE  warmup' = [warmup EXCEPT ![t] = [at |-> place, groups |-> n, order |-> s]]
  <2>1. warmup' = [warmup EXCEPT ![t] = [warmup[t] EXCEPT !.at = place]]
      BY <1>3 DEF Goto
  <2>2. [warmup[t] EXCEPT !.at = place] = [at |-> place, groups |-> n, order |-> s]
      BY <1>1
  <2> QED BY <2>1, <2>2
<1>4. \A place \in {"refused", "tested", "locked"} : n = 0 /\ s = <<>> =>
          Progress([at |-> place, groups |-> n, order |-> s])
    BY DEF Progress, WarmupAt
<1>5. \A place \in {"failed", "died"} : Progress([at |-> place, groups |-> 0, order |-> <<>>])
    BY DEF Progress, WarmupAt
<1>6. CASE TestLock(t)
  <2>1. PICK place \in {"refused", "tested"} :
            at = "idle" /\ Goto(t, place) /\ UNCHANGED <<lock, earned>>
      BY <1>1, <1>6 DEF TestLock
  <2>2. Progress([at |-> place, groups |-> n, order |-> s]) /\ warmup[t].at = "idle"
      BY <1>1, <1>2, <1>4, <2>1
  <2> QED BY <1>2, <1>3, <2>1, <2>2, RequestMoves
<1>7. CASE SetLock(t)
  <2>1. at = "tested" /\ Goto(t, "locked") /\ lock' = TRUE /\ earned' = earned
      BY <1>1, <1>7 DEF SetLock
  <2>2. Progress([at |-> "locked", groups |-> n, order |-> s])
      BY <1>2, <1>4, <2>1
  <2> QED BY <1>2, <1>3, <2>1, <2>2, RequestMoves
<1>8. CASE Call(t)
  <2>1. PICK order \in Shuffles :
            /\ warmup[t].at = "locked"
            /\ warmup' = [warmup EXCEPT ![t].at = "called", ![t].order = order]
            /\ UNCHANGED <<lock, earned>>
      BY <1>8, Zenon DEF Call
  <2>2. warmup' = [warmup EXCEPT ![t] = [at |-> "called", groups |-> 0, order |-> order]]
    <3>1. PICK called : called = [warmup EXCEPT ![t].at = "called"]
        OBVIOUS
    <3>2. called = [warmup EXCEPT ![t] = [warmup[t] EXCEPT !.at = "called"]]
        BY <3>1
    <3>3. [warmup[t] EXCEPT !.at = "called"] = [at |-> "called", groups |-> n, order |-> s]
        BY <1>1
    <3>4. called = [warmup EXCEPT ![t] = [at |-> "called", groups |-> n, order |-> s]]
        BY <3>2, <3>3
    <3>5. called[t] = [at |-> "called", groups |-> n, order |-> s]
        BY <3>4 DEF WarmupInv
    <3>6. [called[t] EXCEPT !.order = order] = [at |-> "called", groups |-> n, order |-> order]
        BY <3>5
    <3>7. [called EXCEPT ![t].order = order] = [called EXCEPT ![t] = [called[t] EXCEPT !.order = order]]
        OBVIOUS
    <3>8. [called EXCEPT ![t].order = order]
              = [warmup EXCEPT ![t] = [at |-> "called", groups |-> n, order |-> order]]
        BY <3>4, <3>6, <3>7
    <3> QED BY <1>1, <1>2, <2>1, <3>1, <3>8
  <2>3. Progress([at |-> "called", groups |-> 0, order |-> order])
    <3>1. Len(buildWarmupGroups(order)) \in Nat
        BY <2>1, GroupsCover
    <3> QED BY <2>1, <3>1 DEF Progress, WarmupAt
  <2> QED BY <1>2, <2>1, <2>2, <2>3, RequestMoves
<1>9. CASE AddGroup(t)
  <2>1. /\ at = "called" /\ UNCHANGED <<lock, earned>> /\ n < Len(buildWarmupGroups(s))
        /\ warmup' = [warmup EXCEPT ![t] = [warmup[t] EXCEPT !.groups = @ + 1]]
      BY <1>1, <1>9 DEF AddGroup
  <2>2. warmup' = [warmup EXCEPT ![t] = [at |-> "called", groups |-> n + 1, order |-> s]]
    <3>1. [warmup[t] EXCEPT !.groups = @ + 1] = [at |-> "called", groups |-> n + 1, order |-> s]
        BY <1>1, <2>1
    <3> QED BY <2>1, <3>1
  <2>3. Progress([at |-> "called", groups |-> n + 1, order |-> s])
    <3>1. s \in Shuffles /\ Len(buildWarmupGroups(s)) \in Nat
        BY <1>2, <2>1, GroupsCover
    <3> QED BY <1>2, <2>1, <3>1 DEF Progress, WarmupAt
  <2> QED BY <1>2, <2>1, <2>2, <2>3, RequestMoves
<1>10. CASE WarmupSucceeds(t)
  <2>1. at = "called" /\ n = Len(buildWarmupGroups(s)) /\ Goto(t, "scheduled")
        /\ earned' = TRUE /\ lock' = lock
      BY <1>1, <1>10 DEF WarmupSucceeds
  <2>2. Progress([at |-> "scheduled", groups |-> n, order |-> s])
      BY <1>2, <2>1 DEF Progress, WarmupAt
  <2> QED BY <1>2, <1>3, <2>1, <2>2, RequestMoves
<1>11. CASE WarmupFails(t)
  <2>1. /\ warmup' = [warmup EXCEPT ![t] = [at |-> "failed", groups |-> 0, order |-> <<>>]]
        /\ lock' = FALSE /\ earned' = FALSE
      BY <1>11 DEF WarmupFails, Ends
  <2> QED BY <1>5, <2>1, RequestMoves
<1>12. CASE ApiDies(t)
  <2>1. /\ warmup' = [warmup EXCEPT ![t] = [at |-> "died", groups |-> 0, order |-> <<>>]]
        /\ lock' = lock /\ earned' = TRUE
      BY <1>12 DEF ApiDies, Ends
  <2> QED BY <1>2, <1>5, <2>1, RequestMoves
<1> QED BY <1>6, <1>7, <1>8, <1>9, <1>10, <1>11, <1>12 DEF WarmupStep

THEOREM WarmupInvariance == WarmupSpec => []WarmupInv
<1>1. WarmupInv /\ [WarmupNext]_warmupVars => WarmupInv'
  <2> SUFFICES ASSUME WarmupInv, [WarmupNext]_warmupVars
               PROVE  WarmupInv'
      OBVIOUS
  <2>1. CASE LockExpires
      BY <2>1 DEF LockExpires, WarmupInv, LockInv
  <2>2. CASE UNCHANGED warmupVars
      BY <2>2 DEF warmupVars, WarmupInv, LockInv
  <2> QED BY <2>1, <2>2, WarmupStepKeeps DEF WarmupNext
<1> QED BY WarmupStarts, <1>1, PTL DEF WarmupSpec

\* A warm-up lock that no open request holds stands for a matrix that was scheduled, and a
\* matrix that was scheduled makes every line of the shuffle write to another one, for
\* every number of lines, even or odd, every shuffle and every interleaving of requests
\* (warmup.js, whatsapp_warmup.py).
THEOREM WarmupsAreEarned == WarmupSpec => []WarmupIsEarned
<1>1. WarmupInv => WarmupIsEarned
  <2> SUFFICES ASSUME WarmupInv PROVE WarmupIsEarned
      OBVIOUS
  <2>1. ASSUME NEW t \in WarmupRequests, warmup[t].at = "scheduled",
               NEW line \in ToSet(warmup[t].order)
        PROVE  LET jobs == scheduleWarmupMatrix(warmup[t].order, warmup[t].groups)
               IN  \E i \in DOMAIN jobs : jobs[i][1] = line /\ jobs[i][2] # line
    <3> DEFINE s == warmup[t].order
               groups == buildWarmupGroups(s)
               parts == [i \in 1 .. Len(groups) |-> scheduleGroup(groups[i])]
    <3>1. s \in Shuffles /\ warmup[t].groups = Len(groups)
        BY <2>1 DEF WarmupInv, Progress
    <3> HIDE DEF s
    <3>2. PICK k \in 1 .. Len(s) : s[k] = line
        BY <2>1, <3>1, ShuffledLines DEF ToSet, s
    <3>3. /\ groups \in Seq(Seq(Lines)) /\ \A i \in 1 .. Len(groups) : Len(groups[i]) \in {2, 3}
        BY <3>1, GroupsCover
    <3>4. PICK i \in 1 .. Len(groups) : Writes(groups[i], line)
        BY <3>1, <3>2, GroupsCover
    <3> HIDE DEF groups
    <3>5. \A b \in 1 .. Len(groups) :
              /\ scheduleGroup(groups[b]) \in Seq(Lines \X Lines)
              /\ Len(scheduleGroup(groups[b])) = 4
      <4> SUFFICES ASSUME NEW b \in 1 .. Len(groups)
                   PROVE  /\ scheduleGroup(groups[b]) \in Seq(Lines \X Lines)
                          /\ Len(scheduleGroup(groups[b])) = 4
          OBVIOUS
      <4>1. PICK g \in Seq(Lines) : g = groups[b] /\ Len(g) \in {2, 3}
          BY <3>3
      <4>2. g[1] \in Lines /\ g[2] \in Lines /\ (Len(g) = 3 => g[3] \in Lines)
          BY <4>1
      <4>3. \A u, v, w, x \in Lines \X Lines :
                <<u, v, w, x>> \in Seq(Lines \X Lines) /\ Len(<<u, v, w, x>>) = 4
          OBVIOUS
      <4>4. CASE Len(g) = 2
          BY <4>1, <4>2, <4>3, <4>4 DEF scheduleGroup, pairConversationSteps
      <4>5. CASE Len(g) = 3
          BY <4>1, <4>2, <4>3, <4>5 DEF scheduleGroup, trioConversationSteps
      <4> QED BY <4>1, <4>4, <4>5
    <3>6. parts \in Seq(Seq(Lines \X Lines)) /\ Len(parts) = Len(groups)
          /\ \A b \in 1 .. Len(groups) : parts[b] = scheduleGroup(groups[b])
        BY <3>3, <3>5
    <3>7. scheduleWarmupMatrix(s, Len(groups)) = FlattenSeq(parts)
        BY DEF scheduleWarmupMatrix, groups
    <3> HIDE DEF parts
    <3>8. PICK j \in 1 .. 4 : parts[i][j][1] = line /\ parts[i][j][2] # line
        BY <3>4, <3>6 DEF Writes
    <3>9. i \in 1 .. Len(parts) /\ j \in 1 .. Len(parts[i])
        BY <3>4, <3>5, <3>6, <3>8
    <3>10. PICK m \in DOMAIN FlattenSeq(parts) : FlattenSeq(parts)[m] = parts[i][j]
        BY <3>6, <3>9, FlattenKeeps
    <3> QED BY <3>1, <3>7, <3>8, <3>10 DEF s
  <2> QED BY <2>1 DEF WarmupIsEarned, WarmupInv, LockInv
<1> QED BY <1>1, WarmupInvariance, PTL
---------------------------------------------------------------------------
(* Link sessions.                                                          *)

LinkAt   == {"idle", "starting", "started", "done"}
LinkSock == {"none", "live", "ended"}
Timers   == {"qr", "hard", "success"}
Session1(s) ==
    /\ s = [answer |-> s.answer, at |-> s.at, sock |-> s.sock, timers |-> s.timers,
            proxy |-> s.proxy]
    /\ s.at \in LinkAt /\ s.sock \in LinkSock /\ s.timers \in SUBSET Timers

LinkTypes ==
    /\ link = [r \in LinkRequests |-> link[r]]
    /\ \A r \in LinkRequests : Session1(link[r])
    /\ entry \in LinkRequests \cup {Nobody} /\ linked \in BOOLEAN
    /\ file \in ProxyFiles \cup {Broken} /\ proxyCache \in ProxyFiles \cup {<<>>}

\* A session stays one when a field of it is set.
LEMMA FieldsSet ==
    ASSUME NEW s, Session1(s)
    PROVE  /\ \A place \in LinkAt : Session1([s EXCEPT !.at = place])
           /\ \A sock \in LinkSock : Session1([s EXCEPT !.sock = sock])
           /\ \A timers \in SUBSET Timers : Session1([s EXCEPT !.timers = timers])
           /\ \A answer : Session1([s EXCEPT !.answer = answer])
           /\ \A proxy : Session1([s EXCEPT !.proxy = proxy])
<1>1. PICK a, p, k, t, x : /\ s = [answer |-> a, at |-> p, sock |-> k, timers |-> t, proxy |-> x]
                           /\ p \in LinkAt /\ k \in LinkSock /\ t \in SUBSET Timers
    BY DEF Session1
<1>2. \A b, q, l, u, y : q \in LinkAt /\ l \in LinkSock /\ u \in SUBSET Timers =>
          Session1([answer |-> b, at |-> q, sock |-> l, timers |-> u, proxy |-> y])
    BY DEF Session1
<1>3. \A v : /\ [s EXCEPT !.at = v] = [answer |-> a, at |-> v, sock |-> k, timers |-> t, proxy |-> x]
              /\ [s EXCEPT !.sock = v] = [answer |-> a, at |-> p, sock |-> v, timers |-> t, proxy |-> x]
              /\ [s EXCEPT !.timers = v] = [answer |-> a, at |-> p, sock |-> k, timers |-> v, proxy |-> x]
              /\ [s EXCEPT !.answer = v] = [answer |-> v, at |-> p, sock |-> k, timers |-> t, proxy |-> x]
              /\ [s EXCEPT !.proxy = v] = [answer |-> a, at |-> p, sock |-> k, timers |-> t, proxy |-> v]
    BY <1>1
<1> QED BY <1>1, <1>2, <1>3

LEMMA FinishedSession ==
    ASSUME NEW s, Session1(s), NEW answer
    PROVE  Session1(Finish(s, answer)) /\ Session1(Done(s, answer))
<1>1. Session1(Finish(s, answer))
    BY FieldsSet DEF Finish
<1> QED BY <1>1, FieldsSet DEF Done, LinkAt

\* One request's session changes; the others stay as they are.
LEMMA SessionMoves ==
    ASSUME LinkTypes, NEW r \in LinkRequests, NEW s, Session1(s), link' = [link EXCEPT ![r] = s],
           entry' \in LinkRequests \cup {Nobody}, linked' \in BOOLEAN,
           file' \in ProxyFiles \cup {Broken}, proxyCache' \in ProxyFiles \cup {<<>>}
    PROVE  LinkTypes'
BY DEF LinkTypes

\* ... also when its socket is ended and the line's entry deleted.
LEMMA SocketEnds ==
    ASSUME LinkTypes, NEW r \in LinkRequests, NEW s, Session1(s), EndLinkSocket(r, s),
           linked' \in BOOLEAN,
           file' \in ProxyFiles \cup {Broken}, proxyCache' \in ProxyFiles \cup {<<>>}
    PROVE  LinkTypes'
<1> DEFINE n == [s EXCEPT !.sock = IF @ = "live" THEN "ended" ELSE @]
<1>1. link' = [link EXCEPT ![r] = n] /\ entry' = Nobody
    BY DEF EndLinkSocket
<1>2. Session1(n)
  <2>1. (IF s.sock = "live" THEN "ended" ELSE s.sock) \in LinkSock
      BY DEF Session1, LinkSock
  <2> QED BY <2>1, FieldsSet
<1> HIDE DEF n
<1> QED BY <1>1, <1>2, SessionMoves

LEMMA LinkStepKeeps ==
    ASSUME LinkTypes, NEW r \in LinkRequests, LinkStep(r)
    PROVE  LinkTypes'
<1> DEFINE s == link[r]
<1>1. /\ Session1(s) /\ s.timers \in SUBSET Timers
      /\ entry \in LinkRequests \cup {Nobody} /\ linked \in BOOLEAN
      /\ file \in ProxyFiles \cup {Broken} /\ proxyCache \in ProxyFiles \cup {<<>>}
      /\ loadProxies \in ProxyFiles \cup {<<>>}
    BY DEF LinkTypes, Session1, loadProxies
<1>2. \A answer : Session1(Finish(s, answer)) /\ Session1(Done(s, answer))
    BY <1>1, FinishedSession
<1>3. \A answer, timers : timers \in SUBSET Timers =>
          Session1([Finish(s, answer) EXCEPT !.timers = timers])
    BY <1>2, FieldsSet
<1>4. \A answer : Finish(s, answer).timers = s.timers
    BY <1>1 DEF Finish, Session1
<1>5. CASE LinkRoute(r)
  <2>1. CASE link' = [link EXCEPT ![r] = Done(@, "already_linked")] /\ UNCHANGED entry
      BY <1>1, <1>2, <1>5, <2>1, SessionMoves DEF LinkRoute
  <2>2. CASE EndLinkSocket(r, Done(link[r], "LINK_IN_PROGRESS"))
      BY <1>1, <1>2, <1>5, <2>2, SocketEnds DEF LinkRoute
  <2>3. CASE link' = [link EXCEPT ![r].at = "starting"] /\ UNCHANGED entry
    <3>1. link' = [link EXCEPT ![r] = [s EXCEPT !.at = "starting"]]
        BY <2>3
    <3>2. Session1([s EXCEPT !.at = "starting"])
        BY <1>1, FieldsSet DEF LinkAt
    <3> QED BY <1>1, <1>5, <2>3, <3>1, <3>2, SessionMoves DEF LinkRoute
  <2> QED BY <1>5, <2>1, <2>2, <2>3 DEF LinkRoute
<1>6. CASE StartFails(r)
    BY <1>1, <1>2, <1>6, SocketEnds DEF StartFails
<1>7. CASE StartSocket(r)
  <2>1. PICK proxy : /\ link' = [link EXCEPT ![r] = [s EXCEPT !.at = "started", !.sock = "live",
                                                         !.timers = {"qr"}, !.proxy = proxy]]
                     /\ entry' = r /\ proxyCache' = loadProxies /\ UNCHANGED <<linked, file>>
      BY <1>7, Zenon DEF StartSocket
  <2>2. Session1([[[[s EXCEPT !.at = "started"] EXCEPT !.sock = "live"] EXCEPT !.timers = {"qr"}]
                  EXCEPT !.proxy = proxy])
    <3>1. "started" \in LinkAt /\ "live" \in LinkSock /\ {"qr"} \in SUBSET Timers
        BY DEF LinkAt, LinkSock, Timers
    <3>2. Session1([s EXCEPT !.at = "started"])
        BY <1>1, <3>1, FieldsSet
    <3>3. Session1([[s EXCEPT !.at = "started"] EXCEPT !.sock = "live"])
        BY <3>1, <3>2, FieldsSet
    <3>4. Session1([[[s EXCEPT !.at = "started"] EXCEPT !.sock = "live"] EXCEPT !.timers = {"qr"}])
        BY <3>1, <3>3, FieldsSet
    <3> QED BY <3>4, FieldsSet
  <2> QED BY <1>1, <2>1, <2>2, SessionMoves
<1>8. CASE QrEvent(r)
  <2>1. link' = [link EXCEPT ![r] = [Finish(s, "qr") EXCEPT !.timers = (@ \ {"qr"}) \cup {"hard"}]]
        /\ UNCHANGED <<entry, linked, file, proxyCache>>
      BY <1>8 DEF QrEvent
  <2>2. Session1([Finish(s, "qr") EXCEPT !.timers = (@ \ {"qr"}) \cup {"hard"}])
    <3>1. (s.timers \ {"qr"}) \cup {"hard"} \in SUBSET Timers
        BY <1>1 DEF Timers
    <3> QED BY <1>3, <1>4, <3>1
  <2> QED BY <1>1, <2>1, <2>2, SessionMoves
<1>9. CASE QrEncodeFails(r)
  <2>1. EndLinkSocket(r, [Finish(s, "start_failed") EXCEPT !.timers = @ \ {"qr"}])
        /\ UNCHANGED <<linked, file, proxyCache>>
      BY <1>9 DEF QrEncodeFails
  <2>2. Session1([Finish(s, "start_failed") EXCEPT !.timers = @ \ {"qr"}])
    <3>1. s.timers \ {"qr"} \in SUBSET Timers
        BY <1>1
    <3> QED BY <1>3, <1>4, <3>1
  <2> QED BY <1>1, <2>1, <2>2, SocketEnds
<1>10. ASSUME NEW timer, TimerFires(r, timer) PROVE LinkTypes'
  <2> DEFINE done == IF timer = "qr" THEN Finish(s, "QR_TIMEOUT") ELSE s
  <2>1. EndLinkSocket(r, [done EXCEPT !.timers = @ \ {timer}]) /\ UNCHANGED <<linked, file, proxyCache>>
      BY <1>10 DEF TimerFires
  <2>2. Session1(done) /\ done.timers = s.timers
      BY <1>1, <1>2, <1>4
  <2> HIDE DEF done
  <2>3. Session1([done EXCEPT !.timers = @ \ {timer}])
    <3>1. done.timers \ {timer} \in SUBSET Timers
        BY <1>1, <2>2
    <3> QED BY <2>2, <3>1, FieldsSet
  <2> QED BY <1>1, <2>1, <2>3, SocketEnds
<1>11. CASE Scanned(r)
    BY <1>11 DEF Scanned, LinkTypes
<1>12. CASE ConnectionOpen(r)
  <2>1. link' = [link EXCEPT ![r] = [s EXCEPT !.timers = @ \cup {"success"}]]
        /\ UNCHANGED <<entry, linked, file, proxyCache>>
      BY <1>12 DEF ConnectionOpen
  <2>2. Session1([s EXCEPT !.timers = @ \cup {"success"}])
    <3>1. s.timers \cup {"success"} \in SUBSET Timers
        BY <1>1 DEF Timers
    <3> QED BY <1>1, <3>1, FieldsSet
  <2> QED BY <1>1, <2>1, <2>2, SessionMoves
<1>13. ASSUME NEW loggedOut \in BOOLEAN, ConnectionClose(r, loggedOut) PROVE LinkTypes'
  <2>1. CASE EndLinkSocket(r, link[r])
      BY <1>1, <1>13, <2>1, SocketEnds DEF ConnectionClose
  <2>2. CASE link' = [link EXCEPT ![r].sock = "ended"] /\ UNCHANGED entry
    <3>1. link' = [link EXCEPT ![r] = [s EXCEPT !.sock = "ended"]]
        BY <2>2
    <3>2. Session1([s EXCEPT !.sock = "ended"])
        BY <1>1, FieldsSet DEF LinkSock
    <3> QED BY <1>1, <1>13, <2>2, <3>1, <3>2, SessionMoves DEF ConnectionClose
  <2> QED BY <1>13, <2>1, <2>2 DEF ConnectionClose
<1> QED BY <1>5, <1>6, <1>7, <1>8, <1>9, <1>10, <1>11, <1>12, <1>13 DEF LinkStep, LinkTimers

LEMMA LinkStarts == LinkInit => LinkTypes
<1>1. Session1(Unasked)
    BY DEF Session1, Unasked, LinkAt, LinkSock
<1> QED BY <1>1 DEF LinkInit, LinkTypes

THEOREM LinkTypesInvariance == LinkSpec => []LinkTypes
<1>1. LinkTypes /\ [LinkNext]_linkVars => LinkTypes'
  <2> SUFFICES ASSUME LinkTypes, [LinkNext]_linkVars
               PROVE  LinkTypes'
      OBVIOUS
  <2>1. CASE shutdownApi
    <3>1. link' = [r \in LinkRequests |->
                     IF link[r].at \in {"idle", "done"} THEN link[r]
                     ELSE [[Done(link[r], "reset") EXCEPT !.sock = "ended"] EXCEPT !.timers = {}]]
          /\ entry' = Nobody /\ proxyCache' = (IF file = Broken THEN <<>> ELSE file)
          /\ UNCHANGED <<linked, file>>
        BY <2>1 DEF shutdownApi
    <3>2. ASSUME NEW r \in LinkRequests PROVE Session1(link'[r])
      <4>1. Session1(link[r]) /\ Session1(Done(link[r], "reset"))
          BY FinishedSession DEF LinkTypes
      <4>2. Session1([Done(link[r], "reset") EXCEPT !.sock = "ended"])
          BY <4>1, FieldsSet DEF LinkSock
      <4>3. Session1([[Done(link[r], "reset") EXCEPT !.sock = "ended"] EXCEPT !.timers = {}])
          BY <4>2, FieldsSet
      <4> QED BY <3>1, <4>1, <4>3
    <3> QED BY <3>1, <3>2 DEF LinkTypes
  <2>2. CASE EditProxies \/ RemoveSession \/ UNCHANGED linkVars
      BY <2>2 DEF EditProxies, RemoveSession, linkVars, LinkTypes
  <2> QED BY <2>1, <2>2, LinkStepKeeps DEF LinkNext
<1> QED BY LinkStarts, <1>1, PTL DEF LinkSpec

LEMMA Halves == \A a, b \in Nat : a <= b => a \div 2 \in Nat /\ a \div 2 <= b \div 2
OBVIOUS

\* A link session, the map entry of its line, the proxies in memory and every warm-up
\* request stay well typed; no warm-up adds more groups than half of the lines (server.js,
\* proxyManager.js, warmup.js).
THEOREM LinkTypeCorrect == LinkSpec /\ WarmupSpec => []LinkTypeOK
<1>1. LinkTypes /\ WarmupInv => LinkTypeOK
  <2> SUFFICES ASSUME LinkTypes, WarmupInv PROVE LinkTypeOK
      OBVIOUS
  <2>1. ASSUME NEW t \in WarmupRequests
        PROVE  warmup[t].groups \in 0 .. Cardinality(Lines) \div 2
    <3> DEFINE w == warmup[t]
               half == Cardinality(Lines) \div 2
    <3>1. Cardinality(Lines) \in Nat /\ half \in Nat
        BY LinesAssumption, FS_CardinalityType
    <3>2. CASE w.at \in {"called", "scheduled"}
      <4>1. w.order \in Shuffles /\ w.groups \in Nat /\ w.groups <= Len(buildWarmupGroups(w.order))
          BY <3>2 DEF WarmupInv, Progress
      <4>2. PICK n \in Nat : n = Len(w.order) /\ n <= Cardinality(Lines)
                            /\ Len(buildWarmupGroups(w.order)) = n \div 2
          BY <4>1, ShuffledLines, GroupsCover
      <4>3. n \div 2 <= half
          BY <3>1, <4>2, Halves
      <4>4. PICK h \in Nat, m \in Nat : h = half /\ m = n \div 2 /\ m <= h /\ w.groups <= m
          BY <3>1, <4>1, <4>2, <4>3, Halves
      <4>5. w.groups \in 0 .. h
          BY <4>1, <4>4
      <4> QED BY <4>4, <4>5
    <3>3. CASE w.at \notin {"called", "scheduled"}
      <4>1. w.groups = 0
          BY <3>3 DEF WarmupInv, Progress
      <4> QED BY <3>1, <4>1
    <3> QED BY <3>2, <3>3
  <2>2. \A r \in LinkRequests : /\ link[r].at \in LinkAt /\ link[r].sock \in LinkSock
                               /\ link[r].timers \subseteq Timers
      BY DEF LinkTypes, Session1
  <2> QED BY <2>1, <2>2 DEF LinkTypeOK, LinkTypes, WarmupInv, LinkAt, LinkSock, Timers
<1> QED BY <1>1, LinkTypesInvariance, WarmupInvariance, PTL
---------------------------------------------------------------------------
(* All of them.                                                            *)

\* The composed specification is one of each part: a part moves alone.
LEMMA PartsMove ==
    /\ Spec => EvolutionSpec /\ AccountSpec
    /\ Spec => LinkSpec /\ WarmupSpec
<1>1. Init => EvolutionInit /\ AccountInit /\ LinkInit /\ WarmupInit
    BY DEF Init
<1>2. [Next]_vars => [EvolutionNext]_evolutionVars
    BY DEF Next, vars, EvolutionPart, AccountPart, LinkPart, WarmupPart
<1>3. [Next]_vars => [AccountNext]_accountVars
    BY DEF Next, vars, EvolutionPart, AccountPart, LinkPart, WarmupPart
<1>4. [Next]_vars => [LinkNext]_linkVars
    BY DEF Next, vars, EvolutionPart, AccountPart, LinkPart, WarmupPart
<1>5. [Next]_vars => [WarmupNext]_warmupVars
    BY DEF Next, vars, EvolutionPart, AccountPart, LinkPart, WarmupPart
<1> QED BY <1>1, <1>2, <1>3, <1>4, <1>5, PTL
        DEF Spec, EvolutionSpec, AccountSpec, LinkSpec, WarmupSpec

\* Whichever part moves, every table, map and queue of the accounts and sessions side stays
\* well typed.
THEOREM SessionsTypeCorrect == Spec => []SessionsTypeOK
<1>1. EvolutionTypeOK /\ AccountTypeOK /\ LinkTypeOK => SessionsTypeOK
    BY DEF SessionsTypeOK
<1> QED BY <1>1, PartsMove, EvolutionTypeCorrect, AccountTypeCorrect, LinkTypeCorrect, PTL

\* Whichever parts move: reconnects in a window stay bounded, a recorded disconnect holds,
\* and a warm-up that reports success reached every line.
THEOREM SessionsAreSafe == Spec => [](ReconnectsBounded /\ DisconnectHolds /\ WarmupIsEarned)
BY PartsMove, ReconnectsAreBounded, DisconnectsHold, WarmupsAreEarned, PTL
============================================================================
