----------------------------- MODULE LinkSession -----------------------------
(***************************************************************************)
(* The admin API of the Node WhatsApp service for one line: QR link        *)
(* sessions (server.js) through a proxy of proxies.json (proxyManager.js), *)
(* and the warm-up matrix, scheduled by Node and debounced by a Redis lock *)
(* in the back end (whatsapp_warmup.py).                                   *)
(*                                                                         *)
(* Every await is a step of its own: a handler's code between two awaits   *)
(* runs without interruption, timers and socket events come in between.    *)
(***************************************************************************)
EXTENDS Naturals, FiniteSets, Sequences, SequencesExt

CONSTANTS
    LinkRequests,       \* bound: POST /api/link-session calls
    WarmupRequests,     \* bound: warm-ups triggered
    Line, Lines,        \* the account linked here, every line with creds.json
    WorkerId,           \* WORKER_ID of the Node process
    ProxyFiles,         \* contents proxies.json may have, as parsed arrays
    AllowNoProxyFallback,
    MaxEdits,           \* bound: edits of proxies.json and of the session directory
    Broken, NoProxy, Nobody

ASSUME LinesAssumption == IsFiniteSet(Lines)

VARIABLES
    link,       \* each link request: answer, socket, pending timers, proxy
    entry,      \* activeLinkSessions.get(Line)
    linked,     \* creds.json of Line says it is registered
    file,       \* proxies.json on disk
    proxyCache, \* the parsed file in memory
    edits,
    warmup,     \* each warm-up request: where it is, groups added
    lock,       \* whatsapp:warmup_lock
    earned      \* ghost: somebody's matrix was scheduled, or the API died, since
                \* the lock was last free

linkVars   == <<link, entry, linked, file, proxyCache, edits>>
warmupVars == <<warmup, lock, earned>>
-----------------------------------------------------------------------------
(* proxyManager.js                                                         *)

\* A broken file keeps the previous cache; a missing one empties it.
loadProxies == IF file = Broken THEN proxyCache ELSE file

First(proxies, Test(_)) ==
    LET found == SelectSeq(proxies, Test) IN IF found = <<>> THEN NoProxy ELSE found[1]

findDefaultProxy(proxies) == First(proxies, LAMBDA p : p.default)

resolveProxyForAccount(proxies) ==
    LET byAccount == First(proxies, LAMBDA p : p.account = Line)
        byWorker  == SelectSeq(proxies, LAMBDA p : p.worker = WorkerId)
    IN  IF byAccount # NoProxy THEN byAccount
        ELSE IF Len(byWorker) = 1 THEN byWorker[1]
        ELSE findDefaultProxy(proxies)

Direct == [account |-> Nobody, worker |-> 0, default |-> FALSE, id |-> "direct"]

\* The proxy's own, else the default one, else none at all if that is allowed.
requireHealthyProxy(proxies, healthy) ==
    LET chain == {resolveProxyForAccount(proxies), findDefaultProxy(proxies)} \ {NoProxy}
        first == resolveProxyForAccount(proxies)
    IN  IF first # NoProxy /\ first.id \in healthy THEN first
        ELSE IF \E p \in chain : p.id \in healthy THEN findDefaultProxy(proxies)
        ELSE IF AllowNoProxyFallback THEN Direct ELSE NoProxy

ProxyIds == UNION {{f[i].id : i \in DOMAIN f} : f \in ProxyFiles}
-----------------------------------------------------------------------------
(* server.js: link sessions                                                *)

Unasked == [answer |-> "none", at |-> "idle", sock |-> "none", timers |-> {}, proxy |-> NoProxy]

LinkInit ==
    /\ link = [r \in LinkRequests |-> Unasked]
    /\ entry = Nobody /\ linked = FALSE /\ edits = 0
    /\ file \in ProxyFiles /\ proxyCache = file

\* endLinkSocket deletes the line's entry, whichever session it belongs to.
EndLinkSocket(r, session) ==
    /\ link' = [link EXCEPT ![r] = [session EXCEPT !.sock = IF @ = "live" THEN "ended" ELSE @]]
    /\ entry' = Nobody

\* finish: the first answer counts.
Finish(session, answer) == IF session.answer = "none" THEN [session EXCEPT !.answer = answer]
                           ELSE session
Done(session, answer) == [Finish(session, answer) EXCEPT !.at = "done"]

\* The route: already linked, refused because a session is in progress (whose
\* entry the error path deletes), or on to the proxy and the auth state.
LinkRoute(r) ==
    /\ link[r].at = "idle"
    /\ \/ /\ linked
          /\ link' = [link EXCEPT ![r] = Done(@, "already_linked")] /\ UNCHANGED entry
       \/ /\ ~linked /\ entry # Nobody
          /\ EndLinkSocket(r, Done(link[r], "LINK_IN_PROGRESS"))
       \/ /\ ~linked /\ entry = Nobody
          /\ link' = [link EXCEPT ![r].at = "starting"] /\ UNCHANGED entry
    /\ UNCHANGED <<linked, file, proxyCache, edits>>

\* resolveHealthyProxy rejects, or the auth state or version cannot be read.
StartFails(r) ==
    /\ link[r].at = "starting"
    /\ EndLinkSocket(r, Done(link[r], "start_failed"))
    /\ proxyCache' = loadProxies
    /\ UNCHANGED <<linked, file, edits>>

StartSocket(r) == \E healthy \in SUBSET ProxyIds :
    LET proxy == requireHealthyProxy(loadProxies, healthy)
    IN  /\ link[r].at = "starting" /\ proxy # NoProxy
        /\ link' = [link EXCEPT ![r] = [@ EXCEPT !.at = "started", !.sock = "live",
                                                !.timers = {"qr"}, !.proxy = proxy]]
        /\ entry' = r /\ proxyCache' = loadProxies
        /\ UNCHANGED <<linked, file, edits>>

QrEvent_NoTimeout(r) ==
    /\ link[r].sock = "live" /\ link[r].answer = "none"
    /\ link' = [link EXCEPT ![r] = [Finish(link[r], "qr") EXCEPT !.timers = @ \ {"qr"}]]
    /\ UNCHANGED <<entry, linked, file, proxyCache, edits>>

\* A QR: answered, the QR timer replaced by the hard timeout ...
QrEvent(r) ==
    /\ link[r].sock = "live" /\ link[r].answer = "none"
    /\ link' = [link EXCEPT ![r] =
                    [Finish(link[r], "qr") EXCEPT !.timers = (@ \ {"qr"}) \cup {"hard"}]]
    /\ UNCHANGED <<entry, linked, file, proxyCache, edits>>

\* ... or not encodable.
QrEncodeFails(r) ==
    /\ link[r].sock = "live" /\ link[r].answer = "none"
    /\ EndLinkSocket(r, [Finish(link[r], "start_failed") EXCEPT !.timers = @ \ {"qr"}])
    /\ UNCHANGED <<linked, file, proxyCache, edits>>

\* qr_timeout, post_qr_timeout and link_success.
TimerFires(r, timer) ==
    /\ timer \in link[r].timers
    /\ EndLinkSocket(r, [(IF timer = "qr" THEN Finish(link[r], "QR_TIMEOUT") ELSE link[r])
                         EXCEPT !.timers = @ \ {timer}])
    /\ UNCHANGED <<linked, file, proxyCache, edits>>

\* The phone scans: Baileys saves the credentials, then opens or restarts.
Scanned(r) ==
    /\ link[r].sock = "live" /\ link[r].answer = "qr" /\ linked' = TRUE
    /\ UNCHANGED <<link, entry, file, proxyCache, edits>>

ConnectionOpen(r) ==
    /\ link[r].sock = "live" /\ linked
    /\ link' = [link EXCEPT ![r].timers = @ \cup {"success"}]
    /\ UNCHANGED <<entry, linked, file, proxyCache, edits>>

\* 401 ends the session; after any other close the entry stays.
ConnectionClose(r, loggedOut) ==
    /\ link[r].sock = "live"
    /\ IF loggedOut THEN EndLinkSocket(r, link[r])
       ELSE link' = [link EXCEPT ![r].sock = "ended"] /\ UNCHANGED entry
    /\ UNCHANGED <<linked, file, proxyCache, edits>>

\* The process ends: its sockets, timers and map go with it.
shutdownApi ==
    /\ edits < MaxEdits /\ edits' = edits + 1
    /\ link' = [r \in LinkRequests |->
        IF link[r].at \in {"idle", "done"} THEN link[r]
        ELSE [Done(link[r], "reset") EXCEPT !.sock = "ended", !.timers = {}]]
    /\ entry' = Nobody /\ proxyCache' = IF file = Broken THEN <<>> ELSE file
    /\ UNCHANGED <<linked, file>>

\* The operator edits proxies.json, removes the session directory.
EditProxies ==
    /\ edits < MaxEdits /\ edits' = edits + 1
    /\ file' \in ProxyFiles \cup {Broken}
    /\ UNCHANGED <<link, entry, linked, proxyCache>>
RemoveSession ==
    /\ edits < MaxEdits /\ edits' = edits + 1 /\ linked /\ linked' = FALSE
    /\ UNCHANGED <<link, entry, file, proxyCache>>
-----------------------------------------------------------------------------
(* warmup.js and whatsapp_warmup.py                                        *)

Pairs(s) == [i \in 1 .. Len(s) \div 2 |-> <<s[2 * i - 1], s[2 * i]>>]

\* Pairs of the shuffled lines; an odd number leaves a trio of the first, the
\* last and the one left of the middle.
buildWarmupGroups(s) ==
    IF Len(s) % 2 = 0 THEN Pairs(s)
    ELSE LET middle == SubSeq(s, 2, Len(s) - 1)
         IN  Append(Pairs(middle), <<s[1], Last(s), Last(middle)>>)

\* Who writes to whom, step by step.
pairConversationSteps(g) == <<<<g[1], g[2]>>, <<g[2], g[1]>>, <<g[1], g[2]>>, <<g[2], g[1]>>>>
trioConversationSteps(g) == <<<<g[1], g[2]>>, <<g[2], g[3]>>, <<g[3], g[1]>>, <<g[1], g[2]>>>>
scheduleGroup(g) == IF Len(g) = 2 THEN pairConversationSteps(g) ELSE trioConversationSteps(g)
\* The jobs of the first n groups.
scheduleWarmupMatrix(s, n) ==
    LET groups == buildWarmupGroups(s)
    IN  FlattenSeq([i \in 1 .. n |-> scheduleGroup(groups[i])])

WarmupInit ==
    /\ warmup = [t \in WarmupRequests |-> [at |-> "idle", groups |-> 0, order |-> <<>>]]
    /\ lock = FALSE /\ earned = FALSE

Goto(t, place) == warmup' = [warmup EXCEPT ![t].at = place]
Ends(t, place) == warmup' = [warmup EXCEPT ![t] = [at |-> place, groups |-> 0, order |-> <<>>]]

TestLock(t) ==
    /\ warmup[t].at = "idle" /\ Goto(t, IF lock THEN "refused" ELSE "tested")
    /\ UNCHANGED <<lock, earned>>
SetLock(t) ==
    /\ warmup[t].at = "tested" /\ Goto(t, "locked")
    /\ lock' = TRUE /\ UNCHANGED earned

Shuffles == {s \in SetToAllKPermutations(Lines) : Len(s) >= 2}

\* Node finds the lines with creds.json and shuffles them ...
Call(t) == \E s \in Shuffles :
    /\ warmup[t].at = "locked"
    /\ warmup' = [warmup EXCEPT ![t].at = "called", ![t].order = s]
    /\ UNCHANGED <<lock, earned>>

\* ... and adds the jobs, group after group.
AddGroup(t) ==
    /\ warmup[t].at = "called"
    /\ warmup[t].groups < Len(buildWarmupGroups(warmup[t].order))
    /\ warmup' = [warmup EXCEPT ![t].groups = @ + 1]
    /\ UNCHANGED <<lock, earned>>

WarmupSucceeds(t) ==
    /\ warmup[t].at = "called"
    /\ warmup[t].groups = Len(buildWarmupGroups(warmup[t].order))
    /\ Goto(t, "scheduled") /\ earned' = TRUE /\ UNCHANGED lock

WarmupFails_KeepsLock(t) ==
    /\ warmup[t].at \in {"locked", "called"} /\ Ends(t, "failed")
    /\ earned' = FALSE /\ UNCHANGED lock

\* Too few lines, a job that cannot be added, or 30 seconds without an answer
\* (Node goes on, for nobody): the lock is released.
WarmupFails(t) ==
    /\ warmup[t].at \in {"locked", "called"} /\ Ends(t, "failed")
    /\ lock' = FALSE /\ earned' = FALSE

LockExpires == lock /\ lock' = FALSE /\ earned' = FALSE /\ UNCHANGED warmup

\* The API process dies between setting the lock and its answer.
ApiDies(t) ==
    /\ warmup[t].at \in {"locked", "called"} /\ Ends(t, "died")
    /\ earned' = TRUE /\ UNCHANGED lock
-----------------------------------------------------------------------------
LinkTimers(r) == \E timer \in {"qr", "hard", "success"} : TimerFires(r, timer)
LinkStep(r) ==
    \/ LinkRoute(r) \/ StartFails(r) \/ StartSocket(r) \/ QrEvent(r) \/ QrEncodeFails(r)
    \/ LinkTimers(r) \/ Scanned(r) \/ ConnectionOpen(r)
    \/ \E loggedOut \in BOOLEAN : ConnectionClose(r, loggedOut)
WarmupStep(t) ==
    \/ TestLock(t) \/ SetLock(t) \/ Call(t) \/ AddGroup(t)
    \/ WarmupSucceeds(t) \/ WarmupFails(t) \/ ApiDies(t)

LinkNext   == (\E r \in LinkRequests : LinkStep(r)) \/ shutdownApi \/ EditProxies \/ RemoveSession
WarmupNext == (\E t \in WarmupRequests : WarmupStep(t)) \/ LockExpires

LinkSpec   == LinkInit /\ [][LinkNext]_linkVars
WarmupSpec == WarmupInit /\ [][WarmupNext]_warmupVars

\* resolveHealthyProxy and the calls behind it end; timers fire.
LinkFairness == \A r \in LinkRequests :
    WF_linkVars(StartFails(r) \/ StartSocket(r)) /\ WF_linkVars(LinkTimers(r))
-----------------------------------------------------------------------------
LinkTypeOK ==
    /\ \A r \in LinkRequests :
        /\ link[r].at \in {"idle", "starting", "started", "done"}
        /\ link[r].sock \in {"none", "live", "ended"}
        /\ link[r].timers \subseteq {"qr", "hard", "success"}
    /\ entry \in LinkRequests \cup {Nobody} /\ linked \in BOOLEAN
    /\ proxyCache \in ProxyFiles \cup {<<>>}
    /\ \A t \in WarmupRequests : warmup[t].groups \in 0 .. Cardinality(Lines) \div 2
    /\ lock \in BOOLEAN /\ earned \in BOOLEAN

\* Every link request is answered, its socket ends and the line can be linked
\* again, although refusals, time-outs and other sessions delete its entry
\* (endLinkSocket): the timers are the session's own.
LinkSessionsEnd == \A r \in LinkRequests :
    link[r].at = "starting" ~>
        link[r].answer # "none" /\ link[r].sock # "live" /\ entry # r

\* One socket for a line at a time: a second link-session call is answered 409.
\* It does not hold (README, section 5).
OneLinkSocket == Cardinality({r \in LinkRequests : link[r].sock = "live"}) <= 1

\* The warm-up lock of no open request stands for a matrix that was scheduled (a failed
\* call releases it, only a process that died leaves it behind), and a matrix that was
\* scheduled makes every line write to another one, whatever the shuffle and the number
\* of lines.
WarmupIsEarned ==
    /\ lock /\ (\A t \in WarmupRequests : warmup[t].at \notin {"locked", "called"}) => earned
    /\ \A t \in WarmupRequests :
          LET jobs == scheduleWarmupMatrix(warmup[t].order, warmup[t].groups)
          IN  warmup[t].at = "scheduled" =>
                  \A line \in ToSet(warmup[t].order) :
                      \E i \in DOMAIN jobs : jobs[i][1] = line /\ jobs[i][2] # line
=============================================================================
