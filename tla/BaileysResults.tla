--------------------------- MODULE BaileysResults ---------------------------
(***************************************************************************)
(* The way back: Celery tasks move what the Node workers push to           *)
(* whatsapp:results and whatsapp:session_status into the database          *)
(* (core_engine/services/baileys_results_consumer.py).  A pass reads the   *)
(* head of a list (LRANGE), commits, and cuts as many entries off the head *)
(* (LTRIM); the workers push to the same head meanwhile, and beat starts a *)
(* task every ten seconds whether or not the last one has ended.           *)
(***************************************************************************)
EXTENDS BaileysWorker, SequencesExt, Functions

CONSTANTS
    Consumers,   \* Celery processes
    MaxBatch     \* MAX_BATCH and the batch of session statuses

ASSUME ConsumersAssumption == IsFiniteSet(Consumers) /\ MaxBatch \in Nat \ {0}

VARIABLES
    pass,        \* the task a consumer runs: its list, what it has read, how far it is
    audit,       \* audit_logs: rows per result
    needsLogin,  \* accounts with status requires_login
    \* history
    torn,        \* lists pushed to during a pass, with two passes, or not trimmed
    lost,        \* entries cut off that no pass had read
    removed,     \* results cut off
    relinked     \* accounts linked again since the start

resultVars == <<pass, audit, needsLogin, torn, lost, removed, relinked>>
vars == <<workerVars, resultVars>>

NoPass == [at |-> "idle", list |-> "results", batch |-> <<>>]
Open(l) == {c \in Consumers : pass[c].at # "idle" /\ pass[c].list = l}
Occurrences(x, seq) == Cardinality({i \in DOMAIN seq : seq[i] = x})
Beginning(seq, n) == SubSeq(seq, 1, IF n < Len(seq) THEN n ELSE Len(seq))

---------------------------------------------------------------------------
Read(c, l) ==
    /\ pass[c] = NoPass /\ list[l] # <<>>
    /\ pass' = [pass EXCEPT ![c] = [at |-> "read", list |-> l,
                                    batch |-> Beginning(list[l], MaxBatch)]]
    /\ torn' = IF Open(l) = {} THEN torn ELSE torn \cup {l}
    /\ UNCHANGED <<workerVars, audit, needsLogin, lost, removed, relinked>>

Store_ResultsOnly(l, batch) ==
    /\ audit' = IF l = "results" THEN [r \in Results |-> audit[r] + Occurrences(r, batch)]
                ELSE audit
    /\ UNCHANGED needsLogin

\* The commit: one row per result, and the accounts of the statuses marked.
Store(l, batch) ==
    IF l = "results"
    THEN /\ audit' = [r \in Results |-> audit[r] + Occurrences(r, batch)]
         /\ UNCHANGED needsLogin
    ELSE needsLogin' = needsLogin \cup Range(batch) /\ UNCHANGED audit

Commit(c) ==
    /\ pass[c].at = "read"
    /\ Store(pass[c].list, pass[c].batch)
    /\ pass' = [pass EXCEPT ![c].at = "stored"]
    /\ UNCHANGED <<workerVars, torn, lost, removed, relinked>>

\* Rolled back: the list is left alone.
CommitFails(c) ==
    /\ pass[c].at = "read" /\ Fault
    /\ pass' = [pass EXCEPT ![c] = NoPass]
    /\ UNCHANGED <<bridge, bull, run, session, kill, list, gone, ended, mute, sent, said,
                   unsaid, lateSends, audit, needsLogin, torn, lost, removed, relinked>>

CutLength_ByIndex(batch) == Len(batch) + 1
\* ltrim(len(raw_items), -1)
CutLength(batch) == Len(batch)

Trim(c) ==
    LET l     == pass[c].list
        batch == pass[c].batch
        cut   == Beginning(list[l], CutLength(batch))
    IN  /\ pass[c].at = "stored"
        /\ list' = [list EXCEPT ![l] = SubSeq(@, Len(cut) + 1, Len(@))]
        /\ pass' = [pass EXCEPT ![c] = NoPass]
        /\ lost' = lost \cup {x \in Range(cut) : Occurrences(x, cut) > Occurrences(x, batch)}
        /\ removed' = IF l = "results" THEN removed + Len(cut) ELSE removed
        /\ UNCHANGED <<bridge, bull, run, session, kill, history,
                       audit, needsLogin, torn, relinked>>

\* The task dies, or Redis does, between the commit and the cut.
TrimFails(c) ==
    /\ pass[c].at = "stored" /\ Fault
    /\ pass' = [pass EXCEPT ![c] = NoPass]
    /\ torn' = torn \cup {pass[c].list}
    /\ UNCHANGED <<bridge, bull, run, session, kill, list, gone, ended, mute, sent, said,
                   unsaid, lateSends, audit, needsLogin, lost, removed, relinked>>

\* The operator links the phone again and takes the account back into use.
Relink(a) ==
    /\ Link(a)
    /\ needsLogin' = needsLogin \ {a}
    /\ relinked' = relinked \cup {a}
    /\ UNCHANGED <<pass, audit, torn, lost, removed>>

WorkerStep ==
    /\ WorkerNext
    /\ torn' = torn \cup {l \in Lists : list'[l] # list[l] /\ Open(l) # {}}
    /\ UNCHANGED <<pass, audit, needsLogin, lost, removed, relinked>>

Init ==
    /\ WorkerInit
    /\ pass = [c \in Consumers |-> NoPass]
    /\ audit = [r \in Results |-> 0] /\ needsLogin = {}
    /\ torn = {} /\ lost = {} /\ removed = 0 /\ relinked = {}

Next ==
    \/ WorkerStep
    \/ \E c \in Consumers, l \in Lists : Read(c, l)
    \/ \E c \in Consumers : Commit(c) \/ CommitFails(c) \/ Trim(c) \/ TrimFails(c)
    \/ \E a \in Accounts : Relink(a)

Spec == Init /\ [][Next]_vars
---------------------------------------------------------------------------
TypeOK ==
    /\ WorkerTypeOK
    /\ \A c \in Consumers :
           /\ pass[c].at \in {"idle", "read", "stored"} /\ pass[c].list \in Lists
           /\ pass[c].batch \in Seq(IF pass[c].list = "results" THEN Results ELSE Accounts)
    /\ audit \in [Results -> Nat] /\ removed \in Nat
    /\ needsLogin \subseteq Accounts /\ relinked \subseteq Accounts
    /\ torn \subseteq Lists /\ lost \subseteq Results \cup Accounts

\* A job is in one place: to be pushed, in the raw list, in one bridge's hand,
\* dropped, waiting, delayed, active, or ended; and one shard at most works
\* on it, which holds it active (BLPOP, queue.add, the stalled-job recovery).
Places ==
    [toSend |-> toSend, raw |-> Range(raw), hand |-> Range(hand) \ {NoMessage}, gone |-> gone,
     queue |-> Range(queue), delayed |-> delayed, active |-> active, ended |-> ended]
OnePlace  == LET here == Places
             IN  \A m \in Messages : \E p \in DOMAIN here :
                     \A q \in DOMAIN here : m \in here[q] <=> q = p
OneHolder == \A s, t \in Shards : s # t => hand[s] = NoMessage \/ hand[s] # hand[t]
OneRunner == \A s \in Shards : run[s].msg # NoMessage =>
                 run[s].msg \in active /\ \A t \in Shards \ {s} : run[t].msg # run[s].msg
OneCopy == OnePlace /\ IsInjective(raw) /\ IsInjective(queue) /\ OneHolder /\ OneRunner

\* WhatsApp gets a message once, and once more for a shard that died over it;
\* maxStalledCount bounds how often that is.
SentPerRun ==
    \A m \in Messages : sent[m] <= 1 + stalls[m] /\ stalls[m] <= MaxStalls + 1

\* What the results say is true: "delivered" was sent, and a job that was "killed" or refused
\* for its session was not sent, unless an earlier run of it died with its shard.  And no job
\* ends in silence: it has a result, or the push of its result failed, or BullMQ gave it up
\* after its shards died.
AnswersAreTrue ==
    /\ \A r \in Results : said[r] > 0 =>
          /\ r.out = "delivered" => sent[r.msg] > 0
          /\ r.out \in {"killed", "session_invalid"} => sent[r.msg] = 0 \/ stalls[r.msg] > 0
    /\ \A m \in ended \ mute :
          stalls[m] > MaxStalls \/ \E out \in Outcomes : said[[msg |-> m, out |-> out]] > 0

\* The switch is read once per job: after it is turned on a shard sends the
\* job it had already checked, and no other.
OneSendAfterKill == \A s \in Shards : lateSends[s] <= 1

\* Two shards never hold a socket of the same account (ACCOUNT_IDS and the
\* deferral), and none keeps the socket of an account it has blocked.
SocketsAreOwned ==
    /\ \A s, t \in Shards : s # t => conn[s] \cap conn[t] = {}
    /\ \A s \in Shards : conn[s] \cap blocked[s] = {}

AuditRows == UNION {{r} \X (1..audit[r]) : r \in Results}
Rows == Cardinality(AuditRows)

\* When no pass of a list was disturbed, every result is in the list or in the audit log,
\* exactly as often as it was pushed, and in both between a pass's commit and its cut.
ResultsAreCounted ==
    "results" \notin torn =>
        \A r \in Results :
            LET uncut == UNION {{<<c, i>> : i \in {j \in DOMAIN pass[c].batch :
                                    pass[c].at = "stored" /\ pass[c].list = "results"
                                       /\ pass[c].batch[j] = r}} : c \in Consumers}
            IN  said[r] + Cardinality(uncut) = Occurrences(r, list["results"]) + audit[r]

\* And disturbed or not, the log never has fewer rows than results were cut off the list: a
\* pass may cut a wrong entry, never one it has no row for.
LogIsAccounted == ResultsAreCounted /\ removed <= Rows

\* An account a shard has blocked is reported: its status waits in the list
\* or to be pushed, or the account needs a login; except when the push failed,
\* a pass was disturbed, or it was linked again.
BlockIsReported ==
    "statuses" \notin torn =>
        \A s \in Shards : \A a \in blocked[s] \ (needsLogin \cup relinked \cup unsaid) :
            a \in Range(list["statuses"]) \/ (At(s, "report") /\ Sender(s) = a)

\* "Read results from Redis, bulk-insert audit_logs, trim list after commit."
\* What is trimmed has been read.
\* It does not hold (README, section 5).
TrimsWhatItRead == lost = {}

\* "jobId": "unique-id".  A job the bridge has handed to BullMQ is there.
\* It does not hold (README, section 5).
BridgedIsQueued == [][\A s \in Shards : Add(s) => Occurrences(hand[s], queue') = 1]_vars
=============================================================================
