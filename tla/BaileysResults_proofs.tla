----------------------- MODULE BaileysResults_proofs -----------------------
(***************************************************************************)
(* Baileys delivery, for any number of shards, messages and Celery         *)
(* processes: a job has one place, a message is sent once more for every   *)
(* time its shard died, the kill switch stops every shard after one more   *)
(* message, the sockets and the blocks of the shards stay apart, what is   *)
(* reported is true, no result is lost or logged twice on a list that was  *)
(* not torn, and every block reaches the database or is on its way there.  *)
(***************************************************************************)
EXTENDS BaileysResults, Lemmas

---------------------------------------------------------------------------
(* Types.  They are shown in three parts: the queues, the shards with      *)
(* their processors, and the way back.                                     *)

QueuesOK ==
    /\ toSend \subseteq Messages /\ raw \in Seq(Messages)
    /\ hand \in [Shards -> Messages \cup {NoMessage}]
    /\ queue \in Seq(Messages) /\ delayed \subseteq Messages /\ active \subseteq Messages
    /\ known \subseteq {JobId[m] : m \in Messages}

RunOK == run \in [Shards -> [at : Points, msg : Messages \cup {NoMessage}, out : Outcomes]]

ShardsOK ==
    /\ RunOK
    /\ life \in [Shards -> {"up", "closing", "closed"}]
    /\ conn \in [Shards -> SUBSET Accounts] /\ blocked \in [Shards -> SUBSET Accounts]
    /\ linked \subseteq Accounts /\ kill \in BOOLEAN

\* A shard that works has a message.
Busy == \A s \in Shards : ~At(s, "idle") => run[s].msg \in Messages

\* The consumers touch neither the processors nor the sockets nor the switch.
LEMMA ConsumerFrame ==
    ASSUME Next, ~WorkerNext
    PROVE  UNCHANGED <<run, bull, bridge, conn, blocked, kill, sent, gone, ended, lateSends>>
<1>1. ASSUME NEW c \in Consumers, NEW l \in Lists, Read(c, l)
      PROVE  UNCHANGED <<run, bull, bridge, conn, blocked, kill, sent, gone, ended, lateSends>>
      BY <1>1 DEF Read, workerVars, bull, bridge, session, history
<1>2. ASSUME NEW c \in Consumers, Commit(c) \/ CommitFails(c) \/ Trim(c) \/ TrimFails(c)
      PROVE  UNCHANGED <<run, bull, bridge, conn, blocked, kill, sent, gone, ended, lateSends>>
      BY <1>2 DEF Commit, CommitFails, Trim, TrimFails, workerVars, bull, bridge, session, history
<1>3. ASSUME NEW a \in Accounts, Relink(a)
      PROVE  UNCHANGED <<run, bull, bridge, conn, blocked, kill, sent, gone, ended, lateSends>>
      BY <1>3 DEF Relink, Link, bull, bridge
<1> QED
      BY <1>1, <1>2, <1>3 DEF Next, WorkerStep

\* What a message's way from the back end to a shard keeps.
LEMMA QueuesStep ==
    ASSUME QueuesOK, RunOK, Busy, WorkerNext
    PROVE  QueuesOK'
<1> USE DEF QueuesOK
<1>1. ASSUME NEW m \in Messages, enqueue_baileys_job(m)
      PROVE  QueuesOK'
      BY <1>1, AppendProperties DEF enqueue_baileys_job, bull
<1>2. ASSUME NEW m \in Messages, Promote(m)
      PROVE  QueuesOK'
      BY <1>2, AppendProperties DEF Promote, bridge
<1>3. ASSUME NEW m \in Messages, Stalled(m)
      PROVE  QueuesOK'
  <2>1. queue' = Append(queue, m) \/ queue' = queue
        BY <1>3 DEF Stalled
  <2>2. queue' \in Seq(Messages)
        BY <2>1, AppendProperties
  <2>3. UNCHANGED <<toSend, raw, hand, delayed, known>> /\ active' = active \ {m}
        BY <1>3 DEF Stalled, bridge
  <2> QED
        BY <2>2, <2>3
<1>4. ASSUME NEW s \in Shards, Pop(s)
      PROVE  QueuesOK'
      BY <1>4, HeadTailProperties DEF Pop, bull
<1>5. ASSUME NEW s \in Shards, Add(s)
      PROVE  QueuesOK'
  <2>1. hand[s] \in Messages
        BY <1>5 DEF Add
  <2>2. \/ UNCHANGED <<queue, known>>
        \/ queue' = Append(queue, hand[s]) /\ known' = known \cup {JobId[hand[s]]}
        BY <1>5 DEF Add
  <2>3. queue' \in Seq(Messages)
        BY <2>1, <2>2, AppendProperties
  <2>4. known' \subseteq {JobId[m] : m \in Messages}
        BY <2>1, <2>2
  <2>5. UNCHANGED <<toSend, raw, delayed, active>> /\ hand' = [hand EXCEPT ![s] = NoMessage]
        BY <1>5 DEF Add
  <2> QED
        BY <2>3, <2>4, <2>5
<1>6. ASSUME NEW s \in Shards, AddFails(s)
      PROVE  QueuesOK'
      BY <1>6 DEF AddFails, bull
<1>7. ASSUME NEW s \in Shards, Take(s)
      PROVE  QueuesOK'
      BY <1>7, HeadTailProperties DEF Take, bridge
<1>8. ASSUME NEW s \in Shards, Defer(s)
      PROVE  QueuesOK'
  <2>1. run[s].msg \in Messages
        BY <1>8 DEF Defer, Busy, At
  <2> QED
        BY <1>8, <2>1 DEF Defer, bridge
<1>9. ASSUME NEW s \in Shards,
             \/ CheckJob(s) \/ OpenSocket(s) \/ CredsGone(s) \/ LoginRefused(s)
             \/ ConnectFails(s) \/ SendMessage(s) \/ SendFails(s) \/ SentThenFails(s)
             \/ Report(s) \/ publishResult(s)
      PROVE  QueuesOK'
      BY <1>9 DEF CheckJob, OpenSocket, CredsGone, LoginRefused, ConnectFails, SendMessage,
                  SendFails, SentThenFails, Report, publishResult, bridge, bull
<1>10. ASSUME NEW s \in Shards, ReportFails(s) \/ PublishFails(s) \/ Finish(s)
       PROVE  QueuesOK'
       BY <1>10 DEF ReportFails, PublishFails, Finish, End, bridge
<1>11. ASSUME NEW s \in Shards, Lifecycle(s)
       PROVE  QueuesOK'
       BY <1>11 DEF Lifecycle, Crash, shutdown, BlpopTimesOut, Exit, Restart,
                    purgeFailedQueueJobs, bull
<1>12. ASSUME NEW s \in Shards, NEW a \in Accounts, NEW loggedOut \in BOOLEAN,
              SocketCloses(s, a, loggedOut)
       PROVE  QueuesOK'
       BY <1>12 DEF SocketCloses, bridge, bull
<1>13. ASSUME NEW on \in BOOLEAN, set_whatsapp_send_kill_switch(on)
       PROVE  QueuesOK'
       BY <1>13 DEF set_whatsapp_send_kill_switch, bridge, bull
<1>14. ASSUME NEW a \in Accounts, Unlink(a)
       PROVE  QueuesOK'
       BY <1>14 DEF Unlink, bridge, bull
<1> QED
  <2>1. ASSUME NEW s \in Shards, Bridging(s) \/ Processing(s) \/ Lifecycle(s)
        PROVE  QueuesOK'
        BY <2>1, <1>4, <1>5, <1>6, <1>7, <1>8, <1>9, <1>10, <1>11 DEF Bridging, Processing
  <2> QED
        BY <2>1, <1>1, <1>2, <1>3, <1>12, <1>13, <1>14 DEF WorkerNext

\* What the shards' own steps keep.
LEMMA ShardsStep ==
    ASSUME QueuesOK, ShardsOK, Busy, WorkerNext
    PROVE  ShardsOK' /\ Busy'
<1> USE DEF ShardsOK, RunOK, Busy, At
<1>1. ASSUME NEW m \in Messages, enqueue_baileys_job(m) \/ Promote(m) \/ Stalled(m)
      PROVE  ShardsOK' /\ Busy'
      BY <1>1 DEF enqueue_baileys_job, Promote, Stalled, bridge, session
<1>2. ASSUME NEW s \in Shards, Bridging(s)
      PROVE  ShardsOK' /\ Busy'
      BY <1>2 DEF Bridging, Pop, Add, AddFails, session
<1>3. ASSUME NEW s \in Shards, Take(s)
      PROVE  ShardsOK' /\ Busy'
  <2>1. Head(queue) \in Messages
        BY <1>3, HeadTailProperties DEF Take, QueuesOK
  <2>2. run' = [run EXCEPT ![s] = [at |-> "check", msg |-> Head(queue), out |-> "failed"]]
        BY <1>3 DEF Take
  <2>3. UNCHANGED <<life, conn, blocked, linked, kill>>
        BY <1>3 DEF Take, bridge, session
  <2> QED
        BY <2>1, <2>2, <2>3 DEF Points, Outcomes
<1>4. ASSUME NEW s \in Shards, Defer(s) \/ ReportFails(s) \/ Finish(s)
      PROVE  ShardsOK' /\ Busy'
      BY <1>4 DEF Defer, ReportFails, Finish, End, Idle, Points, Outcomes, bridge, session
\* A step of a processor that keeps its job, and what closes and blocks sockets.
<1>5. ASSUME NEW s \in Shards, run[s].msg \in Messages,
             NEW p \in Points \ {"idle"}, NEW out \in Outcomes, Answer(s, p, out)
      PROVE  RunOK' /\ Busy'
  <2>1. [at |-> p, msg |-> run[s].msg, out |-> out]
            \in [at : Points, msg : Messages \cup {NoMessage}, out : Outcomes]
        BY <1>5
  <2>2. RunOK' /\ run'[s].msg \in Messages /\ \A t \in Shards \ {s} : run'[t] = run[t]
        BY <1>5, <2>1 DEF Answer
  <2> QED
        BY <2>2
<1>6. ASSUME NEW s \in Shards, run[s].msg \in Messages, NEW p \in Points \ {"idle"}, Goto(s, p)
      PROVE  RunOK' /\ Busy'
      BY <1>5, <1>6 DEF Goto
<1>7. ASSUME NEW s \in Shards, Block(s, Sender(s)), run[s].msg \in Messages
      PROVE  conn' \in [Shards -> SUBSET Accounts] /\ blocked' \in [Shards -> SUBSET Accounts]
  <2>1. Sender(s) \in Accounts
        BY <1>7, BaileysSets DEF Sender
  <2> QED
        BY <1>7, <2>1 DEF Block, Evict
<1>8. ASSUME NEW s \in Shards,
             \/ CheckJob(s) \/ OpenSocket(s) \/ CredsGone(s) \/ LoginRefused(s)
             \/ ConnectFails(s) \/ SendMessage(s) \/ SendFails(s) \/ SentThenFails(s)
             \/ Report(s) \/ publishResult(s) \/ PublishFails(s)
      PROVE  ShardsOK' /\ Busy'
  <2>1. ~At(s, "idle") /\ UNCHANGED <<life, linked, kill>>
        BY <1>8 DEF CheckJob, OpenSocket, CredsGone, LoginRefused, ConnectFails, SendMessage,
                    SendFails, SentThenFails, Report, publishResult, PublishFails, bridge, session
  <2>2. run[s].msg \in Messages
        BY <2>1
  <2>3. RunOK' /\ Busy'
    <3>1. \/ \E p \in Points \ {"idle"}, out \in Outcomes : Answer(s, p, out)
          \/ \E p \in Points \ {"idle"} : Goto(s, p)
          \/ PublishFails(s) /\ End(s)
          BY <1>8 DEF CheckJob, Checked, OpenSocket, CredsGone, LoginRefused, ConnectFails,
                      SendMessage, SendFails, SentThenFails, Report, publishResult,
                      PublishFails, Points, Outcomes
    <3>2. CASE End(s)
          BY <3>2 DEF End, Idle, Points, Outcomes
    <3> QED
          BY <2>2, <3>1, <3>2, <1>5, <1>6
  <2>4. \/ UNCHANGED <<conn, blocked>>
        \/ Block(s, Sender(s))
        \/ Evict(s, Sender(s)) /\ UNCHANGED blocked
        \/ OpenSocket(s) /\ UNCHANGED blocked
        BY <1>8 DEF CheckJob, Checked, OpenSocket, CredsGone, LoginRefused, ConnectFails,
                    SendMessage, SendFails, SentThenFails, Report, publishResult,
                    PublishFails, session
  <2>5. conn' \in [Shards -> SUBSET Accounts] /\ blocked' \in [Shards -> SUBSET Accounts]
    <3>1. Sender(s) \in Accounts
          BY <2>2, BaileysSets DEF Sender
    <3>2. CASE OpenSocket(s) /\ UNCHANGED blocked
          BY <3>1, <3>2 DEF OpenSocket
    <3>3. CASE Evict(s, Sender(s)) /\ UNCHANGED blocked
          BY <3>3 DEF Evict
    <3> QED
          BY <2>2, <2>4, <1>7, <3>2, <3>3
  <2> QED
        BY <2>1, <2>3, <2>5
<1>9. ASSUME NEW s \in Shards, Lifecycle(s)
      PROVE  ShardsOK' /\ Busy'
  <2>1. CASE Crash(s)
        BY <2>1 DEF Crash, Restart, Idle, Points, Outcomes
  <2>2. CASE shutdown(s)
    <3>1. life' \in [Shards -> {"up", "closing", "closed"}]
          BY <2>2 DEF shutdown
    <3> QED
          BY <2>2, <3>1 DEF shutdown, session
  <2>3. CASE BlpopTimesOut(s)
        BY <2>3 DEF BlpopTimesOut, session
  <2>4. CASE Exit(s)
        BY <2>4 DEF Exit, Restart
  <2> QED
        BY <1>9, <2>1, <2>2, <2>3, <2>4 DEF Lifecycle
<1>10. ASSUME NEW s \in Shards, NEW a \in Accounts, NEW loggedOut \in BOOLEAN,
              SocketCloses(s, a, loggedOut)
       PROVE  ShardsOK' /\ Busy'
       BY <1>10 DEF SocketCloses, Block, Evict, bridge
<1>11. ASSUME NEW on \in BOOLEAN, set_whatsapp_send_kill_switch(on)
       PROVE  ShardsOK' /\ Busy'
       BY <1>11 DEF set_whatsapp_send_kill_switch, bridge, session
<1>12. ASSUME NEW a \in Accounts, Unlink(a)
       PROVE  ShardsOK' /\ Busy'
       BY <1>12 DEF Unlink, bridge
<1> QED
  <2>1. ASSUME NEW s \in Shards, Processing(s)
        PROVE  ShardsOK' /\ Busy'
        BY <2>1, <1>3, <1>4, <1>8 DEF Processing
  <2> QED
        BY <2>1, <1>1, <1>2, <1>9, <1>10, <1>11, <1>12 DEF WorkerNext

---------------------------------------------------------------------------
(* The kill switch.  A shard that has sent since it was turned on is past  *)
(* the send of that job, and a next job meets the switch at its check.     *)

KillInv ==
    /\ lateSends \in [Shards -> {0, 1}]
    /\ \A s \in Shards : lateSends[s] = 1 => kill /\ ~At(s, "connect") /\ ~At(s, "send")

LEMMA KillStep ==
    ASSUME ShardsOK, KillInv, WorkerNext
    PROVE  KillInv'
<1> USE DEF ShardsOK, RunOK, KillInv, At
<1>1. ASSUME NEW m \in Messages, enqueue_baileys_job(m) \/ Promote(m) \/ Stalled(m)
      PROVE  KillInv'
      BY <1>1 DEF enqueue_baileys_job, Promote, Stalled, history
<1>2. ASSUME NEW s \in Shards, Bridging(s)
      PROVE  KillInv'
      BY <1>2 DEF Bridging, Pop, Add, AddFails
<1>3. ASSUME NEW s \in Shards,
             \/ Take(s) \/ Defer(s) \/ CredsGone(s) \/ LoginRefused(s) \/ ConnectFails(s)
             \/ SendFails(s) \/ Report(s) \/ ReportFails(s) \/ publishResult(s)
             \/ PublishFails(s) \/ Finish(s)
      PROVE  KillInv'
  <2>1. UNCHANGED <<kill, lateSends>>
        BY <1>3 DEF Take, Defer, CredsGone, LoginRefused, ConnectFails, SendFails, Report,
                    ReportFails, publishResult, PublishFails, Finish, history
  <2>2. \A t \in Shards \ {s} : run'[t] = run[t]
        BY <1>3 DEF Take, Defer, CredsGone, LoginRefused, ConnectFails, SendFails, Report,
                    ReportFails, publishResult, PublishFails, Finish, End, Answer, Goto
  <2>3. run'[s].at \notin {"connect", "send"}
        BY <1>3 DEF Take, Defer, CredsGone, LoginRefused, ConnectFails, SendFails, Report,
                    ReportFails, publishResult, PublishFails, Finish, End, Answer, Goto, Idle
  <2> QED
        BY <2>1, <2>2, <2>3
<1>4. ASSUME NEW s \in Shards, CheckJob(s)
      PROVE  KillInv'
  <2>1. UNCHANGED <<kill, lateSends>> /\ Checked(s, Sender(s))
        BY <1>4 DEF CheckJob, history
  <2>2. \A t \in Shards \ {s} : run'[t] = run[t]
        BY <2>1 DEF Checked, Answer, Goto
  <2>3. kill => run'[s].at \notin {"connect", "send"}
        BY <2>1 DEF Checked, Answer
  <2> QED
        BY <2>1, <2>2, <2>3
<1>5. ASSUME NEW s \in Shards, OpenSocket(s)
      PROVE  KillInv'
      BY <1>5 DEF OpenSocket, Answer, Goto, history
<1>6. ASSUME NEW s \in Shards, SendMessage(s) \/ SentThenFails(s)
      PROVE  KillInv'
  <2>1. At(s, "send") /\ UNCHANGED kill
        BY <1>6 DEF SendMessage, SentThenFails
  <2>2. lateSends[s] = 0
        BY <2>1
  <2>3. lateSends' = [lateSends EXCEPT ![s] = IF kill THEN 1 ELSE 0]
        BY <1>6, <2>2 DEF SendMessage, SentThenFails, Sent
  <2>4. run'[s].at = "publish" /\ \A t \in Shards \ {s} : run'[t] = run[t]
        BY <1>6 DEF SendMessage, SentThenFails, Answer
  <2> QED
        BY <2>1, <2>3, <2>4
<1>7. ASSUME NEW s \in Shards, Lifecycle(s)
      PROVE  KillInv'
      BY <1>7 DEF Lifecycle, Crash, shutdown, BlpopTimesOut, Exit, Idle, history
<1>8. ASSUME NEW s \in Shards, NEW a \in Accounts, NEW loggedOut \in BOOLEAN,
             SocketCloses(s, a, loggedOut)
      PROVE  KillInv'
      BY <1>8 DEF SocketCloses
<1>9. ASSUME NEW on \in BOOLEAN, set_whatsapp_send_kill_switch(on)
      PROVE  KillInv'
      BY <1>9 DEF set_whatsapp_send_kill_switch
<1>10. ASSUME NEW a \in Accounts, Unlink(a)
       PROVE  KillInv'
       BY <1>10 DEF Unlink
<1> QED
  <2>1. ASSUME NEW s \in Shards, Processing(s)
        PROVE  KillInv'
        BY <2>1, <1>3, <1>4, <1>5, <1>6 DEF Processing
  <2> QED
        BY <2>1, <1>1, <1>2, <1>7, <1>8, <1>9, <1>10 DEF WorkerNext

---------------------------------------------------------------------------
(* The sockets.  A shard opens one only for an account of its own, and     *)
(* what it blocks it has closed: between the check and the open no other   *)
(* step of it can block the account, for that takes an open socket.        *)

SocketsInv ==
    \A s \in Shards :
        /\ \A a \in conn[s] : Mine(s, a) /\ a \notin blocked[s]
        /\ At(s, "connect") => /\ Mine(s, Sender(s))
                               /\ Sender(s) \notin conn[s] \cup blocked[s]

LEMMA SocketsStep ==
    ASSUME ShardsOK, SocketsInv, WorkerNext
    PROVE  SocketsInv'
<1> USE DEF ShardsOK, RunOK, SocketsInv, At, Sender, Mine
<1>1. ASSUME NEW m \in Messages, enqueue_baileys_job(m) \/ Promote(m) \/ Stalled(m)
      PROVE  SocketsInv'
      BY <1>1 DEF enqueue_baileys_job, Promote, Stalled, session
<1>2. ASSUME NEW s \in Shards, Bridging(s)
      PROVE  SocketsInv'
      BY <1>2 DEF Bridging, Pop, Add, AddFails, session
<1>3. ASSUME NEW s \in Shards,
             \/ Take(s) \/ Defer(s) \/ ConnectFails(s) \/ SendMessage(s) \/ SendFails(s)
             \/ Report(s) \/ ReportFails(s) \/ publishResult(s) \/ PublishFails(s) \/ Finish(s)
      PROVE  SocketsInv'
  <2>1. UNCHANGED <<conn, blocked>>
        BY <1>3 DEF Take, Defer, ConnectFails, SendMessage, SendFails, Report, ReportFails,
                    publishResult, PublishFails, Finish, session
  <2>2. \A t \in Shards \ {s} : run'[t] = run[t]
        BY <1>3 DEF Take, Defer, ConnectFails, SendMessage, SendFails, Report, ReportFails,
                    publishResult, PublishFails, Finish, End, Answer, Goto
  <2>3. run'[s].at # "connect"
        BY <1>3 DEF Take, Defer, ConnectFails, SendMessage, SendFails, Report, ReportFails,
                    publishResult, PublishFails, Finish, End, Answer, Goto, Idle
  <2> QED
        BY <2>1, <2>2, <2>3
<1>4. ASSUME NEW s \in Shards, CheckJob(s)
      PROVE  SocketsInv'
  <2>1. Mine(s, Sender(s)) /\ Checked(s, Sender(s))
        BY <1>4 DEF CheckJob, Elsewhere
  <2>2. \A t \in Shards \ {s} : run'[t] = run[t]
        BY <2>1 DEF Checked, Answer, Goto
  <2>3. CASE UNCHANGED <<conn, blocked>>
    <3>1. run'[s].at = "connect" => /\ run'[s].msg = run[s].msg
                                    /\ Sender(s) \notin conn[s] \cup blocked[s]
          BY <2>1 DEF Checked, Answer, Goto
    <3> QED
          BY <2>1, <2>2, <2>3, <3>1
  <2>4. CASE Answer(s, "report", "session_invalid") /\ Block(s, Sender(s))
    <3>1. run'[s].at = "report"
          BY <2>4 DEF Answer
    <3> QED
          BY <2>2, <2>4, <3>1 DEF Block, Evict
  <2> QED
        BY <2>1, <2>3, <2>4 DEF Checked
<1>5. ASSUME NEW s \in Shards, OpenSocket(s)
      PROVE  SocketsInv'
  <2>1. /\ Mine(s, Sender(s)) /\ Sender(s) \notin blocked[s]
        /\ conn' = [conn EXCEPT ![s] = @ \cup {Sender(s)}] /\ UNCHANGED blocked
        BY <1>5 DEF OpenSocket
  <2>2. run'[s].at = "send" /\ \A t \in Shards \ {s} : run'[t] = run[t]
        BY <1>5 DEF OpenSocket, Answer, Goto
  <2> QED
        BY <2>1, <2>2
<1>6. ASSUME NEW s \in Shards, CredsGone(s) \/ LoginRefused(s)
      PROVE  SocketsInv'
  <2>1. Block(s, Sender(s))
        BY <1>6 DEF CredsGone, LoginRefused
  <2>2. run'[s].at = "report" /\ \A t \in Shards \ {s} : run'[t] = run[t]
        BY <1>6 DEF CredsGone, LoginRefused, Answer
  <2> QED
        BY <2>1, <2>2 DEF Block, Evict
<1>7. ASSUME NEW s \in Shards, SentThenFails(s)
      PROVE  SocketsInv'
  <2>1. (Evict(s, Sender(s)) \/ UNCHANGED conn) /\ UNCHANGED blocked
        BY <1>7 DEF SentThenFails
  <2>2. run'[s].at = "publish" /\ \A t \in Shards \ {s} : run'[t] = run[t]
        BY <1>7 DEF SentThenFails, Answer
  <2> QED
        BY <2>1, <2>2 DEF Evict
<1>8. ASSUME NEW s \in Shards, Crash(s) \/ Exit(s)
      PROVE  SocketsInv'
  <2>1. /\ conn' = [conn EXCEPT ![s] = {}] /\ blocked' = [blocked EXCEPT ![s] = {}]
        /\ run'[s].at = "idle" /\ \A t \in Shards \ {s} : run'[t] = run[t]
        BY <1>8 DEF Crash, Exit, Restart, Idle
  <2> QED
        BY <2>1
<1>9. ASSUME NEW s \in Shards, shutdown(s) \/ BlpopTimesOut(s)
      PROVE  SocketsInv'
      BY <1>9 DEF shutdown, BlpopTimesOut, session
<1>10. ASSUME NEW s \in Shards, NEW a \in Accounts, NEW loggedOut \in BOOLEAN,
              SocketCloses(s, a, loggedOut)
       PROVE  SocketsInv'
  <2>1. a \in conn[s] /\ UNCHANGED run
        BY <1>10 DEF SocketCloses
  <2>2. Block(s, a) \/ (Evict(s, a) /\ UNCHANGED blocked)
        BY <1>10 DEF SocketCloses
  <2> QED
        BY <2>1, <2>2 DEF Block, Evict
<1>11. ASSUME NEW on \in BOOLEAN, set_whatsapp_send_kill_switch(on)
       PROVE  SocketsInv'
       BY <1>11 DEF set_whatsapp_send_kill_switch, session
<1>12. ASSUME NEW a \in Accounts, Unlink(a)
       PROVE  SocketsInv'
       BY <1>12 DEF Unlink
<1> QED
  <2>1. ASSUME NEW s \in Shards, Processing(s)
        PROVE  SocketsInv'
        BY <2>1, <1>3, <1>4, <1>5, <1>6, <1>7 DEF Processing
  <2> QED
        BY <2>1, <1>1, <1>2, <1>8, <1>9, <1>10, <1>11, <1>12 DEF WorkerNext, Lifecycle

---------------------------------------------------------------------------
(* One copy.  Every step that moves a message takes it out of one place    *)
(* and puts it into another.                                               *)

Names == {"toSend", "raw", "hand", "gone", "queue", "delayed", "active", "ended"}

LEMMA PlacesFields ==
    /\ DOMAIN Places = Names
    /\ Places["toSend"] = toSend /\ Places["raw"] = Range(raw)
    /\ Places["hand"] = Range(hand) \ {NoMessage} /\ Places["gone"] = gone
    /\ Places["queue"] = Range(queue) /\ Places["delayed"] = delayed
    /\ Places["active"] = active /\ Places["ended"] = ended
BY DEF Places, Names

LEMMA PlacesFieldsNext ==
    /\ DOMAIN Places' = Names
    /\ Places'["toSend"] = toSend' /\ Places'["raw"] = Range(raw')
    /\ Places'["hand"] = Range(hand') \ {NoMessage} /\ Places'["gone"] = gone'
    /\ Places'["queue"] = Range(queue') /\ Places'["delayed"] = delayed'
    /\ Places'["active"] = active' /\ Places'["ended"] = ended'
BY DEF Places, Names

\* A message that leaves v for w keeps OnePlace.
LEMMA Move ==
    ASSUME OnePlace, NEW v \in Names, NEW w \in Names, v # w, NEW m \in Places[v],
           Places'[v] = Places[v] \ {m}, Places'[w] = Places[w] \cup {m},
           \A q \in Names \ {v, w} : Places'[q] = Places[q]
    PROVE  OnePlace'
<1>1. InOnePlace(Messages, Places) /\ DOMAIN Places = Names /\ DOMAIN Places' = Names
      BY PlacesFields, PlacesFieldsNext DEF OnePlace, InOnePlace
<1>2. InOnePlace(Messages, Places')
      BY <1>1, MovePlace
<1> QED
    BY <1>2 DEF OnePlace, InOnePlace

\* What is in one place is in no other.
LEMMA NotElsewhere ==
    ASSUME OnePlace, NEW v \in Names, NEW m \in Places[v], m \in Messages
    PROVE  \A w \in Names \ {v} : m \notin Places[w]
BY PlacesFields DEF OnePlace

LEMMA CopyStep ==
    ASSUME QueuesOK, ShardsOK, Busy, OneCopy, WorkerNext
    PROVE  OneCopy'
<1> USE DEF OneCopy
<1>1. ASSUME NEW m \in Messages, enqueue_baileys_job(m)
      PROVE  OneCopy'
  <2>1. /\ m \in toSend /\ toSend' = toSend \ {m} /\ raw' = Append(raw, m)
        /\ UNCHANGED <<hand, gone, queue, delayed, active, ended, run>>
        BY <1>1 DEF enqueue_baileys_job, bull, history
  <2>2. m \notin Range(raw)
        BY <2>1, NotElsewhere, PlacesFields DEF Names
  <2>3. IsInjective(raw') /\ Range(raw') = Range(raw) \cup {m}
        BY <2>1, <2>2, Appended DEF QueuesOK
  <2>4. OnePlace'
    <3>1. Places'["toSend"] = Places["toSend"] \ {m} /\ Places'["raw"] = Places["raw"] \cup {m}
          BY <2>1, <2>3, PlacesFields, PlacesFieldsNext
    <3>2. \A q \in Names \ {"toSend", "raw"} : Places'[q] = Places[q]
          BY <2>1, PlacesFields, PlacesFieldsNext DEF Names
    <3>3. m \in Places["toSend"] /\ "toSend" \in Names /\ "raw" \in Names
          BY <2>1, PlacesFields DEF Names
    <3> QED
        BY <3>1, <3>2, <3>3, Move
  <2> QED
        BY <2>1, <2>3, <2>4 DEF OneHolder, OneRunner
<1>2. ASSUME NEW m \in Messages, Promote(m)
      PROVE  OneCopy'
  <2>1. /\ m \in delayed /\ delayed' = delayed \ {m} /\ queue' = Append(queue, m)
        /\ UNCHANGED <<toSend, raw, hand, gone, active, ended, run>>
        BY <1>2 DEF Promote, bridge, history
  <2>2. m \notin Range(queue)
        BY <2>1, NotElsewhere, PlacesFields DEF Names
  <2>3. IsInjective(queue') /\ Range(queue') = Range(queue) \cup {m}
        BY <2>1, <2>2, Appended DEF QueuesOK
  <2>4. OnePlace'
    <3>1. Places'["delayed"] = Places["delayed"] \ {m} /\ Places'["queue"] = Places["queue"] \cup {m}
          BY <2>1, <2>3, PlacesFields, PlacesFieldsNext
    <3>2. \A q \in Names \ {"delayed", "queue"} : Places'[q] = Places[q]
          BY <2>1, PlacesFields, PlacesFieldsNext DEF Names
    <3>3. m \in Places["delayed"] /\ "delayed" \in Names /\ "queue" \in Names
          BY <2>1, PlacesFields DEF Names
    <3> QED
        BY <3>1, <3>2, <3>3, Move
  <2> QED
        BY <2>1, <2>3, <2>4 DEF OneHolder, OneRunner
<1>3. ASSUME NEW m \in Messages, Stalled(m)
      PROVE  OneCopy'
  <2>1. /\ m \in active /\ active' = active \ {m} /\ \A s \in Shards : run[s].msg # m
        /\ UNCHANGED <<toSend, raw, hand, gone, delayed, run>>
        BY <1>3 DEF Stalled, LockLost, bridge
  <2>2. OneHolder' /\ OneRunner' /\ UNCHANGED raw
        BY <2>1 DEF OneHolder, OneRunner
  <2>3. CASE queue' = Append(queue, m) /\ UNCHANGED ended
    <3>1. m \notin Range(queue)
          BY <2>1, NotElsewhere, PlacesFields DEF Names
    <3>2. IsInjective(queue') /\ Range(queue') = Range(queue) \cup {m}
          BY <2>3, <3>1, Appended DEF QueuesOK
    <3>3. OnePlace'
      <4>1. Places'["active"] = Places["active"] \ {m} /\ Places'["queue"] = Places["queue"] \cup {m}
            BY <2>1, <3>2, PlacesFields, PlacesFieldsNext
      <4>2. \A q \in Names \ {"active", "queue"} : Places'[q] = Places[q]
            BY <2>1, <2>3, PlacesFields, PlacesFieldsNext DEF Names
      <4>3. m \in Places["active"] /\ "active" \in Names /\ "queue" \in Names
            BY <2>1, PlacesFields DEF Names
      <4> QED
          BY <4>1, <4>2, <4>3, Move
    <3> QED
          BY <2>2, <3>2, <3>3
  <2>4. CASE ended' = ended \cup {m} /\ UNCHANGED queue
    <3>1. OnePlace'
      <4>1. Places'["active"] = Places["active"] \ {m} /\ Places'["ended"] = Places["ended"] \cup {m}
            BY <2>1, <2>4, PlacesFields, PlacesFieldsNext
      <4>2. \A q \in Names \ {"active", "ended"} : Places'[q] = Places[q]
            BY <2>1, <2>4, PlacesFields, PlacesFieldsNext DEF Names
      <4>3. m \in Places["active"] /\ "active" \in Names /\ "ended" \in Names
            BY <2>1, PlacesFields DEF Names
      <4> QED
          BY <4>1, <4>2, <4>3, Move
    <3> QED
          BY <2>2, <2>4, <3>1
  <2> QED
        BY <1>3, <2>3, <2>4 DEF Stalled
<1>4. ASSUME NEW s \in Shards, Pop(s)
      PROVE  OneCopy'
  <2>1. /\ hand[s] = NoMessage /\ raw # <<>> /\ raw' = Tail(raw)
        /\ UNCHANGED <<toSend, queue, delayed, active, ended, run>>
        BY <1>4 DEF Pop, bull
  <2>2. PICK m \in Messages :
            /\ m = Head(raw) /\ m \in Range(raw)
            /\ IsInjective(raw') /\ Range(raw') = Range(raw) \ {m}
        BY <2>1, TakenOut, HeadTailProperties DEF QueuesOK
  <2>3. OneRunner'
        BY <2>1 DEF OneRunner
  <2>4. CASE hand' = [hand EXCEPT ![s] = m] /\ UNCHANGED gone
    <3>1. m # NoMessage
          BY <2>2, BaileysSets
    <3>2. Range(hand') \ {NoMessage} = (Range(hand) \ {NoMessage}) \cup {m}
      <4>1. hand = [t \in Shards |-> hand[t]]
            BY DEF QueuesOK
      <4> QED
          BY <2>1, <2>4, <3>1, <4>1, Filled
    <3>3. OnePlace'
      <4>1. Places'["raw"] = Places["raw"] \ {m} /\ Places'["hand"] = Places["hand"] \cup {m}
            BY <2>2, <3>2, PlacesFields, PlacesFieldsNext
      <4>2. \A q \in Names \ {"raw", "hand"} : Places'[q] = Places[q]
            BY <2>1, <2>4, PlacesFields, PlacesFieldsNext DEF Names
      <4>3. m \in Places["raw"] /\ "raw" \in Names /\ "hand" \in Names
            BY <2>2, PlacesFields DEF Names
      <4> QED
          BY <4>1, <4>2, <4>3, Move
    <3>4. m \notin Range(hand)
          BY <2>2, <3>1, NotElsewhere, PlacesFields DEF Names
    <3>5. \A t \in Shards : hand[t] # m
          BY <3>4 DEF Range, QueuesOK
    <3>6. OneHolder'
          BY <2>4, <3>5 DEF OneHolder, QueuesOK
    <3> QED
          BY <2>1, <2>2, <2>3, <3>3, <3>6
  <2>5. CASE gone' = gone \cup {m} /\ UNCHANGED hand
    <3>1. OnePlace'
      <4>1. Places'["raw"] = Places["raw"] \ {m} /\ Places'["gone"] = Places["gone"] \cup {m}
            BY <2>2, <2>5, PlacesFields, PlacesFieldsNext
      <4>2. \A q \in Names \ {"raw", "gone"} : Places'[q] = Places[q]
            BY <2>1, <2>5, PlacesFields, PlacesFieldsNext DEF Names
      <4>3. m \in Places["raw"] /\ "raw" \in Names /\ "gone" \in Names
            BY <2>2, PlacesFields DEF Names
      <4> QED
          BY <4>1, <4>2, <4>3, Move
    <3> QED
          BY <2>1, <2>2, <2>3, <2>5, <3>1 DEF OneHolder
  <2> QED
        BY <1>4, <2>2, <2>4, <2>5 DEF Pop
\* A hand is emptied into the queue or dropped: what both cases share.
<1>5. ASSUME NEW s \in Shards, NEW m \in Messages, m = hand[s],
             hand' = [hand EXCEPT ![s] = NoMessage]
      PROVE  /\ m \in Places["hand"] /\ Places'["hand"] = Places["hand"] \ {m}
             /\ OneHolder'
  <2>1. hand[s] # NoMessage /\ DOMAIN hand = Shards
        BY <1>5, BaileysSets DEF QueuesOK
  <2>2. m \in Range(hand) \ {NoMessage}
        BY <1>5, <2>1 DEF Range
  <2>3. Range(hand') \ {NoMessage} = (Range(hand) \ {NoMessage}) \ {m}
        BY <1>5, <2>1 DEF OneHolder, QueuesOK, Range
  <2>4. OneHolder'
        BY <1>5 DEF OneHolder, QueuesOK
  <2> QED
        BY <2>2, <2>3, <2>4, PlacesFields, PlacesFieldsNext
<1>6. ASSUME NEW s \in Shards, NEW m \in Messages, m = hand[s],
             hand' = [hand EXCEPT ![s] = NoMessage], gone' = gone \cup {m},
             UNCHANGED <<toSend, raw, queue, delayed, active, ended>>, OneRunner'
      PROVE  OneCopy'
  <2>1. m \in Places["hand"] /\ Places'["hand"] = Places["hand"] \ {m} /\ OneHolder'
        BY <1>5, <1>6
  <2>2. Places'["gone"] = Places["gone"] \cup {m}
        BY <1>6, PlacesFields, PlacesFieldsNext
  <2>3. \A q \in Names \ {"hand", "gone"} : Places'[q] = Places[q]
        BY <1>6, PlacesFields, PlacesFieldsNext DEF Names
  <2>4. OnePlace'
        BY <2>1, <2>2, <2>3, Move DEF Names
  <2> QED
        BY <1>6, <2>1, <2>4
<1>7. ASSUME NEW s \in Shards, Add(s)
      PROVE  OneCopy'
  <2>1. PICK m \in Messages : m = hand[s] /\ hand[s] # NoMessage
        BY <1>7 DEF Add, QueuesOK
  <2>2. /\ hand' = [hand EXCEPT ![s] = NoMessage]
        /\ UNCHANGED <<toSend, raw, delayed, active, ended, run>>
        BY <1>7 DEF Add
  <2>3. OneRunner'
        BY <2>2 DEF OneRunner
  <2>4. CASE gone' = gone \cup {m} /\ UNCHANGED queue
        BY <1>6, <2>1, <2>2, <2>3, <2>4
  <2>5. CASE queue' = Append(queue, m) /\ UNCHANGED gone
    <3>1. m \in Places["hand"] /\ Places'["hand"] = Places["hand"] \ {m} /\ OneHolder'
          BY <1>5, <2>1, <2>2
    <3>2. m \notin Range(queue)
          BY <3>1, NotElsewhere, PlacesFields DEF Names
    <3>3. IsInjective(queue') /\ Range(queue') = Range(queue) \cup {m}
          BY <2>5, <3>2, Appended DEF QueuesOK
    <3>4. Places'["queue"] = Places["queue"] \cup {m}
          BY <3>3, PlacesFields, PlacesFieldsNext
    <3>5. \A q \in Names \ {"hand", "queue"} : Places'[q] = Places[q]
          BY <2>2, <2>5, PlacesFields, PlacesFieldsNext DEF Names
    <3>6. OnePlace'
          BY <3>1, <3>4, <3>5, Move DEF Names
    <3> QED
          BY <2>2, <2>3, <3>1, <3>3, <3>6
  <2> QED
        BY <1>7, <2>1, <2>4, <2>5 DEF Add
<1>8. ASSUME NEW s \in Shards, AddFails(s)
      PROVE  OneCopy'
  <2>1. PICK m \in Messages : m = hand[s]
        BY <1>8 DEF AddFails, QueuesOK
  <2>2. /\ hand' = [hand EXCEPT ![s] = NoMessage] /\ gone' = gone \cup {m}
        /\ UNCHANGED <<toSend, raw, queue, delayed, active, ended, run>>
        BY <1>8, <2>1 DEF AddFails, bull
  <2> QED
        BY <1>6, <2>1, <2>2 DEF OneRunner
<1>9. ASSUME NEW s \in Shards, Take(s)
      PROVE  OneCopy'
  <2>1. /\ queue # <<>> /\ queue' = Tail(queue) /\ UNCHANGED <<toSend, raw, hand, gone, delayed, ended>>
        BY <1>9 DEF Take, bridge, history
  <2>2. PICK m \in Messages :
            /\ m = Head(queue) /\ m \in Range(queue)
            /\ IsInjective(queue') /\ Range(queue') = Range(queue) \ {m}
        BY <2>1, TakenOut, HeadTailProperties DEF QueuesOK
  <2>3. active' = active \cup {m} /\ run'[s].msg = m /\ \A t \in Shards \ {s} : run'[t] = run[t]
        BY <1>9, <2>2 DEF Take, ShardsOK, RunOK
  <2>4. OnePlace'
    <3>1. Places'["queue"] = Places["queue"] \ {m} /\ Places'["active"] = Places["active"] \cup {m}
          BY <2>2, <2>3, PlacesFields, PlacesFieldsNext
    <3>2. \A q \in Names \ {"queue", "active"} : Places'[q] = Places[q]
          BY <2>1, PlacesFields, PlacesFieldsNext DEF Names
    <3>3. m \in Places["queue"] /\ "queue" \in Names /\ "active" \in Names
          BY <2>2, PlacesFields DEF Names
    <3> QED
        BY <3>1, <3>2, <3>3, Move
  <2>5. m \notin active
        BY <2>2, NotElsewhere, PlacesFields DEF Names
  <2>6. OneRunner'
        BY <2>3, <2>5 DEF OneRunner
  <2> QED
        BY <2>1, <2>2, <2>4, <2>6 DEF OneHolder
\* A processor lets go of its job.
<1>10. ASSUME NEW s \in Shards, run[s].msg \in Messages, run' = [run EXCEPT ![s] = Idle],
              active' = active \ {run[s].msg}
       PROVE  OneRunner' /\ run[s].msg \in active
  <2>1. run[s].msg \in active /\ \A t \in Shards \ {s} : run[t].msg # run[s].msg
        BY <1>10, BaileysSets DEF OneRunner
  <2>2. run'[s].msg = NoMessage /\ \A t \in Shards \ {s} : run'[t] = run[t]
        BY <1>10 DEF Idle, ShardsOK, RunOK
  <2> QED
        BY <1>10, <2>1, <2>2 DEF OneRunner
<1>11. ASSUME NEW s \in Shards, Defer(s)
       PROVE  OneCopy'
  <2>1. PICK m \in Messages : m = run[s].msg
        BY <1>11 DEF Defer, Busy, At
  <2>2. /\ active' = active \ {m} /\ delayed' = delayed \cup {m} /\ run' = [run EXCEPT ![s] = Idle]
        /\ UNCHANGED <<toSend, raw, hand, gone, queue, ended>>
        BY <1>11, <2>1 DEF Defer, bridge, history
  <2>3. OneRunner' /\ m \in active
        BY <1>10, <2>1, <2>2
  <2>4. OnePlace'
    <3>1. Places'["active"] = Places["active"] \ {m} /\ Places'["delayed"] = Places["delayed"] \cup {m}
          BY <2>2, PlacesFields, PlacesFieldsNext
    <3>2. \A q \in Names \ {"active", "delayed"} : Places'[q] = Places[q]
          BY <2>2, PlacesFields, PlacesFieldsNext DEF Names
    <3>3. m \in Places["active"] /\ "active" \in Names /\ "delayed" \in Names
          BY <2>3, PlacesFields DEF Names
    <3> QED
        BY <3>1, <3>2, <3>3, Move
  <2> QED
        BY <2>2, <2>3, <2>4 DEF OneHolder
<1>12. ASSUME NEW s \in Shards, run[s].msg \in Messages, End(s),
              UNCHANGED <<toSend, raw, hand, gone, queue, delayed>>
       PROVE  OneCopy'
  <2>1. PICK m \in Messages : m = run[s].msg
        BY <1>12
  <2>2. active' = active \ {m} /\ ended' = ended \cup {m} /\ run' = [run EXCEPT ![s] = Idle]
        BY <1>12, <2>1 DEF End
  <2>3. OneRunner' /\ m \in active
        BY <1>10, <2>1, <2>2
  <2>4. OnePlace'
    <3>1. Places'["active"] = Places["active"] \ {m} /\ Places'["ended"] = Places["ended"] \cup {m}
          BY <2>2, PlacesFields, PlacesFieldsNext
    <3>2. \A q \in Names \ {"active", "ended"} : Places'[q] = Places[q]
          BY <1>12, PlacesFields, PlacesFieldsNext DEF Names
    <3>3. m \in Places["active"] /\ "active" \in Names /\ "ended" \in Names
          BY <2>3, PlacesFields DEF Names
    <3> QED
        BY <3>1, <3>2, <3>3, Move
  <2> QED
        BY <1>12, <2>3, <2>4 DEF OneHolder
\* A processor goes on with its job, and nothing moves.
<1>13. ASSUME UNCHANGED <<toSend, raw, hand, gone, queue, delayed, active, ended>>,
              \A s \in Shards : run'[s].msg \in {run[s].msg, NoMessage}
       PROVE  OneCopy'
  <2>1. UNCHANGED Places
        BY <1>13 DEF Places
  <2>2. OnePlace'
        BY <2>1 DEF OnePlace
  <2> QED
        BY <1>13, <2>2 DEF OneHolder, OneRunner
<1>14. ASSUME NEW s \in Shards,
              \/ CheckJob(s) \/ OpenSocket(s) \/ CredsGone(s) \/ LoginRefused(s)
              \/ ConnectFails(s) \/ SendMessage(s) \/ SendFails(s) \/ SentThenFails(s)
              \/ Report(s) \/ publishResult(s)
       PROVE  OneCopy'
  <2>1. UNCHANGED <<toSend, raw, hand, gone, queue, delayed, active, ended>>
        BY <1>14 DEF CheckJob, OpenSocket, CredsGone, LoginRefused, ConnectFails, SendMessage,
                     SendFails, SentThenFails, Report, publishResult, bridge, bull, history
  <2>2. (\E p \in Points : Goto(s, p)) \/ (\E p \in Points, out \in Outcomes : Answer(s, p, out))
        BY <1>14 DEF CheckJob, Checked, OpenSocket, CredsGone, LoginRefused, ConnectFails,
                     SendMessage, SendFails, SentThenFails, Report, publishResult, Points, Outcomes
  <2>3. \A t \in Shards : run'[t].msg = run[t].msg
    <3>1. ASSUME NEW p \in Points, Goto(s, p)
          PROVE  \A t \in Shards : run'[t].msg = run[t].msg
          BY <3>1 DEF Goto, Answer, ShardsOK, RunOK
    <3>2. ASSUME NEW p \in Points, NEW out \in Outcomes, Answer(s, p, out)
          PROVE  \A t \in Shards : run'[t].msg = run[t].msg
          BY <3>2 DEF Answer, ShardsOK, RunOK
    <3> QED
        BY <2>2, <3>1, <3>2
  <2> QED
        BY <1>13, <2>1, <2>3
<1>15. ASSUME NEW s \in Shards, ReportFails(s) \/ PublishFails(s) \/ Finish(s)
       PROVE  OneCopy'
  <2>1. run[s].msg \in Messages
        BY <1>15 DEF ReportFails, PublishFails, Finish, Busy, At
  <2>2. CASE End(s)
    <3>1. UNCHANGED <<toSend, raw, hand, gone, queue, delayed>>
          BY <1>15 DEF ReportFails, PublishFails, Finish, bridge
    <3> QED
          BY <1>12, <2>1, <2>2, <3>1
  <2>3. CASE PublishFails(s) /\ Answer(s, "publish", "failed") /\ UNCHANGED <<active, ended>>
    <3>1. UNCHANGED <<toSend, raw, hand, gone, queue, delayed, active, ended>>
          BY <2>3 DEF PublishFails, bridge
    <3>2. \A t \in Shards : run'[t].msg = run[t].msg
          BY <2>3 DEF Answer, ShardsOK, RunOK
    <3> QED
          BY <1>13, <3>1, <3>2
  <2> QED
        BY <1>15, <2>2, <2>3 DEF ReportFails, PublishFails, Finish
<1>16. ASSUME NEW s \in Shards, Crash(s) \/ Exit(s)
       PROVE  OneCopy'
  <2>1. /\ hand' = [hand EXCEPT ![s] = NoMessage]
        /\ gone' = IF hand[s] = NoMessage THEN gone ELSE gone \cup {hand[s]}
        /\ UNCHANGED <<toSend, raw, queue, delayed, active, ended>>
        BY <1>16 DEF Crash, Exit, Restart
  <2>2. \A t \in Shards : run'[t].msg \in {run[t].msg, NoMessage}
        BY <1>16 DEF Crash, Exit, Idle, ShardsOK, RunOK
  <2>3. CASE hand[s] = NoMessage
    <3>1. UNCHANGED <<hand, gone>>
          BY <2>1, <2>3 DEF QueuesOK
    <3> QED
          BY <1>13, <2>1, <2>2, <3>1
  <2>4. CASE hand[s] # NoMessage
    <3>1. PICK m \in Messages : m = hand[s]
          BY <2>4 DEF QueuesOK
    <3>2. OneRunner'
          BY <2>1, <2>2 DEF OneRunner
    <3> QED
          BY <1>6, <2>1, <2>4, <3>1, <3>2
  <2> QED
        BY <2>3, <2>4
<1>17. ASSUME NEW s \in Shards, shutdown(s) \/ BlpopTimesOut(s)
       PROVE  OneCopy'
  <2>1. UNCHANGED <<toSend, raw, hand, gone, queue, delayed, active, ended, run>>
        BY <1>17 DEF shutdown, BlpopTimesOut, bull, history
  <2> QED
        BY <1>13, <2>1
<1>18. ASSUME NEW s \in Shards, NEW a \in Accounts, NEW loggedOut \in BOOLEAN,
              SocketCloses(s, a, loggedOut)
       PROVE  OneCopy'
       BY <1>13, <1>18 DEF SocketCloses, bridge, bull
<1>19. ASSUME NEW on \in BOOLEAN, set_whatsapp_send_kill_switch(on)
       PROVE  OneCopy'
       BY <1>13, <1>19 DEF set_whatsapp_send_kill_switch, bridge, bull
<1>20. ASSUME NEW a \in Accounts, Unlink(a)
       PROVE  OneCopy'
       BY <1>13, <1>20 DEF Unlink, bridge, bull
<1> QED
  <2>1. ASSUME NEW s \in Shards, Bridging(s) \/ Processing(s) \/ Lifecycle(s)
        PROVE  OneCopy'
        BY <2>1, <1>4, <1>7, <1>8, <1>9, <1>11, <1>14, <1>15, <1>16, <1>17
           DEF Bridging, Processing, Lifecycle
  <2> QED
        BY <2>1, <1>1, <1>2, <1>3, <1>18, <1>19, <1>20 DEF WorkerNext

---------------------------------------------------------------------------
(* The sends.  A job that no shard has died over has not been sent before  *)
(* it is taken, and a shard that has sent it does not go back.             *)

Early == {"check", "connect", "send"}
SentInv ==
    /\ stalls \in [Messages -> Nat] /\ sent \in [Messages -> Nat]
    /\ \A m \in Messages :
           /\ sent[m] <= 1 + stalls[m] /\ stalls[m] <= MaxStalls + 1
           /\ m \notin ended => stalls[m] <= MaxStalls
           /\ m \notin active \cup ended => sent[m] <= stalls[m]
    /\ \A s \in Shards : run[s].at \in Early => sent[run[s].msg] <= stalls[run[s].msg]

LEMMA SentStep ==
    ASSUME QueuesOK, ShardsOK, Busy, OneCopy, SentInv, WorkerNext
    PROVE  SentInv'
<1> USE BaileysBounds DEF SentInv
\* No job changes its place, and a shard stays early with its job or is not early.
<1>1. ASSUME UNCHANGED <<stalls, sent, active, ended>>,
             \A s \in Shards : run'[s].at \in Early =>
                 run[s].at \in Early /\ run'[s].msg = run[s].msg
      PROVE  SentInv'
      BY <1>1
<1>2. ASSUME NEW m \in Messages, enqueue_baileys_job(m) \/ Promote(m)
      PROVE  SentInv'
      BY <1>1, <1>2 DEF enqueue_baileys_job, Promote, bull, history
<1>3. ASSUME NEW m \in Messages, Stalled(m)
      PROVE  SentInv'
  <2>1. /\ m \in active /\ active' = active \ {m} /\ \A s \in Shards : run[s].msg # m
        /\ stalls' = [stalls EXCEPT ![m] = @ + 1] /\ UNCHANGED <<run, sent>>
        BY <1>3 DEF Stalled, LockLost
  <2>2. m \notin ended
        BY <2>1, NotElsewhere, PlacesFields DEF Names, OneCopy
  <2>3. stalls[m] <= MaxStalls
        BY <2>2
  <2>4. \/ stalls[m] < MaxStalls /\ ended' = ended
        \/ stalls[m] >= MaxStalls /\ ended' = ended \cup {m}
        BY <1>3 DEF Stalled
  <2>5. /\ stalls' \in [Messages -> Nat] /\ stalls'[m] = stalls[m] + 1
        /\ \A n \in Messages \ {m} : stalls'[n] = stalls[n]
        BY <2>1
  <2>6. \A s \in Shards : run[s].at \in Early => run[s].msg \in Messages \ {m}
        BY <2>1 DEF Busy, At, Early
  <2>7. \A n \in Messages : stalls[n] \in Nat /\ sent[n] \in Nat
        OBVIOUS
  <2> QED
        BY <2>1, <2>3, <2>4, <2>5, <2>6, <2>7
<1>4. ASSUME NEW s \in Shards, Bridging(s)
      PROVE  SentInv'
  <2>1. UNCHANGED <<stalls, sent, active, ended, run>>
        BY <1>4 DEF Bridging, Pop, Add, AddFails, bull
  <2> QED
        BY <1>1, <2>1
<1>5. ASSUME NEW s \in Shards, Take(s)
      PROVE  SentInv'
  <2>1. queue # <<>> /\ UNCHANGED <<stalls, sent, ended>>
        BY <1>5 DEF Take, history
  <2>2. PICK m \in Messages : m = Head(queue) /\ m \in Range(queue)
        BY <2>1, TakenOut, HeadTailProperties DEF QueuesOK, OneCopy
  <2>3. m \notin active \cup ended
        BY <2>2, NotElsewhere, PlacesFields DEF Names, OneCopy
  <2>4. active' = active \cup {m} /\ run'[s].msg = m /\ \A t \in Shards \ {s} : run'[t] = run[t]
        BY <1>5, <2>2 DEF Take, ShardsOK, RunOK
  <2> QED
        BY <2>1, <2>3, <2>4
<1>6. ASSUME NEW s \in Shards, Defer(s)
      PROVE  SentInv'
  <2>1. /\ active' = active \ {run[s].msg} /\ run' = [run EXCEPT ![s] = Idle]
        /\ run[s].at \in Early /\ UNCHANGED <<stalls, sent, ended>>
        BY <1>6 DEF Defer, At, Early, history
  <2>2. sent[run[s].msg] <= stalls[run[s].msg]
        BY <2>1
  <2>3. run'[s].at \notin Early /\ \A t \in Shards \ {s} : run'[t] = run[t]
        BY <2>1 DEF Idle, Early, ShardsOK, RunOK
  <2> QED
        BY <2>1, <2>2, <2>3
<1>7. ASSUME NEW s \in Shards,
             \/ CheckJob(s) \/ OpenSocket(s) \/ CredsGone(s) \/ LoginRefused(s)
             \/ ConnectFails(s) \/ SendFails(s) \/ Report(s) \/ publishResult(s)
      PROVE  SentInv'
  <2>1. UNCHANGED <<stalls, sent, active, ended>>
        BY <1>7 DEF CheckJob, OpenSocket, CredsGone, LoginRefused, ConnectFails, SendFails,
                    Report, publishResult, bull, history
  <2>2. \A t \in Shards \ {s} : run'[t] = run[t]
    <3>1. (\E p \in Points : Goto(s, p)) \/ (\E p \in Points, out \in Outcomes : Answer(s, p, out))
          BY <1>7 DEF CheckJob, Checked, OpenSocket, CredsGone, LoginRefused, ConnectFails,
                      SendFails, Report, publishResult, Points, Outcomes
    <3> QED
          BY <3>1 DEF Goto, Answer, ShardsOK, RunOK
  <2>3. run'[s].at \in Early => run[s].at \in Early /\ run'[s].msg = run[s].msg
    <3>1. CASE CheckJob(s)
      <4>1. run[s].at = "check" /\ Checked(s, Sender(s))
            BY <3>1 DEF CheckJob, At
      <4> QED
            BY <4>1 DEF Checked, Answer, Goto, Early, ShardsOK, RunOK
    <3>2. CASE OpenSocket(s)
          BY <3>2 DEF OpenSocket, Goto, Answer, At, Early, ShardsOK, RunOK
    <3>3. CASE ~CheckJob(s) /\ ~OpenSocket(s)
          BY <1>7, <3>3 DEF CredsGone, LoginRefused, ConnectFails, SendFails, Report,
                            publishResult, Answer, Goto, Early, ShardsOK, RunOK
    <3> QED
          BY <3>1, <3>2, <3>3
  <2> QED
        BY <1>1, <2>1, <2>2, <2>3
<1>8. ASSUME NEW s \in Shards, SendMessage(s) \/ SentThenFails(s)
      PROVE  SentInv'
  <2>1. PICK m \in Messages : m = run[s].msg
        BY <1>8 DEF SendMessage, SentThenFails, Busy, At
  <2>2. sent' = [sent EXCEPT ![m] = @ + 1] /\ UNCHANGED <<stalls, active, ended>>
        BY <1>8, <2>1 DEF SendMessage, SentThenFails, Sent, bull
  <2>3. sent[m] <= stalls[m]
        BY <1>8, <2>1 DEF SendMessage, SentThenFails, At, Early
  <2>4. m \in active /\ \A t \in Shards \ {s} : run[t].msg # m
        BY <2>1, BaileysSets DEF OneCopy, OneRunner
  <2>5. run'[s].at \notin Early /\ \A t \in Shards \ {s} : run'[t] = run[t]
        BY <1>8 DEF SendMessage, SentThenFails, Answer, Early, ShardsOK, RunOK
  <2>6. /\ sent' \in [Messages -> Nat] /\ sent'[m] = sent[m] + 1
        /\ \A n \in Messages \ {m} : sent'[n] = sent[n]
        BY <2>2
  <2>7. \A t \in Shards \ {s} : run[t].at \in Early => run[t].msg \in Messages \ {m}
        BY <2>4 DEF Busy, At, Early
  <2>8. stalls[m] \in Nat /\ sent[m] \in Nat
        OBVIOUS
  <2> QED
        BY <2>2, <2>3, <2>4, <2>5, <2>6, <2>7, <2>8
<1>9. ASSUME NEW s \in Shards, ReportFails(s) \/ PublishFails(s) \/ Finish(s)
      PROVE  SentInv'
  <2>1. UNCHANGED <<stalls, sent>>
        BY <1>9 DEF ReportFails, PublishFails, Finish
  <2>2. /\ ended \subseteq ended' /\ active' \cup ended' = active \cup ended \cup ended'
        /\ active \subseteq active' \cup ended'
        BY <1>9 DEF ReportFails, PublishFails, Finish, End
  <2>3. run'[s].at \notin Early /\ \A t \in Shards \ {s} : run'[t] = run[t]
        BY <1>9 DEF ReportFails, PublishFails, Finish, End, Answer, Idle, Early, ShardsOK, RunOK
  <2> QED
        BY <2>1, <2>2, <2>3
<1>10. ASSUME NEW s \in Shards, Lifecycle(s)
       PROVE  SentInv'
  <2>1. UNCHANGED <<stalls, sent, active, ended>>
        BY <1>10 DEF Lifecycle, Crash, shutdown, BlpopTimesOut, Exit, bull, history
  <2>2. \A t \in Shards : run'[t].at \in Early => run'[t] = run[t]
        BY <1>10 DEF Lifecycle, Crash, shutdown, BlpopTimesOut, Exit, Idle, Early, ShardsOK, RunOK
  <2> QED
        BY <1>1, <2>1, <2>2
<1>11. ASSUME NEW s \in Shards, NEW a \in Accounts, NEW loggedOut \in BOOLEAN,
              SocketCloses(s, a, loggedOut)
       PROVE  SentInv'
       BY <1>1, <1>11 DEF SocketCloses, bull
<1>12. ASSUME NEW on \in BOOLEAN, set_whatsapp_send_kill_switch(on)
       PROVE  SentInv'
       BY <1>1, <1>12 DEF set_whatsapp_send_kill_switch, bull
<1>13. ASSUME NEW a \in Accounts, Unlink(a)
       PROVE  SentInv'
       BY <1>1, <1>13 DEF Unlink, bull
<1> QED
  <2>1. ASSUME NEW s \in Shards, Processing(s)
        PROVE  SentInv'
        BY <2>1, <1>5, <1>6, <1>7, <1>8, <1>9 DEF Processing
  <2> QED
        BY <2>1, <1>2, <1>3, <1>4, <1>10, <1>11, <1>12, <1>13 DEF WorkerNext

---------------------------------------------------------------------------
IInv == QueuesOK /\ ShardsOK /\ Busy /\ KillInv /\ SocketsInv /\ OneCopy /\ SentInv

LEMMA InitInv == Init => IInv
<1> SUFFICES ASSUME Init PROVE IInv
    OBVIOUS
<1>1. QueuesOK
      BY DEF Init, WorkerInit, QueuesOK
<1>2. ShardsOK /\ Busy
      BY DEF Init, WorkerInit, ShardsOK, RunOK, Busy, At, Idle, Points, Outcomes
<1>3. KillInv
      BY DEF Init, WorkerInit, KillInv
<1>4. SocketsInv
      BY DEF Init, WorkerInit, SocketsInv, At, Idle
<1>5. OneCopy
  <2>1. Range(raw) = {} /\ Range(queue) = {} /\ Range(hand) \ {NoMessage} = {}
        BY DEF Init, WorkerInit, Range
  <2>2. \A m \in Messages : \A q \in Names : m \in Places[q] <=> q = "toSend"
        BY <2>1, PlacesFields DEF Init, WorkerInit, Names
  <2>3. OnePlace
        BY <2>2, PlacesFields DEF OnePlace, Names
  <2> QED
        BY <2>3 DEF OneCopy, OneHolder, OneRunner, IsInjective, Init, WorkerInit, Idle
<1>6. SentInv
      BY BaileysBounds DEF Init, WorkerInit, SentInv, Idle, Early
<1> QED
    BY <1>1, <1>2, <1>3, <1>4, <1>5, <1>6 DEF IInv

LEMMA NextInv == IInv /\ [Next]_vars => IInv'
<1> SUFFICES ASSUME IInv, [Next]_vars PROVE IInv'
    OBVIOUS
<1>1. CASE WorkerNext
      BY <1>1, QueuesStep, ShardsStep, KillStep, SocketsStep, CopyStep, SentStep
         DEF IInv, ShardsOK
<1>2. CASE Next /\ ~WorkerNext
  <2>1. /\ UNCHANGED <<run, bull, bridge, conn, blocked, kill, sent, gone, ended, lateSends>>
        /\ linked' \subseteq Accounts
    <3>1. UNCHANGED <<run, bull, bridge, conn, blocked, kill, sent, gone, ended, lateSends>>
          BY <1>2, ConsumerFrame
    <3>2. UNCHANGED linked \/ \E a \in Accounts : linked' = linked \cup {a}
          BY <1>2 DEF Next, WorkerStep, Read, Commit, CommitFails, Trim, TrimFails, Relink, Link,
                      workerVars, session
    <3> QED
          BY <3>1, <3>2 DEF IInv, ShardsOK
  <2>2. QueuesOK'
        BY <2>1 DEF IInv, QueuesOK, bull, bridge
  <2>3. ShardsOK' /\ Busy'
        BY <2>1 DEF IInv, ShardsOK, RunOK, Busy, At, bridge
  <2>4. KillInv' /\ SocketsInv'
        BY <2>1 DEF IInv, KillInv, SocketsInv, At, Sender
  <2>5. OneCopy' /\ SentInv'
    <3>1. UNCHANGED <<toSend, raw, hand, gone, queue, delayed, active, ended, run, stalls, sent>>
          BY <2>1 DEF bull, bridge
    <3>2. UNCHANGED Places
          BY <3>1 DEF Places
    <3>3. OneCopy'
          BY <3>1, <3>2 DEF IInv, OneCopy, OnePlace, OneHolder, OneRunner
    <3>4. SentInv'
          BY <3>1 DEF IInv, SentInv
    <3> QED
        BY <3>3, <3>4
  <2> QED
        BY <2>2, <2>3, <2>4, <2>5 DEF IInv
<1>3. CASE UNCHANGED vars
  <2>1. UNCHANGED <<toSend, raw, hand, life, queue, delayed, active, known, run, conn, blocked,
                    linked, kill, lateSends, gone, ended, sent, stalls>>
        BY <1>3 DEF vars, workerVars, bridge, bull, session, history
  <2>2. QueuesOK' /\ ShardsOK' /\ Busy' /\ KillInv' /\ SocketsInv'
    <3>1. QueuesOK' /\ ShardsOK' /\ Busy'
          BY <2>1 DEF IInv, QueuesOK, ShardsOK, RunOK, Busy, At
    <3>2. KillInv' /\ SocketsInv'
          BY <2>1 DEF IInv, At, KillInv, SocketsInv, Sender
    <3> QED
          BY <3>1, <3>2
  <2>3. UNCHANGED Places
        BY <2>1 DEF Places
  <2>4. OneCopy' /\ SentInv'
        BY <2>1, <2>3 DEF IInv, OneCopy, OnePlace, OneHolder, OneRunner, SentInv
  <2> QED
        BY <2>2, <2>4 DEF IInv
<1> QED
    BY <1>1, <1>2, <1>3

\* The inductive invariant holds: the types of the queues and the shards, the
\* switch and the sockets (worker.js and rawOutgoingBridge.js as they are).
THEOREM Invariant == Spec => []IInv
<1> QED
    BY InitInv, NextInv, PTL DEF Spec

\* A job has one place at any time, and one shard at most works on it: what
\* rawOutgoingBridge.js pops, adds or loses, BullMQ queues, delays and hands out
\* again, and the processor ends.
THEOREM JobsHaveOneCopy == Spec => []OneCopy
<1>1. IInv => OneCopy
      BY DEF IInv
<1> QED
    BY <1>1, Invariant, PTL

\* processOutgoingJob sends a message once, and once more for each time its
\* shard died over it, which maxStalledCount bounds.
THEOREM SendsAreBounded == Spec => []SentPerRun
<1>1. IInv => SentPerRun
      BY DEF IInv, SentInv, SentPerRun
<1> QED
    BY <1>1, Invariant, PTL

\* However many shards there are and whenever the switch is turned: a shard
\* sends one message more after isKillSwitchOn could have told it, and no other.
THEOREM KillStopsSending == Spec => []OneSendAfterKill
<1>1. IInv => OneSendAfterKill
      BY DEF IInv, KillInv, OneSendAfterKill
<1> QED
    BY <1>1, Invariant, PTL

\* ACCOUNT_IDS gives every account to one shard.
Partition == \A s, t \in Shards : s # t => \A a \in Accounts : ~(Mine(s, a) /\ Mine(t, a))

\* When the operators give every account to one shard, no two shards hold a
\* socket of the same account, and no shard one of an account it has blocked.
THEOREM SocketsApart ==
    ASSUME Partition
    PROVE  Spec => []SocketsAreOwned
<1>1. IInv => SocketsAreOwned
  <2> SUFFICES ASSUME IInv PROVE SocketsAreOwned
      OBVIOUS
  <2>1. ASSUME NEW s \in Shards, NEW t \in Shards, s # t, NEW a \in conn[s], a \in conn[t]
        PROVE  FALSE
        BY <2>1 DEF IInv, ShardsOK, SocketsInv, Partition
  <2>2. ASSUME NEW s \in Shards, NEW a \in conn[s]
        PROVE  a \notin blocked[s]
        BY <2>2 DEF IInv, SocketsInv
  <2> QED
      BY <2>1, <2>2 DEF SocketsAreOwned
<1> QED
    BY <1>1, Invariant, PTL
---------------------------------------------------------------------------
(* Counting in a list.                                                     *)

\* The head of a list, and what is left of it.
LEMMA HeadOfList ==
    ASSUME NEW S, NEW seq \in Seq(S), NEW n \in Nat
    PROVE  LET head == Beginning(seq, n)
           IN  /\ head \in Seq(S) /\ Len(head) \in Nat
               /\ \A i \in 1..Len(head) : head[i] = seq[i]
               /\ Len(head) <= Len(seq) /\ Len(head) <= n
               /\ Beginning(seq, Len(head)) = head
               /\ SubSeq(seq, Len(head) + 1, Len(seq)) \in Seq(S)
               /\ seq = head \o SubSeq(seq, Len(head) + 1, Len(seq))
<1> DEFINE k    == IF n < Len(seq) THEN n ELSE Len(seq)
           head == Beginning(seq, n)
<1>1. /\ Len(seq) \in Nat /\ k \in Nat /\ k <= Len(seq) /\ k \in Int /\ Len(seq) \in Int
      /\ k <= n
      BY LenProperties
<1>2. head = SubSeq(seq, 1, k)
      BY DEF Beginning
<1>3. Beginning(seq, k) = SubSeq(seq, 1, k)
      BY <1>1 DEF Beginning
<1> HIDE DEF k, head
<1>4. \A i \in 1..Len(seq) : seq[i] \in S
      BY ElementOfSeq
<1>5. /\ SubSeq(seq, 1, k) \in Seq(S) /\ Len(SubSeq(seq, 1, k)) = k
      /\ \A i \in 1..k : SubSeq(seq, 1, k)[i] = seq[i]
  <2>1. \A i \in 1..k : seq[i] \in S
        BY <1>1, <1>4
  <2> QED
      BY <1>1, <2>1, SubSeqProperties
<1>6. SubSeq(seq, k + 1, Len(seq)) \in Seq(S)
  <2>1. \A i \in k+1..Len(seq) : seq[i] \in S
        BY <1>1, <1>4
  <2> QED
      BY <1>1, <2>1, SubSeqProperties
<1>7. SubSeq(seq, 1, k) \o SubSeq(seq, k + 1, Len(seq)) = seq
  <2>1. 1 \in 1..Len(seq)+1 /\ k \in 1-1..Len(seq) /\ Len(seq) \in k..Len(seq)
        BY <1>1
  <2>2. SubSeq(seq, 1, k) \o SubSeq(seq, k + 1, Len(seq)) = SubSeq(seq, 1, Len(seq))
        BY <2>1, ConcatAdjacentSubSeq
  <2> QED
      BY <2>2, SubSeqFull
<1> QED
    BY <1>1, <1>2, <1>3, <1>5, <1>6, <1>7 DEF head

\* An element occurs in a list as often as in its two parts.
LEMMA OccurrencesOfParts ==
    ASSUME NEW S, NEW s \in Seq(S), NEW t \in Seq(S), NEW x
    PROVE  /\ Occurrences(x, s) \in Nat /\ Occurrences(x, t) \in Nat
           /\ Occurrences(x, s \o t) = Occurrences(x, s) + Occurrences(x, t)
<1> DEFINE A == {i \in 1..Len(s) : s[i] = x}
           B == {i \in 1..Len(t) : t[i] = x}
           C == {i \in 1..Len(s) + Len(t) : (s \o t)[i] = x}
           D == {i \in Len(s) + 1..Len(s) + Len(t) : t[i - Len(s)] = x}
<1>1. /\ Len(s) \in Nat /\ Len(t) \in Nat
      /\ DOMAIN s = 1..Len(s) /\ DOMAIN t = 1..Len(t)
      BY LenProperties
<1>2. /\ s \o t \in Seq(S) /\ Len(s \o t) = Len(s) + Len(t)
      /\ \A i \in 1..Len(s) + Len(t) : (s \o t)[i] = IF i <= Len(s) THEN s[i] ELSE t[i - Len(s)]
      BY ConcatProperties
<1>3. DOMAIN (s \o t) = 1..Len(s) + Len(t)
      BY <1>2, LenProperties
<1>4. /\ Occurrences(x, s) = Cardinality(A) /\ Occurrences(x, t) = Cardinality(B)
      /\ Occurrences(x, s \o t) = Cardinality(C)
      BY <1>1, <1>3 DEF Occurrences
<1>5. IsFiniteSet(A) /\ IsFiniteSet(B) /\ IsFiniteSet(D)
  <2>1. IsFiniteSet(1..Len(s)) /\ IsFiniteSet(1..Len(t))
        /\ IsFiniteSet(Len(s) + 1..Len(s) + Len(t))
        BY <1>1, FS_Interval
  <2> QED
      BY <2>1, FS_Subset
<1>6. C = A \cup D /\ A \cap D = {}
      BY <1>1, <1>2
<1>7. Cardinality(D) = Cardinality(B)
  <2> DEFINE f == [i \in B |-> i + Len(s)]
  <2>1. f \in [B -> D]
        BY <1>1
  <2>2. \A i, j \in B : f[i] = f[j] => i = j
        BY <1>1
  <2>3. \A d \in D : \E i \in B : f[i] = d
    <3>1. SUFFICES ASSUME NEW d \in D PROVE d - Len(s) \in B /\ f[d - Len(s)] = d
          OBVIOUS
    <3> QED
        BY <1>1
  <2> HIDE DEF f, B, D
  <2>4. f \in Bijection(B, D)
        BY <2>1, <2>2, <2>3 DEF Bijection, Injection, Surjection, IsInjective
  <2> QED
      BY <1>5, <2>4, FS_Bijection DEF ExistsBijection
<1>8. Cardinality(A) \in Nat /\ Cardinality(B) \in Nat
      BY <1>5, FS_CardinalityType
<1>9. Cardinality(C) = Cardinality(A) + Cardinality(B)
  <2> HIDE DEF A, B, C, D
  <2>1. Cardinality(A \cup D) = Cardinality(A) + Cardinality(D) - Cardinality(A \cap D)
        BY <1>5, FS_Union
  <2>2. Cardinality(A \cap D) = 0
        BY <1>6, FS_EmptySet
  <2> QED
      BY <1>6, <1>7, <1>8, <2>1, <2>2
<1> QED
    BY <1>4, <1>8, <1>9

LEMMA OccurrencesOfOne ==
    ASSUME NEW x, NEW y
    PROVE  Occurrences(x, <<y>>) = IF x = y THEN 1 ELSE 0
<1>1. DOMAIN <<y>> = {1} /\ <<y>>[1] = y
      OBVIOUS
<1>2. CASE x = y
  <2>1. {i \in DOMAIN <<y>> : <<y>>[i] = x} = {1}
        BY <1>1, <1>2
  <2> QED
      BY <1>2, <2>1, FS_Singleton DEF Occurrences
<1>3. CASE x # y
  <2>1. {i \in DOMAIN <<y>> : <<y>>[i] = x} = {}
        BY <1>1, <1>3
  <2> QED
      BY <1>3, <2>1, FS_EmptySet DEF Occurrences
<1> QED
    BY <1>2, <1>3

---------------------------------------------------------------------------
(* The way back: what has been said, the lists, and the consumers' passes. *)

BackOK ==
    /\ DOMAIN list = Lists
    /\ list["results"] \in Seq(Results) /\ list["statuses"] \in Seq(Accounts)
    /\ gone \subseteq Messages /\ ended \subseteq Messages /\ mute \subseteq Messages
    /\ said \in [Results -> Nat] /\ unsaid \subseteq Accounts /\ faults \in Nat

PassesOK ==
    /\ pass \in [Consumers -> [at : {"idle", "read", "stored"}, list : Lists,
                               batch : Seq(Results) \cup Seq(Accounts)]]
    /\ \A c \in Consumers : /\ pass[c].list = "results" => pass[c].batch \in Seq(Results)
                            /\ pass[c].list = "statuses" => pass[c].batch \in Seq(Accounts)
    /\ audit \in [Results -> Nat] /\ removed \in Nat
    /\ needsLogin \subseteq Accounts /\ relinked \subseteq Accounts
    /\ torn \subseteq Lists /\ lost \subseteq Results \cup Accounts

\* What a shard may do to the two lists and to what was said.
PushesStatus(as) ==
    /\ list' = [list EXCEPT !["statuses"] = as \o @] /\ as \in Seq(Accounts) /\ as # <<>>
    /\ UNCHANGED said
PushesResult(r) ==
    /\ list' = [list EXCEPT !["results"] = <<r>> \o @] /\ r \in Results
    /\ said' = [said EXCEPT ![r] = @ + 1]

SenderIsAccount == \A s \in Shards : ~At(s, "idle") => Sender(s) \in Accounts

LEMMA SendersAre ==
    ASSUME Busy PROVE SenderIsAccount
BY BaileysSets DEF Busy, SenderIsAccount, Sender

LEMMA ResultIs ==
    ASSUME RunOK, Busy, NEW s \in Shards, ~At(s, "idle") PROVE Result(s) \in Results
BY DEF RunOK, Busy, Result, Results

\* The results and the statuses grow by these pushes alone.
LEMMA Pushes ==
    ASSUME RunOK, Busy, WorkerNext
    PROVE  \/ UNCHANGED <<list, said>>
           \/ \E as \in Seq(Accounts) : PushesStatus(as)
           \/ \E s \in Shards : publishResult(s) /\ PushesResult(Result(s))
<1> DEFINE Goal == \/ UNCHANGED <<list, said>>
                   \/ \E as \in Seq(Accounts) : PushesStatus(as)
                   \/ \E s \in Shards : publishResult(s) /\ PushesResult(Result(s))
<1>0. \A a, b \in Accounts : /\ <<a>> \in Seq(Accounts) /\ <<a>> # <<>>
                             /\ <<a, b>> \in Seq(Accounts) /\ <<a, b>> # <<>>
      OBVIOUS
<1>1. ASSUME NEW m \in Messages, enqueue_baileys_job(m) \/ Promote(m) \/ Stalled(m)
      PROVE  Goal
      BY <1>1 DEF enqueue_baileys_job, Promote, Stalled, history
<1>2. ASSUME NEW s \in Shards, Bridging(s) \/ Lifecycle(s)
      PROVE  Goal
      BY <1>2 DEF Bridging, Pop, Add, AddFails, Lifecycle, Crash, shutdown, BlpopTimesOut, Exit,
                  history
<1>3. ASSUME NEW s \in Shards,
             \/ Take(s) \/ Defer(s) \/ CheckJob(s) \/ OpenSocket(s) \/ CredsGone(s)
             \/ ConnectFails(s) \/ SendMessage(s) \/ SendFails(s) \/ SentThenFails(s)
             \/ ReportFails(s) \/ PublishFails(s) \/ Finish(s)
      PROVE  Goal
      BY <1>3 DEF Take, Defer, CheckJob, OpenSocket, CredsGone, ConnectFails, SendMessage,
                  SendFails, SentThenFails, ReportFails, PublishFails, Finish, history
<1>4. ASSUME NEW s \in Shards, LoginRefused(s) \/ Report(s)
      PROVE  Goal
  <2>1. Sender(s) \in Accounts
        BY <1>4, SendersAre DEF LoginRefused, Report, At, SenderIsAccount
  <2>2. UNCHANGED said
        BY <1>4 DEF LoginRefused, Report, history
  <2>3. \/ list' = [list EXCEPT !["statuses"] = <<Sender(s), Sender(s)>> \o @]
        \/ list' = [list EXCEPT !["statuses"] = <<Sender(s)>> \o @]
        BY <1>4 DEF LoginRefused, Report, PushStatus
  <2> QED
      BY <2>1, <2>2, <2>3, <1>0 DEF PushesStatus
<1>5. ASSUME NEW s \in Shards, publishResult(s)
      PROVE  Goal
  <2>1. Result(s) \in Results
        BY <1>5, ResultIs DEF publishResult, At
  <2> QED
      BY <1>5, <2>1 DEF publishResult, PushResult, PushesResult
<1>6. ASSUME NEW s \in Shards, NEW a \in Accounts, NEW loggedOut \in BOOLEAN,
             SocketCloses(s, a, loggedOut)
      PROVE  Goal
      BY <1>6, <1>0 DEF SocketCloses, PushStatus, PushesStatus
<1>7. ASSUME NEW on \in BOOLEAN, set_whatsapp_send_kill_switch(on)
      PROVE  Goal
      BY <1>7 DEF set_whatsapp_send_kill_switch
<1>8. ASSUME NEW a \in Accounts, Unlink(a)
      PROVE  Goal
      BY <1>8 DEF Unlink
<1> QED
  <2>1. ASSUME NEW s \in Shards, Processing(s)
        PROVE  Goal
        BY <2>1, <1>3, <1>4, <1>5 DEF Processing
  <2> QED
      BY <2>1, <1>1, <1>2, <1>6, <1>7, <1>8 DEF WorkerNext

LEMMA BackStep ==
    ASSUME QueuesOK, ShardsOK, Busy, BackOK, WorkerNext
    PROVE  BackOK'
<1>1. /\ DOMAIN list' = Lists /\ said' \in [Results -> Nat]
      /\ list'["results"] \in Seq(Results) /\ list'["statuses"] \in Seq(Accounts)
  <2>1. CASE UNCHANGED <<list, said>>
        BY <2>1 DEF BackOK
  <2>2. CASE \E as \in Seq(Accounts) : PushesStatus(as)
    <3>1. PICK as \in Seq(Accounts) : PushesStatus(as)
          BY <2>2
    <3>2. as \o list["statuses"] \in Seq(Accounts)
          BY ConcatProperties DEF BackOK
    <3> QED
        BY <3>1, <3>2 DEF BackOK, PushesStatus, Lists
  <2>3. CASE \E s \in Shards : publishResult(s) /\ PushesResult(Result(s))
    <3>1. PICK r : PushesResult(r) /\ r \in Results
          BY <2>3 DEF PushesResult
    <3>2. <<r>> \o list["results"] \in Seq(Results)
      <4>1. <<r>> \in Seq(Results)
            BY <3>1
      <4> QED
          BY <4>1, ConcatProperties DEF BackOK
    <3> QED
        BY <3>1, <3>2 DEF BackOK, PushesResult, Lists
  <2> QED
      BY <2>1, <2>2, <2>3, Pushes DEF ShardsOK
<1>2. /\ gone' \subseteq Messages /\ ended' \subseteq Messages /\ mute' \subseteq Messages
      /\ unsaid' \subseteq Accounts /\ faults' \in Nat
  <2>1. ASSUME NEW m \in Messages, enqueue_baileys_job(m) \/ Promote(m) \/ Stalled(m)
        PROVE  <1>2
        BY <2>1 DEF enqueue_baileys_job, Promote, Stalled, history, BackOK
  <2>2. ASSUME NEW s \in Shards, Bridging(s) \/ Lifecycle(s)
        PROVE  <1>2
    <3>1. raw # <<>> => Head(raw) \in Messages
          BY HeadTailProperties DEF QueuesOK
    <3>2. hand[s] \in Messages \cup {NoMessage}
          BY DEF QueuesOK
    <3> QED
        BY <2>2, <3>1, <3>2 DEF Bridging, Pop, Add, AddFails, Lifecycle, Crash, shutdown,
           BlpopTimesOut, Exit, Restart, Fault, history, BackOK
  <2>3. ASSUME NEW s \in Shards, Processing(s)
        PROVE  <1>2
    <3>1. ~At(s, "idle") => run[s].msg \in Messages /\ Sender(s) \in Accounts
          BY SendersAre DEF SenderIsAccount, Busy
    <3>2. CASE ReportFails(s) \/ PublishFails(s) \/ Finish(s)
          BY <3>1, <3>2 DEF ReportFails, PublishFails, Finish, End, At, Fault, BackOK
    <3>3. CASE \/ Take(s) \/ Defer(s) \/ CheckJob(s) \/ OpenSocket(s) \/ CredsGone(s)
               \/ LoginRefused(s) \/ ConnectFails(s) \/ SendMessage(s) \/ SendFails(s)
               \/ SentThenFails(s) \/ Report(s) \/ publishResult(s)
          BY <3>3 DEF Take, Defer, CheckJob, OpenSocket, CredsGone, LoginRefused, ConnectFails,
                      SendMessage, SendFails, SentThenFails, Report, publishResult, Fault,
                      history, BackOK
    <3> QED
        BY <2>3, <3>2, <3>3 DEF Processing
  <2>4. ASSUME NEW s \in Shards, NEW a \in Accounts, NEW loggedOut \in BOOLEAN,
               SocketCloses(s, a, loggedOut)
        PROVE  <1>2
        BY <2>4 DEF SocketCloses, Fault, BackOK
  <2>5. ASSUME NEW on \in BOOLEAN, set_whatsapp_send_kill_switch(on)
        PROVE  <1>2
        BY <2>5 DEF set_whatsapp_send_kill_switch, Fault, BackOK
  <2>6. ASSUME NEW a \in Accounts, Unlink(a)
        PROVE  <1>2
        BY <2>6 DEF Unlink, Fault, BackOK
  <2> QED
      BY <2>1, <2>2, <2>3, <2>4, <2>5, <2>6 DEF WorkerNext
<1> QED
    BY <1>1, <1>2 DEF BackOK

\* What a list holds.
Elements(l) == IF l = "results" THEN Results ELSE Accounts

LEMMA ListIs ==
    ASSUME BackOK, NEW l \in Lists
    PROVE  list[l] \in Seq(Elements(l))
BY DEF BackOK, Lists, Elements

LEMMA PassIs ==
    ASSUME PassesOK, NEW c \in Consumers
    PROVE  /\ pass[c].at \in {"idle", "read", "stored"} /\ pass[c].list \in Lists
           /\ pass[c].batch \in Seq(Elements(pass[c].list))
BY DEF PassesOK, Lists, Elements

LEMMA MaxBatchIsNat == MaxBatch \in Nat /\ MaxBatch > 0
BY ConsumersAssumption

\* What a list loses is what was cut, and what is left is of the same kind.
LEMMA TrimIs ==
    ASSUME BackOK, PassesOK, NEW c \in Consumers, Trim(c)
    PROVE  LET l   == pass[c].list
               cut == Beginning(list[l], Len(pass[c].batch))
           IN  /\ l \in Lists /\ cut \in Seq(Elements(l)) /\ Len(cut) \in Nat
               /\ list' = [list EXCEPT ![l] = SubSeq(@, Len(cut) + 1, Len(@))]
               /\ list'[l] \in Seq(Elements(l)) /\ list[l] = cut \o list'[l]
               /\ \A k \in Lists \ {l} : list'[k] = list[k]
<1> DEFINE l   == pass[c].list
           cut == Beginning(list[l], Len(pass[c].batch))
<1>1. l \in Lists /\ list[l] \in Seq(Elements(l)) /\ Len(pass[c].batch) \in Nat
      BY PassIs, ListIs, LenProperties
<1>2. list' = [list EXCEPT ![l] = SubSeq(@, Len(cut) + 1, Len(@))]
      BY DEF Trim, CutLength
<1>3. /\ cut \in Seq(Elements(l)) /\ Len(cut) \in Nat
      /\ SubSeq(list[l], Len(cut) + 1, Len(list[l])) \in Seq(Elements(l))
      /\ list[l] = cut \o SubSeq(list[l], Len(cut) + 1, Len(list[l]))
      BY <1>1, HeadOfList
<1>4. DOMAIN list = Lists
      BY DEF BackOK
<1> HIDE DEF l, cut
<1>5. list'[l] = SubSeq(list[l], Len(cut) + 1, Len(list[l]))
      BY <1>1, <1>2, <1>4
<1>6. \A k \in Lists \ {l} : list'[k] = list[k]
      BY <1>1, <1>2, <1>4
<1>7. /\ l \in Lists /\ cut \in Seq(Elements(l)) /\ Len(cut) \in Nat
      /\ list' = [list EXCEPT ![l] = SubSeq(@, Len(cut) + 1, Len(@))]
      /\ list'[l] \in Seq(Elements(l)) /\ list[l] = cut \o list'[l]
      /\ \A k \in Lists \ {l} : list'[k] = list[k]
      BY <1>1, <1>2, <1>3, <1>5, <1>6
<1> QED
    BY <1>7 DEF l, cut

LEMMA NoPassIs ==
    ASSUME PassesOK, NEW c \in Consumers, pass' = [pass EXCEPT ![c] = NoPass]
    PROVE  /\ pass' \in [Consumers -> [at : {"idle", "read", "stored"}, list : Lists,
                                       batch : Seq(Results) \cup Seq(Accounts)]]
           /\ \A d \in Consumers : /\ pass'[d].list = "results" => pass'[d].batch \in Seq(Results)
                                   /\ pass'[d].list = "statuses" => pass'[d].batch \in Seq(Accounts)
<1>1. <<>> \in Seq(Results)
      OBVIOUS
<1>2. NoPass \in [at : {"idle", "read", "stored"}, list : Lists,
                  batch : Seq(Results) \cup Seq(Accounts)]
      BY <1>1 DEF NoPass, Lists
<1> QED
    BY <1>1, <1>2 DEF PassesOK, NoPass

LEMMA PassesStep ==
    ASSUME BackOK, PassesOK, Next
    PROVE  PassesOK'
<1>1. CASE WorkerStep
      BY <1>1 DEF WorkerStep, PassesOK
<1>2. ASSUME NEW c \in Consumers, NEW l \in Lists, Read(c, l)
      PROVE  PassesOK'
  <2>1. Beginning(list[l], MaxBatch) \in Seq(Elements(l))
        BY ListIs, HeadOfList, MaxBatchIsNat
  <2>2. /\ pass' = [pass EXCEPT ![c] = [at |-> "read", list |-> l,
                                        batch |-> Beginning(list[l], MaxBatch)]]
        /\ torn' = torn \/ torn' = torn \cup {l}
        /\ UNCHANGED <<audit, needsLogin, lost, removed, relinked>>
        BY <1>2 DEF Read
  <2>3. /\ pass' \in [Consumers -> [at : {"idle", "read", "stored"}, list : Lists,
                                    batch : Seq(Results) \cup Seq(Accounts)]]
        /\ \A d \in Consumers : /\ pass'[d].list = "results" => pass'[d].batch \in Seq(Results)
                                /\ pass'[d].list = "statuses" => pass'[d].batch \in Seq(Accounts)
        BY <2>1, <2>2 DEF PassesOK, Elements, Lists
  <2> QED
      BY <2>2, <2>3 DEF PassesOK
<1>3. ASSUME NEW c \in Consumers, Commit(c)
      PROVE  PassesOK'
  <2>1. /\ pass' = [pass EXCEPT ![c].at = "stored"]
        /\ UNCHANGED <<torn, lost, removed, relinked>>
        BY <1>3 DEF Commit
  <2>2. /\ pass' \in [Consumers -> [at : {"idle", "read", "stored"}, list : Lists,
                                    batch : Seq(Results) \cup Seq(Accounts)]]
        /\ \A d \in Consumers : pass'[d].list = pass[d].list /\ pass'[d].batch = pass[d].batch
        BY <2>1 DEF PassesOK
  <2>3. audit' \in [Results -> Nat] /\ needsLogin' \subseteq Accounts
    <3>1. CASE pass[c].list = "results"
      <4>1. pass[c].batch \in Seq(Results)
            BY <3>1 DEF PassesOK
      <4>2. \A r \in Results : Occurrences(r, pass[c].batch) \in Nat
            BY <4>1, OccurrencesOfParts
      <4> QED
          BY <1>3, <3>1, <4>2 DEF Commit, Store, PassesOK
    <3>2. CASE pass[c].list = "statuses"
      <4>1. Range(pass[c].batch) \subseteq Accounts
        <5>1. pass[c].batch \in Seq(Accounts)
              BY <3>2 DEF PassesOK
        <5> QED
            BY <5>1 DEF Range
      <4> QED
          BY <1>3, <3>2, <4>1 DEF Commit, Store, PassesOK
    <3> QED
        BY <3>1, <3>2, PassIs DEF Lists
  <2> QED
      BY <2>1, <2>2, <2>3 DEF PassesOK
<1>4. ASSUME NEW c \in Consumers, CommitFails(c)
      PROVE  PassesOK'
      BY <1>4, NoPassIs DEF CommitFails, PassesOK
<1>5. ASSUME NEW c \in Consumers, Trim(c)
      PROVE  PassesOK'
  <2> DEFINE l   == pass[c].list
             cut == Beginning(list[l], Len(pass[c].batch))
  <2>1. cut \in Seq(Elements(l)) /\ Len(cut) \in Nat
        BY <1>5, TrimIs
  <2>2. Range(cut) \subseteq Results \cup Accounts
    <3>1. Range(cut) \subseteq Elements(l)
          BY <2>1 DEF Range
    <3> QED
        BY <3>1 DEF Elements
  <2>3. /\ lost' = lost \cup {x \in Range(cut) :
                                  Occurrences(x, cut) > Occurrences(x, pass[c].batch)}
        /\ removed' = IF l = "results" THEN removed + Len(cut) ELSE removed
        /\ UNCHANGED <<audit, needsLogin, torn, relinked>>
        /\ pass' = [pass EXCEPT ![c] = NoPass]
        BY <1>5 DEF Trim, CutLength
  <2> HIDE DEF cut
  <2>4. lost' \subseteq Results \cup Accounts /\ removed' \in Nat
        BY <2>1, <2>2, <2>3 DEF PassesOK
  <2> QED
      BY <2>3, <2>4, NoPassIs DEF PassesOK
<1>6. ASSUME NEW c \in Consumers, TrimFails(c)
      PROVE  PassesOK'
  <2>1. pass[c].list \in Lists
        BY PassIs
  <2> QED
      BY <1>6, <2>1, NoPassIs DEF TrimFails, PassesOK
<1>7. ASSUME NEW a \in Accounts, Relink(a)
      PROVE  PassesOK'
      BY <1>7 DEF Relink, PassesOK
<1> QED
    BY <1>1, <1>2, <1>3, <1>4, <1>5, <1>6, <1>7 DEF Next

\* What the consumers and the operators leave to the shards.
LEMMA BackOfConsumers ==
    ASSUME BackOK, PassesOK, Next, ~WorkerStep
    PROVE  BackOK' /\ UNCHANGED <<said, mute, unsaid, ended>>
<1>1. ASSUME NEW c \in Consumers, NEW l \in Lists, Read(c, l)
      PROVE  BackOK' /\ UNCHANGED <<said, mute, unsaid, ended>>
      BY <1>1 DEF Read, workerVars, history, BackOK
<1>2. ASSUME NEW c \in Consumers, Commit(c)
      PROVE  BackOK' /\ UNCHANGED <<said, mute, unsaid, ended>>
      BY <1>2 DEF Commit, workerVars, history, BackOK
<1>3. ASSUME NEW c \in Consumers, CommitFails(c) \/ TrimFails(c)
      PROVE  BackOK' /\ UNCHANGED <<said, mute, unsaid, ended>>
      BY <1>3 DEF CommitFails, TrimFails, Fault, BackOK
<1>4. ASSUME NEW c \in Consumers, Trim(c)
      PROVE  BackOK' /\ UNCHANGED <<said, mute, unsaid, ended>>
  <2>1. UNCHANGED <<gone, ended, mute, said, unsaid, faults>>
        BY <1>4 DEF Trim, history
  <2>2. /\ DOMAIN list' = Lists
        /\ list'["results"] \in Seq(Results) /\ list'["statuses"] \in Seq(Accounts)
        BY <1>4, TrimIs DEF BackOK, Lists, Elements
  <2> QED
      BY <2>1, <2>2 DEF BackOK
<1>5. ASSUME NEW a \in Accounts, Relink(a)
      PROVE  BackOK' /\ UNCHANGED <<said, mute, unsaid, ended>>
      BY <1>5 DEF Relink, Link, Fault, BackOK
<1> QED
    BY <1>1, <1>2, <1>3, <1>4, <1>5 DEF Next

---------------------------------------------------------------------------
(* The answers.  What a processor is about to say is true when it says it, *)
(* and stays true: of a message something was said of there is no run that *)
(* may still send it, unless a shard died over it.                         *)

\* The results that would be true, the messages something was said of, and those no run of
\* which may still send them, unless a shard died over it.
TrueResults ==
    {r \in Results : /\ r.out = "delivered" => sent[r.msg] > 0
                     /\ r.out \in {"killed", "session_invalid"} =>
                           sent[r.msg] = 0 \/ stalls[r.msg] > 0}
Told == {m \in Messages : \E out \in Outcomes : said[[msg |-> m, out |-> out]] > 0}
Settled ==
    {m \in Messages :
        \/ m \in ended \/ stalls[m] > 0
        \/ m \in active /\ \A s \in Shards : run[s].msg = m => At(s, "finish")}

\* What a shard is about to say, or has said.
Saying ==
    \A s \in Shards :
        /\ run[s].at \in {"report", "publish"} =>
              [msg |-> run[s].msg, out |-> run[s].out] \in TrueResults
        /\ run[s].at = "finish" => run[s].msg \in Told

AnswersInv ==
    /\ \A r \in Results : said[r] > 0 => r \in TrueResults /\ r.msg \in Settled
    /\ Saying
    /\ \A m \in ended \ mute : stalls[m] > MaxStalls \/ m \in Told

LEMMA AnswersStep ==
    ASSUME QueuesOK, ShardsOK, Busy, OneCopy, SentInv, BackOK, AnswersInv, WorkerNext
    PROVE  AnswersInv'
<1> USE DEF At
<1>a. /\ NoMessage \notin Messages /\ \A r \in Results : r.msg \in Messages /\ r.out \in Outcomes
      /\ \A m \in Messages : stalls[m] \in Nat /\ sent[m] \in Nat
      /\ \A s \in Shards : run[s].at # "idle" => run[s].msg \in Messages
      BY BaileysSets DEF Results, SentInv, Busy
<1>b. ASSUME NEW s \in Shards, run[s].at # "idle"
      PROVE  /\ run[s].msg \in active /\ run[s].msg \notin ended
             /\ \A t \in Shards \ {s} : run[t].msg # run[s].msg
  <2>1. run[s].msg \in active /\ \A t \in Shards \ {s} : run[t].msg # run[s].msg
        BY <1>a, <1>b DEF OneCopy, OneRunner
  <2>2. run[s].msg \notin ended
        BY <1>a, <1>b, <2>1, NotElsewhere, PlacesFields DEF OneCopy, Names
  <2> QED
      BY <2>1, <2>2
\* Nothing is said, sent or ended, and no shard goes on with its job.
<1>1. ASSUME UNCHANGED <<said, sent, stalls, ended, mute, active>>,
             \A t \in Shards : run'[t] = run[t] \/ run'[t] = Idle
      PROVE  AnswersInv'
  <2>1. Idle.at = "idle" /\ Idle.msg = NoMessage
        BY DEF Idle
  <2>2. Settled \subseteq Settled'
        BY <1>1, <1>a, <2>1 DEF Settled
  <2>3. TrueResults \subseteq TrueResults'
        BY <1>1 DEF TrueResults
  <2>4. Told \subseteq Told'
        BY <1>1 DEF Told
  <2>5. \A r \in Results : said'[r] > 0 => r \in TrueResults' /\ r.msg \in Settled'
        BY <1>1, <1>a, <2>2, <2>3 DEF AnswersInv
  <2>6. Saying'
    <3>1. ASSUME NEW t \in Shards, run'[t].at # "idle" PROVE run'[t] = run[t]
          BY <1>1, <2>1, <3>1
    <3> QED
        BY <3>1, <2>3, <2>4 DEF AnswersInv, Saying
  <2>7. \A m \in ended' \ mute' : stalls'[m] > MaxStalls \/ m \in Told'
        BY <1>1, <2>4 DEF AnswersInv
  <2> QED
      BY <2>5, <2>6, <2>7 DEF AnswersInv
\* A shard goes on with its job, which it has not finished, to say what is true.
<1>2. ASSUME UNCHANGED <<said, sent, stalls, ended, mute, active>>, NEW s \in Shards,
             run[s].at \notin {"idle", "finish"}, NEW p, NEW out, p # "finish",
             Answer(s, p, out),
             p \in {"report", "publish"} => [msg |-> run[s].msg, out |-> out] \in TrueResults
      PROVE  AnswersInv'
  <2>1. /\ run'[s].at = p /\ run'[s].msg = run[s].msg /\ run'[s].out = out
        /\ \A t \in Shards \ {s} : run'[t] = run[t]
        BY <1>2 DEF Answer, ShardsOK, RunOK
  <2>2. Settled \subseteq Settled'
        BY <1>2, <2>1 DEF Settled
  <2>3. TrueResults \subseteq TrueResults'
        BY <1>2 DEF TrueResults
  <2>4. Told \subseteq Told'
        BY <1>2 DEF Told
  <2>5. \A r \in Results : said'[r] > 0 => r \in TrueResults' /\ r.msg \in Settled'
        BY <1>2, <1>a, <2>2, <2>3 DEF AnswersInv
  <2>6. Saying'
        BY <1>2, <2>1, <2>3, <2>4 DEF AnswersInv, Saying
  <2>7. \A m \in ended' \ mute' : stalls'[m] > MaxStalls \/ m \in Told'
        BY <1>2, <2>4 DEF AnswersInv
  <2> QED
      BY <2>5, <2>6, <2>7 DEF AnswersInv
<1>3. ASSUME NEW m \in Messages, enqueue_baileys_job(m) \/ Promote(m)
      PROVE  AnswersInv'
      BY <1>1, <1>3 DEF enqueue_baileys_job, Promote, bull, history
<1>4. ASSUME NEW s \in Shards, Bridging(s) \/ Lifecycle(s)
      PROVE  AnswersInv'
  <2>1. UNCHANGED <<said, sent, stalls, ended, mute, active>>
        BY <1>4 DEF Bridging, Pop, Add, AddFails, Lifecycle, Crash, shutdown, BlpopTimesOut, Exit,
                    bull, history
  <2>2. \A t \in Shards : run'[t] = run[t] \/ run'[t] = Idle
        BY <1>4 DEF Bridging, Pop, Add, AddFails, Lifecycle, Crash, shutdown, BlpopTimesOut, Exit,
                    ShardsOK, RunOK
  <2> QED
      BY <1>1, <2>1, <2>2
<1>5. ASSUME NEW m \in Messages, Stalled(m)
      PROVE  AnswersInv'
  <2>1. /\ m \in active /\ active' = active \ {m} /\ \A s \in Shards : run[s].msg # m
        /\ stalls' = [stalls EXCEPT ![m] = @ + 1] /\ UNCHANGED <<run, sent, said, mute>>
        /\ \/ ended' = ended
           \/ stalls[m] >= MaxStalls /\ ended' = ended \cup {m}
        BY <1>5, <1>a, BaileysBounds DEF Stalled, LockLost
  <2>2. /\ stalls'[m] = stalls[m] + 1 /\ stalls'[m] > 0
        /\ \A n \in Messages \ {m} : stalls'[n] = stalls[n]
        BY <2>1, <1>a DEF SentInv
  <2>3. TrueResults \subseteq TrueResults'
        BY <2>1, <2>2 DEF TrueResults
  <2>4. Settled \subseteq Settled'
        BY <2>1, <2>2 DEF Settled
  <2>5. Told \subseteq Told'
        BY <2>1 DEF Told
  <2>6. \A n \in ended' \ mute' : stalls'[n] > MaxStalls \/ n \in Told'
    <3>1. ASSUME NEW n \in ended' \ mute', n # m PROVE stalls'[n] > MaxStalls \/ n \in Told'
          BY <2>1, <2>2, <2>5, <3>1 DEF AnswersInv, BackOK
    <3>2. ASSUME m \in ended' \ mute' PROVE stalls'[m] > MaxStalls \/ m \in Told'
      <4>1. CASE m \in ended
            BY <1>a, <2>1, <2>2, <2>5, <4>1, <3>2, BaileysBounds DEF AnswersInv
      <4>2. CASE m \notin ended
            BY <1>a, <2>1, <2>2, <4>2, <3>2, BaileysBounds
      <4> QED
          BY <4>1, <4>2
    <3> QED
        BY <3>1, <3>2
  <2> QED
      BY <1>a, <2>1, <2>3, <2>4, <2>5, <2>6 DEF AnswersInv, Saying
<1>6. ASSUME NEW s \in Shards, Take(s)
      PROVE  AnswersInv'
  <2>1. queue # <<>> /\ UNCHANGED <<stalls, sent, said, ended, mute>>
        BY <1>6 DEF Take, history
  <2>2. PICK m \in Messages : m = Head(queue) /\ m \in Range(queue)
        BY <2>1, TakenOut, HeadTailProperties DEF QueuesOK, OneCopy
  <2>3. m \notin active \cup ended
        BY <2>2, NotElsewhere, PlacesFields DEF Names, OneCopy
  <2>4. /\ active' = active \cup {m} /\ run'[s].msg = m /\ run'[s].at = "check"
        /\ \A t \in Shards \ {s} : run'[t] = run[t]
        BY <1>6, <2>2 DEF Take, ShardsOK, RunOK
  <2>5. Settled \subseteq Settled'
        BY <2>1, <2>3, <2>4 DEF Settled
  <2>6. /\ TrueResults \subseteq TrueResults'
        /\ Told \subseteq Told'
        BY <2>1 DEF TrueResults, Told
  <2>7. Saying'
        BY <2>4, <2>6 DEF AnswersInv, Saying
  <2> QED
      BY <1>a, <2>1, <2>5, <2>6, <2>7 DEF AnswersInv
<1>7. ASSUME NEW s \in Shards, Defer(s)
      PROVE  AnswersInv'
  <2>1. /\ active' = active \ {run[s].msg} /\ run' = [run EXCEPT ![s] = Idle]
        /\ run[s].at = "check" /\ UNCHANGED <<stalls, sent, said, ended, mute>>
        BY <1>7 DEF Defer, history
  <2>2. /\ run'[s].at = "idle" /\ run'[s].msg = NoMessage
        /\ \A t \in Shards \ {s} : run'[t] = run[t]
        BY <2>1 DEF Idle, ShardsOK, RunOK
  <2>3. Settled \subseteq Settled'
        BY <1>a, <2>1, <2>2 DEF Settled
  <2>4. /\ TrueResults \subseteq TrueResults'
        /\ Told \subseteq Told'
        BY <2>1 DEF TrueResults, Told
  <2>5. Saying'
        BY <2>2, <2>4 DEF AnswersInv, Saying
  <2> QED
      BY <1>a, <2>1, <2>3, <2>4, <2>5 DEF AnswersInv
<1>8. ASSUME NEW s \in Shards, CheckJob(s) \/ OpenSocket(s) \/ CredsGone(s) \/ LoginRefused(s)
                               \/ ConnectFails(s) \/ SendFails(s)
      PROVE  AnswersInv'
  <2>1. run[s].at \in Early /\ UNCHANGED <<said, sent, stalls, ended, mute, active>>
        BY <1>8 DEF CheckJob, OpenSocket, CredsGone, LoginRefused, ConnectFails, SendFails,
                    Early, bull, history
  <2>2. sent[run[s].msg] = 0 \/ stalls[run[s].msg] > 0
        BY <1>a, <2>1 DEF SentInv, Early
  <2>3. \E p \in {"connect", "send", "report", "publish"},
           out \in {"killed", "session_invalid", "failed", run[s].out} :
            Answer(s, p, out) /\ (p \in {"report", "publish"} => out # run[s].out \/ out # "delivered")
    <3>1. CASE CheckJob(s)
      <4>1. Checked(s, Sender(s))
            BY <3>1 DEF CheckJob
      <4> QED
          BY <4>1 DEF Checked, Goto
    <3>2. CASE OpenSocket(s)
          BY <3>2 DEF OpenSocket, Goto
    <3>3. CASE CredsGone(s) \/ LoginRefused(s)
          BY <3>3 DEF CredsGone, LoginRefused
    <3>4. CASE ConnectFails(s) \/ SendFails(s)
          BY <3>4 DEF ConnectFails, SendFails
    <3> QED
        BY <1>8, <3>1, <3>2, <3>3, <3>4
  <2>4. PICK p \in {"connect", "send", "report", "publish"},
             out \in {"killed", "session_invalid", "failed", run[s].out} :
            Answer(s, p, out) /\ (p \in {"report", "publish"} => out # run[s].out \/ out # "delivered")
        BY <2>3
  <2>5. p \in {"report", "publish"} => [msg |-> run[s].msg, out |-> out] \in TrueResults
    <3>1. run[s].msg \in Messages /\ run[s].out \in Outcomes
          BY <1>a, <2>1 DEF Early, ShardsOK, RunOK
    <3> QED
        BY <2>1, <2>2, <2>4, <3>1 DEF TrueResults, Results, Outcomes
  <2> QED
      BY <1>2, <2>1, <2>4, <2>5 DEF Early
<1>9. ASSUME NEW s \in Shards, Report(s)
      PROVE  AnswersInv'
  <2>1. /\ run[s].at = "report" /\ Answer(s, "publish", run[s].out)
        /\ UNCHANGED <<said, sent, stalls, ended, mute, active>>
        BY <1>9 DEF Report, Goto, bull, history
  <2>2. [msg |-> run[s].msg, out |-> run[s].out] \in TrueResults
        BY <2>1 DEF AnswersInv, Saying
  <2> QED
      BY <1>2, <2>1, <2>2
<1>10. ASSUME NEW s \in Shards, SendMessage(s) \/ SentThenFails(s)
       PROVE  AnswersInv'
  <2>1. PICK m \in Messages : m = run[s].msg
        BY <1>10, <1>a DEF SendMessage, SentThenFails
  <2>2. /\ run[s].at = "send" /\ sent' = [sent EXCEPT ![m] = @ + 1]
        /\ UNCHANGED <<stalls, said, ended, mute, active>>
        BY <1>10, <2>1 DEF SendMessage, SentThenFails, Sent, bull
  <2>3. /\ m \in active /\ m \notin ended /\ \A t \in Shards \ {s} : run[t].msg # m
        BY <1>b, <2>1, <2>2
  <2>4. /\ run'[s].at = "publish" /\ run'[s].msg = m /\ run'[s].out \in {"delivered", "failed"}
        /\ \A t \in Shards \ {s} : run'[t] = run[t]
        BY <1>10, <2>1 DEF SendMessage, SentThenFails, Answer, ShardsOK, RunOK
  <2>5. /\ sent'[m] = sent[m] + 1 /\ sent'[m] > 0
        /\ \A n \in Messages \ {m} : sent'[n] = sent[n]
        BY <1>a, <2>2 DEF SentInv
  <2>6. Settled \subseteq Settled' /\ (m \in Settled => stalls[m] > 0)
        BY <2>1, <2>2, <2>3, <2>4 DEF Settled
  <2>7. \A r \in TrueResults : (r.msg = m => stalls[m] > 0) => r \in TrueResults'
        BY <2>2, <2>5 DEF TrueResults
  <2>8. Told \subseteq Told'
        BY <2>2 DEF Told
  <2>9. Saying'
    <3>1. [msg |-> run'[s].msg, out |-> run'[s].out] \in TrueResults'
          BY <2>4, <2>5 DEF TrueResults, Results, Outcomes
    <3>2. ASSUME NEW t \in Shards \ {s}, run[t].at \in {"report", "publish"}
          PROVE  [msg |-> run[t].msg, out |-> run[t].out] \in TrueResults'
      <4>1. [msg |-> run[t].msg, out |-> run[t].out] \in TrueResults
            BY <3>2 DEF AnswersInv, Saying
      <4> QED
          BY <2>3, <2>7, <4>1
    <3> QED
        BY <2>4, <2>8, <3>1, <3>2 DEF AnswersInv, Saying
  <2>10. \A r \in Results : said'[r] > 0 => r \in TrueResults' /\ r.msg \in Settled'
        BY <1>a, <2>2, <2>6, <2>7 DEF AnswersInv
  <2> QED
      BY <2>2, <2>8, <2>9, <2>10 DEF AnswersInv
<1>11. ASSUME NEW s \in Shards, publishResult(s)
       PROVE  AnswersInv'
  <2>1. /\ run[s].at = "publish" /\ said' = [said EXCEPT ![Result(s)] = @ + 1]
        /\ UNCHANGED <<stalls, sent, ended, mute, active>>
        BY <1>11 DEF publishResult, PushResult, bull
  <2>2. Result(s) \in Results /\ Result(s).msg = run[s].msg /\ Result(s).out = run[s].out
        BY <2>1, ResultIs DEF ShardsOK, Result
  <2>3. /\ run'[s].at = "finish" /\ run'[s].msg = run[s].msg
        /\ \A t \in Shards \ {s} : run'[t] = run[t]
        BY <1>11 DEF publishResult, Goto, Answer, ShardsOK, RunOK
  <2>4. /\ said'[Result(s)] = said[Result(s)] + 1
        /\ \A r \in Results \ {Result(s)} : said'[r] = said[r]
        /\ \A r \in Results : said[r] \in Nat
        BY <2>1, <2>2 DEF BackOK
  <2>5. Result(s) \in TrueResults /\ TrueResults \subseteq TrueResults'
        BY <2>1 DEF AnswersInv, Saying, TrueResults, Result
  <2>6. run[s].msg \in Settled'
        BY <1>a, <1>b, <2>1, <2>3 DEF Settled
  <2>7. Settled \subseteq Settled'
        BY <2>1, <2>3 DEF Settled
  <2>8. Told \subseteq Told'
    <3>1. SUFFICES ASSUME NEW m \in Messages, NEW o \in Outcomes, said[[msg |-> m, out |-> o]] > 0
                   PROVE  said'[[msg |-> m, out |-> o]] > 0
          BY DEF Told
    <3>2. [msg |-> m, out |-> o] \in Results
          BY DEF Results
    <3> QED
        BY <2>2, <2>4, <3>1, <3>2
  <2>9. run[s].msg \in Told'
    <3>1. [msg |-> run[s].msg, out |-> run[s].out] = Result(s)
          BY DEF Result
    <3>2. run[s].out \in Outcomes /\ said'[Result(s)] > 0
          BY <1>a, <2>2, <2>4
    <3> QED
        BY <1>a, <2>1, <3>1, <3>2 DEF Told
  <2>10. \A r \in Results : said'[r] > 0 => r \in TrueResults' /\ r.msg \in Settled'
        BY <1>a, <2>2, <2>4, <2>5, <2>6, <2>7 DEF AnswersInv
  <2>11. Saying'
        BY <1>a, <2>3, <2>5, <2>8, <2>9 DEF AnswersInv, Saying
  <2>12. \A m \in ended' \ mute' : stalls'[m] > MaxStalls \/ m \in Told'
        BY <2>1, <2>8 DEF AnswersInv, BackOK
  <2> QED
      BY <2>10, <2>11, <2>12 DEF AnswersInv
<1>12. ASSUME NEW s \in Shards, PublishFails(s), run[s].out = "delivered"
       PROVE  AnswersInv'
  <2>1. /\ run[s].at = "publish" /\ Answer(s, "publish", "failed")
        /\ UNCHANGED <<said, sent, stalls, ended, mute, active>>
        BY <1>12 DEF PublishFails
  <2>2. [msg |-> run[s].msg, out |-> "failed"] \in TrueResults
        BY <1>a, <2>1 DEF TrueResults, Results, Outcomes
  <2> QED
      BY <1>2, <2>1, <2>2
<1>13. ASSUME NEW s \in Shards, ReportFails(s) \/ Finish(s)
                                \/ (PublishFails(s) /\ run[s].out # "delivered")
       PROVE  AnswersInv'
  <2>1. PICK m \in Messages : m = run[s].msg
        BY <1>13, <1>a DEF ReportFails, Finish, PublishFails
  <2>2. /\ run[s].at # "idle" /\ active' = active \ {m} /\ ended' = ended \cup {m}
        /\ run' = [run EXCEPT ![s] = Idle]
        /\ UNCHANGED <<stalls, sent, said>>
        BY <1>13, <2>1 DEF ReportFails, Finish, PublishFails, End
  <2>3. mute \subseteq mute' /\ (m \in mute' \/ run[s].at = "finish")
        BY <1>13, <2>1 DEF ReportFails, Finish, PublishFails
  <2>4. /\ run'[s].at = "idle" /\ run'[s].msg = NoMessage
        /\ \A t \in Shards \ {s} : run'[t] = run[t]
        BY <2>2 DEF Idle, ShardsOK, RunOK
  <2>5. Settled \subseteq Settled'
        BY <1>a, <2>2, <2>4 DEF Settled
  <2>6. /\ TrueResults \subseteq TrueResults'
        /\ Told \subseteq Told'
        BY <2>2 DEF TrueResults, Told
  <2>7. Saying'
        BY <2>4, <2>6 DEF AnswersInv, Saying
  <2>8. \A n \in ended' \ mute' : stalls'[n] > MaxStalls \/ n \in Told'
        BY <2>1, <2>2, <2>3, <2>6 DEF AnswersInv, Saying
  <2> QED
      BY <1>a, <2>2, <2>5, <2>6, <2>7, <2>8 DEF AnswersInv
<1>14. ASSUME NEW s \in Shards, NEW a \in Accounts, NEW loggedOut \in BOOLEAN,
              SocketCloses(s, a, loggedOut)
       PROVE  AnswersInv'
       BY <1>1, <1>14 DEF SocketCloses, bull
<1>15. ASSUME NEW on \in BOOLEAN, set_whatsapp_send_kill_switch(on)
       PROVE  AnswersInv'
       BY <1>1, <1>15 DEF set_whatsapp_send_kill_switch, bull
<1>16. ASSUME NEW a \in Accounts, Unlink(a)
       PROVE  AnswersInv'
       BY <1>1, <1>16 DEF Unlink, bull
<1> QED
  <2>1. ASSUME NEW s \in Shards, Processing(s)
        PROVE  AnswersInv'
        BY <2>1, <1>6, <1>7, <1>8, <1>9, <1>10, <1>11, <1>12, <1>13 DEF Processing
  <2> QED
      BY <2>1, <1>3, <1>4, <1>5, <1>14, <1>15, <1>16 DEF WorkerNext

---------------------------------------------------------------------------
(* The consumers.  A list that was not torn has one pass at most, and what *)
(* that pass has read is still the head of the list.                       *)

PassInv ==
    \A l \in Lists \ torn : \A c \in Open(l) :
        /\ pass[c].batch = Beginning(list[l], MaxBatch)
        /\ \A d \in Open(l) : d = c
        /\ pass[c].at = "stored" /\ l = "statuses" =>
              Range(pass[c].batch) \subseteq needsLogin \cup relinked

LEMMA PassStep ==
    ASSUME BackOK, PassesOK, PassInv, Next
    PROVE  PassInv'
<1> USE DEF Open
<1>1. CASE WorkerStep
  <2>1. /\ UNCHANGED <<pass, needsLogin, relinked>>
        /\ torn' = torn \cup {l \in Lists : list'[l] # list[l] /\ Open(l) # {}}
        BY <1>1 DEF WorkerStep
  <2>2. \A l \in Lists \ torn' : l \notin torn /\ (Open(l) # {} => list'[l] = list[l])
        BY <2>1
  <2> QED
      BY <2>1, <2>2 DEF PassInv
<1>2. ASSUME NEW c \in Consumers, NEW k \in Lists, Read(c, k)
      PROVE  PassInv'
  <2>1. /\ pass[c].at = "idle"
        /\ pass' = [pass EXCEPT ![c] = [at |-> "read", list |-> k,
                                        batch |-> Beginning(list[k], MaxBatch)]]
        /\ torn' = IF Open(k) = {} THEN torn ELSE torn \cup {k}
        /\ UNCHANGED <<list, needsLogin, relinked>>
        BY <1>2 DEF Read, NoPass, workerVars
  <2>2. /\ pass'[c].at = "read" /\ pass'[c].list = k
        /\ pass'[c].batch = Beginning(list[k], MaxBatch)
        /\ \A d \in Consumers \ {c} : pass'[d] = pass[d]
        BY <2>1 DEF PassesOK
  <2>3. SUFFICES ASSUME NEW l \in Lists \ torn', NEW d \in Open(l)'
                 PROVE  /\ pass'[d].batch = Beginning(list'[l], MaxBatch)
                        /\ \A e \in Open(l)' : e = d
                        /\ pass'[d].at = "stored" /\ l = "statuses" =>
                              Range(pass'[d].batch) \subseteq needsLogin' \cup relinked'
        BY DEF PassInv
  <2>4. CASE l = k
    <3>1. Open(l)' = {c}
          BY <2>1, <2>2, <2>3, <2>4
    <3> QED
        BY <2>1, <2>2, <2>3, <2>4, <3>1
  <2>5. CASE l # k
    <3>1. l \notin torn /\ Open(l)' = Open(l) /\ d # c
          BY <2>1, <2>2, <2>3, <2>5
    <3> QED
        BY <2>1, <2>2, <2>3, <3>1 DEF PassInv
  <2> QED
      BY <2>4, <2>5
<1>3. ASSUME NEW c \in Consumers, Commit(c)
      PROVE  PassInv'
  <2>1. /\ pass[c].at = "read" /\ pass' = [pass EXCEPT ![c].at = "stored"]
        /\ UNCHANGED <<torn, list, relinked>>
        BY <1>3 DEF Commit, workerVars
  <2>2. needsLogin \subseteq needsLogin'
        BY <1>3 DEF Commit, Store
  <2>3. pass[c].list = "statuses" => Range(pass[c].batch) \subseteq needsLogin'
        BY <1>3 DEF Commit, Store
  <2>4. /\ pass'[c].at = "stored" /\ \A d \in Consumers \ {c} : pass'[d] = pass[d]
        /\ \A d \in Consumers : pass'[d].list = pass[d].list /\ pass'[d].batch = pass[d].batch
        BY <2>1 DEF PassesOK
  <2>5. \A l \in Lists : Open(l)' = Open(l)
        BY <2>1, <2>4
  <2> QED
      BY <2>1, <2>2, <2>3, <2>4, <2>5 DEF PassInv
<1>4. ASSUME NEW c \in Consumers, CommitFails(c) \/ TrimFails(c)
      PROVE  PassInv'
  <2>1. /\ pass' = [pass EXCEPT ![c] = NoPass] /\ torn \subseteq torn'
        /\ UNCHANGED <<list, needsLogin, relinked>>
        BY <1>4 DEF CommitFails, TrimFails
  <2>2. pass'[c].at = "idle" /\ \A d \in Consumers \ {c} : pass'[d] = pass[d]
        BY <2>1 DEF PassesOK, NoPass
  <2>3. \A l \in Lists : Open(l)' = Open(l) \ {c}
        BY <2>2
  <2> QED
      BY <2>1, <2>2, <2>3 DEF PassInv
<1>5. ASSUME NEW c \in Consumers, Trim(c)
      PROVE  PassInv'
  <2>1. /\ pass[c].at = "stored" /\ pass' = [pass EXCEPT ![c] = NoPass]
        /\ UNCHANGED <<torn, needsLogin, relinked>>
        BY <1>5 DEF Trim
  <2>2. \A l \in Lists \ {pass[c].list} : list'[l] = list[l]
        BY <1>5, TrimIs
  <2>3. pass'[c].at = "idle" /\ \A d \in Consumers \ {c} : pass'[d] = pass[d]
        BY <2>1 DEF PassesOK, NoPass
  <2>4. \A l \in Lists : Open(l)' = Open(l) \ {c}
        BY <2>3
  <2>5. ASSUME NEW l \in Lists \ torn, l = pass[c].list
        PROVE  Open(l)' = {}
    <3>1. c \in Open(l)
          BY <2>1, <2>5
    <3>2. \A d \in Open(l) : d = c
          BY <3>1 DEF PassInv
    <3> QED
        BY <2>4, <3>2
  <2> QED
      BY <2>1, <2>2, <2>3, <2>4, <2>5 DEF PassInv
<1>6. ASSUME NEW a \in Accounts, Relink(a)
      PROVE  PassInv'
  <2>1. /\ UNCHANGED <<pass, list, torn>> /\ relinked' = relinked \cup {a}
        /\ needsLogin' = needsLogin \ {a}
        BY <1>6 DEF Relink, Link
  <2> QED
      BY <2>1 DEF PassInv
<1> QED
    BY <1>1, <1>2, <1>3, <1>4, <1>5, <1>6 DEF Next

---------------------------------------------------------------------------
(* The log.  As long as the results list was not torn, every result is in  *)
(* the list or in the log as often as it was pushed; between a pass's      *)
(* commit and its cut what it has read is in both.                         *)

Storing(c) == pass[c].at = "stored" /\ pass[c].list = "results"
LogInv ==
    "results" \notin torn =>
        \A r \in Results :
            /\ (\A c \in Consumers : ~Storing(c)) =>
                  said[r] = Occurrences(r, list["results"]) + audit[r]
            /\ \A c \in Consumers : Storing(c) =>
                  said[r] + Occurrences(r, pass[c].batch)
                      = Occurrences(r, list["results"]) + audit[r]

LEMMA LogStep ==
    ASSUME ShardsOK, Busy, BackOK, PassesOK, PassInv, LogInv, Next
    PROVE  LogInv'
<1> SUFFICES ASSUME "results" \notin torn', NEW r \in Results
             PROVE  /\ (\A c \in Consumers : ~Storing(c)') =>
                          said'[r] = Occurrences(r, list'["results"]) + audit'[r]
                    /\ \A c \in Consumers : Storing(c)' =>
                          said'[r] + Occurrences(r, pass'[c].batch)
                              = Occurrences(r, list'["results"]) + audit'[r]
    BY DEF LogInv, Storing
<1> DEFINE Goal == /\ (\A c \in Consumers : ~Storing(c)') =>
                          said'[r] = Occurrences(r, list'["results"]) + audit'[r]
                   /\ \A c \in Consumers : Storing(c)' =>
                          said'[r] + Occurrences(r, pass'[c].batch)
                              = Occurrences(r, list'["results"]) + audit'[r]
<1>a. "results" \notin torn
      BY DEF Next, WorkerStep, Read, Commit, CommitFails, Trim, TrimFails, Relink
<1>b. "results" \in Lists /\ list["results"] \in Seq(Results)
      BY DEF Lists, BackOK
<1>c. /\ said[r] \in Nat /\ audit[r] \in Nat
      /\ \A seq \in Seq(Results) : Occurrences(r, seq) \in Nat
      BY OccurrencesOfParts DEF BackOK, PassesOK
\* Two passes of the results never overlap.
<1>d. \A c, d \in Consumers :
          (/\ pass[c].at # "idle" /\ pass[c].list = "results"
           /\ pass[d].at # "idle" /\ pass[d].list = "results") => c = d
      BY <1>a, <1>b DEF PassInv, Open
\* Nothing is pushed, and no pass is begun, stored or ended.
<1>1. ASSUME UNCHANGED <<said, audit>>, list'["results"] = list["results"],
             \A c \in Consumers : /\ Storing(c)' <=> Storing(c)
                                  /\ Storing(c) => pass'[c].batch = pass[c].batch
      PROVE  Goal
      BY <1>1, <1>a DEF LogInv, Storing
<1>2. CASE WorkerStep
  <2>1. /\ WorkerNext /\ UNCHANGED <<pass, audit>>
        /\ torn' = torn \cup {l \in Lists : list'[l] # list[l] /\ Open(l) # {}}
        BY <1>2 DEF WorkerStep
  <2>2. CASE UNCHANGED <<list, said>>
        BY <1>1, <2>1, <2>2 DEF Storing
  <2>3. CASE \E as \in Seq(Accounts) : PushesStatus(as)
        BY <1>1, <1>b, <2>1, <2>3 DEF PushesStatus, Storing, BackOK, Lists
  <2>4. CASE \E s \in Shards : publishResult(s) /\ PushesResult(Result(s))
    <3>1. PICK x \in Results : PushesResult(x)
          BY <2>4 DEF PushesResult
    <3>2. list'["results"] = <<x>> \o list["results"] /\ said' = [said EXCEPT ![x] = @ + 1]
          BY <1>b, <3>1 DEF PushesResult, BackOK
    <3>3. <<x>> \in Seq(Results) /\ Len(<<x>>) = 1
          BY <3>1
    <3>4. Len(list'["results"]) = 1 + Len(list["results"]) /\ Len(list["results"]) \in Nat
          BY <1>b, <3>2, <3>3, ConcatProperties, LenProperties
    <3>5. list'["results"] # list["results"]
          BY <3>4
    <3>6. \A c \in Consumers : ~Storing(c) /\ ~Storing(c)'
          BY <1>b, <2>1, <3>5 DEF Open, Storing
    <3>7. Occurrences(r, list'["results"]) =
              (IF r = x THEN 1 ELSE 0) + Occurrences(r, list["results"])
      <4>1. Occurrences(r, <<x>> \o list["results"]) =
                Occurrences(r, <<x>>) + Occurrences(r, list["results"])
            BY <1>b, <3>3, OccurrencesOfParts
      <4>2. Occurrences(r, <<x>>) = IF r = x THEN 1 ELSE 0
            BY OccurrencesOfOne
      <4> QED
          BY <3>2, <4>1, <4>2
    <3>8. said'[r] = (IF r = x THEN 1 ELSE 0) + said[r]
          BY <1>c, <3>1, <3>2 DEF BackOK
    <3>9. said[r] = Occurrences(r, list["results"]) + audit[r]
          BY <1>a, <3>6 DEF LogInv
    <3> QED
        BY <1>b, <1>c, <2>1, <3>6, <3>7, <3>8, <3>9
  <2> QED
      BY <2>1, <2>2, <2>3, <2>4, Pushes DEF ShardsOK
<1>3. ASSUME NEW c \in Consumers, NEW l \in Lists, Read(c, l)
      PROVE  Goal
  <2>1. /\ pass[c].at = "idle"
        /\ pass' = [pass EXCEPT ![c] = [at |-> "read", list |-> l,
                                        batch |-> Beginning(list[l], MaxBatch)]]
        /\ UNCHANGED <<list, said, audit>>
        BY <1>3 DEF Read, NoPass, workerVars, history
  <2>2. pass'[c].at = "read" /\ \A d \in Consumers \ {c} : pass'[d] = pass[d]
        BY <2>1 DEF PassesOK
  <2> QED
      BY <1>1, <2>1, <2>2 DEF Storing
<1>4. ASSUME NEW c \in Consumers, Commit(c)
      PROVE  Goal
  <2>1. /\ pass[c].at = "read" /\ pass' = [pass EXCEPT ![c].at = "stored"]
        /\ UNCHANGED <<list, said>>
        BY <1>4 DEF Commit, workerVars, history
  <2>2. /\ pass'[c].at = "stored" /\ pass'[c].list = pass[c].list
        /\ pass'[c].batch = pass[c].batch
        /\ \A d \in Consumers \ {c} : pass'[d] = pass[d]
        BY <2>1 DEF PassesOK
  <2>3. CASE pass[c].list = "results"
    <3>1. audit'[r] = audit[r] + Occurrences(r, pass[c].batch)
          BY <1>4, <2>3 DEF Commit, Store
    <3>2. pass[c].batch \in Seq(Results)
          BY <2>3 DEF PassesOK
    <3>3. \A d \in Consumers : ~Storing(d) /\ (Storing(d)' <=> d = c)
          BY <1>d, <2>1, <2>2, <2>3 DEF Storing
    <3>4. said[r] = Occurrences(r, list["results"]) + audit[r]
          BY <1>a, <3>3 DEF LogInv
    <3> DEFINE read == Occurrences(r, pass[c].batch)
               rest == Occurrences(r, list["results"])
    <3>5. read \in Nat /\ rest \in Nat /\ said[r] \in Nat /\ audit[r] \in Nat
          BY <1>b, <1>c, <3>2
    <3>6. audit'[r] = audit[r] + read /\ said[r] = rest + audit[r]
          BY <3>1, <3>4
    <3>7. said[r] + read = rest + audit'[r]
      <4> HIDE DEF read, rest
      <4> QED
          BY <3>5, <3>6
    <3> QED
        BY <2>1, <2>2, <3>3, <3>7
  <2>4. CASE pass[c].list # "results"
        BY <1>1, <1>4, <2>1, <2>2, <2>4 DEF Commit, Store, Storing
  <2> QED
      BY <2>3, <2>4
<1>5. ASSUME NEW c \in Consumers, CommitFails(c)
      PROVE  Goal
  <2>1. /\ pass[c].at = "read" /\ pass' = [pass EXCEPT ![c] = NoPass]
        /\ UNCHANGED <<list, said, audit>>
        BY <1>5 DEF CommitFails
  <2>2. pass'[c].at = "idle" /\ \A d \in Consumers \ {c} : pass'[d] = pass[d]
        BY <2>1 DEF PassesOK, NoPass
  <2> QED
      BY <1>1, <2>1, <2>2 DEF Storing
<1>6. ASSUME NEW c \in Consumers, Trim(c)
      PROVE  Goal
  <2>1. /\ pass[c].at = "stored" /\ pass' = [pass EXCEPT ![c] = NoPass]
        /\ UNCHANGED <<said, audit>>
        BY <1>6 DEF Trim, history
  <2>2. pass'[c].at = "idle" /\ \A d \in Consumers \ {c} : pass'[d] = pass[d]
        BY <2>1 DEF PassesOK, NoPass
  <2>3. CASE pass[c].list = "results"
    <3>1. pass[c].batch = Beginning(list["results"], MaxBatch)
          BY <1>a, <1>b, <2>1, <2>3 DEF PassInv, Open
    <3>2. Beginning(list["results"], Len(pass[c].batch)) = pass[c].batch
          BY <1>b, <3>1, HeadOfList, MaxBatchIsNat
    <3>3. /\ list["results"] = pass[c].batch \o list'["results"]
          /\ pass[c].batch \in Seq(Results) /\ list'["results"] \in Seq(Results)
          BY <1>6, <2>3, <3>2, TrimIs DEF Elements
    <3>4. Occurrences(r, list["results"]) =
              Occurrences(r, pass[c].batch) + Occurrences(r, list'["results"])
          BY <3>3, OccurrencesOfParts
    <3>5. \A d \in Consumers : ~Storing(d)'
          BY <1>d, <2>1, <2>2, <2>3 DEF Storing
    <3>6. said[r] + Occurrences(r, pass[c].batch)
              = Occurrences(r, list["results"]) + audit[r]
          BY <1>a, <2>1, <2>3 DEF LogInv, Storing
    <3>7. /\ Occurrences(r, pass[c].batch) \in Nat /\ Occurrences(r, list'["results"]) \in Nat
          /\ said[r] \in Nat /\ audit[r] \in Nat
          BY <1>c, <3>3
    <3>8. said[r] = Occurrences(r, list'["results"]) + audit[r]
          BY <3>4, <3>6, <3>7
    <3> QED
        BY <2>1, <3>5, <3>8
  <2>4. CASE pass[c].list # "results"
    <3>1. list'["results"] = list["results"]
          BY <1>6, <1>b, <2>4, TrimIs
    <3> QED
        BY <1>1, <2>1, <2>2, <2>4, <3>1 DEF Storing
  <2> QED
      BY <2>3, <2>4
<1>7. ASSUME NEW c \in Consumers, TrimFails(c)
      PROVE  Goal
  <2>1. /\ pass[c].at = "stored" /\ pass' = [pass EXCEPT ![c] = NoPass]
        /\ torn' = torn \cup {pass[c].list} /\ UNCHANGED <<list, said, audit>>
        BY <1>7 DEF TrimFails
  <2>2. pass'[c].at = "idle" /\ \A d \in Consumers \ {c} : pass'[d] = pass[d]
        BY <2>1 DEF PassesOK, NoPass
  <2>3. pass[c].list # "results"
        BY <2>1
  <2> QED
      BY <1>1, <2>1, <2>2, <2>3 DEF Storing
<1>8. ASSUME NEW a \in Accounts, Relink(a)
      PROVE  Goal
      BY <1>1, <1>8 DEF Relink, Link, Storing
<1> QED
    BY <1>2, <1>3, <1>4, <1>5, <1>6, <1>7, <1>8 DEF Next

---------------------------------------------------------------------------
(* The log.  It has a row for every result that was cut and for every one  *)
(* that is about to be: a pass counts what it has stored before it cuts.   *)

UncutOf(c) == IF Storing(c) THEN {c} \X (1..Len(pass[c].batch)) ELSE {}
Uncut      == UNION {UncutOf(c) : c \in Consumers}

CutInv == /\ IsFiniteSet(AuditRows) /\ IsFiniteSet(Uncut)
          /\ removed + Cardinality(Uncut) <= Rows

LEMMA SizeOfBoth ==
    ASSUME NEW A, NEW B, IsFiniteSet(A), IsFiniteSet(B), A \cap B = {}
    PROVE  IsFiniteSet(A \cup B) /\ Cardinality(A \cup B) = Cardinality(A) + Cardinality(B)
<1>1. /\ IsFiniteSet(A \cup B)
      /\ Cardinality(A \cup B) = Cardinality(A) + Cardinality(B) - Cardinality(A \cap B)
      BY FS_Union
<1>2. Cardinality(A \cap B) = 0
      BY FS_EmptySet
<1>3. Cardinality(A) \in Nat /\ Cardinality(B) \in Nat
      BY FS_CardinalityType
<1> QED
    BY <1>1, <1>2, <1>3

LEMMA SizeOfRest ==
    ASSUME NEW A, NEW B, IsFiniteSet(A), B \subseteq A
    PROVE  IsFiniteSet(A \ B) /\ Cardinality(A \ B) = Cardinality(A) - Cardinality(B)
<1>1. A \cap B = B
      OBVIOUS
<1> QED
    BY <1>1, FS_Difference

LEMMA SizeOfPairs ==
    ASSUME NEW x, NEW n \in Nat
    PROVE  IsFiniteSet({x} \X (1..n)) /\ Cardinality({x} \X (1..n)) = n
<1>1. IsFiniteSet({x}) /\ Cardinality({x}) = 1
      BY FS_Singleton
<1>2. IsFiniteSet(1..n) /\ Cardinality(1..n) = n
      BY FS_Interval
<1>3. /\ IsFiniteSet({x} \X (1..n))
      /\ Cardinality({x} \X (1..n)) = Cardinality({x}) * Cardinality(1..n)
      BY <1>1, <1>2, FS_Product
<1> QED
    BY <1>1, <1>2, <1>3

\* As many pairs of a value and a number as a list has entries: one for each time the value
\* occurs in it, numbered from where base ends.
LEMMA OneForEachEntry ==
    ASSUME NEW S, NEW seq \in Seq(S), NEW base \in [S -> Nat]
    PROVE  LET new == UNION {{x} \X (base[x] + 1..base[x] + Occurrences(x, seq)) : x \in S}
           IN  IsFiniteSet(new) /\ Cardinality(new) = Len(seq)
<1> DEFINE Where(x)   == {i \in 1..Len(seq) : seq[i] = x}
           N(x)    == Cardinality(Where(x))
           new     == UNION {{x} \X (base[x] + 1..base[x] + N(x)) : x \in S}
           count   == [x \in S |-> CHOOSE f : f \in Bijection(1..N(x), Where(x))]
           entries == [e \in new |-> count[e[1]][e[2] - base[e[1]]]]
<1>1. Len(seq) \in Nat /\ DOMAIN seq = 1..Len(seq) /\ \A i \in 1..Len(seq) : seq[i] \in S
      BY LenProperties, ElementOfSeq
<1>2. IsFiniteSet(1..Len(seq)) /\ Cardinality(1..Len(seq)) = Len(seq)
      BY <1>1, FS_Interval
<1>3. ASSUME NEW x \in S
      PROVE  N(x) \in Nat /\ count[x] \in Bijection(1..N(x), Where(x)) /\ Occurrences(x, seq) = N(x)
  <2>1. IsFiniteSet(Where(x))
        BY <1>2, FS_Subset
  <2>2. N(x) \in Nat /\ ExistsBijection(1..N(x), Where(x))
        BY <2>1, FS_CardinalityType
  <2>3. Occurrences(x, seq) = N(x)
        BY <1>1 DEF Occurrences
  <2>4. \E f : f \in Bijection(1..N(x), Where(x))
        BY <2>2 DEF ExistsBijection
  <2> HIDE DEF N, Where
  <2> QED
      BY <2>2, <2>3, <2>4
<1> HIDE DEF count
<1>4. ASSUME NEW x \in S
      PROVE  /\ \A n \in 1..N(x) : count[x][n] \in 1..Len(seq) /\ seq[count[x][n]] = x
             /\ \A n, k \in 1..N(x) : count[x][n] = count[x][k] => n = k
             /\ \A i \in 1..Len(seq) : seq[i] = x => \E n \in 1..N(x) : count[x][n] = i
  <2>1. count[x] \in Bijection(1..N(x), Where(x))
        BY <1>3
  <2>2. count[x] \in [1..N(x) -> Where(x)]
        BY <2>1 DEF Bijection, Injection, Surjection
  <2>3. \A n, k \in 1..N(x) : count[x][n] = count[x][k] => n = k
        BY <2>1, <2>2 DEF Bijection, Injection, IsInjective
  <2>4. \A i \in Where(x) : \E n \in 1..N(x) : count[x][n] = i
        BY <2>1 DEF Bijection, Surjection
  <2> QED
      BY <2>2, <2>3, <2>4
<1> HIDE DEF N, Where
<1>5. \A e \in new : /\ e[1] \in S /\ e[2] - base[e[1]] \in 1..N(e[1])
                     /\ e = <<e[1], base[e[1]] + (e[2] - base[e[1]])>>
  <2>1. SUFFICES ASSUME NEW x \in S, NEW e \in {x} \X (base[x] + 1..base[x] + N(x))
                 PROVE  /\ e[1] = x /\ e[2] - base[x] \in 1..N(x)
                        /\ e = <<x, base[x] + (e[2] - base[x])>>
        OBVIOUS
  <2>2. base[x] \in Nat /\ N(x) \in Nat
        BY <1>3
  <2>3. e[1] = x /\ e[2] \in base[x] + 1..base[x] + N(x) /\ e = <<x, e[2]>>
        BY <2>1
  <2>4. e[2] - base[x] \in 1..N(x) /\ e[2] = base[x] + (e[2] - base[x])
        BY <2>2, <2>3
  <2> QED
      BY <2>3, <2>4
<1>6. \A x \in S : \A n \in 1..N(x) : <<x, base[x] + n>> \in new
  <2>1. SUFFICES ASSUME NEW x \in S, NEW n \in 1..N(x)
                 PROVE  base[x] + n \in base[x] + 1..base[x] + N(x)
        OBVIOUS
  <2> QED
      BY <1>3
<1> HIDE DEF new
<1>a. DOMAIN entries = new /\ \A e \in new : entries[e] = count[e[1]][e[2] - base[e[1]]]
      OBVIOUS
<1>b. entries = [e \in new |-> entries[e]]
      OBVIOUS
<1> HIDE DEF entries
<1>c. ASSUME NEW e \in new
      PROVE  entries[e] \in 1..Len(seq) /\ seq[entries[e]] = e[1]
  <2>1. e[1] \in S /\ e[2] - base[e[1]] \in 1..N(e[1])
        BY <1>5
  <2>2. PICK x : x = e[1]
        OBVIOUS
  <2>3. PICK k : k = e[2] - base[x]
        OBVIOUS
  <2>4. x \in S /\ k \in 1..N(x) /\ entries[e] = count[x][k]
        BY <1>a, <2>1, <2>2, <2>3
  <2>5. count[x][k] \in 1..Len(seq) /\ seq[count[x][k]] = x
        BY <1>4, <2>4
  <2> QED
      BY <2>2, <2>4, <2>5
<1>7. entries \in [new -> 1..Len(seq)]
      BY <1>b, <1>c
<1>8. ASSUME NEW d \in new, NEW e \in new, entries[d] = entries[e]
      PROVE  d = e
  <2>1. d[1] = e[1]
        BY <1>8, <1>c
  <2>2. d[1] \in S /\ d[2] - base[d[1]] \in 1..N(d[1]) /\ e[2] - base[d[1]] \in 1..N(d[1])
        BY <1>5, <2>1
  <2>3. count[d[1]][d[2] - base[d[1]]] = count[d[1]][e[2] - base[d[1]]]
        BY <1>8, <1>a, <2>1
  <2>4. d[2] - base[d[1]] = e[2] - base[d[1]]
        BY <1>4, <2>2, <2>3
  <2> QED
      BY <1>5, <2>1, <2>4
<1>9. ASSUME NEW i \in 1..Len(seq)
      PROVE  \E e \in new : entries[e] = i
  <2>1. PICK n \in 1..N(seq[i]) : count[seq[i]][n] = i
        BY <1>1, <1>4
  <2> DEFINE e == <<seq[i], base[seq[i]] + n>>
  <2>2. e \in new /\ e[1] = seq[i]
        BY <1>1, <1>6
  <2>3. base[seq[i]] \in Nat /\ n \in Int
        BY <1>1, <1>3
  <2>4. e[2] - base[e[1]] = n
        BY <2>3
  <2> HIDE DEF e
  <2> QED
      BY <1>a, <2>1, <2>2, <2>4
<1>10. entries \in Bijection(new, 1..Len(seq))
      BY <1>7, <1>8, <1>9 DEF Bijection, Injection, Surjection, IsInjective
<1>11. IsFiniteSet(new) /\ Cardinality(new) <= Len(seq)
      BY <1>2, <1>10, FS_Injection DEF Bijection
<1>12. Cardinality(new) = Len(seq)
      BY <1>2, <1>10, <1>11, FS_Bijection DEF ExistsBijection
<1>13. new = UNION {{x} \X (base[x] + 1..base[x] + Occurrences(x, seq)) : x \in S}
      BY <1>3 DEF new
<1> QED
    BY <1>11, <1>12, <1>13

\* Pairs of the union, and only those.
LEMMA RowsAre ==
    \A e : e \in AuditRows <=>
              e = <<e[1], e[2]>> /\ e[1] \in Results /\ e[2] \in 1..audit[e[1]]
BY DEF AuditRows

\* A commit adds a row for each entry it has read.
LEMMA RowsAdded ==
    ASSUME audit \in [Results -> Nat], NEW seq \in Seq(Results), IsFiniteSet(AuditRows),
           audit' = [r \in Results |-> audit[r] + Occurrences(r, seq)]
    PROVE  IsFiniteSet(AuditRows') /\ Rows' = Rows + Len(seq)
<1> DEFINE new == UNION {{r} \X (audit[r] + 1..audit[r] + Occurrences(r, seq)) : r \in Results}
<1>1. IsFiniteSet(new) /\ Cardinality(new) = Len(seq)
      BY OneForEachEntry
<1>2. \A r \in Results : audit[r] \in Nat /\ Occurrences(r, seq) \in Nat
      BY OccurrencesOfParts
<1>3. \A e : e \in new <=> /\ e = <<e[1], e[2]>> /\ e[1] \in Results
                           /\ e[2] \in audit[e[1]] + 1..audit[e[1]] + Occurrences(e[1], seq)
      OBVIOUS
<1>4. \A e : e \in AuditRows' <=>
                e = <<e[1], e[2]>> /\ e[1] \in Results /\ e[2] \in 1..audit'[e[1]]
      BY DEF AuditRows
<1> HIDE DEF new
<1>5. ASSUME NEW r \in Results, NEW n
      PROVE  /\ n \in 1..audit'[r] <=>
                    n \in 1..audit[r] \/ n \in audit[r] + 1..audit[r] + Occurrences(r, seq)
             /\ ~(n \in 1..audit[r] /\ n \in audit[r] + 1..audit[r] + Occurrences(r, seq))
  <2>1. audit'[r] = audit[r] + Occurrences(r, seq)
        OBVIOUS
  <2> QED
      BY <1>2, <2>1
<1>6. AuditRows' = AuditRows \cup new
  <2>1. \A e : e \in AuditRows' <=> e \in AuditRows \/ e \in new
        BY <1>3, <1>4, <1>5, RowsAre
  <2> QED
      BY <2>1
<1>7. AuditRows \cap new = {}
  <2>1. \A e : ~(e \in AuditRows /\ e \in new)
        BY <1>3, <1>5, RowsAre
  <2> QED
      BY <2>1
<1> QED
    BY <1>1, <1>6, <1>7, SizeOfBoth DEF Rows

\* What a pass has stored and not cut counts as many as its batch has entries.
LEMMA UncutIs ==
    ASSUME PassesOK, NEW c \in Consumers, Storing(c)
    PROVE  /\ IsFiniteSet(UncutOf(c)) /\ Cardinality(UncutOf(c)) = Len(pass[c].batch)
           /\ Len(pass[c].batch) \in Nat
<1>1. pass[c].batch \in Seq(Results)
      BY DEF PassesOK, Storing
<1>2. Len(pass[c].batch) \in Nat
      BY <1>1, LenProperties
<1> QED
    BY <1>2, SizeOfPairs DEF UncutOf

\* A pass that begins to store, or ends, adds what is its own and takes nothing else away.
LEMMA UncutMoves ==
    ASSUME NEW c \in Consumers, \A d \in Consumers \ {c} : UncutOf(d)' = UncutOf(d)
    PROVE  /\ Storing(c) /\ ~Storing(c)' => UncutOf(c) \subseteq Uncut /\ Uncut' = Uncut \ UncutOf(c)
           /\ ~Storing(c) => Uncut' = Uncut \cup UncutOf(c)' /\ Uncut \cap UncutOf(c)' = {}
<1>1. \A d \in Consumers : \A e \in UncutOf(d) : e[1] = d
      BY DEF UncutOf
<1>2. \A d \in Consumers : \A e \in UncutOf(d)' : e[1] = d
      BY DEF UncutOf
<1>3. ~Storing(c) => UncutOf(c) = {}
      BY DEF UncutOf
<1>4. ~Storing(c)' => UncutOf(c)' = {}
      BY DEF UncutOf
<1>5. /\ Uncut = UncutOf(c) \cup UNION {UncutOf(d) : d \in Consumers \ {c}}
      /\ Uncut' = UncutOf(c)' \cup UNION {UncutOf(d) : d \in Consumers \ {c}}
      BY DEF Uncut
<1>6. \A e \in UNION {UncutOf(d) : d \in Consumers \ {c}} : e[1] # c
      BY <1>1
<1> QED
    BY <1>1, <1>2, <1>3, <1>4, <1>5, <1>6

LEMMA CutStep ==
    ASSUME BackOK, PassesOK, PassesOK', CutInv, Next
    PROVE  CutInv'
<1>1. Cardinality(Uncut) \in Nat /\ Rows \in Nat /\ removed \in Nat
      BY FS_CardinalityType DEF CutInv, Rows, PassesOK
\* Nothing is committed or cut.
<1>2. ASSUME UNCHANGED <<audit, removed>>,
             \A c \in Consumers : UncutOf(c)' = UncutOf(c)
      PROVE  CutInv'
  <2>1. Uncut' = Uncut /\ AuditRows' = AuditRows /\ Rows' = Rows
        BY <1>2 DEF Uncut, AuditRows, Rows
  <2> QED
      BY <1>2, <2>1 DEF CutInv
<1>3. ASSUME WorkerStep \/ \E a \in Accounts : Relink(a)
      PROVE  CutInv'
  <2>1. UNCHANGED <<pass, audit, removed>>
        BY <1>3 DEF WorkerStep, Relink
  <2> QED
      BY <1>2, <2>1 DEF UncutOf, Storing
\* A pass begins, or is rolled back.
<1>4. ASSUME NEW c \in Consumers, NEW l \in Lists, Read(c, l) \/ CommitFails(c)
      PROVE  CutInv'
  <2>1. /\ ~Storing(c) /\ ~Storing(c)' /\ UNCHANGED <<audit, removed>>
        /\ \A d \in Consumers \ {c} : pass'[d] = pass[d]
        BY <1>4 DEF Read, CommitFails, NoPass, Storing, PassesOK
  <2>2. UncutOf(c)' = UncutOf(c)
        BY <2>1 DEF UncutOf
  <2>3. \A d \in Consumers \ {c} : UncutOf(d)' = UncutOf(d)
        BY <2>1 DEF UncutOf, Storing
  <2> QED
      BY <1>2, <2>1, <2>2, <2>3
<1>5. ASSUME NEW c \in Consumers, Commit(c)
      PROVE  CutInv'
  <2>1. /\ ~Storing(c) /\ UNCHANGED removed
        /\ pass'[c].at = "stored" /\ pass'[c].list = pass[c].list /\ pass'[c].batch = pass[c].batch
        /\ \A d \in Consumers \ {c} : pass'[d] = pass[d]
        BY <1>5 DEF Commit, Storing, PassesOK
  <2>2. CASE pass[c].list = "results"
    <3> DEFINE n == Len(pass[c].batch)
    <3>1. Storing(c)' /\ \A d \in Consumers \ {c} : UncutOf(d)' = UncutOf(d)
          BY <2>1, <2>2 DEF Storing, UncutOf
    <3>2. pass[c].batch \in Seq(Results) /\ n \in Nat
          BY <2>2, LenProperties DEF PassesOK
    <3>3. IsFiniteSet(AuditRows') /\ Rows' = Rows + n
          BY <1>5, <2>2, <3>2, RowsAdded DEF Commit, Store, PassesOK, CutInv
    <3>4. IsFiniteSet(UncutOf(c)') /\ Cardinality(UncutOf(c)') = n
      <4>1. UncutOf(c)' = {c} \X (1..Len(pass[c].batch))
            BY <2>1, <3>1 DEF UncutOf
      <4>2. /\ IsFiniteSet({c} \X (1..Len(pass[c].batch)))
            /\ Cardinality({c} \X (1..Len(pass[c].batch))) = Len(pass[c].batch)
            BY <3>2, SizeOfPairs
      <4> QED
          BY <4>1, <4>2
    <3>5. Uncut' = Uncut \cup UncutOf(c)' /\ Uncut \cap UncutOf(c)' = {}
          BY <2>1, <3>1, UncutMoves
    <3>6. /\ IsFiniteSet(Uncut')
          /\ Cardinality(Uncut') = Cardinality(Uncut) + n
          BY <3>4, <3>5, SizeOfBoth DEF CutInv
    <3>7. removed' = removed /\ removed + Cardinality(Uncut) <= Rows /\ n \in Nat
          BY <2>1, <3>2 DEF CutInv
    <3> HIDE DEF n
    <3>8. removed' + Cardinality(Uncut') <= Rows'
          BY <1>1, <3>3, <3>6, <3>7
    <3> QED
        BY <3>3, <3>6, <3>8 DEF CutInv
  <2>3. CASE pass[c].list # "results"
    <3>1. audit' = audit /\ ~Storing(c)'
          BY <1>5, <2>1, <2>3 DEF Commit, Store, Storing
    <3> QED
        BY <1>2, <2>1, <3>1 DEF UncutOf, Storing
  <2> QED
      BY <2>2, <2>3
\* A pass ends: what it cuts is no longer than what it has stored.
<1>6. ASSUME NEW c \in Consumers, Trim(c) \/ TrimFails(c)
      PROVE  CutInv'
  <2>1. pass[c].at = "stored" /\ UNCHANGED audit /\ pass' = [pass EXCEPT ![c] = NoPass]
        BY <1>6 DEF Trim, TrimFails
  <2>2. ~Storing(c)' /\ \A d \in Consumers \ {c} : pass'[d] = pass[d]
        BY <2>1 DEF Storing, NoPass, PassesOK
  <2>3. \A d \in Consumers \ {c} : UncutOf(d)' = UncutOf(d)
        BY <2>2 DEF UncutOf, Storing
  <2>4. CASE pass[c].list = "results"
    <3> DEFINE n == Len(pass[c].batch)
    <3>1. Storing(c)
          BY <2>1, <2>4 DEF Storing
    <3>2. /\ IsFiniteSet(UncutOf(c)) /\ Cardinality(UncutOf(c)) = n /\ n \in Nat
          BY <3>1, UncutIs
    <3>3. UncutOf(c) \subseteq Uncut /\ Uncut' = Uncut \ UncutOf(c)
          BY <2>2, <2>3, <3>1, UncutMoves
    <3>4. /\ IsFiniteSet(Uncut')
          /\ Cardinality(Uncut') = Cardinality(Uncut) - n
          BY <3>2, <3>3, SizeOfRest DEF CutInv
    <3>5. removed' \in Nat /\ removed' <= removed + n
      <4>1. CASE TrimFails(c)
            BY <1>1, <3>2, <4>1 DEF TrimFails
      <4>2. CASE Trim(c)
        <5> DEFINE cut == Beginning(list["results"], Len(pass[c].batch))
        <5>1. Len(cut) \in Nat /\ Len(cut) <= n
          <6>1. list["results"] \in Seq(Results)
                BY DEF BackOK
          <6> QED
              BY <3>2, <6>1, HeadOfList
        <5>2. removed' = removed + Len(cut)
              BY <2>4, <4>2 DEF Trim, CutLength
        <5> HIDE DEF cut, n
        <5> QED
            BY <1>1, <3>2, <5>1, <5>2
      <4> QED
          BY <1>6, <4>1, <4>2
    <3>6. Rows' = Rows /\ AuditRows' = AuditRows
          BY <2>1 DEF Rows, AuditRows
    <3>7. removed + Cardinality(Uncut) <= Rows /\ n \in Nat
          BY <3>2 DEF CutInv
    <3> HIDE DEF n
    <3>8. removed' + Cardinality(Uncut') <= Rows'
          BY <1>1, <3>4, <3>5, <3>6, <3>7
    <3>9. IsFiniteSet(AuditRows')
          BY <3>6 DEF CutInv
    <3> QED
        BY <3>4, <3>8, <3>9 DEF CutInv
  <2>5. CASE pass[c].list # "results"
    <3>1. UNCHANGED removed /\ ~Storing(c)
          BY <1>6, <2>5 DEF Trim, TrimFails, Storing
    <3> QED
        BY <1>2, <2>1, <2>2, <2>3, <3>1 DEF UncutOf
  <2> QED
      BY <2>4, <2>5
<1> QED
    BY <1>3, <1>4, <1>5, <1>6 DEF Next, Lists

---------------------------------------------------------------------------
(* The blocks.  A blocked account is on its way to the database.           *)

LEMMA RangeOfParts ==
    ASSUME NEW S, NEW s \in Seq(S), NEW t \in Seq(S)
    PROVE  Range(s \o t) = Range(s) \cup Range(t)
<1>1. /\ Len(s) \in Nat /\ Len(t) \in Nat /\ s \o t \in Seq(S)
      /\ DOMAIN s = 1..Len(s) /\ DOMAIN t = 1..Len(t)
      /\ DOMAIN (s \o t) = 1..Len(s) + Len(t)
      /\ \A i \in 1..Len(s) + Len(t) : (s \o t)[i] = IF i <= Len(s) THEN s[i] ELSE t[i - Len(s)]
      BY ConcatProperties, LenProperties
<1>2. ASSUME NEW i \in 1..Len(t) PROVE i + Len(s) \in 1..Len(s) + Len(t) /\ (s \o t)[i + Len(s)] = t[i]
  <2>1. i + Len(s) \in 1..Len(s) + Len(t) /\ ~(i + Len(s) <= Len(s)) /\ i + Len(s) - Len(s) = i
        BY <1>1
  <2> QED
      BY <1>1, <2>1
<1>3. Range(s) \subseteq Range(s \o t)
      BY <1>1 DEF Range
<1>4. Range(t) \subseteq Range(s \o t)
  <2> SUFFICES ASSUME NEW i \in 1..Len(t)
               PROVE  t[i] \in Range(s \o t)
      BY <1>1 DEF Range
  <2>1. i + Len(s) \in DOMAIN (s \o t) /\ (s \o t)[i + Len(s)] = t[i]
        BY <1>1, <1>2
  <2> QED
      BY <2>1 DEF Range
<1>5. ASSUME NEW i \in 1..Len(s) + Len(t) PROVE (s \o t)[i] \in Range(s) \cup Range(t)
      BY <1>1 DEF Range
<1>6. Range(s \o t) \subseteq Range(s) \cup Range(t)
      BY <1>1, <1>5 DEF Range
<1> QED
    BY <1>3, <1>4, <1>6

\* What is pushed to the list of statuses joins what it held.
LEMMA StatusesGrow ==
    ASSUME BackOK, NEW as \in Seq(Accounts), list'["statuses"] = as \o list["statuses"]
    PROVE  Range(list'["statuses"]) = Range(as) \cup Range(list["statuses"])
<1>1. PICK old : old = list["statuses"]
      OBVIOUS
<1>2. old \in Seq(Accounts)
      BY <1>1 DEF BackOK
<1>3. \A x, y \in Seq(Accounts) : Range(x \o y) = Range(x) \cup Range(y)
      BY RangeOfParts, Zenon
<1>4. as \in Seq(Accounts)
      OBVIOUS
<1>5. Range(as \o old) = Range(as) \cup Range(old)
      BY <1>2, <1>3, <1>4, Zenon
<1> QED
    BY <1>1, <1>5

\* What a shard does leaves no blocked account behind.
LEMMA WorkerBlocks ==
    ASSUME ShardsOK, Busy, BackOK, WorkerNext, NEW s \in Shards, NEW a \in blocked'[s] \ unsaid'
    PROVE  \/ a \in Range(list'["statuses"])
           \/ run'[s].at = "report" /\ AccountOf[run'[s].msg] = a
           \/ a \in blocked[s] \ unsaid /\ ~(run[s].at = "report" /\ AccountOf[run[s].msg] = a)
<1> DEFINE Goal == \/ a \in Range(list'["statuses"])
                   \/ run'[s].at = "report" /\ AccountOf[run'[s].msg] = a
                   \/ a \in blocked[s] \ unsaid
                      /\ ~(run[s].at = "report" /\ AccountOf[run[s].msg] = a)
<1>1. ASSUME run'[s] = run[s], blocked'[s] \subseteq blocked[s], unsaid \subseteq unsaid'
      PROVE  Goal
      BY <1>1
<1>2. ASSUME NEW m \in Messages, enqueue_baileys_job(m) \/ Promote(m) \/ Stalled(m)
      PROVE  Goal
      BY <1>1, <1>2 DEF enqueue_baileys_job, Promote, Stalled, session, history
<1>3. ASSUME NEW t \in Shards, Bridging(t) \/ shutdown(t) \/ BlpopTimesOut(t)
      PROVE  Goal
      BY <1>1, <1>3 DEF Bridging, Pop, Add, AddFails, shutdown, BlpopTimesOut, session, history
<1>4. ASSUME NEW t \in Shards, Crash(t) \/ Exit(t)
      PROVE  Goal
  <2>1. blocked' = [blocked EXCEPT ![t] = {}] /\ UNCHANGED unsaid
        BY <1>4 DEF Crash, Exit, Restart
  <2>2. s # t
        BY <2>1 DEF ShardsOK
  <2>3. run'[s] = run[s]
        BY <1>4, <2>2 DEF Crash, Exit, ShardsOK, RunOK
  <2> QED
      BY <1>1, <2>1, <2>2, <2>3 DEF ShardsOK
\* A step of another shard's processor.
<1>5. ASSUME NEW t \in Shards, Processing(t), t # s
      PROVE  Goal
  <2>1. run'[s] = run[s] /\ unsaid \subseteq unsaid'
        BY <1>5 DEF Processing, Take, Defer, CheckJob, Checked, OpenSocket, CredsGone, LoginRefused,
           ConnectFails, SendMessage, SendFails, SentThenFails, Report, ReportFails, publishResult,
           PublishFails, Finish, End, Answer, Goto, history, ShardsOK, RunOK
  <2>2. blocked' = blocked \/ Block(t, Sender(t))
        BY <1>5 DEF Processing, Take, Defer, CheckJob, Checked, OpenSocket, CredsGone, LoginRefused,
           ConnectFails, SendMessage, SendFails, SentThenFails, Report, ReportFails, publishResult,
           PublishFails, Finish, session
  <2>3. blocked'[s] = blocked[s]
        BY <1>5, <2>2 DEF Block, ShardsOK
  <2> QED
      BY <1>1, <2>1, <2>3
\* The steps that block the sender, and say so next.
<1>6. ASSUME run'[s].at = "report", run'[s].msg = run[s].msg, Block(s, Sender(s)), UNCHANGED unsaid,
             run[s].at # "report"
      PROVE  Goal
      BY <1>6 DEF Block, Sender, ShardsOK
<1>7. ASSUME CredsGone(s) \/ LoginRefused(s)
      PROVE  Goal
  <2>1. /\ run[s].at = "connect" /\ Block(s, Sender(s)) /\ UNCHANGED unsaid
        /\ Answer(s, "report", "session_invalid")
        BY <1>7 DEF CredsGone, LoginRefused, At, history
  <2> QED
      BY <1>6, <2>1 DEF Answer, ShardsOK, RunOK
<1>8. ASSUME CheckJob(s)
      PROVE  Goal
  <2>1. run[s].at = "check" /\ UNCHANGED unsaid /\ Checked(s, Sender(s))
        BY <1>8 DEF CheckJob, At, history
  <2>2. CASE UNCHANGED blocked
        BY <2>1, <2>2
  <2>3. CASE Answer(s, "report", "session_invalid") /\ Block(s, Sender(s))
        BY <1>6, <2>1, <2>3 DEF Answer, ShardsOK, RunOK
  <2> QED
      BY <2>1, <2>2, <2>3 DEF Checked
<1>9. ASSUME \/ Take(s) \/ Defer(s) \/ OpenSocket(s) \/ ConnectFails(s) \/ SendMessage(s)
             \/ SendFails(s) \/ SentThenFails(s) \/ publishResult(s) \/ PublishFails(s) \/ Finish(s)
      PROVE  Goal
  <2>1. run[s].at # "report" /\ UNCHANGED <<blocked, unsaid>>
        BY <1>9 DEF Take, Defer, OpenSocket, ConnectFails, SendMessage, SendFails, SentThenFails,
                    publishResult, PublishFails, Finish, At, session, history
  <2> QED
      BY <2>1
<1>10. ASSUME Report(s)
       PROVE  Goal
  <2>1. Sender(s) \in Accounts /\ UNCHANGED <<blocked, unsaid>>
        BY <1>10, SendersAre DEF Report, At, SenderIsAccount, session, history
  <2>2. list'["statuses"] = <<Sender(s)>> \o list["statuses"]
        BY <1>10 DEF Report, PushStatus, BackOK, Lists
  <2>3. Range(list'["statuses"]) = Range(<<Sender(s)>>) \cup Range(list["statuses"])
    <3>1. <<Sender(s)>> \in Seq(Accounts)
          BY <2>1
    <3> QED
        BY <2>2, <3>1, StatusesGrow
  <2>4. Sender(s) \in Range(<<Sender(s)>>)
        BY DEF Range
  <2> QED
      BY <2>1, <2>3, <2>4 DEF Sender
<1>11. ASSUME ReportFails(s)
       PROVE  Goal
       BY <1>11 DEF ReportFails, Sender, session
<1>12. ASSUME NEW t \in Shards, NEW b \in Accounts, NEW loggedOut \in BOOLEAN,
              SocketCloses(t, b, loggedOut)
       PROVE  Goal
  <2>1. run'[s] = run[s] /\ unsaid \subseteq unsaid'
        BY <1>12 DEF SocketCloses
  <2>2. CASE ~loggedOut \/ t # s
    <3>1. blocked'[s] \subseteq blocked[s]
          BY <1>12, <2>2 DEF SocketCloses, Block, ShardsOK
    <3> QED
        BY <1>1, <2>1, <3>1
  <2>3. CASE loggedOut /\ t = s
    <3>1. blocked'[s] = blocked[s] \cup {b}
          BY <1>12, <2>3 DEF SocketCloses, Block, ShardsOK
    <3>2. b \in unsaid' \/ b \in Range(list'["statuses"])
      <4>1. CASE PushStatus(b)
        <5>1. list'["statuses"] = <<b>> \o list["statuses"]
              BY <4>1 DEF PushStatus, BackOK, Lists
        <5>2. Range(list'["statuses"]) = Range(<<b>>) \cup Range(list["statuses"])
          <6>1. <<b>> \in Seq(Accounts)
                OBVIOUS
          <6> QED
              BY <5>1, <6>1, StatusesGrow
        <5>3. b \in Range(<<b>>)
              BY DEF Range
        <5> QED
            BY <5>2, <5>3
      <4> QED
          BY <1>12, <2>3, <4>1 DEF SocketCloses
    <3> QED
        BY <2>1, <3>1, <3>2
  <2> QED
      BY <2>2, <2>3
<1>13. ASSUME NEW on \in BOOLEAN, set_whatsapp_send_kill_switch(on)
       PROVE  Goal
       BY <1>1, <1>13 DEF set_whatsapp_send_kill_switch, session
<1>14. ASSUME NEW b \in Accounts, Unlink(b)
       PROVE  Goal
       BY <1>1, <1>14 DEF Unlink
<1> QED
  <2>1. ASSUME Processing(s)
        PROVE  Goal
        BY <2>1, <1>7, <1>8, <1>9, <1>10, <1>11 DEF Processing
  <2> QED
      BY <2>1, <1>2, <1>3, <1>4, <1>5, <1>12, <1>13, <1>14 DEF WorkerNext, Lifecycle

LEMMA BlockStep ==
    ASSUME ShardsOK, Busy, BackOK, PassesOK, PassInv, BlockIsReported, Next
    PROVE  BlockIsReported'
<1> SUFFICES ASSUME "statuses" \notin torn', NEW s \in Shards,
                    NEW a \in blocked'[s] \ (needsLogin' \cup relinked' \cup unsaid')
             PROVE  \/ a \in Range(list'["statuses"])
                    \/ run'[s].at = "report" /\ AccountOf[run'[s].msg] = a
    BY DEF BlockIsReported, At, Sender
<1> DEFINE Goal == \/ a \in Range(list'["statuses"])
                   \/ run'[s].at = "report" /\ AccountOf[run'[s].msg] = a
<1>a. "statuses" \notin torn
      BY DEF Next, WorkerStep, Read, Commit, CommitFails, Trim, TrimFails, Relink
<1>b. "statuses" \in Lists /\ list["statuses"] \in Seq(Accounts)
      BY DEF Lists, BackOK
<1>1. a \in blocked[s] \ (needsLogin \cup relinked \cup unsaid) =>
          a \in Range(list["statuses"]) \/ (run[s].at = "report" /\ AccountOf[run[s].msg] = a)
      BY <1>a DEF BlockIsReported, At, Sender
<1>2. CASE WorkerStep
  <2>1. WorkerNext /\ UNCHANGED <<needsLogin, relinked>>
        BY <1>2 DEF WorkerStep
  <2>2. Range(list["statuses"]) \subseteq Range(list'["statuses"])
    <3>1. CASE UNCHANGED <<list, said>>
          BY <3>1
    <3>2. CASE \E as \in Seq(Accounts) : PushesStatus(as)
      <4>1. PICK as \in Seq(Accounts) : PushesStatus(as)
            BY <3>2
      <4>2. list'["statuses"] = as \o list["statuses"]
            BY <4>1, <1>b DEF PushesStatus, BackOK
      <4>3. Range(list'["statuses"]) = Range(as) \cup Range(list["statuses"])
            BY <4>2, StatusesGrow
      <4> QED
          BY <4>3
    <3>3. CASE \E t \in Shards : publishResult(t) /\ PushesResult(Result(t))
          BY <3>3, <1>b DEF PushesResult, BackOK, Lists
    <3> QED
        BY <2>1, <3>1, <3>2, <3>3, Pushes DEF ShardsOK
  <2>3. \/ a \in Range(list'["statuses"])
        \/ run'[s].at = "report" /\ AccountOf[run'[s].msg] = a
        \/ a \in blocked[s] \ unsaid /\ ~(run[s].at = "report" /\ AccountOf[run[s].msg] = a)
        BY <2>1, WorkerBlocks
  <2> QED
      BY <1>1, <2>1, <2>2, <2>3
\* Of the rest only a cut takes accounts off the list, and it was stored.
<1>3. ASSUME UNCHANGED <<run, blocked, unsaid>>,
             Range(list["statuses"]) \subseteq
                 Range(list'["statuses"]) \cup needsLogin' \cup relinked',
             needsLogin \cup relinked \subseteq needsLogin' \cup relinked'
      PROVE  Goal
      BY <1>1, <1>3
<1>4. ASSUME NEW c \in Consumers, NEW l \in Lists, Read(c, l)
      PROVE  Goal
      BY <1>3, <1>4 DEF Read, workerVars, session, history
<1>5. ASSUME NEW c \in Consumers, Commit(c)
      PROVE  Goal
  <2>1. UNCHANGED <<run, blocked, unsaid, list, relinked>>
        BY <1>5 DEF Commit, workerVars, session, history
  <2>2. needsLogin \subseteq needsLogin'
        BY <1>5 DEF Commit, Store
  <2> QED
      BY <1>3, <2>1, <2>2
<1>6. ASSUME NEW c \in Consumers, CommitFails(c) \/ TrimFails(c)
      PROVE  Goal
      BY <1>3, <1>6 DEF CommitFails, TrimFails, session
<1>7. ASSUME NEW c \in Consumers, Trim(c)
      PROVE  Goal
  <2>1. pass[c].at = "stored" /\ UNCHANGED <<run, blocked, unsaid, needsLogin, relinked>>
        BY <1>7 DEF Trim, session, history
  <2>2. CASE pass[c].list = "statuses"
    <3>1. /\ pass[c].batch = Beginning(list["statuses"], MaxBatch)
          /\ Range(pass[c].batch) \subseteq needsLogin \cup relinked
          BY <1>a, <1>b, <2>1, <2>2 DEF PassInv, Open
    <3>2. Beginning(list["statuses"], Len(pass[c].batch)) = pass[c].batch
          BY <1>b, <3>1, HeadOfList, MaxBatchIsNat
    <3>3. /\ list["statuses"] = pass[c].batch \o list'["statuses"]
          /\ pass[c].batch \in Seq(Accounts) /\ list'["statuses"] \in Seq(Accounts)
      <4> DEFINE cut == Beginning(list["statuses"], Len(pass[c].batch))
      <4>1. Elements("statuses") = Accounts
            BY DEF Elements
      <4>2. /\ list["statuses"] = cut \o list'["statuses"]
            /\ cut \in Seq(Elements("statuses")) /\ list'["statuses"] \in Seq(Elements("statuses"))
            BY <1>7, <2>2, TrimIs
      <4> QED
          BY <3>2, <4>1, <4>2
    <3>4. Range(list["statuses"]) = Range(pass[c].batch) \cup Range(list'["statuses"])
          BY <3>3, RangeOfParts
    <3> QED
        BY <1>3, <2>1, <3>1, <3>4
  <2>3. CASE pass[c].list # "statuses"
    <3>1. list'["statuses"] = list["statuses"]
          BY <1>7, <1>b, <2>3, TrimIs
    <3> QED
        BY <1>3, <2>1, <3>1
  <2> QED
      BY <2>2, <2>3
<1>8. ASSUME NEW b \in Accounts, Relink(b)
      PROVE  Goal
      BY <1>3, <1>8 DEF Relink, Link
<1> QED
    BY <1>2, <1>4, <1>5, <1>6, <1>7, <1>8 DEF Next

---------------------------------------------------------------------------
\* Both directions together.
WholeInv == /\ IInv /\ BackOK /\ PassesOK /\ AnswersInv /\ PassInv /\ LogInv /\ CutInv
            /\ BlockIsReported

LEMMA WholeInit == Init => WholeInv
<1> SUFFICES ASSUME Init PROVE WholeInv
    OBVIOUS
<1>1. IInv
      BY InitInv
<1>2. BackOK
      BY DEF Init, WorkerInit, BackOK, Lists
<1>3. PassesOK
  <2>1. <<>> \in Seq(Results)
        OBVIOUS
  <2> QED
      BY <2>1 DEF Init, PassesOK, NoPass, Lists
<1>4. AnswersInv
      BY DEF Init, WorkerInit, AnswersInv, Saying, Idle
<1>5. PassInv /\ BlockIsReported
      BY DEF Init, WorkerInit, PassInv, Open, NoPass, BlockIsReported
<1>6. LogInv
  <2>1. \A r : Occurrences(r, <<>>) = 0
    <3>1. \A r : {i \in DOMAIN <<>> : <<>>[i] = r} = {}
          OBVIOUS
    <3> QED
        BY <3>1, FS_EmptySet DEF Occurrences
  <2> QED
      BY <2>1 DEF Init, WorkerInit, LogInv, Storing, NoPass, Lists
<1>7. CutInv
  <2>1. AuditRows = {}
        BY RowsAre DEF Init
  <2>2. Uncut = {}
        BY DEF Init, Uncut, UncutOf, Storing, NoPass
  <2> QED
      BY <2>1, <2>2, FS_EmptySet DEF Init, CutInv, Rows
<1> QED
    BY <1>1, <1>2, <1>3, <1>4, <1>5, <1>6, <1>7 DEF WholeInv

LEMMA WholeStep == WholeInv /\ [Next]_vars => WholeInv'
<1> SUFFICES ASSUME WholeInv, [Next]_vars PROVE WholeInv'
    OBVIOUS
<1>1. IInv'
      BY NextInv DEF WholeInv
<1>2. /\ QueuesOK /\ ShardsOK /\ Busy /\ OneCopy /\ SentInv /\ BackOK /\ PassesOK /\ AnswersInv
      /\ PassInv /\ LogInv /\ CutInv /\ BlockIsReported
      BY DEF WholeInv, IInv
<1>3. CASE Next
  <2>1. PassesOK' /\ PassInv' /\ LogInv' /\ CutInv' /\ BlockIsReported'
        BY <1>2, <1>3, PassesStep, PassStep, LogStep, CutStep, BlockStep
  <2>2. CASE WorkerStep
        BY <1>1, <1>2, <2>1, <2>2, BackStep, AnswersStep DEF WholeInv, WorkerStep
  <2>3. CASE ~WorkerStep
    <3>1. BackOK' /\ UNCHANGED <<said, mute, unsaid, ended>>
          BY <1>2, <1>3, <2>3, BackOfConsumers
    <3>2. UNCHANGED <<run, sent, stalls, active>>
      <4>1. ASSUME NEW c \in Consumers, NEW l \in Lists, Read(c, l)
            PROVE  UNCHANGED <<run, sent, stalls, active>>
            BY <4>1 DEF Read, workerVars, bull, history
      <4>2. ASSUME NEW c \in Consumers, Commit(c) \/ CommitFails(c) \/ Trim(c) \/ TrimFails(c)
            PROVE  UNCHANGED <<run, sent, stalls, active>>
            BY <4>2 DEF Commit, CommitFails, Trim, TrimFails, workerVars, bull, history
      <4>3. ASSUME NEW a \in Accounts, Relink(a)
            PROVE  UNCHANGED <<run, sent, stalls, active>>
            BY <4>3 DEF Relink, Link, bull
      <4> QED
          BY <1>3, <2>3, <4>1, <4>2, <4>3 DEF Next
    <3>3. AnswersInv'
          BY <1>2, <3>1, <3>2 DEF AnswersInv, Saying, TrueResults, Told, Settled, At
    <3> QED
        BY <1>1, <2>1, <3>1, <3>3 DEF WholeInv
  <2> QED
      BY <2>2, <2>3
<1>4. CASE UNCHANGED vars
  <2>1. UNCHANGED <<list, gone, ended, mute, said, unsaid, faults, sent, stalls, active, run,
                    blocked, pass, audit, needsLogin, torn, lost, removed, relinked>>
        BY <1>4 DEF vars, workerVars, resultVars, bull, session, history
  <2>2. BackOK' /\ PassesOK'
        BY <1>2, <2>1 DEF BackOK, PassesOK
  <2>3. AnswersInv'
        BY <1>2, <2>1 DEF AnswersInv, Saying, TrueResults, Told, Settled, At
  <2>4. PassInv' /\ LogInv' /\ CutInv' /\ BlockIsReported'
    <3>1. PassInv'
          BY <1>2, <2>1 DEF PassInv, Open
    <3>2. LogInv'
          BY <1>2, <2>1 DEF LogInv, Storing
    <3>3. BlockIsReported'
          BY <1>2, <2>1 DEF BlockIsReported, At, Sender
    <3>4. CutInv'
          BY <1>2, <2>1 DEF CutInv, Uncut, UncutOf, Storing, AuditRows, Rows
    <3> QED
        BY <3>1, <3>2, <3>3, <3>4
  <2> QED
      BY <1>1, <2>2, <2>3, <2>4 DEF WholeInv
<1> QED
    BY <1>3, <1>4

\* The whole invariant holds of every state the components reach together: of the messages,
\* the shards, the two lists and the consumers that empty them.
THEOREM WholeInvariance == Spec => []WholeInv
<1> QED
    BY WholeInit, WholeStep, PTL DEF Spec

\* The queues, the shards, the two lists, the passes and the log stay well typed, with any
\* number of shards, messages and consumers and every order of their steps.
THEOREM TypeCorrect == Spec => []TypeOK
<1>1. WholeInv => TypeOK
  <2> SUFFICES ASSUME WholeInv PROVE TypeOK
      OBVIOUS
  <2>1. QueuesOK /\ ShardsOK /\ SentInv /\ KillInv /\ BackOK /\ PassesOK
        BY DEF WholeInv, IInv
  <2>2. /\ toSend \subseteq Messages /\ raw \in Seq(Messages)
        /\ hand \in [Shards -> Messages \cup {NoMessage}]
        /\ queue \in Seq(Messages) /\ delayed \subseteq Messages /\ active \subseteq Messages
        /\ known \subseteq {JobId[m] : m \in Messages}
        BY <2>1 DEF QueuesOK
  <2>3. /\ run \in [Shards -> [at : Points, msg : Messages \cup {NoMessage}, out : Outcomes]]
        /\ life \in [Shards -> {"up", "closing", "closed"}]
        /\ conn \in [Shards -> SUBSET Accounts] /\ blocked \in [Shards -> SUBSET Accounts]
        /\ linked \subseteq Accounts /\ kill \in BOOLEAN
        BY <2>1 DEF ShardsOK, RunOK
  <2>4. lateSends \in [Shards -> Nat]
    <3>1. lateSends \in [Shards -> {0, 1}]
          BY <2>1 DEF KillInv
    <3> QED
        BY <3>1
  <2>5. WorkerTypeOK
        BY <2>1, <2>2, <2>3, <2>4 DEF WorkerTypeOK, SentInv, BackOK
  <2>6. \A c \in Consumers :
            pass[c].batch \in Seq(IF pass[c].list = "results" THEN Results ELSE Accounts)
        BY <2>1, PassIs DEF Elements
  <2>7. \A c \in Consumers : pass[c].at \in {"idle", "read", "stored"} /\ pass[c].list \in Lists
        BY <2>1, PassIs
  <2> QED
      BY <2>1, <2>5, <2>6, <2>7 DEF TypeOK, PassesOK
<1> QED
    BY <1>1, WholeInvariance, PTL

\* What processOutgoingJob publishes is true whichever call fails and whenever a shard dies:
\* "delivered" was sent, "killed" and "session_invalid" were not, unless an earlier run of the
\* job died with its shard; and a job ends with a result, with a push that failed, or given up.
THEOREM AnswersStayTrue == Spec => []AnswersAreTrue
<1>1. WholeInv => AnswersAreTrue
      BY DEF WholeInv, AnswersInv, TrueResults, Told, AnswersAreTrue
<1> QED
    BY <1>1, WholeInvariance, PTL

\* Of each result there are as many rows and entries as it was pushed, less those a pass holds
\* in both.
LEMMA EveryResultIsCounted ==
    ASSUME WholeInv
    PROVE  ResultsAreCounted
<1> SUFFICES ASSUME "results" \notin torn, NEW r \in Results
             PROVE  LET uncut == UNION {{<<c, i>> : i \in {j \in DOMAIN pass[c].batch :
                                        pass[c].at = "stored" /\ pass[c].list = "results"
                                           /\ pass[c].batch[j] = r}} : c \in Consumers}
                    IN  said[r] + Cardinality(uncut)
                            = Occurrences(r, list["results"]) + audit[r]
    BY DEF ResultsAreCounted
<1> DEFINE At_(c) == {j \in DOMAIN pass[c].batch :
                          pass[c].at = "stored" /\ pass[c].list = "results"
                             /\ pass[c].batch[j] = r}
           uncut == UNION {{<<c, i>> : i \in At_(c)} : c \in Consumers}
<1>1. BackOK /\ PassesOK /\ PassInv /\ LogInv
      BY DEF WholeInv
<1>2. said[r] \in Nat
      BY <1>1 DEF BackOK
<1>3. CASE \A c \in Consumers : ~Storing(c)
  <2>1. uncut = {}
        BY <1>3 DEF Storing
  <2>2. Cardinality(uncut) = 0
        BY <2>1, FS_EmptySet
  <2>3. said[r] = Occurrences(r, list["results"]) + audit[r]
        BY <1>1, <1>3 DEF LogInv
  <2> QED
      BY <1>2, <2>2, <2>3
<1>4. ASSUME NEW c \in Consumers, Storing(c)
      PROVE  said[r] + Cardinality(uncut) = Occurrences(r, list["results"]) + audit[r]
  <2> DEFINE J == {j \in DOMAIN pass[c].batch : pass[c].batch[j] = r}
             f == [j \in J |-> <<c, j>>]
  <2>1. \A d \in Consumers : Storing(d) => d = c
        BY <1>1, <1>4 DEF PassInv, Open, Storing, Lists
  <2>2. \A d \in Consumers : At_(d) = IF d = c THEN J ELSE {}
        BY <1>4, <2>1 DEF Storing
  <2>3. uncut = {<<c, j>> : j \in J}
        BY <2>2
  <2>4. IsFiniteSet(J)
    <3>1. pass[c].batch \in Seq(Results)
          BY <1>1, <1>4 DEF Storing, PassesOK
    <3>2. DOMAIN pass[c].batch = 1..Len(pass[c].batch) /\ Len(pass[c].batch) \in Nat
          BY <3>1, LenProperties
    <3>3. IsFiniteSet(1..Len(pass[c].batch))
          BY <3>2, FS_Interval
    <3> QED
        BY <3>2, <3>3, FS_Subset
  <2>5. f \in Bijection(J, uncut)
    <3> HIDE DEF J, uncut
    <3>1. f \in [J -> uncut] /\ \A i, j \in J : f[i] = f[j] => i = j
          BY <2>3
    <3>2. \A x \in uncut : \E j \in J : f[j] = x
          BY <2>3
    <3> HIDE DEF f
    <3> QED
        BY <3>1, <3>2 DEF Bijection, Injection, Surjection, IsInjective
  <2>6. Cardinality(uncut) = Cardinality(J)
    <3> HIDE DEF J, uncut, f
    <3> QED
        BY <2>4, <2>5, FS_Bijection DEF ExistsBijection
  <2>7. Cardinality(J) = Occurrences(r, pass[c].batch)
        BY DEF Occurrences
  <2>8. said[r] + Occurrences(r, pass[c].batch) = Occurrences(r, list["results"]) + audit[r]
        BY <1>1, <1>4 DEF LogInv
  <2> HIDE DEF J, uncut, f
  <2> QED
      BY <2>6, <2>7, <2>8
<1> QED
    BY <1>3, <1>4

\* consume_whatsapp_results_batch: as long as no pass was disturbed and no two overlapped, what the
\* workers pushed is in the list or in audit_logs, neither lost nor written twice; and whatever
\* is disturbed, no more is cut off the list than audit_logs has rows.
THEOREM LogIsKept == Spec => []LogIsAccounted
<1>1. WholeInv => removed <= Rows
  <2> SUFFICES ASSUME WholeInv PROVE removed <= Rows
      OBVIOUS
  <2>1. /\ removed + Cardinality(Uncut) <= Rows
        /\ IsFiniteSet(AuditRows) /\ IsFiniteSet(Uncut) /\ removed \in Nat
        BY DEF WholeInv, CutInv, PassesOK
  <2>2. Cardinality(Uncut) \in Nat /\ Rows \in Nat
        BY <2>1, FS_CardinalityType DEF Rows
  <2> QED
      BY <2>1, <2>2
<1>2. WholeInv => LogIsAccounted
      BY <1>1, EveryResultIsCounted DEF LogIsAccounted
<1> QED
    BY <1>2, WholeInvariance, PTL

\* publishSessionInvalid and consume_whatsapp_session_status_batch: an account a shard has blocked
\* is on its way to requires_login or has arrived, unless the push failed, a pass was disturbed,
\* or the operator linked it again.
THEOREM BlocksAreReported == Spec => []BlockIsReported
<1>1. WholeInv => BlockIsReported
      BY DEF WholeInv
<1> QED
    BY <1>1, WholeInvariance, PTL

=============================================================================
