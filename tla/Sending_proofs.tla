--------------------------- MODULE Sending_proofs ---------------------------
(***************************************************************************)
(* The two other ways a message goes out.                                  *)
(*                                                                         *)
(* Dispatch: consent for any number of decisions, requests, channels and   *)
(* retries: type correctness, no message against a refusal, and no message *)
(* out of a rehearsal.                                                     *)
(*                                                                         *)
(* SingleWorker: the workers of an account and the test sends, for any     *)
(* number of workers, messages, tests and campaigns, every connector and   *)
(* every setting: type correctness, every message in one place, reports    *)
(* that are true, and no sending out of a rehearsal.                       *)
(***************************************************************************)
EXTENDS SingleWorker, Dispatch, Lemmas

---------------------------------------------------------------------------
(* The inductive invariant of the dispatch.                                *)

\* The table holds the event of every committed decision and nothing else.
EventsInv ==
    /\ \A d \in Decisions : decision[d].pc = "committed" => Event(d) \in events
    /\ \A e \in events : /\ e.id \in Decisions /\ decision[e.id].pc = "committed"
                         /\ e = Event(e.id)

\* Flushed events have a place of their own, and none is beyond the last.
OrderInv ==
    /\ IsFiniteSet(Flushed)
    /\ \A d \in Flushed : decision[d].at \in 1..Cardinality(Flushed)
    /\ \A d, e \in Flushed : decision[d].at = decision[e].at => d = e

\* A request past its last gate was not refused there.
GateInv == \A r \in Requests : request[r].pc \in {"plan", "push", "send"} => r \notin refused

\* A request about to leave is no rehearsal, and goes where shadow mode sends it.
Live(to) == ~dryRun /\ (Shadowed => to = "shadow")
LiveInv == \A r \in Requests : request[r].pc \in {"push", "send"} => Live(request[r].to)

\* What left belongs to a request that asks no gate again.
LeftInv ==
    \A l \in left : /\ l.request \in Requests /\ request[l.request].pc \in {"send", "done"}
                    /\ l.request \notin refused
                    /\ Live(l.to)

DispatchInv == DispatchTypeOK /\ EventsInv /\ OrderInv /\ GateInv /\ LiveInv /\ LeftInv

---------------------------------------------------------------------------
(* Decisions.                                                              *)

\* The table tells of every refusal: the newest event that concerns a channel
\* is an opt-out whenever one is in force.
LEMMA ConsentIsKnown ==
    ASSUME DispatchTypeOK, EventsInv, OrderInv, NEW ch,
           get_consent_block_reason(ch) = "none"
    PROVE  ~ Refused(ch)
<1>1. _latest_event_opted_in(ch)
    BY DEF get_consent_block_reason
<1> SUFFICES ASSUME NEW d \in Decisions, decision[d].pc = "committed", ~ decision[d].optedIn,
                    Concerns(decision[d], ch),
                    ~ \E e \in Flushed : /\ decision[e].optedIn /\ Concerns(decision[e], ch)
                                         /\ decision[e].at > decision[d].at
             PROVE  FALSE
    BY DEF Refused
<1> DEFINE concerning == {e \in events : Concerns(e, ch)}
<1>2. Event(d) \in concerning
    BY DEF EventsInv, Event, Concerns
<1>3. PICK e \in concerning : e.optedIn /\ \A f \in concerning : f.at <= e.at
    BY <1>1, <1>2 DEF _latest_event_opted_in, NewestOptsIn
<1>4. e.id \in Decisions /\ decision[e.id].pc = "committed" /\ e = Event(e.id)
    BY <1>3 DEF EventsInv
<1>5. /\ e.optedIn = decision[e.id].optedIn /\ e.channel = decision[e.id].channel
      /\ e.at = decision[e.id].at
    BY <1>4 DEF Event
<1>6. Event(d).at = decision[d].at
    BY DEF Event
<1>7. decision[d].at <= decision[e.id].at
    BY <1>2, <1>3, <1>5, <1>6
<1>8. e.id \in Flushed /\ d \in Flushed
    BY <1>4 DEF Flushed
<1>9. decision[e.id].optedIn /\ Concerns(decision[e.id], ch)
    BY <1>3, <1>5 DEF Concerns
<1>10. decision[e.id].at = decision[d].at
  <2>1. decision[d].at \in Nat /\ decision[e.id].at \in Nat
      BY <1>4 DEF DispatchTypeOK
  <2>2. ~ (decision[e.id].at > decision[d].at)
      BY <1>8, <1>9
  <2> QED BY <1>7, <2>1, <2>2
<1>11. e.id = d
    BY <1>8, <1>10 DEF OrderInv
<1> QED BY <1>9, <1>11

LEMMA DecisionKeeps ==
    ASSUME DispatchTypeOK, EventsInv, OrderInv, NEW d \in Decisions, DecisionStep(d)
    PROVE  EventsInv' /\ OrderInv'
<1>1. CASE LoadContact(d)
  <2>1. /\ decision[d].pc = "idle" /\ decision'[d].pc = "loaded" /\ UNCHANGED events
        /\ \A e \in Decisions \ {d} : decision'[e] = decision[e]
    <3>1. PICK in \in BOOLEAN, ch \in Channels \cup {EveryChannel} :
             decision' = [decision EXCEPT ![d] = [pc |-> "loaded", optedIn |-> in, channel |-> ch,
                                                  seen |-> blacklisted, at |-> 0]]
        BY <1>1 DEF LoadContact
    <3> QED BY <3>1, <1>1 DEF LoadContact, DispatchTypeOK
  <2>2. Flushed' = Flushed
      BY <2>1 DEF Flushed
  <2>3. \A e \in Decisions : decision[e].pc \in {"flushed", "committed"} => decision'[e] = decision[e]
      BY <2>1
  <2>4. EventsInv'
      BY <2>1, <2>3 DEF EventsInv, Event
  <2>5. OrderInv'
      BY <2>2, <2>3 DEF OrderInv, Flushed
  <2> QED BY <2>4, <2>5
<1>2. CASE FlushDecision(d)
  <2>1. /\ decision[d].pc = "loaded" /\ UNCHANGED events
        /\ decision'[d].pc = "flushed" /\ decision'[d].at = Cardinality(Flushed) + 1
        /\ \A e \in Decisions \ {d} : decision'[e] = decision[e]
      BY <1>2 DEF FlushDecision, NextPlace, DispatchTypeOK
  <2>2. d \notin Flushed /\ Flushed' = Flushed \cup {d}
      BY <2>1 DEF Flushed
  <2>3. /\ IsFiniteSet(Flushed') /\ Cardinality(Flushed') = Cardinality(Flushed) + 1
        /\ Cardinality(Flushed) \in Nat
      BY <2>2, FS_AddElement, FS_CardinalityType DEF OrderInv
  <2>4. \A e \in Flushed : decision'[e] = decision[e]
      BY <2>1, <2>2 DEF Flushed
  <2>5. \A e \in Flushed' : decision'[e].at \in 1..Cardinality(Flushed')
    <3>1. \A e \in Flushed : decision[e].at \in 1..Cardinality(Flushed)
        BY DEF OrderInv
    <3> QED BY <2>1, <2>2, <2>3, <2>4, <3>1
  <2>6. \A e, f \in Flushed' : decision'[e].at = decision'[f].at => e = f
    <3>1. \A e \in Flushed : decision'[e].at \in 1..Cardinality(Flushed) /\ decision'[e].at # decision'[d].at
        BY <2>1, <2>3, <2>4 DEF OrderInv
    <3> QED BY <2>2, <2>4, <3>1 DEF OrderInv
  <2>7. OrderInv'
      BY <2>3, <2>5, <2>6 DEF OrderInv
  <2>8. EventsInv'
      BY <2>1 DEF EventsInv, Event
  <2> QED BY <2>7, <2>8
<1>3. CASE CommitDecision(d)
  <2>1. /\ decision[d].pc = "flushed" /\ events' = events \cup {Event(d)}
        /\ decision' = [decision EXCEPT ![d].pc = "committed"]
      BY <1>3 DEF CommitDecision
  <2>2. /\ decision'[d].pc = "committed" /\ decision'[d].optedIn = decision[d].optedIn
        /\ decision'[d].channel = decision[d].channel /\ decision'[d].at = decision[d].at
        /\ \A e \in Decisions \ {d} : decision'[e] = decision[e]
      BY <2>1 DEF DispatchTypeOK
  <2>3. Event(d)' = Event(d) /\ \A e \in Decisions \ {d} : Event(e)' = Event(e)
      BY <2>2 DEF Event
  <2>4. Flushed' = Flushed
      BY <2>1, <2>2 DEF Flushed
  <2>5. \A e \in Flushed : decision'[e].at = decision[e].at
      BY <2>2 DEF Flushed
  <2>6. OrderInv'
      BY <2>4, <2>5 DEF OrderInv
  <2>7. EventsInv'
    <3>1. ASSUME NEW e \in Decisions, decision'[e].pc = "committed" PROVE Event(e)' \in events'
        BY <3>1, <2>1, <2>2, <2>3 DEF EventsInv
    <3>2. ASSUME NEW x \in events'
          PROVE  x.id \in Decisions /\ decision'[x.id].pc = "committed" /\ x = Event(x.id)'
      <4>1. CASE x \in events
        <5>1. x.id \in Decisions /\ decision[x.id].pc = "committed" /\ x = Event(x.id)
            BY <4>1 DEF EventsInv
        <5>2. x.id # d
            BY <5>1, <2>1
        <5> QED BY <5>1, <5>2, <2>2, <2>3
      <4>2. CASE x = Event(d)
        <5>1. x.id = d
            BY <4>2 DEF Event
        <5> QED BY <5>1, <4>2, <2>2, <2>3
      <4> QED BY <3>2, <4>1, <4>2, <2>1
    <3> QED BY <3>1, <3>2 DEF EventsInv
  <2> QED BY <2>6, <2>7
<1> QED BY <1>1, <1>2, <1>3 DEF DecisionStep

LEMMA DecisionTypes ==
    ASSUME DispatchTypeOK, OrderInv, NEW d \in Decisions, DecisionStep(d)
    PROVE  DispatchTypeOK'
<1> DEFINE DecisionType == [pc : {"idle", "loaded", "flushed", "committed"}, optedIn : BOOLEAN,
                            channel : ChannelOrAll, seen : BOOLEAN, at : Nat]
           EventType == [id : Decisions, optedIn : BOOLEAN, channel : ChannelOrAll, at : Nat]
<1>1. UNCHANGED <<request, left, refused>>
    BY DEF DecisionStep, LoadContact, FlushDecision, CommitDecision
<1>2. NextPlace \in Nat
    BY FS_CardinalityType DEF NextPlace, OrderInv
<1>3. /\ decision \in [Decisions -> DecisionType] /\ events \subseteq EventType
      /\ {dryRun, shadowMode, shadowPhone, pushes, sends, blacklisted} \subseteq BOOLEAN
    BY DEF DispatchTypeOK
<1>4. SUFFICES /\ decision' \in [Decisions -> DecisionType] /\ events' \subseteq EventType
               /\ UNCHANGED settings /\ blacklisted' \in BOOLEAN
    BY <1>1, <1>3 DEF DispatchTypeOK, settings
<1>5. CASE LoadContact(d)
  <2>1. PICK in \in BOOLEAN, ch \in Channels \cup {EveryChannel} :
            decision' = [decision EXCEPT ![d] = [pc |-> "loaded", optedIn |-> in, channel |-> ch,
                                                 seen |-> blacklisted, at |-> 0]]
      BY <1>5 DEF LoadContact
  <2>2. [pc |-> "loaded", optedIn |-> in, channel |-> ch, seen |-> blacklisted, at |-> 0] \in DecisionType
      BY <1>3 DEF ChannelOrAll
  <2> QED BY <2>1, <2>2, <1>3, <1>5 DEF LoadContact
<1>6. CASE FlushDecision(d)
  <2>1. [decision[d] EXCEPT !.pc = "flushed", !.at = NextPlace] \in DecisionType
      BY <1>2, <1>3
  <2>2. /\ decision' = [decision EXCEPT ![d] = [decision[d] EXCEPT !.pc = "flushed", !.at = NextPlace]]
        /\ UNCHANGED <<settings, events, blacklisted>>
      BY <1>3, <1>6 DEF FlushDecision
  <2> QED BY <1>3, <2>1, <2>2
<1>7. CASE CommitDecision(d)
  <2>1. Event(d) \in EventType
      BY <1>3 DEF Event
  <2>2. /\ decision' = [decision EXCEPT ![d].pc = "committed"] /\ events' = events \cup {Event(d)}
        /\ UNCHANGED settings /\ blacklisted' \in BOOLEAN
      BY <1>3, <1>7 DEF CommitDecision
  <2> QED BY <1>3, <2>1, <2>2
<1> QED BY <1>5, <1>6, <1>7 DEF DecisionStep

---------------------------------------------------------------------------
(* Requests.                                                               *)

RequestPoints == {"idle", "enqueueing", "enqueue", "dispatching", "plan", "push", "send", "done"}
RequestType == [pc : RequestPoints, entry : Entries, to : {"", "customer", "shadow"},
                retries : 0..MaxRetries, status : Endings]

\* A request goes on, or ends, and keeps the rest.
LEMMA GoesOn ==
    ASSUME request \in [Requests -> RequestType], NEW r \in Requests,
           NEW pc \in RequestPoints, NEW to \in {"", "customer", "shadow"},
           request' = [request EXCEPT ![r].pc = pc, ![r].to = to]
    PROVE  /\ request' \in [Requests -> RequestType]
           /\ request'[r].pc = pc /\ request'[r].to = to
           /\ \A q \in Requests \ {r} : request'[q] = request[q]
BY DEF RequestType

LEMMA RequestGoes ==
    ASSUME request \in [Requests -> RequestType], NEW r \in Requests, NEW pc \in RequestPoints,
           request' = [request EXCEPT ![r].pc = pc]
    PROVE  /\ request' \in [Requests -> RequestType]
           /\ request'[r].pc = pc /\ request'[r].to = request[r].to
           /\ \A q \in Requests \ {r} : request'[q] = request[q]
BY DEF RequestType

LEMMA Ended ==
    ASSUME request \in [Requests -> RequestType], NEW r \in Requests, NEW status \in Endings,
           Ends(r, status)
    PROVE  /\ request' \in [Requests -> RequestType]
           /\ request'[r].pc = "done" /\ request'[r].to = request[r].to
           /\ \A q \in Requests \ {r} : request'[q] = request[q]
BY DEF RequestType, Ends, RequestPoints

\* What a step makes of a request: it rests short of its last gate or ends, passes that
\* gate, is planned, or leaves.
Alone(r)   == /\ request' \in [Requests -> RequestType] /\ UNCHANGED <<settings, consent>>
              /\ \A q \in Requests \ {r} : request'[q] = request[q]
Rests(r)   == /\ request[r].pc \notin {"send", "done"}
              /\ request'[r].pc \in {"idle", "enqueueing", "enqueue", "dispatching", "done"}
              /\ refused' \subseteq Requests /\ refused' \ {r} = refused \ {r}
              /\ UNCHANGED left
Opens(r)   == /\ request[r].pc = "dispatching" /\ request'[r].pc = "plan"
              /\ get_consent_block_reason(Channel(r)) = "none" /\ Sees(r)
              /\ UNCHANGED left
Plans(r)   == /\ request[r].pc = "plan" /\ request'[r].pc = "push" /\ Live(request'[r].to)
              /\ UNCHANGED <<left, refused>>
Departs(r) == /\ request[r].pc \in {"push", "send"} /\ request'[r].pc \in {"send", "done"}
              /\ request'[r].to = request[r].to
              /\ \E by \in {"queue", "channel"} :
                    left' \subseteq left \cup {[request |-> r, by |-> by, to |-> request[r].to]}
              /\ UNCHANGED refused

LEMMA GateStep ==
    ASSUME DispatchTypeOK, NEW r \in Requests, NEW from \in {"enqueueing", "dispatching"},
           NEW to \in {"enqueue", "plan"}, from = "dispatching" <=> to = "plan",
           check_consent_or_log(r, from, to)
    PROVE  Alone(r) /\ (Rests(r) \/ Opens(r))
<1>1. request \in [Requests -> RequestType] /\ refused \subseteq Requests
    BY DEF DispatchTypeOK, RequestType, RequestPoints
<1>2. /\ request[r].pc = from /\ Sees(r) /\ UNCHANGED <<settings, consent, left>>
      /\ refused' \subseteq Requests /\ refused' \ {r} = refused \ {r}
    BY <1>1 DEF check_consent_or_log, Sees
<1> DEFINE reason == get_consent_block_reason(Channel(r))
<1>3. reason \in {"none", "opted_out", "blacklisted"}
    BY DEF get_consent_block_reason
<1> HIDE DEF reason
<1>4. \/ reason # "none" /\ Ends(r, reason)
      \/ Ends(r, "failed_retryable")
      \/ reason = "none" /\ request' = [request EXCEPT ![r].pc = to]
    BY DEF check_consent_or_log, reason
<1>5. ASSUME NEW status \in Endings, Ends(r, status) PROVE Alone(r) /\ Rests(r)
    BY <1>1, <1>2, <1>5, Ended DEF Alone, Rests
<1>6. CASE reason # "none" /\ Ends(r, reason)
    BY <1>3, <1>5, <1>6 DEF Endings
<1>7. CASE Ends(r, "failed_retryable")
    BY <1>5, <1>7 DEF Endings
<1>8. CASE reason = "none" /\ request' = [request EXCEPT ![r].pc = to]
  <2>1. Alone(r) /\ request'[r].pc = to
      BY <1>1, <1>2, <1>8, RequestGoes DEF Alone, RequestPoints
  <2>2. CASE to = "plan"
      BY <1>2, <1>8, <2>1, <2>2 DEF Opens, reason
  <2>3. CASE to = "enqueue"
      BY <1>2, <2>1, <2>3 DEF Rests
  <2> QED BY <2>1, <2>2, <2>3
<1> QED BY <1>4, <1>6, <1>7, <1>8

LEMMA RequestMoves ==
    ASSUME DispatchTypeOK, NEW r \in Requests, RequestStep(r)
    PROVE  Alone(r) /\ (Rests(r) \/ Opens(r) \/ Plans(r) \/ Departs(r))
<1>1. /\ request \in [Requests -> RequestType] /\ refused \subseteq Requests
      /\ request[r].to \in {"", "customer", "shadow"}
      /\ {dryRun, shadowMode, shadowPhone, pushes, sends} \subseteq BOOLEAN
    BY DEF DispatchTypeOK, RequestType, RequestPoints
<1>2. apply_shadow_recipient(request[r].to) \in {"", "customer", "shadow"}
    BY <1>1 DEF apply_shadow_recipient
<1>3. CASE check_consent_or_log(r, "enqueueing", "enqueue")
    BY <1>3, GateStep
<1>4. CASE check_consent_or_log(r, "dispatching", "plan")
    BY <1>4, GateStep
<1>5. ASSUME NEW status \in Endings, Ends(r, status), UNCHANGED <<settings, consent, left, refused>>,
             request[r].pc \notin {"send", "done"}
      PROVE  Alone(r) /\ Rests(r)
    BY <1>1, <1>5, Ended DEF Alone, Rests
<1>6. CASE StartRequest(r)
  <2> DEFINE next == IF request[r].entry = "task" THEN "dispatching" ELSE "enqueueing"
  <2>1. next \in RequestPoints /\ request' = [request EXCEPT ![r].pc = next]
      BY <1>6 DEF StartRequest, RequestPoints
  <2>2. next \in {"dispatching", "enqueueing"}
      OBVIOUS
  <2> HIDE DEF next
  <2>3. /\ request' \in [Requests -> RequestType] /\ request'[r].pc = next
        /\ \A q \in Requests \ {r} : request'[q] = request[q]
      BY <1>1, <2>1, RequestGoes
  <2> QED BY <1>1, <1>6, <2>2, <2>3 DEF StartRequest, Alone, Rests
<1>7. CASE send_message_task(r)
  <2>1. CASE request[r].retries < MaxRetries
    <3>1. request' = [request EXCEPT ![r].retries = @ + 1] /\ request[r].pc = "idle"
        BY <1>7, <2>1 DEF send_message_task
    <3>2. request[r].retries + 1 \in 0..MaxRetries
      <4>1. request[r].retries \in 0..MaxRetries
          BY <1>1 DEF RequestType
      <4> QED BY <2>1, <4>1, MaxRetriesIsNat
    <3>3. /\ request' \in [Requests -> RequestType] /\ request'[r].pc = "idle"
          /\ \A q \in Requests \ {r} : request'[q] = request[q]
        BY <1>1, <3>1, <3>2 DEF RequestType
    <3> QED BY <1>1, <1>7, <3>3 DEF send_message_task, Alone, Rests
  <2>2. CASE ~ (request[r].retries < MaxRetries)
      BY <1>5, <1>7, <2>2 DEF send_message_task, Endings
  <2> QED BY <2>1, <2>2
<1>8. CASE enqueue_message(r)
  <2>1. CASE dryRun
      BY <1>5, <1>8, <2>1 DEF enqueue_message, Endings
  <2>2. CASE ~ dryRun
    <3>1. request' = [request EXCEPT ![r].pc = "dispatching",
                                     ![r].to = apply_shadow_recipient(request[r].to)]
        BY <1>1, <1>8, <2>2 DEF enqueue_message, RequestType
    <3>2. /\ request' \in [Requests -> RequestType] /\ request'[r].pc = "dispatching"
          /\ \A q \in Requests \ {r} : request'[q] = request[q]
        BY <1>1, <1>2, <3>1, GoesOn DEF RequestPoints
    <3> QED BY <1>1, <1>8, <3>2 DEF enqueue_message, Alone, Rests
  <2> QED BY <2>1, <2>2
<1>9. CASE PlanDispatch(r)
  <2>1. CASE dryRun
      BY <1>5, <1>9, <2>1 DEF PlanDispatch, Endings
  <2>2. CASE ~ dryRun
    <3>1. request' = [request EXCEPT ![r].pc = "push",
                                     ![r].to = apply_shadow_recipient(request[r].to)]
        BY <1>1, <1>9, <2>2 DEF PlanDispatch, RequestType
    <3>2. /\ request' \in [Requests -> RequestType] /\ request'[r].pc = "push"
          /\ request'[r].to = apply_shadow_recipient(request[r].to)
          /\ \A q \in Requests \ {r} : request'[q] = request[q]
        BY <1>1, <1>2, <3>1, GoesOn DEF RequestPoints
    <3>3. Live(request'[r].to)
        BY <2>2, <3>2 DEF Live, apply_shadow_recipient
    <3> QED BY <1>9, <3>2, <3>3 DEF PlanDispatch, Alone, Plans
  <2> QED BY <2>1, <2>2
<1>10. CASE PushToQueue(r)
  <2>1. request[r].pc = "push" /\ UNCHANGED <<settings, consent, refused>>
      BY <1>10 DEF PushToQueue
  <2>2. CASE pushes /\ UNCHANGED left /\ Ends(r, "failed_retryable")
      BY <1>5, <2>1, <2>2 DEF Endings
  <2>3. CASE /\ pushes => Leaves(r, "queue")
             /\ ~ pushes => UNCHANGED left
             /\ request' = [request EXCEPT ![r].pc = "send"]
    <3>1. /\ request' \in [Requests -> RequestType] /\ request'[r].pc = "send"
          /\ request'[r].to = request[r].to
          /\ \A q \in Requests \ {r} : request'[q] = request[q]
        BY <1>1, <2>3, RequestGoes DEF RequestPoints
    <3>2. left' \subseteq left \cup {[request |-> r, by |-> "queue", to |-> request[r].to]}
        BY <2>3 DEF Leaves
    <3> QED BY <2>1, <3>1, <3>2 DEF Alone, Departs
  <2> QED BY <1>10, <2>2, <2>3 DEF PushToQueue
<1>11. CASE SendToChannel(r)
  <2>1. request[r].pc = "send" /\ UNCHANGED <<settings, consent, refused>>
      BY <1>11 DEF SendToChannel
  <2>2. left' \subseteq left \cup {[request |-> r, by |-> "channel", to |-> request[r].to]}
      BY <1>11 DEF SendToChannel, Leaves
  <2>3. PICK status \in Endings : Ends(r, status)
      BY <1>11 DEF SendToChannel, Endings
  <2> QED BY <1>1, <2>1, <2>2, <2>3, Ended DEF Alone, Departs
<1> QED BY <1>3, <1>4, <1>6, <1>7, <1>8, <1>9, <1>10, <1>11 DEF RequestStep

---------------------------------------------------------------------------
(* The theorems.                                                           *)

LEMMA DispatchStarts == DispatchInit => DispatchInv
<1> SUFFICES ASSUME DispatchInit PROVE DispatchInv
    OBVIOUS
<1> DEFINE Fresh(e) == [pc |-> "idle", entry |-> e, to |-> IF e = "rebuilt" THEN "" ELSE "customer",
                        retries |-> 0, status |-> "none"]
<1>1. request \in [Requests -> {Fresh(e) : e \in Entries}]
    BY DEF DispatchInit
<1>2. \A e \in Entries : Fresh(e) \in RequestType /\ Fresh(e).pc = "idle"
    BY MaxRetriesIsNat DEF RequestType, RequestPoints, Endings
<1> HIDE DEF Fresh
<1>3. DispatchTypeOK
  <2>1. request \in [Requests -> RequestType]
      BY <1>1, <1>2
  <2>2. decision \in [Decisions -> [pc : {"idle", "loaded", "flushed", "committed"}, optedIn : BOOLEAN,
                                    channel : ChannelOrAll, seen : BOOLEAN, at : Nat]]
      BY DEF DispatchInit, NoDecision, ChannelOrAll
  <2> QED BY <2>1, <2>2 DEF DispatchInit, DispatchTypeOK, RequestType, RequestPoints
<1>4. EventsInv
    BY DEF DispatchInit, EventsInv, NoDecision
<1>5. OrderInv
  <2>1. Flushed = {}
      BY DEF DispatchInit, Flushed, NoDecision
  <2> QED BY <2>1, FS_EmptySet DEF OrderInv
<1>6. \A r \in Requests : request[r].pc = "idle"
    BY <1>1, <1>2
<1> QED BY <1>3, <1>4, <1>5, <1>6 DEF DispatchInit, DispatchInv, GateInv, LiveInv, LeftInv

LEMMA DispatchSteps == DispatchInv /\ [DispatchNext]_dispatchVars => DispatchInv'
<1> SUFFICES ASSUME DispatchInv, [DispatchNext]_dispatchVars PROVE DispatchInv'
    OBVIOUS
<1>1. DispatchTypeOK /\ EventsInv /\ OrderInv /\ GateInv /\ LiveInv /\ LeftInv
    BY DEF DispatchInv
<1>2. ASSUME NEW d \in Decisions, DecisionStep(d) PROVE DispatchInv'
  <2>1. DispatchTypeOK' /\ EventsInv' /\ OrderInv'
      BY <1>1, <1>2, DecisionKeeps, DecisionTypes
  <2>2. UNCHANGED <<settings, request, left, refused>>
      BY <1>2 DEF DecisionStep, LoadContact, FlushDecision, CommitDecision
  <2>3. GateInv' /\ LiveInv' /\ LeftInv'
      BY <1>1, <2>2 DEF GateInv, LiveInv, LeftInv, Live, Shadowed, settings
  <2> QED BY <2>1, <2>3 DEF DispatchInv
<1>3. ASSUME NEW r \in Requests, RequestStep(r) PROVE DispatchInv'
  <2>1. Alone(r) /\ (Rests(r) \/ Opens(r) \/ Plans(r) \/ Departs(r))
      BY <1>1, <1>3, RequestMoves
  <2>2. UNCHANGED <<settings, consent>>
      BY <2>1 DEF Alone
  <2>3. EventsInv' /\ OrderInv' /\ \A to : Live(to)' = Live(to)
      BY <1>1, <2>2 DEF EventsInv, OrderInv, Flushed, Event, Live, Shadowed, settings, consent
  <2>4. /\ request' \in [Requests -> RequestType]
        /\ \A q \in Requests \ {r} : request'[q] = request[q]
      BY <2>1 DEF Alone
  <2>5. refused' \subseteq Requests /\ refused' \ {r} = refused \ {r}
      BY <1>1, <2>1 DEF Rests, Opens, Sees, Plans, Departs, DispatchTypeOK
  <2>6. request[r].to \in {"", "customer", "shadow"}
      BY <1>1 DEF DispatchTypeOK
  <2>7. left' \subseteq [request : Requests, by : {"queue", "channel"}, to : {"", "customer", "shadow"}]
    <3>1. \A by \in {"queue", "channel"} : [request |-> r, by |-> by, to |-> request[r].to]
             \in [request : Requests, by : {"queue", "channel"}, to : {"", "customer", "shadow"}]
        BY <2>6
    <3>2. left \subseteq [request : Requests, by : {"queue", "channel"}, to : {"", "customer", "shadow"}]
        BY <1>1 DEF DispatchTypeOK
    <3>3. CASE Departs(r)
        BY <3>1, <3>2, <3>3 DEF Departs
    <3>4. CASE Rests(r) \/ Opens(r) \/ Plans(r)
        BY <3>2, <3>4 DEF Rests, Opens, Plans
    <3> QED BY <2>1, <3>3, <3>4
  <2>8. DispatchTypeOK'
      BY <1>1, <2>2, <2>4, <2>5, <2>7 DEF DispatchTypeOK, RequestType, RequestPoints, settings, consent
  <2>9. GateInv'
    <3>1. ASSUME request'[r].pc \in {"plan", "push", "send"} PROVE r \notin refused'
      <4>1. CASE Opens(r)
        <5>1. ~ Refused(Channel(r))
            BY <1>1, <4>1, ConsentIsKnown DEF Opens
        <5> QED BY <4>1, <5>1 DEF Opens, Sees
      <4> QED BY <1>1, <2>1, <3>1, <4>1 DEF GateInv, Rests, Plans, Departs
    <3> QED BY <1>1, <2>4, <2>5, <3>1 DEF GateInv
  <2>10. LiveInv'
    <3>1. ASSUME request'[r].pc \in {"push", "send"} PROVE Live(request'[r].to)
        BY <1>1, <2>1, <3>1 DEF LiveInv, Rests, Opens, Plans, Departs
    <3> QED BY <1>1, <2>3, <2>4, <3>1 DEF LiveInv
  <2>11. LeftInv'
    <3>1. SUFFICES ASSUME NEW l \in left'
                   PROVE  /\ l.request \in Requests /\ request'[l.request].pc \in {"send", "done"}
                          /\ l.request \notin refused' /\ Live(l.to)
        BY <2>3 DEF LeftInv
    <3>2. CASE Departs(r)
      <4>1. l \in left \/ (l.request = r /\ l.to = request[r].to)
          BY <3>2 DEF Departs
      <4>2. CASE l \in left
          BY <1>1, <2>4, <3>2, <4>2 DEF LeftInv, Departs
      <4>3. CASE l.request = r /\ l.to = request[r].to
          BY <1>1, <3>2, <4>3 DEF GateInv, LiveInv, Departs
      <4> QED BY <4>1, <4>2, <4>3
    <3>3. CASE Rests(r) \/ Opens(r) \/ Plans(r)
      <4>1. l \in left /\ request[r].pc \notin {"send", "done"}
          BY <3>3 DEF Rests, Opens, Plans
      <4>2. l.request # r
          BY <1>1, <4>1 DEF LeftInv
      <4> QED BY <1>1, <2>4, <2>5, <4>1, <4>2 DEF LeftInv
    <3> QED BY <2>1, <3>2, <3>3
  <2> QED BY <2>3, <2>8, <2>9, <2>10, <2>11 DEF DispatchInv
<1>4. CASE UNCHANGED dispatchVars
    BY <1>1, <1>4 DEF dispatchVars, settings, consent, DispatchInv, DispatchTypeOK, EventsInv, OrderInv, Flushed,
           Event, GateInv, LiveInv, LeftInv, Live, Shadowed
<1> QED BY <1>2, <1>3, <1>4 DEF DispatchNext

\* The inductive invariant holds in every reachable state.
THEOREM DispatchInvariance == DispatchSpec => []DispatchInv
BY DispatchStarts, DispatchSteps, PTL DEF DispatchSpec

\* Decisions and requests stay well typed; the task never retries more than it may
\* (tasks.py, consent_service.py).
THEOREM DispatchTypeCorrect == DispatchSpec => []DispatchTypeOK
<1>1. DispatchInv => DispatchTypeOK
    BY DEF DispatchInv
<1> QED BY <1>1, DispatchInvariance, PTL

\* However many decisions for however many channels are flushed and committed in whatever
\* order around it, a message only leaves if no opt-out for its channel was in force when its
\* last stage began (consent_service.py, consent_gate.py).
THEOREM OptOutIsKept == DispatchSpec => []OptOutHolds
<1>1. DispatchInv => OptOutHolds
    BY DEF DispatchInv, LeftInv, OptOutHolds
<1> QED BY <1>1, DispatchInvariance, PTL

\* Nothing leaves in a dry run, and with a shadow phone nothing goes elsewhere
\* (message_dispatch.py, queue_manager.py).
THEOREM DispatchRehearsalIsKept == DispatchSpec => []DispatchRehearses
<1>1. DispatchInv => DispatchRehearses
    BY DEF DispatchInv, LeftInv, Live, DispatchRehearses
<1> QED BY <1>1, DispatchInvariance, PTL
---------------------------------------------------------------------------
(* The inductive invariant of the workers and tests.                       *)
Idle   == {"idle", "unkilled", "open"}
Fresh  == {"read", "valid", "requeue", "deliver"}
Over   == {"taken", "refused", "answered"}
Asking == {"idle", "preflight", "cleared", "route", "enqueue", "queued", "rejected"}

WorkerPoints == Idle \cup Fresh \cup Over
TestPoints   == Asking \cup {"deliver"} \cup Over

ActorsInv ==
    /\ \A w \in Workers : /\ at[w] \in WorkerPoints
                          /\ hand[w] = None <=> at[w] \in Idle
                          /\ at[w] = "answered" => result[w] \in Statuses
    /\ \A t \in Tests : /\ at[t] \in TestPoints
                        /\ at[t] # "idle" => hand[t] = t
                        /\ t \in pushed => at[t] = "queued"

\* The places of a message that was pushed: the queue, a hand, settled (recorded or dropped).
InQueue      == Range(queue)
InHand(i)    == \E w \in Workers : hand[w] = i
IsSettled(i) == row[i] # None \/ lost[i] # "no"
PlacesInv ==
    /\ IsInjective(queue)
    /\ \A v, w \in Workers : hand[v] = hand[w] => v = w \/ hand[v] = None
    /\ \A i \in InQueue : ~ InHand(i) /\ ~ IsSettled(i)
    /\ \A i \in Letters : IsSettled(i) => ~ InHand(i) /\ (row[i] = None \/ lost[i] = "no")
    /\ \A i \in Letters : i \in pushed <=> i \in InQueue \/ InHand(i) \/ IsSettled(i)

HandedInv ==
    /\ \A i \in Letters : handed[i] \in {0, 1} /\ (i \in accepted => handed[i] = 1)
    /\ \A i \in Letters : i \in InQueue \/ i \in Items \ pushed => handed[i] = 0
    /\ \A w \in Workers : at[w] \in Fresh => handed[hand[w]] = 0
    /\ \A t \in Tests : t \notin pushed /\ at[t] \notin Over => handed[t] = 0
    /\ \A a \in Actors : at[a] = "taken" => hand[a] \in accepted
    /\ \A a \in Actors : at[a] = "refused" => handed[hand[a]] = 1 /\ hand[a] \notin accepted

Honest(i, status) ==
    /\ status \in {"delivered", "sent"} =>
          i \in accepted \/ (connector = "web" /\ i \in shownBefore /\ handed[i] = 1)
    /\ status = "failed_permanent" => i \notin accepted
ReportInv ==
    /\ \A a \in Actors : at[a] = "answered" => Honest(hand[a], result[a])
    /\ \A i \in Letters : row[i] # None => Honest(i, row[i])
    /\ \A i \in accepted : Address(connector, Payload(i)) # NoValue

Cleared(t) == opsFlag /\ ~asked[t].dry
TestsInv ==
    /\ mode # "live" => \A i \in Letters : handed[i] = 0
    /\ \A t \in Tests : /\ at[t] \in {"cleared", "route", "enqueue", "queued"} => Cleared(t)
                        /\ at[t] \in {"route", "enqueue", "queued"} => asked[t].confirm
                        /\ at[t] = "deliver" /\ ~asked[t].dry => Cleared(t) /\ asked[t].confirm
                        /\ at[t] = "preflight" => ~asked[t].dry
                        /\ t \in bridged => at[t] = "queued"
                        /\ handed[t] > 0 => Cleared(t) /\ asked[t].confirm
WorkersInv == ConfigInit /\ WorkersTypeOK /\ ActorsInv /\ PlacesInv /\ HandedInv /\ ReportInv /\ TestsInv
---------------------------------------------------------------------------
(* What the connectors make of an answer.                                  *)

\* The answers an API may give.
NoAnswer(answer) ==
    \/ answer.kind # "http"
    \/ answer.kind = "http" /\ answer.code = 502
    \/ answer.kind = "http" /\ answer.code = 200 /\ ~ answer.body.json
Takes(answer) ==
    /\ answer.kind = "http" /\ answer.code = 200 /\ answer.body.json
    /\ connector # "rubika" => answer.body.ok
    /\ answer.body.code = NoCode
    /\ answer.body.status = "OK" \/ (answer.body.id /\ answer.body.status = "")
Refuses(answer) ==
    /\ answer.kind = "http" /\ answer.body.json
    /\ ~ answer.body.ok /\ ~ answer.body.id /\ answer.body.status = "ERROR"
    /\ \/ answer.code \in {400, 401, 429} /\ answer.body.code = answer.code
       \/ answer.code = 200 /\ answer.body.code \in {403, 429} /\ connector # "evolution"

LEMMA AnswerKinds ==
    ASSUME NEW taken \in BOOLEAN, NEW answer \in Answers(taken)
    PROVE  NoAnswer(answer) \/ (taken /\ Takes(answer)) \/ (~ taken /\ Refuses(answer))
<1>1. ASSUME answer \in {Timeout, Transport, Http(502, Text), Http(200, Text)}
      PROVE  NoAnswer(answer)
    BY <1>1 DEF Timeout, Transport, Http, Text, NoAnswer
<1>2. ASSUME taken, NEW id \in BOOLEAN, NEW st, (id /\ st = "") \/ st = "OK",
             answer = Http(200, Json(connector # "rubika", id, st, NoCode))
      PROVE  Takes(answer)
  <2>1. PICK ok \in BOOLEAN : ok = (connector # "rubika")
      OBVIOUS
  <2>2. PICK body : body = Json(ok, id, st, NoCode)
      OBVIOUS
  <2>3. /\ body.json = TRUE /\ body.ok = ok /\ body.id = id /\ body.status = st
        /\ body.code = NoCode
      BY <2>2 DEF Json
  <2>4. answer.kind = "http" /\ answer.code = 200 /\ answer.body = body
      BY <1>2, <2>1, <2>2 DEF Http
  <2>5. st = "OK" \/ (id /\ st = "")
      BY <1>2
  <2>6. answer.body.json /\ (connector # "rubika" => answer.body.ok) /\ answer.body.code = NoCode
      BY <2>1, <2>3, <2>4
  <2>7. answer.body.status = "OK" \/ (answer.body.id /\ answer.body.status = "")
      BY <2>3, <2>4, <2>5
  <2> QED BY <2>4, <2>6, <2>7, Zenon DEF Takes
<1> DEFINE Neither == {Timeout, Transport, Http(502, Text), Http(200, Text)}
           Status  == {Http(200, Json(connector # "rubika", TRUE, st, NoCode)) : st \in {"", "OK"}}
           Done    == Http(200, Json(connector # "rubika", FALSE, "OK", NoCode))
           Errors  == {Http(c, Json(FALSE, FALSE, "ERROR", c)) : c \in {400, 401, 429}}
           Inside  == {Http(200, Json(FALSE, FALSE, "ERROR", c)) : c \in {403, 429}}
           Noes    == IF connector = "evolution" THEN {} ELSE Inside
<1>3. Answers(taken) = Neither \cup IF taken THEN Status \cup {Done} ELSE Errors \cup Noes
    BY DEF Answers
<1>4. ASSUME taken, answer \in Status
      PROVE  Takes(answer)
  <2>1. PICK st \in {"", "OK"} : answer = Http(200, Json(connector # "rubika", TRUE, st, NoCode))
      BY <1>4
  <2> QED BY <1>2, <1>4, <2>1
<1>5. ASSUME taken, answer = Done
      PROVE  Takes(answer)
    BY <1>2, <1>5
<1>6. ASSUME answer \in Errors
      PROVE  Refuses(answer)
  <2>1. PICK c \in {400, 401, 429} : answer = Http(c, Json(FALSE, FALSE, "ERROR", c))
      BY <1>6
  <2>2. /\ answer.kind = "http" /\ answer.code = c /\ answer.body.json = TRUE
        /\ answer.body.ok = FALSE /\ answer.body.id = FALSE
        /\ answer.body.status = "ERROR" /\ answer.body.code = c
      BY <2>1 DEF Http, Json
  <2> QED BY <2>2 DEF Refuses
<1>7. ASSUME answer \in Noes
      PROVE  Refuses(answer)
  <2> HIDE DEF Inside
  <2>1. connector # "evolution" /\ answer \in Inside
      BY <1>7
  <2> USE DEF Inside
  <2>2. PICK c \in {403, 429} : answer = Http(200, Json(FALSE, FALSE, "ERROR", c))
      BY <2>1
  <2>3. /\ answer.kind = "http" /\ answer.code = 200 /\ answer.body.json = TRUE
        /\ answer.body.ok = FALSE /\ answer.body.id = FALSE
        /\ answer.body.status = "ERROR" /\ answer.body.code = c
      BY <2>2 DEF Http, Json
  <2> QED BY <2>1, <2>3 DEF Refuses
<1> HIDE DEF Neither, Status, Done, Errors, Noes
<1>8. CASE taken
  <2>1. answer \in Neither \/ answer \in Status \/ answer = Done
      BY <1>3, <1>8
  <2>2. answer \in Neither => NoAnswer(answer)
      BY <1>1 DEF Neither
  <2> QED BY <1>4, <1>5, <1>8, <2>1, <2>2
<1>9. CASE ~ taken
  <2>1. answer \in Neither \/ answer \in Errors \/ answer \in Noes
      BY <1>3, <1>9
  <2>2. answer \in Neither => NoAnswer(answer)
      BY <1>1 DEF Neither
  <2> QED BY <1>6, <1>7, <1>9, <2>1, <2>2
<1> QED BY <1>8, <1>9

\* What is told of an answer that says nothing, of a yes and of a no.
FairStatus(answer, status) ==
    /\ NoAnswer(answer) => status \in {"failed_retryable", "raised"}
    /\ Takes(answer)    => status \in {"delivered", "sent"}
    /\ Refuses(answer)  => status \in {"failed_retryable", "failed_permanent"}

\* An answer that says yes reaches the last branch.
LEMMA YesIsRead ==
    ASSUME NEW answer, Takes(answer)
    PROVE  /\ ~ (answer.kind # "http" \/ answer.code \in RetryableHttp)
           /\ ~ (answer.code >= 400) /\ answer.code # 401 /\ answer.code \in {200, 201}
           /\ answer.kind = "http" /\ answer.body.json
<1>1. answer.kind = "http" /\ answer.code = 200 /\ answer.body.json
    BY DEF Takes
<1> QED BY <1>1 DEF RetryableHttp

LEMMA TelegramIsFair ==
    ASSUME connector = "telegram", NEW answer
    PROVE  FairStatus(answer, send_telegram_text_message(answer))
<1> USE DEF send_telegram_text_message, FromAnswer, _result_from_telegram_response, Failed, NoCode
<1>1. ASSUME NoAnswer(answer)
      PROVE  send_telegram_text_message(answer) \in {"failed_retryable", "raised"}
    BY <1>1 DEF NoAnswer, RetryableHttp
<1>2. ASSUME Takes(answer)
      PROVE  send_telegram_text_message(answer) = "delivered"
  <2>1. send_telegram_text_message(answer) = _result_from_telegram_response(answer.body)
      BY <1>2, YesIsRead
  <2>2. answer.body.ok
      BY <1>2 DEF Takes
  <2>3. _result_from_telegram_response(answer.body) = "delivered"
      BY <2>2
  <2> QED BY <2>1, <2>3
<1>3. ASSUME Refuses(answer)
      PROVE  send_telegram_text_message(answer) \in {"failed_retryable", "failed_permanent"}
    BY <1>3 DEF Refuses, RetryableHttp
<1> QED BY <1>1, <1>2, <1>3 DEF FairStatus

LEMMA BaleIsFair ==
    ASSUME connector = "bale", NEW answer
    PROVE  FairStatus(answer, send_bale_text_message(answer))
<1> USE DEF send_bale_text_message, FromAnswer, _result_from_bale_response, Failed, NoCode
<1>1. ASSUME NoAnswer(answer)
      PROVE  send_bale_text_message(answer) \in {"failed_retryable", "raised"}
    BY <1>1 DEF NoAnswer, RetryableHttp
<1>2. ASSUME Takes(answer)
      PROVE  send_bale_text_message(answer) = "delivered"
  <2>1. send_bale_text_message(answer) = _result_from_bale_response(answer.body)
      BY <1>2, YesIsRead
  <2>2. answer.body.ok
      BY <1>2 DEF Takes
  <2>3. _result_from_bale_response(answer.body) = "delivered"
      BY <2>2
  <2> QED BY <2>1, <2>3
<1>3. ASSUME Refuses(answer)
      PROVE  send_bale_text_message(answer) \in {"failed_retryable", "failed_permanent"}
    BY <1>3 DEF Refuses, RetryableHttp
<1> QED BY <1>1, <1>2, <1>3 DEF FairStatus

LEMMA RubikaIsFair ==
    ASSUME connector = "rubika", NEW answer
    PROVE  FairStatus(answer, send_rubika_text_message(answer))
<1> USE DEF send_rubika_text_message, FromAnswer, _result_from_rubika_response, Failed, NoCode
<1>1. ASSUME NoAnswer(answer)
      PROVE  send_rubika_text_message(answer) \in {"failed_retryable", "raised"}
    BY <1>1 DEF NoAnswer, RetryableHttp
<1>2. ASSUME Takes(answer)
      PROVE  send_rubika_text_message(answer) = "delivered"
  <2>1. send_rubika_text_message(answer) = _result_from_rubika_response(answer.body)
      BY <1>2, YesIsRead
  <2>2. /\ answer.body.code = 0
        /\ answer.body.status = "OK" \/ (answer.body.id /\ answer.body.status = "")
      BY <1>2 DEF Takes
  <2>3. CASE answer.body.status = "OK"
    <3>1. ~ (answer.body.status \in {"ERROR", "FAILED"} \/ answer.body.code >= 400)
        BY <2>2, <2>3
    <3> QED BY <2>1, <2>3, <3>1
  <2>4. CASE answer.body.id /\ answer.body.status = ""
    <3>1. answer.body.status \notin {"ERROR", "FAILED"}
        BY <2>4
    <3> QED BY <2>1, <2>4, <3>1
  <2> QED BY <2>2, <2>3, <2>4
<1>3. ASSUME Refuses(answer)
      PROVE  send_rubika_text_message(answer) \in {"failed_retryable", "failed_permanent"}
    BY <1>3 DEF Refuses, RetryableHttp
<1> QED BY <1>1, <1>2, <1>3 DEF FairStatus

LEMMA CloudIsFair ==
    ASSUME connector # "rubika", NEW answer
    PROVE  FairStatus(answer, send_whatsapp_text_message(answer))
<1> USE DEF send_whatsapp_text_message, _result_from_whatsapp_response, _classify_meta_error, RetryableMeta, Failed, NoCode
<1>1. ASSUME NoAnswer(answer)
      PROVE  send_whatsapp_text_message(answer) \in {"failed_retryable", "raised"}
    BY <1>1 DEF NoAnswer, RetryableHttp
<1>2. ASSUME Takes(answer)
      PROVE  send_whatsapp_text_message(answer) = "delivered"
  <2>1. send_whatsapp_text_message(answer) = _result_from_whatsapp_response(answer.body)
      BY <1>2, YesIsRead
  <2>2. answer.body.ok
      BY <1>2 DEF Takes
  <2>3. _result_from_whatsapp_response(answer.body) = "delivered"
      BY <2>2
  <2> QED BY <2>1, <2>3
<1>3. ASSUME Refuses(answer)
      PROVE  send_whatsapp_text_message(answer) \in {"failed_retryable", "failed_permanent"}
    BY <1>3 DEF Refuses, RetryableHttp
<1> QED BY <1>1, <1>2, <1>3 DEF FairStatus

LEMMA EvolutionIsFair ==
    ASSUME connector = "evolution", NEW answer
    PROVE  FairStatus(answer, deliver_whatsapp_evolution_live(answer))
<1> USE DEF deliver_whatsapp_evolution_live, Failed, NoCode
<1>1. ASSUME NoAnswer(answer)
      PROVE  deliver_whatsapp_evolution_live(answer) \in {"failed_retryable", "raised"}
    BY <1>1 DEF NoAnswer, RetryableHttp
<1>2. ASSUME Takes(answer)
      PROVE  deliver_whatsapp_evolution_live(answer) = "sent"
    BY <1>2, YesIsRead
<1>3. ASSUME Refuses(answer)
      PROVE  deliver_whatsapp_evolution_live(answer) \in {"failed_retryable", "failed_permanent"}
    BY <1>3 DEF Refuses, RetryableHttp
<1> QED BY <1>1, <1>2, <1>3 DEF FairStatus

\* The answer an actor acts on is honest about the message in its hands.
LEMMA AnswerIsHonest ==
    ASSUME connector \in Connectors_, NEW a, at[a] \in {"taken", "refused"},
           at[a] = "taken" => hand[a] \in accepted,
           at[a] = "refused" => handed[hand[a]] = 1 /\ hand[a] \notin accepted,
           NEW status \in Results(a)
    PROVE  status \in Statuses /\ Honest(hand[a], status)
<1>1. CASE connector = "web"
  <2>1. PICK b \in BrowserRuns :
            /\ b.goesOut = (at[a] = "taken")
            /\ b.goesOut => PressesSend(b)
            /\ b.earlier = (hand[a] \in shownBefore)
            /\ status = send_whatsapp_web_message(b)
      BY <1>1 DEF Results
  <2>2. status \in {"failed_retryable", "failed_permanent", "delivered"}
      BY <2>1 DEF send_whatsapp_web_message
  <2>3. ASSUME at[a] = "taken"
        PROVE  status # "failed_permanent"
      BY <2>1, <2>3 DEF send_whatsapp_web_message, PressesSend
  <2>4. ASSUME at[a] = "refused", status = "delivered"
        PROVE  hand[a] \in shownBefore
    <3>1. ~ b.goesOut
        BY <2>1, <2>4
    <3>2. _wait_for_outgoing_message(b)
        BY <2>1, <2>4 DEF send_whatsapp_web_message
    <3> QED BY <2>1, <3>1, <3>2 DEF _wait_for_outgoing_message
  <2> QED BY <1>1, <2>2, <2>3, <2>4 DEF Honest, Statuses
<1>2. CASE connector # "web"
  <2>1. PICK answer \in Answers(at[a] = "taken") : status = Classify(answer)
      BY <1>2 DEF Results
  <2>2. /\ at[a] = "taken" => NoAnswer(answer) \/ Takes(answer)
        /\ at[a] = "refused" => NoAnswer(answer) \/ Refuses(answer)
    <3>1. (at[a] = "taken") \in BOOLEAN
        OBVIOUS
    <3> QED BY <2>1, <3>1, AnswerKinds
  <2>3. FairStatus(answer, status)
      BY <1>2, <2>1, TelegramIsFair, BaleIsFair, RubikaIsFair, CloudIsFair, EvolutionIsFair DEF Classify
  <2> QED BY <2>2, <2>3 DEF FairStatus, Honest, Statuses
<1> QED BY <1>1, <1>2

---------------------------------------------------------------------------
(* Types.                                                                  *)

\* Who has gone past a pop holds a message.
LEMMA HandIsLetter ==
    ASSUME WorkersTypeOK, ActorsInv, NEW a \in Actors,
           a \in Workers => at[a] \notin Idle, a \in Tests => at[a] # "idle"
    PROVE  hand[a] \in Letters
BY DEF WorkersTypeOK, ActorsInv, Actors, Letters, Idle

LEMMA StatusIsKnown ==
    ASSUME WorkersTypeOK, HandedInv, NEW a \in Actors, at[a] \in {"taken", "refused"},
           NEW status \in Results(a)
    PROVE  status \in Statuses /\ Honest(hand[a], status)
<1>1. /\ connector \in Connectors_
      /\ at[a] = "taken" => hand[a] \in accepted
      /\ at[a] = "refused" => handed[hand[a]] = 1 /\ hand[a] \notin accepted
    BY DEF WorkersTypeOK, HandedInv
<1> QED BY <1>1, AnswerIsHonest

\* Stopped by one of the guards, or on its way to the platform.
LEMMA DeliveryEnds ==
    ASSUME NEW a, deliver_platform_message(a)
    PROVE  /\ at[a] = "deliver"
           /\ UNCHANGED <<config, flags, hand, asked, outcome, queue, bridged, pushed>>
           /\ \/ /\ \E stop \in {"dry_run", "shadow_sent", "failed_permanent"} : Finishes(a, stop)
                 /\ UNCHANGED platform
              \/ /\ mode = "live" /\ ~ (a \in Tests /\ asked[a].dry)
                 /\ Address(connector, Payload(hand[a])) # NoValue
                 /\ \E taken \in BOOLEAN : HandsOver(a, taken)
<1> DEFINE dry == a \in Tests /\ asked[a].dry
<1>1. CASE Precheck(hand[a], dry) # "go"
  <2>1. Precheck(hand[a], dry) \in {"dry_run", "shadow_sent", "failed_permanent"}
      BY <1>1 DEF Precheck
  <2> QED BY <1>1, <2>1 DEF deliver_platform_message
<1>2. CASE Precheck(hand[a], dry) = "go"
  <2>1. mode = "live" /\ ~ dry /\ Address(connector, Payload(hand[a])) # NoValue
      BY <1>2 DEF Precheck
  <2> QED BY <1>2, <2>1 DEF deliver_platform_message
<1> QED BY <1>1, <1>2

LEMMA DeliveryTypes ==
    ASSUME WorkersTypeOK, NEW a \in Actors, hand[a] \in Letters, deliver_platform_message(a)
    PROVE  WorkersTypeOK'
<1> USE DEF WorkersTypeOK, config, flags, outcome, platform
<1>1. ASSUME NEW stop \in {"dry_run", "shadow_sent", "failed_permanent"}, Finishes(a, stop),
             UNCHANGED platform
      PROVE  WorkersTypeOK'
    BY <1>1, DeliveryEnds DEF Finishes, Goes, Points, Statuses
<1>2. ASSUME NEW taken \in BOOLEAN, HandsOver(a, taken)
      PROVE  WorkersTypeOK'
  <2>1. at' \in [Actors -> Points]
      BY <1>2 DEF HandsOver, Goes, Points
  <2>2. handed' \in [Letters -> Nat]
      BY <1>2 DEF HandsOver
  <2>3. accepted' \subseteq Letters /\ UNCHANGED result
      BY <1>2 DEF HandsOver
  <2>4. UNCHANGED <<config, flags, hand, asked, outcome, queue, bridged, pushed>>
      BY DeliveryEnds
  <2> QED BY <2>1, <2>2, <2>3, <2>4
<1> QED BY <1>1, <1>2, DeliveryEnds

LEMMA WorkerTypes ==
    ASSUME WorkersTypeOK, ActorsInv, HandedInv, NEW w \in Workers, WorkerStep(w)
    PROVE  WorkersTypeOK'
<1> USE DEF WorkersTypeOK, config, flags, outcome, platform
<1>1. w \in Actors
    BY DEF Actors
<1>2. CASE check_kill_switch(w) \/ check_account_paused(w) \/ check_campaign_paused(w)
    BY <1>1, <1>2 DEF check_kill_switch, check_account_paused, check_campaign_paused, Goes, Moves, Points
<1>3. CASE read_next_payload(w)
  <2>1. CASE queue = <<>>
      BY <1>1, <1>3, <2>1 DEF read_next_payload, Goes, Points
  <2>2. CASE queue # <<>>
    <3>1. Head(queue) \in Letters /\ Tail(queue) \in Seq(Letters)
        BY <2>2
    <3> QED BY <1>1, <1>3, <2>2, <3>1 DEF read_next_payload, Goes, Points
  <2> QED BY <2>1, <2>2
<1>4. CASE validate_payload(w)
  <2>1. hand[w] \in Letters
      BY <1>1, <1>4, HandIsLetter, Disjoint DEF validate_payload, Idle
  <2> QED BY <1>1, <1>4, <2>1 DEF validate_payload, EndsRun, Goes, Points
<1>5. CASE Requeue(w)
  <2>1. hand[w] \in Letters
      BY <1>1, <1>5, HandIsLetter, Disjoint DEF Requeue, Idle
  <2>2. <<hand[w]>> \o queue \in Seq(Letters)
      BY <2>1
  <2> QED BY <1>1, <1>5, <2>2 DEF Requeue, EndsRun, Goes, Points
<1>6. CASE deliver_platform_message(w)
  <2>1. hand[w] \in Letters
      BY <1>1, <1>6, HandIsLetter, Disjoint DEF deliver_platform_message, Idle
  <2> QED BY <1>1, <1>6, <2>1, DeliveryTypes
<1>7. CASE Answer(w)
  <2>1. hand[w] \in Letters
      BY <1>1, <1>7, HandIsLetter, Disjoint DEF Answer, Idle
  <2>2. \A status \in Results(w) : status \in Statuses
      BY <1>1, <1>7, StatusIsKnown DEF Answer
  <2>3. PICK status \in Results(w) :
            IF status = "raised" /\ w \in Workers
            THEN EndsRun(w) /\ lost' = [lost EXCEPT ![hand[w]] = "error"]
            ELSE Finishes(w, status) /\ UNCHANGED <<hand, lost>>
      BY <1>7 DEF Answer
  <2>4. UNCHANGED <<config, flags, asked, row, platform, queue, bridged, pushed>>
      BY <1>7 DEF Answer
  <2>5. CASE status = "raised"
      BY <1>1, <2>1, <2>3, <2>4, <2>5 DEF EndsRun, Goes, Points
  <2>6. CASE status # "raised"
      BY <1>1, <2>2, <2>3, <2>4, <2>6 DEF Finishes, Goes, Points
  <2> QED BY <2>5, <2>6
<1>8. CASE handle_result(w)
  <2>1. hand[w] \in Letters
      BY <1>1, <1>8, HandIsLetter, Disjoint DEF handle_result, Idle
  <2>2. Recorded(result[w]) \in Statuses \cup {None}
      BY <1>1 DEF Recorded, Statuses
  <2> QED BY <1>1, <1>8, <2>1, <2>2 DEF handle_result, EndsRun, Goes, Points
<1>9. CASE CrashWorker(w)
  <2>1. hand[w] # None => hand[w] \in Letters
      BY <1>1
  <2> QED BY <1>1, <1>9, <2>1 DEF CrashWorker, EndsRun, Goes, Points
<1> QED BY <1>2, <1>3, <1>4, <1>5, <1>6, <1>7, <1>8, <1>9 DEF WorkerStep

LEMMA TestTypes ==
    ASSUME WorkersTypeOK, ActorsInv, HandedInv, NEW t \in Tests, TestStep(t)
    PROVE  WorkersTypeOK'
<1> USE DEF WorkersTypeOK, config, flags, outcome, platform
<1>1. t \in Actors /\ t \in Letters /\ t \notin Workers
    BY Disjoint DEF Actors, Letters
<1>2. CASE AskTest(t)
  <2>1. PICK dry \in BOOLEAN, confirm \in BOOLEAN :
            /\ asked' = [asked EXCEPT ![t] = [dry |-> dry, confirm |-> confirm]]
            /\ Goes(t, IF dry THEN "deliver" ELSE "preflight")
      BY <1>2 DEF AskTest
  <2>2. asked' \in [Tests -> [dry : BOOLEAN, confirm : BOOLEAN]]
      BY <2>1
  <2>3. at' \in [Actors -> Points]
      BY <1>1, <2>1 DEF Goes, Points
  <2>4. hand' \in [Actors -> Letters \cup {None}]
      BY <1>1, <1>2 DEF AskTest
  <2> QED BY <1>2, <2>2, <2>3, <2>4 DEF AskTest
<1>3. CASE build_live_send_preflight(t) \/ build_operational_worker_settings(t) \/ RouteTest(t)
    BY <1>1, <1>3 DEF build_live_send_preflight, build_operational_worker_settings, RouteTest, Goes,
                      Moves, Points
<1>4. CASE _enqueue_whatsapp_ops_test_send(t)
  <2>1. Append(queue, t) \in Seq(Letters)
      BY <1>1
  <2> QED BY <1>1, <1>4, <2>1 DEF _enqueue_whatsapp_ops_test_send, Goes, Points
<1>5. CASE _enqueue_whatsapp_baileys_ops_test_send(t)
    BY <1>1, <1>5 DEF _enqueue_whatsapp_baileys_ops_test_send, Goes, Points
<1>6. CASE deliver_platform_message(t)
  <2>1. hand[t] \in Letters
      BY <1>1, <1>6, HandIsLetter DEF deliver_platform_message
  <2> QED BY <1>1, <1>6, <2>1, DeliveryTypes
<1>7. CASE Answer(t)
  <2>1. PICK status \in Results(t) : Finishes(t, status) /\ UNCHANGED <<hand, lost>>
      BY <1>1, <1>7 DEF Answer
  <2>2. status \in Statuses
      BY <1>1, <1>7, StatusIsKnown DEF Answer
  <2> QED BY <1>1, <1>7, <2>1, <2>2 DEF Answer, Finishes, Goes, Points
<1> QED BY <1>2, <1>3, <1>4, <1>5, <1>6, <1>7 DEF TestStep

Switches == set_kill_switch \/ PauseAccount \/ set_whatsapp_send_kill_switch \/ AccountFails
            \/ \E c \in Campaigns : PauseCampaign(c)

LEMMA TypeStep ==
    ASSUME WorkersTypeOK, ActorsInv, HandedInv, [WorkersNext]_workerVars
    PROVE  WorkersTypeOK'
<1> USE DEF WorkersTypeOK, config, flags, actors, outcome, platform
<1>1. CASE Switches
    BY <1>1 DEF Switches, set_kill_switch, PauseAccount, set_whatsapp_send_kill_switch, AccountFails,
                PauseCampaign, Others
<1>2. ASSUME NEW i \in Items, Push(i)
      PROVE  WorkersTypeOK'
  <2>1. i \in Letters /\ Append(queue, i) \in Seq(Letters)
      BY DEF Letters
  <2> QED BY <1>2, <2>1 DEF Push
<1>3. CASE UNCHANGED workerVars
    BY <1>3 DEF workerVars
<1> QED BY <1>1, <1>2, <1>3, WorkerTypes, TestTypes DEF WorkersNext, Switches

---------------------------------------------------------------------------
(* Who holds something, and where a test is.                               *)

Sets == /\ Workers \subseteq Actors /\ Tests \subseteq Actors /\ Workers \cap Tests = {}
        /\ Items \cap Tests = {} /\ Tests \subseteq Letters /\ Items \subseteq Letters
        /\ None \notin Letters

LEMMA SetsApart == Sets
BY Disjoint, NoneAssumption DEF Sets, Actors, Letters

\* The only change to an actor: a worker goes on, ...
LEMMA WorkerGoes ==
    ASSUME WorkersTypeOK, ActorsInv, NEW w \in Workers, NEW pc \in WorkerPoints, Goes(w, pc),
           hand' \in [Actors -> Letters \cup {None}], \A b \in Actors \ {w} : hand'[b] = hand[b],
           hand'[w] = None <=> pc \in Idle,
           result' \in [Actors -> Statuses \cup {None}], \A b \in Actors \ {w} : result'[b] = result[b],
           pc = "answered" => result'[w] \in Statuses,
           pushed' = pushed
    PROVE  ActorsInv'
BY SetsApart DEF Sets, WorkersTypeOK, ActorsInv, Goes

\* ... or a test does.
LEMMA TestGoes ==
    ASSUME WorkersTypeOK, ActorsInv, NEW t \in Tests, NEW pc \in TestPoints, Goes(t, pc),
           \A b \in Actors \ {t} : hand'[b] = hand[b], pc # "idle" => hand'[t] = t,
           \A b \in Actors \ {t} : result'[b] = result[b],
           pushed' \subseteq pushed \cup {t}, t \in pushed' => pc = "queued"
    PROVE  ActorsInv'
BY SetsApart DEF Sets, WorkersTypeOK, ActorsInv, Goes

LEMMA ActorStep ==
    ASSUME WorkersTypeOK, ActorsInv, HandedInv, [WorkersNext]_workerVars
    PROVE  ActorsInv'
<1> USE DEF Idle, Fresh, Over, Asking, WorkerPoints, TestPoints
<1>1. /\ hand \in [Actors -> Letters \cup {None}] /\ result \in [Actors -> Statuses \cup {None}]
      /\ WorkersTypeOK'
      /\ hand' \in [Actors -> Letters \cup {None}] /\ result' \in [Actors -> Statuses \cup {None}]
    BY TypeStep DEF WorkersTypeOK
<1>2. ASSUME NEW w \in Workers, WorkerStep(w)
      PROVE  ActorsInv'
  <2>1. w \in Actors /\ (hand[w] = None <=> at[w] \in Idle)
      BY SetsApart DEF Sets, ActorsInv
  <2>2. ASSUME EndsRun(w), pushed' = pushed
        PROVE  ActorsInv'
      BY <1>1, <2>1, <2>2, WorkerGoes DEF EndsRun
  <2>3. CASE check_kill_switch(w) \/ check_account_paused(w) \/ check_campaign_paused(w)
    <3>1. PICK pc \in WorkerPoints : Goes(w, pc) /\ (pc \in Idle <=> at[w] \in Idle) /\ pc # "answered"
        BY <2>3 DEF check_kill_switch, check_account_paused, check_campaign_paused
    <3>2. UNCHANGED <<hand, result, pushed>>
        BY <2>3 DEF check_kill_switch, check_account_paused, check_campaign_paused, Moves
    <3> QED BY <1>1, <2>1, <3>1, <3>2, WorkerGoes
  <2>4. CASE read_next_payload(w)
    <3>1. UNCHANGED <<result, pushed>> /\ at[w] = "open"
        BY <2>4 DEF read_next_payload
    <3>2. CASE queue = <<>>
      <4>1. Goes(w, "idle") /\ UNCHANGED hand
          BY <2>4, <3>2 DEF read_next_payload
      <4> QED BY <1>1, <2>1, <3>1, <4>1, WorkerGoes
    <3>3. CASE queue # <<>>
      <4>1. Goes(w, "read") /\ hand' = [hand EXCEPT ![w] = Head(queue)]
          BY <2>4, <3>3 DEF read_next_payload
      <4>2. Head(queue) \in Letters /\ Head(queue) # None
          BY <3>3, SetsApart DEF WorkersTypeOK, Sets
      <4> QED BY <1>1, <2>1, <3>1, <4>1, <4>2, WorkerGoes
    <3> QED BY <3>2, <3>3
  <2>5. CASE validate_payload(w)
    <3>1. UNCHANGED pushed /\ at[w] = "read"
        BY <2>5 DEF validate_payload
    <3>2. CASE Goes(w, "valid") /\ UNCHANGED <<hand, result>>
        BY <1>1, <2>1, <3>1, <3>2, WorkerGoes
    <3> QED BY <2>2, <2>5, <3>1, <3>2 DEF validate_payload
  <2>6. CASE Requeue(w) \/ handle_result(w) \/ CrashWorker(w)
      BY <2>2, <2>6 DEF Requeue, handle_result, CrashWorker
  <2>7. ASSUME NEW status \in Statuses, Finishes(w, status), UNCHANGED <<hand, pushed>>, at[w] \notin Idle
        PROVE  ActorsInv'
    <3>1. Goes(w, "answered") /\ result' = [result EXCEPT ![w] = status]
        BY <2>7 DEF Finishes
    <3>2. result'[w] = status /\ \A b \in Actors \ {w} : result'[b] = result[b]
        BY <1>1, <2>1, <3>1
    <3> QED BY <1>1, <2>1, <2>7, <3>1, <3>2, WorkerGoes
  <2>8. CASE deliver_platform_message(w)
    <3>1. at[w] = "deliver" /\ UNCHANGED <<hand, pushed>>
        BY <2>8, DeliveryEnds
    <3>2. ASSUME NEW taken \in BOOLEAN, HandsOver(w, taken)
          PROVE  ActorsInv'
      <4>1. PICK pc \in {"taken", "refused"} : Goes(w, pc)
          BY <3>2 DEF HandsOver
      <4>2. UNCHANGED result
          BY <3>2 DEF HandsOver
      <4> QED BY <1>1, <2>1, <3>1, <4>1, <4>2, WorkerGoes
    <3>3. ASSUME NEW stop \in {"dry_run", "shadow_sent", "failed_permanent"}, Finishes(w, stop)
          PROVE  ActorsInv'
        BY <2>7, <3>1, <3>3 DEF Statuses
    <3> QED BY <2>8, <3>2, <3>3, DeliveryEnds
  <2>9. CASE Answer(w)
    <3>1. PICK status \in Results(w) :
              EndsRun(w) \/ (Finishes(w, status) /\ UNCHANGED hand)
        BY <2>9 DEF Answer
    <3>2. UNCHANGED pushed /\ at[w] \in {"taken", "refused"}
        BY <2>9 DEF Answer
    <3>3. status \in Statuses
        BY <2>1, <3>1, <3>2, StatusIsKnown
    <3> QED BY <2>2, <2>7, <3>1, <3>2, <3>3
  <2> QED BY <1>2, <2>3, <2>4, <2>5, <2>6, <2>8, <2>9 DEF WorkerStep
<1>3. ASSUME NEW t \in Tests, TestStep(t)
      PROVE  ActorsInv'
  <2>1. /\ t \in Actors
        /\ at[t] # "idle" => hand[t] = t
        /\ t \in pushed => at[t] = "queued"
      BY SetsApart DEF Sets, ActorsInv
  <2>2. ASSUME NEW pc \in TestPoints \ {"idle"}, Goes(t, pc), at[t] \notin {"idle", "queued"},
               \/ UNCHANGED <<hand, result>>
               \/ UNCHANGED hand /\ \E status : result' = [result EXCEPT ![t] = status],
               pushed' = pushed \/ (pc = "queued" /\ pushed' = pushed \cup {t})
        PROVE  ActorsInv'
    <3>1. hand' = hand /\ \A b \in Actors \ {t} : result'[b] = result[b]
        BY <1>1, <2>2
    <3>2. pushed' \subseteq pushed \cup {t} /\ (t \in pushed' => pc = "queued")
        BY <2>1, <2>2
    <3> QED BY <2>1, <2>2, <3>1, <3>2, TestGoes
  <2>3. CASE AskTest(t)
    <3>1. PICK pc \in {"deliver", "preflight"} : Goes(t, pc)
        BY <2>3 DEF AskTest
    <3>2. /\ hand' = [hand EXCEPT ![t] = t] /\ UNCHANGED <<result, pushed>> /\ at[t] = "idle"
        BY <2>3 DEF AskTest
    <3> QED BY <1>1, <2>1, <3>1, <3>2, TestGoes
  <2>4. CASE build_live_send_preflight(t) \/ build_operational_worker_settings(t) \/ RouteTest(t)
    <3>1. PICK pc \in TestPoints \ {"idle"} : Goes(t, pc)
        BY <2>4 DEF build_live_send_preflight, build_operational_worker_settings, RouteTest
    <3>2. UNCHANGED <<hand, result, pushed>> /\ at[t] \in {"preflight", "cleared", "route"}
        BY <2>4 DEF build_live_send_preflight, build_operational_worker_settings, RouteTest, Moves
    <3> QED BY <2>2, <3>1, <3>2
  <2>5. CASE _enqueue_whatsapp_ops_test_send(t) \/ _enqueue_whatsapp_baileys_ops_test_send(t)
      BY <2>2, <2>5 DEF _enqueue_whatsapp_ops_test_send, _enqueue_whatsapp_baileys_ops_test_send
  <2>6. CASE deliver_platform_message(t)
    <3>1. at[t] = "deliver" /\ UNCHANGED <<hand, pushed>>
        BY <2>6, DeliveryEnds
    <3>2. ASSUME NEW taken \in BOOLEAN, HandsOver(t, taken)
          PROVE  ActorsInv'
      <4>1. PICK pc \in {"taken", "refused"} : Goes(t, pc)
          BY <3>2 DEF HandsOver
      <4>2. UNCHANGED result
          BY <3>2 DEF HandsOver
      <4> QED BY <2>2, <3>1, <4>1, <4>2
    <3>3. ASSUME NEW stop, Finishes(t, stop)
          PROVE  ActorsInv'
        BY <2>2, <3>1, <3>3 DEF Finishes
    <3> QED BY <2>6, <3>2, <3>3, DeliveryEnds
  <2>7. CASE Answer(t)
    <3>1. PICK status \in Results(t) : Finishes(t, status)
        BY <2>7, SetsApart DEF Answer, Sets
    <3>2. UNCHANGED <<hand, pushed>> /\ at[t] \in {"taken", "refused"}
        BY <2>7, SetsApart DEF Answer, Sets
    <3> QED BY <2>2, <3>1, <3>2 DEF Finishes
  <2> QED BY <1>3, <2>3, <2>4, <2>5, <2>6, <2>7 DEF TestStep
<1>4. CASE Switches
    BY <1>4 DEF Switches, set_kill_switch, PauseAccount, set_whatsapp_send_kill_switch, AccountFails,
                PauseCampaign, Others, actors, ActorsInv
<1>5. ASSUME NEW i \in Items, Push(i)
      PROVE  ActorsInv'
    BY <1>5, SetsApart DEF Push, actors, ActorsInv, Sets
<1>6. CASE UNCHANGED workerVars
    BY <1>6 DEF workerVars, actors, ActorsInv
<1> QED BY <1>2, <1>3, <1>4, <1>5, <1>6 DEF WorkersNext, Switches

---------------------------------------------------------------------------
(* What a step moves between the places.                                   *)
SameHands == \A w \in Workers : hand'[w] = hand[w]

Stays == SameHands /\ UNCHANGED <<queue, pushed, row, lost>>
Enters(i) ==
    /\ i \in Letters \ pushed /\ queue' = Append(queue, i) /\ pushed' = pushed \cup {i}
    /\ SameHands /\ UNCHANGED <<row, lost>>
Pops(w) ==
    /\ queue # <<>> /\ hand[w] = None
    /\ queue' = Tail(queue) /\ hand' = [hand EXCEPT ![w] = Head(queue)]
    /\ UNCHANGED <<pushed, row, lost>>
PutsBack(w) ==
    /\ hand[w] \in Letters
    /\ queue' = <<hand[w]>> \o queue /\ hand' = [hand EXCEPT ![w] = None]
    /\ UNCHANGED <<pushed, row, lost>>
Settles(w) ==
    /\ hand[w] \in Letters /\ hand' = [hand EXCEPT ![w] = None] /\ UNCHANGED <<queue, pushed>>
    /\ \/ \E status : status # None /\ row' = [row EXCEPT ![hand[w]] = status] /\ UNCHANGED lost
       \/ \E why : why # "no" /\ lost' = [lost EXCEPT ![hand[w]] = why] /\ UNCHANGED row

LEMMA EveryStepMoves ==
    ASSUME WorkersTypeOK, ActorsInv, [WorkersNext]_workerVars
    PROVE  \/ Stays
           \/ \E i \in Letters : Enters(i)
           \/ \E w \in Workers : Pops(w) \/ PutsBack(w) \/ Settles(w)
<1> DEFINE Goal == \/ Stays \/ \E i \in Letters : Enters(i)
                   \/ \E w \in Workers : Pops(w) \/ PutsBack(w) \/ Settles(w)
<1> SUFFICES Goal
    OBVIOUS
<1>1. /\ Workers \subseteq Actors /\ Tests \subseteq Actors /\ Workers \cap Tests = {}
      /\ Items \cap Tests = {} /\ Tests \subseteq Letters /\ Items \subseteq Letters /\ None \notin Letters
    BY Disjoint, NoneAssumption DEF Actors, Letters
<1>2. /\ hand \in [Actors -> Letters \cup {None}]
      /\ \A w \in Workers : at[w] \notin Idle => hand[w] \in Letters
      /\ \A w \in Workers : at[w] \in Idle => hand[w] = None
    BY <1>1 DEF WorkersTypeOK, ActorsInv
<1>3. ASSUME NEW w \in Workers, WorkerStep(w)
      PROVE  Goal
  <2>1. CASE check_kill_switch(w) \/ check_account_paused(w) \/ check_campaign_paused(w)
      BY <2>1 DEF check_kill_switch, check_account_paused, check_campaign_paused, Moves, Stays, SameHands,
                  outcome
  <2>2. CASE read_next_payload(w)
      BY <1>2, <2>2 DEF read_next_payload, Stays, SameHands, Pops, outcome, Idle
  <2>3. CASE validate_payload(w)
    <3>1. CASE UNCHANGED <<hand, lost>>
        BY <2>3, <3>1 DEF validate_payload, Stays, SameHands
    <3>2. CASE EndsRun(w) /\ lost' = [lost EXCEPT ![hand[w]] = "invalid"]
      <4>1. Settles(w)
          BY <1>2, <2>3, <3>2 DEF validate_payload, EndsRun, Settles, Idle
      <4> QED BY <4>1
    <3> QED BY <2>3, <3>1, <3>2 DEF validate_payload
  <2>4. CASE Requeue(w)
    <3>1. PutsBack(w)
        BY <1>2, <2>4 DEF Requeue, EndsRun, PutsBack, Idle, outcome
    <3> QED BY <3>1
  <2>5. CASE deliver_platform_message(w)
      BY <2>5, DeliveryEnds DEF Stays, SameHands, outcome
  <2>6. CASE Answer(w)
    <3>1. CASE UNCHANGED <<hand, lost>>
        BY <2>6, <3>1 DEF Answer, Stays, SameHands
    <3>2. CASE EndsRun(w) /\ lost' = [lost EXCEPT ![hand[w]] = "error"]
      <4>1. Settles(w)
          BY <1>2, <2>6, <3>2 DEF Answer, EndsRun, Settles, Idle
      <4> QED BY <4>1
    <3> QED BY <2>6, <3>1, <3>2 DEF Answer
  <2>7. CASE handle_result(w)
    <3>1. CASE row' = [row EXCEPT ![hand[w]] = Recorded(result[w])] /\ UNCHANGED lost
      <4>0. result[w] \in Statuses
          BY <2>7 DEF handle_result, ActorsInv
      <4>1. Recorded(result[w]) # None
          BY <4>0 DEF Recorded, None, Statuses
      <4>2. Settles(w)
          BY <1>2, <2>7, <3>1, <4>1 DEF handle_result, EndsRun, Settles, Idle
      <4> QED BY <4>2
    <3>2. CASE lost' = [lost EXCEPT ![hand[w]] = "error"] /\ UNCHANGED row
      <4>1. Settles(w)
          BY <1>2, <2>7, <3>2 DEF handle_result, EndsRun, Settles, Idle
      <4> QED BY <4>1
    <3> QED BY <2>7, <3>1, <3>2 DEF handle_result
  <2>8. CASE CrashWorker(w)
    <3>1. CASE hand[w] = None
        BY <1>1, <1>2, <2>8, <3>1 DEF CrashWorker, EndsRun, Stays, SameHands
    <3>2. CASE hand[w] # None
      <4>1. Settles(w)
          BY <1>1, <1>2, <2>8, <3>2 DEF CrashWorker, EndsRun, Settles
      <4> QED BY <4>1
    <3> QED BY <3>1, <3>2
  <2> QED BY <1>3, <2>1, <2>2, <2>3, <2>4, <2>5, <2>6, <2>7, <2>8 DEF WorkerStep
<1>4. ASSUME NEW t \in Tests, TestStep(t)
      PROVE  Goal
  <2>1. CASE AskTest(t)
      BY <1>1, <1>2, <2>1 DEF AskTest, Stays, SameHands, outcome
  <2>2. CASE build_live_send_preflight(t) \/ build_operational_worker_settings(t) \/ RouteTest(t)
      BY <2>2 DEF build_live_send_preflight, build_operational_worker_settings, RouteTest, Moves, Stays,
                  SameHands, outcome
  <2>3. CASE _enqueue_whatsapp_ops_test_send(t)
    <3>1. t \notin pushed
        BY <2>3 DEF ActorsInv, _enqueue_whatsapp_ops_test_send
    <3>2. Enters(t)
        BY <1>1, <2>3, <3>1 DEF _enqueue_whatsapp_ops_test_send, Enters, SameHands, outcome
    <3> QED BY <1>1, <3>2
  <2>4. CASE _enqueue_whatsapp_baileys_ops_test_send(t)
      BY <2>4 DEF _enqueue_whatsapp_baileys_ops_test_send, Stays, SameHands, outcome
  <2>5. CASE deliver_platform_message(t)
      BY <2>5, DeliveryEnds DEF Stays, SameHands, outcome
  <2>6. CASE Answer(t)
      BY <1>1, <2>6 DEF Answer, Stays, SameHands
  <2> QED BY <1>4, <2>1, <2>2, <2>3, <2>4, <2>5, <2>6 DEF TestStep
<1>5. CASE Switches
    BY <1>5 DEF Switches, set_kill_switch, PauseAccount, set_whatsapp_send_kill_switch, AccountFails,
                PauseCampaign, Others, actors, outcome, Stays, SameHands
<1>6. ASSUME NEW i \in Items, Push(i)
      PROVE  Goal
  <2>1. Enters(i)
      BY <1>1, <1>6 DEF Push, Enters, SameHands, actors, outcome
  <2> QED BY <1>1, <2>1
<1>7. CASE UNCHANGED workerVars
    BY <1>7 DEF workerVars, actors, outcome, Stays, SameHands
<1> QED BY <1>3, <1>4, <1>5, <1>6, <1>7 DEF WorkersNext, Switches

LEMMA PlacesStep ==
    ASSUME WorkersTypeOK, PlacesInv,
           \/ Stays
           \/ \E i \in Letters : Enters(i)
           \/ \E w \in Workers : Pops(w) \/ PutsBack(w) \/ Settles(w)
    PROVE  PlacesInv'
<1> USE DEF InHand, IsSettled
<1>1. /\ queue \in Seq(Letters) /\ hand \in [Actors -> Letters \cup {None}]
      /\ row \in [Letters -> Statuses \cup {None}]
      /\ lost \in [Letters -> {"no", "invalid", "error", "crash"}]
      /\ Workers \subseteq Actors /\ None \notin Letters /\ InQueue \subseteq Letters
    BY SetsApart DEF WorkersTypeOK, Sets, InQueue, Range
<1>2. CASE Stays
    BY <1>2 DEF Stays, SameHands, PlacesInv, InQueue
<1>3. ASSUME NEW i \in Letters, Enters(i)
      PROVE  PlacesInv'
  <2>1. i \notin InQueue /\ ~ InHand(i) /\ ~ IsSettled(i)
      BY <1>3 DEF Enters, PlacesInv
  <2>2. IsInjective(queue') /\ InQueue' = InQueue \cup {i}
      BY <1>1, <1>3, <2>1, Appended DEF PlacesInv, Enters, InQueue
  <2>3. \A j : InHand(j)' <=> InHand(j)
      BY <1>3 DEF Enters, SameHands
  <2> QED BY <1>3, <2>1, <2>2, <2>3 DEF PlacesInv, Enters, SameHands
<1>4. ASSUME NEW w \in Workers, Pops(w)
      PROVE  PlacesInv'
  <2> DEFINE m == Head(queue)
  <2>1. m \in InQueue /\ IsInjective(queue') /\ InQueue' = InQueue \ {m}
      BY <1>1, <1>4, TakenOut DEF PlacesInv, Pops, InQueue
  <2>2. m \in Letters /\ ~ InHand(m) /\ ~ IsSettled(m)
      BY <1>1, <2>1 DEF PlacesInv
  <2>3. hand[w] = None /\ \A v \in Workers : hand'[v] = IF v = w THEN m ELSE hand[v]
      BY <1>1, <1>4 DEF Pops
  <2>4. \A j \in Letters : InHand(j)' <=> InHand(j) \/ j = m
      BY <1>1, <2>2, <2>3
  <2>5. \A u, v \in Workers : hand'[u] = hand'[v] => u = v \/ hand'[u] = None
      BY <2>2, <2>3 DEF PlacesInv
  <2>6. UNCHANGED <<row, lost, pushed>>
      BY <1>4 DEF Pops
  <2> HIDE DEF m, InHand, InQueue
  <2> QED BY <1>1, <2>1, <2>2, <2>4, <2>5, <2>6 DEF PlacesInv
<1>5. ASSUME NEW w \in Workers, PutsBack(w)
      PROVE  PlacesInv'
  <2> DEFINE m == hand[w]
  <2>1. m \in Letters /\ InHand(m) /\ ~ IsSettled(m) /\ m \notin InQueue
      BY <1>1, <1>5 DEF PlacesInv, PutsBack
  <2>2. IsInjective(queue') /\ InQueue' = InQueue \cup {m}
      BY <1>1, <1>5, <2>1, PutInFront DEF PlacesInv, PutsBack, InQueue
  <2>3. \A v \in Workers : hand'[v] = IF v = w THEN None ELSE hand[v]
      BY <1>1, <1>5 DEF PutsBack
  <2>4. \A j \in Letters : InHand(j)' <=> InHand(j) /\ j # m
      BY <1>1, <2>1, <2>3 DEF PlacesInv
  <2>5. \A u, v \in Workers : hand'[u] = hand'[v] => u = v \/ hand'[u] = None
      BY <2>1, <2>3 DEF PlacesInv
  <2>6. UNCHANGED <<row, lost, pushed>>
      BY <1>5 DEF PutsBack
  <2>7. \A j \in Letters : IsSettled(j)' <=> IsSettled(j)
      BY <2>6
  <2> HIDE DEF m, InHand, IsSettled, InQueue
  <2> QED BY <1>1, <2>1, <2>2, <2>4, <2>5, <2>6, <2>7 DEF PlacesInv
<1>6. ASSUME NEW w \in Workers, Settles(w)
      PROVE  PlacesInv'
  <2> DEFINE m == hand[w]
  <2>1. m \in Letters /\ InHand(m) /\ ~ IsSettled(m) /\ m \notin InQueue
      BY <1>1, <1>6 DEF PlacesInv, Settles
  <2>2. UNCHANGED <<queue, pushed>> /\ InQueue' = InQueue
      BY <1>6 DEF Settles, InQueue
  <2>3. \A v \in Workers : hand'[v] = IF v = w THEN None ELSE hand[v]
      BY <1>1, <1>6 DEF Settles
  <2>4. \A j \in Letters : InHand(j)' <=> InHand(j) /\ j # m
      BY <1>1, <2>1, <2>3 DEF PlacesInv
  <2>5. \A u, v \in Workers : hand'[u] = hand'[v] => u = v \/ hand'[u] = None
      BY <2>1, <2>3 DEF PlacesInv
  <2>6. /\ \A j \in Letters : IsSettled(j)' <=> IsSettled(j) \/ j = m
        /\ \A j \in Letters : j # m => row'[j] = row[j] /\ lost'[j] = lost[j]
        /\ row'[m] = None \/ lost'[m] = "no"
      BY <1>1, <1>6, <2>1 DEF Settles
  <2> HIDE DEF m, InHand, IsSettled, InQueue
  <2> QED BY <1>1, <2>1, <2>2, <2>4, <2>5, <2>6 DEF PlacesInv
<1> QED BY <1>2, <1>3, <1>4, <1>5, <1>6

---------------------------------------------------------------------------
(* What was handed to a platform.                                          *)

\* Two actors on the way to a platform hold different messages.
LEMMA OneHolder ==
    ASSUME ActorsInv, PlacesInv, NEW a \in Actors, NEW b \in Actors, hand[a] = hand[b],
           at[a] \in Fresh \cup Over, at[b] \in Fresh \cup Over
    PROVE  a = b
<1> USE DEF Fresh, Over, Idle
<1>1. /\ \A w \in Workers : at[w] \in Fresh \cup Over => hand[w] # None /\ InHand(hand[w])
      /\ \A t \in Tests : at[t] \in Fresh \cup Over => hand[t] = t /\ t \notin pushed /\ ~ InHand(t)
    BY SetsApart DEF ActorsInv, PlacesInv, InHand, Sets
<1>2. CASE a \in Workers /\ b \in Workers
    BY <1>1, <1>2 DEF PlacesInv
<1>3. CASE a \in Tests /\ b \in Tests
    BY <1>1, <1>3
<1>4. CASE (a \in Tests /\ b \in Workers) \/ (a \in Workers /\ b \in Tests)
    BY <1>1, <1>4
<1> QED BY <1>2, <1>3, <1>4 DEF Actors

\* What an actor is about to hand over was not handed over before, and is in no queue.
LEMMA NotHandedYet ==
    ASSUME WorkersTypeOK, ActorsInv, PlacesInv, HandedInv, NEW a \in Actors, at[a] = "deliver"
    PROVE  /\ hand[a] \in Letters /\ handed[hand[a]] = 0 /\ hand[a] \notin accepted
           /\ hand[a] \notin InQueue /\ ~ IsSettled(hand[a])
           /\ hand[a] \in pushed \/ hand[a] \in Tests
           /\ a \in Workers => hand[a] \in pushed
<1>1. hand[a] \in Letters
    BY HandIsLetter DEF Idle
<1>2. CASE a \in Workers
  <2>1. InHand(hand[a])
      BY <1>2 DEF InHand
  <2>2. handed[hand[a]] = 0
      BY <1>2 DEF HandedInv, Fresh
  <2> QED BY <1>1, <1>2, <2>1, <2>2 DEF PlacesInv, HandedInv
<1>3. CASE a \in Tests
  <2>1. hand[a] = a /\ a \notin pushed /\ a \notin Workers
      BY <1>3, SetsApart DEF ActorsInv, Sets
  <2>2. handed[a] = 0
      BY <1>3, <2>1 DEF HandedInv, Over
  <2>3. InQueue \subseteq Letters
      BY DEF InQueue, Range, WorkersTypeOK
  <2> QED BY <1>1, <1>3, <2>1, <2>2, <2>3 DEF PlacesInv, HandedInv
<1> QED BY <1>2, <1>3 DEF Actors

\* The step that hands a message over.
LEMMA HandedOver ==
    ASSUME WorkersTypeOK, ActorsInv, PlacesInv, HandedInv, NEW a \in Actors,
           deliver_platform_message(a), NEW taken \in BOOLEAN, HandsOver(a, taken)
    PROVE  HandedInv'
<1> DEFINE m == hand[a]
           pc == IF taken THEN "taken" ELSE "refused"
<1>1. /\ at[a] = "deliver" /\ UNCHANGED <<hand, queue, pushed>> /\ InQueue' = InQueue
    BY DeliveryEnds DEF InQueue
<1>2. /\ m \in Letters /\ handed[m] = 0 /\ m \notin accepted /\ m \notin InQueue
      /\ m \in pushed \/ m \in Tests
      /\ a \in Workers => m \in pushed
    BY <1>1, NotHandedYet
<1>3. /\ \A i \in Letters : handed'[i] = IF i = m THEN 1 ELSE handed[i]
      /\ \A i : i \in accepted' <=> i \in accepted \/ (taken /\ i = m)
      /\ \A b \in Actors : at'[b] = IF b = a THEN pc ELSE at[b]
      /\ pc \in {"taken", "refused"} /\ (pc = "taken" <=> taken)
    BY <1>2 DEF HandsOver, Goes, WorkersTypeOK
<1>4. \A b \in Actors : hand[b] = m /\ at[b] \in Fresh \cup Over => b = a
  <2>1. at[a] \in Fresh \cup Over
      BY <1>1 DEF Fresh
  <2> QED BY <2>1, OneHolder
<1>5. a \in Tests => m = a
    BY <1>1, SetsApart DEF ActorsInv, Sets
<1> HIDE DEF m, pc
<1>6. \A i \in Letters : handed'[i] \in {0, 1} /\ (i \in accepted' => handed'[i] = 1)
    BY <1>3 DEF HandedInv
<1>7. \A i \in Letters : i \in InQueue' \/ i \in Items \ pushed' => handed'[i] = 0
    BY <1>1, <1>2, <1>3, SetsApart DEF HandedInv, Sets
<1>8. \A w \in Workers : at'[w] \in Fresh => handed'[hand'[w]] = 0
  <2> SUFFICES ASSUME NEW w \in Workers, at'[w] \in Fresh
               PROVE  handed'[hand[w]] = 0
      BY <1>1
  <2>1. w # a /\ at[w] \in Fresh
      BY <1>3, SetsApart DEF Fresh, Sets
  <2>2. hand[w] # m /\ hand[w] \in Letters
      BY <1>4, <2>1, SetsApart, HandIsLetter DEF Sets, Fresh, Idle
  <2> QED BY <1>3, <2>1, <2>2 DEF HandedInv
<1>9. \A t \in Tests : t \notin pushed' /\ at'[t] \notin Over => handed'[t] = 0
    BY <1>1, <1>2, <1>3, <1>5, SetsApart DEF HandedInv, Sets, Over, Actors
<1>10. \A b \in Actors : at'[b] = "taken" => hand'[b] \in accepted'
    BY <1>1, <1>3 DEF HandedInv, m
<1>11. \A b \in Actors : at'[b] = "refused" => handed'[hand'[b]] = 1 /\ hand'[b] \notin accepted'
  <2>1. CASE taken
    <3> SUFFICES ASSUME NEW b \in Actors, at'[b] = "refused"
                 PROVE  handed'[hand[b]] = 1 /\ hand[b] \notin accepted'
        BY <1>1
    <3>1. b # a /\ at[b] = "refused"
        BY <1>3, <2>1
    <3>2. hand[b] # m /\ hand[b] \in Letters
        BY <1>4, <3>1, HandIsLetter DEF Over, Idle
    <3> QED BY <1>3, <3>1, <3>2 DEF HandedInv
  <2>2. CASE ~ taken
    <3> SUFFICES ASSUME NEW b \in Actors, at'[b] = "refused"
                 PROVE  handed'[hand[b]] = 1 /\ hand[b] \notin accepted'
        BY <1>1
    <3>1. CASE b = a
        BY <1>2, <1>3, <2>2, <3>1 DEF m
    <3>2. CASE b # a
      <4>1. at[b] = "refused"
          BY <1>3, <3>2
      <4>2. hand[b] # m /\ hand[b] \in Letters
          BY <1>4, <3>2, <4>1, HandIsLetter DEF Over, Idle
      <4> QED BY <1>3, <4>1, <4>2 DEF HandedInv
    <3> QED BY <3>1, <3>2
  <2> QED BY <2>1, <2>2
<1> QED BY <1>6, <1>7, <1>8, <1>9, <1>10, <1>11 DEF HandedInv

\* Any other step of an actor.
LEMMA NothingHanded ==
    ASSUME WorkersTypeOK, HandedInv, NEW a \in Actors, NEW pc, pc \notin {"taken", "refused"}, Goes(a, pc),
           \A b \in Actors \ {a} : hand'[b] = hand[b],
           UNCHANGED platform, pushed \subseteq pushed', \A i \in InQueue' : handed[i] = 0,
           a \in Workers /\ pc \in Fresh => handed[hand'[a]] = 0,
           a \in Tests /\ pc \notin Over => a \in pushed' \/ handed[a] = 0
    PROVE  HandedInv'
<1>1. \A b \in Actors : at'[b] = IF b = a THEN pc ELSE at[b]
    BY DEF WorkersTypeOK, Goes
<1>2. handed' = handed /\ accepted' = accepted
    BY DEF platform
<1>3. /\ \A i \in Letters : handed'[i] \in {0, 1} /\ (i \in accepted' => handed'[i] = 1)
      /\ \A i \in Letters : i \in InQueue' \/ i \in Items \ pushed' => handed'[i] = 0
    BY <1>2 DEF HandedInv
<1>4. \A w \in Workers : at'[w] \in Fresh => handed'[hand'[w]] = 0
    BY <1>1, <1>2, SetsApart DEF HandedInv, Sets
<1>5. \A t \in Tests : t \notin pushed' /\ at'[t] \notin Over => handed'[t] = 0
    BY <1>1, <1>2, SetsApart DEF HandedInv, Sets
<1>6. /\ \A b \in Actors : at'[b] = "taken" => hand'[b] \in accepted'
      /\ \A b \in Actors : at'[b] = "refused" => handed'[hand'[b]] = 1 /\ hand'[b] \notin accepted'
    BY <1>1, <1>2 DEF HandedInv
<1> QED BY <1>3, <1>4, <1>5, <1>6 DEF HandedInv

LEMMA HandedStep ==
    ASSUME WorkersTypeOK, ActorsInv, PlacesInv, HandedInv, [WorkersNext]_workerVars
    PROVE  HandedInv'
<1> USE DEF Fresh, Over, outcome
<1>1. \A i \in InQueue : i \in Letters /\ handed[i] = 0
    BY DEF InQueue, Range, WorkersTypeOK, HandedInv
<1>2. hand \in [Actors -> Letters \cup {None}]
    BY DEF WorkersTypeOK
<1>3. ASSUME NEW w \in Workers, WorkerStep(w)
      PROVE  HandedInv'
  <2>1. w \in Actors /\ w \notin Tests /\ (at[w] \in Fresh => handed[hand[w]] = 0)
      BY SetsApart DEF Sets, HandedInv
  <2>2. ASSUME UNCHANGED <<queue, pushed, platform>>, EndsRun(w)
        PROVE  HandedInv'
    <3>1. InQueue' = InQueue /\ \A b \in Actors \ {w} : hand'[b] = hand[b]
        BY <1>2, <2>2 DEF InQueue, EndsRun
    <3> QED BY <1>1, <2>1, <2>2, <3>1, NothingHanded DEF EndsRun
  <2>3. ASSUME UNCHANGED <<queue, pushed, platform, hand>>, NEW pc, Goes(w, pc),
               pc \notin {"taken", "refused"}, pc \in Fresh => at[w] \in Fresh
        PROVE  HandedInv'
    <3>1. InQueue' = InQueue
        BY <2>3 DEF InQueue
    <3> QED BY <1>1, <2>1, <2>3, <3>1, NothingHanded
  <2>4. CASE check_kill_switch(w) \/ check_account_paused(w)
    <3>1. PICK pc \in Idle : Goes(w, pc)
        BY <2>4 DEF check_kill_switch, check_account_paused, Idle
    <3> QED BY <2>3, <2>4, <3>1 DEF check_kill_switch, check_account_paused, Moves, Idle
  <2>5. CASE check_campaign_paused(w)
    <3>1. PICK pc \in {"requeue", "deliver"} : Goes(w, pc)
        BY <2>5 DEF check_campaign_paused
    <3> QED BY <2>3, <2>5, <3>1 DEF check_campaign_paused, Moves
  <2>6. CASE read_next_payload(w)
    <3>1. CASE queue = <<>>
        BY <2>3, <2>6, <3>1 DEF read_next_payload
    <3>2. CASE queue # <<>>
      <4>1. /\ Goes(w, "read") /\ hand' = [hand EXCEPT ![w] = Head(queue)] /\ queue' = Tail(queue)
            /\ UNCHANGED <<platform, pushed>>
          BY <2>6, <3>2 DEF read_next_payload
      <4>2. Head(queue) \in InQueue /\ InQueue' = InQueue \ {Head(queue)}
          BY <3>2, <4>1, TakenOut DEF PlacesInv, InQueue, WorkersTypeOK
      <4>3. hand'[w] = Head(queue) /\ \A b \in Actors \ {w} : hand'[b] = hand[b]
          BY <1>2, <2>1, <4>1
      <4> QED BY <1>1, <2>1, <4>1, <4>2, <4>3, NothingHanded
    <3> QED BY <3>1, <3>2
  <2>7. CASE validate_payload(w)
    <3>1. UNCHANGED <<queue, pushed, platform>> /\ at[w] = "read"
        BY <2>7 DEF validate_payload
    <3>2. CASE Goes(w, "valid") /\ UNCHANGED hand
        BY <2>3, <3>1, <3>2
    <3> QED BY <2>2, <2>7, <3>1, <3>2 DEF validate_payload
  <2>8. CASE Requeue(w)
    <3>1. /\ at[w] = "requeue" /\ queue' = <<hand[w]>> \o queue /\ UNCHANGED <<platform, pushed>>
          /\ Goes(w, "idle") /\ hand' = [hand EXCEPT ![w] = None]
        BY <2>8 DEF Requeue, EndsRun
    <3>2. hand[w] \in Letters /\ InHand(hand[w])
        BY <2>1, <3>1, HandIsLetter DEF Idle, InHand
    <3>3. InQueue' = InQueue \cup {hand[w]}
        BY <3>1, <3>2, PutInFront DEF PlacesInv, InQueue, WorkersTypeOK
    <3>4. \A b \in Actors \ {w} : hand'[b] = hand[b]
        BY <1>2, <3>1
    <3> QED BY <1>1, <2>1, <3>1, <3>3, <3>4, NothingHanded
  <2>9. CASE deliver_platform_message(w)
    <3>1. ASSUME NEW stop, Finishes(w, stop), UNCHANGED platform
          PROVE  HandedInv'
        BY <2>3, <2>9, <3>1, DeliveryEnds DEF Finishes
    <3> QED BY <2>1, <2>9, <3>1, DeliveryEnds, HandedOver
  <2>10. CASE Answer(w)
    <3>1. UNCHANGED <<queue, pushed, platform>>
        BY <2>10 DEF Answer
    <3>2. CASE Goes(w, "answered") /\ UNCHANGED hand
        BY <2>3, <3>1, <3>2
    <3> QED BY <2>2, <2>10, <3>1, <3>2 DEF Answer, Finishes
  <2>11. CASE handle_result(w) \/ CrashWorker(w)
      BY <2>2, <2>11 DEF handle_result, CrashWorker
  <2> QED BY <1>3, <2>4, <2>5, <2>6, <2>7, <2>8, <2>9, <2>10, <2>11 DEF WorkerStep
<1>4. ASSUME NEW t \in Tests, TestStep(t)
      PROVE  HandedInv'
  <2>1. /\ t \in Actors /\ t \notin Workers
        /\ t \notin pushed /\ at[t] \notin Over => handed[t] = 0
        /\ t \in pushed => at[t] = "queued"
      BY SetsApart DEF Sets, HandedInv, ActorsInv
  <2>2. ASSUME UNCHANGED <<queue, pushed, platform>>, \A b \in Actors \ {t} : hand'[b] = hand[b],
               NEW pc, Goes(t, pc), pc \notin {"taken", "refused"},
               pc = "answered" \/ at[t] \notin Over \cup {"queued"}
        PROVE  HandedInv'
    <3>1. InQueue' = InQueue
        BY <2>2 DEF InQueue
    <3> QED BY <1>1, <2>1, <2>2, <3>1, NothingHanded
  <2>3. CASE AskTest(t)
    <3>1. PICK pc \in {"deliver", "preflight"} : Goes(t, pc)
        BY <2>3 DEF AskTest
    <3>2. \A b \in Actors \ {t} : hand'[b] = hand[b]
        BY <1>2, <2>3 DEF AskTest
    <3> QED BY <2>2, <2>3, <3>1, <3>2 DEF AskTest
  <2>4. CASE build_live_send_preflight(t) \/ build_operational_worker_settings(t) \/ RouteTest(t)
    <3>1. PICK pc : Goes(t, pc) /\ pc \notin {"taken", "refused"}
        BY <2>4 DEF build_live_send_preflight, build_operational_worker_settings, RouteTest
    <3> QED BY <2>2, <2>4, <3>1 DEF build_live_send_preflight, build_operational_worker_settings, RouteTest,
                                    Moves
  <2>5. CASE _enqueue_whatsapp_ops_test_send(t)
    <3>1. /\ at[t] = "enqueue" /\ queue' = Append(queue, t) /\ pushed' = pushed \cup {t}
          /\ Goes(t, "queued") /\ UNCHANGED <<platform, hand>>
        BY <2>5 DEF _enqueue_whatsapp_ops_test_send
    <3>2. t \in Letters /\ t \notin InQueue
        BY <2>1, <3>1, <1>1, SetsApart DEF Sets, PlacesInv
    <3>3. InQueue' = InQueue \cup {t}
        BY <3>1, <3>2, Appended DEF PlacesInv, InQueue, WorkersTypeOK
    <3> QED BY <1>1, <2>1, <3>1, <3>3, NothingHanded
  <2>6. CASE _enqueue_whatsapp_baileys_ops_test_send(t)
      BY <2>2, <2>6 DEF _enqueue_whatsapp_baileys_ops_test_send
  <2>7. CASE deliver_platform_message(t)
    <3>1. ASSUME NEW stop, Finishes(t, stop), UNCHANGED platform
          PROVE  HandedInv'
        BY <2>2, <2>7, <3>1, DeliveryEnds DEF Finishes
    <3> QED BY <2>1, <2>7, <3>1, DeliveryEnds, HandedOver
  <2>8. CASE Answer(t)
      BY <2>1, <2>2, <2>8 DEF Answer, Finishes
  <2> QED BY <1>4, <2>3, <2>4, <2>5, <2>6, <2>7, <2>8 DEF TestStep
<1>5. CASE Switches
  <2>1. UNCHANGED <<actors, platform, queue, pushed>>
      BY <1>5 DEF Switches, set_kill_switch, PauseAccount, set_whatsapp_send_kill_switch, AccountFails,
                  PauseCampaign, Others
  <2> QED BY <2>1 DEF actors, platform, HandedInv, InQueue
<1>6. ASSUME NEW i \in Items, Push(i)
      PROVE  HandedInv'
  <2>1. /\ i \in Letters /\ i \notin pushed /\ i \notin InQueue
        /\ queue' = Append(queue, i) /\ pushed' = pushed \cup {i} /\ UNCHANGED <<actors, platform>>
      BY <1>1, <1>6, SetsApart DEF Sets, Push, PlacesInv
  <2>2. InQueue' = InQueue \cup {i} /\ handed[i] = 0
      BY <2>1, Appended DEF PlacesInv, InQueue, WorkersTypeOK, HandedInv
  <2>3. \A j \in Letters : j \in InQueue' \/ j \in Items \ pushed' => handed[j] = 0
      BY <1>1, <2>1, <2>2 DEF HandedInv
  <2>4. \A t \in Tests : t \notin pushed' /\ at'[t] \notin Over => handed'[t] = 0
      BY <2>1, SetsApart DEF HandedInv, Sets, actors, platform
  <2>5. UNCHANGED <<at, hand, handed, accepted>>
      BY <2>1 DEF actors, platform
  <2> HIDE DEF Fresh, Over
  <2> QED BY <2>3, <2>4, <2>5 DEF HandedInv
<1>7. CASE UNCHANGED workerVars
    BY <1>7 DEF workerVars, actors, platform, HandedInv, InQueue
<1> QED BY <1>3, <1>4, <1>5, <1>6, <1>7 DEF WorkersNext, Switches

---------------------------------------------------------------------------
(* What is reported.                                                       *)

\* A step that hands nothing over and changes one actor, or none.
LEMMA ReportKept ==
    ASSUME WorkersTypeOK, ReportInv, NEW a \in Actors, NEW pc, Goes(a, pc), UNCHANGED <<config, platform>>,
           \A b \in Actors \ {a} : hand'[b] = hand[b] /\ result'[b] = result[b],
           pc = "answered" => Honest(hand'[a], result'[a]),
           \A i \in Letters : row'[i] = row[i] \/ Honest(i, row'[i])
    PROVE  ReportInv'
<1>1. \A b \in Actors : at'[b] = IF b = a THEN pc ELSE at[b]
    BY DEF WorkersTypeOK, Goes
<1>2. UNCHANGED <<connector, shownBefore, accepted, handed, raw>>
    BY DEF config, platform
<1>3. \A b \in Actors : at'[b] = "answered" => Honest(hand'[b], result'[b])
    BY <1>1 DEF ReportInv
<1>4. \A i \in Letters : row'[i] # None => Honest(i, row'[i])
    BY DEF ReportInv
<1>5. \A i \in accepted' : (Address(connector, Payload(i)) # NoValue)'
    BY <1>2 DEF ReportInv, Payload, build_test_worker_payload
<1> QED BY <1>2, <1>3, <1>4, <1>5 DEF ReportInv, Honest

\* What is reported of other messages stays true when one is handed over.
LEMMA ReportHandedOver ==
    ASSUME WorkersInv, NEW a \in Actors, deliver_platform_message(a), NEW taken \in BOOLEAN, HandsOver(a, taken),
           Address(connector, Payload(hand[a])) # NoValue
    PROVE  ReportInv'
<1> DEFINE m == hand[a]
           pc == IF taken THEN "taken" ELSE "refused"
<1>1. /\ at[a] = "deliver" /\ UNCHANGED <<config, hand, row, result, connector, shownBefore, raw>>
    BY DeliveryEnds DEF HandsOver, outcome, config
<1>2. /\ m \in Letters /\ handed[m] = 0 /\ m \notin accepted /\ ~ IsSettled(m)
    BY <1>1, NotHandedYet DEF WorkersInv
<1>3. /\ \A i \in Letters : handed'[i] = IF i = m THEN 1 ELSE handed[i]
      /\ \A i : i \in accepted' <=> i \in accepted \/ (taken /\ i = m)
      /\ \A b \in Actors : at'[b] = IF b = a THEN pc ELSE at[b]
    BY <1>2 DEF HandsOver, Goes, WorkersInv, WorkersTypeOK
<1>4. \A b \in Actors : hand[b] = m /\ at[b] \in Fresh \cup Over => b = a
  <2>1. at[a] \in Fresh \cup Over
      BY <1>1 DEF Fresh
  <2> QED BY <2>1, OneHolder DEF WorkersInv
<1>5. ASSUME NEW i \in Letters, NEW status, i # m, Honest(i, status)
      PROVE  Honest(i, status)'
    BY <1>1, <1>3, <1>5 DEF Honest
<1> HIDE DEF m
<1>6. \A b \in Actors : at'[b] = "answered" => Honest(hand[b], result[b])'
  <2> SUFFICES ASSUME NEW b \in Actors, at'[b] = "answered"
               PROVE  Honest(hand[b], result[b])'
      OBVIOUS
  <2>1. b # a /\ at[b] = "answered"
      BY <1>3
  <2>2. hand[b] # m /\ hand[b] \in Letters
      BY <1>4, <2>1, HandIsLetter DEF Over, Idle, WorkersInv
  <2>3. Honest(hand[b], result[b])
      BY <2>1 DEF WorkersInv, ReportInv
  <2> QED BY <1>1, <1>3, <2>2, <2>3 DEF Honest
<1>7. \A i \in Letters : row'[i] # None => Honest(i, row[i])'
  <2> SUFFICES ASSUME NEW i \in Letters, row[i] # None
               PROVE  Honest(i, row[i])'
      BY <1>1
  <2>1. i # m /\ Honest(i, row[i])
      BY <1>2 DEF IsSettled, WorkersInv, ReportInv
  <2> QED BY <1>1, <1>3, <2>1 DEF Honest
<1>8. \A i \in accepted' : (Address(connector, Payload(i)) # NoValue)'
    BY <1>1, <1>3 DEF WorkersInv, ReportInv, Payload, build_test_worker_payload, m
<1> QED BY <1>6, <1>7, <1>8 DEF ReportInv

LEMMA ReportStep ==
    ASSUME WorkersInv, [WorkersNext]_workerVars
    PROVE  ReportInv'
<1> USE DEF outcome, WorkersInv
<1>1. /\ hand \in [Actors -> Letters \cup {None}] /\ result \in [Actors -> Statuses \cup {None}]
      /\ row \in [Letters -> Statuses \cup {None}]
    BY DEF WorkersTypeOK
<1>2. ASSUME NEW a \in Actors, UNCHANGED <<config, platform, row>>, EndsRun(a)
      PROVE  ReportInv'
  <2>1. \A b \in Actors \ {a} : hand'[b] = hand[b] /\ result'[b] = result[b]
      BY <1>1, <1>2 DEF EndsRun
  <2> HIDE DEF WorkersInv
  <2> QED BY <1>2, <2>1, ReportKept DEF EndsRun, WorkersInv
<1>3. ASSUME NEW a \in Actors, UNCHANGED <<config, platform, row, result>>, NEW pc, pc # "answered", Goes(a, pc),
             \A b \in Actors \ {a} : hand'[b] = hand[b]
      PROVE  ReportInv'
    BY <1>3, ReportKept
<1>4. ASSUME NEW a \in Actors, UNCHANGED <<config, platform, row, hand>>, NEW status, Finishes(a, status),
             Honest(hand[a], status)
      PROVE  ReportInv'
  <2>1. result'[a] = status /\ \A b \in Actors \ {a} : result'[b] = result[b]
      BY <1>1, <1>4 DEF Finishes
  <2> QED BY <1>4, <2>1, ReportKept DEF Finishes
<1>5. ASSUME NEW a \in Actors, deliver_platform_message(a)
      PROVE  ReportInv'
  <2>1. /\ at[a] = "deliver" /\ hand[a] \notin accepted /\ UNCHANGED <<config, hand, row>>
      BY <1>5, DeliveryEnds, NotHandedYet
  <2>2. ASSUME NEW stop \in {"dry_run", "shadow_sent", "failed_permanent"}, Finishes(a, stop),
               UNCHANGED platform
        PROVE  ReportInv'
    <3>1. Honest(hand[a], stop)
        BY <2>1 DEF Honest
    <3> QED BY <1>4, <2>1, <2>2, <3>1
  <2> QED BY <1>5, <2>2, DeliveryEnds, ReportHandedOver
<1>6. ASSUME NEW a \in Actors, Answer(a)
      PROVE  ReportInv'
  <2>1. UNCHANGED <<config, platform, row>> /\ at[a] \in {"taken", "refused"}
      BY <1>6 DEF Answer
  <2>2. PICK status \in Results(a) : EndsRun(a) \/ (Finishes(a, status) /\ UNCHANGED hand)
      BY <1>6 DEF Answer
  <2>3. Honest(hand[a], status)
      BY <2>1, StatusIsKnown
  <2> QED BY <1>2, <1>4, <2>1, <2>2, <2>3
<1>7. ASSUME NEW w \in Workers, WorkerStep(w)
      PROVE  ReportInv'
  <2>1. w \in Actors
      BY SetsApart DEF Sets
  <2>2. CASE check_kill_switch(w) \/ check_account_paused(w) \/ check_campaign_paused(w)
    <3>1. PICK pc : Goes(w, pc) /\ pc # "answered"
        BY <2>2 DEF check_kill_switch, check_account_paused, check_campaign_paused
    <3> QED BY <1>3, <2>1, <2>2, <3>1 DEF check_kill_switch, check_account_paused, check_campaign_paused, Moves
  <2>3. CASE read_next_payload(w)
    <3>1. /\ \A b \in Actors \ {w} : hand'[b] = hand[b]
          /\ UNCHANGED <<config, platform, row, result>>
        BY <1>1, <2>3 DEF read_next_payload
    <3>2. PICK pc : Goes(w, pc) /\ pc # "answered"
        BY <2>3 DEF read_next_payload
    <3> QED BY <1>3, <2>1, <3>1, <3>2
  <2>4. CASE validate_payload(w)
    <3>1. UNCHANGED <<config, platform, row>>
        BY <2>4 DEF validate_payload
    <3>2. CASE Goes(w, "valid") /\ UNCHANGED <<hand, result>>
        BY <1>3, <2>1, <3>1, <3>2
    <3> QED BY <1>2, <2>1, <2>4, <3>1, <3>2 DEF validate_payload
  <2>5. CASE Requeue(w) \/ CrashWorker(w)
      BY <1>2, <2>1, <2>5 DEF Requeue, CrashWorker
  <2>6. CASE handle_result(w)
    <3>1. /\ at[w] = "answered" /\ EndsRun(w) /\ UNCHANGED <<config, platform>>
          /\ \/ row' = [row EXCEPT ![hand[w]] = Recorded(result[w])]
             \/ UNCHANGED row
        BY <2>6 DEF handle_result
    <3>2. Honest(hand[w], result[w])
        BY <2>1, <3>1 DEF ReportInv
    <3>3. Honest(hand[w], Recorded(result[w]))
        BY <3>2 DEF Honest, Recorded
    <3>4. \A i \in Letters : row'[i] = row[i] \/ Honest(i, row'[i])
        BY <1>1, <3>1, <3>3
    <3>5. \A b \in Actors \ {w} : hand'[b] = hand[b] /\ result'[b] = result[b]
        BY <1>1, <3>1 DEF EndsRun
    <3> QED BY <2>1, <3>1, <3>4, <3>5, ReportKept DEF EndsRun
  <2> QED BY <1>5, <1>6, <1>7, <2>1, <2>2, <2>3, <2>4, <2>5, <2>6 DEF WorkerStep
<1>8. ASSUME NEW t \in Tests, TestStep(t)
      PROVE  ReportInv'
  <2>1. t \in Actors
      BY SetsApart DEF Sets
  <2>2. CASE AskTest(t)
    <3>1. /\ \A b \in Actors \ {t} : hand'[b] = hand[b]
          /\ UNCHANGED <<config, platform, row, result>>
        BY <1>1, <2>2 DEF AskTest
    <3>2. PICK pc : Goes(t, pc) /\ pc # "answered"
        BY <2>2 DEF AskTest
    <3> QED BY <1>3, <2>1, <3>1, <3>2
  <2>3. CASE build_live_send_preflight(t) \/ build_operational_worker_settings(t) \/ RouteTest(t)
    <3>1. PICK pc : Goes(t, pc) /\ pc # "answered"
        BY <2>3 DEF build_live_send_preflight, build_operational_worker_settings, RouteTest
    <3> QED BY <1>3, <2>1, <2>3, <3>1 DEF build_live_send_preflight, build_operational_worker_settings,
                                          RouteTest, Moves
  <2>4. CASE _enqueue_whatsapp_ops_test_send(t) \/ _enqueue_whatsapp_baileys_ops_test_send(t)
      BY <1>3, <2>1, <2>4 DEF _enqueue_whatsapp_ops_test_send, _enqueue_whatsapp_baileys_ops_test_send
  <2> QED BY <1>5, <1>6, <1>8, <2>1, <2>2, <2>3, <2>4 DEF TestStep
<1>9. CASE Switches \/ (\E i \in Items : Push(i)) \/ UNCHANGED workerVars
  <2>1. UNCHANGED <<config, actors, platform, row>>
      BY <1>9 DEF Switches, set_kill_switch, PauseAccount, set_whatsapp_send_kill_switch, AccountFails,
                  PauseCampaign, Others, Push, workerVars
  <2> QED BY <2>1 DEF config, actors, platform, ReportInv, Honest, Payload, build_test_worker_payload
<1> QED BY <1>7, <1>8, <1>9 DEF WorkersNext, Switches

---------------------------------------------------------------------------
(* What goes out only live, and only when it was asked for.                *)

LEMMA TestsKept ==
    ASSUME TestsInv, UNCHANGED <<config, bridged, asked, platform>>, \A t \in Tests : at'[t] = at[t]
    PROVE  TestsInv'
BY DEF TestsInv, Cleared, config, platform

LEMMA TestsHandedOver ==
    ASSUME WorkersInv, NEW a \in Actors, deliver_platform_message(a), NEW taken \in BOOLEAN, HandsOver(a, taken),
           mode = "live", ~ (a \in Tests /\ asked[a].dry)
    PROVE  TestsInv'
<1> USE DEF WorkersInv
<1>1. /\ at[a] = "deliver" /\ UNCHANGED <<mode, opsFlag, asked, bridged>>
    BY DeliveryEnds DEF config
<1>2. /\ hand[a] \in Letters
      /\ a \in Workers => hand[a] \in pushed
    BY <1>1, NotHandedYet
<1>3. PICK pc \in {"taken", "refused"} : Goes(a, pc)
    BY DEF HandsOver
<1>4. /\ \A i \in Letters : handed'[i] = IF i = hand[a] THEN handed[i] + 1 ELSE handed[i]
      /\ \A b \in Actors : at'[b] = IF b = a THEN pc ELSE at[b]
    BY <1>3 DEF HandsOver, Goes, WorkersTypeOK
<1>5. \A t \in Tests : t = hand[a] => Cleared(t) /\ asked[t].confirm
  <2>1. CASE a \in Workers
      BY <1>2, <2>1 DEF ActorsInv, TestsInv
  <2>2. CASE a \in Tests
      BY <1>1, <2>2 DEF ActorsInv, TestsInv
  <2> QED BY <2>1, <2>2 DEF Actors
<1>6. \A t \in Tests : t \in Letters /\ t \in Actors
    BY SetsApart DEF Sets
<1>7. \A t \in Tests : handed'[t] > 0 => Cleared(t) /\ asked[t].confirm
    BY <1>4, <1>5, <1>6 DEF TestsInv
<1> QED BY <1>1, <1>3, <1>4, <1>6, <1>7 DEF TestsInv, Cleared

LEMMA TestsStep ==
    ASSUME WorkersInv, [WorkersNext]_workerVars
    PROVE  TestsInv'
<1> USE DEF WorkersInv
<1>1. ASSUME NEW w \in Workers, NEW pc, Goes(w, pc), UNCHANGED <<config, bridged, asked, platform>>
      PROVE  TestsInv'
    BY <1>1, SetsApart, TestsKept DEF Goes, Sets, WorkersTypeOK
<1>2. ASSUME NEW w \in Workers, WorkerStep(w)
      PROVE  TestsInv'
  <2>1. CASE check_kill_switch(w) \/ check_account_paused(w) \/ check_campaign_paused(w)
      BY <1>1, <2>1 DEF check_kill_switch, check_account_paused, check_campaign_paused, Moves
  <2>2. CASE read_next_payload(w) \/ validate_payload(w)
      BY <1>1, <2>2 DEF read_next_payload, validate_payload, EndsRun
  <2>3. CASE Requeue(w) \/ CrashWorker(w) \/ handle_result(w)
      BY <1>1, <2>3 DEF Requeue, CrashWorker, handle_result, EndsRun
  <2>4. CASE Answer(w)
      BY <1>1, <2>4 DEF Answer, EndsRun, Finishes
  <2>5. CASE deliver_platform_message(w)
    <3>1. w \in Actors
        BY SetsApart DEF Sets
    <3>2. ASSUME NEW stop, Finishes(w, stop), UNCHANGED platform
          PROVE  TestsInv'
        BY <1>1, <2>5, <3>2, DeliveryEnds DEF Finishes
    <3> HIDE DEF WorkersInv
    <3> QED BY <2>5, <3>1, <3>2, DeliveryEnds, TestsHandedOver
  <2> QED BY <1>2, <2>1, <2>2, <2>3, <2>4, <2>5 DEF WorkerStep
<1>3. ASSUME NEW t \in Tests, TestStep(t)
      PROVE  TestsInv'
  <2>1. t \in Actors /\ t \in Letters /\ at \in [Actors -> Points] /\ Tests \subseteq Actors
      BY SetsApart DEF Sets, WorkersTypeOK
  <2>2. t \notin pushed /\ at[t] \notin Over => handed[t] = 0
      BY DEF HandedInv
  <2>3. t \in pushed => at[t] = "queued"
      BY DEF ActorsInv
  <2>4. ASSUME NEW pc, Goes(t, pc), UNCHANGED <<config, asked, platform>>, bridged' \subseteq bridged \cup {t},
               pc \in {"cleared", "route", "enqueue", "queued"} => Cleared(t),
               pc \in {"route", "enqueue", "queued"} => asked[t].confirm,
               pc = "deliver" /\ ~ asked[t].dry => Cleared(t) /\ asked[t].confirm,
               pc # "preflight", t \in bridged' => pc = "queued"
        PROVE  TestsInv'
    <3>1. \A u \in Tests : at'[u] = IF u = t THEN pc ELSE at[u]
        BY <2>1, <2>4 DEF Goes
    <3>2. UNCHANGED <<mode, opsFlag, asked, handed>>
        BY <2>4 DEF config, platform
    <3> QED BY <2>4, <3>1, <3>2 DEF TestsInv, Cleared
  <2>5. CASE AskTest(t)
    <3>1. PICK dry \in BOOLEAN, confirm \in BOOLEAN :
              /\ asked' = [asked EXCEPT ![t] = [dry |-> dry, confirm |-> confirm]]
              /\ Goes(t, IF dry THEN "deliver" ELSE "preflight")
        BY <2>5 DEF AskTest
    <3>2. at[t] = "idle" /\ UNCHANGED <<mode, opsFlag, bridged, handed>>
        BY <2>5 DEF AskTest, config, platform
    <3>3. handed[t] = 0 /\ t \notin bridged
        BY <2>2, <2>3, <3>2 DEF TestsInv, Over
    <3>4. /\ asked'[t].dry = dry
          /\ \A u \in Tests \ {t} : at'[u] = at[u] /\ asked'[u] = asked[u]
          /\ at'[t] = IF dry THEN "deliver" ELSE "preflight"
        BY <2>1, <3>1 DEF Goes, WorkersTypeOK
    <3>5. CASE dry
      <4>1. asked'[t] = [dry |-> TRUE, confirm |-> confirm]
          BY <3>1, <3>5 DEF WorkersTypeOK
      <4>2. asked'[t].dry /\ at'[t] = "deliver"
          BY <3>4, <3>5, <4>1
      <4> QED BY <3>2, <3>3, <3>4, <4>2 DEF TestsInv, Cleared
    <3>6. CASE ~ dry
        BY <3>2, <3>3, <3>4, <3>6 DEF TestsInv, Cleared
    <3> QED BY <3>5, <3>6
  <2>6. CASE build_live_send_preflight(t)
    <3>1. at[t] = "preflight" /\ ~ asked[t].dry /\ t \notin bridged
        BY <2>6 DEF build_live_send_preflight, TestsInv
    <3>2. CASE Goes(t, "cleared") /\ opsFlag
        BY <2>4, <2>6, <3>1, <3>2 DEF build_live_send_preflight, Moves, Cleared
    <3>3. CASE Goes(t, "rejected")
        BY <2>4, <2>6, <3>1, <3>3 DEF build_live_send_preflight, Moves
    <3> QED BY <2>6, <3>2, <3>3 DEF build_live_send_preflight, _global_live_env_checks
  <2>7. CASE build_operational_worker_settings(t)
    <3>1. at[t] = "cleared" /\ Cleared(t) /\ t \notin bridged
        BY <2>7 DEF build_operational_worker_settings, TestsInv
    <3>2. CASE Goes(t, "route") /\ asked[t].confirm
        BY <2>4, <2>7, <3>1, <3>2 DEF build_operational_worker_settings, Moves
    <3>3. CASE Goes(t, "rejected")
        BY <2>4, <2>7, <3>1, <3>3 DEF build_operational_worker_settings, Moves
    <3> QED BY <2>7, <3>2, <3>3 DEF build_operational_worker_settings
  <2>8. CASE RouteTest(t)
    <3>1. at[t] = "route" /\ Cleared(t) /\ asked[t].confirm /\ t \notin bridged
        BY <2>8 DEF RouteTest, TestsInv
    <3>2. PICK pc \in {"deliver", "rejected", "enqueue"} : Goes(t, pc)
        BY <2>8 DEF RouteTest
    <3> QED BY <2>4, <2>8, <3>1, <3>2 DEF RouteTest, Moves
  <2>9. CASE _enqueue_whatsapp_ops_test_send(t) \/ _enqueue_whatsapp_baileys_ops_test_send(t)
    <3>1. at[t] = "enqueue" /\ Cleared(t) /\ asked[t].confirm
        BY <2>9 DEF _enqueue_whatsapp_ops_test_send, _enqueue_whatsapp_baileys_ops_test_send, TestsInv
    <3> QED BY <2>4, <2>9, <3>1 DEF _enqueue_whatsapp_ops_test_send, _enqueue_whatsapp_baileys_ops_test_send
  <2>10. CASE deliver_platform_message(t)
    <3>1. ASSUME NEW stop, Finishes(t, stop), UNCHANGED platform
          PROVE  TestsInv'
      <4>1. at[t] = "deliver" /\ t \notin bridged /\ UNCHANGED <<config, asked, bridged>>
          BY <2>10, DeliveryEnds DEF TestsInv
      <4> QED BY <2>4, <3>1, <4>1 DEF Finishes
    <3> HIDE DEF WorkersInv
    <3> QED BY <2>1, <2>10, <3>1, DeliveryEnds, TestsHandedOver
  <2>11. CASE Answer(t)
    <3>1. t \notin bridged /\ t \notin Workers
        BY <2>11, SetsApart DEF Answer, TestsInv, Sets
    <3> QED BY <2>4, <2>11, <3>1 DEF Answer, Finishes
  <2> QED BY <1>3, <2>5, <2>6, <2>7, <2>8, <2>9, <2>10, <2>11 DEF TestStep
<1>4. CASE Switches \/ (\E i \in Items : Push(i)) \/ UNCHANGED workerVars
  <2>1. UNCHANGED <<config, actors, platform, bridged>>
      BY <1>4 DEF Switches, set_kill_switch, PauseAccount, set_whatsapp_send_kill_switch, AccountFails,
                  PauseCampaign, Others, Push, workerVars
  <2> QED BY <2>1, TestsKept DEF actors
<1> QED BY <1>2, <1>3, <1>4 DEF WorkersNext, Switches

---------------------------------------------------------------------------
(* The invariant.                                                          *)

LEMMA WorkersStart == ConfigInit /\ WorkerInit => WorkersInv
<1> SUFFICES ASSUME ConfigInit, WorkerInit
             PROVE  WorkersInv
    OBVIOUS
<1> USE SetsApart DEF WorkerInit, Sets
<1>1. WorkersTypeOK
  <2>1. asked \in [Tests -> [dry : BOOLEAN, confirm : BOOLEAN]]
      BY DEF NotAsked
  <2>2. queue \in Seq(Letters) /\ at \in [Actors -> Points] /\ handed \in [Letters -> Nat]
      BY DEF Points
  <2> QED BY <2>1, <2>2 DEF ConfigInit, WorkersTypeOK
<1>2. ActorsInv
    BY NoneAssumption DEF ActorsInv, WorkerPoints, TestPoints, Idle, Asking
<1>3. InQueue = {} /\ \A i \in Letters : ~ InHand(i) /\ ~ IsSettled(i)
    BY DEF InQueue, Range, InHand, IsSettled
<1>4. PlacesInv
    BY <1>3 DEF PlacesInv, IsInjective
<1>5. HandedInv
    BY <1>3 DEF HandedInv, Fresh
<1>6. ReportInv
    BY DEF ReportInv
<1>7. TestsInv
    BY DEF TestsInv
<1> QED BY <1>1, <1>2, <1>4, <1>5, <1>6, <1>7 DEF WorkersInv

LEMMA ConfigStep == ConfigInit /\ [WorkersNext]_workerVars => ConfigInit'
<1> SUFFICES ASSUME ConfigInit, [WorkersNext]_workerVars
             PROVE  UNCHANGED config
    BY DEF ConfigInit, config
<1>1. ASSUME NEW w \in Workers, WorkerStep(w)
      PROVE  UNCHANGED config
    BY <1>1 DEF WorkerStep, check_kill_switch, check_account_paused, read_next_payload, validate_payload,
                check_campaign_paused, Requeue, deliver_platform_message, Answer, handle_result,
                CrashWorker, Moves
<1>2. ASSUME NEW t \in Tests, TestStep(t)
      PROVE  UNCHANGED config
    BY <1>2 DEF TestStep, AskTest, build_live_send_preflight, build_operational_worker_settings, RouteTest,
                _enqueue_whatsapp_ops_test_send, _enqueue_whatsapp_baileys_ops_test_send,
                deliver_platform_message, Answer, Moves
<1>3. CASE Switches \/ (\E i \in Items : Push(i)) \/ UNCHANGED workerVars
    BY <1>3 DEF Switches, set_kill_switch, PauseAccount, set_whatsapp_send_kill_switch, AccountFails,
                PauseCampaign, Others, Push, workerVars
<1> QED BY <1>1, <1>2, <1>3 DEF WorkersNext, Switches

\* The invariant of the workers and the tests holds in every state.
THEOREM WorkersInvariance == WorkersSpec => []WorkersInv
<1>1. ConfigInit /\ WorkerInit => WorkersInv
    BY WorkersStart
<1>2. WorkersInv /\ [WorkersNext]_workerVars => WorkersInv'
  <2> SUFFICES ASSUME WorkersInv, [WorkersNext]_workerVars
               PROVE  WorkersInv'
      OBVIOUS
  <2>1. ConfigInit' /\ WorkersTypeOK' /\ ActorsInv'
      BY ConfigStep, TypeStep, ActorStep DEF WorkersInv
  <2>2. PlacesInv' /\ HandedInv'
      BY EveryStepMoves, PlacesStep, HandedStep DEF WorkersInv
  <2>3. ReportInv' /\ TestsInv'
      BY ReportStep, TestsStep
  <2> QED BY <2>1, <2>2, <2>3 DEF WorkersInv
<1> QED BY <1>1, <1>2, PTL DEF WorkersSpec

\* The settings, the queue, what actors hold and what is reported keep their types.
THEOREM WorkersTypeCorrect == WorkersSpec => []WorkersTypeOK
<1>1. WorkersInv => WorkersTypeOK
    BY DEF WorkersInv
<1> QED BY <1>1, WorkersInvariance, PTL

\* A pushed message is in the queue once, in one hand, recorded or dropped, and a message is
\* handed over once at most.
THEOREM EveryMessageIsAccounted == WorkersSpec => []TakenIsAccounted
<1>1. ASSUME WorkersInv
      PROVE  TakenIsAccounted
  <2> USE <1>1 DEF WorkersInv
  <2>1. ASSUME NEW i \in Letters
        PROVE  Times(i) = IF i \in InQueue THEN 1 ELSE 0
    <3> DEFINE At == {k \in DOMAIN queue : queue[k] = i}
    <3>1. CASE i \in InQueue
      <4>1. PICK k \in DOMAIN queue : queue[k] = i
          BY <3>1 DEF InQueue, Range
      <4>2. At = {k}
          BY <4>1 DEF PlacesInv, IsInjective
      <4> QED BY <3>1, <4>2, FS_Singleton DEF Times
    <3>2. CASE i \notin InQueue
      <4>1. At = {}
          BY <3>2 DEF InQueue, Range
      <4> QED BY <3>2, <4>1, FS_EmptySet DEF Times
    <3> QED BY <3>1, <3>2
  <2>2. ASSUME NEW i \in Letters
        PROVE  Cardinality(Held(i)) = IF InHand(i) THEN 1 ELSE 0
    <3>1. CASE InHand(i)
      <4>1. PICK w \in Workers : hand[w] = i
          BY <3>1 DEF InHand
      <4>2. Held(i) = {w}
          BY <4>1, SetsApart DEF PlacesInv, Held, Sets
      <4> QED BY <3>1, <4>2, FS_Singleton
    <3>2. CASE ~ InHand(i)
      <4>1. Held(i) = {}
          BY <3>2 DEF InHand, Held
      <4> QED BY <3>2, <4>1, FS_EmptySet
    <3> QED BY <3>1, <3>2
  <2>3. ASSUME NEW i \in pushed
        PROVE  Times(i) + Cardinality(Held(i)) + (IF row[i] # None THEN 1 ELSE 0)
                        + (IF lost[i] # "no" THEN 1 ELSE 0) = 1
    <3>1. i \in Letters
        BY <2>3 DEF WorkersTypeOK
    <3>2. /\ i \in InQueue \/ InHand(i) \/ row[i] # None \/ lost[i] # "no"
          /\ i \in InQueue => ~ InHand(i) /\ row[i] = None /\ lost[i] = "no"
          /\ row[i] # None \/ lost[i] # "no" => ~ InHand(i) /\ (row[i] = None \/ lost[i] = "no")
        BY <2>3, <3>1 DEF PlacesInv, IsSettled
    <3> QED BY <2>1, <2>2, <3>1, <3>2
  <2>4. \A i \in Letters : handed[i] <= 1
      BY DEF HandedInv
  <2> QED BY <2>3, <2>4 DEF TakenIsAccounted
<1> QED BY <1>1, WorkersInvariance, PTL

\* The address of a message of a campaign is one its platform knows.
LEMMA AddressIsOfPlatform ==
    ASSUME ConfigInit, NEW i \in Items, Address(connector, Payload(i)) # NoValue
    PROVE  /\ connector \in {"telegram", "bale"} => Address(connector, Payload(i)) \in Handles
           /\ connector \in {"cloud", "web"}     => Address(connector, Payload(i)) = "+phone"
<1> DEFINE r == raw[i]
<1>1. /\ r \in StagedPayloads(connector) /\ Payload(i) = normalize_queue_payload(r)
    BY Disjoint DEF ConfigInit, Payload
<1>2. /\ r.platform = PlatformOf(connector) /\ r.recipient = NoValue /\ r.type = NoValue
      /\ r.phone \in Phones \cup {NoValue} /\ r.handle \in Handles \cup {NoValue}
    BY <1>1 DEF StagedPayloads
<1> HIDE DEF r
<1> DEFINE p == normalize_queue_payload(r)
<1>3. CASE connector \in {"telegram", "bale"}
  <2>1. /\ p.handle = r.handle
        /\ r.handle = NoValue => /\ p.type = IF r.phone # NoValue THEN "phone_number" ELSE "channel_handle"
                                 /\ p.recipient = r.phone
      BY <1>2, <1>3 DEF normalize_queue_payload, PlatformOf, WhatsApp, BotPlatforms, First, NoValue
  <2>2. Address(connector, p) = IF connector = "telegram" THEN resolve_telegram_chat_id(p)
                                ELSE resolve_bale_chat_id(p)
      BY <1>3 DEF Address
  <2> HIDE DEF p
  <2>3. CASE r.handle # NoValue
      BY <1>1, <1>2, <1>3, <2>1, <2>2, <2>3 DEF resolve_telegram_chat_id, resolve_bale_chat_id, p
  <2>4. CASE r.handle = NoValue
    <3>1. CASE r.phone = NoValue
        BY <1>1, <2>1, <2>2, <2>4, <3>1 DEF resolve_telegram_chat_id, resolve_bale_chat_id, p
    <3>2. CASE r.phone # NoValue
      <4>1. p.recipient \notin Handles /\ p.recipient # "digits" /\ p.type = "phone_number"
          BY <1>2, <2>1, <2>4, <3>2 DEF Phones, Handles
      <4> QED BY <1>1, <2>1, <2>2, <2>4, <4>1 DEF resolve_telegram_chat_id, resolve_bale_chat_id, p
    <3> QED BY <3>1, <3>2
  <2> QED BY <1>3, <2>3, <2>4
<1>4. CASE connector \in {"cloud", "web"}
    BY <1>1, <1>4 DEF Address, resolve_whatsapp_recipient, to_whatsapp_recipient_e164_digits
<1> HIDE DEF p
<1> QED BY <1>3, <1>4

\* Nobody is told what did not happen, by a connector, a worker or a test, whatever the
\* platform answers and whatever is lost on the way.
THEOREM ReportsStayTrue == WorkersSpec => []ReportsAreTrue
<1>1. ASSUME WorkersInv
      PROVE  ReportsAreTrue
  <2> USE <1>1 DEF WorkersInv
  <2>1. ASSUME NEW i \in Letters, NEW status \in Statuses, Told(i, status)
        PROVE  Honest(i, status)
    <3>1. CASE row[i] = status
        BY <2>1, <3>1 DEF ReportInv, Statuses, None
    <3>2. CASE i \in Tests /\ at[i] = "answered" /\ result[i] = status
      <4>1. i \in Actors /\ hand[i] = i
          BY <3>2, SetsApart DEF Sets, ActorsInv
      <4> QED BY <3>2, <4>1 DEF ReportInv
    <3> QED BY <2>1, <3>1, <3>2 DEF Told
  <2>2. ASSUME NEW i \in accepted \cap Items
        PROVE  CASE connector \in {"telegram", "bale"} -> Address(connector, Payload(i)) \in Handles
                 [] connector \in {"cloud", "web"}     -> Address(connector, Payload(i)) = "+phone"
                 [] OTHER -> TRUE
    <3>1. Address(connector, Payload(i)) # NoValue
        BY <2>2 DEF ReportInv
    <3> QED BY <2>2, <3>1, AddressIsOfPlatform
  <2>3. {"delivered", "sent", "failed_permanent"} \subseteq Statuses
      BY DEF Statuses
  <2>4. ASSUME NEW i \in Letters
        PROVE  /\ Told(i, "delivered") \/ Told(i, "sent") =>
                    i \in accepted \/ (connector = "web" /\ i \in shownBefore /\ handed[i] = 1)
               /\ Told(i, "failed_permanent") => i \notin accepted
      BY <2>1, <2>3 DEF Honest
  <2> QED BY <2>2, <2>4 DEF ReportsAreTrue
<1> QED BY <1>1, WorkersInvariance, PTL

\* Rehearsals stay at home, and a test goes out only if it was asked for as live and confirmed.
THEOREM WorkersRehearsalIsKept == WorkersSpec => []WorkersRehearse
<1>1. ASSUME WorkersInv
      PROVE  WorkersRehearse
  <2>1. \A t \in Tests : t \in pushed \cup bridged => at[t] = "queued"
      BY <1>1 DEF WorkersInv, ActorsInv, TestsInv
  <2> QED BY <1>1, <2>1 DEF WorkersInv, TestsInv, Cleared, WorkersRehearse
<1> QED BY <1>1, WorkersInvariance, PTL
=============================================================================
