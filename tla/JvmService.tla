------------------------------- MODULE JvmService -------------------------------
(***************************************************************************)
(* The Java and the Kotlin implementation as a whole: the Spring           *)
(* controllers, the status tables, the topic, and the Kafka listener.      *)
(* Every process of a deployment runs the HTTP server and one listener     *)
(* container; Workers are those processes.                                 *)
(*                                                                         *)
(* The API answers when it has handed the message to the Kafka producer,   *)
(* which sends it later.  The container runs in one thread: it commits the *)
(* offsets between two records, and hands a record whose listener throws   *)
(* out again, until MaxAttempts attempts have failed.                      *)
(***************************************************************************)
EXTENDS JpaStatusService, NotificationFlow

CONSTANTS
    MaxAttempts,      \* attempts the container's error handler makes: 10
    NoRecipients      \* the ids of the requests whose body has no recipientIds
                      \* (Java only: the Kotlin request does not bind without)

VARIABLES
    outbox,           \* notifications the producer has not sent yet
    failure           \* failure[w]: the last record whose listener threw

vars == <<statusVars, topicVars, serviceVars, outbox, failure>>

\* The names some adapter supports, in any case: one more spelling of "email"
\* stands for all the others.
Adapters == {"email", "Email", "sms", "push"}

\* The offset of the record after which the listener threw, and how often.
NoFailure == [at |-> 0, attempts |-> 0]

ASSUME ProcsAssumption == Procs = Workers \cup Hooks /\ Workers \cap Hooks = {}
ASSUME AdaptersAssumption == Supported = Adapters
ASSUME AttemptsAssumption == MaxAttempts \in Nat \ {0}
ASSUME NoRecipientsAssumption ==
    NoRecipients \subseteq {id \in Ids : Request[id].recipients = <<>>}

TypeOK ==
    /\ StatusTypeOK
    /\ TopicTypeOK
    /\ api \in [Ids -> ApiStates]
    /\ worker \in [Workers -> WorkerState]
    /\ sends \in [Deliveries -> Nat]
    /\ receipts \subseteq Ids \X Channels \X Receipts
    /\ faults \in 0 .. MaxFaults
    /\ outbox \subseteq Ids
    /\ failure \in [Workers -> [at : 0 .. Len(log), attempts : 0 .. MaxAttempts - 1]]

Init ==
    /\ StatusInit
    /\ TopicInit
    /\ api = [id \in Ids |-> "idle"]
    /\ worker = [w \in Workers |-> Idle]
    /\ sends = [t \in Deliveries |-> 0]
    /\ receipts = {}
    /\ faults = 0
    /\ outbox = {}
    /\ failure = [w \in Workers |-> NoFailure]

-----------------------------------------------------------------------------
(***************************************************************************)
(* POST /notify: sendNotification and enqueueNotification.                 *)
(***************************************************************************)
Post(id) ==
    /\ api[id] = "idle"
    /\ SetApi(id, "create")
    /\ NoFault
    /\ UNCHANGED <<statusVars, topicVars, worker, sends, receipts, outbox, failure>>

\* The initial row is committed, or the transaction fails: 500.
WriteInitialRow(id) ==
    /\ api[id] = "create"
    /\ \/ /\ CreateInitialStatus(id, ToSet(Request[id].channels))
          /\ SetApi(id, "produce")
          /\ NoFault
       \/ UNCHANGED statusVars /\ SetApi(id, "rejected") /\ Fault("db")
    /\ UNCHANGED <<topicVars, worker, sends, receipts, outbox, failure>>

\* kafkaTemplate.send: the record is left with the producer, and 202 is
\* answered; or the producer refuses it at once, and the answer is 500.
Produce(id) ==
    /\ api[id] = "produce"
    /\ \/ outbox' = outbox \cup {id} /\ SetApi(id, "accepted") /\ NoFault
       \/ UNCHANGED outbox /\ SetApi(id, "rejected") /\ Fault("produce")
    /\ UNCHANGED <<statusVars, topicVars, worker, sends, receipts, failure>>

\* The idempotent producer has the broker append the record once, or gives
\* up: the future that says so is dropped.
SendRecord(id) ==
    /\ id \in outbox
    /\ outbox' = outbox \ {id}
    /\ \/ Append1(id) /\ NoFault
       \/ UNCHANGED topicVars /\ Fault("produce")
    /\ UNCHANGED <<statusVars, api, worker, sends, receipts, failure>>

\* A record of another producer, which JsonDeserializer refuses.
ForeignMessage ==
    /\ Append1(Junk)
    /\ Fault("junk")
    /\ UNCHANGED <<statusVars, api, worker, sends, receipts, outbox, failure>>

-----------------------------------------------------------------------------
(***************************************************************************)
(* listen, and the container that calls it.                                *)
(***************************************************************************)
\* The head of the channel loop, for the ch-th of n channels.
AtChannel(ch, n) ==
    IF ch <= n THEN [pc |-> "processing", ch |-> ch, rcp |-> 1, ok |-> TRUE]
    ELSE [pc |-> "mark", ch |-> 1, rcp |-> 1, ok |-> TRUE]

\* The catch clause of w's channel, and the FAILED update in it.
Caught(w) == [pc |-> "catch", ch |-> worker[w].ch, rcp |-> 1, ok |-> FALSE]

\* getAdapter, which throws if there is none, then the head of the recipient
\* loop, which throws if there is no list of recipients.
Dispatch(w) ==
    LET at(pc) == [pc |-> pc, ch |-> worker[w].ch, rcp |-> 1, ok |-> TRUE]
    IN  IF WorkerChannel(w) \notin Supported \/ Current(w) \in NoRecipients THEN Caught(w)
        ELSE IF WorkerRecipients(w) = <<>> THEN at("final")
        ELSE at("send")

AtUpdate(w) == worker[w].pc \in {"processing", "final", "catch"}

StatusToReport(w) ==
    CASE worker[w].pc = "processing" -> "PROCESSING"
      [] worker[w].pc = "final"      -> "COMPLETED"
      [] worker[w].pc = "catch"      -> "FAILED"

\* The next record is handed to the listener.  One that cannot be deserialized
\* makes every poll throw, so that the container never gets past it.
Receive(w) ==
    /\ worker[w].pc = "wait"
    /\ Deliver(w)
    /\ log[position[w] + 1] # Junk
    /\ worker' = [worker EXCEPT ![w] =
           AtChannel(1, Len(Request[log[position[w] + 1]].channels))]
    /\ NoFault
    /\ UNCHANGED <<stored, statusVars, api, sends, receipts, outbox, failure>>

\* updateChannelStatus of the listener.  Its row is always there.
WorkerRead(w) ==
    /\ AtUpdate(w)
    /\ UpdateRead(w, Current(w), WorkerChannel(w), StatusToReport(w))
    /\ NoFault
    /\ UNCHANGED <<topicVars, api, worker, sends, receipts, outbox, failure>>

WorkerCommit(w) ==
    /\ AtUpdate(w)
    /\ UpdateCommit(w)
    /\ worker' = [worker EXCEPT ![w] =
                     IF worker[w].pc = "processing" THEN Dispatch(w)
                     ELSE AtChannel(worker[w].ch + 1, Len(WorkerChannels(w)))]
    /\ NoFault
    /\ UNCHANGED <<topicVars, api, sends, receipts, outbox, failure>>

\* The transaction of w's update fails.
UpdateFails(w) ==
    /\ \/ call[w] = None /\ UNCHANGED statusVars
       \/ UpdateRollback(w)
    /\ Fault("db")
    /\ UNCHANGED <<api, sends, receipts, outbox>>

\* ... in the try block: the channel is to be FAILED.
UpdateThrows(w) ==
    /\ worker[w].pc \in {"processing", "final"}
    /\ UpdateFails(w)
    /\ worker' = [worker EXCEPT ![w] = Caught(w)]
    /\ UNCHANGED <<topicVars, failure>>

\* The failed attempts at the record in w's hands, this one included.
Attempts(w) == 1 + (IF failure[w].at = position[w] THEN failure[w].attempts ELSE 0)

\* Mutant of ListenerThrows: a record that has failed once is skipped.
ListenerThrowsOnce(w) ==
    /\ worker[w].pc = "catch"
    /\ UpdateFails(w)
    /\ worker' = [worker EXCEPT ![w] = AtChannel(1, 0)]
    /\ failure' = [failure EXCEPT ![w] = NoFailure]
    /\ UNCHANGED topicVars

\* Mutant of ListenerThrows: a record that is skipped is not acknowledged.
ListenerThrowsUnmarked(w) ==
    /\ worker[w].pc = "catch"
    /\ UpdateFails(w)
    /\ worker' = [worker EXCEPT ![w] = Idle]
    /\ IF Attempts(w) < MaxAttempts
       THEN /\ Redeliver(w)
            /\ failure' = [failure EXCEPT ![w] =
                               [at |-> position[w], attempts |-> Attempts(w)]]
       ELSE /\ failure' = [failure EXCEPT ![w] = NoFailure]
            /\ UNCHANGED topicVars

(***************************************************************************)
(* ... in the catch clause: the listener throws.  The error handler hands  *)
(* the record out again, or, after MaxAttempts attempts, skips it.         *)
(***************************************************************************)
ListenerThrows(w) ==
    /\ worker[w].pc = "catch"
    /\ UpdateFails(w)
    /\ IF Attempts(w) < MaxAttempts
       THEN /\ Redeliver(w)
            /\ worker' = [worker EXCEPT ![w] = Idle]
            /\ failure' = [failure EXCEPT ![w] =
                               [at |-> position[w], attempts |-> Attempts(w)]]
       ELSE /\ worker' = [worker EXCEPT ![w] = AtChannel(1, 0)]
            /\ failure' = [failure EXCEPT ![w] = NoFailure]
            /\ UNCHANGED topicVars

\* Mutant of SendThrows: the exception is swallowed, and the loop goes on.
SendThrowsSwallowed(w) ==
    /\ worker[w].pc = "send"
    /\ WorkerChannel(w) \in Flaky
    /\ worker' = [worker EXCEPT ![w] = [pc |-> "final", ch |-> worker[w].ch, rcp |-> 1, ok |-> TRUE]]
    /\ NoFault
    /\ UNCHANGED <<statusVars, topicVars, api, sends, receipts, outbox, failure>>

\* adapter.send throws: the channel is FAILED, and nobody else is sent to.
SendThrows(w) ==
    /\ worker[w].pc = "send"
    /\ WorkerChannel(w) \in Flaky
    /\ worker' = [worker EXCEPT ![w] = Caught(w)]
    /\ NoFault
    /\ UNCHANGED <<statusVars, topicVars, api, sends, receipts, outbox, failure>>

\* adapter.send returns, and the recipient loop moves on.
Send(w) ==
    LET v == worker[w]
        t == <<Current(w), WorkerChannel(w), WorkerRecipients(w)[v.rcp]>>
        last == v.rcp = Len(WorkerRecipients(w))
    IN  /\ v.pc = "send"
        /\ sends' = [sends EXCEPT ![t] = @ + 1]
        /\ worker' = [worker EXCEPT ![w] =
               [pc |-> IF last THEN "final" ELSE "send", ch |-> v.ch,
                rcp |-> v.rcp + 1, ok |-> TRUE]]
        /\ NoFault
        /\ UNCHANGED <<statusVars, topicVars, api, receipts, outbox, failure>>

\* Mutant of Acknowledge: the offset after the next record is noted.
AcknowledgeTwo(w) ==
    /\ worker[w].pc = "mark"
    /\ stored' = [stored EXCEPT ![w] = position[w] + 1]
    /\ worker' = [worker EXCEPT ![w] = Idle]
    /\ NoFault
    /\ UNCHANGED <<log, committed, owner, session, position, statusVars, api, sends, receipts>>
    /\ UNCHANGED <<outbox, failure>>

\* The listener has returned, or its record is skipped.
Acknowledge(w) ==
    /\ worker[w].pc = "mark"
    /\ Store(w)
    /\ worker' = [worker EXCEPT ![w] = Idle]
    /\ NoFault
    /\ UNCHANGED <<statusVars, api, sends, receipts, outbox, failure>>

JoinGroup(w) ==
    /\ Assign(w, "earliest")
    /\ UNCHANGED <<statusVars, serviceVars, outbox, failure>>

\* The container commits the offsets of the records done up to now.
CommitBatch(w) ==
    /\ worker[w].pc = "wait"
    /\ Commit(w)
    /\ UNCHANGED <<statusVars, serviceVars, outbox, failure>>

\* Mutant of SessionEnds: the loop also ends while the partition is its own, and
\* the process leaves the group.
SessionEndsEarly(w) ==
    /\ worker[w].pc = "wait"
    /\ session[w]
    /\ Leave(w)
    /\ UNCHANGED <<statusVars, serviceVars, outbox, failure>>

SessionEnds(w) ==
    /\ worker[w].pc = "wait"
    /\ EndSession(w)
    /\ UNCHANGED <<statusVars, serviceVars, outbox, failure>>

Rebalance ==
    /\ Revoke
    /\ Fault("rebalance")
    /\ UNCHANGED <<statusVars, api, worker, sends, receipts, outbox, failure>>

-----------------------------------------------------------------------------
(***************************************************************************)
(* POST /webhook/callback: handleCallback of a payload that has the three  *)
(* fields; without one of them it answers 400.  An unknown id changes      *)
(* nothing.                                                                *)
(***************************************************************************)
HandleCallback(h, id, c, s) ==
    /\ UpdateRead(h, id, c, s)
    /\ receipts' = receipts \cup {<<id, c, s>>}
    /\ NoFault
    /\ UNCHANGED <<topicVars, api, worker, sends, outbox, failure>>

HookCommit(h) ==
    /\ UpdateCommit(h)
    /\ UNCHANGED <<topicVars, serviceVars, outbox, failure>>

\* Its transaction fails: two callbacks have added the same channel, or the
\* database fails.
HookFails(h) ==
    /\ UpdateRollback(h)
    /\ IF Conflicts(h) # {} THEN NoFault ELSE Fault("db")
    /\ UNCHANGED <<topicVars, api, worker, sends, receipts, outbox, failure>>

-----------------------------------------------------------------------------
\* A process dies: its listener, and any of the requests, callbacks and unsent
\* records that are in progress (those that it was serving).
Crash(w) ==
    /\ \E lost \in SUBSET InProgress, hung \in SUBSET {h \in Hooks : call[h] # None} :
           /\ api' = [id \in Ids |-> IF id \in lost THEN "aborted" ELSE api[id]]
           /\ call' = [p \in Procs |-> IF p \in hung \cup {w} THEN None ELSE call[p]]
    /\ \E unsent \in SUBSET outbox : outbox' = outbox \ unsent
    /\ Leave(w)
    /\ worker' = [worker EXCEPT ![w] = Idle]
    /\ failure' = [failure EXCEPT ![w] = NoFailure]
    /\ Fault("crash")
    /\ UNCHANGED <<table, sends, receipts>>

-----------------------------------------------------------------------------
ApiStep(id) == WriteInitialRow(id) \/ Produce(id)

WorkerStep(w) ==
    \/ Receive(w)
    \/ WorkerRead(w) \/ WorkerCommit(w)
    \/ UpdateThrows(w) \/ ListenerThrows(w)
    \/ Send(w) \/ SendThrows(w)
    \/ Acknowledge(w)

GroupStep(w) == JoinGroup(w) \/ CommitBatch(w) \/ SessionEnds(w)

HookStep(h) ==
    \/ \E id \in Ids, c \in Channels, s \in Receipts : HandleCallback(h, id, c, s)
    \/ HookCommit(h) \/ HookFails(h)

Next ==
    \/ \E id \in Ids : Post(id) \/ ApiStep(id) \/ SendRecord(id)
    \/ \E w \in Workers : WorkerStep(w) \/ GroupStep(w) \/ Crash(w)
    \/ \E h \in Hooks : HookStep(h)
    \/ Rebalance
    \/ ForeignMessage

Spec == Init /\ [][Next]_vars

(***************************************************************************)
(* Fairness.  A thread that can take its next step takes it; the producer  *)
(* sends what it has, and a container without a partition joins.  Clients, *)
(* providers and faults owe nothing.                                       *)
(***************************************************************************)
Fairness ==
    /\ \A id \in Ids : WF_vars(ApiStep(id)) /\ WF_vars(SendRecord(id))
    /\ \A w \in Workers : WF_vars(WorkerStep(w)) /\ WF_vars(CommitBatch(w))
    /\ \A w \in Workers : WF_vars(SessionEnds(w)) /\ WF_vars(JoinGroup(w))
    /\ \A h \in Hooks : WF_vars(HookCommit(h))

FairSpec == Spec /\ Fairness

-----------------------------------------------------------------------------
Reported(id, c) == \E s \in Completed : <<id, c, s>> \in receipts

(***************************************************************************)
(* A channel shown as completed has been sent to every recipient of the    *)
(* request, or a provider's callback has said so: no transaction that read *)
(* an old row brings a completion back or invents one.                     *)
(***************************************************************************)
CompletedChannelsAreTrue ==
    \A id \in Ids : table[id] # None =>
        \A t \in Requested[id] :
            table[id].channels[t[2]] \in Completed => t \in Sent \/ Reported(id, t[2])

(***************************************************************************)
(* What is lost can be seen by polling, although nobody is told of it:     *)
(*   - a delivery that is owed for an acknowledged message but has not     *)
(*     been made is one whose channel is FAILED, as long as there have     *)
(*     been too few errors for the container to run out of attempts at a   *)
(*     message;                                                            *)
(*   - an accepted notification whose record the producer has given up,    *)
(*     or died with, stays ENQUEUED: no provider ever reports on it.       *)
(***************************************************************************)
LossIsVisible ==
    /\ faults < MaxAttempts =>
           \A k \in 1 .. committed :
               log[k] # Junk =>
                   \A t \in Owed[log[k]] \ Sent :
                       table[log[k]].channels[t[2]] = "FAILED"
    /\ \A id \in Ids \ outbox :
           api[id] = "accepted" /\ ~Logged(id) /\ (\A r \in receipts : r[1] # id) =>
               GetStatus(id) = InitialRow(ToSet(Request[id].channels))

(***************************************************************************)
(* The status of a notification in the topic settles: from some moment on  *)
(* its channels are all completed or failed, and a channel that nobody was *)
(* sent to over is failed, if no record that cannot be read precedes it,   *)
(* and if there are too few errors for the container to run out of         *)
(* attempts.                                                               *)
(***************************************************************************)
Due(id) == \E k \in 1 .. Len(log) : log[k] = id /\ \A j \in 1 .. k : log[j] # Junk

Settled(id) ==
    /\ table[id] # None
    /\ \A c \in ToSet(Request[id].channels) :
           table[id].channels[c] \in
               IF c \in Supported /\ id \notin NoRecipients THEN Completed \cup Failed ELSE Failed
    /\ table[id].status \in {"COMPLETED", "PARTIAL_FAILURE"}

StatusSettles ==
    \A id \in Ids :
        (Due(id) /\ Request[id].channels # <<>>) ~> (faults >= MaxAttempts \/ []Settled(id))

(***************************************************************************)
(* The container gets past every record that no unreadable one precedes,   *)
(* and the group acknowledges it, also when its listener has thrown as     *)
(* often as there are attempts: a record is not in the way of those behind *)
(* it.                                                                     *)
(***************************************************************************)
DueIsPassed == \A id \in Ids : Due(id) ~> id \in Retired

(***************************************************************************)
(* A client that polls GET /status sees a notification advance: while      *)
(* nothing has failed no row disappears, goes back, or changes its final   *)
(* status, although each update computes it anew from one of several       *)
(* channels.                                                               *)
(***************************************************************************)
StatusAdvances ==
    [][faults' = 0 => \A id \in Ids :
          GetStatus(id) # None => Advances(GetStatus(id), GetStatus(id)')]_vars
================================================================================
