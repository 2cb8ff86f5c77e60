------------------------------- MODULE TsService -------------------------------
(***************************************************************************)
(* The TypeScript implementation as a whole (typescript/src): the NestJS   *)
(* controllers, the status table, the topic, and the event handler that    *)
(* works on notifications.  Every process runs the HTTP server and one     *)
(* consumer (main.ts); Workers are those processes.  A process that starts *)
(* joins the group first and serves HTTP when it has.                      *)
(*                                                                         *)
(* The API answers when it has handed the message to the Kafka client,     *)
(* which sends it later.  An exception of the event handler makes the      *)
(* consumer run it again for the same message; without one the message is  *)
(* acknowledged.                                                           *)
(***************************************************************************)
EXTENDS TsStatusService, NotificationFlow

CONSTANT
    NoRecipients      \* the ids of the requests whose body has no recipientIds

VARIABLES
    phase,            \* phase[w]: how far bootstrap of w has come
    host,             \* host[r]: the process that serves the request, or holds the
                      \* unsent message, or runs the callback r; else Nobody
    outbox,           \* notifications emitted that the client has not sent yet
    base              \* history: the first offset the group has committed, or -1

processVars == <<phase, host, outbox, base>>
vars == <<statusVars, topicVars, serviceVars, processVars>>

\* supports, of each of the three adapters: a channel's name is taken as it is.
EmailSupports(c) == c = "email"
SmsSupports(c) == c = "sms"
PushSupports(c) == c = "push"

\* The channels ChannelFactory.getAdapter finds an adapter for.
Adapters == {c \in Channels : EmailSupports(c) \/ SmsSupports(c) \/ PushSupports(c)}

ASSUME ProcsAssumption == Procs = Workers \cup Hooks /\ Workers \cap Hooks = {}
ASSUME AdaptersAssumption == Supported = Adapters
ASSUME HostAssumption == Ids \cap Hooks = {}
ASSUME NoRecipientsAssumption ==
    NoRecipients \subseteq {id \in Ids : Request[id].recipients = <<>>}

TypeOK ==
    /\ StatusTypeOK
    /\ TopicTypeOK
    /\ api \in [Ids -> ApiStates]
    /\ worker \in [Workers -> WorkerState]
    /\ sends \in [Deliveries -> Nat]
    /\ receipts \subseteq Ids \X Channels \X Receipts
    /\ faults \in 0 .. MaxFaults
    /\ phase \in [Workers -> {"down", "member", "serving"}]
    /\ host \in [Ids \cup Hooks -> Workers \cup {Nobody}]
    /\ outbox \subseteq Ids
    /\ base \in -1 .. committed

Init ==
    /\ StatusInit
    /\ TopicInit
    /\ api = [id \in Ids |-> "idle"]
    /\ worker = [w \in Workers |-> Idle]
    /\ sends = [t \in Deliveries |-> 0]
    /\ receipts = {}
    /\ faults = 0
    /\ phase = [w \in Workers |-> "down"]
    /\ host = [r \in Ids \cup Hooks |-> Nobody]
    /\ outbox = {}
    /\ base = -1

-----------------------------------------------------------------------------
(***************************************************************************)
(* bootstrap.  What starts joins the group; if the partition has an owner, *)
(* that makes the broker take it away and assign it anew.                  *)
(***************************************************************************)
Start(w) ==
    /\ phase[w] = "down"
    /\ phase' = [phase EXCEPT ![w] = "member"]
    /\ \/ owner = Nobody /\ UNCHANGED topicVars /\ NoFault
       \/ Revoke /\ Fault("rebalance")
    /\ UNCHANGED <<statusVars, api, worker, sends, receipts, host, outbox, base>>

\* startAllMicroservices has returned: the group has assigned its partition, to
\* whichever member.  The HTTP server listens.
Listen(w) ==
    /\ phase[w] = "member"
    /\ owner # Nobody
    /\ phase' = [phase EXCEPT ![w] = "serving"]
    /\ UNCHANGED <<statusVars, topicVars, serviceVars, host, outbox, base>>

Serves(w, r) == phase[w] = "serving" /\ host' = [host EXCEPT ![r] = w]
Release(r) == host' = [host EXCEPT ![r] = Nobody]

-----------------------------------------------------------------------------
(***************************************************************************)
(* POST /notifications: sendNotification and enqueueNotification.          *)
(***************************************************************************)
Post(id, w) ==
    /\ api[id] = "idle"
    /\ Serves(w, id)
    /\ SetApi(id, "create")
    /\ NoFault
    /\ UNCHANGED <<statusVars, topicVars, worker, sends, receipts, phase, outbox, base>>

\* GlobalExceptionFilter: what a controller throws becomes the answer.
Refuse(id) == SetApi(id, "rejected") /\ Release(id)

\* The initial row is written; or the database fails, or the body has no list
\* of channels to go through, and nothing is.
WriteInitialRow(id) ==
    /\ api[id] = "create"
    /\ \/ /\ CreateInitialStatus(id, ToSet(Request[id].channels))
          /\ SetApi(id, "produce")
          /\ NoFault
          /\ UNCHANGED host
       \/ /\ UNCHANGED statusVars
          /\ Refuse(id)
          /\ Fault("db") \/ Fault("body")
    /\ UNCHANGED <<topicVars, worker, sends, receipts, phase, outbox, base>>

\* client.emit: the message is left with the client, and 201 is answered.
Emit(id) ==
    /\ api[id] = "produce"
    /\ outbox' = outbox \cup {id}
    /\ SetApi(id, "accepted")
    /\ NoFault
    /\ UNCHANGED <<statusVars, topicVars, worker, sends, receipts, phase, host, base>>

(***************************************************************************)
(* The client sends: the broker has the message, has it twice after a      *)
(* retry, or has never got it, an error that nobody looks at.              *)
(***************************************************************************)
Flush(id) ==
    /\ id \in outbox
    /\ outbox' = outbox \ {id}
    /\ Release(id)
    /\ \/ Append1(id) /\ NoFault
       \/ Append2(id) /\ Fault("produce")
       \/ UNCHANGED topicVars /\ Fault("produce")
    /\ UNCHANGED <<statusVars, api, worker, sends, receipts, phase, base>>

\* A message of another producer, without a list of channels.
ForeignMessage ==
    /\ Append1(Junk)
    /\ Fault("junk")
    /\ UNCHANGED <<statusVars, api, worker, sends, receipts, processVars>>

-----------------------------------------------------------------------------
(***************************************************************************)
(* handleNotification, and the consumer that calls it.                     *)
(***************************************************************************)
\* The head of the channel loop, for the ch-th of n channels.
AtChannel(ch, n) ==
    IF ch <= n THEN [pc |-> "processing", ch |-> ch, rcp |-> 1, ok |-> TRUE]
    ELSE [pc |-> "mark", ch |-> 1, rcp |-> 1, ok |-> TRUE]

\* Mutant of Dispatch: no list of recipients is taken for an empty one.
DispatchEmpty(w) ==
    LET at(pc, ok) == [pc |-> pc, ch |-> worker[w].ch, rcp |-> 1, ok |-> ok]
    IN  IF WorkerChannel(w) \notin Supported THEN at("catch", FALSE)
        ELSE IF WorkerRecipients(w) = <<>> THEN at("final", TRUE)
        ELSE at("send", TRUE)

\* getAdapter, which throws if there is none, then the head of the recipient
\* loop, which throws if there is no list of recipients.
Dispatch(w) ==
    LET at(pc, ok) == [pc |-> pc, ch |-> worker[w].ch, rcp |-> 1, ok |-> ok]
    IN  IF WorkerChannel(w) \notin Supported \/ Current(w) \in NoRecipients
        THEN at("catch", FALSE)
        ELSE IF WorkerRecipients(w) = <<>> THEN at("final", TRUE)
        ELSE at("send", TRUE)

\* Mutant of StatusToReport: the errors of send are forgotten.
StatusIgnoringErrors(w) ==
    IF worker[w].pc = "processing" THEN "PROCESSING"
    ELSE IF worker[w].pc = "final" THEN "COMPLETED" ELSE "FAILED"

StatusToReport(w) ==
    IF worker[w].pc = "processing" THEN "PROCESSING"
    ELSE IF worker[w].pc = "final" /\ worker[w].ok THEN "COMPLETED" ELSE "FAILED"

\* updateChannelStatus has returned.
AfterUpdate(w) ==
    worker' = [worker EXCEPT ![w] =
                  IF worker[w].pc = "processing" THEN Dispatch(w)
                  ELSE AtChannel(worker[w].ch + 1, Len(WorkerChannels(w)))]

(***************************************************************************)
(* The message is handed to the handler.  One without a list of channels   *)
(* makes it throw before it has done anything, so that the same message is *)
(* handed out again: nothing changes, and the loop never gets past it.     *)
(***************************************************************************)
Receive(w) ==
    /\ worker[w].pc = "wait"
    /\ Deliver(w)
    /\ log[position[w] + 1] # Junk
    /\ worker' = [worker EXCEPT ![w] =
           AtChannel(1, Len(Request[log[position[w] + 1]].channels))]
    /\ NoFault
    /\ UNCHANGED <<stored, statusVars, api, sends, receipts, processVars>>

AtUpdate(w) == worker[w].pc \in {"processing", "final", "catch"}

\* updateChannelStatus of the worker, statement by statement.  Its row is always
\* there: the message is sent when the row has been written.
WorkerFind(w) ==
    /\ AtUpdate(w)
    /\ UpdateFind(w, Current(w), WorkerChannel(w), StatusToReport(w))
    /\ NoFault
    /\ UNCHANGED <<topicVars, api, worker, sends, receipts, processVars>>

WorkerLoad(w) ==
    /\ AtUpdate(w)
    /\ SaveLoad(w)
    /\ NoFault
    /\ UNCHANGED <<topicVars, api, worker, sends, receipts, processVars>>

WorkerUpdated(w) ==
    /\ AtUpdate(w)
    /\ SaveNothing(w) \/ SaveWrite(w)
    /\ AfterUpdate(w)
    /\ NoFault
    /\ UNCHANGED <<topicVars, api, sends, receipts, processVars>>

\* Mutant of UpdateThrows: the exception of the outer updates is caught too.
UpdateThrowsCaught(w) ==
    /\ AtUpdate(w)
    /\ \/ call[w] = None /\ UNCHANGED statusVars
       \/ UpdateAbandon(w)
    /\ IF worker[w].pc = "catch" THEN AfterUpdate(w)
       ELSE worker' = [worker EXCEPT ![w].pc = "catch"]
    /\ UNCHANGED topicVars
    /\ Fault("db")
    /\ UNCHANGED <<api, sends, receipts, processVars>>

(***************************************************************************)
(* A statement fails.  The COMPLETED and the FAILED update of the try      *)
(* block throw into its catch clause, the two others out of the handler:   *)
(* the consumer hands the message out again.                               *)
(***************************************************************************)
UpdateThrows(w) ==
    /\ AtUpdate(w)
    /\ \/ call[w] = None /\ UNCHANGED statusVars
       \/ UpdateAbandon(w)
    /\ IF worker[w].pc = "final"
       THEN worker' = [worker EXCEPT ![w].pc = "catch"] /\ UNCHANGED topicVars
       ELSE worker' = [worker EXCEPT ![w] = Idle] /\ Redeliver(w)
    /\ Fault("db")
    /\ UNCHANGED <<api, sends, receipts, processVars>>

\* The recipient loop moves on; success is lost when one send throws.
AfterSend(w, delivered) ==
    LET v == worker[w]
        last == v.rcp = Len(WorkerRecipients(w))
    IN  worker' = [worker EXCEPT ![w] =
            [pc |-> IF last THEN "final" ELSE "send", ch |-> v.ch, rcp |-> v.rcp + 1,
             ok |-> v.ok /\ delivered]]

\* One turn of the recipient loop: adapter.send.
Send(w) ==
    LET t == <<Current(w), WorkerChannel(w), WorkerRecipients(w)[worker[w].rcp]>>
    IN  /\ worker[w].pc = "send"
        /\ \/ AfterSend(w, TRUE) /\ sends' = [sends EXCEPT ![t] = @ + 1]
           \/ WorkerChannel(w) \in Flaky /\ AfterSend(w, FALSE) /\ UNCHANGED sends
        /\ NoFault
        /\ UNCHANGED <<statusVars, topicVars, api, receipts, processVars>>

\* Mutant of Return: the offset after the next message is resolved.
ReturnTwoMessages(w) ==
    /\ worker[w].pc = "mark"
    /\ stored' = [stored EXCEPT ![w] = position[w] + 1]
    /\ worker' = [worker EXCEPT ![w] = Idle]
    /\ NoFault
    /\ UNCHANGED <<log, committed, owner, session, position, statusVars, api, sends, receipts, processVars>>

\* The handler returns, and the consumer resolves the offset.
Return(w) ==
    /\ worker[w].pc = "mark"
    /\ Store(w)
    /\ worker' = [worker EXCEPT ![w] = Idle]
    /\ NoFault
    /\ UNCHANGED <<statusVars, api, sends, receipts, processVars>>

\* The group assigns the partition to a member, and the consumer, which has not
\* subscribed from the beginning, asks where to start.
JoinGroup(w) ==
    /\ phase[w] # "down"
    /\ Grant(w) \/ FirstFetch(w, "latest")
    /\ UNCHANGED <<statusVars, serviceVars, processVars>>

AutoCommit(w) ==
    /\ Commit(w)
    /\ base' = IF base = -1 THEN committed' ELSE base
    /\ UNCHANGED <<statusVars, serviceVars, phase, host, outbox>>

\* Mutant of SessionEnds: the loop also ends while the partition is its own, and
\* the process leaves the group.
SessionEndsEarly(w) ==
    /\ worker[w].pc = "wait"
    /\ session[w]
    /\ Leave(w)
    /\ UNCHANGED <<statusVars, serviceVars, processVars>>

SessionEnds(w) ==
    /\ worker[w].pc = "wait"
    /\ EndSession(w)
    /\ UNCHANGED <<statusVars, serviceVars, processVars>>

Rebalance ==
    /\ Revoke
    /\ Fault("rebalance")
    /\ UNCHANGED <<statusVars, api, worker, sends, receipts, processVars>>

-----------------------------------------------------------------------------
(***************************************************************************)
(* POST /webhook/callback: handleCallback.  A payload with an unknown id   *)
(* is answered like any other and changes nothing.                         *)
(***************************************************************************)
HandleCallback(h, w, id, c, s) ==
    /\ Serves(w, h)
    /\ UpdateFind(h, id, c, s)
    /\ receipts' = receipts \cup {<<id, c, s>>}
    /\ NoFault
    /\ UNCHANGED <<topicVars, api, worker, sends, phase, outbox, base>>

HookSave(h) ==
    /\ \/ SaveLoad(h) /\ UNCHANGED host
       \/ (SaveNothing(h) \/ SaveWrite(h)) /\ Release(h)
    /\ UNCHANGED <<topicVars, serviceVars, phase, outbox, base>>

HookSaveFails(h) ==
    /\ UpdateAbandon(h)
    /\ Release(h)
    /\ Fault("db")
    /\ UNCHANGED <<topicVars, api, worker, sends, receipts, phase, outbox, base>>

-----------------------------------------------------------------------------
\* A process dies, with its consumer, the requests and callbacks it serves, and
\* the messages it has not sent.
Crash(w) ==
    LET gone == {r \in Ids \cup Hooks : host[r] = w}
    IN  /\ phase[w] # "down"
        /\ phase' = [phase EXCEPT ![w] = "down"]
        /\ api' = [id \in Ids |-> IF id \in gone \cap InProgress THEN "aborted" ELSE api[id]]
        /\ call' = [p \in Procs |-> IF p \in gone \cup {w} THEN None ELSE call[p]]
        /\ outbox' = outbox \ gone
        /\ host' = [r \in Ids \cup Hooks |-> IF r \in gone THEN Nobody ELSE host[r]]
        /\ worker' = [worker EXCEPT ![w] = Idle]
        /\ Leave(w)
        /\ Fault("crash")
        /\ UNCHANGED <<table, sends, receipts, base>>

-----------------------------------------------------------------------------
ApiStep(id) == WriteInitialRow(id) \/ Emit(id)

WorkerStep(w) ==
    \/ Receive(w)
    \/ WorkerFind(w) \/ WorkerLoad(w) \/ WorkerUpdated(w) \/ UpdateThrows(w)
    \/ Send(w)
    \/ Return(w)

GroupStep(w) ==
    \/ Start(w) \/ Listen(w)
    \/ JoinGroup(w) \/ AutoCommit(w) \/ SessionEnds(w)

HookStep(h) ==
    \/ \E w \in Workers, id \in Ids, c \in Channels, s \in Receipts :
           HandleCallback(h, w, id, c, s)
    \/ HookSave(h) \/ HookSaveFails(h)

Next ==
    \/ \E id \in Ids, w \in Workers : Post(id, w)
    \/ \E id \in Ids : ApiStep(id) \/ Flush(id)
    \/ \E w \in Workers : WorkerStep(w) \/ GroupStep(w) \/ Crash(w)
    \/ \E h \in Hooks : HookStep(h)
    \/ Rebalance
    \/ ForeignMessage

Spec == Init /\ [][Next]_vars

(***************************************************************************)
(* Fairness.  Handlers are async functions the event loop resumes when     *)
(* their await is over; the Kafka client sends, joins and commits by       *)
(* itself; and a process that has died is started again.  Clients,         *)
(* providers and faults owe nothing.                                       *)
(***************************************************************************)
Fairness ==
    /\ \A id \in Ids : WF_vars(ApiStep(id)) /\ WF_vars(Flush(id))
    /\ \A w \in Workers : WF_vars(WorkerStep(w)) /\ WF_vars(AutoCommit(w))
    /\ \A w \in Workers : WF_vars(SessionEnds(w)) /\ WF_vars(JoinGroup(w))
    /\ \A w \in Workers : WF_vars(Start(w)) /\ WF_vars(Listen(w))
    /\ \A h \in Hooks : WF_vars(HookSave(h))

FairSpec == Spec /\ Fairness

-----------------------------------------------------------------------------
(***************************************************************************)
(* Once the group has committed an offset, nothing after it is lost: a     *)
(* message is acknowledged when what is owed for it has been delivered,    *)
(* whatever fails, and one that cannot be read never is.                   *)
(***************************************************************************)
NothingLostAfterBase ==
    \A k \in base + 1 .. committed : base >= 0 => log[k] # Junk /\ Handled(k)

Reported(id, c) == \E s \in Completed : <<id, c, s>> \in receipts

(***************************************************************************)
(* A channel shown as completed has been sent to every recipient of the    *)
(* request, or a provider's callback has said so.                          *)
(***************************************************************************)
CompletedChannelsAreTrue ==
    \A id \in Ids : table[id] # None =>
        \A t \in Requested[id] :
            table[id].channels[t[2]] \in Completed => t \in Sent \/ Reported(id, t[2])

(***************************************************************************)
(* The messages the group must get to: the group has committed an offset   *)
(* before them, and no message in between is one it cannot get past.       *)
(***************************************************************************)
Due(id) ==
    \E k \in base + 1 .. Len(log) :
        base >= 0 /\ log[k] = id /\ \A j \in base + 1 .. k : log[j] # Junk

\* Every channel is completed or failed, and one that nobody was sent to over,
\* because it has no adapter or the body no recipients, is failed.
Settled(id) ==
    /\ table[id] # None
    /\ \A c \in ToSet(Request[id].channels) :
           table[id].channels[c] \in
               IF c \in Supported /\ id \notin NoRecipients THEN Completed \cup Failed ELSE Failed
    /\ Request[id].channels # <<>> => table[id].status \in {"COMPLETED", "PARTIAL_FAILURE"}

(***************************************************************************)
(* What is due is delivered in the end, in spite of crashes and database   *)
(* errors, and its status settles: from some moment on each channel shows  *)
(* an outcome it can have, however often the message has been begun.       *)
(***************************************************************************)
DueIsDone == \A id \in Ids : Due(id) ~> [](Owed[id] \subseteq Sent /\ Settled(id))

(***************************************************************************)
(* A client that polls GET /status sees a notification advance: while      *)
(* nothing has failed no row disappears, goes back, or changes its final   *)
(* status, although each update computes it anew from one of several       *)
(* channels.                                                               *)
(***************************************************************************)
StatusAdvances ==
    [][faults' = 0 => \A id \in Ids :
          GetStatus(id) # None => Advances(GetStatus(id), GetStatus(id)')]_vars
================================================================================
