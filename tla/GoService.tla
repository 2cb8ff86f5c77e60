------------------------------- MODULE GoService -------------------------------
(***************************************************************************)
(* The Go implementation as a whole: the HTTP handlers that accept         *)
(* notifications and webhook callbacks, the status table, the topic, and   *)
(* the workers.  Every process of the deployment (golang/main.go) runs the *)
(* HTTP server and one worker; Workers are those processes.                *)
(***************************************************************************)
EXTENDS GoStatusService, NotificationFlow

vars == <<statusVars, topicVars, serviceVars>>

\* The names ChannelFactory.GetAdapter finds an adapter for.
Adapters == {"email", "sms", "push"}

ASSUME ProcsAssumption == Procs = Workers \cup Hooks /\ Workers \cap Hooks = {}
ASSUME AdaptersAssumption == Supported = Adapters

TypeOK ==
    /\ StatusTypeOK
    /\ TopicTypeOK
    /\ api \in [Ids -> ApiStates]
    /\ worker \in [Workers -> WorkerState]
    /\ sends \in [Deliveries -> Nat]
    /\ receipts \subseteq Ids \X Channels \X Receipts
    /\ faults \in 0 .. MaxFaults

Init ==
    /\ StatusInit
    /\ TopicInit
    /\ api = [id \in Ids |-> "idle"]
    /\ worker = [w \in Workers |-> Idle]
    /\ sends = [t \in Deliveries |-> 0]
    /\ receipts = {}
    /\ faults = 0

-----------------------------------------------------------------------------
(***************************************************************************)
(* POST /notifications: SendNotification and EnqueueNotification.          *)
(***************************************************************************)
\* Mutant of Post: the initial row is forgotten.
PostWithoutRow(id) ==
    /\ api[id] = "idle"
    /\ SetApi(id, "produce")
    /\ NoFault
    /\ UNCHANGED <<statusVars, topicVars, worker, sends, receipts>>

\* The body binds, and EnqueueNotification draws a fresh UUID.
Post(id) ==
    /\ api[id] = "idle"
    /\ SetApi(id, "create")
    /\ NoFault
    /\ UNCHANGED <<statusVars, topicVars, worker, sends, receipts>>

\* The initial row is written, or that fails, which is logged and ignored.
WriteInitialRow(id) ==
    /\ api[id] = "create"
    /\ \/ CreateInitialStatus(id, ToSet(Request[id].channels)) /\ NoFault
       \/ UNCHANGED statusVars /\ Fault("db")
    /\ SetApi(id, "produce")
    /\ UNCHANGED <<topicVars, worker, sends, receipts>>

\* Mutant of SendMessage: 202 without waiting for the broker, which may not
\* get the message.
SendMessageAsync(id) ==
    /\ api[id] = "produce"
    /\ Append1(id) \/ UNCHANGED topicVars
    /\ SetApi(id, "accepted")
    /\ NoFault
    /\ UNCHANGED <<statusVars, worker, sends, receipts>>

\* SendMessage returns once all in-sync replicas have the message: 202.
SendMessage(id) ==
    /\ api[id] = "produce"
    /\ \/ Append1(id) /\ NoFault
       \/ Append2(id) /\ Fault("produce")
    /\ SetApi(id, "accepted")
    /\ UNCHANGED <<statusVars, worker, sends, receipts>>

\* SendMessage gives up, though the broker may have the message: 500.
SendMessageFails(id) ==
    /\ api[id] = "produce"
    /\ \/ UNCHANGED topicVars
       \/ Append1(id)
    /\ Fault("produce")
    /\ SetApi(id, "rejected")
    /\ UNCHANGED <<statusVars, worker, sends, receipts>>

\* A message of another producer, which json.Unmarshal refuses.
ForeignMessage ==
    /\ Append1(Junk)
    /\ Fault("junk")
    /\ UNCHANGED <<statusVars, api, worker, sends, receipts>>

-----------------------------------------------------------------------------
(***************************************************************************)
(* The consumer loop of ConsumeClaim.  The worker's pc is the statement it *)
(* executes next: the PROCESSING update of a channel ("processing"), a     *)
(* Send ("send"), the COMPLETED or FAILED update ("final"), MarkMessage    *)
(* ("mark"), or the receive at the head of the loop ("wait").              *)
(***************************************************************************)
\* Mutant of AtChannel: the loop ends one channel early.
AtChannelShort(ch, n) ==
    IF ch < n THEN [pc |-> "processing", ch |-> ch, rcp |-> 1, ok |-> TRUE]
    ELSE [pc |-> "mark", ch |-> 1, rcp |-> 1, ok |-> TRUE]

\* The head of the channel loop, for the ch-th of n channels.
AtChannel(ch, n) ==
    IF ch <= n THEN [pc |-> "processing", ch |-> ch, rcp |-> 1, ok |-> TRUE]
    ELSE [pc |-> "mark", ch |-> 1, rcp |-> 1, ok |-> TRUE]

\* GetAdapter, then the head of the recipient loop.
Dispatch(w) ==
    LET at(pc, ok) == [pc |-> pc, ch |-> worker[w].ch, rcp |-> 1, ok |-> ok]
    IN  IF WorkerChannel(w) \notin Supported THEN at("final", FALSE)
        ELSE IF WorkerRecipients(w) = <<>> THEN at("final", TRUE)
        ELSE at("send", TRUE)

\* Mutant of StatusToReport: the errors of Send are forgotten.
StatusIgnoringErrors(w) ==
    IF worker[w].pc = "processing" THEN "PROCESSING" ELSE "COMPLETED"

StatusToReport(w) ==
    IF worker[w].pc = "processing" THEN "PROCESSING"
    ELSE IF worker[w].ok THEN "COMPLETED" ELSE "FAILED"

\* Where the worker goes when its update has returned: in all cases the
\* error, if there is one, is logged or ignored.
AfterUpdate(w) ==
    worker' = [worker EXCEPT ![w] =
                  IF worker[w].pc = "processing" THEN Dispatch(w)
                  ELSE AtChannel(worker[w].ch + 1, Len(WorkerChannels(w)))]

\* Mutant of Receive: the message is marked when it is received.
ReceiveMarked(w) ==
    /\ worker[w].pc = "wait"
    /\ Deliver(w)
    /\ stored' = [stored EXCEPT ![w] = position[w] + 1]
    /\ LET m == log[position[w] + 1]
       IN  IF m = Junk THEN UNCHANGED worker
           ELSE worker' = [worker EXCEPT ![w] = AtChannel(1, Len(Request[m].channels))]
    /\ NoFault
    /\ UNCHANGED <<statusVars, api, sends, receipts>>

\* A message is received; one that cannot be parsed is marked and skipped.
Receive(w) ==
    /\ worker[w].pc = "wait"
    /\ Deliver(w)
    /\ LET m == log[position[w] + 1]
       IN  IF m = Junk
           THEN /\ stored' = [stored EXCEPT ![w] = position[w] + 1]
                /\ UNCHANGED worker
           ELSE /\ worker' = [worker EXCEPT ![w] = AtChannel(1, Len(Request[m].channels))]
                /\ UNCHANGED stored
    /\ NoFault
    /\ UNCHANGED <<statusVars, api, sends, receipts>>

\* UpdateChannelStatus of the worker, up to the save.
WorkerRead(w) ==
    /\ worker[w].pc \in {"processing", "final"}
    /\ UpdateRead(w, Current(w), WorkerChannel(w), StatusToReport(w))
    /\ NoFault
    /\ UNCHANGED <<topicVars, api, worker, sends, receipts>>

WorkerSave(w) ==
    /\ worker[w].pc \in {"processing", "final"}
    /\ UpdateSave(w)
    /\ AfterUpdate(w)
    /\ NoFault
    /\ UNCHANGED <<topicVars, api, sends, receipts>>

\* The row does not exist, or one of the two statements fails.
WorkerUpdateFails(w) ==
    /\ worker[w].pc \in {"processing", "final"}
    /\ \/ call[w] = None /\ table[Current(w)] = None /\ UNCHANGED statusVars /\ NoFault
       \/ call[w] = None /\ UNCHANGED statusVars /\ Fault("db")
       \/ UpdateAbandon(w) /\ Fault("db")
    /\ AfterUpdate(w)
    /\ UNCHANGED <<topicVars, api, sends, receipts>>

\* The recipient loop moves on; success is lost when one Send fails.
AfterSend(w, delivered) ==
    LET v == worker[w]
        last == v.rcp = Len(WorkerRecipients(w))
    IN  worker' = [worker EXCEPT ![w] =
            [pc |-> IF last THEN "final" ELSE "send", ch |-> v.ch, rcp |-> v.rcp + 1,
             ok |-> v.ok /\ delivered]]

\* One turn of the recipient loop: adapter.Send.
Send(w) ==
    LET t == <<Current(w), WorkerChannel(w), WorkerRecipients(w)[worker[w].rcp]>>
    IN  /\ worker[w].pc = "send"
        /\ \/ AfterSend(w, TRUE) /\ sends' = [sends EXCEPT ![t] = @ + 1]
           \/ WorkerChannel(w) \in Flaky /\ AfterSend(w, FALSE) /\ UNCHANGED sends
        /\ NoFault
        /\ UNCHANGED <<statusVars, topicVars, api, receipts>>

\* Mutant of MarkMessage: the offset after the next message is stored.
MarkTwoMessages(w) ==
    /\ worker[w].pc = "mark"
    /\ stored' = [stored EXCEPT ![w] = position[w] + 1]
    /\ worker' = [worker EXCEPT ![w] = Idle]
    /\ NoFault
    /\ UNCHANGED <<log, committed, owner, session, position, statusVars, api, sends, receipts>>

MarkMessage(w) ==
    /\ worker[w].pc = "mark"
    /\ Store(w)
    /\ worker' = [worker EXCEPT ![w] = Idle]
    /\ NoFault
    /\ UNCHANGED <<statusVars, api, sends, receipts>>

\* Start: Consume joins the group, with OffsetOldest.
JoinGroup(w) ==
    /\ Assign(w, "earliest")
    /\ UNCHANGED <<statusVars, serviceVars>>

AutoCommit(w) ==
    /\ Commit(w)
    /\ UNCHANGED <<statusVars, serviceVars>>

\* Mutant of SessionEnds: the loop also returns while the claim is open, and
\* the worker leaves the group.
SessionEndsEarly(w) ==
    /\ worker[w].pc = "wait"
    /\ session[w]
    /\ Leave(w)
    /\ UNCHANGED <<statusVars, serviceVars>>

\* The claim's channel is closed and the loop ends, between two messages.
SessionEnds(w) ==
    /\ worker[w].pc = "wait"
    /\ EndSession(w)
    /\ UNCHANGED <<statusVars, serviceVars>>

Rebalance ==
    /\ Revoke
    /\ Fault("rebalance")
    /\ UNCHANGED <<statusVars, api, worker, sends, receipts>>

-----------------------------------------------------------------------------
(***************************************************************************)
(* POST /webhook/callback.  Payloads are not checked against anything: any *)
(* channel name and any status is stored.  A payload with an unknown id    *)
(* gets a 500 and changes nothing.                                         *)
(***************************************************************************)
HandleWebhook(h, id, c, s) ==
    /\ UpdateRead(h, id, c, s)
    /\ receipts' = receipts \cup {<<id, c, s>>}
    /\ NoFault
    /\ UNCHANGED <<topicVars, api, worker, sends>>

HookSave(h) ==
    /\ UpdateSave(h)
    /\ UNCHANGED <<topicVars, serviceVars>>

HookSaveFails(h) ==
    /\ UpdateAbandon(h)
    /\ Fault("db")
    /\ UNCHANGED <<topicVars, api, worker, sends, receipts>>

-----------------------------------------------------------------------------
(***************************************************************************)
(* A process dies: its worker, and any of the requests and callbacks that  *)
(* are in progress (those that it was serving).                            *)
(***************************************************************************)
Crash(w) ==
    /\ \E lost \in SUBSET InProgress, hung \in SUBSET {h \in Hooks : call[h] # None} :
           /\ api' = [id \in Ids |-> IF id \in lost THEN "aborted" ELSE api[id]]
           /\ call' = [p \in Procs |-> IF p \in hung \cup {w} THEN None ELSE call[p]]
    /\ Leave(w)
    /\ worker' = [worker EXCEPT ![w] = Idle]
    /\ Fault("crash")
    /\ UNCHANGED <<table, sends, receipts>>

-----------------------------------------------------------------------------
ApiStep(id) == WriteInitialRow(id) \/ SendMessage(id) \/ SendMessageFails(id)

WorkerStep(w) ==
    \/ Receive(w)
    \/ WorkerRead(w) \/ WorkerSave(w) \/ WorkerUpdateFails(w)
    \/ Send(w)
    \/ MarkMessage(w)

GroupStep(w) == JoinGroup(w) \/ AutoCommit(w) \/ SessionEnds(w)

HookStep(h) ==
    \/ \E id \in Ids, c \in Channels, s \in Receipts : HandleWebhook(h, id, c, s)
    \/ HookSave(h) \/ HookSaveFails(h)

Next ==
    \/ \E id \in Ids : Post(id) \/ ApiStep(id)
    \/ \E w \in Workers : WorkerStep(w) \/ GroupStep(w) \/ Crash(w)
    \/ \E h \in Hooks : HookStep(h)
    \/ Rebalance
    \/ ForeignMessage

Spec == Init /\ [][Next]_vars

(***************************************************************************)
(* Fairness.  A handler or loop that can take its next step takes it: each *)
(* is a goroutine the runtime schedules, none waits for a client.  The     *)
(* worker loop retries Consume for ever, so a process without a session    *)
(* joins; the auto-committer is a ticker.  Clients, providers and faults   *)
(* owe nothing.                                                            *)
(***************************************************************************)
Fairness ==
    /\ \A id \in Ids : WF_vars(ApiStep(id))
    /\ \A w \in Workers : WF_vars(WorkerStep(w)) /\ WF_vars(AutoCommit(w))
    /\ \A w \in Workers : WF_vars(SessionEnds(w)) /\ WF_vars(JoinGroup(w))
    /\ \A h \in Hooks : WF_vars(HookSave(h))

FairSpec == Spec /\ Fairness

-----------------------------------------------------------------------------
Reported(id, c) == \E s \in Completed : <<id, c, s>> \in receipts

(***************************************************************************)
(* COMPLETED is never a false success: each channel shown as completed has *)
(* been sent to every recipient of the request, or a provider's callback   *)
(* has said so; and a notification shown as COMPLETED is completed in      *)
(* every channel of its request.                                           *)
(***************************************************************************)
CompletedIsTrue ==
    \A id \in Ids : table[id] # None =>
        LET done == {c \in Channels : table[id].channels[c] \in Completed}
        IN  /\ \A t \in Requested[id] :
                    t[2] \in done => t \in Sent \/ Reported(id, t[2])
            /\ table[id].status = "COMPLETED" => ToSet(Request[id].channels) \subseteq done

(***************************************************************************)
(* The initial row is written before the message: unless the database      *)
(* failed, a worker never looks for a row that is not there yet.           *)
(***************************************************************************)
RowPrecedesMessage ==
    "db" \notin FaultKinds =>
        \A id \in Ids : Logged(id) => table[id] # None

(***************************************************************************)
(* Once the last message of a notification is acknowledged, its row is     *)
(* final: completed where the adapter works, failed where there is none.   *)
(* This takes that nobody else writes the row (no callback, no worker that *)
(* has lost its partition) and that the database answers.                  *)
(***************************************************************************)
FinalStatus(c) == IF c \in Supported THEN {"COMPLETED"} \cup
                      (IF c \in Flaky THEN {"FAILED"} ELSE {})
                  ELSE {"FAILED"}

CommittedIsFinal ==
    ({"db", "rebalance"} \cap FaultKinds = {} /\ receipts = {}) =>
        \A k \in 1 .. committed :
            (log[k] # Junk /\ ~ \E j \in k + 1 .. Len(log) : log[j] = log[k]) =>
                \A c \in ToSet(Request[log[k]].channels) :
                    table[log[k]].channels[c] \in FinalStatus(c)

-----------------------------------------------------------------------------
(***************************************************************************)
(* The status of an accepted notification with at least one channel        *)
(* becomes, and from some moment on stays, one of the statuses that the    *)
(* lifecycle ends in.                                                      *)
(***************************************************************************)
Settled(id) ==
    table[id] # None /\ table[id].status \in {"COMPLETED", "PARTIAL_FAILURE"}

StatusSettles ==
    \A id \in Ids :
        (api[id] = "accepted" /\ Request[id].channels # <<>>) ~> []Settled(id)

(***************************************************************************)
(* A client that polls GET /status sees a notification advance: while      *)
(* nothing has failed no row disappears, goes back, or changes its final   *)
(* status, although each update computes it anew from one of several       *)
(* channels.                                                               *)
(***************************************************************************)
StatusAdvances ==
    [][faults' = 0 => \A id \in Ids :
          GetStatus(id) # None => Advances(GetStatus(id), GetStatus(id)')]_vars
=============================================================================
