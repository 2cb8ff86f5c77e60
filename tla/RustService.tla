------------------------------ MODULE RustService ------------------------------
(***************************************************************************)
(* The Rust implementation as a whole (rust/src): the axum handlers, the   *)
(* status table, the topic, and the worker task.  Every process runs the   *)
(* HTTP server and one worker (main.rs); Workers are those processes.      *)
(*                                                                         *)
(* It differs from the Go implementation in the order of its steps: the    *)
(* message is sent before the row is written, and the offset of a message  *)
(* is stored for the next auto-commit when the message is received, not    *)
(* when it has been worked on.                                             *)
(***************************************************************************)
EXTENDS RustStatusService, NotificationFlow

CONSTANT Reporting    \* the <<id, channel>> on which providers call the webhook

VARIABLES
    taken,            \* history: the offsets that were ever handed to a worker
    base              \* history: the first offset the group has committed, or -1

history == <<taken, base>>
vars == <<statusVars, topicVars, serviceVars, history>>

\* The keys of ChannelFactory's map.
Adapters == {"email", "sms", "push"}

ASSUME ProcsAssumption == Procs = Workers \cup Hooks /\ Workers \cap Hooks = {}
ASSUME AdaptersAssumption == Supported = Adapters
ASSUME ReportingAssumption == Reporting \subseteq Ids \X Channels

TypeOK ==
    /\ StatusTypeOK
    /\ TopicTypeOK
    /\ api \in [Ids -> ApiStates]
    /\ worker \in [Workers -> WorkerState]
    /\ sends \in [Deliveries -> Nat]
    /\ receipts \subseteq Ids \X Channels \X Receipts
    /\ faults \in 0 .. MaxFaults
    /\ taken \subseteq 1 .. Len(log)
    /\ base \in -1 .. committed

Init ==
    /\ StatusInit
    /\ TopicInit
    /\ api = [id \in Ids |-> "idle"]
    /\ worker = [w \in Workers |-> Idle]
    /\ sends = [t \in Deliveries |-> 0]
    /\ receipts = {}
    /\ faults = 0
    /\ taken = {}
    /\ base = -1

-----------------------------------------------------------------------------
(***************************************************************************)
(* POST /notify: send_notification.                                        *)
(***************************************************************************)
\* The body is extracted, and enqueue_notification draws a fresh UUID.
Post(id) ==
    /\ api[id] = "idle"
    /\ SetApi(id, "produce")
    /\ NoFault
    /\ UNCHANGED <<statusVars, topicVars, worker, sends, receipts, history>>

\* producer.send returns when the broker has the message.
SendMessage(id) ==
    /\ api[id] = "produce"
    /\ \/ Append1(id) /\ NoFault
       \/ Append2(id) /\ Fault("produce")
    /\ SetApi(id, "create")
    /\ UNCHANGED <<statusVars, worker, sends, receipts, history>>

\* It times out, though the broker may have the message: 500.
SendMessageFails(id) ==
    /\ api[id] = "produce"
    /\ \/ UNCHANGED topicVars
       \/ Append1(id)
    /\ Fault("produce")
    /\ SetApi(id, "rejected")
    /\ UNCHANGED <<statusVars, worker, sends, receipts, history>>

\* The initial row is written, or that fails, which is logged: 202.
WriteInitialRow(id) ==
    /\ api[id] = "create"
    /\ \/ CreateInitialStatus(id, ToSet(Request[id].channels)) /\ NoFault
       \/ UNCHANGED statusVars /\ Fault("db")
    /\ SetApi(id, "accepted")
    /\ UNCHANGED <<topicVars, worker, sends, receipts, history>>

(***************************************************************************)
(* A client that closes its connection: the server drops the future of the *)
(* handler, which gets no further than the await it is at.                 *)
(***************************************************************************)
Disconnect(id) ==
    /\ api[id] \in {"produce", "create"}
    /\ \/ UNCHANGED topicVars
       \/ api[id] = "produce" /\ Append1(id)
    /\ SetApi(id, "aborted")
    /\ Fault("disconnect")
    /\ UNCHANGED <<statusVars, worker, sends, receipts, history>>

\* A message of another producer, which serde_json refuses.
ForeignMessage ==
    /\ Append1(Junk)
    /\ Fault("junk")
    /\ UNCHANGED <<statusVars, api, worker, sends, receipts, history>>

-----------------------------------------------------------------------------
(***************************************************************************)
(* The loop of run_worker.                                                 *)
(***************************************************************************)
\* The head of the channel loop, for the ch-th of n channels.
AtChannel(ch, n) ==
    IF ch <= n THEN [pc |-> "processing", ch |-> ch, rcp |-> 1, ok |-> TRUE] ELSE Idle

\* Mutant of Dispatch: no recipient loop after get_adapter.
DispatchUnsent(w) ==
    [pc |-> "final", ch |-> worker[w].ch, rcp |-> 1, ok |-> WorkerChannel(w) \in Supported]

\* get_adapter, then the head of the recipient loop.
Dispatch(w) ==
    LET at(pc, ok) == [pc |-> pc, ch |-> worker[w].ch, rcp |-> 1, ok |-> ok]
    IN  IF WorkerChannel(w) \notin Supported THEN at("final", FALSE)
        ELSE IF WorkerRecipients(w) = <<>> THEN at("final", TRUE)
        ELSE at("send", TRUE)

StatusToReport(w) ==
    IF worker[w].pc = "processing" THEN "PROCESSING"
    ELSE IF worker[w].ok THEN "COMPLETED" ELSE "FAILED"

\* Where the worker goes when update_channel_status has returned: an error is
\* logged.
AfterUpdate(w) ==
    worker' = [worker EXCEPT ![w] =
                  IF worker[w].pc = "processing" THEN Dispatch(w)
                  ELSE AtChannel(worker[w].ch + 1, Len(WorkerChannels(w)))]

\* Mutant of Receive: the offset after the next message is stored.
ReceiveStoresNext(w) ==
    /\ worker[w].pc = "wait"
    /\ Deliver(w)
    /\ stored' = [stored EXCEPT ![w] = position[w] + 2]
    /\ LET m == log[position[w] + 1]
       IN  worker' = [worker EXCEPT ![w] =
               IF m = Junk THEN Idle ELSE AtChannel(1, Len(Request[m].channels))]
    /\ taken' = taken \cup {position[w] + 1}
    /\ NoFault
    /\ UNCHANGED <<statusVars, api, sends, receipts, base>>

\* Mutant of Receive: a worker that has lost the partition steps over what the
\* client has fetched ahead.
ReceiveUnlessLost(w) ==
    /\ worker[w].pc = "wait"
    /\ Deliver(w)
    /\ stored' = [stored EXCEPT ![w] = position[w] + 1]
    /\ LET m == log[position[w] + 1]
       IN  worker' = [worker EXCEPT ![w] =
               IF m = Junk \/ owner # w THEN Idle
               ELSE AtChannel(1, Len(Request[m].channels))]
    /\ taken' = taken \cup {position[w] + 1}
    /\ NoFault
    /\ UNCHANGED <<statusVars, api, sends, receipts, base>>

(***************************************************************************)
(* consumer.recv hands out a message, and with that stores its offset for  *)
(* the next auto-commit.  A message that cannot be parsed is skipped.      *)
(***************************************************************************)
Receive(w) ==
    /\ worker[w].pc = "wait"
    /\ Deliver(w)
    /\ stored' = [stored EXCEPT ![w] = position[w] + 1]
    /\ LET m == log[position[w] + 1]
       IN  worker' = [worker EXCEPT ![w] =
               IF m = Junk THEN Idle ELSE AtChannel(1, Len(Request[m].channels))]
    /\ taken' = taken \cup {position[w] + 1}
    /\ NoFault
    /\ UNCHANGED <<statusVars, api, sends, receipts, base>>

\* update_channel_status of the worker, up to the UPDATE statement.
WorkerRead(w) ==
    /\ worker[w].pc \in {"processing", "final"}
    /\ UpdateRead(w, Current(w), WorkerChannel(w), StatusToReport(w))
    /\ NoFault
    /\ UNCHANGED <<topicVars, api, worker, sends, receipts, history>>

WorkerSave(w) ==
    /\ worker[w].pc \in {"processing", "final"}
    /\ UpdateSave(w)
    /\ AfterUpdate(w)
    /\ NoFault
    /\ UNCHANGED <<topicVars, api, sends, receipts, history>>

\* There is no row, or one of the two statements fails.
WorkerUpdateFails(w) ==
    /\ worker[w].pc \in {"processing", "final"}
    /\ \/ UpdateMissing(w, Current(w)) /\ NoFault
       \/ call[w] = None /\ UNCHANGED statusVars /\ Fault("db")
       \/ UpdateAbandon(w) /\ Fault("db")
    /\ AfterUpdate(w)
    /\ UNCHANGED <<topicVars, api, sends, receipts, history>>

\* The recipient loop moves on; success is lost when one send fails.
AfterSend(w, delivered) ==
    LET v == worker[w]
        last == v.rcp = Len(WorkerRecipients(w))
    IN  worker' = [worker EXCEPT ![w] =
            [pc |-> IF last THEN "final" ELSE "send", ch |-> v.ch, rcp |-> v.rcp + 1,
             ok |-> v.ok /\ delivered]]

\* One turn of the recipient loop: adapter.send.
Send(w) ==
    LET t == <<Current(w), WorkerChannel(w), WorkerRecipients(w)[worker[w].rcp]>>
    IN  /\ worker[w].pc = "send"
        /\ \/ AfterSend(w, TRUE) /\ sends' = [sends EXCEPT ![t] = @ + 1]
           \/ WorkerChannel(w) \in Flaky /\ AfterSend(w, FALSE) /\ UNCHANGED sends
        /\ NoFault
        /\ UNCHANGED <<statusVars, topicVars, api, receipts, history>>

\* Mutant of JoinGroup: a new session starts at the end of the topic.
JoinGroupAtEnd(w) ==
    /\ owner = Nobody /\ ~session[w]
    /\ owner' = w
    /\ session' = [session EXCEPT ![w] = TRUE]
    /\ position' = [position EXCEPT ![w] = Len(log)]
    /\ stored' = [stored EXCEPT ![w] = -1]
    /\ UNCHANGED <<log, committed, statusVars, serviceVars, history>>

\* subscribe: the group's first member starts at the end of the topic.
JoinGroup(w) ==
    /\ Assign(w, "latest")
    /\ UNCHANGED <<statusVars, serviceVars, history>>

\* enable.auto.commit: what is stored is committed in the background.
AutoCommit(w) ==
    /\ Commit(w)
    /\ base' = IF base = -1 THEN committed' ELSE base
    /\ UNCHANGED <<statusVars, serviceVars, taken>>

\* recv gives up a partition that is lost, between two messages.
SessionEnds(w) ==
    /\ worker[w].pc = "wait"
    /\ EndSession(w)
    /\ UNCHANGED <<statusVars, serviceVars, history>>

Rebalance ==
    /\ Revoke
    /\ Fault("rebalance")
    /\ UNCHANGED <<statusVars, api, worker, sends, receipts, history>>

-----------------------------------------------------------------------------
(***************************************************************************)
(* POST /webhook/callback: handle_webhook.  A payload with an unknown id   *)
(* is answered with 200 and changes nothing.                               *)
(***************************************************************************)
HandleWebhook(h, id, c, s) ==
    /\ UpdateRead(h, id, c, s)
    /\ receipts' = receipts \cup {<<id, c, s>>}
    /\ NoFault
    /\ UNCHANGED <<topicVars, api, worker, sends, history>>

HookSave(h) ==
    /\ UpdateSave(h)
    /\ UNCHANGED <<topicVars, serviceVars, history>>

\* The UPDATE fails, or the provider closes the connection before it.
HookSaveFails(h) ==
    /\ UpdateAbandon(h)
    /\ Fault("db") \/ Fault("disconnect")
    /\ UNCHANGED <<topicVars, api, worker, sends, receipts, history>>

-----------------------------------------------------------------------------
\* A process dies: its worker, and any of the requests and callbacks that are
\* in progress (those that it was serving).
Crash(w) ==
    /\ \E lost \in SUBSET InProgress, hung \in SUBSET {h \in Hooks : call[h] # None} :
           /\ api' = [id \in Ids |-> IF id \in lost THEN "aborted" ELSE api[id]]
           /\ call' = [p \in Procs |-> IF p \in hung \cup {w} THEN None ELSE call[p]]
    /\ Leave(w)
    /\ worker' = [worker EXCEPT ![w] = Idle]
    /\ Fault("crash")
    /\ UNCHANGED <<table, sends, receipts, history>>

-----------------------------------------------------------------------------
ApiStep(id) == SendMessage(id) \/ SendMessageFails(id) \/ WriteInitialRow(id)

WorkerStep(w) ==
    \/ Receive(w)
    \/ WorkerRead(w) \/ WorkerSave(w) \/ WorkerUpdateFails(w)
    \/ Send(w)

GroupStep(w) == JoinGroup(w) \/ AutoCommit(w) \/ SessionEnds(w)

HookStep(h) ==
    \/ \E r \in Reporting, s \in Receipts : HandleWebhook(h, r[1], r[2], s)
    \/ HookSave(h) \/ HookSaveFails(h)

Next ==
    \/ \E id \in Ids : Post(id) \/ ApiStep(id) \/ Disconnect(id)
    \/ \E w \in Workers : WorkerStep(w) \/ GroupStep(w) \/ Crash(w)
    \/ \E h \in Hooks : HookStep(h)
    \/ Rebalance
    \/ ForeignMessage

Spec == Init /\ [][Next]_vars

(***************************************************************************)
(* Fairness.  Handlers and the worker are tasks of the tokio runtime, which *)
(* polls every task that can go on; the consumer joins and commits in the  *)
(* threads of its library.  Clients, providers and faults owe nothing.     *)
(***************************************************************************)
Fairness ==
    /\ \A id \in Ids : WF_vars(ApiStep(id))
    /\ \A w \in Workers : WF_vars(WorkerStep(w)) /\ WF_vars(AutoCommit(w))
    /\ \A w \in Workers : WF_vars(SessionEnds(w)) /\ WF_vars(JoinGroup(w))
    /\ \A h \in Hooks : WF_vars(HookSave(h))

FairSpec == Spec /\ Fairness

-----------------------------------------------------------------------------
Reported(id, c) == \E s \in Completed : <<id, c, s>> \in receipts

(***************************************************************************)
(* COMPLETED is never a false success: each channel shown as completed has *)
(* been sent to every recipient of the request, or a provider's callback   *)
(* has said so; and a notification shown as COMPLETED is completed in      *)
(* every channel of its request, although its row may appear while the     *)
(* worker is already in the middle of its message.                         *)
(***************************************************************************)
CompletedIsTrue ==
    \A id \in Ids : table[id] # None =>
        LET done == {c \in Channels : table[id].channels[c] \in Completed}
        IN  /\ \A t \in Requested[id] :
                    t[2] \in done => t \in Sent \/ Reported(id, t[2])
            /\ table[id].status = "COMPLETED" => ToSet(Request[id].channels) \subseteq done

(***************************************************************************)
(* A crash loses at most the one message the worker has in its hands, even *)
(* though offsets are committed ahead of the work: of the messages handed  *)
(* to workers, those neither delivered nor in anybody's hands are no more  *)
(* than the faults.                                                        *)
(***************************************************************************)
InHand(k) == \E w \in Workers : worker[w].pc # "wait" /\ position[w] = k

OneLossPerCrash ==
    Cardinality({k \in taken : ~ Handled(k) /\ ~ InHand(k)}) <= faults

(***************************************************************************)
(* Only what the topic got before the group's first commit is ever passed  *)
(* over: whichever workers come and go after it, none starts or goes on    *)
(* beyond a message that has been handed to nobody.                        *)
(***************************************************************************)
NoneSkippedAfterBase ==
    base >= 0 =>
        \A w \in Workers : session[w] => base + 1 .. position[w] \subseteq taken

Settled(id) ==
    table[id] # None /\ table[id].status \in {"COMPLETED", "PARTIAL_FAILURE"}

(***************************************************************************)
(* The status of an accepted notification with at least one channel        *)
(* becomes, and from some moment on stays, one of the statuses that the    *)
(* lifecycle ends in.                                                      *)
(***************************************************************************)
StatusSettles ==
    \A id \in Ids :
        (api[id] = "accepted" /\ Request[id].channels # <<>>) ~> []Settled(id)
================================================================================
