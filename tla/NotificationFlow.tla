---------------------------- MODULE NotificationFlow ----------------------------
(***************************************************************************)
(* What the implementations of the service have in common around their     *)
(* status table: requests that are accepted and put on the topic, worker   *)
(* processes that take them from it channel by channel and recipient by    *)
(* recipient, provider callbacks, the faults of the environment, and what  *)
(* delivery owes the clients.  What an implementation does, and in which   *)
(* order, is in its own module, which extends this one.                    *)
(***************************************************************************)
EXTENDS NotificationStatus, KafkaTopic, SequencesExt

CONSTANTS
    Recipients,       \* recipient ids
    Request,          \* Request[id]: the body of the request that gets id
    Hooks,            \* the webhook callbacks that may be in progress at once
    Supported,        \* channel names the implementation has an adapter for
    Flaky,            \* channels whose adapter's send may return an error
    FaultKinds,       \* the faults that may happen: see Fault
    MaxFaults         \* bound: the number of faults in one behaviour

VARIABLES
    api,              \* api[id]: how far the request that gets id has come
    worker,           \* worker[w]: where w's consumer loop is in a message
    sends,            \* sends[t]: how often adapter.send has delivered t
    receipts,         \* the callback payloads the webhook has received
    faults            \* the number of faults up to now

serviceVars == <<api, worker, sends, receipts, faults>>

Requests == [channels : Seq(Channels), recipients : Seq(Recipients)]

\* A delivery: one notification, over one channel, to one recipient.
Deliveries == Ids \X Channels \X Recipients

(***************************************************************************)
(* The next step of a request: "create" the row, "produce" the message.    *)
(* "rejected" is an error answer, "aborted" none at all.                   *)
(***************************************************************************)
ApiStates == {"idle", "create", "produce", "accepted", "rejected", "aborted"}

(***************************************************************************)
(* The next statement of a worker: the PROCESSING update of a channel      *)
(* ("processing"), a send ("send"), the COMPLETED or FAILED update         *)
(* ("final"), the FAILED update in an exception handler ("catch"), the     *)
(* acknowledgement of the message ("mark"), or the receive at the head of  *)
(* the loop ("wait").  ch and rcp are the loop counters, ok says whether   *)
(* the channel has succeeded so far.                                       *)
(***************************************************************************)
WorkerPcs == {"wait", "processing", "send", "final", "catch", "mark"}

WorkerState ==
    [pc : WorkerPcs, ch : Nat \ {0}, rcp : Nat \ {0}, ok : BOOLEAN]

\* Between two messages.
Idle == [pc |-> "wait", ch |-> 1, rcp |-> 1, ok |-> TRUE]

ASSUME KeysAssumption == Keys = Ids
ASSUME RequestAssumption == Request \in [Ids -> Requests]
ASSUME FaultsAssumption == MaxFaults \in Nat

-----------------------------------------------------------------------------
(***************************************************************************)
(* Faults, each counted and bounded by MaxFaults:                          *)
(*   "crash"       a process dies, with the requests it serves             *)
(*   "rebalance"   the broker takes the partition from a live worker       *)
(*   "db"          a statement on the database fails                       *)
(*   "produce"     an acknowledgement of the broker is lost                *)
(*   "junk"        somebody else writes to the topic                       *)
(*   "disconnect"  an HTTP client goes away before its answer              *)
(*   "body"        a request lacks what its handler needs                  *)
(***************************************************************************)
Fault(kind) ==
    /\ kind \in FaultKinds
    /\ faults < MaxFaults
    /\ faults' = faults + 1

NoFault == UNCHANGED faults

SetApi(id, s) == api' = [api EXCEPT ![id] = s]

\* The requests whose handlers have not returned.
InProgress == {id \in Ids : api[id] \in {"create", "produce"}}

\* The message in w's hands, and the channel w works on.
WorkerChannels(w) == Request[Current(w)].channels
WorkerRecipients(w) == Request[Current(w)].recipients
WorkerChannel(w) == WorkerChannels(w)[worker[w].ch]

-----------------------------------------------------------------------------
Sent == {t \in Deliveries : sends[t] > 0}

\* The deliveries a request names, and those an adapter exists for that does
\* not fail: a failed send is not tried again.
Requested == [id \in Ids |->
    {id} \X ToSet(Request[id].channels) \X ToSet(Request[id].recipients)]

Owed == [id \in Ids |->
    {t \in Requested[id] : t[2] \in Supported \ Flaky}]

Logged(id) == \E k \in 1 .. Len(log) : log[k] = id

\* What is owed for the k-th message has been delivered.
Handled(k) == log[k] # Junk => Owed[log[k]] \subseteq Sent

(***************************************************************************)
(* The workers acknowledge a message only when each delivery owed for it   *)
(* and for all messages before it has been made, by any worker, in this    *)
(* session or an earlier one (at-least-once).                              *)
(***************************************************************************)
CommittedIsDelivered ==
    \A k \in 1 .. committed : log[k] # Junk => Owed[log[k]] \subseteq Sent

(***************************************************************************)
(* A notification the API has accepted is never lost: what is owed for it  *)
(* has been delivered, or the group has not acknowledged its message yet.  *)
(***************************************************************************)
AcceptedIsNotLost ==
    \A id \in Ids : api[id] = "accepted" =>
        \/ Owed[id] \subseteq Sent
        \/ \E k \in 1 .. Len(log) : k > committed /\ log[k] = id

(***************************************************************************)
(* No recipient is contacted more often than the request, the copies of    *)
(* the message and the faults account for: without a fault, exactly as     *)
(* often as the request names it.                                          *)
(***************************************************************************)
Named(t) ==
    LET req == Request[t[1]]
    IN  Cardinality({c \in DOMAIN req.channels : req.channels[c] = t[2]})
        * Cardinality({r \in DOMAIN req.recipients : req.recipients[r] = t[3]})

Copies(id) == Cardinality({k \in 1 .. Len(log) : log[k] = id})

RepeatsNeedFaults ==
    \A t \in Deliveries : sends[t] <= Named(t) * Copies(t[1]) * (1 + faults)

(***************************************************************************)
(* What is owed for a notification the API has accepted is delivered in    *)
(* the end, also if the process that has accepted it does not live long.   *)
(***************************************************************************)
AcceptedIsDelivered ==
    \A id \in Ids : api[id] = "accepted" ~> Owed[id] \subseteq Sent

(***************************************************************************)
(* A notification the API has accepted gets to the topic in the end.       *)
(***************************************************************************)
AcceptedIsQueued ==
    \A id \in Ids : api[id] = "accepted" ~> Logged(id)

-----------------------------------------------------------------------------
\* The notifications with a message in the log, and those with one that the
\* group has acknowledged.
Queued == {id \in Ids : Logged(id)}
Retired == {id \in Ids : \E k \in 1 .. committed : log[k] = id}

Promise == INSTANCE DeliveryPromise
           WITH queued <- Queued, sent <- Sent, retired <- Retired

(***************************************************************************)
(* The implementation keeps the promise of at-least-once delivery.         *)
(***************************************************************************)
ImplementsPromise == Promise!PromiseSpec

(***************************************************************************)
(* What is owed for a message in the topic is delivered in the end,        *)
(* whatever the API answered, if the faults stop.                          *)
(***************************************************************************)
OwedIsDelivered == Promise!PromiseKept
================================================================================
