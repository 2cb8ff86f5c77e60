---------------------------- MODULE DeliveryPromise ----------------------------
(***************************************************************************)
(* At-least-once delivery, without queues, offsets or workers.  A          *)
(* notification that has been queued may be sent to the recipients it      *)
(* names, any number of times and in any order; it is retired, that is     *)
(* never looked at again, only when all that is owed for it has been sent. *)
(***************************************************************************)
CONSTANTS
    Ids,
    Requested,        \* Requested[id]: the deliveries the request of id names
    Owed              \* Owed[id]: those of them the service must make

VARIABLES
    queued,           \* the notifications that have been queued
    sent,             \* the deliveries made
    retired           \* the notifications the service has done with

promiseVars == <<queued, sent, retired>>

PromiseInit == queued = {} /\ sent = {} /\ retired = {}

Enqueue(id) ==
    /\ queued' = queued \cup {id}
    /\ UNCHANGED <<sent, retired>>

Deliver(id) ==
    /\ id \in queued
    /\ \E t \in Requested[id] : sent' = sent \cup {t}
    /\ UNCHANGED <<queued, retired>>

Retire(S) ==
    /\ S \subseteq queued
    /\ \A id \in S : Owed[id] \subseteq sent
    /\ retired' = retired \cup S
    /\ UNCHANGED <<queued, sent>>

PromiseNext ==
    \/ \E id \in Ids : Enqueue(id) \/ Deliver(id)
    \/ \E S \in SUBSET Ids : Retire(S)

PromiseSpec == PromiseInit /\ [][PromiseNext]_promiseVars

\* What is owed for a queued notification is sent in the end.
PromiseKept == \A id \in Ids : id \in queued ~> Owed[id] \subseteq sent
================================================================================
