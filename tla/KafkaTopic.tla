------------------------------ MODULE KafkaTopic ------------------------------
(***************************************************************************)
(* The Kafka topic "notifications" and its consumer group, as the service  *)
(* uses them: external code, modelled by what src/ relies on.              *)
(*                                                                         *)
(* One partition.  A notification is one message, keyed by its id, so the  *)
(* messages of different partitions never meet in the status table, and a  *)
(* second partition is a second copy of this module.                       *)
(*                                                                         *)
(* Offsets are counts: committed = k says that the group has acknowledged  *)
(* the first k messages of the log.  The broker gives the partition to one *)
(* member (owner) and accepts commits of the owner alone; a member whose   *)
(* partition was taken away learns of it late, and its consumer loop runs  *)
(* on meanwhile (session[w] /\ owner # w).                                 *)
(***************************************************************************)
EXTENDS Integers, Sequences

CONSTANTS
    Keys,             \* message keys
    Junk,             \* a message no consumer can parse
    Workers,          \* the members of the consumer group
    Nobody            \* the owner of an unassigned partition

VARIABLES
    log,              \* the messages of the partition, in order
    committed,        \* messages the group has acknowledged, -1 if it never has
    owner,            \* the member the broker has assigned the partition to
    session,          \* session[w]: the consumer loop of w runs
    position,         \* position[w]: messages delivered up to now to w's loop
    stored            \* stored[w]: offset w will commit next, -1 if none

topicVars == <<log, committed, owner, session, position, stored>>
groupVars == <<committed, owner, session, position, stored>>

ASSUME JunkAssumption == Junk \notin Keys
ASSUME NobodyAssumption == Nobody \notin Workers

TopicTypeOK ==
    /\ log \in Seq(Keys \cup {Junk})
    /\ committed \in -1 .. Len(log)
    /\ owner \in Workers \cup {Nobody}
    /\ session \in [Workers -> BOOLEAN]
    /\ position \in [Workers -> 0 .. Len(log)]
    /\ stored \in [Workers -> -1 .. Len(log)]

TopicInit ==
    /\ log = <<>>
    /\ committed = -1
    /\ owner = Nobody
    /\ session = [w \in Workers |-> FALSE]
    /\ position = [w \in Workers |-> 0]
    /\ stored = [w \in Workers |-> -1]

-----------------------------------------------------------------------------
\* The message w's loop works on.
Current(w) == log[position[w]]

\* The broker appends a message; all that is not in the log is unchanged.
Append1(m) ==
    /\ log' = Append(log, m)
    /\ UNCHANGED groupVars

\* A producer that retries after a lost acknowledgement appends it twice.
Append2(m) ==
    /\ log' = log \o <<m, m>>
    /\ UNCHANGED groupVars

\* Where a loop starts: at the committed offset, or, if there is none, where
\* auto.offset.reset says.
StartOffset(reset) ==
    IF committed >= 0 THEN committed
    ELSE IF reset = "earliest" THEN 0 ELSE Len(log)

\* w's loop starts.
Begin(w, reset) ==
    /\ session' = [session EXCEPT ![w] = TRUE]
    /\ position' = [position EXCEPT ![w] = StartOffset(reset)]
    /\ stored' = [stored EXCEPT ![w] = -1]
    /\ UNCHANGED <<log, committed>>

(***************************************************************************)
(* The broker assigns the partition, and w's loop starts.  A member joins  *)
(* again only after its last loop has returned.                            *)
(***************************************************************************)
Assign(w, reset) ==
    /\ owner = Nobody
    /\ ~session[w]
    /\ owner' = w
    /\ Begin(w, reset)

\* The same in two steps, for a client that finds out where to start when it
\* fetches for the first time.
Grant(w) ==
    /\ owner = Nobody
    /\ ~session[w]
    /\ owner' = w
    /\ UNCHANGED <<log, committed, session, position, stored>>

FirstFetch(w, reset) ==
    /\ owner = w
    /\ ~session[w]
    /\ Begin(w, reset)
    /\ UNCHANGED owner

\* The broker takes the partition away: a rebalance, a missed heartbeat.
Revoke ==
    /\ owner # Nobody
    /\ owner' = Nobody
    /\ UNCHANGED <<log, committed, session, position, stored>>

\* w's loop is gone, and what it knew with it.
Close(w) ==
    /\ session' = [session EXCEPT ![w] = FALSE]
    /\ position' = [position EXCEPT ![w] = 0]
    /\ stored' = [stored EXCEPT ![w] = -1]
    /\ UNCHANGED <<log, committed>>

\* The loop of a member that has lost the partition returns.
EndSession(w) ==
    /\ session[w]
    /\ owner # w
    /\ Close(w)
    /\ UNCHANGED owner

\* The process of w dies; the broker notices.
Leave(w) ==
    /\ owner' = IF owner = w THEN Nobody ELSE owner
    /\ Close(w)

\* The next message is handed to w's loop.
Deliver(w) ==
    /\ session[w]
    /\ position[w] < Len(log)
    /\ position' = [position EXCEPT ![w] = @ + 1]
    /\ UNCHANGED <<log, committed, owner, session>>

\* w's loop gives the message it works on back, to get it once more.
Redeliver(w) ==
    /\ position' = [position EXCEPT ![w] = @ - 1]
    /\ UNCHANGED <<log, committed, owner, session, stored>>

\* w notes the message it works on, and all before it, as done.
Store(w) ==
    /\ stored' = [stored EXCEPT ![w] = position[w]]
    /\ UNCHANGED <<log, committed, owner, session, position>>

\* The background committer of w sends what w has stored.
Commit(w) ==
    /\ session[w]
    /\ owner = w
    /\ stored[w] > committed
    /\ committed' = stored[w]
    /\ UNCHANGED <<log, owner, session, position, stored>>
=============================================================================
