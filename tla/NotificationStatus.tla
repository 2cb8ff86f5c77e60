-------------------------- MODULE NotificationStatus --------------------------
(***************************************************************************)
(* The status row of a notification, as every implementation of the        *)
(* service stores it: one overall status and one status per channel.       *)
(*                                                                         *)
(* The source keeps the channel statuses in a map from channel names to    *)
(* strings.  Here the map is a total function on Channels whose value is   *)
(* "ABSENT" for a channel that is no key of the map.                       *)
(***************************************************************************)
EXTENDS Integers, FiniteSets, Functions

CONSTANTS
    Ids,         \* notification identifiers (the UUIDs the API generates)
    Channels,    \* channel names a request or a callback may carry
    Receipts,    \* status strings a provider may put in a webhook callback
    None         \* "no row", "no call": a value that is none of the others

\* What the service writes on its own account.
WorkerStatuses == {"PROCESSING", "COMPLETED", "FAILED"}

ChannelStatuses == {"ABSENT", "PENDING"} \cup WorkerStatuses \cup Receipts

OverallStatuses == {"ENQUEUED", "PROCESSING", "COMPLETED", "PARTIAL_FAILURE"}

ChannelMaps == [Channels -> ChannelStatuses]

Row == [status : OverallStatuses, channels : ChannelMaps]

ASSUME ReceiptsAssumption == "ABSENT" \notin Receipts

ASSUME NoneAssumption == None \notin Row \cup ChannelMaps

\* There are only so many UUIDs.
ASSUME IdsAssumption == IsFiniteSet(Ids)

-----------------------------------------------------------------------------
\* The statuses in a channel map, without the channels it has no key for.
Present(m) == {m[c] : c \in Channels} \ {"ABSENT"}

\* The row of a new notification: every requested channel is PENDING.
InitialRow(chans) ==
    [status   |-> "ENQUEUED",
     channels |-> [c \in Channels |-> IF c \in chans THEN "PENDING" ELSE "ABSENT"]]

(***************************************************************************)
(* The overall status computed from a channel map.  The implementations    *)
(* differ only in the strings they take for "completed" and for "failed".  *)
(***************************************************************************)
Aggregate(m, completed, failed) ==
    IF Present(m) \subseteq completed THEN "COMPLETED"
    ELSE IF Present(m) \cap failed # {} THEN "PARTIAL_FAILURE"
    ELSE "PROCESSING"

\* A channel map whose row no update has reached yet.
Untouched(m) == Present(m) \subseteq {"PENDING"}

\* A client that has seen old may see new next: ENQUEUED, then PROCESSING, then
\* one of the two final statuses.
Advances(old, new) ==
    /\ new # None
    /\ new.status # old.status =>
           /\ old.status \in {"ENQUEUED", "PROCESSING"}
           /\ new.status # "ENQUEUED"

\* The overall status of a row does not contradict its channels.
RowConsistent(row, completed, failed) ==
    LET present == Present(row.channels)
        done    == \A s \in present : s \in completed
        some    == \E s \in present : s \in failed
    IN  /\ row.status = "COMPLETED" => done /\ present # {}
        /\ row.status = "PARTIAL_FAILURE" => some /\ ~done
        /\ row.status = "PROCESSING" => ~some /\ ~done
        /\ row.status = "ENQUEUED" => Untouched(row.channels)

\* The total counts every row of the table once, and the successes count it
\* exactly when it has channels and all of them are completed.
CountsExact(metrics, table, completed) ==
    LET rows == {id \in Ids : table[id] # None}
        done == {id \in rows : /\ Present(table[id].channels) # {}
                               /\ Present(table[id].channels) \subseteq completed}
    IN  metrics.total = Cardinality(rows) /\ metrics.success = Cardinality(done)

\* The rows of a table whose overall status is s.
RowsWith(table, s) == {id \in Ids : table[id] # None /\ table[id].status = s}

\* The rows are counted per overall status, and the counts summed.
Metrics(table, completed, failed) ==
    LET byStatus == [s \in OverallStatuses |-> Cardinality(RowsWith(table, s))]
    IN  [total     |-> SumFunction(byStatus),
         success   |-> SumFunctionOnSet(byStatus, OverallStatuses \cap completed),
         failed    |-> SumFunctionOnSet(byStatus, OverallStatuses \cap failed),
         by_status |-> byStatus]
=============================================================================
