--------------------------- MODULE RustStatusService ---------------------------
(***************************************************************************)
(* NotificationStatusService of the Rust implementation                    *)
(* (rust/src/status_service.rs), with the PostgreSQL table it keeps.  Its  *)
(* callers are concurrent tasks, called Procs here: the worker and the     *)
(* webhook handlers, which share a pool of connections.                    *)
(*                                                                         *)
(* As in Go, update_channel_status is a SELECT and an UPDATE of the whole  *)
(* row without a transaction.  Unlike in Go, a notification without a row  *)
(* is no error, and statuses are compared with their case.                 *)
(***************************************************************************)
EXTENDS NotificationStatus

CONSTANT Procs        \* the concurrent callers of update_channel_status

VARIABLES
    table,            \* table[id]: the row of id, None if there is none
    call              \* call[p]: the update p has read and not yet saved

statusVars == <<table, call>>

Call == [id : Ids, row : Row]

StatusTypeOK ==
    /\ table \in [Ids -> Row \cup {None}]
    /\ call \in [Procs -> Call \cup {None}]

ASSUME CallAssumption == None \notin Call

StatusInit ==
    /\ table = [id \in Ids |-> None]
    /\ call = [p \in Procs |-> None]

-----------------------------------------------------------------------------
Completed == {"COMPLETED"}
Failed == {"FAILED"}

Overall(m) == Aggregate(m, Completed, Failed)

\* Mutant of WithChannel: aggregated before the new status is inserted.
WithChannelStale(row, c, s) ==
    [status |-> Overall(row.channels), channels |-> [row.channels EXCEPT ![c] = s]]

\* The columns of the UPDATE statement.
WithChannel(row, c, s) ==
    LET m == [row.channels EXCEPT ![c] = s]
    IN  [status |-> Overall(m), channels |-> m]

\* create_initial_status: INSERT, which fails if the row exists.
CreateInitialStatus(id, chans) ==
    /\ table[id] = None
    /\ table' = [table EXCEPT ![id] = InitialRow(chans)]
    /\ UNCHANGED call

\* get_status: the row, if there is one.
GetStatus(id) == table[id]

\* update_channel_status asks for the row, and finds it.
UpdateRead(p, id, c, s) ==
    /\ call[p] = None
    /\ GetStatus(id) # None
    /\ call' = [call EXCEPT ![p] = [id |-> id, row |-> WithChannel(GetStatus(id), c, s)]]
    /\ UNCHANGED table

\* When it finds none: Ok(()), and the new status is forgotten.
UpdateMissing(p, id) ==
    /\ call[p] = None
    /\ GetStatus(id) = None
    /\ UNCHANGED statusVars

\* The UPDATE statement.
UpdateSave(p) ==
    /\ call[p] # None
    /\ table' = [table EXCEPT ![call[p].id] = call[p].row]
    /\ call' = [call EXCEPT ![p] = None]

\* The statement fails, or the task is dropped before it.
UpdateAbandon(p) ==
    /\ call[p] # None
    /\ call' = [call EXCEPT ![p] = None]
    /\ UNCHANGED table

\* get_metrics: the answer to GET /metrics.
GetMetrics == Metrics(table, Completed, Failed)

-----------------------------------------------------------------------------
\* The service on its own: any caller, any channel, any status.
StatusNext ==
    \/ \E id \in Ids, chans \in SUBSET Channels : CreateInitialStatus(id, chans)
    \/ \E p \in Procs, id \in Ids :
           \/ UpdateMissing(p, id)
           \/ \E c \in Channels, s \in WorkerStatuses \cup Receipts : UpdateRead(p, id, c, s)
    \/ \E p \in Procs : UpdateSave(p) \/ UpdateAbandon(p)

StatusSpec == StatusInit /\ [][StatusNext]_statusVars

-----------------------------------------------------------------------------
(***************************************************************************)
(* The overall status a client polls never contradicts the channel         *)
(* statuses next to it: COMPLETED exactly when each channel of the row is  *)
(* "COMPLETED", PARTIAL_FAILURE only with a "FAILED" one, ENQUEUED only    *)
(* while no update has reached the row.                                    *)
(***************************************************************************)
Consistent(row) == RowConsistent(row, Completed, Failed)

RowsConsistent == \A id \in Ids : table[id] # None => Consistent(table[id])

(***************************************************************************)
(* /metrics counts every row once, and counts it as a success exactly when *)
(* it has channels and all of them are "COMPLETED".                        *)
(***************************************************************************)
MetricsExact == CountsExact(GetMetrics, table, Completed)
=============================================================================
