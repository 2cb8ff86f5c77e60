--------------------------- MODULE GoStatusService ---------------------------
(***************************************************************************)
(* NotificationStatusService of the Go implementation                      *)
(* (golang/service/notification_status_service.go), with the PostgreSQL    *)
(* table it keeps.  Its callers are concurrent: the workers and the        *)
(* webhook handlers, called Procs here.                                    *)
(*                                                                         *)
(* UpdateChannelStatus is a SELECT (db.First) and, after the overall       *)
(* status has been recomputed in memory, an UPDATE of every column         *)
(* (db.Save).  No transaction spans the two statements, so an update is    *)
(* two steps here, and call[p] holds what p carries from one to the other. *)
(***************************************************************************)
EXTENDS NotificationStatus

CONSTANT Procs        \* the concurrent callers of UpdateChannelStatus

VARIABLES
    table,            \* table[id]: the row of id, None if there is none
    call              \* call[p]: the update p has read and not yet saved

statusVars == <<table, call>>

Call == [id : Ids, row : Row]

StatusTypeOK ==
    /\ table \in [Ids -> Row \cup {None}]
    /\ call \in [Procs -> Call \cup {None}]

ASSUME CallAssumption == None \notin Call

StatusInit ==
    /\ table = [id \in Ids |-> None]
    /\ call = [p \in Procs |-> None]

-----------------------------------------------------------------------------
\* strings.EqualFold: the comparison ignores case.
Completed == {"COMPLETED", "completed"}
Failed == {"FAILED", "failed"}

Overall(m) == Aggregate(m, Completed, Failed)

\* Mutant of WithChannel: aggregated before the new status is put in the map.
WithChannelStale(row, c, s) ==
    [status |-> Overall(row.channels), channels |-> [row.channels EXCEPT ![c] = s]]

\* Mutant of WithChannel: a new map instead of the one that was read.
WithChannelOnly(row, c, s) ==
    LET m == [d \in Channels |-> IF d = c THEN s ELSE "ABSENT"]
    IN  [status |-> Overall(m), channels |-> m]

\* A row after UpdateChannelStatus has changed it in memory.
WithChannel(row, c, s) ==
    LET m == [row.channels EXCEPT ![c] = s]
    IN  [status |-> Overall(m), channels |-> m]

\* db.Create: the primary key makes a second Create of the same id fail.
CreateInitialStatus(id, chans) ==
    /\ table[id] = None
    /\ table' = [table EXCEPT ![id] = InitialRow(chans)]
    /\ UNCHANGED call

\* UpdateChannelStatus up to db.Save: the row is read and changed in memory.
UpdateRead(p, id, c, s) ==
    /\ call[p] = None
    /\ table[id] # None
    /\ call' = [call EXCEPT ![p] = [id |-> id, row |-> WithChannel(table[id], c, s)]]
    /\ UNCHANGED table

\* db.Save: every column of the row is overwritten.
UpdateSave(p) ==
    /\ call[p] # None
    /\ table' = [table EXCEPT ![call[p].id] = call[p].row]
    /\ call' = [call EXCEPT ![p] = None]

\* db.Save fails, or the process dies before it: the change is forgotten.
UpdateAbandon(p) ==
    /\ call[p] # None
    /\ call' = [call EXCEPT ![p] = None]
    /\ UNCHANGED table

\* GetStatus: the row as it is stored.
GetStatus(id) == table[id]

\* GetMetrics: the answer to GET /metrics.
GetMetrics == Metrics(table, Completed, Failed)

-----------------------------------------------------------------------------
\* The service on its own: any caller, any channel, any status.
StatusNext ==
    \/ \E id \in Ids, chans \in SUBSET Channels : CreateInitialStatus(id, chans)
    \/ \E p \in Procs, id \in Ids, c \in Channels, s \in WorkerStatuses \cup Receipts :
           UpdateRead(p, id, c, s)
    \/ \E p \in Procs : UpdateSave(p) \/ UpdateAbandon(p)

StatusSpec == StatusInit /\ [][StatusNext]_statusVars

-----------------------------------------------------------------------------
(***************************************************************************)
(* The overall status a client polls never contradicts the channel         *)
(* statuses next to it, however the updates of concurrent callers          *)
(* interleave: COMPLETED exactly when each channel of the row is           *)
(* completed, PARTIAL_FAILURE only with a failed one, ENQUEUED only while  *)
(* no update has reached the row.  (A request without channels stays       *)
(* ENQUEUED: no update ever recomputes its status.)                        *)
(***************************************************************************)
Consistent(row) == RowConsistent(row, Completed, Failed)

RowsConsistent == \A id \in Ids : table[id] # None => Consistent(table[id])

(***************************************************************************)
(* /metrics counts every notification once, and counts it as a success     *)
(* exactly when it has channels and all of them completed.                 *)
(***************************************************************************)
MetricsExact == CountsExact(GetMetrics, table, Completed)

(***************************************************************************)
(* An update of one channel leaves the statuses of the other channels as   *)
(* they are: what two callers report about two channels is both kept.      *)
(* (When no row appears, a step of the table is the save of one update.)   *)
(***************************************************************************)
ChangesOneChannel(id) ==
    \E c \in Channels : \A d \in Channels \ {c} :
        table'[id].channels[d] = table[id].channels[d]

UpdatesAreIsolated ==
    [][\A id \in Ids : table[id] # None => ChangesOneChannel(id)]_statusVars

-----------------------------------------------------------------------------
\* The ledger behind the table: the rows without their overall status.
tableLedger ==
    [id \in Ids |-> IF table[id] = None THEN None ELSE table[id].channels]

Ledger == INSTANCE StatusLedger WITH ledger <- tableLedger

(***************************************************************************)
(* With one caller at a time, UpdateChannelStatus is the atomic report of  *)
(* StatusLedger, although it takes two statements and either may fail.     *)
(***************************************************************************)
ImplementsLedger == Ledger!LedgerSpec
=============================================================================
