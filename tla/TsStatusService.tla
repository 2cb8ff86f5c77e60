---------------------------- MODULE TsStatusService ----------------------------
(***************************************************************************)
(* NotificationStatusService of the TypeScript implementation              *)
(* (typescript/src/notification/notification-status.service.ts), with the  *)
(* PostgreSQL table it keeps.  Its callers, called Procs here, are async   *)
(* functions of one or several Node.js processes, which interleave at      *)
(* every await.                                                            *)
(*                                                                         *)
(* updateChannelStatus awaits two calls of the TypeORM repository, of      *)
(* which save is two statements: it loads the row once more, and updates   *)
(* those columns only that differ between the entity and what it loaded.   *)
(***************************************************************************)
EXTENDS NotificationStatus

CONSTANT Procs        \* the concurrent callers of updateChannelStatus

VARIABLES
    table,            \* table[id]: the row of id, None if there is none
    call              \* call[p]: the update p is in the middle of

statusVars == <<table, call>>

Columns == {"status", "channels"}

\* The entity in memory, and, once save has loaded the row, the columns that
\* differ.
Call == [id : Ids, row : Row, loaded : BOOLEAN, changed : SUBSET Columns]

StatusTypeOK ==
    /\ table \in [Ids -> Row \cup {None}]
    /\ call \in [Procs -> Call \cup {None}]

StatusInit ==
    /\ table = [id \in Ids |-> None]
    /\ call = [p \in Procs |-> None]

-----------------------------------------------------------------------------
Completed == {"COMPLETED"}
Failed == {"FAILED"}

\* Mutant of Overall: one completed channel is enough for COMPLETED.
OverallOfAny(m) ==
    IF Present(m) \cap Completed # {} THEN "COMPLETED" ELSE Aggregate(m, Completed, Failed)

Overall(m) == Aggregate(m, Completed, Failed)

\* Mutant of WithChannel: a new map instead of the one that was read.
WithChannelOnly(row, c, s) ==
    LET m == [d \in Channels |-> IF d = c THEN s ELSE "ABSENT"]
    IN  [status |-> Overall(m), channels |-> m]

\* The entity after updateChannelStatus has changed it.
WithChannel(row, c, s) ==
    LET m == [row.channels EXCEPT ![c] = s]
    IN  [status |-> Overall(m), channels |-> m]

\* createInitialStatus: the repository inserts the row.
CreateInitialStatus(id, chans) ==
    /\ table[id] = None
    /\ table' = [table EXCEPT ![id] = InitialRow(chans)]
    /\ UNCHANGED call

\* findOneBy, and the changes in memory.  If it finds no row nothing is updated,
\* and nobody is told.
UpdateFind(p, id, c, s) ==
    /\ call[p] = None
    /\ table[id] # None
    /\ call' = [call EXCEPT ![p] = [id |-> id, row |-> WithChannel(table[id], c, s),
                                    loaded |-> FALSE, changed |-> {}]]
    /\ UNCHANGED table

\* The columns in which save would find row and stored different.
Differing(row, stored) ==
    {col \in Columns : IF col = "status" THEN row.status # stored.status
                       ELSE row.channels # stored.channels}

\* The first statement of save, when there is something to write.
SaveLoad(p) ==
    LET diff == Differing(call[p].row, table[call[p].id])
    IN  /\ call[p] # None /\ ~ call[p].loaded
        /\ diff # {}
        /\ call' = [call EXCEPT ![p].loaded = TRUE, ![p].changed = diff]
        /\ UNCHANGED table

\* The first statement of save, when there is nothing to write.
SaveNothing(p) ==
    /\ call[p] # None /\ ~ call[p].loaded
    /\ Differing(call[p].row, table[call[p].id]) = {}
    /\ call' = [call EXCEPT ![p] = None]
    /\ UNCHANGED table

\* Mutant of SaveWrite: the channel map is never written.
SaveStatusOnly(p) ==
    LET v == call[p]
    IN  /\ v # None /\ v.loaded
        /\ table' = [table EXCEPT ![v.id] = [status |-> v.row.status, channels |-> @.channels]]
        /\ call' = [call EXCEPT ![p] = None]

\* The second: UPDATE of the columns that differ.
SaveWrite(p) ==
    LET v == call[p]
    IN  /\ v # None /\ v.loaded
        /\ table' = [table EXCEPT ![v.id] =
               [status   |-> IF "status" \in v.changed THEN v.row.status ELSE @.status,
                channels |-> IF "channels" \in v.changed THEN v.row.channels ELSE @.channels]]
        /\ call' = [call EXCEPT ![p] = None]

\* A statement fails, or the process dies.
UpdateAbandon(p) ==
    /\ call[p] # None
    /\ call' = [call EXCEPT ![p] = None]
    /\ UNCHANGED table

\* getStatus: what GET /status/:id shows.
GetStatus(id) == table[id]

\* getMetrics: the answer to GET /metrics.
GetMetrics == Metrics(table, Completed, Failed)

-----------------------------------------------------------------------------
\* The service on its own: any caller, any channel, any status.
StatusNext ==
    \/ \E id \in Ids, chans \in SUBSET Channels : CreateInitialStatus(id, chans)
    \/ \E p \in Procs, id \in Ids, c \in Channels, s \in WorkerStatuses \cup Receipts :
           UpdateFind(p, id, c, s)
    \/ \E p \in Procs : SaveLoad(p) \/ SaveNothing(p) \/ SaveWrite(p) \/ UpdateAbandon(p)

StatusSpec == StatusInit /\ [][StatusNext]_statusVars

-----------------------------------------------------------------------------
(***************************************************************************)
(* The overall status a client polls never contradicts the channel         *)
(* statuses next to it: both columns of a row come from one update.        *)
(***************************************************************************)
Consistent(row) == RowConsistent(row, Completed, Failed)

RowsConsistent == \A id \in Ids : table[id] # None => Consistent(table[id])

(***************************************************************************)
(* /metrics counts every row once, and counts it as a success exactly when *)
(* it has channels and all of them are "COMPLETED".                        *)
(***************************************************************************)
MetricsExact == CountsExact(GetMetrics, table, Completed)

-----------------------------------------------------------------------------
\* The ledger behind the table: the rows without their overall status.
tableLedger ==
    [id \in Ids |-> IF table[id] = None THEN None ELSE table[id].channels]

Ledger == INSTANCE StatusLedger WITH ledger <- tableLedger

(***************************************************************************)
(* With one caller at a time, updateChannelStatus is the atomic report of  *)
(* StatusLedger, although it takes three statements, each of which may     *)
(* fail, and writes only what has changed.                                 *)
(***************************************************************************)
ImplementsLedger == Ledger!LedgerSpec
================================================================================
