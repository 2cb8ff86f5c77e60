--------------------------- MODULE JpaStatusService ---------------------------
(***************************************************************************)
(* NotificationStatusService of the Java and of the Kotlin implementation, *)
(* which are one program in two languages, with the two PostgreSQL tables  *)
(* of its JPA entity: a row holds the overall status, and for each channel *)
(* there is a row of the collection table with the channel's status.  Its  *)
(* callers, called Procs here, are listener threads and HTTP threads.      *)
(*                                                                         *)
(* updateChannelStatus is a transaction at the isolation level READ        *)
(* COMMITTED: one query reads the entity with its channels, the entity is  *)
(* changed in memory, and the flush at the commit writes what differs from *)
(* the values read, and nothing else.                                      *)
(***************************************************************************)
EXTENDS NotificationStatus

CONSTANT Procs        \* the concurrent callers of updateChannelStatus

VARIABLES
    table,            \* table[id]: the entity of id, None if there is none
    call              \* call[p]: the transaction p is in the middle of

statusVars == <<table, call>>

\* A transaction: the entity as it was read, and as it is in memory now.
Call == [id : Ids, old : Row, new : Row]

ASSUME CallAssumption == None \notin Call

StatusTypeOK ==
    /\ table \in [Ids -> Row \cup {None}]
    /\ call \in [Procs -> Call \cup {None}]

StatusInit ==
    /\ table = [id \in Ids |-> None]
    /\ call = [p \in Procs |-> None]

-----------------------------------------------------------------------------
\* equalsIgnoreCase: "completed" and "failed" stand for every other spelling.
Completed == {"COMPLETED", "completed"}
Failed == {"FAILED", "failed"}

Overall(m) == Aggregate(m, Completed, Failed)

\* Mutant of WithChannel: the overall status of the map before the put.
WithChannelStale(row, c, s) ==
    [status |-> Overall(row.channels), channels |-> [row.channels EXCEPT ![c] = s]]

\* Mutant of WithChannel: the overall status of the reported channel alone.
WithChannelAlone(row, c, s) ==
    [status   |-> Overall([d \in Channels |-> IF d = c THEN s ELSE "ABSENT"]),
     channels |-> [row.channels EXCEPT ![c] = s]]

\* The entity after put and setStatus.
WithChannel(row, c, s) ==
    LET m == [row.channels EXCEPT ![c] = s]
    IN  [status |-> Overall(m), channels |-> m]

\* createInitialStatus: one transaction that inserts the row.
CreateInitialStatus(id, chans) ==
    /\ table[id] = None
    /\ table' = [table EXCEPT ![id] = InitialRow(chans)]
    /\ UNCHANGED call

\* findById, and the changes in memory.
UpdateRead(p, id, c, s) ==
    /\ call[p] = None
    /\ table[id] # None
    /\ call' = [call EXCEPT ![p] = [id |-> id, old |-> table[id],
                                    new |-> WithChannel(table[id], c, s)]]
    /\ UNCHANGED table

\* The channels for which the flush would insert a row that somebody else has
\* inserted since: a violation of the primary key.
Conflicts(p) ==
    {c \in Channels : /\ call[p].old.channels[c] = "ABSENT"
                      /\ call[p].new.channels[c] # "ABSENT"
                      /\ table[call[p].id].channels[c] # "ABSENT"}

\* Mutant of Flush: the whole entity is written.
FlushAll(old, new, now) == new

\* Hibernate's flush on top of what the tables hold now: the columns and rows
\* in which new differs from old.
Flush(old, new, now) ==
    [status   |-> IF new.status # old.status THEN new.status ELSE now.status,
     channels |-> [c \in Channels |->
                      IF new.channels[c] # old.channels[c] THEN new.channels[c]
                      ELSE now.channels[c]]]

UpdateCommit(p) ==
    LET v == call[p]
    IN  /\ v # None
        /\ Conflicts(p) = {}
        /\ table' = [table EXCEPT ![v.id] = Flush(v.old, v.new, table[v.id])]
        /\ call' = [call EXCEPT ![p] = None]

\* The transaction is rolled back, and the caller gets an exception: a
\* statement has failed, or there is a conflict.
UpdateRollback(p) ==
    /\ call[p] # None
    /\ call' = [call EXCEPT ![p] = None]
    /\ UNCHANGED table

\* getStatus: one query reads the entity with its channels.
GetStatus(id) == table[id]

\* getMetrics: the answer to GET /metrics.
GetMetrics == Metrics(table, Completed, Failed)

-----------------------------------------------------------------------------
\* The service on its own: any caller, any channel, any status.
StatusNext ==
    \/ \E id \in Ids, chans \in SUBSET Channels : CreateInitialStatus(id, chans)
    \/ \E p \in Procs, id \in Ids, c \in Channels, s \in WorkerStatuses \cup Receipts :
           UpdateRead(p, id, c, s)
    \/ \E p \in Procs : UpdateCommit(p) \/ UpdateRollback(p)

StatusSpec == StatusInit /\ [][StatusNext]_statusVars

-----------------------------------------------------------------------------
(***************************************************************************)
(* The overall status a client polls never contradicts the channel         *)
(* statuses next to it.                                                    *)
(***************************************************************************)
Consistent(row) == RowConsistent(row, Completed, Failed)

RowsConsistent == \A id \in Ids : table[id] # None => Consistent(table[id])

(***************************************************************************)
(* /metrics counts every row once, and counts it as a success exactly when *)
(* it has channels and all of them are completed.                          *)
(***************************************************************************)
MetricsExact == CountsExact(GetMetrics, table, Completed)

-----------------------------------------------------------------------------
\* The ledger behind the tables: the rows without their overall status.
tableLedger ==
    [id \in Ids |-> IF table[id] = None THEN None ELSE table[id].channels]

Ledger == INSTANCE StatusLedger WITH ledger <- tableLedger

(***************************************************************************)
(* Each commit is an atomic report on one channel, whatever other callers  *)
(* have committed since its transaction has read: no report undoes another *)
(* channel's.                                                              *)
(***************************************************************************)
ImplementsLedger == Ledger!LedgerSpec
================================================================================
