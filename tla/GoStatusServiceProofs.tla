------------------------- MODULE GoStatusServiceProofs -------------------------
(***************************************************************************)
(* Theorems about GoStatusService, for every set of notifications,         *)
(* channels, provider statuses and concurrent callers.                     *)
(***************************************************************************)
EXTENDS GoStatusService, NotificationStatusProofs

(***************************************************************************)
(* What UpdateChannelStatus makes of a row in memory is well typed and     *)
(* consistent, whatever row it has read: the overall status is recomputed  *)
(* from the map that is stored with it.                                    *)
(***************************************************************************)
LEMMA WithChannelConsistent ==
    ASSUME NEW row \in Row, NEW c \in Channels, NEW s \in WorkerStatuses \cup Receipts
    PROVE  WithChannel(row, c, s) \in Row /\ Consistent(WithChannel(row, c, s))
<1> DEFINE m == [row.channels EXCEPT ![c] = s]
<1>1. m \in ChannelMaps /\ m[c] # "ABSENT"
      BY ReceiptsAssumption DEF Row, ChannelMaps, ChannelStatuses, WorkerStatuses
<1>2. WithChannel(row, c, s) = [status |-> Aggregate(m, Completed, Failed), channels |-> m]
      BY DEF WithChannel, Overall
<1> HIDE DEF m
<1> QED BY <1>1, <1>2, AggregatedRowIsConsistent DEF Consistent

-----------------------------------------------------------------------------
\* The inductive form: an update in progress carries a consistent row too.
CallsConsistent == \A p \in Procs : call[p] # None => Consistent(call[p].row)

StatusInv == StatusTypeOK /\ RowsConsistent /\ CallsConsistent

(***************************************************************************)
(* The statements of NotificationStatusService keep the invariant, each on *)
(* its own, so that a larger system that is built from them keeps it too.  *)
(***************************************************************************)
LEMMA InitStatusInv == StatusInit => StatusInv
BY NoneAssumption, CallAssumption
   DEF StatusInit, StatusInv, StatusTypeOK, RowsConsistent, CallsConsistent

LEMMA CreateKeepsStatusInv ==
    ASSUME StatusInv, NEW id \in Ids, NEW chans \in SUBSET Channels,
           CreateInitialStatus(id, chans)
    PROVE  StatusInv'
<1>1. InitialRow(chans) \in Row /\ Consistent(InitialRow(chans))
      BY InitialRowIsConsistent DEF Consistent
<1> QED BY <1>1 DEF CreateInitialStatus, StatusInv, StatusTypeOK, RowsConsistent, CallsConsistent

LEMMA ReadKeepsStatusInv ==
    ASSUME StatusInv, NEW p \in Procs, NEW id \in Ids, NEW c \in Channels,
           NEW s \in WorkerStatuses \cup Receipts, UpdateRead(p, id, c, s)
    PROVE  StatusInv'
<1> DEFINE row == WithChannel(table[id], c, s)
<1>1. table[id] \in Row
      BY DEF UpdateRead, StatusInv, StatusTypeOK
<1>2. row \in Row /\ Consistent(row)
      BY <1>1, WithChannelConsistent
<1> HIDE DEF row
<1>3. call' = [call EXCEPT ![p] = [id |-> id, row |-> row]] /\ table' = table
      BY DEF UpdateRead, row
<1> QED BY <1>2, <1>3 DEF StatusInv, StatusTypeOK, Call, RowsConsistent, CallsConsistent

LEMMA SaveKeepsStatusInv ==
    ASSUME StatusInv, NEW p \in Procs, UpdateSave(p)
    PROVE  StatusInv'
<1>1. /\ call[p] \in Call
      /\ call[p].id \in Ids
      /\ call[p].row \in Row
      /\ Consistent(call[p].row)
      BY DEF UpdateSave, StatusInv, StatusTypeOK, CallsConsistent, Call
<1> QED BY <1>1 DEF UpdateSave, StatusInv, StatusTypeOK, RowsConsistent, CallsConsistent

LEMMA AbandonKeepsStatusInv ==
    ASSUME StatusInv, NEW p \in Procs, UpdateAbandon(p)
    PROVE  StatusInv'
BY DEF UpdateAbandon, StatusInv, StatusTypeOK, RowsConsistent, CallsConsistent

LEMMA StutterKeepsStatusInv ==
    ASSUME StatusInv, UNCHANGED statusVars
    PROVE  StatusInv'
BY DEF statusVars, StatusInv, StatusTypeOK, RowsConsistent, CallsConsistent

-----------------------------------------------------------------------------
(***************************************************************************)
(* However the callers of the service interleave, the table stays well     *)
(* typed and no row contradicts itself (StatusTypeOK, RowsConsistent).     *)
(***************************************************************************)
THEOREM RowsStayConsistent == StatusSpec => [](StatusTypeOK /\ RowsConsistent)
<1>1. StatusInit => StatusInv
      BY InitStatusInv
<1>2. StatusInv /\ [StatusNext]_statusVars => StatusInv'
  <2> SUFFICES ASSUME StatusInv, [StatusNext]_statusVars
               PROVE  StatusInv'
      OBVIOUS
  <2>1. ASSUME NEW id \in Ids, NEW chans \in SUBSET Channels, CreateInitialStatus(id, chans)
        PROVE  StatusInv'
        BY <2>1, CreateKeepsStatusInv
  <2>2. ASSUME NEW p \in Procs, NEW id \in Ids, NEW c \in Channels,
               NEW s \in WorkerStatuses \cup Receipts, UpdateRead(p, id, c, s)
        PROVE  StatusInv'
        BY <2>2, ReadKeepsStatusInv
  <2>3. ASSUME NEW p \in Procs, UpdateSave(p)
        PROVE  StatusInv'
        BY <2>3, SaveKeepsStatusInv
  <2>4. ASSUME NEW p \in Procs, UpdateAbandon(p)
        PROVE  StatusInv'
        BY <2>4, AbandonKeepsStatusInv
  <2>5. CASE UNCHANGED statusVars
        BY <2>5, StutterKeepsStatusInv
  <2> QED BY <2>1, <2>2, <2>3, <2>4, <2>5 DEF StatusNext
<1>3. StatusInv => StatusTypeOK /\ RowsConsistent
      BY DEF StatusInv
<1> QED BY <1>1, <1>2, <1>3, PTL DEF StatusSpec

(***************************************************************************)
(* EqualFold takes one overall status for completed, and "PENDING" not, so *)
(* the counts of GetMetrics are those of ConsistentRowsCount.              *)
(***************************************************************************)
LEMMA RowsAreCounted == StatusTypeOK /\ RowsConsistent => MetricsExact
<1> SUFFICES ASSUME StatusTypeOK, RowsConsistent
             PROVE  MetricsExact
    OBVIOUS
<1>1. Completed \cap OverallStatuses = {"COMPLETED"} /\ "PENDING" \notin Completed
      BY DEF Completed, OverallStatuses
<1> QED BY <1>1, ConsistentRowsCount
        DEF StatusTypeOK, RowsConsistent, Consistent, MetricsExact, GetMetrics

(***************************************************************************)
(* What /metrics shows is exact in every state (MetricsExact): all rows    *)
(* are counted, and the successes are those with only completed channels.  *)
(***************************************************************************)
THEOREM MetricsStayExact == StatusSpec => []MetricsExact
BY RowsStayConsistent, RowsAreCounted, PTL

-----------------------------------------------------------------------------
(***************************************************************************)
(* With one caller, the update in progress differs from the row in the     *)
(* table in one channel: nobody has changed the row since it was read.     *)
(***************************************************************************)
Fresh(p) ==
    call[p] # None =>
        /\ table[call[p].id] # None
        /\ \E c \in Channels, s \in WorkerStatuses \cup Receipts :
               call[p].row.channels = [table[call[p].id].channels EXCEPT ![c] = s]

OneCallerInv == StatusInv /\ \A p \in Procs : Fresh(p)

\* With one caller the row read is the row there when it is saved.
LEMMA OneCallerStep ==
    ASSUME \A p, q \in Procs : p = q, OneCallerInv, [StatusNext]_statusVars
    PROVE  OneCallerInv' /\ [Ledger!LedgerNext]_tableLedger
<1>1. CASE UNCHANGED statusVars
  <2>1. table' = table /\ call' = call
        BY <1>1 DEF statusVars
  <2>2. OneCallerInv'
        BY <1>1, <2>1, StutterKeepsStatusInv DEF OneCallerInv, Fresh
  <2> QED BY <2>1, <2>2 DEF tableLedger
<1>2. ASSUME NEW id \in Ids, NEW chans \in SUBSET Channels, CreateInitialStatus(id, chans)
      PROVE  OneCallerInv' /\ Ledger!LedgerNext
  <2>1. StatusInv'
        BY <1>2, CreateKeepsStatusInv DEF OneCallerInv
  <2>2. ASSUME NEW p \in Procs PROVE Fresh(p)'
    <3>1. CASE call[p] = None
          BY <1>2, <3>1 DEF CreateInitialStatus, Fresh
    <3>2. CASE call[p] # None
      <4>1. call[p].id \in Ids /\ table[call[p].id] # None
            BY <3>2 DEF OneCallerInv, Fresh, StatusInv, StatusTypeOK, Call
      <4>2. call' = call /\ table'[call[p].id] = table[call[p].id]
            BY <1>2, <4>1 DEF CreateInitialStatus, OneCallerInv, StatusInv, StatusTypeOK
      <4>3. PICK c \in Channels, s \in WorkerStatuses \cup Receipts :
                call[p].row.channels = [table[call[p].id].channels EXCEPT ![c] = s]
            BY <3>2 DEF OneCallerInv, Fresh
      <4> QED BY <4>1, <4>2, <4>3 DEF Fresh
    <3> QED BY <3>1, <3>2
  <2>3. Ledger!Open(id, chans)
    <3>1. tableLedger[id] = None
          BY <1>2 DEF CreateInitialStatus, tableLedger
    <3>2. tableLedger' = [tableLedger EXCEPT ![id] = InitialRow(chans).channels]
          BY <1>2, InitialRowIsConsistent, NoneAssumption
             DEF CreateInitialStatus, tableLedger, OneCallerInv, StatusInv, StatusTypeOK
    <3> QED BY <3>1, <3>2 DEF Ledger!Open, Ledger!InitialRow, InitialRow
  <2> QED BY <2>1, <2>2, <2>3 DEF OneCallerInv, Ledger!LedgerNext
<1>3. ASSUME NEW p \in Procs, NEW id \in Ids, NEW c \in Channels,
             NEW s \in WorkerStatuses \cup Receipts, UpdateRead(p, id, c, s)
      PROVE  OneCallerInv' /\ UNCHANGED tableLedger
  <2>1. StatusInv'
        BY <1>3, ReadKeepsStatusInv DEF OneCallerInv
  <2>2. /\ table' = table
        /\ call'[p].id = id
        /\ call'[p].row.channels = [table[id].channels EXCEPT ![c] = s]
        BY <1>3 DEF UpdateRead, WithChannel, OneCallerInv, StatusInv, StatusTypeOK
  <2>3. ASSUME NEW q \in Procs PROVE Fresh(q)'
    <3>1. q = p
          OBVIOUS
    <3> QED BY <1>3, <2>2, <3>1 DEF Fresh, UpdateRead
  <2> QED BY <2>1, <2>2, <2>3 DEF OneCallerInv, tableLedger
<1>4. ASSUME NEW p \in Procs, UpdateSave(p)
      PROVE  OneCallerInv' /\ Ledger!LedgerNext
  <2> DEFINE id == call[p].id
             row == call[p].row
  <2>1. StatusInv'
        BY <1>4, SaveKeepsStatusInv DEF OneCallerInv
  <2>2. ASSUME NEW q \in Procs PROVE Fresh(q)'
        BY <1>4 DEF UpdateSave, Fresh, OneCallerInv, StatusInv, StatusTypeOK
  <2>3. id \in Ids /\ row \in Row /\ row # None /\ table[id] # None
        BY <1>4, NoneAssumption
           DEF UpdateSave, OneCallerInv, Fresh, StatusInv, StatusTypeOK, Call
  <2>4. PICK c \in Channels, s \in WorkerStatuses \cup Receipts :
            row.channels = [table[id].channels EXCEPT ![c] = s]
        BY <1>4 DEF UpdateSave, OneCallerInv, Fresh
  <2>5. table' = [table EXCEPT ![id] = row]
        BY <1>4 DEF UpdateSave
  <2> HIDE DEF id, row
  <2>6. tableLedger[id] = table[id].channels /\ table[id].channels \in ChannelMaps
        BY <2>3 DEF tableLedger, OneCallerInv, StatusInv, StatusTypeOK, Row
  <2>7. tableLedger' = [tableLedger EXCEPT ![id] = row.channels]
        BY <2>3, <2>5 DEF tableLedger, OneCallerInv, StatusInv, StatusTypeOK
  <2>8. Ledger!Report(id, c, s)
        BY <2>3, <2>4, <2>6, <2>7, NoneAssumption DEF Ledger!Report
  <2> QED BY <2>1, <2>2, <2>3, <2>8
          DEF OneCallerInv, Ledger!LedgerNext, Ledger!WorkerStatuses, WorkerStatuses
<1>5. ASSUME NEW p \in Procs, UpdateAbandon(p)
      PROVE  OneCallerInv' /\ UNCHANGED tableLedger
  <2>1. StatusInv'
        BY <1>5, AbandonKeepsStatusInv DEF OneCallerInv
  <2>2. ASSUME NEW q \in Procs PROVE Fresh(q)'
        BY <1>5 DEF UpdateAbandon, Fresh, OneCallerInv, StatusInv, StatusTypeOK
  <2> QED BY <1>5, <2>1, <2>2 DEF OneCallerInv, UpdateAbandon, tableLedger
<1> QED BY <1>1, <1>2, <1>3, <1>4, <1>5 DEF StatusNext

(***************************************************************************)
(* Where there is one caller at a time, as with one worker and no          *)
(* callbacks, UpdateChannelStatus is an atomic report on one channel       *)
(* (ImplementsLedger), although it reads and writes the row in two         *)
(* statements, and the write may fail.                                     *)
(***************************************************************************)
THEOREM OneCallerImplementsLedger ==
    ASSUME \A p, q \in Procs : p = q
    PROVE  StatusSpec => ImplementsLedger
<1>1. StatusInit => OneCallerInv /\ Ledger!LedgerInit
  <2>1. StatusInit => OneCallerInv
        BY InitStatusInv DEF StatusInit, OneCallerInv, Fresh
  <2>2. StatusInit => Ledger!LedgerInit
        BY DEF StatusInit, Ledger!LedgerInit, tableLedger
  <2> QED BY <2>1, <2>2
<1>2. OneCallerInv /\ [StatusNext]_statusVars
          => OneCallerInv' /\ [Ledger!LedgerNext]_tableLedger
      BY OneCallerStep
<1> QED BY <1>1, <1>2, PTL DEF StatusSpec, ImplementsLedger, Ledger!LedgerSpec
===============================================================================
