------------------------ MODULE JpaStatusServiceProofs ------------------------
(***************************************************************************)
(* Theorems about JpaStatusService, for every set of notifications,        *)
(* channels, provider statuses and concurrent callers.                     *)
(***************************************************************************)
EXTENDS JpaStatusService, TLAPS

(***************************************************************************)
(* The row a new notification gets is well typed (CreateInitialStatus).    *)
(***************************************************************************)
LEMMA InitialRowType ==
    ASSUME NEW chans \in SUBSET Channels
    PROVE  InitialRow(chans) \in Row
BY DEF InitialRow, Row, ChannelMaps, ChannelStatuses, OverallStatuses

(***************************************************************************)
(* What updateChannelStatus makes of the entity it has read is well typed, *)
(* and differs from it in the map entry of one channel (WithChannel).      *)
(***************************************************************************)
LEMMA WithChannelType ==
    ASSUME NEW row \in Row, NEW c \in Channels, NEW s \in WorkerStatuses \cup Receipts
    PROVE  /\ WithChannel(row, c, s) \in Row
           /\ WithChannel(row, c, s).channels = [row.channels EXCEPT ![c] = s]
<1> DEFINE m == [row.channels EXCEPT ![c] = s]
<1>1. m \in ChannelMaps
      BY DEF Row, ChannelMaps, ChannelStatuses
<1>2. Overall(m) \in OverallStatuses
      BY DEF Overall, Aggregate, OverallStatuses
<1> QED BY <1>1, <1>2 DEF WithChannel, Row

(***************************************************************************)
(* The flush of an entity that differs from the one read in the entry of   *)
(* one channel leaves the map as it is now, or changes that entry and no   *)
(* other, whatever has been committed since the read (Flush).              *)
(***************************************************************************)
LEMMA FlushIsOneReport ==
    ASSUME NEW old \in Row, NEW new \in Row, NEW now \in Row,
           NEW c \in Channels, NEW s \in WorkerStatuses \cup Receipts,
           new.channels = [old.channels EXCEPT ![c] = s]
    PROVE  /\ Flush(old, new, now) \in Row
           /\ \/ Flush(old, new, now).channels = now.channels
              \/ Flush(old, new, now).channels = [now.channels EXCEPT ![c] = s]
<1> DEFINE row == Flush(old, new, now)
<1>1. /\ old.channels \in ChannelMaps /\ new.channels \in ChannelMaps
      /\ now.channels \in ChannelMaps
      /\ new.status \in OverallStatuses /\ now.status \in OverallStatuses
      BY DEF Row
<1>2. row \in Row
      BY <1>1 DEF Flush, Row, ChannelMaps
<1>3. \A d \in Channels \ {c} : new.channels[d] = old.channels[d]
      BY <1>1 DEF ChannelMaps
<1>4. new.channels[c] = s
      BY <1>1 DEF ChannelMaps
<1>5. row.channels = [d \in Channels |->
                         IF new.channels[d] # old.channels[d] THEN new.channels[d]
                         ELSE now.channels[d]]
      BY DEF Flush
<1>6. CASE s = old.channels[c]
  <2>1. row.channels = [d \in Channels |-> now.channels[d]]
        BY <1>3, <1>4, <1>5, <1>6
  <2> QED BY <1>1, <1>2, <2>1 DEF ChannelMaps
<1>7. CASE s # old.channels[c]
  <2>1. row.channels = [d \in Channels |-> IF d = c THEN s ELSE now.channels[d]]
        BY <1>3, <1>4, <1>5, <1>7
  <2>2. [now.channels EXCEPT ![c] = s] =
            [d \in Channels |-> IF d = c THEN s ELSE now.channels[d]]
        BY <1>1 DEF ChannelMaps
  <2> QED BY <1>2, <2>1, <2>2
<1> QED BY <1>6, <1>7

-----------------------------------------------------------------------------
(***************************************************************************)
(* The inductive invariant.  A transaction is on a row that exists, and    *)
(* has changed the map entry of one channel; nothing is said of how its    *)
(* entity relates to the row that is in the table now.                     *)
(***************************************************************************)
OneEntry(v) ==
    /\ table[v.id] # None
    /\ \E c \in Channels, s \in WorkerStatuses \cup Receipts :
           v.new.channels = [v.old.channels EXCEPT ![c] = s]

TransactionInv ==
    /\ StatusTypeOK
    /\ \A p \in Procs : call[p] # None => OneEntry(call[p])

\* At the start there are no rows and no transactions.
LEMMA InitTransactionInv == StatusInit => TransactionInv /\ Ledger!LedgerInit
BY DEF StatusInit, TransactionInv, StatusTypeOK, Ledger!LedgerInit, tableLedger

\* createInitialStatus opens the ledger's entry.
LEMMA CreateIsOpen ==
    ASSUME TransactionInv, NEW id \in Ids, NEW chans \in SUBSET Channels,
           CreateInitialStatus(id, chans)
    PROVE  TransactionInv' /\ Ledger!LedgerNext
<1>1. /\ table' = [table EXCEPT ![id] = InitialRow(chans)] /\ call' = call
      /\ table[id] = None
      BY DEF CreateInitialStatus
<1>2. InitialRow(chans) \in Row /\ InitialRow(chans) # None
      BY InitialRowType, NoneAssumption
<1>3. StatusTypeOK'
      BY <1>1, <1>2 DEF TransactionInv, StatusTypeOK
<1>4. ASSUME NEW p \in Procs, call'[p] # None
      PROVE  OneEntry(call[p])'
  <2>1. OneEntry(call[p]) /\ call[p].id \in Ids
        BY <1>1, <1>4 DEF TransactionInv, StatusTypeOK, Call
  <2> QED BY <1>1, <2>1 DEF OneEntry, TransactionInv, StatusTypeOK
<1>5. Ledger!Open(id, chans)
  <2>1. tableLedger[id] = None
        BY <1>1 DEF tableLedger
  <2>2. tableLedger' = [tableLedger EXCEPT ![id] = InitialRow(chans).channels]
        BY <1>1, <1>2 DEF tableLedger, TransactionInv, StatusTypeOK
  <2> QED BY <2>1, <2>2 DEF Ledger!Open, Ledger!InitialRow, InitialRow
<1> QED BY <1>3, <1>4, <1>5 DEF TransactionInv, Ledger!LedgerNext

\* Loading the row changes nothing outside the transaction.
LEMMA ReadIsInvisible ==
    ASSUME TransactionInv, NEW p \in Procs, NEW id \in Ids, NEW c \in Channels,
           NEW s \in WorkerStatuses \cup Receipts, UpdateRead(p, id, c, s)
    PROVE  TransactionInv' /\ UNCHANGED tableLedger
<1> DEFINE v == [id |-> id, old |-> table[id], new |-> WithChannel(table[id], c, s)]
<1>1. /\ table' = table /\ table[id] # None /\ table[id] \in Row
      /\ call' = [call EXCEPT ![p] = v]
      BY DEF UpdateRead, TransactionInv, StatusTypeOK
<1>2. /\ WithChannel(table[id], c, s) \in Row
      /\ WithChannel(table[id], c, s).channels = [table[id].channels EXCEPT ![c] = s]
      BY <1>1, WithChannelType
<1>3. v \in Call /\ v.id = id
      /\ v.new.channels = [v.old.channels EXCEPT ![c] = s]
      BY <1>1, <1>2 DEF Call
<1> HIDE DEF v
<1>4. StatusTypeOK'
      BY <1>1, <1>3 DEF TransactionInv, StatusTypeOK
<1>5. ASSUME NEW q \in Procs, call'[q] # None
      PROVE  OneEntry(call[q])'
  <2>1. CASE q = p
        BY <1>1, <1>3, <2>1 DEF OneEntry, TransactionInv, StatusTypeOK
  <2>2. CASE q # p
        BY <1>1, <1>5, <2>2 DEF OneEntry, TransactionInv, StatusTypeOK
  <2> QED BY <2>1, <2>2
<1> QED BY <1>1, <1>4, <1>5 DEF TransactionInv, tableLedger

\* The commit is one report, or a stutter when its check of the version fails.
LEMMA CommitIsReport ==
    ASSUME TransactionInv, NEW p \in Procs, UpdateCommit(p)
    PROVE  TransactionInv' /\ [Ledger!LedgerNext]_tableLedger
<1>0. PICK v : v = call[p]
      OBVIOUS
<1>1. /\ v \in Call /\ v.id \in Ids /\ v.old \in Row /\ v.new \in Row
      /\ OneEntry(v)
      BY <1>0 DEF UpdateCommit, TransactionInv, StatusTypeOK, Call
<1>2. PICK id \in Ids, now \in Row : id = v.id /\ now = table[id]
      BY <1>1 DEF OneEntry, TransactionInv, StatusTypeOK
<1>3. PICK c \in Channels, s \in WorkerStatuses \cup Receipts :
          v.new.channels = [v.old.channels EXCEPT ![c] = s]
      BY <1>1 DEF OneEntry
<1>4. PICK row \in Row :
          /\ row = Flush(v.old, v.new, now)
          /\ row.channels = now.channels \/ row.channels = [now.channels EXCEPT ![c] = s]
  <2>1. PICK old \in Row, new \in Row : old = v.old /\ new = v.new
        BY <1>1
  <2>2. new.channels = [old.channels EXCEPT ![c] = s]
        BY <1>3, <2>1
  <2>3. /\ Flush(old, new, now) \in Row
        /\ \/ Flush(old, new, now).channels = now.channels
           \/ Flush(old, new, now).channels = [now.channels EXCEPT ![c] = s]
        BY <2>2, FlushIsOneReport
  <2> QED BY <2>1, <2>3
<1>5. table' = [table EXCEPT ![id] = row] /\ call' = [call EXCEPT ![p] = None]
      BY <1>0, <1>2, <1>4 DEF UpdateCommit
<1>6. row # None /\ now # None
      BY NoneAssumption
<1>7. StatusTypeOK'
      BY <1>5 DEF TransactionInv, StatusTypeOK
<1>8. ASSUME NEW q \in Procs, call'[q] # None
      PROVE  OneEntry(call[q])'
  <2>1. call'[q] = call[q] /\ OneEntry(call[q]) /\ call[q].id \in Ids
        BY <1>5, <1>8 DEF TransactionInv, StatusTypeOK, Call
  <2> QED BY <1>5, <1>6, <2>1 DEF OneEntry, TransactionInv, StatusTypeOK
<1>9. [Ledger!LedgerNext]_tableLedger
  <2>1. tableLedger[id] = now.channels /\ tableLedger[id] # None
        BY <1>2, <1>6, NoneAssumption DEF tableLedger, Row
  <2>2. tableLedger' = [tableLedger EXCEPT ![id] = row.channels]
        BY <1>5, <1>6 DEF tableLedger, TransactionInv, StatusTypeOK
  <2>3. CASE row.channels = now.channels
        BY <2>1, <2>2, <2>3 DEF tableLedger
  <2>4. CASE row.channels = [now.channels EXCEPT ![c] = s]
    <3>1. Ledger!Report(id, c, s)
          BY <2>1, <2>2, <2>4 DEF Ledger!Report
    <3> QED BY <3>1 DEF Ledger!LedgerNext, Ledger!WorkerStatuses, WorkerStatuses
  <2> QED BY <1>4, <2>3, <2>4
<1> QED BY <1>7, <1>8, <1>9 DEF TransactionInv

\* A transaction given up leaves no trace.
LEMMA RollbackIsInvisible ==
    ASSUME TransactionInv, NEW p \in Procs, UpdateRollback(p)
    PROVE  TransactionInv' /\ UNCHANGED tableLedger
<1>1. call' = [call EXCEPT ![p] = None] /\ table' = table
      BY DEF UpdateRollback
<1>2. ASSUME NEW q \in Procs, call'[q] # None
      PROVE  OneEntry(call[q])'
      BY <1>1, <1>2 DEF OneEntry, TransactionInv, StatusTypeOK
<1> QED BY <1>1, <1>2 DEF TransactionInv, StatusTypeOK, tableLedger

(***************************************************************************)
(* However many callers there are and however their transactions           *)
(* interleave, each commit is an atomic report on one channel or no change *)
(* of the channel map at all: no update undoes what another has reported   *)
(* on another channel (ImplementsLedger).                                  *)
(***************************************************************************)
THEOREM TransactionsImplementLedger == StatusSpec => ImplementsLedger
<1>1. StatusInit => TransactionInv /\ Ledger!LedgerInit
      BY InitTransactionInv
<1>2. TransactionInv /\ [StatusNext]_statusVars
          => TransactionInv' /\ [Ledger!LedgerNext]_tableLedger
  <2> SUFFICES ASSUME TransactionInv, [StatusNext]_statusVars
               PROVE  TransactionInv' /\ [Ledger!LedgerNext]_tableLedger
      OBVIOUS
  <2>1. ASSUME NEW id \in Ids, NEW chans \in SUBSET Channels, CreateInitialStatus(id, chans)
        PROVE  TransactionInv' /\ [Ledger!LedgerNext]_tableLedger
        BY <2>1, CreateIsOpen
  <2>2. ASSUME NEW p \in Procs, NEW id \in Ids, NEW c \in Channels,
               NEW s \in WorkerStatuses \cup Receipts, UpdateRead(p, id, c, s)
        PROVE  TransactionInv' /\ [Ledger!LedgerNext]_tableLedger
        BY <2>2, ReadIsInvisible
  <2>3. ASSUME NEW p \in Procs, UpdateCommit(p)
        PROVE  TransactionInv' /\ [Ledger!LedgerNext]_tableLedger
        BY <2>3, CommitIsReport
  <2>4. ASSUME NEW p \in Procs, UpdateRollback(p)
        PROVE  TransactionInv' /\ [Ledger!LedgerNext]_tableLedger
        BY <2>4, RollbackIsInvisible
  <2>5. CASE UNCHANGED statusVars
    <3>1. table' = table /\ call' = call
          BY <2>5 DEF statusVars
    <3>2. ASSUME NEW q \in Procs, call'[q] # None
          PROVE  OneEntry(call[q])'
          BY <3>1, <3>2 DEF OneEntry, TransactionInv
    <3> QED BY <3>1, <3>2 DEF TransactionInv, StatusTypeOK, tableLedger
  <2> QED BY <2>1, <2>2, <2>3, <2>4, <2>5 DEF StatusNext
<1> QED BY <1>1, <1>2, PTL DEF StatusSpec, ImplementsLedger, Ledger!LedgerSpec
===============================================================================
