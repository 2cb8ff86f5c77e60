---------------------------- MODULE JvmServiceProofs ----------------------------
(***************************************************************************)
(* Theorems about JvmService, for every set of notifications, requests,    *)
(* processes, callbacks and throwing channels, every number of attempts,   *)
(* and every bound on the faults.                                          *)
(*                                                                         *)
(* There are five invariants, each proved from those before it: Core       *)
(* (types, rows, where each listener is in its record) and AccountInv of   *)
(* NotificationFlowProofs (which turn of which loop made a delivery),      *)
(* which hold whatever happens; OrderlyInv, about who writes while nobody  *)
(* disturbs the owner of the partition; ShownInv, about what its rows show *)
(* then; and CalmInv, about what they show while nothing has failed.       *)
(***************************************************************************)
EXTENDS JvmService, JpaStatusServiceProofs, NotificationStatusProofs, NotificationFlowProofs

(***************************************************************************)
(* The rows.  An entity of id, stored or about to be, tells the truth      *)
(* about completed channels; and nobody touches the row of a notification  *)
(* but a listener that has got its record, or a callback for it.           *)
(***************************************************************************)
RowIsTrue(id, row) ==
    \A t \in Requested[id] :
        row.channels[t[2]] \in Completed => t \in Sent \/ Reported(id, t[2])

Touched(id) == Logged(id) \/ \E r \in receipts : r[1] = id

RowsInv ==
    /\ TransactionInv
    /\ \A id \in Ids : table[id] # None =>
           /\ RowIsTrue(id, table[id])
           /\ Touched(id) \/ table[id] = InitialRow(ToSet(Request[id].channels))
    /\ \A p \in Procs : call[p] # None =>
           RowIsTrue(call[p].id, call[p].new) /\ Touched(call[p].id)

(***************************************************************************)
(* The handlers of POST /notify: the row is committed before the record    *)
(* is handed to the producer, which has the broker append it once.         *)
(***************************************************************************)
ApiInv ==
    /\ \A id \in Ids :
           /\ api[id] \in {"produce", "accepted"} \/ id \in outbox \/ Logged(id) => table[id] # None
           /\ api[id] \in {"idle", "create", "produce"} => id \notin outbox /\ ~Logged(id)
           /\ id \in outbox => ~Logged(id)
    /\ \A j, k \in 1 .. Len(log) : log[j] = log[k] /\ log[k] # Junk => j = k

(***************************************************************************)
(* Where a listener is in its record says whom it has sent to over the     *)
(* channel it works on.                                                    *)
(***************************************************************************)
InRecord(w) ==
    LET id  == Current(w)
        chs == Request[id].channels
        v   == worker[w]
        c   == chs[v.ch]
    IN  /\ session[w] /\ position[w] > 0 /\ id \in Ids
        /\ v.pc # "mark" => v.ch <= Len(chs)
        /\ v.pc = "send" => v.rcp <= Len(Request[id].recipients) /\ SentTo(id, c, v.rcp - 1)
        /\ v.pc = "final" => SentTo(id, c, Len(Request[id].recipients))

ListenerInv(w) ==
    /\ worker[w].pc # "wait" => InRecord(w)
    /\ call[w] # None => AtUpdate(w)
    /\ failure[w].attempts <= faults

Core ==
    /\ TypeOK
    /\ RowsInv
    /\ ApiInv
    /\ \A w \in Workers : ListenerInv(w)
    /\ receipts = {} => \A h \in Hooks : call[h] = None

-----------------------------------------------------------------------------
(***************************************************************************)
(* A row that was true stays true, and one that was touched stays so, as   *)
(* nothing is taken back of what was logged, sent and reported.            *)
(***************************************************************************)
LEMMA TruthKept ==
    ASSUME Grows, TopicTypeOK
    PROVE  /\ \A id, row : RowIsTrue(id, row) => RowIsTrue(id, row)'
           /\ \A id : Touched(id) => Touched(id)'
<1>1. \A id, row : RowIsTrue(id, row) => RowIsTrue(id, row)'
      BY DEF Grows, RowIsTrue, Reported
<1>2. \A id : Touched(id) => Touched(id)'
      BY FlowGrowthKeeps DEF Grows, Touched
<1> QED BY <1>1, <1>2

(***************************************************************************)
(* The flush writes truths on top of truths (Flush): each entry of the     *)
(* result is one of the entity in memory or one of the row as it is now.   *)
(***************************************************************************)
LEMMA FlushIsTrue ==
    ASSUME NEW id \in Ids, NEW old \in Row, NEW new \in Row, NEW now \in Row,
           RowIsTrue(id, new), RowIsTrue(id, now)
    PROVE  RowIsTrue(id, Flush(old, new, now))
<1>1. \A t \in Requested[id] : t[2] \in Channels
      BY RequestFacts DEF Requested
<1>2. \A c \in Channels : Flush(old, new, now).channels[c] \in {new.channels[c], now.channels[c]}
      BY DEF Flush
<1> QED BY <1>1, <1>2 DEF RowIsTrue

(***************************************************************************)
(* A step that writes no row but may end transactions without a commit.    *)
(***************************************************************************)
LEMMA RowsAfterDrop ==
    ASSUME RowsInv, TopicTypeOK, Grows, table' = table, call' \in [Procs -> Call \cup {None}],
           \A p \in Procs : call'[p] = call[p] \/ call'[p] = None
    PROVE  RowsInv'
<1>1. TransactionInv'
  <2>1. \A p \in Procs : call'[p] # None => OneEntry(call[p])'
        BY DEF RowsInv, TransactionInv, OneEntry
  <2> QED BY <2>1 DEF RowsInv, TransactionInv, StatusTypeOK
<1>2. \A id \in Ids : table'[id] # None =>
          /\ RowIsTrue(id, table[id])'
          /\ Touched(id)' \/ table'[id] = InitialRow(ToSet(Request[id].channels))
      BY TruthKept DEF RowsInv
<1>3. \A p \in Procs : call'[p] # None =>
          RowIsTrue(call[p].id, call[p].new)' /\ Touched(call[p].id)'
      BY TruthKept DEF RowsInv
<1> QED BY <1>1, <1>2, <1>3 DEF RowsInv

\* Rows stay true in a step that touches no row and no transaction.
LEMMA RowsKept ==
    ASSUME RowsInv, TopicTypeOK, Grows, UNCHANGED statusVars
    PROVE  RowsInv'
BY RowsAfterDrop DEF RowsInv, TransactionInv, StatusTypeOK, statusVars

LEMMA RowsAfterRollback ==
    ASSUME RowsInv, TopicTypeOK, Grows, NEW p \in Procs, UpdateRollback(p)
    PROVE  RowsInv'
BY RowsAfterDrop DEF RowsInv, TransactionInv, StatusTypeOK, UpdateRollback

(***************************************************************************)
(* createInitialStatus, and the read and the commit of updateChannelStatus.*)
(***************************************************************************)
LEMMA RowsAfterCreate ==
    ASSUME RowsInv, TopicTypeOK, Grows, NEW id \in Ids,
           CreateInitialStatus(id, ToSet(Request[id].channels))
    PROVE  RowsInv' /\ table'[id] # None
<1> DEFINE row == InitialRow(ToSet(Request[id].channels))
<1>1. TransactionInv'
      BY RequestFacts, CreateIsOpen DEF RowsInv
<1>2. row \in Row /\ row # None
      BY RequestFacts, InitialRowType, NoneAssumption
<1>3. RowIsTrue(id, row)
  <2>1. \A c \in Channels : row.channels[c] \notin Completed
        BY DEF InitialRow, Completed
  <2>2. \A t \in Requested[id] : t[2] \in Channels
        BY RequestFacts DEF Requested
  <2> QED BY <2>1, <2>2 DEF RowIsTrue
<1> HIDE DEF row
<1>4. /\ table'[id] = row /\ call' = call
      /\ \A i \in Ids \ {id} : table'[i] = table[i]
      BY DEF CreateInitialStatus, row, RowsInv, TransactionInv, StatusTypeOK
<1>5. ASSUME NEW i \in Ids, table'[i] # None
      PROVE  /\ RowIsTrue(i, table[i])'
             /\ Touched(i)' \/ table'[i] = InitialRow(ToSet(Request[i].channels))
  <2>1. CASE i = id
        BY <1>3, <1>4, <2>1, TruthKept DEF row
  <2>2. CASE i # id
        BY <1>4, <1>5, <2>2, TruthKept DEF RowsInv
  <2> QED BY <2>1, <2>2
<1>6. \A p \in Procs : call'[p] # None =>
          RowIsTrue(call[p].id, call[p].new)' /\ Touched(call[p].id)'
      BY <1>4, TruthKept DEF RowsInv
<1> QED BY <1>1, <1>2, <1>4, <1>5, <1>6 DEF RowsInv

LEMMA RowsAfterRead ==
    ASSUME RowsInv, TopicTypeOK, Grows, NEW p \in Procs, NEW id \in Ids, NEW c \in Channels,
           NEW s \in WorkerStatuses \cup Receipts, UpdateRead(p, id, c, s), Touched(id)',
           s \in Completed => \/ \A t \in Requested[id] : t[2] = c => t \in Sent
                              \/ Reported(id, c)'
    PROVE  RowsInv'
<1>1. TransactionInv'
      BY ReadIsInvisible DEF RowsInv
<1>2. table[id] \in Row /\ RowIsTrue(id, table[id])
      BY DEF UpdateRead, RowsInv, TransactionInv, StatusTypeOK
<1>3. PICK row \in Row : /\ row = WithChannel(table[id], c, s)
                         /\ row.channels = [table[id].channels EXCEPT ![c] = s]
      BY <1>2, WithChannelType
<1>4. table' = table /\ call' = [call EXCEPT ![p] = [id |-> id, old |-> table[id], new |-> row]]
      BY <1>3 DEF UpdateRead
<1>5. RowIsTrue(id, row)'
  <2> SUFFICES ASSUME NEW t \in Requested[id], row.channels[t[2]] \in Completed
               PROVE  t \in Sent' \/ Reported(id, t[2])'
      BY DEF RowIsTrue
  <2>1. t[2] \in Channels /\ table[id].channels \in [Channels -> ChannelStatuses]
        BY <1>2, RequestFacts DEF Requested, Row, ChannelMaps
  <2>2. CASE t[2] = c
        BY <1>3, <2>1, <2>2 DEF Grows
  <2>3. CASE t[2] # c
    <3>1. table[id].channels[t[2]] \in Completed
          BY <1>3, <2>1, <2>3
    <3> QED BY <1>2, <3>1 DEF RowIsTrue, Grows, Reported
  <2> QED BY <2>2, <2>3
<1>6. \A i \in Ids : table'[i] # None =>
          /\ RowIsTrue(i, table[i])'
          /\ Touched(i)' \/ table'[i] = InitialRow(ToSet(Request[i].channels))
      BY <1>4, TruthKept DEF RowsInv
<1>7. ASSUME NEW q \in Procs, call'[q] # None
      PROVE  RowIsTrue(call[q].id, call[q].new)' /\ Touched(call[q].id)'
  <2>1. CASE q = p
        BY <1>4, <1>5, <2>1 DEF RowsInv, TransactionInv, StatusTypeOK
  <2>2. CASE q # p
        BY <1>4, <1>7, <2>2, TruthKept DEF RowsInv, TransactionInv, StatusTypeOK
  <2> QED BY <2>1, <2>2
<1> QED BY <1>1, <1>6, <1>7 DEF RowsInv

LEMMA RowsAfterCommit ==
    ASSUME RowsInv, TopicTypeOK, Grows, NEW p \in Procs, UpdateCommit(p)
    PROVE  /\ RowsInv'
           /\ \A id \in Ids : table[id] # None => table'[id] # None
<1>1. TransactionInv'
      BY CommitIsReport DEF RowsInv
<1>2. PICK v : v = call[p]
      OBVIOUS
<1>3. /\ v \in Call /\ OneEntry(v)
      /\ RowIsTrue(v.id, v.new) /\ Touched(v.id)
      BY <1>2 DEF UpdateCommit, RowsInv, TransactionInv, StatusTypeOK
<1>4. PICK id \in Ids, old \in Row, new \in Row, now \in Row :
          id = v.id /\ old = v.old /\ new = v.new /\ now = table[id]
      BY <1>3 DEF Call, OneEntry, RowsInv, TransactionInv, StatusTypeOK
<1>5. PICK row \in Row : row = Flush(old, new, now)
  <2>1. PICK c \in Channels, s \in WorkerStatuses \cup Receipts :
            new.channels = [old.channels EXCEPT ![c] = s]
        BY <1>3, <1>4 DEF OneEntry
  <2> QED BY <2>1, FlushIsOneReport
<1>6. RowIsTrue(id, row)
  <2>1. now # None
        BY NoneAssumption
  <2>2. RowIsTrue(id, new) /\ RowIsTrue(id, now)
        BY <1>3, <1>4, <2>1 DEF RowsInv
  <2> QED BY <1>5, <2>2, FlushIsTrue
<1>7. table' = [table EXCEPT ![id] = row] /\ call' = [call EXCEPT ![p] = None]
      BY <1>2, <1>4, <1>5 DEF UpdateCommit
<1>8. row # None
      BY NoneAssumption
<1>9. ASSUME NEW i \in Ids, table'[i] # None
      PROVE  /\ RowIsTrue(i, table[i])'
             /\ Touched(i)' \/ table'[i] = InitialRow(ToSet(Request[i].channels))
  <2>1. CASE i = id
        BY <1>3, <1>4, <1>6, <1>7, <2>1, TruthKept DEF RowsInv, TransactionInv, StatusTypeOK
  <2>2. CASE i # id
        BY <1>7, <1>9, <2>2, TruthKept DEF RowsInv, TransactionInv, StatusTypeOK
  <2> QED BY <2>1, <2>2
<1>10. \A q \in Procs : call'[q] # None =>
           RowIsTrue(call[q].id, call[q].new)' /\ Touched(call[q].id)'
       BY <1>7, TruthKept DEF RowsInv, TransactionInv, StatusTypeOK
<1>11. \A i \in Ids : table[i] # None => table'[i] # None
       BY <1>7, <1>8 DEF RowsInv, TransactionInv, StatusTypeOK
<1> QED BY <1>1, <1>9, <1>10, <1>11 DEF RowsInv

-----------------------------------------------------------------------------
(***************************************************************************)
(* What Core says of a listener that has a record in its hands.            *)
(***************************************************************************)
LEMMA InRecordFacts ==
    ASSUME Core, NEW w \in Workers, worker[w].pc # "wait"
    PROVE  /\ InRecord(w)
           /\ Current(w) \in Ids
           /\ worker[w] \in WorkerState
           /\ position[w] \in 1 .. Len(log) /\ log[position[w]] = Current(w)
           /\ Logged(Current(w))
           /\ worker[w].pc # "mark" => /\ worker[w].ch \in 1 .. Len(WorkerChannels(w))
                                       /\ WorkerChannel(w) \in Channels
<1>1. InRecord(w) /\ worker[w] \in WorkerState
      BY DEF Core, ListenerInv, TypeOK
<1>2. Current(w) \in Ids
      BY <1>1 DEF InRecord
<1>3. position[w] \in 1 .. Len(log)
      BY <1>1 DEF InRecord, Core, TypeOK, TopicTypeOK
<1>4. Logged(Current(w))
      BY <1>3 DEF Logged, Current
<1>5. ASSUME worker[w].pc # "mark"
      PROVE  worker[w].ch \in 1 .. Len(WorkerChannels(w)) /\ WorkerChannel(w) \in Channels
  <2>1. worker[w].ch \in 1 .. Len(WorkerChannels(w))
        BY <1>1, <1>2, <1>5, RequestFacts DEF InRecord, WorkerState, WorkerChannels
  <2> QED BY <1>2, <2>1, RequestFacts DEF WorkerChannel, WorkerChannels
<1> QED BY <1>1, <1>2, <1>3, <1>4, <1>5 DEF Current

(***************************************************************************)
(* A listener that does not move is where it was, whatever others do.      *)
(***************************************************************************)
StillListener(w) ==
    /\ SameSession(w) /\ worker'[w] = worker[w]
    /\ failure'[w] = failure[w] \/ failure'[w] = NoFailure
    /\ call'[w] = call[w] \/ call'[w] = None

\* A listener that the step leaves alone stays where it is in its record.
LEMMA StillKeeps ==
    ASSUME Core, Grows, faults' \in Nat, faults <= faults', NEW w \in Workers, StillListener(w)
    PROVE  ListenerInv(w)'
<1>1. failure'[w].attempts <= faults'
  <2>1. failure[w].attempts <= faults /\ failure[w].attempts \in Nat /\ faults \in Nat
        BY FaultsAssumption, AttemptsAssumption DEF Core, ListenerInv, TypeOK
  <2> QED BY <2>1 DEF StillListener, NoFailure
<1>2. call'[w] # None => AtUpdate(w)'
      BY DEF Core, ListenerInv, StillListener, AtUpdate
<1>3. worker'[w].pc # "wait" => InRecord(w)'
  <2> SUFFICES ASSUME worker[w].pc # "wait"
               PROVE  InRecord(w)'
      BY DEF StillListener
  <2>1. InRecord(w) /\ position[w] \in 1 .. Len(log)
        BY InRecordFacts
  <2>2. Current(w)' = Current(w)
        BY <2>1 DEF Current, Grows, StillListener, SameSession
  <2>3. \A id, c, n : SentTo(id, c, n) => SentTo(id, c, n)'
        BY FlowGrowthKeeps DEF Core, TypeOK
  <2> QED BY <2>1, <2>2, <2>3 DEF InRecord, StillListener, SameSession
<1> QED BY <1>1, <1>2, <1>3 DEF ListenerInv

(***************************************************************************)
(* Core after a step of one listener, and after a step of none.            *)
(***************************************************************************)
HooksQuiet == receipts = {} => \A h \in Hooks : call[h] = None

\* A step of one listener: the others keep what Core says of them.
LEMMA OnOneListener ==
    ASSUME Core, Grows, faults <= faults', NEW w \in Workers,
           \A v \in Workers \ {w} : StillListener(v),
           TypeOK', RowsInv', ApiInv', ListenerInv(w)', HooksQuiet'
    PROVE  Core'
<1>1. faults' \in Nat
      BY FaultsAssumption DEF TypeOK
<1> QED BY <1>1, StillKeeps DEF Core, HooksQuiet

\* A step of no listener.
LEMMA OffTheListeners ==
    ASSUME Core, Grows, faults <= faults', \A w \in Workers : StillListener(w),
           TypeOK', RowsInv', ApiInv', HooksQuiet'
    PROVE  Core'
<1>1. faults' \in Nat
      BY FaultsAssumption DEF TypeOK
<1> QED BY <1>1, StillKeeps DEF Core, HooksQuiet

\* A hook is no worker, and its transaction no listener's.
LEMMA HooksAreQuiet ==
    ASSUME Core, receipts' = receipts, NEW w \in Workers, \A p \in Procs \ {w} : call'[p] = call[p]
    PROVE  HooksQuiet'
BY ProcsAssumption DEF HooksQuiet, Core

(***************************************************************************)
(* What the handlers of POST /notify rely on is left alone by a step that  *)
(* takes no row away and does nothing to request, producer and log.        *)
(***************************************************************************)
LEMMA ApiKept ==
    ASSUME ApiInv, UNCHANGED <<api, outbox, log>>,
           \A id \in Ids : table[id] # None => table'[id] # None
    PROVE  ApiInv'
BY DEF ApiInv, Logged

\* The types of what the log's length bounds.
LEMMA FailureTypeKept ==
    ASSUME TypeOK, Grows, failure' = failure
    PROVE  failure' \in [Workers -> [at : 0 .. Len(log'), attempts : 0 .. MaxAttempts - 1]]
<1>1. 0 .. Len(log) \subseteq 0 .. Len(log')
      BY DEF TypeOK, TopicTypeOK, Grows
<1> QED BY <1>1 DEF TypeOK

-----------------------------------------------------------------------------
(***************************************************************************)
(* The steps of POST /notify, of the producer, and a record of somebody    *)
(* else.                                                                   *)
(***************************************************************************)
LEMMA PostKeepsCore ==
    ASSUME Core, NEW id \in Ids, Post(id)
    PROVE  Core'
<1>1. Grows
      BY GrowsInPlace DEF Post, Core, TypeOK, topicVars
<1>2. RowsInv'
      BY <1>1, RowsKept DEF Post, Core, TypeOK
<1>3. ApiInv'
      BY DEF Post, SetApi, Core, ApiInv, TypeOK, Logged, topicVars, statusVars
<1>4. TypeOK'
      BY <1>2, TopicTypeKept
         DEF Post, Core, RowsInv, TransactionInv, TypeOK, SetApi, ApiStates, NoFault, topicVars
<1>5. \A w \in Workers : StillListener(w)
      BY DEF Post, StillListener, SameSession, topicVars, statusVars
<1>6. faults <= faults' /\ HooksQuiet'
      BY FaultsAssumption DEF Post, NoFault, Core, TypeOK, HooksQuiet, statusVars
<1> QED BY <1>1, <1>2, <1>3, <1>4, <1>5, <1>6, OffTheListeners

LEMMA WriteInitialRowKeepsCore ==
    ASSUME Core, NEW id \in Ids, WriteInitialRow(id)
    PROVE  Core'
<1>1. Grows
      BY GrowsInPlace DEF WriteInitialRow, Core, TypeOK, topicVars
<1>2. /\ call' = call /\ RowsInv'
      /\ \A i \in Ids : table[i] # None => table'[i] # None
      /\ api'[id] = "produce" => table'[id] # None
  <2>1. CASE CreateInitialStatus(id, ToSet(Request[id].channels))
    <3>1. RowsInv' /\ table'[id] # None
          BY <1>1, <2>1, RowsAfterCreate DEF Core, TypeOK
    <3> QED BY <2>1, <3>1
            DEF CreateInitialStatus, Core, RowsInv, TransactionInv, StatusTypeOK
  <2>2. CASE UNCHANGED statusVars /\ SetApi(id, "rejected")
        BY <1>1, <2>2, RowsKept DEF Core, TypeOK, SetApi, statusVars
  <2> QED BY <2>1, <2>2 DEF WriteInitialRow
<1>3. /\ api' \in [Ids -> ApiStates] /\ api[id] = "create"
      /\ api'[id] \in {"produce", "rejected"} /\ \A i \in Ids \ {id} : api'[i] = api[i]
      BY DEF WriteInitialRow, SetApi, Core, TypeOK, ApiStates
<1>4. ApiInv'
      BY <1>2, <1>3 DEF WriteInitialRow, Core, ApiInv, Logged, topicVars
<1>5. faults' \in 0 .. MaxFaults /\ faults <= faults'
      BY FaultsAssumption DEF WriteInitialRow, NoFault, Fault, Core, TypeOK
<1>6. TypeOK'
      BY <1>2, <1>3, <1>5, TopicTypeKept
         DEF WriteInitialRow, Core, RowsInv, TransactionInv, TypeOK, topicVars
<1>7. (\A w \in Workers : StillListener(w)) /\ HooksQuiet'
      BY <1>2 DEF WriteInitialRow, StillListener, SameSession, topicVars, Core, HooksQuiet
<1> QED BY <1>1, <1>2, <1>4, <1>5, <1>6, <1>7, OffTheListeners

LEMMA ProduceKeepsCore ==
    ASSUME Core, NEW id \in Ids, Produce(id)
    PROVE  Core'
<1>1. Grows
      BY GrowsInPlace DEF Produce, Core, TypeOK, topicVars
<1>2. RowsInv'
      BY <1>1, RowsKept DEF Produce, Core, TypeOK
<1>3. /\ api' \in [Ids -> ApiStates] /\ api[id] = "produce"
      /\ api'[id] \in {"accepted", "rejected"} /\ \A i \in Ids \ {id} : api'[i] = api[i]
      /\ outbox' \subseteq outbox \cup {id}
      BY DEF Produce, SetApi, Core, TypeOK, ApiStates
<1>4. ApiInv'
      BY <1>3 DEF Produce, Core, ApiInv, Logged, topicVars, statusVars
<1>5. faults' \in 0 .. MaxFaults /\ faults <= faults'
      BY FaultsAssumption DEF Produce, NoFault, Fault, Core, TypeOK
<1>6. TypeOK'
      BY <1>2, <1>3, <1>5, TopicTypeKept
         DEF Produce, Core, RowsInv, TransactionInv, TypeOK, topicVars
<1>7. (\A w \in Workers : StillListener(w)) /\ HooksQuiet'
      BY DEF Produce, StillListener, SameSession, topicVars, statusVars, Core, HooksQuiet
<1> QED BY <1>1, <1>2, <1>4, <1>5, <1>6, <1>7, OffTheListeners

\* What an append adds to the log is one record.
LEMMA AppendOne ==
    ASSUME TopicTypeOK, NEW m \in Ids \cup {Junk}, Append1(m)
    PROVE  Len(log') = Len(log) + 1 /\ log'[Len(log')] = m
<1>1. log \in Seq(Ids \cup {Junk})
      BY KeysAssumption DEF TopicTypeOK
<1> QED BY <1>1 DEF Append1

LEMMA SendRecordKeepsCore ==
    ASSUME Core, NEW id \in Ids, SendRecord(id)
    PROVE  Core'
<1>1. /\ TopicTypeOK /\ UNCHANGED groupVars
      /\ Append1(id) \/ UNCHANGED topicVars
      BY DEF SendRecord, Core, TypeOK, Append1, groupVars, topicVars
<1>2. Grows /\ TopicTypeOK'
      BY <1>1, GrowsByAppend, GrowsInPlace, TopicTypeKept DEF SendRecord, topicVars
<1>3. RowsInv'
      BY <1>1, <1>2, RowsKept DEF SendRecord, Core
<1>4. ApiInv'
  <2>1. CASE UNCHANGED topicVars
        BY <2>1 DEF SendRecord, Core, ApiInv, Logged, topicVars, statusVars
  <2>2. CASE Append1(id)
    <3>1. /\ Len(log) \in Nat /\ Len(log') = Len(log) + 1 /\ log'[Len(log')] = id
          /\ \A k \in 1 .. Len(log) : log'[k] = log[k]
          /\ \A i \in Ids : Logged(i)' <=> Logged(i) \/ i = id
          BY <1>1, <2>2, AppendFacts, AppendOne
    <3>2. ~Logged(id) /\ table[id] # None /\ api[id] \notin {"idle", "create", "produce"}
          BY DEF SendRecord, Core, ApiInv
    <3>3. \A k \in 1 .. Len(log') : k = Len(log') \/ k \in 1 .. Len(log)
          BY <3>1
    <3>4. \A k \in 1 .. Len(log) : log[k] # id
          BY <3>2 DEF Logged
    <3>5. \A j, k \in 1 .. Len(log') : log'[j] = log'[k] /\ log'[k] # Junk => j = k
          BY <3>1, <3>3, <3>4 DEF Core, ApiInv
    <3> QED BY <3>1, <3>2, <3>5 DEF SendRecord, Core, ApiInv, statusVars
  <2> QED BY <1>1, <2>1, <2>2
<1>5. faults' \in 0 .. MaxFaults /\ faults <= faults'
      BY FaultsAssumption DEF SendRecord, NoFault, Fault, Core, TypeOK
<1>6. failure' \in [Workers -> [at : 0 .. Len(log'), attempts : 0 .. MaxAttempts - 1]]
      BY <1>2, FailureTypeKept DEF SendRecord, Core
<1>7. TypeOK'
      BY <1>2, <1>3, <1>5, <1>6 DEF SendRecord, Core, RowsInv, TransactionInv, TypeOK
<1>8. (\A w \in Workers : StillListener(w)) /\ HooksQuiet'
      BY <1>1 DEF SendRecord, StillListener, SameSession, groupVars, statusVars, Core, HooksQuiet
<1> QED BY <1>2, <1>3, <1>4, <1>5, <1>7, <1>8, OffTheListeners

LEMMA ForeignMessageKeepsCore ==
    ASSUME Core, ForeignMessage
    PROVE  Core'
<1>1. TopicTypeOK /\ UNCHANGED groupVars /\ Append1(Junk) /\ Junk \notin Ids
      BY KeysAssumption, JunkAssumption DEF ForeignMessage, Core, TypeOK, Append1
<1>2. Grows /\ TopicTypeOK'
      BY <1>1, GrowsByAppend DEF ForeignMessage
<1>3. RowsInv'
      BY <1>1, <1>2, RowsKept DEF ForeignMessage, Core
<1>4. ApiInv'
  <2>1. /\ Len(log) \in Nat /\ Len(log') = Len(log) + 1 /\ log'[Len(log')] = Junk
        /\ \A k \in 1 .. Len(log) : log'[k] = log[k]
        /\ \A i \in Ids : Logged(i)' <=> Logged(i)
        BY <1>1, AppendFacts, AppendOne
  <2>2. \A k \in 1 .. Len(log') : k = Len(log') \/ k \in 1 .. Len(log)
        BY <2>1
  <2>3. \A j, k \in 1 .. Len(log') : log'[j] = log'[k] /\ log'[k] # Junk => j = k
        BY <2>1, <2>2 DEF Core, ApiInv
  <2> QED BY <2>1, <2>3 DEF ForeignMessage, Core, ApiInv, statusVars
<1>5. faults' \in 0 .. MaxFaults /\ faults <= faults'
      BY FaultsAssumption DEF ForeignMessage, Fault, Core, TypeOK
<1>6. failure' \in [Workers -> [at : 0 .. Len(log'), attempts : 0 .. MaxAttempts - 1]]
      BY <1>2, FailureTypeKept DEF ForeignMessage, Core
<1>7. TypeOK'
      BY <1>2, <1>3, <1>5, <1>6 DEF ForeignMessage, Core, RowsInv, TransactionInv, TypeOK
<1>8. (\A w \in Workers : StillListener(w)) /\ HooksQuiet'
      BY <1>1 DEF ForeignMessage, StillListener, SameSession, groupVars, statusVars, Core, HooksQuiet
<1> QED BY <1>2, <1>3, <1>4, <1>5, <1>7, <1>8, OffTheListeners

-----------------------------------------------------------------------------
(***************************************************************************)
(* The steps of a webhook callback.                                        *)
(***************************************************************************)
LEMMA HandleCallbackKeepsCore ==
    ASSUME Core, NEW h \in Hooks, NEW id \in Ids, NEW c \in Channels, NEW s \in Receipts,
           HandleCallback(h, id, c, s)
    PROVE  Core'
<1>1. Grows /\ h \in Procs /\ h \notin Workers
      BY GrowsInPlace, ProcsAssumption DEF HandleCallback, Core, TypeOK, topicVars
<1>2. <<id, c, s>> \in receipts' /\ Touched(id)' /\ (s \in Completed => Reported(id, c)')
  <2>1. <<id, c, s>> \in receipts' /\ <<id, c, s>>[1] = id
        BY DEF HandleCallback
  <2> QED BY <2>1 DEF Touched, Reported
<1>3. RowsInv'
      BY <1>1, <1>2, RowsAfterRead DEF HandleCallback, Core, TypeOK
<1>4. ApiInv'
      BY ApiKept DEF HandleCallback, UpdateRead, Core, topicVars
<1>5. TypeOK' /\ faults <= faults'
      BY <1>3, TopicTypeKept, FaultsAssumption
         DEF HandleCallback, Core, RowsInv, TransactionInv, TypeOK, NoFault, topicVars
<1>6. \A w \in Workers : StillListener(w)
      BY <1>1 DEF HandleCallback, UpdateRead, StillListener, SameSession, topicVars,
                  Core, RowsInv, TransactionInv, StatusTypeOK
<1>7. HooksQuiet'
      BY <1>2 DEF HooksQuiet
<1> QED BY <1>1, <1>3, <1>4, <1>5, <1>6, <1>7, OffTheListeners

LEMMA HookEndsKeepsCore ==
    ASSUME Core, NEW h \in Hooks, HookCommit(h) \/ HookFails(h)
    PROVE  Core'
<1>1. /\ Grows /\ h \in Procs /\ h \notin Workers /\ TopicTypeOK
      /\ UpdateCommit(h) \/ UpdateRollback(h)
      /\ UNCHANGED <<topicVars, api, worker, sends, receipts, outbox, failure>>
      BY GrowsInPlace, ProcsAssumption
         DEF HookCommit, HookFails, Core, TypeOK, topicVars, serviceVars
<1>2. /\ RowsInv'
      /\ \A id \in Ids : table[id] # None => table'[id] # None
      BY <1>1, RowsAfterCommit, RowsAfterRollback DEF Core, UpdateRollback
<1>3. ApiInv'
      BY <1>1, <1>2, ApiKept DEF Core, topicVars
<1>4. faults' \in 0 .. MaxFaults /\ faults <= faults'
      BY FaultsAssumption
         DEF HookCommit, HookFails, NoFault, Fault, Core, TypeOK, serviceVars
<1>5. StatusTypeOK' /\ TopicTypeOK'
      BY <1>1, <1>2, TopicTypeKept DEF RowsInv, TransactionInv
<1>6. TypeOK'
      BY <1>1, <1>4, <1>5 DEF Core, TypeOK, topicVars
<1>7. \A p \in Procs : p # h => call'[p] = call[p]
      BY <1>1 DEF UpdateCommit, UpdateRollback, Core, RowsInv, TransactionInv, StatusTypeOK
<1>8. \A w \in Workers : StillListener(w)
      BY <1>1, <1>7, ProcsAssumption DEF StillListener, SameSession, topicVars
<1>9. HooksQuiet'
  <2>1. call'[h] = None
        BY <1>1 DEF UpdateCommit, UpdateRollback, Core, RowsInv, TransactionInv, StatusTypeOK
  <2> QED BY <1>1, <1>7, <2>1, ProcsAssumption DEF Core, HooksQuiet
<1> QED BY <1>1, <1>2, <1>3, <1>4, <1>6, <1>8, <1>9, OffTheListeners

-----------------------------------------------------------------------------
(***************************************************************************)
(* The steps of the listener.  First its updates: what the listener knows  *)
(* when it moves on after one.                                             *)
(***************************************************************************)
LEMMA CommitMoves ==
    ASSUME Core, Grows, NEW w \in Workers, AtUpdate(w), UNCHANGED topicVars,
           worker' = [worker EXCEPT ![w] =
                         IF worker[w].pc = "processing" THEN Dispatch(w)
                         ELSE AtChannel(worker[w].ch + 1, Len(WorkerChannels(w)))]
    PROVE  /\ worker' \in [Workers -> WorkerState]
           /\ worker'[w].pc # "wait" => InRecord(w)'
           /\ \A v \in Workers \ {w} : worker'[v] = worker[v]
<1>1. PICK id \in Ids : id = Current(w)
      BY InRecordFacts DEF AtUpdate
<1>2. PICK old \in WorkerState : old = worker[w]
      BY InRecordFacts DEF AtUpdate
<1> DEFINE chs == Request[id].channels
           rcps == Request[id].recipients
           c == chs[old.ch]
           next == IF old.pc = "processing" THEN Dispatch(w) ELSE AtChannel(old.ch + 1, Len(chs))
<1>3. /\ InRecord(w) /\ old.ch \in 1 .. Len(chs) /\ c \in Channels
      /\ Len(chs) \in Nat /\ Len(rcps) \in Nat /\ rcps \in Seq(Recipients)
      /\ old.pc \in {"processing", "final", "catch"}
      BY <1>1, <1>2, InRecordFacts, RequestFacts, RequestAssumption
         DEF WorkerChannels, WorkerChannel, Requests, AtUpdate
<1>4. worker' = [worker EXCEPT ![w] = next]
      BY <1>1, <1>2 DEF WorkerChannels
<1>5. next \in WorkerState
  <2>1. CASE old.pc = "processing"
        BY <1>2, <2>1 DEF Dispatch, Caught, WorkerState, WorkerPcs
  <2>2. CASE old.pc # "processing"
        BY <1>3, <2>2 DEF AtChannel, WorkerState, WorkerPcs
  <2> QED BY <2>1, <2>2
<1>6. PICK new \in WorkerState : new = next
      BY <1>5
<1>7. worker'[w] = new
      BY <1>4, <1>6 DEF Core, TypeOK
<1>8. /\ Current(w)' = id /\ session'[w] /\ position'[w] > 0
      BY <1>1, <1>3 DEF Current, InRecord, topicVars
<1>9. InRecord(w)'
  <2>1. CASE old.pc = "processing" /\ (c \notin Supported \/ id \in NoRecipients)
    <3>1. new.pc = "catch" /\ new.ch = old.ch
          BY <1>1, <1>2, <1>6, <2>1
             DEF Dispatch, Caught, WorkerChannel, WorkerChannels, WorkerState
    <3> QED BY <1>3, <1>7, <1>8, <3>1 DEF InRecord
  <2>2. CASE old.pc = "processing" /\ c \in Supported /\ id \notin NoRecipients
    <3>1. /\ new.pc = IF rcps = <<>> THEN "final" ELSE "send"
          /\ new.ch = old.ch /\ new.rcp = 1
          BY <1>1, <1>2, <1>6, <2>2
             DEF Dispatch, WorkerChannel, WorkerChannels, WorkerRecipients, WorkerState
    <3>2. SentTo(id, c, 0)'
          BY DEF SentTo
    <3>3. IF rcps = <<>> THEN Len(rcps) = 0 ELSE Len(rcps) >= 1
          BY <1>3, EmptySeq
    <3> QED BY <1>3, <1>7, <1>8, <3>1, <3>2, <3>3 DEF InRecord
  <2>3. CASE old.pc # "processing"
    <3>1. IF old.ch + 1 <= Len(chs) THEN new.pc = "processing" /\ new.ch = old.ch + 1
          ELSE new.pc = "mark"
          BY <1>3, <1>6, <2>3 DEF AtChannel
    <3> QED BY <1>3, <1>7, <1>8, <3>1 DEF InRecord
  <2> QED BY <2>1, <2>2, <2>3
<1>10. \A v \in Workers \ {w} : worker'[v] = worker[v]
       BY <1>4
<1>11. worker' \in [Workers -> WorkerState]
       BY <1>4, <1>5 DEF Core, TypeOK
<1> QED BY <1>9, <1>10, <1>11

LEMMA WorkerReadKeepsCore ==
    ASSUME Core, NEW w \in Workers, WorkerRead(w)
    PROVE  Core'
<1>1. Grows /\ w \in Procs
      BY GrowsInPlace, ProcsAssumption DEF WorkerRead, Core, TypeOK, topicVars
<1>2. PICK id \in Ids, c \in Channels : id = Current(w) /\ c = WorkerChannel(w) /\ Logged(id)
      BY InRecordFacts DEF WorkerRead, AtUpdate
<1>3. PICK s \in WorkerStatuses : s = StatusToReport(w)
      BY DEF StatusToReport, WorkerStatuses, WorkerRead, AtUpdate
<1>4. UpdateRead(w, id, c, s)
      BY <1>2, <1>3 DEF WorkerRead
<1>5. ASSUME s \in Completed, NEW t \in Requested[id], t[2] = c
      PROVE  t \in Sent
  <2>1. worker[w].pc = "final"
        BY <1>3, <1>5 DEF StatusToReport, Completed, WorkerRead, AtUpdate
  <2>2. SentTo(id, c, Len(Request[id].recipients))
        BY <1>2, <2>1, InRecordFacts DEF InRecord, WorkerChannel, WorkerChannels
  <2> QED BY <1>5, <2>2, SentToAll
<1>6. Touched(id)'
      BY <1>2 DEF Touched, Logged, WorkerRead, topicVars
<1>7. RowsInv'
      BY <1>1, <1>4, <1>5, <1>6, RowsAfterRead DEF Core, TypeOK
<1>8. ApiInv'
      BY ApiKept DEF WorkerRead, UpdateRead, Core, topicVars
<1>9. TypeOK' /\ faults <= faults'
      BY <1>7, TopicTypeKept, FaultsAssumption
         DEF WorkerRead, Core, RowsInv, TransactionInv, TypeOK, NoFault, topicVars
<1>10. \A p \in Procs \ {w} : call'[p] = call[p]
       BY <1>4 DEF UpdateRead, Core, RowsInv, TransactionInv, StatusTypeOK
<1>11. \A v \in Workers \ {w} : StillListener(v)
       BY <1>10, ProcsAssumption DEF WorkerRead, StillListener, SameSession, topicVars
<1>12. HooksQuiet'
       BY <1>10, HooksAreQuiet DEF WorkerRead
<1>13. ListenerInv(w)'
  <2>1. (worker[w].pc # "wait" => InRecord(w)) /\ failure[w].attempts <= faults
        BY DEF Core, ListenerInv
  <2>2. InRecord(w) => InRecord(w)'
        BY DEF WorkerRead, topicVars, InRecord, Current, SentTo, Sent
  <2> QED BY <2>1, <2>2 DEF ListenerInv, WorkerRead, NoFault, AtUpdate
<1> QED BY <1>1, <1>7, <1>8, <1>9, <1>11, <1>12, <1>13, OnOneListener

LEMMA WorkerCommitKeepsCore ==
    ASSUME Core, NEW w \in Workers, WorkerCommit(w)
    PROVE  Core'
<1>1. Grows /\ w \in Procs
      BY GrowsInPlace, ProcsAssumption DEF WorkerCommit, Core, TypeOK, topicVars
<1>2. /\ worker' \in [Workers -> WorkerState]
      /\ worker'[w].pc # "wait" => InRecord(w)'
      /\ \A v \in Workers \ {w} : worker'[v] = worker[v]
      BY <1>1, CommitMoves DEF WorkerCommit
<1>3. RowsInv' /\ \A id \in Ids : table[id] # None => table'[id] # None
      BY <1>1, RowsAfterCommit DEF WorkerCommit, Core, TypeOK
<1>4. ApiInv'
      BY <1>3, ApiKept DEF WorkerCommit, Core, topicVars
<1>5. TypeOK' /\ faults <= faults'
      BY <1>2, <1>3, TopicTypeKept, FaultsAssumption
         DEF WorkerCommit, Core, RowsInv, TransactionInv, TypeOK, NoFault, topicVars
<1>6. call'[w] = None /\ \A p \in Procs \ {w} : call'[p] = call[p]
      BY <1>1 DEF WorkerCommit, UpdateCommit, Core, RowsInv, TransactionInv, StatusTypeOK
<1>7. \A v \in Workers \ {w} : StillListener(v)
      BY <1>2, <1>6, ProcsAssumption DEF WorkerCommit, StillListener, SameSession, topicVars
<1>8. HooksQuiet'
      BY <1>6, HooksAreQuiet DEF WorkerCommit
<1>9. ListenerInv(w)'
      BY <1>2, <1>6 DEF ListenerInv, WorkerCommit, NoFault, Core
<1> QED BY <1>1, <1>3, <1>4, <1>5, <1>7, <1>8, <1>9, OnOneListener

(***************************************************************************)
(* The transaction of an update fails: no row is written, and the listener *)
(* has no transaction afterwards.                                          *)
(***************************************************************************)
LEMMA FailedUpdateKeepsRows ==
    ASSUME Core, Grows, NEW w \in Workers, UpdateFails(w), log' = log
    PROVE  /\ RowsInv' /\ ApiInv' /\ HooksQuiet'
           /\ table' = table /\ call'[w] = None
           /\ \A p \in Procs \ {w} : call'[p] = call[p]
           /\ faults' = faults + 1 /\ faults' \in 0 .. MaxFaults /\ faults <= faults'
<1>1. w \in Procs
      BY ProcsAssumption
<1>2. /\ table' = table /\ call'[w] = None
      /\ \A p \in Procs \ {w} : call'[p] = call[p]
      /\ UNCHANGED statusVars \/ UpdateRollback(w)
      BY <1>1 DEF UpdateFails, UpdateRollback, statusVars, Core, RowsInv, TransactionInv, StatusTypeOK
<1>3. RowsInv'
      BY <1>1, <1>2, RowsKept, RowsAfterRollback DEF Core, TypeOK
<1>4. ApiInv'
      BY <1>2, ApiKept DEF UpdateFails, Core
<1>5. HooksQuiet'
      BY <1>2, HooksAreQuiet DEF UpdateFails
<1>6. faults' = faults + 1 /\ faults' \in 0 .. MaxFaults /\ faults <= faults'
      BY FaultsAssumption DEF UpdateFails, Fault, Core, TypeOK
<1> QED BY <1>2, <1>3, <1>4, <1>5, <1>6

\* The catch clause works on the channel that the try block has worked on.
LEMMA CaughtInRecord ==
    ASSUME Core, NEW w \in Workers, worker[w].pc \notin {"wait", "mark"}, UNCHANGED topicVars,
           worker' = [worker EXCEPT ![w] = Caught(w)]
    PROVE  /\ worker' \in [Workers -> WorkerState] /\ worker'[w].pc = "catch"
           /\ InRecord(w)'
           /\ \A v \in Workers \ {w} : worker'[v] = worker[v]
<1>1. /\ InRecord(w) /\ worker[w] \in WorkerState
      BY InRecordFacts
<1>2. Caught(w) \in WorkerState /\ Caught(w).pc = "catch" /\ Caught(w).ch = worker[w].ch
      BY <1>1 DEF Caught, WorkerState, WorkerPcs
<1>3. /\ worker' \in [Workers -> WorkerState] /\ worker'[w] = Caught(w)
      /\ \A v \in Workers \ {w} : worker'[v] = worker[v]
      BY <1>2 DEF Core, TypeOK
<1>4. InRecord(w)'
      BY <1>1, <1>2, <1>3 DEF InRecord, topicVars, Current
<1> QED BY <1>2, <1>3, <1>4

LEMMA UpdateThrowsKeepsCore ==
    ASSUME Core, NEW w \in Workers, UpdateThrows(w)
    PROVE  Core'
<1>1. Grows /\ log' = log
      BY GrowsInPlace DEF UpdateThrows, UpdateFails, Core, TypeOK, topicVars
<1>2. /\ RowsInv' /\ ApiInv' /\ HooksQuiet'
      /\ table' = table /\ call'[w] = None
      /\ \A p \in Procs \ {w} : call'[p] = call[p]
      /\ faults' = faults + 1 /\ faults' \in 0 .. MaxFaults /\ faults <= faults'
      BY <1>1, FailedUpdateKeepsRows DEF UpdateThrows
<1>3. /\ worker' \in [Workers -> WorkerState] /\ InRecord(w)'
      /\ \A v \in Workers \ {w} : worker'[v] = worker[v]
      BY CaughtInRecord DEF UpdateThrows
<1>4. TypeOK'
      BY <1>2, <1>3, TopicTypeKept
         DEF UpdateThrows, UpdateFails, Core, RowsInv, TransactionInv, TypeOK, topicVars
<1>5. \A v \in Workers \ {w} : StillListener(v)
      BY <1>2, <1>3, ProcsAssumption DEF UpdateThrows, StillListener, SameSession, topicVars
<1>6. ListenerInv(w)'
  <2>1. failure[w].attempts <= faults /\ failure[w].attempts \in Nat /\ faults \in Nat
        BY FaultsAssumption, AttemptsAssumption DEF Core, ListenerInv, TypeOK
  <2>2. failure'[w].attempts <= faults'
        BY <1>2, <2>1 DEF UpdateThrows
  <2> QED BY <1>2, <1>3, <2>2 DEF ListenerInv
<1> QED BY <1>1, <1>2, <1>4, <1>5, <1>6, OnOneListener

LEMMA SendThrowsKeepsCore ==
    ASSUME Core, NEW w \in Workers, SendThrows(w)
    PROVE  Core'
<1>1. Grows
      BY GrowsInPlace DEF SendThrows, Core, TypeOK, topicVars
<1>2. RowsInv' /\ ApiInv' /\ HooksQuiet'
      BY <1>1, RowsKept, ApiKept
         DEF SendThrows, Core, TypeOK, topicVars, statusVars, HooksQuiet
<1>3. /\ worker' \in [Workers -> WorkerState] /\ InRecord(w)'
      /\ \A v \in Workers \ {w} : worker'[v] = worker[v]
      BY CaughtInRecord DEF SendThrows
<1>4. TypeOK' /\ faults <= faults'
      BY <1>2, <1>3, TopicTypeKept, FaultsAssumption
         DEF SendThrows, NoFault, Core, RowsInv, TransactionInv, TypeOK, topicVars
<1>5. \A v \in Workers \ {w} : StillListener(v)
      BY <1>3 DEF SendThrows, StillListener, SameSession, topicVars, statusVars
<1>6. call[w] = None
      BY DEF Core, ListenerInv, SendThrows, AtUpdate
<1>7. ListenerInv(w)'
      BY <1>3, <1>6 DEF ListenerInv, SendThrows, NoFault, statusVars, Core
<1> QED BY <1>1, <1>2, <1>4, <1>5, <1>7, OnOneListener

(***************************************************************************)
(* The listener throws: its record is handed out again, with one failed    *)
(* attempt more on the container's account, or skipped.                    *)
(***************************************************************************)
LEMMA AttemptsFacts ==
    ASSUME Core, NEW w \in Workers
    PROVE  Attempts(w) \in 1 .. MaxAttempts /\ Attempts(w) <= faults + 1
<1>1. /\ failure[w].attempts \in 0 .. MaxAttempts - 1 /\ failure[w].attempts <= faults
      /\ faults \in Nat /\ MaxAttempts \in Nat \ {0}
      BY FaultsAssumption, AttemptsAssumption DEF Core, ListenerInv, TypeOK
<1>2. PICK n \in 0 .. MaxAttempts - 1 :
          /\ n = IF failure[w].at = position[w] THEN failure[w].attempts ELSE 0
          /\ n <= faults
      BY <1>1
<1> QED BY <1>1, <1>2 DEF Attempts

LEMMA ListenerThrowsKeepsCore ==
    ASSUME Core, NEW w \in Workers, ListenerThrows(w)
    PROVE  Core' /\ faults' = faults + 1
<1>1. Grows /\ log' = log /\ worker[w].pc = "catch"
      BY GrowsInPlace DEF ListenerThrows, UpdateFails, Redeliver, Core, TypeOK, topicVars
<1>2. /\ RowsInv' /\ ApiInv' /\ HooksQuiet'
      /\ table' = table /\ call'[w] = None
      /\ \A p \in Procs \ {w} : call'[p] = call[p]
      /\ faults' = faults + 1 /\ faults' \in 0 .. MaxFaults /\ faults <= faults'
      BY <1>1, FailedUpdateKeepsRows DEF ListenerThrows
<1>3. /\ InRecord(w) /\ position[w] \in 1 .. Len(log) /\ Len(log) \in Nat
      /\ Attempts(w) \in 1 .. MaxAttempts /\ Attempts(w) <= faults + 1
  <2>1. InRecord(w) /\ position[w] \in 1 .. Len(log)
        BY <1>1, InRecordFacts
  <2>2. Len(log) \in Nat
        BY DEF Core, TypeOK, TopicTypeOK
  <2> QED BY <2>1, <2>2, AttemptsFacts
<1>4. StatusTypeOK'
      BY <1>2 DEF RowsInv, TransactionInv
<1>5. CASE Attempts(w) < MaxAttempts
  <2>1. /\ Redeliver(w) /\ worker' = [worker EXCEPT ![w] = Idle]
        /\ failure' = [failure EXCEPT ![w] = [at |-> position[w], attempts |-> Attempts(w)]]
        BY <1>5 DEF ListenerThrows
  <2>2. position[w] - 1 \in 0 .. Len(log)
        BY <1>3
  <2>3. TopicTypeOK' /\ \A v \in Workers \ {w} : SameSession(v)
        BY <2>1, <2>2 DEF Redeliver, Core, TypeOK, TopicTypeOK, SameSession
  <2>4. [at |-> position[w], attempts |-> Attempts(w)]
            \in [at : 0 .. Len(log), attempts : 0 .. MaxAttempts - 1]
        BY <1>3, <1>5, AttemptsAssumption
  <2>5. Idle \in WorkerState /\ Idle.pc = "wait"
        BY DEF Idle, WorkerState, WorkerPcs
  <2>6. TypeOK'
        BY <1>1, <1>2, <1>4, <2>1, <2>3, <2>4, <2>5
           DEF ListenerThrows, UpdateFails, Core, TypeOK
  <2>7. \A v \in Workers \ {w} : StillListener(v)
        BY <1>2, <2>1, <2>3, ProcsAssumption DEF StillListener, Core, TypeOK
  <2>8. worker'[w] = Idle /\ failure'[w].attempts = Attempts(w)
        BY <2>1 DEF Core, TypeOK
  <2>9. ListenerInv(w)'
        BY <1>2, <1>3, <2>5, <2>8 DEF ListenerInv
  <2> QED BY <1>1, <1>2, <2>6, <2>7, <2>9, OnOneListener
<1>6. CASE ~(Attempts(w) < MaxAttempts)
  <2>1. /\ UNCHANGED topicVars
        /\ worker' = [worker EXCEPT ![w] = AtChannel(1, 0)]
        /\ failure' = [failure EXCEPT ![w] = NoFailure]
        BY <1>6 DEF ListenerThrows
  <2>2. AtChannel(1, 0) \in WorkerState /\ AtChannel(1, 0).pc = "mark"
        BY DEF AtChannel, WorkerState, WorkerPcs
  <2>3. NoFailure \in [at : 0 .. Len(log), attempts : 0 .. MaxAttempts - 1]
        BY <1>3, AttemptsAssumption DEF NoFailure
  <2>4. TypeOK'
        BY <1>2, <1>4, <2>1, <2>2, <2>3, TopicTypeKept
           DEF ListenerThrows, UpdateFails, Core, TypeOK, topicVars
  <2>5. \A v \in Workers \ {w} : StillListener(v)
        BY <1>2, <2>1, ProcsAssumption
           DEF StillListener, SameSession, Core, TypeOK, topicVars
  <2>6. worker'[w] = AtChannel(1, 0) /\ failure'[w].attempts = 0
        BY <2>1 DEF Core, TypeOK, NoFailure
  <2>7. InRecord(w)'
        BY <1>3, <2>1, <2>2, <2>6 DEF InRecord, topicVars, Current
  <2>8. ListenerInv(w)'
        BY <1>2, <2>6, <2>7 DEF ListenerInv
  <2> QED BY <1>1, <1>2, <2>4, <2>5, <2>8, OnOneListener
<1> QED BY <1>2, <1>5, <1>6

(***************************************************************************)
(* A turn of the recipient loop.                                           *)
(***************************************************************************)
LEMMA SendKeepsCore ==
    ASSUME Core, NEW w \in Workers, Send(w)
    PROVE  Core' /\ Grows
<1>1. PICK id \in Ids : id = Current(w)
      BY InRecordFacts DEF Send
<1>2. PICK old \in WorkerState : old = worker[w]
      BY InRecordFacts DEF Send
<1> DEFINE chs == Request[id].channels
           rcps == Request[id].recipients
           c == chs[old.ch]
           t == <<id, c, rcps[old.rcp]>>
<1>3. /\ InRecord(w) /\ old.pc = "send" /\ old.ch \in 1 .. Len(chs) /\ c \in Channels
      /\ Len(rcps) \in Nat /\ old.rcp \in 1 .. Len(rcps)
      /\ SentTo(id, c, old.rcp - 1)
  <2>1. InRecord(w) /\ old.pc = "send" /\ old.ch \in 1 .. Len(chs) /\ c \in Channels
        BY <1>1, <1>2, InRecordFacts DEF Send, WorkerChannels, WorkerChannel
  <2> QED BY <1>1, <1>2, <2>1, RequestFacts DEF InRecord, WorkerState
<1>4. WorkerChannel(w) = c /\ WorkerRecipients(w) = rcps /\ t \in Deliveries
      BY <1>1, <1>2, <1>3, RequestFacts
         DEF WorkerChannel, WorkerChannels, WorkerRecipients, Deliveries
<1>5. sends' \in [Deliveries -> Nat] /\ Sent \subseteq Sent' /\ t \in Sent'
  <2>1. PICK d \in Deliveries : d = t
        BY <1>4
  <2>2. sends' = [sends EXCEPT ![d] = @ + 1]
        BY <1>1, <1>2, <1>4, <2>1 DEF Send
  <2>3. sends \in [Deliveries -> Nat]
        BY DEF Core, TypeOK
  <2>4. sends' \in [Deliveries -> Nat] /\ Sent \subseteq Sent' /\ d \in Sent'
        BY <2>2, <2>3, SentGrows
  <2> QED BY <2>1, <2>4
<1>6. Grows
  <2>1. log' = log /\ receipts' = receipts
        BY DEF Send, topicVars
  <2>2. Len(log) \in Nat
        BY DEF Core, TypeOK, TopicTypeOK
  <2> QED BY <1>5, <2>1, <2>2 DEF Grows
<1>7. PICK new \in WorkerState :
          /\ worker' = [worker EXCEPT ![w] = new]
          /\ new.pc = IF old.rcp = Len(rcps) THEN "final" ELSE "send"
          /\ new.ch = old.ch /\ new.rcp = old.rcp + 1
  <2> DEFINE next == [pc |-> IF old.rcp = Len(rcps) THEN "final" ELSE "send",
                      ch |-> old.ch, rcp |-> old.rcp + 1, ok |-> TRUE]
  <2>1. worker' = [worker EXCEPT ![w] = next]
        BY <1>2, <1>4 DEF Send
  <2>2. next \in WorkerState
        BY <1>3 DEF WorkerState, WorkerPcs
  <2> QED BY <2>1, <2>2
<1>8. worker' \in [Workers -> WorkerState] /\ worker'[w] = new /\ new.pc # "wait"
      BY <1>7 DEF Core, TypeOK
<1>9. InRecord(w)'
  <2>1. Current(w)' = id /\ session'[w] /\ position'[w] > 0
        BY <1>1, <1>3 DEF Current, InRecord, Send, topicVars
  <2>2. SentTo(id, c, old.rcp)'
    <3>1. SentTo(id, c, old.rcp - 1)'
          BY <1>3, <1>6, FlowGrowthKeeps DEF Core, TypeOK
    <3>2. \A j \in 1 .. old.rcp : j = old.rcp \/ j \in 1 .. old.rcp - 1
          BY <1>3
    <3>3. \A j \in 1 .. old.rcp : <<id, c, rcps[j]>> \in Sent'
          BY <1>5, <3>1, <3>2 DEF SentTo
    <3> QED BY <3>3 DEF SentTo
  <2>3. CASE old.rcp = Len(rcps)
        BY <1>3, <1>7, <1>8, <2>1, <2>2, <2>3 DEF InRecord
  <2>4. CASE old.rcp # Len(rcps)
    <3>1. /\ new.pc = "send" /\ new.rcp <= Len(rcps) /\ new.rcp - 1 = old.rcp
          BY <1>3, <1>7, <2>4
    <3> QED BY <1>3, <1>7, <1>8, <2>1, <2>2, <3>1 DEF InRecord
  <2> QED BY <2>3, <2>4
<1>10. RowsInv' /\ ApiInv' /\ HooksQuiet'
       BY <1>6, RowsKept, ApiKept DEF Send, Core, TypeOK, topicVars, statusVars, HooksQuiet
<1>11. TypeOK' /\ faults <= faults'
       BY SMTT(30), <1>5, <1>8, <1>10, TopicTypeKept, FaultsAssumption
          DEF Send, Core, RowsInv, TransactionInv, TypeOK, NoFault, topicVars
<1>12. \A v \in Workers \ {w} : StillListener(v)
       BY <1>7 DEF StillListener, SameSession, Send, topicVars, statusVars
<1>13. ListenerInv(w)'
  <2>1. call[w] = None
        BY DEF Core, ListenerInv, Send, AtUpdate
  <2> QED BY <1>9, <2>1 DEF ListenerInv, Send, NoFault, statusVars, Core
<1> QED BY <1>6, <1>10, <1>11, <1>12, <1>13, OnOneListener

-----------------------------------------------------------------------------
(***************************************************************************)
(* The steps that move offsets or sessions.                                *)
(***************************************************************************)
LEMMA ReceiveKeepsCore ==
    ASSUME Core, NEW w \in Workers, Receive(w)
    PROVE  Core' /\ worker'[w].pc # "wait"
<1>1. Grows
      BY GrowsInPlace DEF Receive, Deliver, Core, TypeOK
<1>2. PICK n : n = position[w] + 1
      OBVIOUS
<1>3. /\ TopicTypeOK'
      /\ n \in 1 .. Len(log) /\ log[n] \in Ids \cup {Junk}
      /\ session[w] /\ session' = session
      /\ position'[w] = n /\ Current(w)' = log[n]
      /\ \A v \in Workers \ {w} : SameSession(v)
      BY <1>2, DeliverFacts DEF Receive, Core, TypeOK
<1>4. PICK id \in Ids : id = log[n]
      BY <1>2, <1>3 DEF Receive
<1>5. PICK new : new = AtChannel(1, Len(Request[id].channels))
      OBVIOUS
<1>6. /\ new \in WorkerState
      /\ \/ new.pc = "processing" /\ new.ch = 1 /\ 1 <= Len(Request[id].channels)
         \/ new.pc = "mark"
      BY <1>5 DEF AtChannel, WorkerState, WorkerPcs
<1>7. worker' = [worker EXCEPT ![w] = new] /\ worker' \in [Workers -> WorkerState]
      BY <1>2, <1>4, <1>5, <1>6 DEF Receive, Core, TypeOK
<1>8. worker'[w] = new /\ new.pc # "wait"
      BY <1>6, <1>7 DEF Core, TypeOK
<1>9. RowsInv' /\ ApiInv' /\ HooksQuiet'
      BY <1>1, RowsKept, ApiKept DEF Receive, Deliver, Core, TypeOK, statusVars, HooksQuiet
<1>10. TypeOK' /\ faults <= faults'
       BY <1>3, <1>7, <1>9, FaultsAssumption
          DEF Receive, Deliver, Core, RowsInv, TransactionInv, TypeOK, NoFault
<1>11. \A v \in Workers \ {w} : StillListener(v)
       BY <1>3, <1>7 DEF Receive, StillListener, statusVars
<1>12. InRecord(w)'
       BY <1>3, <1>4, <1>6, <1>8 DEF InRecord
<1>13. ListenerInv(w)'
  <2>1. call[w] = None
        BY DEF Core, ListenerInv, Receive, AtUpdate
  <2> QED BY <1>12, <2>1 DEF ListenerInv, Receive, NoFault, statusVars, Core
<1> QED BY <1>1, <1>8, <1>9, <1>10, <1>11, <1>13, OnOneListener

\* w has nothing in hand, before or after; its session may start or end.
LEMMA IdleKeepsCore ==
    ASSUME Core, Grows, NEW w \in Workers, worker'[w] = Idle, call'[w] = None, TypeOK',
           failure'[w] = failure[w] \/ failure'[w] = NoFailure,
           \A v \in Workers \ {w} : StillListener(v),
           RowsInv', ApiInv', HooksQuiet', faults <= faults'
    PROVE  Core'
<1>1. failure'[w].attempts <= faults'
  <2>1. failure[w].attempts <= faults /\ failure[w].attempts \in Nat
        /\ faults \in Nat /\ faults' \in Nat
        BY FaultsAssumption, AttemptsAssumption DEF Core, ListenerInv, TypeOK
  <2> QED BY <2>1 DEF NoFailure
<1>2. ListenerInv(w)'
      BY <1>1 DEF ListenerInv, Idle
<1> QED BY <1>2, OnOneListener

LEMMA AcknowledgeKeepsCore ==
    ASSUME Core, NEW w \in Workers, Acknowledge(w)
    PROVE  Core'
<1>1. Grows
      BY GrowsInPlace DEF Acknowledge, Store, Core, TypeOK
<1>2. TopicTypeOK' /\ \A v \in Workers \ {w} : SameSession(v)
      BY StoreFacts DEF Acknowledge, Core, TypeOK
<1>3. Idle \in WorkerState
      BY DEF Idle, WorkerState, WorkerPcs
<1>4. RowsInv' /\ ApiInv' /\ HooksQuiet'
      BY <1>1, RowsKept, ApiKept DEF Acknowledge, Store, Core, TypeOK, statusVars, HooksQuiet
<1>5. TypeOK' /\ faults <= faults' /\ worker'[w] = Idle
      BY <1>2, <1>3, <1>4, FaultsAssumption
         DEF Acknowledge, Store, Core, RowsInv, TransactionInv, TypeOK, NoFault
<1>6. \A v \in Workers \ {w} : StillListener(v)
      BY <1>2 DEF Acknowledge, StillListener, statusVars, Core, TypeOK
<1>7. call'[w] = None
      BY DEF Core, ListenerInv, Acknowledge, AtUpdate, statusVars
<1> QED BY <1>1, <1>4, <1>5, <1>6, <1>7, IdleKeepsCore DEF Acknowledge

\* A loop without a session has nothing in hand.
LEMMA NoSessionIsIdle ==
    ASSUME Core, NEW w \in Workers, ~session[w]
    PROVE  worker[w].pc = "wait" /\ call[w] = None
BY DEF Core, ListenerInv, InRecord, AtUpdate

LEMMA GroupKeepsCore ==
    ASSUME Core, NEW w \in Workers, worker[w].pc = "wait", UNCHANGED <<statusVars, serviceVars, outbox, failure>>,
           log' = log, TopicTypeOK', \A v \in Workers \ {w} : SameSession(v)
    PROVE  Core'
<1>1. Grows
      BY GrowsInPlace DEF Core, TypeOK, serviceVars
<1>2. RowsInv' /\ ApiInv' /\ HooksQuiet'
      BY <1>1, RowsKept, ApiKept DEF Core, TypeOK, statusVars, serviceVars, HooksQuiet
<1>3. TypeOK' /\ faults <= faults'
      BY <1>2, FaultsAssumption DEF Core, RowsInv, TransactionInv, TypeOK, serviceVars
<1>4. \A v \in Workers \ {w} : StillListener(v)
      BY DEF StillListener, statusVars, serviceVars
<1>5. ListenerInv(w)'
      BY DEF Core, ListenerInv, AtUpdate, statusVars, serviceVars
<1> QED BY <1>1, <1>2, <1>3, <1>4, <1>5, OnOneListener

LEMMA GroupStepKeepsCore ==
    ASSUME Core, NEW w \in Workers, GroupStep(w)
    PROVE  Core'
<1>1. TopicTypeOK /\ owner \in Workers \cup {Nobody}
      BY DEF Core, TypeOK, TopicTypeOK
<1>2. CASE JoinGroup(w)
  <2>1. Begin(w, "earliest") /\ owner' = w /\ ~session[w]
        BY <1>2 DEF JoinGroup, Assign
  <2>2. TopicTypeOK' /\ \A v \in Workers \ {w} : SameSession(v)
        BY <1>1, <2>1, BeginFacts
  <2> QED BY <1>2, <2>1, <2>2, NoSessionIsIdle, GroupKeepsCore DEF JoinGroup, Begin
<1>3. CASE CommitBatch(w)
      BY <1>1, <1>3, CommitFacts, GroupKeepsCore DEF CommitBatch, Commit
<1>4. CASE SessionEnds(w)
  <2>1. Close(w) /\ owner' = owner
        BY <1>4 DEF SessionEnds, EndSession
  <2>2. TopicTypeOK' /\ \A v \in Workers \ {w} : SameSession(v)
        BY <1>1, <2>1, CloseFacts
  <2> QED BY <1>4, <2>1, <2>2, GroupKeepsCore DEF SessionEnds, Close
<1> QED BY <1>2, <1>3, <1>4 DEF GroupStep

LEMMA RebalanceKeepsCore ==
    ASSUME Core, Rebalance
    PROVE  Core'
<1>1. Grows
      BY GrowsInPlace DEF Rebalance, Revoke, Core, TypeOK
<1>2. RowsInv' /\ ApiInv' /\ HooksQuiet'
      BY <1>1, RowsKept, ApiKept
         DEF Rebalance, Revoke, Core, TypeOK, statusVars, HooksQuiet
<1>3. TopicTypeOK' /\ faults' \in 0 .. MaxFaults /\ faults <= faults'
      BY FaultsAssumption DEF Rebalance, Revoke, Fault, Core, TypeOK, TopicTypeOK
<1>4. TypeOK'
      BY <1>2, <1>3 DEF Rebalance, Revoke, Core, RowsInv, TransactionInv, TypeOK
<1>5. \A v \in Workers : StillListener(v)
      BY DEF Rebalance, Revoke, StillListener, SameSession, statusVars
<1> QED BY <1>1, <1>2, <1>3, <1>4, <1>5, OffTheListeners

(***************************************************************************)
(* A process dies: its listener is gone, transactions and requests with    *)
(* it, and records the producer has not sent.                              *)
(***************************************************************************)
LEMMA CrashKeepsCore ==
    ASSUME Core, NEW w \in Workers, Crash(w)
    PROVE  Core' /\ call'[w] = None
<1>1. Grows /\ w \in Procs
      BY GrowsInPlace, ProcsAssumption DEF Crash, Leave, Close, Core, TypeOK
<1>2. Close(w) /\ owner' \in Workers \cup {Nobody}
      BY DEF Crash, Leave, Core, TypeOK, TopicTypeOK
<1>3. TopicTypeOK' /\ \A v \in Workers \ {w} : SameSession(v)
      BY <1>2, CloseFacts DEF Core, TypeOK
<1>4. PICK lost \in SUBSET InProgress, hung \in SUBSET {h \in Hooks : call[h] # None} :
          /\ api' = [id \in Ids |-> IF id \in lost THEN "aborted" ELSE api[id]]
          /\ call' = [p \in Procs |-> IF p \in hung \cup {w} THEN None ELSE call[p]]
      BY DEF Crash
<1>5. /\ call' \in [Procs -> Call \cup {None}] /\ call'[w] = None
      /\ \A p \in Procs : call'[p] = call[p] \/ call'[p] = None
      BY <1>1, <1>4 DEF Core, RowsInv, TransactionInv, StatusTypeOK
<1>6. RowsInv'
      BY <1>1, <1>5, RowsAfterDrop DEF Crash, Core, TypeOK
<1>7. /\ api' \in [Ids -> ApiStates] /\ outbox' \subseteq outbox
      /\ \A id \in Ids : api'[id] = api[id] \/ api'[id] = "aborted"
      BY <1>4 DEF Crash, Core, TypeOK, ApiStates
<1>8. ApiInv'
  <2>1. log' = log /\ table' = table
        BY <1>2 DEF Crash, Close
  <2> QED BY <1>7, <2>1 DEF Core, ApiInv, Logged
<1>9. faults' \in 0 .. MaxFaults /\ faults <= faults'
      BY FaultsAssumption DEF Crash, Fault, Core, TypeOK
<1>10. /\ Idle \in WorkerState /\ worker' = [worker EXCEPT ![w] = Idle]
       /\ NoFailure \in [at : 0 .. Len(log), attempts : 0 .. MaxAttempts - 1]
       /\ failure' = [failure EXCEPT ![w] = NoFailure]
       BY AttemptsAssumption
          DEF Crash, Idle, WorkerState, WorkerPcs, NoFailure, Core, TypeOK, TopicTypeOK
<1>11. log' = log /\ sends' = sends /\ receipts' = receipts
       BY <1>2 DEF Crash, Close
<1>12. StatusTypeOK'
       BY <1>6 DEF RowsInv, TransactionInv
<1>13. TypeOK'
       BY <1>3, <1>7, <1>9, <1>10, <1>11, <1>12 DEF Core, TypeOK
<1>14. worker'[w] = Idle /\ failure'[w] = NoFailure
       BY <1>10 DEF Core, TypeOK
<1>15. \A v \in Workers \ {w} : StillListener(v)
       BY <1>3, <1>5, <1>10, ProcsAssumption DEF StillListener, Core, TypeOK
<1>16. HooksQuiet'
       BY <1>5, <1>11, ProcsAssumption DEF Core, HooksQuiet
<1> QED BY <1>1, <1>5, <1>6, <1>8, <1>9, <1>13, <1>14, <1>15, <1>16, IdleKeepsCore

-----------------------------------------------------------------------------
(***************************************************************************)
(* Core is inductive.                                                      *)
(***************************************************************************)
LEMMA InitCore == Init => Core
<1> SUFFICES ASSUME Init
             PROVE  Core
    OBVIOUS
<1>1. TransactionInv
      BY InitTransactionInv DEF Init
<1>2. TopicTypeOK
      BY DEF Init, TopicInit, TopicTypeOK
<1>3. TypeOK
  <2>1. Idle \in WorkerState
        BY DEF Idle, WorkerState, WorkerPcs
  <2>2. NoFailure \in [at : 0 .. Len(log), attempts : 0 .. MaxAttempts - 1]
        BY AttemptsAssumption DEF NoFailure, Init, TopicInit
  <2> QED BY <1>1, <1>2, <2>1, <2>2, FaultsAssumption DEF Init, TypeOK, TransactionInv, ApiStates
<1>4. RowsInv
      BY <1>1 DEF Init, StatusInit, RowsInv
<1>5. ApiInv
      BY DEF Init, TopicInit, ApiInv, Logged
<1>6. \A w \in Workers : ListenerInv(w)
      BY ProcsAssumption DEF Init, StatusInit, ListenerInv, Idle, NoFailure
<1>7. \A h \in Hooks : call[h] = None
      BY ProcsAssumption DEF Init, StatusInit
<1> QED BY <1>3, <1>4, <1>5, <1>6, <1>7 DEF Core

LEMMA StutterKeepsCore ==
    ASSUME Core, UNCHANGED vars
    PROVE  Core'
<1>1. Grows /\ UNCHANGED <<topicVars, statusVars, api, worker, sends, receipts, faults, outbox, failure>>
      BY GrowsInPlace DEF vars, serviceVars, topicVars, Core, TypeOK
<1>2. RowsInv' /\ ApiInv' /\ HooksQuiet'
      BY <1>1, RowsKept, ApiKept DEF Core, TypeOK, topicVars, statusVars, HooksQuiet
<1>3. TypeOK' /\ faults <= faults'
      BY <1>1, <1>2, TopicTypeKept, FaultsAssumption
         DEF Core, RowsInv, TransactionInv, TypeOK, topicVars
<1>4. \A v \in Workers : StillListener(v)
      BY <1>1 DEF StillListener, SameSession, topicVars, statusVars
<1> QED BY <1>1, <1>2, <1>3, <1>4, OffTheListeners

\* Every step keeps Core.
LEMMA NextKeepsCore == Core /\ [Next]_vars => Core'
<1> SUFFICES ASSUME Core, [Next]_vars
             PROVE  Core'
    OBVIOUS
<1>1. ASSUME NEW id \in Ids, Post(id) \/ ApiStep(id) \/ SendRecord(id)
      PROVE  Core'
      BY <1>1, PostKeepsCore, WriteInitialRowKeepsCore, ProduceKeepsCore, SendRecordKeepsCore
         DEF ApiStep
<1>2. ASSUME NEW w \in Workers, WorkerStep(w)
      PROVE  Core'
      BY <1>2, ReceiveKeepsCore, WorkerReadKeepsCore, WorkerCommitKeepsCore,
         UpdateThrowsKeepsCore, ListenerThrowsKeepsCore, SendKeepsCore, SendThrowsKeepsCore,
         AcknowledgeKeepsCore DEF WorkerStep
<1>3. ASSUME NEW w \in Workers, GroupStep(w) \/ Crash(w)
      PROVE  Core'
      BY <1>3, GroupStepKeepsCore, CrashKeepsCore
<1>4. ASSUME NEW h \in Hooks, HookStep(h)
      PROVE  Core'
      BY <1>4, HandleCallbackKeepsCore, HookEndsKeepsCore DEF HookStep
<1> QED BY <1>1, <1>2, <1>3, <1>4, RebalanceKeepsCore, ForeignMessageKeepsCore,
           StutterKeepsCore DEF Next

\* Core is an invariant of the JVM service.
LEMMA CoreHolds == Spec => []Core
BY InitCore, NextKeepsCore, PTL DEF Spec

(***************************************************************************)
(* Every variable keeps its type.                                          *)
(***************************************************************************)
THEOREM TypesHold == Spec => []TypeOK
<1>1. Core => TypeOK
      BY DEF Core
<1> QED BY <1>1, CoreHolds, PTL

(***************************************************************************)
(* A completed channel is a true one, whatever crashes, throws, fails, is  *)
(* handed out twice or is reported by providers at the same time           *)
(* (CompletedChannelsAreTrue).                                             *)
(***************************************************************************)
THEOREM CompletedRowsAreTrue == Spec => []CompletedChannelsAreTrue
<1>1. Core => CompletedChannelsAreTrue
      BY DEF Core, RowsInv, RowIsTrue, CompletedChannelsAreTrue
<1> QED BY <1>1, CoreHolds, PTL

-----------------------------------------------------------------------------
(***************************************************************************)
(* The steps of the service as steps of StatusLedger: an initial row that  *)
(* is committed opens the notification, a commit of an update is a report  *)
(* or changes no channel, and nothing else shows: a crash or a failure     *)
(* takes transactions away, but no row.                                    *)
(***************************************************************************)
LEMMA LedgerUnchanged ==
    ASSUME table' = table
    PROVE  UNCHANGED tableLedger
BY DEF tableLedger

\* Every step is a report, an opening, or invisible in the ledger.
LEMMA NextIsLedger == Core /\ [Next]_vars => [Ledger!LedgerNext]_tableLedger
<1> SUFFICES ASSUME Core, [Next]_vars
             PROVE  [Ledger!LedgerNext]_tableLedger
    OBVIOUS
<1>1. TransactionInv
      BY DEF Core, RowsInv
<1>2. ASSUME NEW id \in Ids, WriteInitialRow(id)
      PROVE  [Ledger!LedgerNext]_tableLedger
  <2>1. CASE CreateInitialStatus(id, ToSet(Request[id].channels))
        BY <1>1, <2>1, RequestFacts, CreateIsOpen
  <2>2. CASE UNCHANGED statusVars
        BY <2>2, LedgerUnchanged DEF statusVars
  <2> QED BY <1>2, <2>1, <2>2 DEF WriteInitialRow
<1>3. ASSUME NEW p \in Procs, UpdateCommit(p)
      PROVE  [Ledger!LedgerNext]_tableLedger
      BY <1>1, <1>3, CommitIsReport
<1>4. ASSUME NEW id \in Ids, Post(id) \/ Produce(id) \/ SendRecord(id)
      PROVE  UNCHANGED tableLedger
      BY <1>4, LedgerUnchanged DEF Post, Produce, SendRecord, statusVars
<1>5. ASSUME NEW w \in Workers, Receive(w) \/ Send(w) \/ SendThrows(w) \/ Acknowledge(w)
      PROVE  UNCHANGED tableLedger
      BY <1>5, LedgerUnchanged DEF Receive, Send, SendThrows, Acknowledge, statusVars
<1>6. ASSUME NEW w \in Workers, WorkerRead(w) \/ UpdateThrows(w) \/ ListenerThrows(w)
      PROVE  UNCHANGED tableLedger
      BY <1>6, LedgerUnchanged
         DEF WorkerRead, UpdateRead, UpdateThrows, ListenerThrows, UpdateFails, UpdateRollback,
             statusVars
<1>7. ASSUME NEW w \in Workers, GroupStep(w) \/ Crash(w)
      PROVE  UNCHANGED tableLedger
      BY <1>7, LedgerUnchanged
         DEF GroupStep, JoinGroup, CommitBatch, SessionEnds, Crash, statusVars
<1>8. ASSUME NEW h \in Hooks, HookStep(h), ~HookCommit(h)
      PROVE  UNCHANGED tableLedger
      BY <1>8, LedgerUnchanged
         DEF HookStep, HandleCallback, UpdateRead, HookFails, UpdateRollback
<1>9. CASE Rebalance \/ ForeignMessage \/ UNCHANGED vars
      BY <1>9, LedgerUnchanged DEF Rebalance, ForeignMessage, vars, statusVars
<1>10. ASSUME NEW w \in Workers, WorkerStep(w)
       PROVE  [Ledger!LedgerNext]_tableLedger
       BY <1>3, <1>5, <1>6, <1>10, ProcsAssumption DEF WorkerStep, WorkerCommit
<1>11. ASSUME NEW h \in Hooks, HookStep(h)
       PROVE  [Ledger!LedgerNext]_tableLedger
       BY <1>3, <1>8, <1>11, ProcsAssumption DEF HookCommit
<1>12. ASSUME NEW id \in Ids, Post(id) \/ ApiStep(id) \/ SendRecord(id)
       PROVE  [Ledger!LedgerNext]_tableLedger
       BY <1>2, <1>4, <1>12 DEF ApiStep
<1> QED BY <1>7, <1>9, <1>10, <1>11, <1>12 DEF Next

(***************************************************************************)
(* In the whole service, with its crashes, retries and callbacks, the      *)
(* tables hold what was reported last for each channel: each commit is one *)
(* report, whatever else has been committed since its transaction has read *)
(* (ImplementsLedger).                                                     *)
(***************************************************************************)
THEOREM ServiceImplementsLedger == Spec => ImplementsLedger
<1>1. Init => Ledger!LedgerInit
      BY InitTransactionInv DEF Init
<1> QED BY <1>1, CoreHolds, NextIsLedger, PTL DEF Spec, ImplementsLedger, Ledger!LedgerSpec

-----------------------------------------------------------------------------
(***************************************************************************)
(* Repetitions cost faults (AccountInv).  A session starts on a partition  *)
(* that a fault has freed, and a record is handed out again only after a   *)
(* fault.                                                                  *)
(***************************************************************************)
LEMMA ApiKeepsAccount ==
    ASSUME Core, AccountInv,
           \/ \E id \in Ids : Post(id) \/ ApiStep(id) \/ SendRecord(id)
           \/ \E h \in Hooks : HookStep(h)
           \/ ForeignMessage
           \/ UNCHANGED vars
    PROVE  AccountInv'
<1>1. faults \in Nat /\ TopicTypeOK
      BY FaultsAssumption DEF Core, TypeOK
<1>2. UNCHANGED <<worker, sends>>
      BY DEF Post, ApiStep, WriteInitialRow, Produce, SendRecord, HookStep, HandleCallback,
             HookCommit, HookFails, ForeignMessage, vars, serviceVars
<1>3. faults' = faults \/ faults' = faults + 1
      BY DEF Post, ApiStep, WriteInitialRow, Produce, SendRecord, HookStep, HandleCallback,
             HookCommit, HookFails, ForeignMessage, vars, serviceVars, NoFault, Fault
<1>4. UNCHANGED topicVars \/ \E m \in Ids \cup {Junk} : Append1(m) \/ Append2(m)
      BY DEF Post, ApiStep, WriteInitialRow, Produce, SendRecord, HookStep, HandleCallback,
             HookCommit, HookFails, ForeignMessage, vars
<1>5. LogKept /\ UNCHANGED <<owner, session, position>>
      BY <1>1, <1>4, AppendKeepsLog DEF groupVars
<1> QED BY <1>1, <1>2, <1>3, <1>5, AccountOffTheLoops

\* An update moves the loops on to a turn that nobody has taken yet.
LEMMA UpdateKeepsAccount ==
    ASSUME Core, AccountInv, NEW w \in Workers,
           WorkerRead(w) \/ WorkerCommit(w) \/ UpdateThrows(w) \/ SendThrows(w)
    PROVE  AccountInv'
<1>1. /\ faults \in Nat /\ TopicTypeOK
      /\ worker \in [Workers -> WorkerState]
      BY FaultsAssumption DEF Core, TypeOK
<1>2. /\ UNCHANGED <<log, owner, session, position, sends>>
      /\ faults' = faults \/ faults' = faults + 1
      /\ worker[w].pc \in {"processing", "send", "final", "catch"}
      BY DEF WorkerRead, WorkerCommit, UpdateThrows, UpdateFails, SendThrows, AtUpdate,
             NoFault, Fault, topicVars
<1>3. worker[w] \in WorkerState /\ Current(w) \in Ids
      BY <1>2, InRecordFacts
<1>4. CASE WorkerRead(w)
  <2>1. worker' = worker /\ LogKept
        BY <1>1, <1>2, <1>4 DEF WorkerRead, LogKept, TopicTypeOK
  <2> QED BY <1>1, <1>2, <2>1, AccountOffTheLoops
<1>5. CASE WorkerCommit(w)
  <2>1. /\ \A v \in Workers \ {w} : worker'[v] = worker[v]
        /\ worker'[w] = IF worker[w].pc = "processing" THEN Dispatch(w)
                        ELSE AtChannel(worker[w].ch + 1, Len(WorkerChannels(w)))
        BY <1>1, <1>5 DEF WorkerCommit
  <2>2. MovesOn(w) /\ worker'[w] \in WorkerState
    <3>1. CASE worker[w].pc = "processing"
          BY <1>3, <2>1, <3>1 DEF Dispatch, Caught, MovesOn, WorkerState, WorkerPcs
    <3>2. CASE worker[w].pc # "processing"
          BY <1>3, <2>1, <3>2 DEF AtChannel, MovesOn, WorkerState, WorkerPcs
    <3> QED BY <3>1, <3>2
  <2> QED BY <1>1, <1>2, <1>3, <2>2, AccountWhenMovingOn
<1>6. CASE UpdateThrows(w) \/ SendThrows(w)
  <2>1. /\ \A v \in Workers \ {w} : worker'[v] = worker[v]
        /\ worker'[w] = Caught(w) /\ worker[w].pc \in {"processing", "send", "final"}
        BY <1>1, <1>6 DEF UpdateThrows, SendThrows
  <2>2. MovesOn(w) /\ worker'[w] \in WorkerState
        BY <1>3, <2>1 DEF Caught, MovesOn, WorkerState, WorkerPcs
  <2> QED BY <1>1, <1>2, <1>3, <2>2, AccountWhenMovingOn
<1> QED BY <1>4, <1>5, <1>6

\* A listener that throws starts the record over: a new run, for one fault.
LEMMA ListenerThrowsKeepsAccount ==
    ASSUME Core, AccountInv, NEW w \in Workers, ListenerThrows(w)
    PROVE  AccountInv'
<1>1. /\ faults \in Nat /\ faults' \in Nat /\ TopicTypeOK
      /\ worker \in [Workers -> WorkerState] /\ faults' = faults + 1
      /\ sends' = sends /\ worker[w].pc = "catch"
      BY FaultsAssumption DEF Core, TypeOK, ListenerThrows, UpdateFails, Fault
<1>2. \A v \in Workers \ {w} : worker'[v] = worker[v]
      BY <1>1 DEF ListenerThrows
<1>3. CASE Attempts(w) < MaxAttempts
  <2>1. Redeliver(w)
        BY <1>3 DEF ListenerThrows
  <2> QED BY <1>1, <1>2, <2>1, AccountOfRedelivery
<1>4. CASE ~(Attempts(w) < MaxAttempts)
  <2>1. /\ UNCHANGED <<log, owner, session, position>>
        /\ worker' = [worker EXCEPT ![w] = AtChannel(1, 0)]
        BY <1>4 DEF ListenerThrows, topicVars
  <2>2. worker'[w] \in WorkerState /\ worker'[w].pc = "mark"
        BY <1>1, <2>1 DEF AtChannel, WorkerState, WorkerPcs
  <2>3. MovesOn(w) /\ worker[w] \in WorkerState
        BY <1>1, <1>2, <2>2 DEF MovesOn
  <2> QED BY <1>1, <2>1, <2>2, <2>3, AccountWhenMovingOn
<1> QED BY <1>3, <1>4

\* A contact is entered for the turn it was made in.
LEMMA SendKeepsAccount ==
    ASSUME Core, AccountInv, NEW w \in Workers, Send(w)
    PROVE  AccountInv'
<1>1. /\ faults \in Nat /\ TopicTypeOK
      /\ worker \in [Workers -> WorkerState] /\ sends \in [Deliveries -> Nat]
      BY FaultsAssumption DEF Core, TypeOK
<1>2. PICK id \in Ids : id = Current(w)
      BY InRecordFacts DEF Send
<1>3. AtTurn(w)
  <2>1. /\ session[w] /\ worker[w].rcp <= Len(Request[id].recipients)
        /\ worker[w] \in WorkerState /\ worker[w].pc = "send"
        /\ position[w] \in 1 .. Len(log)
        BY <1>2, InRecordFacts DEF Send, InRecord
  <2>2. worker[w].ch \in DOMAIN WorkerChannels(w)
    <3>1. worker[w].ch \in 1 .. Len(WorkerChannels(w))
          BY <2>1, InRecordFacts
    <3>2. Request[id].channels \in Seq(Channels)
          BY RequestAssumption DEF Requests
    <3> QED BY <1>2, <3>1, <3>2 DEF WorkerChannels
  <2>3. worker[w].rcp \in DOMAIN WorkerRecipients(w)
        BY <1>2, <2>1, RequestAssumption DEF WorkerRecipients, Requests, WorkerState
  <2> QED BY <1>2, <2>1, <2>2, <2>3 DEF AtTurn
<1>4. UNCHANGED topicVars /\ faults' = faults
      BY DEF Send, NoFault
<1>5. TurnTaken(w)
      BY <1>1 DEF Send, TurnTaken
<1>6. sends' = [sends EXCEPT ![<<Current(w), WorkerChannel(w),
                                 WorkerRecipients(w)[worker[w].rcp]>>] = @ + 1]
      BY DEF Send
<1> QED BY <1>1, <1>3, <1>4, <1>5, <1>6, AccountOfTurn

\* Every step keeps the account: a new run of a loop is paid for by a fault.
LEMMA NextKeepsAccount == Core /\ AccountInv /\ [Next]_vars => AccountInv'
<1> SUFFICES ASSUME Core, AccountInv, [Next]_vars
             PROVE  AccountInv'
    OBVIOUS
<1>1. /\ faults \in Nat /\ TopicTypeOK
      /\ worker \in [Workers -> WorkerState]
      BY FaultsAssumption DEF Core, TypeOK
<1>2. ASSUME NEW w \in Workers, Receive(w)
      PROVE  AccountInv'
  <2>1. /\ Deliver(w) /\ faults' = faults /\ sends' = sends
        /\ \A v \in Workers \ {w} : worker'[v] = worker[v]
        BY <1>1, <1>2 DEF Receive, NoFault
  <2> QED BY <1>1, <2>1, AccountOfDelivery
<1>3. ASSUME NEW w \in Workers, Acknowledge(w)
      PROVE  AccountInv'
  <2>1. /\ UNCHANGED <<log, owner, session, position, sends, faults>>
        /\ worker[w].pc = "mark" /\ worker'[w].pc = "wait"
        /\ \A v \in Workers \ {w} : worker'[v] = worker[v]
        BY <1>1, <1>3 DEF Acknowledge, Store, NoFault, Idle
  <2> QED BY <1>1, <2>1, AccountWhenDone
<1>4. ASSUME NEW w \in Workers, JoinGroup(w)
      PROVE  AccountInv'
  <2>1. Begin(w, "earliest") /\ Unstarted /\ owner' = w /\ UNCHANGED <<sends, faults, worker>>
        BY <1>4 DEF JoinGroup, Assign, Unstarted, serviceVars
  <2> QED BY <1>1, <2>1, AccountOfBegin
<1>5. ASSUME NEW w \in Workers, CommitBatch(w)
      PROVE  AccountInv'
  <2>1. /\ UNCHANGED <<owner, session, position, worker, sends>> /\ log' = log
        /\ faults' = faults
        BY <1>5 DEF CommitBatch, Commit, serviceVars
  <2>2. LogKept
        BY <1>1, <2>1 DEF LogKept, TopicTypeOK
  <2> QED BY <1>1, <2>1, <2>2, AccountOffTheLoops
<1>6. ASSUME NEW w \in Workers, SessionEnds(w)
      PROVE  AccountInv'
  <2>1. Close(w) /\ owner # w /\ owner' = owner /\ UNCHANGED <<sends, faults, worker>>
        BY <1>6 DEF SessionEnds, EndSession, serviceVars
  <2> QED BY <1>1, <2>1, AccountOfClose
<1>7. ASSUME NEW w \in Workers, Crash(w)
      PROVE  AccountInv'
  <2>1. /\ Close(w) /\ sends' = sends /\ faults' = faults + 1
        /\ \A v \in Workers \ {w} : worker'[v] = worker[v]
        BY <1>1, <1>7 DEF Crash, Leave, Fault
  <2> QED BY <1>1, <2>1, AccountOfClose
<1>8. CASE Rebalance
  <2>1. Revoke /\ faults' = faults + 1 /\ UNCHANGED <<sends, worker>>
        BY <1>8 DEF Rebalance, Fault
  <2> QED BY <1>1, <2>1, AccountOfRevoke
<1>9. ASSUME NEW w \in Workers, WorkerStep(w)
      PROVE  AccountInv'
      BY <1>2, <1>3, <1>9, UpdateKeepsAccount, ListenerThrowsKeepsAccount, SendKeepsAccount
         DEF WorkerStep
<1>10. ASSUME NEW w \in Workers, GroupStep(w)
       PROVE  AccountInv'
       BY <1>4, <1>5, <1>6, <1>10 DEF GroupStep
<1> QED BY <1>7, <1>8, <1>9, <1>10, ApiKeepsAccount DEF Next

(***************************************************************************)
(* No recipient is contacted more often than the request says, but for one *)
(* more time per fault, although the container hands a record out again    *)
(* after the listener has sent part of it (RepeatsNeedFaults).             *)
(***************************************************************************)
THEOREM RepeatsCostFaults == Spec => []RepeatsNeedFaults
<1>1. Init => AccountInv
      BY AccountBegins DEF Init
<1>2. Core /\ AccountInv => RepeatsNeedFaults
      BY AccountBoundsRepeats, FaultsAssumption DEF Core, TypeOK
<1> QED BY <1>1, <1>2, CoreHolds, NextKeepsAccount, PTL DEF Spec

-----------------------------------------------------------------------------
(***************************************************************************)
(* Nobody disturbs the owner of the partition: no provider has called      *)
(* back, and no listener has lost its partition without dying, as before   *)
(* the first fault, or where the broker takes no partition away.           *)
(***************************************************************************)
Undisturbed == (faults = 0 \/ "rebalance" \notin FaultKinds) /\ receipts = {}

\* The transaction of w is the update w's listener is at, of the row as it is.
UpdatesRow(w) ==
    LET id == Current(w)
    IN  call[w] # None =>
            /\ call[w].id = id /\ call[w].old = table[id]
            /\ call[w].new = WithChannel(table[id], WorkerChannel(w), StatusToReport(w))

Orderly ==
    /\ \A w \in Workers : session[w] => owner = w
    /\ \A w \in Workers : UpdatesRow(w)
    /\ RowsConsistent

OrderlyInv == Undisturbed => Orderly

(***************************************************************************)
(* An entity that has just been changed in memory is consistent, as its    *)
(* overall status is computed from the map stored with it (WithChannel).   *)
(***************************************************************************)
LEMMA WithChannelConsistent ==
    ASSUME NEW row \in Row, NEW c \in Channels, NEW s \in WorkerStatuses \cup Receipts
    PROVE  Consistent(WithChannel(row, c, s))
<1> DEFINE m == [row.channels EXCEPT ![c] = s]
<1>1. m \in ChannelMaps /\ m[c] # "ABSENT"
      BY ReceiptsAssumption DEF Row, ChannelMaps, ChannelStatuses, WorkerStatuses
<1>2. WithChannel(row, c, s) = [status |-> Aggregate(m, Completed, Failed), channels |-> m]
      BY DEF WithChannel, Overall
<1> HIDE DEF m
<1> QED BY <1>1, <1>2, AggregatedRowIsConsistent DEF Consistent

(***************************************************************************)
(* The flush of an entity on top of the row it was read from writes the    *)
(* entity.                                                                 *)
(***************************************************************************)
LEMMA FlushOfReadRow ==
    ASSUME NEW old \in Row, NEW new \in Row
    PROVE  Flush(old, new, old) = new
<1>1. Flush(old, new, old).status = new.status
      BY DEF Flush
<1>2. new.channels \in [Channels -> ChannelStatuses]
      BY DEF Row, ChannelMaps
<1>3. Flush(old, new, old).channels = [c \in Channels |-> new.channels[c]]
      BY DEF Flush
<1>4. Flush(old, new, old).channels = new.channels
      BY <1>2, <1>3
<1>5. \A x \in Row : x = [status |-> x.status, channels |-> x.channels]
      BY DEF Row
<1>6. Flush(old, new, old) = [status   |-> Flush(old, new, old).status,
                              channels |-> Flush(old, new, old).channels]
      BY DEF Flush
<1> QED BY <1>1, <1>4, <1>5, <1>6

(***************************************************************************)
(* While one loop has the partition, the others have nothing in hand.      *)
(***************************************************************************)
LEMMA OneLoop ==
    ASSUME Core, Orderly, NEW w \in Workers, owner = w \/ session[w]
    PROVE  /\ owner = w
           /\ \A v \in Workers \ {w} :
                  ~session[v] /\ worker[v].pc = "wait" /\ call[v] = None
<1>1. owner = w /\ \A v \in Workers \ {w} : ~session[v]
      BY DEF Orderly
<1> QED BY <1>1, NoSessionIsIdle

\* A transaction that goes on, on a row that nobody writes.
LEMMA UpdatesRowKept ==
    ASSUME Core, Grows, NEW v \in Workers, UpdatesRow(v),
           call'[v] = call[v] \/ call'[v] = None,
           position'[v] = position[v], worker'[v] = worker[v],
           \A id \in Ids : table[id] # None => table'[id] = table[id]
    PROVE  UpdatesRow(v)'
<1> SUFFICES ASSUME call'[v] # None, call[v] # None, call'[v] = call[v]
             PROVE  UpdatesRow(v)'
    BY DEF UpdatesRow
<1>1. worker[v].pc # "wait"
      BY DEF Core, ListenerInv, AtUpdate
<1>2. PICK id \in Ids : /\ id = Current(v) /\ Logged(id)
                        /\ position[v] \in 1 .. Len(log) /\ log[position[v]] = id
      BY <1>1, InRecordFacts
<1>3. Current(v)' = id
      BY <1>2 DEF Current, Grows
<1>4. table[id] # None /\ table'[id] = table[id]
      BY <1>2 DEF Core, ApiInv
<1>5. WorkerChannel(v)' = WorkerChannel(v) /\ StatusToReport(v)' = StatusToReport(v)
      BY <1>2, <1>3 DEF WorkerChannel, WorkerChannels, StatusToReport
<1> QED BY <1>2, <1>3, <1>4, <1>5 DEF UpdatesRow

\* A step that writes no row and starts no loop.
LEMMA OrderlyKept ==
    ASSUME Core, Grows, Orderly, table' = table, NEW w \in Workers, UpdatesRow(w)',
           \A v \in Workers : session'[v] => session[v] /\ owner' = owner,
           \A v \in Workers \ {w} : /\ call'[v] = call[v] \/ call'[v] = None
                                    /\ position'[v] = position[v] /\ worker'[v] = worker[v]
    PROVE  Orderly'
<1>1. RowsConsistent'
      BY DEF Orderly, RowsConsistent, Consistent
<1>2. \A v \in Workers : UpdatesRow(v)'
      BY UpdatesRowKept DEF Orderly
<1> QED BY <1>1, <1>2 DEF Orderly

\* A step that changes no row, no offset and opens no transaction.
LEMMA OrderlyInPlace ==
    ASSUME Core, Grows, Orderly, UNCHANGED <<table, session, owner>>,
           \A v \in Workers : /\ call'[v] = call[v] \/ call'[v] = None
                              /\ position'[v] = position[v] /\ worker'[v] = worker[v]
    PROVE  Orderly'
<1>1. RowsConsistent'
      BY DEF Orderly, RowsConsistent, Consistent
<1>2. \A v \in Workers : UpdatesRow(v)'
      BY UpdatesRowKept DEF Orderly
<1> QED BY <1>1, <1>2 DEF Orderly

(***************************************************************************)
(* A commit puts in the place of the row what was computed from it, as the *)
(* transaction has read the row that is still there.                       *)
(***************************************************************************)
LEMMA CommittedRow ==
    ASSUME Core, Orderly, NEW w \in Workers, WorkerCommit(w)
    PROVE  \E id \in Ids, row \in Row, c \in Channels, s \in WorkerStatuses :
               /\ id = Current(w) /\ c = WorkerChannel(w) /\ s = StatusToReport(w)
               /\ table[id] = row
               /\ table' = [table EXCEPT ![id] = WithChannel(row, c, s)]
<1>1. UpdateCommit(w) /\ AtUpdate(w) /\ call[w] # None /\ w \in Procs
      BY ProcsAssumption DEF WorkerCommit, UpdateCommit
<1>2. PICK v \in Call : v = call[w]
      BY <1>1 DEF Core, RowsInv, TransactionInv, StatusTypeOK
<1>3. PICK c \in Channels, s \in WorkerStatuses : c = WorkerChannel(w) /\ s = StatusToReport(w)
      BY <1>1, InRecordFacts DEF AtUpdate, StatusToReport, WorkerStatuses
<1>4. PICK id \in Ids, row \in Row, new \in Row :
          /\ id = v.id /\ row = v.old /\ new = v.new /\ id = Current(w) /\ row = table[id]
          /\ new = WithChannel(row, c, s)
      BY <1>1, <1>2, <1>3 DEF Call, Orderly, UpdatesRow
<1>5. Flush(v.old, v.new, table[v.id]) = new
      BY <1>4, FlushOfReadRow
<1>6. table' = [table EXCEPT ![id] = WithChannel(row, c, s)]
      BY <1>1, <1>2, <1>4, <1>5 DEF UpdateCommit
<1> QED BY <1>3, <1>4, <1>6

(***************************************************************************)
(* The steps that write a row: the first of a notification, and a commit,  *)
(* which puts in place of the row what was computed from it.               *)
(***************************************************************************)
LEMMA CreateKeepsOrderly ==
    ASSUME Core, Orderly, NEW id \in Ids, WriteInitialRow(id)
    PROVE  Orderly'
<1>1. Grows
      BY GrowsInPlace DEF WriteInitialRow, Core, TypeOK, topicVars
<1>2. CASE UNCHANGED statusVars
      BY <1>1, <1>2, OrderlyInPlace DEF WriteInitialRow, topicVars, statusVars
<1>3. CASE CreateInitialStatus(id, ToSet(Request[id].channels))
  <2>1. PICK row \in Row : row = InitialRow(ToSet(Request[id].channels)) /\ Consistent(row)
        BY RequestFacts, InitialRowIsConsistent DEF Consistent
  <2>2. table' = [table EXCEPT ![id] = row] /\ call' = call /\ table[id] = None
        BY <1>3, <2>1 DEF CreateInitialStatus
  <2>3. table'[id] = row /\ \A i \in Ids \ {id} : table'[i] = table[i]
        BY <2>2 DEF Core, RowsInv, TransactionInv, StatusTypeOK
  <2>4. \A i \in Ids : table'[i] # None => Consistent(table[i])'
        BY <2>1, <2>3 DEF Orderly, RowsConsistent, Consistent
  <2>5. \A v \in Workers : UpdatesRow(v)'
        BY <1>1, <2>2, <2>3, UpdatesRowKept DEF Orderly, WriteInitialRow, topicVars
  <2> QED BY <2>4, <2>5 DEF Orderly, RowsConsistent, WriteInitialRow, topicVars
<1> QED BY <1>2, <1>3 DEF WriteInitialRow

\* The owner's commit puts the new row in the place of the row it was made of.
LEMMA CommitKeepsOrderly ==
    ASSUME Core, Orderly, NEW w \in Workers, WorkerCommit(w)
    PROVE  Orderly'
<1>1. /\ UpdateCommit(w) /\ AtUpdate(w) /\ w \in Procs
      /\ UNCHANGED <<session, owner>>
      BY ProcsAssumption DEF WorkerCommit, topicVars
<1>2. PICK id \in Ids, row \in Row, c \in Channels, s \in WorkerStatuses :
          /\ id = Current(w) /\ c = WorkerChannel(w) /\ s = StatusToReport(w)
          /\ table[id] = row
          /\ table' = [table EXCEPT ![id] = WithChannel(row, c, s)]
      BY CommittedRow
<1>3. PICK new : new = WithChannel(row, c, s) /\ Consistent(new)
      BY WithChannelConsistent
<1>4. /\ table'[id] = new /\ \A i \in Ids \ {id} : table'[i] = table[i]
      /\ call'[w] = None /\ \A p \in Procs \ {w} : call'[p] = call[p]
      BY <1>1, <1>2, <1>3 DEF UpdateCommit, Core, RowsInv, TransactionInv, StatusTypeOK
<1>5. \A i \in Ids : table'[i] # None => Consistent(table[i])'
      BY <1>3, <1>4 DEF Orderly, RowsConsistent, Consistent
<1>6. \A u \in Workers : call'[u] = None
  <2>1. session[w]
        BY <1>1, NoSessionIsIdle DEF AtUpdate
  <2> QED BY <1>4, <2>1, OneLoop, ProcsAssumption
<1> QED BY <1>1, <1>5, <1>6 DEF Orderly, RowsConsistent, UpdatesRow

(***************************************************************************)
(* The other steps of a listener: it reads the row that it is to update,   *)
(* or has no transaction afterwards.                                       *)
(***************************************************************************)
LEMMA ListenerKeepsOrderly ==
    ASSUME Core, Orderly, NEW w \in Workers,
           \/ WorkerRead(w) \/ UpdateThrows(w) \/ ListenerThrows(w)
           \/ Receive(w) \/ Send(w) \/ SendThrows(w) \/ Acknowledge(w)
    PROVE  Orderly'
<1>1. w \in Procs /\ call \in [Procs -> Call \cup {None}] /\ worker \in [Workers -> WorkerState]
      BY ProcsAssumption DEF Core, TypeOK, RowsInv, TransactionInv, StatusTypeOK
<1>2. CASE WorkerRead(w)
  <2>1. Grows
        BY <1>2, GrowsInPlace DEF WorkerRead, Core, TypeOK, topicVars
  <2>2. PICK row : row = WithChannel(table[Current(w)], WorkerChannel(w), StatusToReport(w))
        OBVIOUS
  <2>3. /\ call' = [call EXCEPT ![w] = [id |-> Current(w), old |-> table[Current(w)], new |-> row]]
        /\ UNCHANGED <<table, worker, position, session, owner, log>>
        BY <1>2, <2>2 DEF WorkerRead, UpdateRead, topicVars
  <2>4. call'[w] = [id |-> Current(w), old |-> table[Current(w)], new |-> row]
        BY <1>1, <2>3
  <2>5. /\ Current(w)' = Current(w) /\ WorkerChannel(w)' = WorkerChannel(w)
        /\ StatusToReport(w)' = StatusToReport(w)
        BY <2>3 DEF Current, WorkerChannel, WorkerChannels, StatusToReport
  <2>6. UpdatesRow(w)'
        BY <2>2, <2>3, <2>4, <2>5 DEF UpdatesRow
  <2>7. \A v \in Workers \ {w} : call'[v] = call[v]
        BY <1>1, <2>3, ProcsAssumption
  <2> QED BY <2>1, <2>3, <2>6, <2>7, OrderlyKept
<1>3. CASE UpdateThrows(w) \/ ListenerThrows(w)
  <2>1. Grows /\ log' = log /\ UpdateFails(w)
        BY <1>3, GrowsInPlace
           DEF UpdateThrows, ListenerThrows, UpdateFails, Redeliver, Core, TypeOK, topicVars
  <2>2. /\ table' = table /\ call'[w] = None /\ \A p \in Procs \ {w} : call'[p] = call[p]
        BY <2>1, FailedUpdateKeepsRows
  <2>3. /\ UNCHANGED <<session, owner>>
        /\ \A v \in Workers \ {w} : position'[v] = position[v] /\ worker'[v] = worker[v]
        BY <1>1, <1>3 DEF UpdateThrows, ListenerThrows, Redeliver, topicVars, Core, TypeOK, TopicTypeOK
  <2>4. UpdatesRow(w)'
        BY <2>2 DEF UpdatesRow
  <2> QED BY <2>1, <2>2, <2>3, <2>4, OrderlyKept, ProcsAssumption
<1>4. CASE Receive(w) \/ Send(w) \/ SendThrows(w) \/ Acknowledge(w)
  <2>1. Grows
        BY <1>4, SendKeepsCore, GrowsInPlace
           DEF Receive, Deliver, SendThrows, Acknowledge, Store, Core, TypeOK, topicVars
  <2>2. call[w] = None
        BY <1>4 DEF Core, ListenerInv, Receive, Send, SendThrows, Acknowledge, AtUpdate
  <2>3. /\ UNCHANGED <<session, owner, call, table>>
        /\ \A v \in Workers \ {w} : position'[v] = position[v] /\ worker'[v] = worker[v]
        BY <1>1, <1>4
           DEF Receive, Deliver, Send, SendThrows, Acknowledge, Store, topicVars, statusVars,
               Core, TypeOK, TopicTypeOK
  <2>4. UpdatesRow(w)'
        BY <2>2, <2>3 DEF UpdatesRow
  <2> QED BY <2>1, <2>3, <2>4, OrderlyKept
<1> QED BY <1>2, <1>3, <1>4

(***************************************************************************)
(* The steps of the group: a loop starts on a partition without an owner,  *)
(* when no other runs; one that ends frees the partition.                  *)
(***************************************************************************)
LEMMA GroupKeepsOrderly ==
    ASSUME Core, Orderly, NEW w \in Workers, GroupStep(w) \/ Crash(w)
    PROVE  Orderly'
<1>1. TopicTypeOK /\ Grows
      BY GrowsInPlace
         DEF GroupStep, JoinGroup, Assign, Begin, CommitBatch, Commit, SessionEnds, EndSession,
             Crash, Leave, Close, serviceVars, Core, TypeOK
<1>2. CASE JoinGroup(w)
  <2>1. /\ Begin(w, "earliest") /\ owner = Nobody /\ owner' = w
        /\ UNCHANGED <<table, call, worker>>
        BY <1>2 DEF JoinGroup, Assign, statusVars, serviceVars
  <2>2. \A v \in Workers : ~session[v]
        BY <2>1, NobodyAssumption DEF Orderly
  <2>3. \A v \in Workers \ {w} : session'[v] = session[v]
        BY <1>1, <2>1 DEF Begin, TopicTypeOK
  <2>4. \A v \in Workers : UpdatesRow(v)'
        BY <2>1, <2>2, NoSessionIsIdle DEF UpdatesRow
  <2> QED BY <2>1, <2>2, <2>3, <2>4 DEF Orderly, RowsConsistent, Consistent
<1>3. CASE CommitBatch(w)
      BY <1>1, <1>3, OrderlyInPlace DEF CommitBatch, Commit, statusVars, serviceVars
<1>4. CASE SessionEnds(w) \/ Crash(w)
  <2>1. Close(w) /\ table' = table
        BY <1>4 DEF SessionEnds, EndSession, Crash, Leave, statusVars
  <2>2. \A v \in Workers \ {w} : /\ session'[v] = session[v] /\ position'[v] = position[v]
                                 /\ worker'[v] = worker[v]
        BY <1>1, <1>4, <2>1 DEF Close, SessionEnds, Crash, serviceVars, TopicTypeOK, Core, TypeOK
  <2>3. ~session'[w]
        BY <1>1, <2>1 DEF Close, TopicTypeOK
  <2>4. \A v \in Workers : session'[v] => session[v] /\ owner' = owner
        BY <1>4, <2>2, <2>3 DEF Orderly, SessionEnds, EndSession, Crash, Leave
  <2>5. call'[w] = None
    <3>1. CASE SessionEnds(w)
          BY <3>1 DEF SessionEnds, Core, ListenerInv, AtUpdate, statusVars
    <3>2. CASE Crash(w)
          BY <3>2, CrashKeepsCore
    <3> QED BY <1>4, <3>1, <3>2
  <2>6. \A v \in Workers : call'[v] = call[v] \/ call'[v] = None
        BY <1>4, ProcsAssumption DEF SessionEnds, Crash, statusVars
  <2>7. UpdatesRow(w)'
        BY <2>5 DEF UpdatesRow
  <2> QED BY <1>1, <2>1, <2>2, <2>4, <2>6, <2>7, OrderlyKept
<1> QED BY <1>2, <1>3, <1>4 DEF GroupStep

\* Receipts and faults are never taken back.
LEMMA ReceiptsStay ==
    ASSUME [Next]_vars
    PROVE  receipts \subseteq receipts'
BY DEF Next, Post, ApiStep, WriteInitialRow, Produce, SendRecord, WorkerStep, Receive,
       WorkerRead, WorkerCommit, UpdateThrows, ListenerThrows, UpdateFails, Send, SendThrows,
       Acknowledge, GroupStep, JoinGroup, CommitBatch, SessionEnds, Crash, HookStep,
       HandleCallback, HookCommit, HookFails, Rebalance, ForeignMessage, vars, serviceVars

\* Faults are only ever counted up.
LEMMA FaultsStay ==
    ASSUME Core, [Next]_vars
    PROVE  faults \in Nat /\ faults' \in Nat /\ faults <= faults'
<1>1. faults' = faults \/ faults' = faults + 1
      BY DEF Next, Post, ApiStep, WriteInitialRow, Produce, SendRecord, WorkerStep, Receive,
             WorkerRead, WorkerCommit, UpdateThrows, ListenerThrows, UpdateFails, Send, SendThrows,
             Acknowledge, GroupStep, JoinGroup, CommitBatch, SessionEnds, Crash, HookStep,
             HandleCallback, HookCommit, HookFails, Rebalance, ForeignMessage, Fault, NoFault,
             vars, serviceVars
<1> QED BY <1>1, FaultsAssumption DEF Core, TypeOK

\* A rebalance counts as a fault.
LEMMA NoRebalance ==
    ASSUME Core, faults' = 0 \/ "rebalance" \notin FaultKinds
    PROVE  ~Fault("rebalance")
BY FaultsAssumption DEF Core, TypeOK, Fault

\* Without callbacks the webhook is at rest.
LEMMA HooksAtRest ==
    ASSUME Core, receipts = {}, receipts' = {}, NEW h \in Hooks
    PROVE  ~HookStep(h)
<1>1. call[h] = None
      BY DEF Core
<1> QED BY <1>1
        DEF HookStep, HandleCallback, HookCommit, HookFails, UpdateCommit, UpdateRollback

\* Every step keeps Orderly, as long as nobody disturbs the owner.
LEMMA NextKeepsOrderly == Core /\ OrderlyInv /\ [Next]_vars => OrderlyInv'
<1> SUFFICES ASSUME Core, OrderlyInv, [Next]_vars, Undisturbed'
             PROVE  Orderly'
    BY DEF OrderlyInv
<1>1. receipts \subseteq receipts'
      BY ReceiptsStay
<1>2. Orderly /\ receipts' = {} /\ receipts = {}
      BY <1>1, FaultsStay DEF Undisturbed, OrderlyInv
<1>3. ASSUME NEW id \in Ids, Post(id) \/ Produce(id) \/ SendRecord(id)
      PROVE  Orderly'
  <2>1. Grows
        BY <1>3, GrowsInPlace, GrowsByAppend
           DEF Post, Produce, SendRecord, Core, TypeOK, topicVars
  <2> QED BY <1>2, <1>3, <2>1, OrderlyInPlace
          DEF Post, Produce, SendRecord, Append1, groupVars, topicVars, statusVars
<1>4. CASE ForeignMessage
  <2>1. Grows
        BY <1>4, GrowsByAppend DEF ForeignMessage, Core, TypeOK
  <2> QED BY <1>2, <1>4, <2>1, OrderlyInPlace DEF ForeignMessage, Append1, groupVars, statusVars
<1>5. CASE UNCHANGED vars
  <2>1. Grows
        BY <1>5, GrowsInPlace DEF Core, TypeOK, vars, topicVars, serviceVars
  <2> QED BY <1>2, <1>5, <2>1, OrderlyInPlace DEF vars, topicVars, serviceVars, statusVars
<1>6. ~Rebalance
      BY NoRebalance DEF Undisturbed, Rebalance
<1>7. \A h \in Hooks : ~HookStep(h)
      BY <1>2, HooksAtRest
<1>8. ASSUME NEW w \in Workers, WorkerStep(w)
      PROVE  Orderly'
      BY <1>2, <1>8, CommitKeepsOrderly, ListenerKeepsOrderly DEF WorkerStep
<1>9. ASSUME NEW w \in Workers, GroupStep(w) \/ Crash(w)
      PROVE  Orderly'
      BY <1>2, <1>9, GroupKeepsOrderly
<1>10. ASSUME NEW id \in Ids, Post(id) \/ ApiStep(id) \/ SendRecord(id)
       PROVE  Orderly'
       BY <1>2, <1>3, <1>10, CreateKeepsOrderly DEF ApiStep
<1> QED BY <1>4, <1>5, <1>6, <1>7, <1>8, <1>9, <1>10 DEF Next

\* OrderlyInv is an invariant of the JVM service.
LEMMA OrderlyHolds == Spec => []OrderlyInv
<1>1. Init => OrderlyInv
      BY ProcsAssumption
         DEF Init, StatusInit, TopicInit, OrderlyInv, Orderly, UpdatesRow, RowsConsistent
<1> QED BY <1>1, CoreHolds, NextKeepsOrderly, PTL DEF Spec

(***************************************************************************)
(* As long as no provider calls back and no listener outlives its          *)
(* partition, no row a client polls contradicts itself: the flush puts     *)
(* what was computed from a row in the place of that row, whatever crashes *)
(* and fails in between (RowsConsistent).                                  *)
(***************************************************************************)
THEOREM ServiceRowsStayConsistent == Spec => [](Undisturbed => RowsConsistent)
<1>1. OrderlyInv => (Undisturbed => RowsConsistent)
      BY DEF OrderlyInv, Orderly
<1> QED BY <1>1, OrderlyHolds, PTL

(***************************************************************************)
(* ... and /metrics counts exactly (MetricsExact).                         *)
(***************************************************************************)
THEOREM ServiceMetricsStayExact == Spec => [](Undisturbed => MetricsExact)
<1>1. Core /\ OrderlyInv => (Undisturbed => MetricsExact)
  <2> SUFFICES ASSUME Core, RowsConsistent
               PROVE  MetricsExact
      BY DEF OrderlyInv, Orderly
  <2>1. table \in [Ids -> Row \cup {None}]
        BY DEF Core, RowsInv, TransactionInv, StatusTypeOK
  <2>2. Completed \cap OverallStatuses = {"COMPLETED"} /\ "PENDING" \notin Completed
        BY DEF Completed, OverallStatuses
  <2>3. \A id \in Ids : table[id] # None => RowConsistent(table[id], Completed, Failed)
        BY DEF RowsConsistent, Consistent
  <2> QED BY <2>1, <2>2, <2>3, ConsistentRowsCount DEF MetricsExact, GetMetrics
<1> QED BY <1>1, CoreHolds, OrderlyHolds, PTL

-----------------------------------------------------------------------------
(***************************************************************************)
(* What the rows show of losses.  What is not delivered over channel c of  *)
(* id is shown as FAILED, and that for every channel of the k-th record.   *)
(***************************************************************************)
Shown(id, c) ==
    \A t \in Owed[id] : t[2] = c => t \in Sent \/ table[id].channels[c] = "FAILED"

RecordShown(k) == log[k] # Junk => \A c \in Channels : Shown(log[k], c)

(***************************************************************************)
(* Of the record in hand, the channels done with are shown, but for the    *)
(* one that is being worked on, which the request may have named before.   *)
(***************************************************************************)
ChannelsShown(w) ==
    LET id  == Current(w)
        chs == Request[id].channels
    IN  \A i \in 1 .. Len(chs) : i < worker[w].ch \/ worker[w].pc = "mark" =>
            \/ Shown(id, chs[i])
            \/ worker[w].pc # "mark" /\ chs[i] = chs[worker[w].ch]

\* Of the records up to where w is, those done with are shown, and none of the
\* others has been stored or committed.
ListenerShows(w) ==
    session[w] =>
        /\ stored[w] <= position[w] /\ committed <= position[w]
        /\ \A k \in 1 .. position[w] :
               k < position[w] \/ worker[w].pc = "wait" => RecordShown(k)
        /\ worker[w].pc # "wait" =>
               stored[w] < position[w] /\ committed < position[w] /\ ChannelsShown(w)

Shows ==
    /\ \A k \in 1 .. committed : RecordShown(k)
    /\ \A w \in Workers : ListenerShows(w)

ShownInv == Undisturbed /\ faults < MaxAttempts => Shows

(***************************************************************************)
(* What is shown stays so while nobody writes the entry of the channel.    *)
(***************************************************************************)
LEMMA ChannelStaysShown ==
    ASSUME Grows, NEW id, NEW c, Shown(id, c),
           table'[id].channels[c] = table[id].channels[c]
    PROVE  Shown(id, c)'
BY DEF Shown, Grows

\* A record whose row stays as it is shows what it showed.
LEMMA RecordStaysShown ==
    ASSUME Grows, NEW k \in 1 .. Len(log), RecordShown(k),
           log[k] # Junk => table'[log[k]] = table[log[k]]
    PROVE  RecordShown(k)'
<1>1. log'[k] = log[k]
      BY DEF Grows
<1>2. PICK id : id = log[k]
      OBVIOUS
<1> SUFFICES ASSUME id # Junk, NEW c \in Channels
             PROVE  Shown(id, c)'
    BY <1>1, <1>2 DEF RecordShown
<1>3. Shown(id, c) /\ table'[id] = table[id]
      BY <1>2 DEF RecordShown
<1> QED BY <1>3, ChannelStaysShown

LEMMA RecordsStayShown ==
    ASSUME Core, Grows, \A id \in Ids : Logged(id) => table'[id] = table[id],
           NEW k \in 1 .. Len(log), RecordShown(k)
    PROVE  RecordShown(k)'
<1>1. log[k] # Junk => log[k] \in Ids /\ Logged(log[k])
      BY KeysAssumption DEF Core, TypeOK, TopicTypeOK, Logged
<1> QED BY <1>1, RecordStaysShown

\* The channels of the record of a listener that does not move.
LEMMA ChannelsStayShown ==
    ASSUME Core, Grows, \A id \in Ids : Logged(id) => table'[id] = table[id],
           NEW w \in Workers, worker[w].pc # "wait", ChannelsShown(w),
           position'[w] = position[w], worker'[w].ch = worker[w].ch,
           worker[w].pc = "mark" <=> worker'[w].pc = "mark"
    PROVE  ChannelsShown(w)'
<1>1. PICK id \in Ids : /\ id = Current(w) /\ Logged(id)
                        /\ position[w] \in 1 .. Len(log) /\ log[position[w]] = id
      BY InRecordFacts
<1>2. Current(w)' = id /\ table'[id] = table[id]
      BY <1>1 DEF Current, Grows
<1>3. \A c : Shown(id, c) => Shown(id, c)'
      BY <1>2, ChannelStaysShown
<1> QED BY <1>1, <1>2, <1>3 DEF ChannelsShown

(***************************************************************************)
(* A step that writes no row of a record and commits nothing keeps all of  *)
(* it, except for the listener that moves.                                 *)
(***************************************************************************)
LEMMA ShowsKept ==
    ASSUME Core, Grows, Shows, committed' = committed,
           \A id \in Ids : Logged(id) => table'[id] = table[id],
           NEW W \in SUBSET Workers, \A w \in W : ListenerShows(w)',
           \A v \in Workers \ W : SameSession(v) /\ worker'[v] = worker[v]
    PROVE  Shows'
<1>1. committed \in -1 .. Len(log) /\ Len(log) \in Nat
      BY DEF Core, TypeOK, TopicTypeOK
<1>2. \A k \in 1 .. Len(log) : RecordShown(k) => RecordShown(k)'
      BY RecordsStayShown
<1>3. \A k \in 1 .. committed : RecordShown(k)'
      BY <1>1, <1>2 DEF Shows
<1>4. ASSUME NEW v \in Workers \ W, session[v]
      PROVE  ListenerShows(v)'
  <2>1. /\ session'[v] = session[v] /\ position'[v] = position[v] /\ stored'[v] = stored[v]
        /\ worker'[v] = worker[v] /\ position[v] \in 0 .. Len(log)
        BY DEF SameSession, Core, TypeOK, TopicTypeOK
  <2>2. ListenerShows(v)
        BY DEF Shows
  <2>3. \A k \in 1 .. position[v] : k \in 1 .. Len(log)
        BY <1>1, <2>1
  <2>4. \A k \in 1 .. position[v] :
            k < position[v] \/ worker[v].pc = "wait" => RecordShown(k)'
        BY <1>2, <1>4, <2>2, <2>3 DEF ListenerShows
  <2>5. worker[v].pc # "wait" => ChannelsShown(v)'
        BY <1>4, <2>1, <2>2, ChannelsStayShown DEF ListenerShows
  <2> QED BY <1>4, <2>1, <2>2, <2>4, <2>5 DEF ListenerShows
<1>5. ASSUME NEW v \in Workers \ W, ~session[v]
      PROVE  ListenerShows(v)'
      BY <1>5 DEF SameSession, ListenerShows
<1> QED BY <1>3, <1>4, <1>5 DEF Shows

\* A step of one listener that changes no row: the others show what they showed.
LEMMA OneKeepsShows ==
    ASSUME Core, Grows, Shows, committed' = committed, table' = table,
           NEW w \in Workers, ListenerShows(w)',
           \A v \in Workers \ {w} : SameSession(v) /\ worker'[v] = worker[v]
    PROVE  Shows'
<1>1. PICK W \in SUBSET Workers : W = {w}
      OBVIOUS
<1>2. \A v \in W : ListenerShows(v)'
      BY <1>1
<1>3. \A v \in Workers \ W : SameSession(v) /\ worker'[v] = worker[v]
      BY <1>1
<1> QED BY <1>2, <1>3, ShowsKept

(***************************************************************************)
(* The commit of an update: PROCESSING may hide what was shown of this     *)
(* channel, COMPLETED comes after all sends, and FAILED shows it again.    *)
(***************************************************************************)
LEMMA CommitKeepsShows ==
    ASSUME Core, Orderly, Shows, NEW w \in Workers, WorkerCommit(w)
    PROVE  Shows'
<1>1. /\ UpdateCommit(w) /\ AtUpdate(w) /\ call[w] # None /\ w \in Procs
      /\ UNCHANGED <<log, committed, session, position, stored>>
      BY ProcsAssumption DEF WorkerCommit, UpdateCommit, topicVars
<1>2. Grows
      BY GrowsInPlace DEF WorkerCommit, Core, TypeOK, topicVars
<1>3. PICK id \in Ids : /\ id = Current(w) /\ Logged(id) /\ InRecord(w)
                        /\ position[w] \in 1 .. Len(log) /\ log[position[w]] = id
      BY <1>1, InRecordFacts DEF AtUpdate
<1>4. PICK old \in Row, c \in Channels, s \in WorkerStatuses :
          /\ c = WorkerChannel(w) /\ s = StatusToReport(w)
          /\ table[id] = old
          /\ table' = [table EXCEPT ![id] = WithChannel(old, c, s)]
      BY <1>3, CommittedRow
<1>5. PICK new : new = WithChannel(old, c, s)
      OBVIOUS
<1>6. table'[id] = new /\ \A i \in Ids \ {id} : table'[i] = table[i]
      BY <1>4, <1>5 DEF Core, RowsInv, TransactionInv, StatusTypeOK
<1>7. new.channels[c] = s /\ \A d \in Channels \ {c} : new.channels[d] = table[id].channels[d]
      BY <1>4, <1>5 DEF WithChannel, Row, ChannelMaps
<1>8. \A k \in 1 .. Len(log) : k # position[w] /\ RecordShown(k) => RecordShown(k)'
  <2>1. ASSUME NEW k \in 1 .. Len(log), k # position[w], log[k] # Junk
        PROVE  table'[log[k]] = table[log[k]]
    <3>1. log[k] # id
          BY <1>3, <2>1 DEF Core, ApiInv
    <3>2. log[k] \in Ids
          BY <2>1, KeysAssumption DEF Core, TypeOK, TopicTypeOK
    <3> QED BY <1>6, <3>1, <3>2
  <2> QED BY <1>2, <2>1, RecordStaysShown
<1>9. /\ session[w] /\ stored[w] < position[w] /\ committed < position[w]
      /\ \A k \in 1 .. position[w] : k < position[w] => RecordShown(k)
      /\ ChannelsShown(w)
      BY <1>1, <1>3 DEF Shows, ListenerShows, InRecord, AtUpdate
<1>10. /\ committed \in -1 .. Len(log) /\ Len(log) \in Nat
       /\ worker[w] \in WorkerState /\ worker \in [Workers -> WorkerState]
       BY DEF Core, TypeOK, TopicTypeOK
<1>11. \A k \in 1 .. committed : RecordShown(k)'
  <2>1. \A k \in 1 .. committed : k \in 1 .. Len(log) /\ k # position[w]
        BY <1>9, <1>10, <1>3
  <2> QED BY <1>8, <2>1 DEF Shows
<1>12. \A k \in 1 .. position[w] : k < position[w] => RecordShown(k)'
  <2>1. \A k \in 1 .. position[w] : k \in 1 .. Len(log)
        BY <1>3, <1>10
  <2> QED BY <1>8, <1>9, <2>1
<1> DEFINE chs == Request[id].channels
           ch == worker[w].ch
<1>13. /\ ch \in 1 .. Len(chs) /\ Len(chs) \in Nat /\ c = chs[ch]
       /\ \A i \in 1 .. Len(chs) : chs[i] \in Channels
       BY <1>1, <1>3, <1>4, InRecordFacts, RequestFacts DEF AtUpdate, WorkerChannel, WorkerChannels
<1>14. \A i \in 1 .. Len(chs) : i < ch => chs[i] = c \/ Shown(id, chs[i])'
  <2>1. ASSUME NEW i \in 1 .. Len(chs), i < ch, chs[i] # c
        PROVE  Shown(id, chs[i])'
    <3>1. Shown(id, chs[i])
          BY <1>3, <1>9, <1>13, <2>1 DEF ChannelsShown
    <3>2. table'[id].channels[chs[i]] = table[id].channels[chs[i]]
          BY <1>6, <1>7, <1>13, <2>1
    <3> QED BY <1>2, <3>1, <3>2, ChannelStaysShown
  <2> QED BY <2>1
<1>15. Current(w)' = id /\ worker'[w].pc # "wait"
       BY <1>3, <1>1, <1>10 DEF Current, WorkerCommit, Dispatch, Caught, AtChannel
<1>16. ChannelsShown(w)'
  <2>1. CASE worker[w].pc = "processing"
    <3>1. worker'[w] = Dispatch(w)
          BY <1>10, <2>1 DEF WorkerCommit
    <3>2. worker'[w].pc # "mark" /\ worker'[w].ch = ch
          BY <3>1 DEF Dispatch, Caught
    <3> QED BY <1>13, <1>14, <1>15, <3>2 DEF ChannelsShown
  <2>2. CASE worker[w].pc # "processing"
    <3>1. Shown(id, c)'
      <4>1. CASE worker[w].pc = "final"
        <5>1. SentTo(id, c, Len(Request[id].recipients))
              BY <1>3, <1>13, <4>1 DEF InRecord
        <5>2. \A t \in Owed[id] : t[2] = c => t \in Sent
              BY <5>1, SentToAll DEF Owed
        <5> QED BY <1>2, <5>2 DEF Shown, Grows
      <4>2. CASE worker[w].pc = "catch"
            BY <1>4, <1>6, <1>7, <4>2 DEF StatusToReport, Shown
      <4> QED BY <1>1, <2>2, <4>1, <4>2 DEF AtUpdate
    <3>2. worker'[w] = AtChannel(ch + 1, Len(chs))
          BY <1>3, <1>10, <2>2 DEF WorkerCommit, WorkerChannels
    <3>3. \A i \in 1 .. Len(chs) : i < ch + 1 => Shown(id, chs[i])'
      <4>1. \A i \in 1 .. Len(chs) : i < ch + 1 => i < ch \/ i = ch
            BY <1>13
      <4> QED BY <1>13, <1>14, <3>1, <4>1
    <3>4. \A i \in 1 .. Len(chs) :
              i < worker'[w].ch \/ worker'[w].pc = "mark" => i < ch + 1
          BY <1>13, <3>2 DEF AtChannel
    <3> QED BY <1>15, <3>3, <3>4 DEF ChannelsShown
  <2> QED BY <2>1, <2>2
<1>17. ListenerShows(w)'
  <2>1. stored[w] \in Int /\ position[w] \in Int /\ committed \in Int
        BY DEF Core, TypeOK, TopicTypeOK
  <2>2. stored[w] <= position[w] /\ committed <= position[w]
        BY <1>9, <2>1
  <2> QED BY <2>2, <1>1, <1>9, <1>12, <1>15, <1>16 DEF ListenerShows
<1>18. \A u \in Workers \ {w} : ~session'[u]
       BY <1>1, <1>9, OneLoop
<1> QED BY <1>1, <1>11, <1>17, <1>18 DEF Shows, ListenerShows

(***************************************************************************)
(* The steps of a listener that write no row.  First those within a        *)
(* channel of the record.                                                  *)
(***************************************************************************)
LEMMA ChannelStepKeepsShows ==
    ASSUME Core, Shows, NEW w \in Workers,
           WorkerRead(w) \/ UpdateThrows(w) \/ Send(w) \/ SendThrows(w)
    PROVE  Shows'
<1>1. worker \in [Workers -> WorkerState]
      BY DEF Core, TypeOK
<1>2. /\ Grows /\ UNCHANGED <<log, committed, session, position, stored>>
      /\ table' = table
  <2>1. UNCHANGED topicVars /\ table' = table
        BY DEF WorkerRead, UpdateRead, UpdateThrows, UpdateFails, UpdateRollback, Send, SendThrows,
               statusVars
  <2>2. Grows
        BY <2>1, SendKeepsCore, GrowsInPlace
           DEF WorkerRead, UpdateThrows, UpdateFails, SendThrows, Core, TypeOK, topicVars
  <2> QED BY <2>1, <2>2 DEF topicVars
<1>3. /\ worker[w].pc \notin {"wait", "mark"} /\ worker'[w].pc \notin {"wait", "mark"}
      /\ worker'[w].ch = worker[w].ch
      /\ \A v \in Workers \ {w} : worker'[v] = worker[v]
      BY <1>1 DEF WorkerRead, AtUpdate, UpdateThrows, Send, SendThrows, Caught
<1>4. ListenerShows(w) /\ ListenerInv(w) /\ position[w] \in 0 .. Len(log) /\ Len(log) \in Nat
      BY DEF Shows, Core, TypeOK, TopicTypeOK
<1>5. ASSUME session[w]
      PROVE  ListenerShows(w)'
  <2>1. ChannelsShown(w)'
        BY <1>2, <1>3, <1>4, <1>5, ChannelsStayShown DEF ListenerShows
  <2>2. \A k \in 1 .. position[w] : k \in 1 .. Len(log)
        BY <1>4
  <2>3. \A k \in 1 .. position[w] : k < position[w] => RecordShown(k)'
        BY <1>2, <1>4, <1>5, <2>2, RecordsStayShown DEF ListenerShows
  <2> QED BY <1>2, <1>3, <1>4, <1>5, <2>1, <2>3 DEF ListenerShows
<1>6. ListenerShows(w)'
      BY <1>2, <1>5 DEF ListenerShows
<1> QED BY <1>2, <1>3, <1>6, OneKeepsShows DEF SameSession

\* A record of which all channels are shown.
LEMMA MarkedIsShown ==
    ASSUME Core, NEW w \in Workers, worker[w].pc = "mark", ChannelsShown(w)
    PROVE  RecordShown(position[w])
<1>1. PICK id \in Ids : id = Current(w) /\ log[position[w]] = id
      BY InRecordFacts
<1>2. ASSUME NEW c \in Channels, NEW t \in Owed[id], t[2] = c
      PROVE  t \in Sent \/ table[id].channels[c] = "FAILED"
  <2>1. c \in ToSet(Request[id].channels)
        BY <1>2 DEF Owed, Requested
  <2>2. PICK i \in 1 .. Len(Request[id].channels) : c = Request[id].channels[i]
        BY <2>1, RequestFacts
  <2>3. Shown(id, c)
        BY <1>1, <2>2 DEF ChannelsShown
  <2> QED BY <1>2, <2>3 DEF Shown
<1> QED BY <1>1, <1>2 DEF RecordShown, Shown

\* The records up to where w is, when it is done with them.
LEMMA BetweenRecords ==
    ASSUME Core, Grows, NEW w \in Workers, ListenerShows(w), session[w],
           worker[w].pc \in {"wait", "mark"}, table' = table
    PROVE  \A k \in 1 .. position[w] : RecordShown(k) /\ RecordShown(k)'
<1>1. position[w] \in 0 .. Len(log) /\ Len(log) \in Nat
      BY DEF Core, TypeOK, TopicTypeOK
<1>2. \A k \in 1 .. position[w] : RecordShown(k)
  <2>1. worker[w].pc = "mark" => RecordShown(position[w])
        BY MarkedIsShown DEF ListenerShows
  <2>2. \A k \in 1 .. position[w] : k < position[w] \/ k = position[w]
        BY <1>1
  <2> QED BY <2>1, <2>2 DEF ListenerShows
<1>3. \A k \in 1 .. position[w] : k \in 1 .. Len(log)
      BY <1>1
<1> QED BY <1>2, <1>3, RecordsStayShown

LEMMA ReceiveKeepsShows ==
    ASSUME Core, Shows, NEW w \in Workers, Receive(w)
    PROVE  Shows'
<1>1. Grows /\ UNCHANGED <<log, committed, session, stored, table>> /\ session[w]
      BY GrowsInPlace DEF Receive, Deliver, statusVars, Core, TypeOK
<1>2. /\ position \in [Workers -> 0 .. Len(log)] /\ Len(log) \in Nat
      /\ stored[w] \in Int /\ committed \in Int
      /\ worker \in [Workers -> WorkerState] /\ ListenerShows(w)
      BY SMTT(30) DEF Shows, Core, TypeOK, TopicTypeOK
<1>3. /\ position'[w] = position[w] + 1 /\ Current(w)' = log[position[w] + 1]
      /\ \A v \in Workers \ {w} : position'[v] = position[v] /\ worker'[v] = worker[v]
      BY <1>1, <1>2 DEF Receive, Deliver, Current
<1>4. \A k \in 1 .. position[w] : RecordShown(k)'
      BY <1>1, <1>2, BetweenRecords DEF Receive
<1>5. PICK id \in Ids : id = log[position[w] + 1]
  <2>1. position[w] + 1 \in 1 .. Len(log)
        BY <1>2 DEF Receive, Deliver
  <2> QED BY <2>1, KeysAssumption DEF Receive, Core, TypeOK, TopicTypeOK
<1>6. worker'[w] = AtChannel(1, Len(Request[id].channels))
      BY <1>2, <1>5 DEF Receive
<1>7. worker'[w].pc # "wait" /\ ChannelsShown(w)'
  <2>1. /\ worker'[w].ch = 1 /\ worker'[w].pc # "wait"
        /\ worker'[w].pc = "mark" => ~(1 <= Len(Request[id].channels))
        BY <1>6 DEF AtChannel
  <2>2. \A i \in 1 .. Len(Request[id].channels) :
            ~(i < worker'[w].ch) /\ worker'[w].pc # "mark"
        BY <2>1, RequestFacts
  <2> QED BY <1>3, <1>5, <2>1, <2>2 DEF ChannelsShown
<1>8. ListenerShows(w)'
  <2>1. \A k \in 1 .. position'[w] : k < position'[w] => RecordShown(k)'
        BY <1>2, <1>3, <1>4
  <2>2. stored[w] < position'[w] /\ committed < position'[w]
        BY <1>1, <1>2, <1>3 DEF ListenerShows
  <2>3. stored[w] <= position'[w] /\ committed <= position'[w]
        BY <1>2, <1>3, <2>2
  <2> QED BY <1>1, <1>7, <2>1, <2>2, <2>3 DEF ListenerShows
<1> QED BY <1>1, <1>3, <1>8, OneKeepsShows DEF SameSession

LEMMA AcknowledgeKeepsShows ==
    ASSUME Core, Shows, NEW w \in Workers, Acknowledge(w)
    PROVE  Shows'
<1>1. /\ Grows /\ UNCHANGED <<log, committed, session, position, table>>
      /\ worker[w].pc = "mark" /\ session[w]
      BY GrowsInPlace, InRecordFacts DEF Acknowledge, Store, statusVars, Core, TypeOK, InRecord
<1>2. /\ position[w] \in Int /\ stored \in [Workers -> -1 .. Len(log)]
      /\ worker \in [Workers -> WorkerState] /\ ListenerShows(w)
      BY SMTT(30) DEF Shows, Core, TypeOK, TopicTypeOK
<1>3. /\ stored'[w] = position[w] /\ worker'[w].pc = "wait"
      /\ \A v \in Workers \ {w} : stored'[v] = stored[v] /\ worker'[v] = worker[v]
      BY <1>2 DEF Acknowledge, Store, Idle
<1>4. \A k \in 1 .. position[w] : RecordShown(k)'
      BY <1>1, <1>2, BetweenRecords
<1>5. ListenerShows(w)'
      BY <1>1, <1>2, <1>3, <1>4 DEF ListenerShows
<1> QED BY <1>1, <1>3, <1>5, OneKeepsShows DEF SameSession

(***************************************************************************)
(* The listener throws: as there have been fewer faults than the container *)
(* makes attempts, the record is handed out again.                         *)
(***************************************************************************)
LEMMA ThrowKeepsShows ==
    ASSUME Core, Shows, NEW w \in Workers, ListenerThrows(w), faults' < MaxAttempts
    PROVE  Shows'
<1>1. Attempts(w) < MaxAttempts
  <2>1. Attempts(w) \in 1 .. MaxAttempts /\ Attempts(w) <= faults + 1
        BY AttemptsFacts
  <2>2. faults' = faults + 1
        BY ListenerThrowsKeepsCore
  <2>3. MaxAttempts \in Nat /\ faults \in Nat
        BY AttemptsAssumption, FaultsAssumption DEF Core, TypeOK
  <2> QED BY <2>1, <2>2, <2>3
<1>2. Redeliver(w) /\ worker' = [worker EXCEPT ![w] = Idle]
      BY <1>1 DEF ListenerThrows
<1>3. Grows /\ UNCHANGED <<log, committed, session, stored, table>>
      BY <1>2, GrowsInPlace
         DEF ListenerThrows, UpdateFails, UpdateRollback, Redeliver, statusVars, Core, TypeOK
<1>4. /\ session[w] /\ position[w] \in 1 .. Len(log) /\ Len(log) \in Nat
      /\ worker[w].pc = "catch"
  <2>1. worker[w].pc = "catch"
        BY DEF ListenerThrows
  <2>2. session[w] /\ position[w] \in 1 .. Len(log)
        BY <2>1, InRecordFacts DEF InRecord
  <2> QED BY <2>1, <2>2 DEF Core, TypeOK, TopicTypeOK
<1>5. /\ position \in [Workers -> 0 .. Len(log)] /\ worker \in [Workers -> WorkerState]
      /\ stored[w] \in Int /\ committed \in Int
  <2>1. TopicTypeOK /\ worker \in [Workers -> WorkerState]
        BY DEF Core, TypeOK
  <2>2. stored[w] \in -1 .. Len(log) /\ committed \in -1 .. Len(log)
        BY <2>1 DEF TopicTypeOK
  <2> QED BY <1>4, <2>1, <2>2 DEF TopicTypeOK
<1>6. /\ position'[w] = position[w] - 1 /\ worker'[w].pc = "wait"
      /\ \A v \in Workers \ {w} : position'[v] = position[v] /\ worker'[v] = worker[v]
      BY <1>2, <1>5 DEF Redeliver, Idle
<1>7. /\ stored[w] < position[w] /\ committed < position[w]
      /\ \A k \in 1 .. position[w] : k < position[w] => RecordShown(k)
      BY <1>4 DEF Shows, ListenerShows
<1>8. \A k \in 1 .. position'[w] : RecordShown(k)'
  <2>1. \A k \in 1 .. position'[w] :
            k \in 1 .. Len(log) /\ k \in 1 .. position[w] /\ k < position[w]
        BY <1>4, <1>6
  <2> QED BY <1>3, <1>7, <2>1, RecordsStayShown
<1>9. stored[w] <= position'[w] /\ committed <= position'[w]
      BY <1>4, <1>5, <1>6, <1>7
<1>10. ListenerShows(w)'
       BY <1>3, <1>6, <1>8, <1>9 DEF ListenerShows
<1> QED BY <1>3, <1>6, <1>10, OneKeepsShows DEF SameSession

(***************************************************************************)
(* The steps of the group.  A commit is of what the listener has stored,   *)
(* and a loop starts after what was committed.                             *)
(***************************************************************************)
LEMMA CommitBatchKeepsShows ==
    ASSUME Core, Orderly, Shows, NEW w \in Workers, CommitBatch(w)
    PROVE  Shows'
<1>1. /\ Grows /\ UNCHANGED <<log, session, position, stored, table, worker>>
      /\ committed' = stored[w] /\ session[w] /\ owner = w /\ worker[w].pc = "wait"
      BY GrowsInPlace DEF CommitBatch, Commit, statusVars, serviceVars, Core, TypeOK
<1>2. position[w] \in Int /\ stored[w] \in Int /\ ListenerShows(w)
      BY DEF Shows, Core, TypeOK, TopicTypeOK
<1>3. \A k \in 1 .. position[w] : RecordShown(k)'
      BY <1>1, <1>2, BetweenRecords
<1>4. stored[w] <= position[w]
      BY <1>1, <1>2 DEF ListenerShows
<1>5. \A k \in 1 .. committed' : RecordShown(k)'
      BY <1>1, <1>2, <1>3, <1>4
<1>6. ListenerShows(w)'
      BY <1>1, <1>3, <1>4 DEF ListenerShows
<1>7. \A v \in Workers \ {w} : ~session'[v]
      BY <1>1, OneLoop
<1> QED BY <1>5, <1>6, <1>7 DEF Shows, ListenerShows

LEMMA GroupKeepsShows ==
    ASSUME Core, Orderly, Shows, NEW w \in Workers, GroupStep(w) \/ Crash(w)
    PROVE  Shows'
<1>1. TopicTypeOK /\ worker \in [Workers -> WorkerState]
      BY DEF Core, TypeOK
<1>2. CASE CommitBatch(w)
      BY <1>2, CommitBatchKeepsShows
<1>3. CASE JoinGroup(w)
  <2>1. /\ Begin(w, "earliest") /\ ~session[w] /\ worker' = worker /\ log' = log
        /\ UNCHANGED <<committed, table>> /\ owner' \in Workers \cup {Nobody}
        BY <1>3 DEF JoinGroup, Assign, Begin, statusVars, serviceVars
  <2>2. Grows
        BY <1>1, <1>3, <2>1, GrowsInPlace DEF JoinGroup, serviceVars
  <2>3. /\ position'[w] = StartOffset("earliest") /\ stored'[w] = -1
        /\ \A v \in Workers \ {w} : SameSession(v)
        BY <1>1, <2>1, BeginFacts
  <2>4. committed \in -1 .. Len(log) /\ Len(log) \in Nat
        BY <1>1 DEF TopicTypeOK
  <2>5. /\ position'[w] = IF committed >= 0 THEN committed ELSE 0
        /\ stored'[w] <= position'[w] /\ committed <= position'[w]
        BY <2>3, <2>4 DEF StartOffset
  <2>6. \A k \in 1 .. position'[w] : k \in 1 .. committed /\ k \in 1 .. Len(log)
        BY <2>4, <2>5
  <2>7. \A k \in 1 .. position'[w] : RecordShown(k)'
        BY <2>1, <2>2, <2>6, RecordsStayShown DEF Shows
  <2>8. worker'[w].pc = "wait"
        BY <2>1, NoSessionIsIdle
  <2>9. ListenerShows(w)'
        BY <2>1, <2>5, <2>7, <2>8 DEF ListenerShows
  <2> QED BY <2>1, <2>2, <2>3, <2>9, OneKeepsShows
<1>4. CASE SessionEnds(w) \/ Crash(w)
  <2>1. Close(w) /\ UNCHANGED <<log, committed, table>>
        BY <1>4 DEF SessionEnds, EndSession, Crash, Leave, Close, statusVars
  <2>2. Grows /\ owner' \in Workers \cup {Nobody}
        BY <1>1, <1>4, GrowsInPlace
           DEF SessionEnds, EndSession, Crash, Leave, Close, serviceVars, TopicTypeOK
  <2>3. ~session'[w] /\ \A v \in Workers \ {w} : SameSession(v)
        BY <1>1, <2>1, <2>2, CloseFacts
  <2>4. \A v \in Workers \ {w} : worker'[v] = worker[v]
        BY <1>1, <1>4 DEF SessionEnds, Crash, serviceVars
  <2>5. ListenerShows(w)'
        BY <2>3 DEF ListenerShows
  <2> QED BY <2>1, <2>2, <2>3, <2>4, <2>5, OneKeepsShows
<1> QED BY <1>2, <1>3, <1>4 DEF GroupStep

\* A step of no listener, which writes no row of a record.
LEMMA OthersKeepShows ==
    ASSUME Core, Shows,
           \/ \E id \in Ids : Post(id) \/ ApiStep(id) \/ SendRecord(id)
           \/ ForeignMessage
           \/ UNCHANGED vars
    PROVE  Shows'
<1>1. /\ worker' = worker /\ UNCHANGED groupVars
      /\ topicVars' = topicVars \/ \E m \in Ids \cup {Junk} : Append1(m)
      /\ UNCHANGED <<sends, receipts>>
      BY DEF Post, ApiStep, WriteInitialRow, Produce, SendRecord, ForeignMessage, Append1,
             vars, topicVars, groupVars, serviceVars
<1>2. Grows
      BY <1>1, GrowsInPlace, GrowsByAppend DEF Core, TypeOK, topicVars
<1>3. \A id \in Ids : Logged(id) => table'[id] = table[id]
  <2>1. ASSUME NEW i \in Ids, WriteInitialRow(i), NEW id \in Ids, Logged(id)
        PROVE  table'[id] = table[id]
    <3>1. i # id
          BY <2>1 DEF WriteInitialRow, Core, ApiInv
    <3> QED BY <2>1, <3>1
            DEF WriteInitialRow, CreateInitialStatus, statusVars,
                Core, RowsInv, TransactionInv, StatusTypeOK
  <2>2. table' = table \/ \E i \in Ids : WriteInitialRow(i)
        BY DEF Post, ApiStep, Produce, SendRecord, ForeignMessage, vars, statusVars
  <2> QED BY <2>1, <2>2
<1>4. \A v \in Workers : SameSession(v) /\ worker'[v] = worker[v]
      BY <1>1 DEF SameSession, groupVars
<1>5. committed' = committed
      BY <1>1 DEF groupVars
<1>6. PICK W \in SUBSET Workers : W = {}
      OBVIOUS
<1>7. \A v \in W : ListenerShows(v)'
      BY <1>6
<1> QED BY <1>2, <1>3, <1>4, <1>5, <1>7, ShowsKept

\* Every step keeps Shows, as long as nobody disturbs the owner.
LEMMA NextKeepsShown == Core /\ OrderlyInv /\ ShownInv /\ [Next]_vars => ShownInv'
<1> SUFFICES ASSUME Core, OrderlyInv, ShownInv, [Next]_vars,
                    Undisturbed', faults' < MaxAttempts
             PROVE  Shows'
    BY DEF ShownInv
<1>1. receipts = {} /\ receipts' = {}
      BY ReceiptsStay DEF Undisturbed
<1>2. faults <= faults' /\ faults \in Nat /\ faults' \in Nat /\ MaxAttempts \in Nat
      BY FaultsStay, AttemptsAssumption
<1>3. Orderly /\ Shows
      BY <1>1, <1>2 DEF ShownInv, OrderlyInv, Undisturbed
<1>4. ~Rebalance
      BY NoRebalance DEF Undisturbed, Rebalance
<1>5. \A h \in Hooks : ~HookStep(h)
      BY <1>1, HooksAtRest
<1>6. ASSUME NEW w \in Workers, WorkerStep(w)
      PROVE  Shows'
      BY <1>3, <1>6, CommitKeepsShows, ChannelStepKeepsShows, ReceiveKeepsShows,
         AcknowledgeKeepsShows, ThrowKeepsShows DEF WorkerStep
<1>7. ASSUME NEW w \in Workers, GroupStep(w) \/ Crash(w)
      PROVE  Shows'
      BY <1>3, <1>7, GroupKeepsShows
<1>8. ASSUME \/ \E id \in Ids : Post(id) \/ ApiStep(id) \/ SendRecord(id)
             \/ ForeignMessage
             \/ UNCHANGED vars
      PROVE  Shows'
      BY <1>3, <1>8, OthersKeepShows
<1> QED BY <1>4, <1>5, <1>6, <1>7, <1>8 DEF Next

\* ShownInv is an invariant of the JVM service.
LEMMA ShownHolds == Spec => []ShownInv
<1>1. Init => ShownInv
      BY DEF Init, TopicInit, ShownInv, Shows, ListenerShows
<1> QED BY <1>1, CoreHolds, OrderlyHolds, NextKeepsShown, PTL DEF Spec

(***************************************************************************)
(* What is lost can be seen by polling, as long as no provider calls back  *)
(* and no listener outlives its partition: what was not delivered for an   *)
(* acknowledged record is shown as FAILED unless the container has run out *)
(* of attempts, and what the producer has lost stays ENQUEUED              *)
(* (LossIsVisible).                                                        *)
(***************************************************************************)
THEOREM LossesAreVisible == Spec => [](Undisturbed => LossIsVisible)
<1>1. Core /\ ShownInv => (Undisturbed => LossIsVisible)
  <2> SUFFICES ASSUME Core, ShownInv, Undisturbed
               PROVE  LossIsVisible
      OBVIOUS
  <2>1. ASSUME faults < MaxAttempts, NEW k \in 1 .. committed, log[k] # Junk,
               NEW t \in Owed[log[k]] \ Sent
        PROVE  table[log[k]].channels[t[2]] = "FAILED"
    <3>1. RecordShown(k)
          BY <2>1 DEF ShownInv, Shows
    <3>2. PICK id \in Ids : id = log[k]
      <4>1. k \in 1 .. Len(log)
            BY DEF Core, TypeOK, TopicTypeOK
      <4> QED BY <2>1, <4>1, KeysAssumption DEF Core, TypeOK, TopicTypeOK
    <3>3. t \in Requested[id]
          BY <2>1, <3>2 DEF Owed
    <3>4. t[2] \in Channels
          BY <3>3, RequestFacts DEF Requested
    <3> QED BY <2>1, <3>1, <3>4 DEF RecordShown, Shown
  <2>2. ASSUME NEW id \in Ids \ outbox, api[id] = "accepted", ~Logged(id),
               \A r \in receipts : r[1] # id
        PROVE  GetStatus(id) = InitialRow(ToSet(Request[id].channels))
    <3>1. table[id] # None
          BY <2>2 DEF Core, ApiInv
    <3>2. ~Touched(id)
          BY <2>2 DEF Touched
    <3> QED BY <3>1, <3>2 DEF Core, RowsInv, GetStatus
  <2> QED BY <2>1, <2>2 DEF LossIsVisible
<1> QED BY <1>1, CoreHolds, ShownHolds, PTL

-----------------------------------------------------------------------------
(***************************************************************************)
(* What a polling client sees.  Until the first fault, and until a         *)
(* provider calls back, a record is worked on once, by one listener, which *)
(* takes one channel after the other.  So the row of a notification says   *)
(* how far that listener has come.                                         *)
(***************************************************************************)
Calm == faults = 0 /\ receipts = {}

AllPending(id) ==
    \A i \in 1 .. Len(Request[id].channels) :
        table[id].channels[Request[id].channels[i]] = "PENDING"

\* Whether there is an adapter for channel c, and a list of recipients.
Sendable(id, c) == c \in Supported /\ id \notin NoRecipients

\* What the row says of channel c of id when it has been dealt with.
Outcomes(id, c) ==
    IF ~Sendable(id, c) THEN Failed
    ELSE IF c \in Flaky THEN Completed \cup Failed ELSE Completed

\* What the row says of channel c while w works on the v.ch-th channel.
StatusMidway(w, c) ==
    LET chs == WorkerChannels(w)
        v   == worker[w]
    IN  IF v.pc # "processing" /\ c = chs[v.ch] THEN {"PROCESSING"}
        ELSE IF \E j \in 1 .. Len(chs) : j < v.ch /\ chs[j] = c THEN Outcomes(Current(w), c)
        ELSE {"PENDING"}

Midway(w) ==
    LET id  == Current(w)
        chs == WorkerChannels(w)
        v   == worker[w]
    IN  v.pc \in {"processing", "send", "final", "catch"} =>
            /\ v.pc = "send" => Sendable(id, chs[v.ch])
            /\ v.pc = "final" => "COMPLETED" \in Outcomes(id, chs[v.ch])
            /\ v.pc = "catch" => "FAILED" \in Outcomes(id, chs[v.ch])
            /\ \A i \in 1 .. Len(chs) : table[id].channels[chs[i]] \in StatusMidway(w, chs[i])

FirstRun ==
    /\ \A id \in Ids : table[id] # None /\ ~Begun(id) => AllPending(id)
    /\ \A w \in Workers : Midway(w)

CalmInv == Calm => FirstRun

(***************************************************************************)
(* A row goes back when a channel is worked on again that has failed, or   *)
(* when it is the last of the channels and all are completed.  A request   *)
(* that names no channel twice is safe from both.                          *)
(***************************************************************************)
RepeatsHarmlessly(id) ==
    LET chs == Request[id].channels
    IN  \A j \in 1 .. Len(chs) : NamedBefore(id, j) =>
            /\ Outcomes(id, chs[j]) = Completed
            /\ \E k \in 1 .. Len(chs) :
                   Outcomes(id, chs[k]) = Failed \/ \A i \in 1 .. Len(chs) : i < j => chs[i] # chs[k]

\* A fault or a callback ends the calm for good.
LEMMA CalmBefore ==
    ASSUME Core, [Next]_vars, Calm'
    PROVE  Calm
BY FaultsStay, ReceiptsStay DEF Calm

\* Calm is stricter than Undisturbed.
LEMMA CalmIsUndisturbed ==
    ASSUME Calm
    PROVE  Undisturbed
BY DEF Calm, Undisturbed

\* In the calm nothing is a fault.
LEMMA NoFaultInCalm ==
    ASSUME Calm, Calm', NEW kind
    PROVE  ~Fault(kind)
BY DEF Calm, Fault

(***************************************************************************)
(* A row that no listener has begun on stays so until one begins.          *)
(***************************************************************************)
LEMMA PendingKept ==
    ASSUME Core, Grows, FirstRun, LoopsGoOn,
           NEW id \in Ids, table[id] # None, table'[id] = table[id], ~Begun(id)'
    PROVE  AllPending(id)'
BY BegunStays DEF FirstRun, AllPending, Core, TypeOK

\* The row of the record in hand says the same while neither of them changes.
LEMMA MidwayKept ==
    ASSUME Core, Grows, FirstRun, NEW w \in Workers,
           worker[w].pc # "wait" =>
               /\ position'[w] = position[w]
               /\ table'[Current(w)] = table[Current(w)],
           worker'[w] = worker[w]
    PROVE  Midway(w)'
<1>1. CASE worker[w].pc = "wait"
      BY <1>1 DEF Midway
<1>2. CASE worker[w].pc # "wait"
  <2>1. Current(w)' = Current(w)
        BY <1>2, InRecordFacts DEF Grows, Current
  <2>2. WorkerChannels(w)' = WorkerChannels(w)
        BY <2>1 DEF WorkerChannels
  <2>3. \A c : StatusMidway(w, c)' = StatusMidway(w, c)
        BY <2>1, <2>2 DEF StatusMidway, Outcomes, Sendable
  <2>4. table'[Current(w)'] = table[Current(w)] /\ Midway(w)
        BY <1>2, <2>1 DEF FirstRun
  <2> QED BY <2>1, <2>2, <2>3, <2>4 DEF Midway, Outcomes, Sendable
<1> QED BY <1>1, <1>2

\* A step that touches neither a row nor what a listener has in hand.
LEMMA FirstRunAside ==
    ASSUME Core, Grows, FirstRun, UNCHANGED <<table, worker>>,
           \A w \in Workers : session[w] => session'[w] /\ position'[w] = position[w]
    PROVE  FirstRun'
<1>1. LoopsGoOn
      BY DEF LoopsGoOn, Core, TypeOK, TopicTypeOK
<1>2. \A w \in Workers : worker[w].pc # "wait" => position'[w] = position[w]
      BY NoSessionIsIdle
<1>3. \A w \in Workers : Midway(w)'
      BY <1>2, MidwayKept
<1>4. \A id \in Ids : (table[id] # None /\ ~Begun(id) => AllPending(id))'
      BY <1>1, PendingKept
<1> QED BY <1>3, <1>4 DEF FirstRun

\* A step of the listener that has the partition.
LEMMA FirstRunOfListener ==
    ASSUME Core, Grows, Orderly, FirstRun, NEW w \in Workers, session[w], session' = session,
           position'[w] \in Nat, position[w] <= position'[w],
           \A v \in Workers \ {w} : position'[v] = position[v] /\ worker'[v] = worker[v],
           \A id \in Ids : table'[id] = table[id] \/ Begun(id)',
           Midway(w)'
    PROVE  FirstRun'
<1>1. LoopsGoOn
  <2>1. TopicTypeOK
        BY DEF Core, TypeOK
  <2>2. \A v \in Workers : position[v] \in Nat
        BY <2>1 DEF TopicTypeOK
  <2> QED BY <2>2 DEF LoopsGoOn
<1>2. \A v \in Workers \ {w} : Midway(v)'
      BY OneLoop DEF Midway
<1>3. \A id \in Ids : (table[id] # None /\ ~Begun(id) => AllPending(id))'
      BY <1>1, PendingKept
<1> QED BY <1>2, <1>3 DEF FirstRun

(***************************************************************************)
(* The steps of a request, and those of nobody.                            *)
(***************************************************************************)
LEMMA CreateKeepsFirstRun ==
    ASSUME Core, FirstRun, NEW id \in Ids, WriteInitialRow(id), Calm, Calm'
    PROVE  FirstRun'
<1>1. /\ api[id] = "create"
      /\ CreateInitialStatus(id, ToSet(Request[id].channels))
      /\ UNCHANGED <<log, session, position, worker, sends, receipts>>
      BY NoFaultInCalm DEF WriteInitialRow, topicVars
<1>2. /\ table'[id] = InitialRow(ToSet(Request[id].channels))
      /\ \A i \in Ids \ {id} : table'[i] = table[i]
      BY <1>1 DEF CreateInitialStatus, Core, RowsInv, TransactionInv, StatusTypeOK
<1>3. Grows /\ LoopsGoOn /\ ~Logged(id)
      BY <1>1, GrowsInPlace DEF Core, ApiInv, TypeOK, TopicTypeOK, LoopsGoOn
<1>4. AllPending(id)'
  <2>1. \A c \in ToSet(Request[id].channels) : table'[id].channels[c] = "PENDING"
        BY <1>2, RequestFacts DEF InitialRow
  <2>2. \A i \in 1 .. Len(Request[id].channels) :
            Request[id].channels[i] \in ToSet(Request[id].channels)
        BY RequestFacts
  <2> QED BY <2>1, <2>2 DEF AllPending
<1>5. ASSUME NEW i \in Ids, i # id, table'[i] # None, ~Begun(i)'
      PROVE  AllPending(i)'
      BY <1>2, <1>3, <1>5, PendingKept
<1>6. ASSUME NEW w \in Workers
      PROVE  Midway(w)'
  <2>1. worker[w].pc # "wait" => Current(w) \in Ids \ {id}
        BY <1>3, InRecordFacts
  <2> QED BY <1>1, <1>2, <1>3, <2>1, MidwayKept
<1> QED BY <1>4, <1>5, <1>6 DEF FirstRun

LEMMA OthersKeepFirstRun ==
    ASSUME Core, FirstRun, Calm, Calm',
           \/ \E id \in Ids : Post(id) \/ ApiStep(id) \/ SendRecord(id)
           \/ ForeignMessage
           \/ UNCHANGED vars
    PROVE  FirstRun'
<1>1. CASE \E id \in Ids : WriteInitialRow(id)
      BY <1>1, CreateKeepsFirstRun
<1>2. CASE ~\E id \in Ids : WriteInitialRow(id)
  <2>1. /\ UNCHANGED <<table, worker, session, position, sends, receipts>>
        /\ topicVars' = topicVars \/ \E m \in Ids \cup {Junk} : Append1(m)
        BY <1>2 DEF Post, ApiStep, Produce, SendRecord, ForeignMessage, Append1, groupVars,
                    topicVars, statusVars, serviceVars, vars
  <2>2. Grows
        BY <2>1, GrowsInPlace, GrowsByAppend DEF Core, TypeOK, topicVars
  <2> QED BY <2>1, <2>2, FirstRunAside
<1> QED BY <1>1, <1>2

(***************************************************************************)
(* The steps of a listener.                                                *)
(***************************************************************************)
LEMMA ReceiveKeepsFirstRun ==
    ASSUME Core, Orderly, FirstRun, NEW w \in Workers, Receive(w)
    PROVE  FirstRun'
<1>1. /\ position \in [Workers -> 0 .. Len(log)] /\ worker \in [Workers -> WorkerState]
      /\ Len(log) \in Nat /\ log \in Seq(Ids \cup {Junk})
      BY KeysAssumption DEF Core, TypeOK, TopicTypeOK
<1>2. PICK n \in 1 .. Len(log) : n = position[w] + 1 /\ position' = [position EXCEPT ![w] = n]
  <2>1. position[w] \in Nat /\ position[w] < Len(log)
        BY <1>1 DEF Receive, Deliver
  <2>2. PICK n \in 1 .. Len(log) : n = position[w] + 1
        BY <1>1, <2>1
  <2>3. position' = [position EXCEPT ![w] = n]
        BY <2>2 DEF Receive, Deliver
  <2> QED BY <2>2, <2>3
<1>3. PICK id \in Ids : id = log[n]
      BY <1>1, <1>2 DEF Receive
<1>4. PICK new : new = AtChannel(1, Len(Request[id].channels))
                 /\ worker' = [worker EXCEPT ![w] = new]
      BY <1>2, <1>3 DEF Receive
<1>5. /\ session[w] /\ position'[w] = n /\ worker'[w] = new
      /\ \A v \in Workers \ {w} : position'[v] = position[v] /\ worker'[v] = worker[v]
      /\ UNCHANGED <<log, session, sends, receipts, table>>
      BY <1>1, <1>2, <1>4 DEF Receive, Deliver, statusVars
<1>6. Grows
      BY <1>5, GrowsInPlace DEF Core, TypeOK
<1>7. ~Begun(id)
  <2> SUFFICES ASSUME NEW v \in Workers, session[v], NEW k \in 1 .. position[v], log[k] = id
               PROVE  FALSE
      BY DEF Begun
  <2>1. v = w
        BY <1>5, OneLoop
  <2>2. k \in 1 .. Len(log) /\ k # n
        BY <1>1, <1>2, <2>1
  <2>3. log[k] = log[n] /\ log[n] # Junk
        BY <1>2, <1>3 DEF Receive
  <2> QED BY <2>2, <2>3 DEF Core, ApiInv
<1>8. Midway(w)'
  <2>1. new.pc \in {"processing", "mark"} /\ new.ch = 1
        BY <1>4 DEF AtChannel
  <2>2. Current(w)' = id /\ WorkerChannels(w)' = Request[id].channels
        BY <1>3, <1>5 DEF Current, WorkerChannels
  <2>3. AllPending(id)
    <3>1. table[id] # None
          BY <1>3 DEF Logged, Core, ApiInv
    <3> QED BY <1>7, <3>1 DEF FirstRun
  <2>4. ASSUME new.pc = "processing", NEW c
        PROVE  StatusMidway(w, c)' = {"PENDING"}
        BY <1>5, <2>1, <2>2, <2>4, RequestFacts DEF StatusMidway
  <2> QED BY <1>5, <2>1, <2>2, <2>3, <2>4 DEF Midway, AllPending
<1> QED BY <1>1, <1>2, <1>5, <1>6, <1>8, FirstRunOfListener

\* When an update is committed, the row says how far the listener has come.
LEMMA CommitKeepsFirstRun ==
    ASSUME Core, Orderly, FirstRun, NEW w \in Workers, WorkerCommit(w)
    PROVE  FirstRun'
<1>1. PICK id \in Ids, row \in Row, c \in Channels, s \in WorkerStatuses :
          /\ id = Current(w) /\ c = WorkerChannel(w) /\ s = StatusToReport(w)
          /\ table[id] = row
          /\ table' = [table EXCEPT ![id] = WithChannel(row, c, s)]
      BY CommittedRow
<1>2. PICK old \in WorkerState : old = worker[w]
      BY InRecordFacts DEF WorkerCommit, AtUpdate
<1> DEFINE chs == Request[id].channels
<1>3. /\ old.pc \in {"processing", "final", "catch"} /\ session[w]
      /\ position[w] \in 1 .. Len(log) /\ log[position[w]] = id
      /\ old.ch \in 1 .. Len(chs) /\ Len(chs) \in Nat /\ c = chs[old.ch]
      /\ \A i \in 1 .. Len(chs) : chs[i] \in Channels
      /\ WorkerChannels(w) = chs
  <2>1. old.pc \in {"processing", "final", "catch"} /\ WorkerChannels(w) = chs
        BY <1>1, <1>2 DEF WorkerCommit, AtUpdate, WorkerChannels
  <2>2. InRecord(w) /\ position[w] \in 1 .. Len(log) /\ log[position[w]] = id
        BY <1>1, <1>2, <2>1, InRecordFacts
  <2>3. old.ch \in 1 .. Len(chs) /\ c = chs[old.ch]
        BY <1>1, <1>2, <2>1, InRecordFacts DEF WorkerChannel
  <2> QED BY <2>1, <2>2, <2>3, RequestFacts DEF InRecord
<1>4. /\ UNCHANGED <<log, session, position, sends, receipts>> /\ Grows
      /\ Current(w)' = id /\ WorkerChannels(w)' = chs
      BY <1>1, GrowsInPlace
         DEF WorkerCommit, topicVars, Core, TypeOK, Current, WorkerChannels
<1>5. PICK new : /\ worker' = [worker EXCEPT ![w] = new]
                 /\ new = IF old.pc = "processing" THEN Dispatch(w)
                          ELSE AtChannel(old.ch + 1, Len(chs))
      BY <1>2, <1>3 DEF WorkerCommit
<1>6. worker'[w] = new /\ \A v \in Workers \ {w} : worker'[v] = worker[v]
      BY <1>5 DEF Core, TypeOK
<1>7. /\ old.pc = "final" => "COMPLETED" \in Outcomes(id, c)
      /\ old.pc = "catch" => "FAILED" \in Outcomes(id, c)
      /\ \A i \in 1 .. Len(chs) : row.channels[chs[i]] \in StatusMidway(w, chs[i])
  <2>1. Midway(w)
        BY DEF FirstRun
  <2> QED BY <1>1, <1>2, <1>3, <2>1 DEF Midway
<1>8. /\ \A i \in 1 .. Len(chs) :
             table'[id].channels[chs[i]] = IF chs[i] = c THEN s ELSE row.channels[chs[i]]
      /\ \A i \in Ids \ {id} : table'[i] = table[i]
  <2>1. table'[id].channels = [row.channels EXCEPT ![c] = s]
        BY <1>1 DEF WithChannel, Core, RowsInv, TransactionInv, StatusTypeOK
  <2>2. row.channels \in [Channels -> ChannelStatuses]
        BY DEF Row, ChannelMaps
  <2>3. \A i \in Ids \ {id} : table'[i] = table[i]
        BY <1>1 DEF Core, RowsInv, TransactionInv, StatusTypeOK
  <2> QED BY <1>3, <2>1, <2>2, <2>3
<1>9. Midway(w)'
  <2>1. CASE old.pc = "processing"
    <3>1. /\ new.pc \in {"send", "final", "catch"} /\ new.ch = old.ch
          /\ new.pc = "send" => Sendable(id, c)
          /\ new.pc = "final" => Sendable(id, c)
          /\ new.pc = "catch" => ~Sendable(id, c)
          BY <1>1, <1>2, <1>5, <2>1 DEF Dispatch, Caught, Sendable, WorkerRecipients
    <3>2. /\ new.pc = "final" => "COMPLETED" \in Outcomes(id, c)
          /\ new.pc = "catch" => "FAILED" \in Outcomes(id, c)
          BY <3>1 DEF Outcomes, Completed, Failed
    <3>3. s = "PROCESSING"
          BY <1>1, <1>2, <2>1 DEF StatusToReport
    <3>4. ASSUME NEW i \in 1 .. Len(chs)
          PROVE  table'[id].channels[chs[i]] \in StatusMidway(w, chs[i])'
      <4>1. CASE chs[i] = c
            BY <1>3, <1>4, <1>6, <1>8, <3>1, <3>3, <4>1 DEF StatusMidway
      <4>2. CASE chs[i] # c
        <5> DEFINE at == IF \E j \in 1 .. Len(chs) : j < old.ch /\ chs[j] = chs[i]
                         THEN Outcomes(id, chs[i]) ELSE {"PENDING"}
        <5>1. StatusMidway(w, chs[i])' = StatusMidway(w, chs[i])
          <6>1. StatusMidway(w, chs[i]) = at
                BY <1>1, <1>2, <1>3, <2>1 DEF StatusMidway
          <6>2. StatusMidway(w, chs[i])' = at
                BY <1>3, <1>4, <1>6, <3>1, <4>2 DEF StatusMidway, Outcomes, Sendable
          <6> QED BY <6>1, <6>2
        <5> QED BY <1>7, <1>8, <4>2, <5>1
      <4> QED BY <4>1, <4>2
    <3> QED BY <1>3, <1>4, <1>6, <3>1, <3>2, <3>4 DEF Midway, Outcomes, Sendable
  <2>2. CASE old.pc \in {"final", "catch"}
    <3>1. new.pc = "mark" \/ (new.pc = "processing" /\ new.ch = old.ch + 1)
          BY <1>5, <2>2 DEF AtChannel
    <3>2. s \in Outcomes(id, c)
          BY <1>1, <1>2, <1>7, <2>2 DEF StatusToReport
    <3>3. ASSUME NEW i \in 1 .. Len(chs), new.pc = "processing"
          PROVE  table'[id].channels[chs[i]] \in StatusMidway(w, chs[i])'
      <4>1. new.ch = old.ch + 1
            BY <3>1, <3>3
      <4>2. CASE chs[i] = c
        <5>1. StatusMidway(w, c)' = Outcomes(id, c)
              BY <1>3, <1>4, <1>6, <3>3, <4>1 DEF StatusMidway, Outcomes, Sendable
        <5> QED BY <1>8, <3>2, <4>2, <5>1
      <4>3. CASE chs[i] # c
        <5>1. \A j \in 1 .. Len(chs) : chs[j] = chs[i] => (j < old.ch <=> j < new.ch)
              BY <1>3, <4>1, <4>3
        <5>2. StatusMidway(w, chs[i])' = StatusMidway(w, chs[i])
              BY <1>1, <1>2, <1>3, <1>4, <1>6, <2>2, <3>3, <4>3, <5>1
                 DEF StatusMidway, Outcomes, Sendable
        <5> QED BY <1>7, <1>8, <4>3, <5>2
      <4> QED BY <4>2, <4>3
    <3> QED BY <1>4, <1>6, <3>1, <3>3 DEF Midway
  <2> QED BY <1>3, <2>1, <2>2
<1>10. position[w] \in Nat /\ Begun(id)'
       BY <1>3, <1>4 DEF Begun
<1> QED BY <1>1, <1>3, <1>4, <1>6, <1>8, <1>9, <1>10, FirstRunOfListener

\* A send takes the listener to the next recipient, and one that throws to the
\* catch clause; the record is acknowledged at "mark".
LEMMA ListenerKeepsFirstRun ==
    ASSUME Core, Orderly, FirstRun, NEW w \in Workers, Send(w) \/ SendThrows(w) \/ Acknowledge(w)
    PROVE  FirstRun'
<1>1. /\ worker \in [Workers -> WorkerState] /\ position[w] \in Nat /\ session[w]
      /\ UNCHANGED <<log, session, position, receipts, table>>
      /\ \A v \in Workers \ {w} : worker'[v] = worker[v]
  <2>1. worker \in [Workers -> WorkerState] /\ position[w] \in Nat
        BY DEF Core, TypeOK, TopicTypeOK
  <2>2. session[w]
        BY NoSessionIsIdle DEF Send, SendThrows, Acknowledge
  <2> QED BY <2>1, <2>2 DEF Send, SendThrows, Acknowledge, Store, topicVars, statusVars
<1>2. Grows
      BY <1>1, SendKeepsCore, GrowsInPlace DEF SendThrows, Acknowledge, Core, TypeOK
<1>3. Midway(w)'
  <2>1. CASE Acknowledge(w)
        BY <1>1, <2>1 DEF Acknowledge, Idle, Midway
  <2>2. CASE Send(w) \/ SendThrows(w)
    <3>1. PICK old \in WorkerState : old = worker[w]
          BY <1>1
    <3>2. /\ worker'[w].ch = old.ch /\ worker'[w].pc \in {"send", "final", "catch"}
          /\ worker'[w].pc = "catch" => WorkerChannel(w) \in Flaky
          BY <1>1, <2>2, <3>1 DEF Send, SendThrows, Caught
    <3>3. /\ Current(w)' = Current(w) /\ WorkerChannels(w)' = WorkerChannels(w)
          /\ old.pc = "send" /\ Midway(w)
          BY <1>1, <2>2, <3>1 DEF Current, WorkerChannels, Send, SendThrows, FirstRun
    <3>4. \A c : StatusMidway(w, c)' = StatusMidway(w, c)
          BY <3>1, <3>2, <3>3 DEF StatusMidway, Outcomes, Sendable
    <3>5. PICK id, c : id = Current(w) /\ c = WorkerChannels(w)[old.ch] /\ Sendable(id, c)
          BY <3>1, <3>3 DEF Midway
    <3>6. /\ "COMPLETED" \in Outcomes(id, c)
          /\ worker'[w].pc = "catch" => "FAILED" \in Outcomes(id, c)
          BY <3>1, <3>2, <3>5 DEF Outcomes, Sendable, Completed, Failed, WorkerChannel
    <3> QED BY <1>1, <3>1, <3>2, <3>3, <3>4, <3>5, <3>6 DEF Midway, Outcomes, Sendable
  <2> QED BY <2>1, <2>2
<1> QED BY <1>1, <1>2, <1>3, FirstRunOfListener

\* The other steps leave rows and listeners alone.
LEMMA AsideKeepsFirstRun ==
    ASSUME Core, Orderly, FirstRun, Calm, Calm', NEW w \in Workers, WorkerRead(w) \/ GroupStep(w)
    PROVE  FirstRun'
<1>1. ~SessionEnds(w)
      BY DEF SessionEnds, EndSession, Orderly
<1>2. UNCHANGED <<log, table, worker, sends, receipts>>
      BY <1>1 DEF WorkerRead, UpdateRead, GroupStep, JoinGroup, Assign, Begin, CommitBatch, Commit,
                  statusVars, topicVars, serviceVars
<1>3. \A v \in Workers : session[v] => session'[v] /\ position'[v] = position[v]
      BY <1>1 DEF WorkerRead, GroupStep, JoinGroup, Assign, Begin, CommitBatch, Commit, topicVars,
                  Core, TypeOK, TopicTypeOK
<1>4. Grows
      BY <1>2, GrowsInPlace DEF Core, TypeOK
<1> QED BY <1>2, <1>3, <1>4, FirstRunAside

\* Every step keeps FirstRun, as long as the calm lasts.
LEMMA NextKeepsFirstRun ==
    ASSUME Core, Orderly, FirstRun, [Next]_vars, Calm, Calm'
    PROVE  FirstRun'
<1>1. ASSUME NEW w \in Workers, WorkerStep(w) \/ GroupStep(w)
      PROVE  FirstRun'
  <2>1. ~UpdateThrows(w) /\ ~ListenerThrows(w)
        BY NoFaultInCalm DEF UpdateThrows, ListenerThrows, UpdateFails
  <2> QED BY <1>1, <2>1, ReceiveKeepsFirstRun, CommitKeepsFirstRun, ListenerKeepsFirstRun,
             AsideKeepsFirstRun DEF WorkerStep
<1>2. ~Rebalance /\ \A w \in Workers : ~Crash(w)
      BY NoFaultInCalm DEF Rebalance, Crash
<1>3. \A h \in Hooks : ~HookStep(h)
      BY HooksAtRest DEF Calm
<1> QED BY <1>1, <1>2, <1>3, OthersKeepFirstRun DEF Next

\* In the calm the rows say how far each record has come (CalmInv).
LEMMA CalmHolds == Spec => []CalmInv
<1>1. Init => CalmInv
      BY DEF Init, StatusInit, Idle, CalmInv, FirstRun, Midway
<1>2. Core /\ OrderlyInv /\ CalmInv /\ [Next]_vars => CalmInv'
      BY CalmBefore, CalmIsUndisturbed, NextKeepsFirstRun DEF OrderlyInv, CalmInv
<1> QED BY <1>1, <1>2, CoreHolds, OrderlyHolds, PTL DEF Spec

-----------------------------------------------------------------------------
(***************************************************************************)
(* A row that the listener is about to change has an unfinished channel,   *)
(* and the channel it changes has not failed.                              *)
(***************************************************************************)
LEMMA UnfinishedAtUpdate ==
    ASSUME Core, FirstRun, NEW w \in Workers, AtUpdate(w),
           NEW id \in Ids, id = Current(w), RepeatsHarmlessly(id)
    PROVE  /\ \E d \in Channels : table[id].channels[d] \in {"PENDING", "PROCESSING"} \cup Failed
           /\ table[id].channels[WorkerChannel(w)] \notin Failed
<1> DEFINE chs == Request[id].channels
           ch == worker[w].ch
<1>1. /\ ch \in 1 .. Len(chs) /\ WorkerChannels(w) = chs /\ WorkerChannel(w) = chs[ch]
      /\ Len(chs) \in Nat /\ \A i \in 1 .. Len(chs) : chs[i] \in Channels
      BY InRecordFacts, RequestFacts DEF WorkerChannels, WorkerChannel, AtUpdate
<1>2. \A i \in 1 .. Len(chs) : table[id].channels[chs[i]] \in StatusMidway(w, chs[i])
      BY <1>1 DEF FirstRun, Midway, AtUpdate
<1>3. CASE worker[w].pc # "processing"
  <2>1. table[id].channels[chs[ch]] = "PROCESSING"
        BY <1>1, <1>2, <1>3 DEF StatusMidway
  <2> QED BY <1>1, <2>1 DEF Failed
<1>4. CASE worker[w].pc = "processing"
  <2>1. \A i \in 1 .. Len(chs) :
            table[id].channels[chs[i]] \in IF \E j \in 1 .. Len(chs) : j < ch /\ chs[j] = chs[i]
                                           THEN Outcomes(id, chs[i]) ELSE {"PENDING"}
        BY <1>1, <1>2, <1>4 DEF StatusMidway
  <2>2. CASE ~NamedBefore(id, ch)
    <3>1. table[id].channels[chs[ch]] = "PENDING"
          BY <1>1, <2>1, <2>2 DEF NamedBefore
    <3> QED BY <1>1, <3>1 DEF Failed
  <2>3. CASE NamedBefore(id, ch)
    <3>1. PICK k \in 1 .. Len(chs) :
              Outcomes(id, chs[k]) = Failed \/ \A i \in 1 .. Len(chs) : i < ch => chs[i] # chs[k]
          BY <1>1, <2>3 DEF RepeatsHarmlessly
    <3>2. table[id].channels[chs[k]] \in {"PENDING"} \cup Failed
      <4>1. CASE Outcomes(id, chs[k]) = Failed
            BY <2>1, <4>1
      <4>2. CASE \A i \in 1 .. Len(chs) : i < ch => chs[i] # chs[k]
        <5>1. ~\E j \in 1 .. Len(chs) : j < ch /\ chs[j] = chs[k]
              BY <4>2
        <5> QED BY <2>1, <5>1
      <4> QED BY <3>1, <4>1, <4>2
    <3>3. Outcomes(id, chs[ch]) = Completed
          BY <1>1, <2>3 DEF RepeatsHarmlessly
    <3>4. table[id].channels[chs[ch]] \in Completed
      <4>1. \E j \in 1 .. Len(chs) : j < ch /\ chs[j] = chs[ch]
            BY <2>3 DEF NamedBefore
      <4> QED BY <1>1, <2>1, <3>3, <4>1
    <3> QED BY <1>1, <3>2, <3>4 DEF Completed, Failed
  <2> QED BY <2>2, <2>3
<1> QED BY <1>3, <1>4

\* A commit takes the row forward, or leaves its status.
LEMMA CommitTakesForward ==
    ASSUME Core, Orderly, FirstRun, NEW w \in Workers, WorkerCommit(w),
           \A id \in Ids : RepeatsHarmlessly(id),
           NEW id \in Ids, table[id] # None
    PROVE  Advances(table[id], table'[id])
<1>1. PICK i \in Ids, row \in Row, c \in Channels, s \in WorkerStatuses :
          /\ i = Current(w) /\ c = WorkerChannel(w) /\ s = StatusToReport(w)
          /\ table[i] = row
          /\ table' = [table EXCEPT ![i] = WithChannel(row, c, s)]
      BY CommittedRow
<1>2. CASE i # id
  <2>1. table'[id] = table[id]
        BY <1>1, <1>2 DEF Core, RowsInv, TransactionInv, StatusTypeOK
  <2> QED BY <2>1 DEF Advances
<1>3. CASE i = id
  <2>1. /\ \E d \in Channels : row.channels[d] \in {"PENDING", "PROCESSING"} \cup Failed
        /\ row.channels[c] \notin Failed
        BY <1>1, <1>3, UnfinishedAtUpdate DEF WorkerCommit
  <2>2. \E d \in Channels : row.channels[d] \notin Completed \cup {"ABSENT"}
        BY <2>1 DEF Completed, Failed
  <2>3. RowConsistent(row, Completed, Failed)
        BY <1>1, <1>3 DEF Orderly, RowsConsistent, Consistent
  <2>4. s \in ChannelStatuses \ {"ABSENT"} /\ Completed \cap Failed = {} /\ "ABSENT" \notin Failed
        BY DEF ChannelStatuses, WorkerStatuses, Completed, Failed
  <2>5. PICK m : m = [row.channels EXCEPT ![c] = s]
        OBVIOUS
  <2>6. WithChannel(row, c, s) = [status |-> Aggregate(m, Completed, Failed), channels |-> m]
        BY <2>5 DEF WithChannel, Overall
  <2>7. Advances(row, WithChannel(row, c, s))
        BY <2>1, <2>2, <2>3, <2>4, <2>5, <2>6, UpdateAdvances
  <2> QED BY <1>1, <1>3, <2>7 DEF Core, RowsInv, TransactionInv, StatusTypeOK
<1> QED BY <1>2, <1>3

\* Who writes rows without a callback.
LEMMA WhoWrites ==
    ASSUME Core, receipts = {}, receipts' = {}, [Next]_vars
    PROVE  \/ table' = table
           \/ \E id \in Ids : CreateInitialStatus(id, ToSet(Request[id].channels))
           \/ \E w \in Workers : WorkerCommit(w)
<1>1. ASSUME NEW id \in Ids, Post(id) \/ ApiStep(id) \/ SendRecord(id)
      PROVE  table' = table \/ CreateInitialStatus(id, ToSet(Request[id].channels))
      BY <1>1 DEF Post, ApiStep, WriteInitialRow, Produce, SendRecord, statusVars
<1>2. ASSUME NEW w \in Workers, WorkerStep(w) \/ GroupStep(w) \/ Crash(w)
      PROVE  table' = table \/ WorkerCommit(w)
      BY <1>2 DEF WorkerStep, Receive, WorkerRead, UpdateRead, UpdateThrows, ListenerThrows,
                  UpdateFails, UpdateRollback, Send, SendThrows, Acknowledge, GroupStep,
                  JoinGroup, CommitBatch, SessionEnds, Crash, statusVars
<1>3. \A h \in Hooks : ~HookStep(h)
      BY HooksAtRest
<1>4. CASE Rebalance \/ ForeignMessage \/ UNCHANGED vars
      BY <1>4 DEF Rebalance, ForeignMessage, vars, statusVars
<1> QED BY <1>1, <1>2, <1>3, <1>4 DEF Next

(***************************************************************************)
(* A client that polls GET /status sees a notification advance             *)
(* (StatusAdvances), until the first fault and until a provider calls      *)
(* back, if requests name channels again only harmlessly.                  *)
(***************************************************************************)
THEOREM StatusesAdvance ==
    ASSUME \A id \in Ids : RepeatsHarmlessly(id)
    PROVE  Spec /\ [](receipts = {}) => StatusAdvances
<1>1. ASSUME Core, OrderlyInv, CalmInv, receipts = {}, receipts' = {}, [Next]_vars, faults' = 0,
             NEW id \in Ids, GetStatus(id) # None
      PROVE  Advances(GetStatus(id), GetStatus(id)')
  <2>1. Orderly /\ FirstRun
        BY <1>1, CalmBefore, CalmIsUndisturbed DEF Calm, OrderlyInv, CalmInv
  <2>2. CASE table' = table
        BY <1>1, <2>2 DEF GetStatus, Advances
  <2>3. ASSUME NEW i \in Ids, CreateInitialStatus(i, ToSet(Request[i].channels))
        PROVE  table'[id] = table[id]
        BY <1>1, <2>3 DEF CreateInitialStatus, GetStatus, Core, RowsInv, TransactionInv, StatusTypeOK
  <2>4. ASSUME NEW w \in Workers, WorkerCommit(w)
        PROVE  Advances(table[id], table'[id])
        BY <1>1, <2>1, <2>4, CommitTakesForward DEF GetStatus
  <2> QED BY <1>1, <2>1, <2>2, <2>3, <2>4, WhoWrites DEF GetStatus, Advances
<1>2. Core /\ OrderlyInv /\ CalmInv /\ receipts = {} /\ (receipts = {})' /\ [Next]_vars
          => [faults' = 0 => \A id \in Ids :
                 GetStatus(id) # None => Advances(GetStatus(id), GetStatus(id)')]_vars
      BY <1>1
<1> QED BY <1>2, CoreHolds, OrderlyHolds, CalmHolds, PTL DEF Spec, StatusAdvances

================================================================================
