---------------------------- MODULE TsServiceProofs ----------------------------
(***************************************************************************)
(* Theorems about TsService and the TsStatusService in it, for every set   *)
(* of notifications, requests, processes, callbacks and flaky channels,    *)
(* and every bound on the faults.                                          *)
(*                                                                         *)
(* Three invariants, each proved from the ones before it: Core (types,     *)
(* rows, and where each loop is in its message), Offsets (which messages   *)
(* the offsets stand for) and AccountInv of NotificationFlowProofs (which  *)
(* turn of which loop made a delivery).  What holds only while a single    *)
(* process writes a row rests on a fourth, OrderlyInv; and what a polling  *)
(* client sees before the first fault on a fifth, CalmInv.                 *)
(***************************************************************************)
EXTENDS TsService, NotificationStatusProofs, NotificationFlowProofs

-----------------------------------------------------------------------------
(***************************************************************************)
(* The rows.  A row of id, stored or in memory, tells the truth about      *)
(* completed channels.  It may contradict itself: save writes the columns  *)
(* that differ, so that two updates may each leave one.  The row an update *)
(* has found is there until the update is over.                            *)
(***************************************************************************)
RowIsTrue(id, row) ==
    \A t \in Requested[id] :
        row.channels[t[2]] \in Completed => t \in Sent \/ Reported(id, t[2])

RowsInv ==
    /\ StatusTypeOK
    /\ \A id \in Ids : table[id] # None => RowIsTrue(id, table[id])
    /\ \A p \in Procs : call[p] # None =>
           table[call[p].id] # None /\ RowIsTrue(call[p].id, call[p].row)

(***************************************************************************)
(* A row that was true stays true, as nothing is taken back of what was    *)
(* sent and of what providers have reported.                               *)
(***************************************************************************)
LEMMA TruthKept ==
    ASSUME Grows, NEW id, NEW row, RowIsTrue(id, row)
    PROVE  RowIsTrue(id, row)'
BY DEF Grows, RowIsTrue, Reported

(***************************************************************************)
(* What updateChannelStatus makes of an entity is a row, and consistent:   *)
(* the overall status is computed from the map stored with it.             *)
(***************************************************************************)
LEMMA WithChannelFacts ==
    ASSUME NEW row \in Row, NEW c \in Channels, NEW s \in WorkerStatuses \cup Receipts
    PROVE  /\ WithChannel(row, c, s) \in Row
           /\ WithChannel(row, c, s).channels = [row.channels EXCEPT ![c] = s]
           /\ Consistent(WithChannel(row, c, s))
<1> DEFINE m == [row.channels EXCEPT ![c] = s]
<1>1. m \in ChannelMaps /\ m[c] # "ABSENT"
      BY ReceiptsAssumption DEF Row, ChannelMaps, ChannelStatuses, WorkerStatuses
<1>2. WithChannel(row, c, s) = [status |-> Aggregate(m, Completed, Failed), channels |-> m]
      BY DEF WithChannel, Overall
<1> HIDE DEF m
<1>3. WithChannel(row, c, s).channels = m
      BY <1>2
<1>4. WithChannel(row, c, s) \in Row /\ Consistent(WithChannel(row, c, s))
      BY <1>1, <1>2, AggregatedRowIsConsistent DEF Consistent
<1> QED BY <1>3, <1>4 DEF m

(***************************************************************************)
(* A step that writes no row but may drop updates in progress.             *)
(***************************************************************************)
LEMMA RowsAfterDrop ==
    ASSUME RowsInv, Grows, table' = table, StatusTypeOK',
           \A p \in Procs : call'[p] = call[p] \/ call'[p] = None
    PROVE  RowsInv'
<1>1. \A id \in Ids : table'[id] # None => RowIsTrue(id, table[id])'
      BY TruthKept DEF RowsInv
<1>2. \A p \in Procs : call'[p] # None =>
          table'[call[p].id] # None /\ RowIsTrue(call[p].id, call[p].row)'
      BY TruthKept DEF RowsInv
<1> QED BY <1>1, <1>2 DEF RowsInv

\* A step that has nothing to do with the rows.
LEMMA RowsKept ==
    ASSUME RowsInv, Grows, UNCHANGED statusVars
    PROVE  RowsInv'
BY RowsAfterDrop DEF RowsInv, StatusTypeOK, statusVars

\* An update ends without a write: there is nothing to write, or it fails.
LEMMA RowsAfterEnd ==
    ASSUME RowsInv, Grows, NEW p \in Procs, UpdateAbandon(p) \/ SaveNothing(p)
    PROVE  RowsInv'
BY RowsAfterDrop DEF RowsInv, StatusTypeOK, UpdateAbandon, SaveNothing

(***************************************************************************)
(* createInitialStatus, and the statements of updateChannelStatus.         *)
(***************************************************************************)
LEMMA RowsAfterCreate ==
    ASSUME RowsInv, Grows, NEW id \in Ids,
           CreateInitialStatus(id, ToSet(Request[id].channels))
    PROVE  RowsInv'
<1> DEFINE row == InitialRow(ToSet(Request[id].channels))
<1>1. row \in Row
      BY RequestFacts, InitialRowIsConsistent
<1>2. RowIsTrue(id, row)'
  <2>1. \A c \in Channels : row.channels[c] \notin Completed
        BY DEF InitialRow, Completed
  <2>2. \A t \in Requested[id] : t[2] \in Channels
        BY RequestFacts DEF Requested
  <2> QED BY <2>1, <2>2 DEF RowIsTrue
<1> HIDE DEF row
<1>3. table' = [table EXCEPT ![id] = row] /\ call' = call /\ table[id] = None
      BY DEF CreateInitialStatus, row
<1>4. StatusTypeOK' /\ row # None
      BY <1>1, <1>3, NoneAssumption DEF RowsInv, StatusTypeOK
<1>5. ASSUME NEW i \in Ids, table'[i] # None
      PROVE  RowIsTrue(i, table[i])'
  <2>1. CASE i = id
        BY <1>1, <1>2, <1>3, <2>1 DEF RowsInv, StatusTypeOK
  <2>2. CASE i # id
        BY <1>3, <1>5, <2>2, TruthKept DEF RowsInv, StatusTypeOK
  <2> QED BY <2>1, <2>2
<1>6. \A p \in Procs : call'[p] # None => RowIsTrue(call[p].id, call[p].row)'
      BY <1>3, TruthKept DEF RowsInv
<1>7. \A p \in Procs : call'[p] # None => table'[call[p].id] # None
      BY <1>3, <1>4 DEF RowsInv, StatusTypeOK, Call
<1> QED BY <1>3, <1>4, <1>5, <1>6, <1>7 DEF RowsInv

LEMMA RowsAfterFind ==
    ASSUME RowsInv, Grows, NEW p \in Procs, NEW id \in Ids, NEW c \in Channels,
           NEW s \in WorkerStatuses \cup Receipts, UpdateFind(p, id, c, s),
           s \in Completed => \/ \A t \in Requested[id] : t[2] = c => t \in Sent
                              \/ Reported(id, c)'
    PROVE  RowsInv'
<1>1. table[id] \in Row /\ RowIsTrue(id, table[id]) /\ table[id] # None
      BY DEF UpdateFind, RowsInv, StatusTypeOK
<1>2. PICK row \in Row : row = WithChannel(table[id], c, s)
      BY <1>1, WithChannelFacts
<1>3. row.channels = [table[id].channels EXCEPT ![c] = s]
      BY <1>1, <1>2, WithChannelFacts
<1>4. PICK v \in Call : v = [id |-> id, row |-> row, loaded |-> FALSE, changed |-> {}]
      BY DEF Call
<1>5. table' = table /\ call' = [call EXCEPT ![p] = v]
      BY <1>2, <1>4 DEF UpdateFind
<1>6. table[id].channels \in [Channels -> ChannelStatuses]
      BY <1>1 DEF Row, ChannelMaps
<1>7. \A t \in Requested[id] : t[2] \in Channels
      BY RequestFacts DEF Requested
<1>8. RowIsTrue(id, row)'
  <2> SUFFICES ASSUME NEW t \in Requested[id], row.channels[t[2]] \in Completed
               PROVE  t \in Sent' \/ Reported(id, t[2])'
      BY DEF RowIsTrue
  <2>1. CASE t[2] = c
        BY <1>3, <1>6, <1>7, <2>1 DEF Grows
  <2>2. CASE t[2] # c
    <3>1. table[id].channels[t[2]] \in Completed
          BY <1>3, <1>6, <1>7, <2>2
    <3>2. t \in Sent \/ Reported(id, t[2])
          BY <1>1, <3>1 DEF RowIsTrue
    <3> QED BY <3>2 DEF Grows, Reported
  <2> QED BY <2>1, <2>2
<1>9. StatusTypeOK'
      BY <1>5 DEF RowsInv, StatusTypeOK
<1>10. \A i \in Ids : table'[i] # None => RowIsTrue(i, table[i])'
       BY <1>5, TruthKept DEF RowsInv
<1>11. ASSUME NEW q \in Procs, call'[q] # None
       PROVE  table'[call'[q].id] # None /\ RowIsTrue(call[q].id, call[q].row)'
  <2>1. CASE q = p
    <3>1. call'[q] = v /\ v.id = id /\ v.row = row
          BY <1>4, <1>5, <2>1 DEF RowsInv, StatusTypeOK
    <3> QED BY <1>1, <1>5, <1>8, <3>1
  <2>2. CASE q # p
        BY <1>5, <1>11, <2>2, TruthKept DEF RowsInv, StatusTypeOK
  <2> QED BY <2>1, <2>2
<1> QED BY <1>9, <1>10, <1>11 DEF RowsInv

LEMMA RowsAfterLoad ==
    ASSUME RowsInv, Grows, NEW p \in Procs, SaveLoad(p)
    PROVE  RowsInv'
<1>1. PICK v \in Call : v = call[p]
      BY DEF SaveLoad, RowsInv, StatusTypeOK
<1>2. PICK diff \in SUBSET Columns : diff = Differing(v.row, table[v.id])
      BY DEF Differing
<1>3. PICK new \in Call : new = [v EXCEPT !.loaded = TRUE, !.changed = diff]
      BY DEF Call
<1>4. new.id = v.id /\ new.row = v.row
      BY <1>3 DEF Call
<1>5. table' = table /\ call' = [call EXCEPT ![p] = new] /\ call[p] # None
      BY <1>1, <1>2, <1>3 DEF SaveLoad
<1>6. StatusTypeOK'
      BY <1>5 DEF RowsInv, StatusTypeOK
<1>7. \A i \in Ids : table'[i] # None => RowIsTrue(i, table[i])'
      BY <1>5, TruthKept DEF RowsInv
<1>8. ASSUME NEW q \in Procs, call'[q] # None
      PROVE  table'[call'[q].id] # None /\ RowIsTrue(call[q].id, call[q].row)'
  <2>1. call'[q].id = call[q].id /\ call'[q].row = call[q].row /\ call[q] # None
        BY <1>1, <1>4, <1>5, <1>8 DEF RowsInv, StatusTypeOK
  <2> QED BY <1>5, <2>1, TruthKept DEF RowsInv
<1> QED BY <1>6, <1>7, <1>8 DEF RowsInv

\* SaveWrite: each column of the row is the entity's or the one that was there.
LEMMA WriteFacts ==
    ASSUME RowsInv, NEW p \in Procs, SaveWrite(p)
    PROVE  /\ call[p] \in Call /\ call[p].loaded
           /\ call' = [call EXCEPT ![p] = None]
           /\ table[call[p].id] \in Row
           /\ \E row \in Row :
                  /\ table' = [table EXCEPT ![call[p].id] = row]
                  /\ row.status = IF "status" \in call[p].changed THEN call[p].row.status
                                  ELSE table[call[p].id].status
                  /\ row.channels = IF "channels" \in call[p].changed THEN call[p].row.channels
                                    ELSE table[call[p].id].channels
<1>1. PICK v \in Call : v = call[p]
      BY DEF SaveWrite, RowsInv, StatusTypeOK
<1>2. PICK old \in Row : old = table[v.id]
      BY <1>1 DEF SaveWrite, RowsInv, StatusTypeOK, Call
<1> DEFINE row == [status   |-> IF "status" \in v.changed THEN v.row.status ELSE old.status,
                   channels |-> IF "channels" \in v.changed THEN v.row.channels ELSE old.channels]
<1>3. row \in Row
      BY DEF Row, Call
<1>4. table' = [table EXCEPT ![v.id] = row]
      BY <1>1, <1>2 DEF SaveWrite, RowsInv, StatusTypeOK
<1> QED BY <1>1, <1>2, <1>3, <1>4 DEF SaveWrite

LEMMA RowsAfterWrite ==
    ASSUME RowsInv, Grows, NEW p \in Procs, SaveWrite(p)
    PROVE  RowsInv'
<1>1. PICK id \in Ids : id = call[p].id
      BY WriteFacts DEF Call
<1>2. PICK row \in Row :
          /\ table' = [table EXCEPT ![id] = row]
          /\ row.channels = call[p].row.channels \/ row.channels = table[id].channels
      BY <1>1, WriteFacts
<1>3. call' = [call EXCEPT ![p] = None] /\ table[id] # None
      BY <1>1 DEF SaveWrite, RowsInv
<1>4. RowIsTrue(id, row)'
  <2>1. RowIsTrue(id, call[p].row) /\ RowIsTrue(id, table[id])
        BY <1>1, <1>3 DEF SaveWrite, RowsInv
  <2>2. RowIsTrue(id, row)
        BY <1>2, <2>1 DEF RowIsTrue
  <2> QED BY <2>2, TruthKept
<1>5. StatusTypeOK' /\ row # None
      BY <1>2, <1>3, NoneAssumption DEF RowsInv, StatusTypeOK
<1>6. ASSUME NEW i \in Ids, table'[i] # None
      PROVE  RowIsTrue(i, table[i])'
  <2>1. CASE i = id
        BY <1>2, <1>4, <2>1 DEF RowsInv, StatusTypeOK
  <2>2. CASE i # id
        BY <1>2, <1>6, <2>2, TruthKept DEF RowsInv, StatusTypeOK
  <2> QED BY <2>1, <2>2
<1>7. ASSUME NEW q \in Procs, call'[q] # None
      PROVE  table'[call'[q].id] # None /\ RowIsTrue(call[q].id, call[q].row)'
  <2>1. call'[q] = call[q]
        BY <1>3, <1>7 DEF RowsInv, StatusTypeOK
  <2>2. call[q].id \in Ids /\ table[call[q].id] # None
        BY <1>7, <2>1 DEF RowsInv, StatusTypeOK, Call
  <2>3. table'[call[q].id] # None
        BY <1>2, <1>5, <2>2 DEF RowsInv, StatusTypeOK
  <2> QED BY <1>7, <2>1, <2>3, TruthKept DEF RowsInv
<1> QED BY <1>5, <1>6, <1>7 DEF RowsInv

-----------------------------------------------------------------------------
(***************************************************************************)
(* Where a loop is in its message says which channels and recipients it    *)
(* has dealt with: at "mark" with all of them.  A channel whose handling   *)
(* threw before a send is one that nothing is owed over.                   *)
(***************************************************************************)
InMessage(w) ==
    LET id   == Current(w)
        chs  == Request[id].channels
        rcps == Request[id].recipients
        v    == worker[w]
        c    == chs[v.ch]
    IN  /\ session[w] /\ position[w] > 0 /\ id \in Ids
        /\ v.pc # "mark" => v.ch <= Len(chs)
        /\ \A i \in 1 .. Len(chs) : i < v.ch \/ v.pc = "mark" => ChannelDone(id, chs[i])
        /\ v.pc = "send" =>
               /\ c \in Supported /\ v.rcp <= Len(rcps)
               /\ IF v.ok THEN SentTo(id, c, v.rcp - 1) ELSE c \in Flaky
        /\ v.pc = "final" =>
               IF v.ok THEN SentTo(id, c, Len(rcps)) ELSE c \notin Supported \ Flaky
        /\ v.pc = "catch" => ChannelDone(id, c)

\* A loop between two messages has no update in progress.
WorkInv(w) ==
    /\ worker[w].pc # "wait" => InMessage(w)
    /\ call[w] # None => AtUpdate(w)

(***************************************************************************)
(* Without a callback no update of a callback is in progress.              *)
(***************************************************************************)
Core ==
    /\ TypeOK
    /\ RowsInv
    /\ \A w \in Workers : WorkInv(w)
    /\ receipts = {} => \A h \in Hooks : call[h] = None

\* A loop that is not waiting has a message of the log in hand.
LEMMA InMessageFacts ==
    ASSUME Core, NEW w \in Workers, worker[w].pc # "wait"
    PROVE  /\ InMessage(w)
           /\ Current(w) \in Ids
           /\ worker[w] \in WorkerState
           /\ worker[w].pc # "mark" => /\ worker[w].ch \in 1 .. Len(WorkerChannels(w))
                                       /\ WorkerChannel(w) \in Channels
           /\ position[w] \in 1 .. Len(log) /\ log[position[w]] = Current(w)
<1>1. InMessage(w) /\ worker[w] \in WorkerState
      BY DEF Core, WorkInv, TypeOK
<1>2. Current(w) \in Ids
      BY <1>1 DEF InMessage
<1>3. worker[w].pc # "mark" => worker[w].ch \in 1 .. Len(WorkerChannels(w))
      BY <1>1, <1>2, RequestFacts DEF InMessage, WorkerState, WorkerChannels
<1>4. worker[w].pc # "mark" => WorkerChannel(w) \in Channels
      BY <1>2, <1>3, RequestFacts DEF WorkerChannel, WorkerChannels
<1>5. position[w] \in 1 .. Len(log)
      BY <1>1 DEF InMessage, Core, TypeOK, TopicTypeOK
<1> QED BY <1>1, <1>2, <1>3, <1>4, <1>5 DEF Current

(***************************************************************************)
(* A loop that does not move is where it was, whatever others do; its      *)
(* update may have been dropped.                                           *)
(***************************************************************************)
StillWorker(w) ==
    /\ SameSession(w)
    /\ worker'[w] = worker[w]
    /\ call'[w] = call[w] \/ call'[w] = None

\* ... and still has it after a step that leaves the loop alone.
LEMMA InMessageKept ==
    ASSUME Core, Grows, NEW w \in Workers, worker[w].pc # "wait", SameSession(w),
           worker'[w] = worker[w]
    PROVE  InMessage(w)'
<1>1. InMessage(w) /\ position[w] \in 1 .. Len(log)
      BY InMessageFacts
<1>2. Current(w)' = Current(w)
      BY <1>1 DEF Current, Grows, SameSession
<1>3. /\ \A id, c, n : SentTo(id, c, n) => SentTo(id, c, n)'
      /\ \A id, c : ChannelDone(id, c) => ChannelDone(id, c)'
      BY FlowGrowthKeeps DEF Core, TypeOK
<1> QED BY <1>1, <1>2, <1>3 DEF InMessage, SameSession

\* A loop that the step leaves alone stays where it is in its message.
LEMMA StillKeeps ==
    ASSUME Core, Grows, NEW w \in Workers, StillWorker(w)
    PROVE  WorkInv(w)'
<1>1. call'[w] # None => AtUpdate(w)'
      BY DEF StillWorker, Core, WorkInv, AtUpdate
<1>2. worker'[w].pc # "wait" => InMessage(w)'
      BY InMessageKept DEF StillWorker
<1> QED BY <1>1, <1>2 DEF WorkInv

(***************************************************************************)
(* A step of one loop; a step of none.                                     *)
(***************************************************************************)
HooksStill == receipts = {} => \A h \in Hooks : call'[h] = call[h] \/ call'[h] = None

\* A step of one loop: the others keep what Core says of them.
LEMMA OnOneWorker ==
    ASSUME Core, Grows, NEW w \in Workers, \A v \in Workers \ {w} : StillWorker(v),
           HooksStill, TypeOK', RowsInv', WorkInv(w)'
    PROVE  Core'
<1>1. receipts' = {} => \A h \in Hooks : call'[h] = None
      BY DEF Core, Grows, HooksStill
<1> QED BY <1>1, StillKeeps DEF Core

\* A step of no loop.
LEMMA OffTheWorkers ==
    ASSUME Core, Grows, UNCHANGED <<session, position, stored, worker>>, TypeOK', RowsInv',
           \A w \in Workers : call'[w] = call[w] \/ call'[w] = None,
           receipts' = {} => \A h \in Hooks : call'[h] = call[h] \/ call'[h] = None
    PROVE  Core'
<1>1. \A w \in Workers : StillWorker(w)
      BY DEF StillWorker, SameSession
<1>2. receipts' = {} => \A h \in Hooks : call'[h] = None
      BY DEF Core, Grows
<1> QED BY <1>1, <1>2, StillKeeps DEF Core

(***************************************************************************)
(* What only a process and its clients keep is well typed after any of     *)
(* their steps.                                                            *)
(***************************************************************************)
ProcessTypeOK ==
    /\ phase \in [Workers -> {"down", "member", "serving"}]
    /\ host \in [Ids \cup Hooks -> Workers \cup {Nobody}]
    /\ outbox \subseteq Ids

\* The parts of the type invariant that most steps leave alone.
LEMMA TypeParts ==
    ASSUME TypeOK, StatusTypeOK', TopicTypeOK', api' \in [Ids -> ApiStates],
           worker' \in [Workers -> WorkerState], sends' \in [Deliveries -> Nat],
           receipts' \subseteq Ids \X Channels \X Receipts, ProcessTypeOK',
           base' \in -1 .. committed',
           faults' = faults \/ \E kind \in FaultKinds : Fault(kind)
    PROVE  TypeOK'
<1>1. faults' \in 0 .. MaxFaults
      BY FaultsAssumption DEF Fault, TypeOK
<1> QED BY <1>1 DEF TypeOK, ProcessTypeOK

-----------------------------------------------------------------------------
(***************************************************************************)
(* bootstrap, the steps of POST /notifications and of the Kafka client,    *)
(* and a message of somebody else.                                         *)
(***************************************************************************)
LEMMA OutsideKeepsCore ==
    ASSUME Core, RowsInv', ProcessTypeOK', api' \in [Ids -> ApiStates],
           TopicTypeOK', Grows, UNCHANGED <<session, position, stored, committed>>,
           UNCHANGED <<call, worker, sends, receipts, base>>,
           faults' = faults \/ \E kind \in FaultKinds : Fault(kind)
    PROVE  Core'
<1>1. TypeOK'
      BY TypeParts DEF Core, TypeOK, RowsInv
<1> QED BY <1>1, OffTheWorkers

LEMMA StartKeepsCore ==
    ASSUME Core, NEW w \in Workers, Start(w)
    PROVE  Core'
<1>1. log' = log /\ UNCHANGED <<session, position, stored, committed>>
      BY DEF Start, topicVars, Revoke
<1>2. Grows
      BY <1>1, GrowsInPlace DEF Start, Core, TypeOK
<1>3. TopicTypeOK'
      BY TopicTypeKept DEF Start, Revoke, Core, TypeOK, TopicTypeOK
<1>4. RowsInv'
      BY <1>2, RowsKept DEF Start, Core
<1>5. ProcessTypeOK' /\ api' \in [Ids -> ApiStates]
      BY DEF Start, Core, TypeOK, ProcessTypeOK
<1>6. faults' = faults \/ \E kind \in FaultKinds : Fault(kind)
      BY DEF Start, NoFault, Fault
<1> QED BY <1>1, <1>2, <1>3, <1>4, <1>5, <1>6, OutsideKeepsCore DEF Start, statusVars

LEMMA ListenKeepsCore ==
    ASSUME Core, NEW w \in Workers, Listen(w)
    PROVE  Core'
<1>1. Grows /\ TopicTypeOK'
      BY GrowsInPlace, TopicTypeKept DEF Listen, Core, TypeOK, topicVars, serviceVars
<1>2. RowsInv'
      BY <1>1, RowsKept DEF Listen, Core
<1>3. ProcessTypeOK' /\ api' \in [Ids -> ApiStates]
      BY DEF Listen, Core, TypeOK, ProcessTypeOK, serviceVars
<1> QED BY <1>1, <1>2, <1>3, OutsideKeepsCore DEF Listen, statusVars, serviceVars, topicVars

LEMMA PostKeepsCore ==
    ASSUME Core, NEW id \in Ids, NEW w \in Workers, Post(id, w)
    PROVE  Core'
<1>1. Grows /\ TopicTypeOK'
      BY GrowsInPlace, TopicTypeKept DEF Post, Core, TypeOK, topicVars
<1>2. RowsInv'
      BY <1>1, RowsKept DEF Post, Core
<1>3. ProcessTypeOK' /\ api' \in [Ids -> ApiStates]
      BY DEF Post, Serves, SetApi, ApiStates, Core, TypeOK, ProcessTypeOK
<1> QED BY <1>1, <1>2, <1>3, OutsideKeepsCore DEF Post, NoFault, statusVars, topicVars

LEMMA ApiStepKeepsCore ==
    ASSUME Core, NEW id \in Ids, ApiStep(id)
    PROVE  Core'
<1>1. UNCHANGED <<topicVars, worker, sends, receipts, phase, base>>
      BY DEF ApiStep, WriteInitialRow, Emit
<1>2. Grows /\ TopicTypeOK'
      BY <1>1, GrowsInPlace, TopicTypeKept DEF Core, TypeOK, topicVars
<1>3. RowsInv' /\ call' = call
      BY <1>2, RowsKept, RowsAfterCreate
         DEF ApiStep, WriteInitialRow, Emit, CreateInitialStatus, statusVars, Core
<1>4. ProcessTypeOK' /\ api' \in [Ids -> ApiStates]
      BY <1>1 DEF ApiStep, WriteInitialRow, Emit, Refuse, Release, SetApi, ApiStates, Core,
            TypeOK, ProcessTypeOK
<1>5. faults' = faults \/ \E kind \in FaultKinds : Fault(kind)
      BY DEF ApiStep, WriteInitialRow, Emit, NoFault, Fault
<1> QED BY <1>1, <1>2, <1>3, <1>4, <1>5, OutsideKeepsCore DEF topicVars

\* What Flush and ForeignMessage do to the topic.
LEMMA ProducerKeepsTopic ==
    ASSUME Core, UNCHANGED <<sends, receipts>>,
           UNCHANGED topicVars \/ \E m \in Ids \cup {Junk} : Append1(m) \/ Append2(m)
    PROVE  /\ Grows /\ TopicTypeOK'
           /\ UNCHANGED <<session, position, stored, committed>>
BY GrowsByAppend, GrowsInPlace, TopicTypeKept
   DEF Core, TypeOK, topicVars, Append1, Append2, groupVars

LEMMA FlushKeepsCore ==
    ASSUME Core, NEW id \in Ids, Flush(id)
    PROVE  Core'
<1>1. /\ Grows /\ TopicTypeOK'
      /\ UNCHANGED <<session, position, stored, committed>>
      BY ProducerKeepsTopic DEF Flush
<1>2. RowsInv'
      BY <1>1, RowsKept DEF Flush, Core
<1>3. ProcessTypeOK' /\ api' \in [Ids -> ApiStates]
      BY DEF Flush, Release, Core, TypeOK, ProcessTypeOK
<1>4. faults' = faults \/ \E kind \in FaultKinds : Fault(kind)
      BY DEF Flush, NoFault, Fault
<1> QED BY <1>1, <1>2, <1>3, <1>4, OutsideKeepsCore DEF Flush, statusVars

LEMMA ForeignMessageKeepsCore ==
    ASSUME Core, ForeignMessage
    PROVE  Core'
<1>1. /\ Grows /\ TopicTypeOK'
      /\ UNCHANGED <<session, position, stored, committed>>
      BY ProducerKeepsTopic DEF ForeignMessage
<1>2. RowsInv'
      BY <1>1, RowsKept DEF ForeignMessage, Core
<1>3. ProcessTypeOK' /\ api' \in [Ids -> ApiStates]
      BY DEF ForeignMessage, Core, TypeOK, ProcessTypeOK, processVars
<1>4. faults' = faults \/ \E kind \in FaultKinds : Fault(kind)
      BY DEF ForeignMessage, Fault
<1> QED BY <1>1, <1>2, <1>3, <1>4, OutsideKeepsCore DEF ForeignMessage, statusVars, processVars

-----------------------------------------------------------------------------
(***************************************************************************)
(* The steps of a webhook callback.                                        *)
(***************************************************************************)
LEMMA HandleCallbackKeepsCore ==
    ASSUME Core, NEW h \in Hooks, NEW w \in Workers, NEW id \in Ids, NEW c \in Channels,
           NEW s \in Receipts, HandleCallback(h, w, id, c, s)
    PROVE  Core'
<1>1. Grows /\ TopicTypeOK'
      BY GrowsInPlace, TopicTypeKept DEF HandleCallback, Core, TypeOK, topicVars
<1>2. h \in Procs /\ h \notin Workers
      BY ProcsAssumption
<1>3. s \in Completed => Reported(id, c)'
      BY DEF HandleCallback, Reported
<1>4. RowsInv'
      BY <1>1, <1>2, <1>3, RowsAfterFind DEF HandleCallback, Core
<1>5. /\ ProcessTypeOK'
      /\ receipts' \subseteq Ids \X Channels \X Receipts /\ receipts' # {}
  <2>1. ProcessTypeOK'
        BY DEF HandleCallback, Serves, Core, TypeOK, ProcessTypeOK
  <2>2. <<id, c, s>> \in Ids \X Channels \X Receipts
        OBVIOUS
  <2>3. receipts' = receipts \cup {<<id, c, s>>}
        BY DEF HandleCallback
  <2> QED BY <2>1, <2>2, <2>3 DEF Core, TypeOK
<1>6. TypeOK'
      BY <1>1, <1>4, <1>5, TypeParts DEF HandleCallback, NoFault, Core, TypeOK, RowsInv, topicVars
<1>7. \A v \in Workers : call'[v] = call[v]
      BY <1>2, ProcsAssumption DEF HandleCallback, UpdateFind, Core, TypeOK, StatusTypeOK
<1> QED BY <1>1, <1>4, <1>5, <1>6, <1>7, OffTheWorkers DEF HandleCallback, topicVars

LEMMA HookSaveKeepsCore ==
    ASSUME Core, NEW h \in Hooks, HookSave(h) \/ HookSaveFails(h)
    PROVE  Core'
<1>1. UNCHANGED <<topicVars, api, worker, sends, receipts, phase, outbox, base>>
      BY DEF HookSave, HookSaveFails, serviceVars
<1>2. Grows /\ TopicTypeOK'
      BY <1>1, GrowsInPlace, TopicTypeKept DEF Core, TypeOK, topicVars
<1>3. h \in Procs
      BY ProcsAssumption
<1>4. SaveLoad(h) \/ SaveNothing(h) \/ SaveWrite(h) \/ UpdateAbandon(h)
      BY DEF HookSave, HookSaveFails
<1>5. RowsInv'
      BY <1>2, <1>3, <1>4, RowsAfterLoad, RowsAfterEnd, RowsAfterWrite DEF Core
<1>6. faults' = faults \/ \E kind \in FaultKinds : Fault(kind)
      BY DEF HookSave, HookSaveFails, serviceVars, Fault
<1>7. ProcessTypeOK'
      BY <1>1 DEF HookSave, HookSaveFails, Release, Core, TypeOK, ProcessTypeOK
<1>8. TypeOK'
      BY <1>1, <1>2, <1>5, <1>6, <1>7, TypeParts DEF Core, TypeOK, RowsInv, topicVars
<1>9. receipts # {} /\ \A v \in Workers : call'[v] = call[v]
      BY <1>3, <1>4, ProcsAssumption
         DEF SaveLoad, SaveNothing, SaveWrite, UpdateAbandon, Core, TypeOK, StatusTypeOK
<1> QED BY <1>1, <1>2, <1>5, <1>8, <1>9, OffTheWorkers DEF topicVars

-----------------------------------------------------------------------------
(***************************************************************************)
(* The steps of handleNotification.  First the statements of an update     *)
(* that do not end it.                                                     *)
(***************************************************************************)
LEMMA DuringUpdate ==
    ASSUME Core, NEW w \in Workers, AtUpdate(w), NEW v, call' = [call EXCEPT ![w] = v],
           RowsInv', UNCHANGED <<topicVars, api, worker, sends, receipts, processVars, faults>>
    PROVE  Core'
<1>1. Grows /\ TopicTypeOK'
      BY GrowsInPlace, TopicTypeKept DEF Core, TypeOK, topicVars
<1>2. TypeOK'
      BY <1>1, TypeParts DEF Core, RowsInv, TypeOK, ProcessTypeOK, processVars, topicVars
<1>3. SameSession(w) /\ worker[w].pc # "wait"
      BY DEF SameSession, topicVars, AtUpdate
<1>4. InMessage(w)' /\ AtUpdate(w)'
      BY <1>1, <1>3, InMessageKept DEF AtUpdate
<1>5. w \in Procs /\ w \notin Hooks
      BY ProcsAssumption
<1>6. \A p \in Procs \ {w} : call'[p] = call[p]
      BY DEF Core, TypeOK, StatusTypeOK
<1>7. \A u \in Workers \ {w} : StillWorker(u)
      BY <1>6, ProcsAssumption DEF StillWorker, SameSession, topicVars
<1>8. HooksStill
      BY <1>5, <1>6, ProcsAssumption DEF HooksStill
<1> QED BY <1>1, <1>2, <1>4, <1>7, <1>8, OnOneWorker DEF WorkInv

LEMMA WorkerFindKeepsCore ==
    ASSUME Core, NEW w \in Workers, WorkerFind(w)
    PROVE  Core'
<1>1. Grows
      BY GrowsInPlace DEF WorkerFind, Core, TypeOK, topicVars
<1>2. PICK id \in Ids : id = Current(w)
      BY InMessageFacts DEF WorkerFind, AtUpdate
<1>3. PICK c \in Channels : c = WorkerChannel(w)
      BY InMessageFacts DEF WorkerFind, AtUpdate
<1>4. PICK s \in WorkerStatuses : s = StatusToReport(w)
      BY DEF StatusToReport, WorkerStatuses
<1>5. w \in Procs /\ UpdateFind(w, id, c, s)
      BY <1>2, <1>3, <1>4, ProcsAssumption DEF WorkerFind
<1>6. ASSUME s \in Completed, NEW t \in Requested[id], t[2] = c
      PROVE  t \in Sent
  <2>1. worker[w].pc = "final" /\ worker[w].ok
        BY <1>4, <1>6 DEF StatusToReport, Completed, WorkerFind, AtUpdate
  <2>2. SentTo(id, c, Len(Request[id].recipients))
        BY <1>2, <1>3, <2>1, InMessageFacts DEF InMessage, WorkerChannel, WorkerChannels
  <2> QED BY <1>6, <2>2, SentToAll
<1>7. RowsInv'
      BY <1>1, <1>5, <1>6, RowsAfterFind DEF Core
<1> QED BY <1>5, <1>7, DuringUpdate DEF WorkerFind, UpdateFind, NoFault

LEMMA WorkerLoadKeepsCore ==
    ASSUME Core, NEW w \in Workers, WorkerLoad(w)
    PROVE  Core'
<1>1. Grows
      BY GrowsInPlace DEF WorkerLoad, Core, TypeOK, topicVars
<1>2. RowsInv'
      BY <1>1, RowsAfterLoad, ProcsAssumption DEF WorkerLoad, Core
<1>3. \E v : call' = [call EXCEPT ![w] = v]
      BY DEF WorkerLoad, SaveLoad
<1> QED BY <1>2, <1>3, DuringUpdate DEF WorkerLoad, NoFault

(***************************************************************************)
(* updateChannelStatus has returned.                                       *)
(***************************************************************************)
LEMMA AfterUpdateMoves ==
    ASSUME Core, Grows, NEW w \in Workers, AtUpdate(w), UNCHANGED topicVars, AfterUpdate(w),
           call'[w] = None
    PROVE  /\ worker' \in [Workers -> WorkerState]
           /\ \A v \in Workers \ {w} : worker'[v] = worker[v]
           /\ WorkInv(w)'
<1>1. PICK id \in Ids : id = Current(w)
      BY InMessageFacts DEF AtUpdate
<1>2. PICK old \in WorkerState : old = worker[w]
      BY InMessageFacts DEF AtUpdate
<1> DEFINE chs == Request[id].channels
           rcps == Request[id].recipients
           c == chs[old.ch]
           next == IF old.pc = "processing" THEN Dispatch(w)
                   ELSE AtChannel(old.ch + 1, Len(chs))
<1>3. /\ InMessage(w) /\ old.ch \in 1 .. Len(chs) /\ c \in Channels
      /\ Len(chs) \in Nat /\ Len(rcps) \in Nat /\ rcps \in Seq(Recipients)
      /\ old.pc \in {"processing", "final", "catch"}
      BY <1>1, <1>2, InMessageFacts, RequestFacts, RequestAssumption
         DEF WorkerChannels, WorkerChannel, Requests, AtUpdate
<1>4. worker' = [worker EXCEPT ![w] = next]
      BY <1>1, <1>2 DEF AfterUpdate, WorkerChannels
<1>5. next \in WorkerState
  <2>1. CASE old.pc = "processing"
        BY <1>2, <2>1 DEF Dispatch, WorkerState, WorkerPcs
  <2>2. CASE old.pc # "processing"
        BY <1>3, <2>2 DEF AtChannel, WorkerState, WorkerPcs
  <2> QED BY <2>1, <2>2
<1>6. PICK new \in WorkerState : new = next
      BY <1>5
<1>7. worker'[w] = new
      BY <1>4, <1>6 DEF Core, TypeOK
<1>8. /\ Current(w)' = id /\ session'[w] /\ position'[w] > 0
      /\ position' = position /\ log'[position[w]] = id
      BY <1>1, <1>3 DEF Current, InMessage, topicVars
<1>9. \A i \in 1 .. Len(chs) : i < old.ch => ChannelDone(id, chs[i])'
      BY <1>1, <1>2, <1>3, FlowGrowthKeeps DEF InMessage, Core, TypeOK
<1>10. WorkInv(w)'
  <2>1. CASE old.pc = "processing" /\ (c \notin Supported \/ id \in NoRecipients)
    <3>1. new.pc = "catch" /\ new.ch = old.ch
          BY <1>1, <1>2, <1>6, <2>1 DEF Dispatch, WorkerChannel, WorkerChannels, WorkerState
    <3>2. ChannelDone(id, c)'
      <4>1. CASE c \notin Supported
            BY <4>1 DEF ChannelDone
      <4>2. CASE id \in NoRecipients
        <5>1. Len(rcps) = 0
              BY <4>2, NoRecipientsAssumption
        <5> QED BY <5>1 DEF ChannelDone, SentTo
      <4> QED BY <2>1, <4>1, <4>2
    <3> QED BY <1>3, <1>7, <1>8, <1>9, <3>1, <3>2 DEF InMessage, WorkInv
  <2>2. CASE old.pc = "processing" /\ c \in Supported /\ id \notin NoRecipients
    <3>1. /\ new.pc = IF rcps = <<>> THEN "final" ELSE "send"
          /\ new.ch = old.ch /\ new.rcp = 1 /\ new.ok = TRUE
          BY <1>1, <1>2, <1>6, <2>2
             DEF Dispatch, WorkerChannel, WorkerChannels, WorkerRecipients, WorkerState
    <3>2. SentTo(id, c, 0)'
          BY DEF SentTo
    <3>3. IF rcps = <<>> THEN Len(rcps) = 0 ELSE Len(rcps) >= 1
          BY <1>3, EmptySeq
    <3> QED BY <1>3, <1>7, <1>8, <1>9, <2>2, <3>1, <3>2, <3>3
            DEF InMessage, WorkInv
  <2>3. CASE old.pc \in {"final", "catch"}
    <3>1. ChannelDone(id, c)'
          BY <1>1, <1>2, <1>3, <2>3, FlowGrowthKeeps DEF InMessage, ChannelDone, Core, TypeOK
    <3>2. \A i \in 1 .. Len(chs) : i <= old.ch => ChannelDone(id, chs[i])'
          BY <1>3, <1>9, <3>1
    <3>3. CASE old.ch + 1 <= Len(chs)
      <4>1. new.pc = "processing" /\ new.ch = old.ch + 1
            BY <1>6, <2>3, <3>3 DEF AtChannel
      <4> QED BY <1>3, <1>7, <1>8, <3>2, <3>3, <4>1 DEF InMessage, WorkInv
    <3>4. CASE ~(old.ch + 1 <= Len(chs))
      <4>1. new.pc = "mark"
            BY <1>6, <2>3, <3>4 DEF AtChannel
      <4>2. \A i \in 1 .. Len(chs) : ChannelDone(id, chs[i])'
            BY <1>3, <3>2, <3>4
      <4> QED BY <1>7, <1>8, <4>1, <4>2 DEF InMessage, WorkInv
    <3> QED BY <3>3, <3>4
  <2> QED BY <1>3, <2>1, <2>2, <2>3
<1> QED BY <1>4, <1>5, <1>10 DEF Core, TypeOK

\* A step that ends the update of w, or has found none.
LEMMA UpdateOver ==
    ASSUME Core, NEW w \in Workers,
           \/ call[w] = None /\ UNCHANGED statusVars
           \/ UpdateAbandon(w) \/ SaveNothing(w) \/ SaveWrite(w)
    PROVE  /\ call'[w] = None
           /\ \A p \in Procs \ {w} : call'[p] = call[p]
           /\ Grows => RowsInv'
<1>1. w \in Procs
      BY ProcsAssumption
<1>2. Grows => RowsInv'
      BY <1>1, RowsKept, RowsAfterEnd, RowsAfterWrite DEF Core
<1> QED BY <1>1, <1>2 DEF UpdateAbandon, SaveNothing, SaveWrite, statusVars, Core, TypeOK,
        StatusTypeOK

\* The step is one of w alone.
LEMMA OthersAreStill ==
    ASSUME NEW w \in Workers, \A p \in Procs \ {w} : call'[p] = call[p],
           \A v \in Workers \ {w} : SameSession(v) /\ worker'[v] = worker[v]
    PROVE  /\ \A v \in Workers \ {w} : StillWorker(v)
           /\ HooksStill
BY ProcsAssumption DEF StillWorker, HooksStill

LEMMA WorkerUpdatedKeepsCore ==
    ASSUME Core, NEW w \in Workers, WorkerUpdated(w)
    PROVE  Core'
<1>1. Grows /\ TopicTypeOK'
      BY GrowsInPlace, TopicTypeKept DEF WorkerUpdated, Core, TypeOK, topicVars
<1>2. /\ call'[w] = None /\ RowsInv'
      /\ \A p \in Procs \ {w} : call'[p] = call[p]
      BY <1>1, UpdateOver DEF WorkerUpdated
<1>3. /\ worker' \in [Workers -> WorkerState]
      /\ \A v \in Workers \ {w} : worker'[v] = worker[v]
      /\ WorkInv(w)'
      BY <1>1, <1>2, AfterUpdateMoves DEF WorkerUpdated
<1>4. (\A v \in Workers \ {w} : StillWorker(v)) /\ HooksStill
      BY <1>2, <1>3, OthersAreStill DEF WorkerUpdated, SameSession, topicVars
<1>5. TypeOK'
      BY <1>1, <1>2, <1>3, TypeParts
         DEF WorkerUpdated, NoFault, Core, RowsInv, TypeOK, ProcessTypeOK, processVars, topicVars
<1> QED BY <1>1, <1>2, <1>3, <1>4, <1>5, OnOneWorker

LEMMA UpdateThrowsKeepsCore ==
    ASSUME Core, NEW w \in Workers, UpdateThrows(w)
    PROVE  Core'
<1>1. log' = log /\ committed' = committed /\ owner' = owner
      BY DEF UpdateThrows, Redeliver, topicVars
<1>2. Grows
      BY <1>1, GrowsInPlace DEF UpdateThrows, Core, TypeOK
<1>3. /\ call'[w] = None /\ RowsInv'
      /\ \A p \in Procs \ {w} : call'[p] = call[p]
      BY <1>2, UpdateOver DEF UpdateThrows
<1>4. /\ InMessage(w) /\ worker[w] \in WorkerState /\ position[w] \in 1 .. Len(log)
      /\ AtUpdate(w) /\ worker[w].ch \in 1 .. Len(WorkerChannels(w))
      BY InMessageFacts DEF UpdateThrows, AtUpdate
<1>5. /\ TopicTypeOK' /\ worker' \in [Workers -> WorkerState] /\ WorkInv(w)'
      /\ \A v \in Workers \ {w} : SameSession(v) /\ worker'[v] = worker[v]
  <2>1. CASE worker[w].pc = "final"
    <3>1. UNCHANGED topicVars /\ worker' = [worker EXCEPT ![w].pc = "catch"]
          BY <2>1 DEF UpdateThrows
    <3>2. PICK new \in WorkerState : new = [worker[w] EXCEPT !.pc = "catch"]
          BY <1>4 DEF WorkerState, WorkerPcs
    <3>3. /\ worker' = [worker EXCEPT ![w] = new]
          /\ new.pc = "catch" /\ new.ch = worker[w].ch
          BY <1>4, <3>1, <3>2 DEF WorkerState, Core, TypeOK
    <3>4. /\ worker' \in [Workers -> WorkerState] /\ worker'[w] = new
          /\ \A v \in Workers \ {w} : worker'[v] = worker[v]
          BY <3>3 DEF Core, TypeOK
    <3>5. PICK id \in Ids : id = Current(w) /\ id = Current(w)' /\ session'[w] /\ position'[w] > 0
          BY <1>4, <3>1 DEF InMessage, Current, topicVars
    <3>6. /\ new.ch <= Len(Request[id].channels)
          /\ \A i \in 1 .. Len(Request[id].channels) :
                 i < new.ch => ChannelDone(id, Request[id].channels[i])
          /\ ChannelDone(id, Request[id].channels[new.ch])
          BY <1>4, <2>1, <3>3, <3>5 DEF InMessage, ChannelDone
    <3>7. /\ \A i \in 1 .. Len(Request[id].channels) :
                 i < new.ch => ChannelDone(id, Request[id].channels[i])'
          /\ ChannelDone(id, Request[id].channels[new.ch])'
          BY <1>2, <3>6, FlowGrowthKeeps DEF Core, TypeOK
    <3>8. InMessage(w)'
          BY <3>3, <3>4, <3>5, <3>6, <3>7 DEF InMessage
    <3>9. TopicTypeOK' /\ \A v \in Workers \ {w} : SameSession(v)
          BY <3>1, TopicTypeKept DEF Core, TypeOK, SameSession, topicVars
    <3> QED BY <1>3, <3>4, <3>8, <3>9 DEF WorkInv
  <2>2. CASE worker[w].pc # "final"
    <3>1. worker' = [worker EXCEPT ![w] = Idle] /\ Redeliver(w)
          BY <2>2 DEF UpdateThrows
    <3>2. Idle \in WorkerState /\ Idle.pc = "wait"
          BY DEF Idle, WorkerState, WorkerPcs
    <3>3. TopicTypeOK' /\ \A v \in Workers \ {w} : SameSession(v)
          BY SMTT(30), <1>4, <3>1 DEF Redeliver, SameSession, Core, TypeOK, TopicTypeOK
    <3> QED BY <1>3, <3>1, <3>2, <3>3 DEF WorkInv, Core, TypeOK
  <2> QED BY <2>1, <2>2
<1>6. (\A v \in Workers \ {w} : StillWorker(v)) /\ HooksStill
      BY <1>3, <1>5, OthersAreStill
<1>7. faults' = faults \/ \E kind \in FaultKinds : Fault(kind)
      BY DEF UpdateThrows, Fault
<1>8. TypeOK'
      BY <1>1, <1>3, <1>5, <1>7, TypeParts
         DEF UpdateThrows, Core, RowsInv, TypeOK, ProcessTypeOK, processVars
<1> QED BY <1>2, <1>3, <1>5, <1>6, <1>8, OnOneWorker

(***************************************************************************)
(* A turn of the recipient loop.                                           *)
(***************************************************************************)
LEMMA SendKeepsCore ==
    ASSUME Core, NEW w \in Workers, Send(w)
    PROVE  Core' /\ Grows /\ AtTurn(w) /\ TurnTaken(w)
<1>1. PICK id \in Ids : id = Current(w)
      BY InMessageFacts DEF Send
<1>2. PICK old \in WorkerState : old = worker[w]
      BY InMessageFacts DEF Send
<1> DEFINE chs == Request[id].channels
           rcps == Request[id].recipients
           c == chs[old.ch]
           t == <<id, c, rcps[old.rcp]>>
<1>3. /\ InMessage(w) /\ old.pc = "send" /\ old.ch \in 1 .. Len(chs) /\ c \in Channels
      /\ Len(rcps) \in Nat /\ old.rcp \in 1 .. Len(rcps) /\ c \in Supported
      /\ IF old.ok THEN SentTo(id, c, old.rcp - 1) ELSE c \in Flaky
  <2>1. InMessage(w) /\ old.pc = "send" /\ old.ch \in 1 .. Len(chs) /\ c \in Channels
        BY <1>1, <1>2, InMessageFacts DEF Send, WorkerChannels, WorkerChannel
  <2> QED BY SMTT(30), <1>1, <1>2, <2>1, RequestFacts DEF InMessage, WorkerState
<1>4. WorkerChannel(w) = c /\ WorkerRecipients(w) = rcps /\ t \in Deliveries
      BY <1>1, <1>2, <1>3, RequestFacts
         DEF WorkerChannel, WorkerChannels, WorkerRecipients, Deliveries
<1>5. PICK delivered \in BOOLEAN :
          /\ AfterSend(w, delivered)
          /\ IF delivered THEN sends' = [sends EXCEPT ![t] = @ + 1]
             ELSE c \in Flaky /\ sends' = sends
      BY <1>1, <1>2, <1>4 DEF Send
<1>6. sends' \in [Deliveries -> Nat] /\ Sent \subseteq Sent' /\ (delivered => t \in Sent')
  <2>1. PICK d \in Deliveries : d = t
        BY <1>4
  <2>2. sends \in [Deliveries -> Nat]
        BY DEF Core, TypeOK
  <2>3. CASE delivered
    <3>1. sends' = [sends EXCEPT ![d] = @ + 1]
          BY <1>5, <2>1, <2>3
    <3> QED BY <2>1, <2>2, <3>1, SentGrows
  <2>4. CASE ~delivered
    <3>1. sends' = sends
          BY <1>5, <2>4
    <3> QED BY <2>2, <2>4, <3>1 DEF Sent
  <2> QED BY <2>3, <2>4
<1>7. Grows
      BY <1>6 DEF Grows, Send, topicVars, Core, TypeOK, TopicTypeOK
<1>8. PICK new \in WorkerState :
          /\ worker' = [worker EXCEPT ![w] = new]
          /\ new.pc = IF old.rcp = Len(rcps) THEN "final" ELSE "send"
          /\ new.ch = old.ch /\ new.rcp = old.rcp + 1 /\ new.ok = (old.ok /\ delivered)
  <2> DEFINE next == [pc |-> IF old.rcp = Len(rcps) THEN "final" ELSE "send",
                      ch |-> old.ch, rcp |-> old.rcp + 1, ok |-> old.ok /\ delivered]
  <2>1. worker' = [worker EXCEPT ![w] = next]
        BY <1>2, <1>4, <1>5 DEF AfterSend
  <2>2. next \in WorkerState
        BY <1>3 DEF WorkerState, WorkerPcs
  <2>3. /\ next.pc = IF old.rcp = Len(rcps) THEN "final" ELSE "send"
        /\ next.ch = old.ch /\ next.rcp = old.rcp + 1 /\ next.ok = (old.ok /\ delivered)
        OBVIOUS
  <2> QED BY <2>1, <2>2, <2>3
<1>9. /\ worker' \in [Workers -> WorkerState] /\ worker'[w] = new
      /\ \A v \in Workers \ {w} : worker'[v] = worker[v]
      /\ call[w] = None /\ call' = call
      BY <1>8 DEF Send, WorkInv, AtUpdate, statusVars, Core, TypeOK
<1>10. InMessage(w)'
  <2>1. Current(w)' = id /\ session'[w] /\ position'[w] > 0
        BY <1>1, <1>3 DEF Current, InMessage, Send, topicVars
  <2>2. \A i \in 1 .. Len(chs) : i < old.ch => ChannelDone(id, chs[i])'
        BY <1>1, <1>2, <1>3, <1>7, FlowGrowthKeeps DEF InMessage, Core, TypeOK
  <2>3. IF new.ok THEN SentTo(id, c, old.rcp)' ELSE c \in Flaky
    <3>1. CASE new.ok
      <4>1. SentTo(id, c, old.rcp - 1)' /\ t \in Sent'
            BY <1>3, <1>6, <1>7, <1>8, <3>1, FlowGrowthKeeps DEF Core, TypeOK
      <4>2. \A j \in 1 .. old.rcp : j = old.rcp \/ j \in 1 .. old.rcp - 1
            BY <1>3
      <4>3. \A j \in 1 .. old.rcp : <<id, c, rcps[j]>> \in Sent'
            BY <4>1, <4>2 DEF SentTo
      <4> QED BY <3>1, <4>3 DEF SentTo
    <3>2. CASE ~new.ok
          BY <1>3, <1>5, <1>8, <3>2
    <3> QED BY <3>1, <3>2
  <2>4. CASE old.rcp = Len(rcps)
        BY <1>3, <1>8, <1>9, <2>1, <2>2, <2>3, <2>4 DEF InMessage
  <2>5. CASE old.rcp # Len(rcps)
    <3>1. /\ new.pc = "send" /\ new.ch = old.ch /\ new.rcp = old.rcp + 1
          /\ new.rcp <= Len(rcps) /\ new.rcp - 1 = old.rcp
          BY <1>3, <1>8, <2>5
    <3>2. IF new.ok THEN SentTo(id, c, new.rcp - 1)' ELSE c \in Flaky
          BY <2>3, <3>1
    <3> QED BY <1>3, <1>9, <2>1, <2>2, <3>1, <3>2 DEF InMessage
  <2> QED BY <2>4, <2>5
<1>11. RowsInv'
       BY <1>7, RowsKept DEF Send, Core
<1>12. TypeOK' /\ UNCHANGED topicVars
       BY <1>6, <1>9, <1>11, TopicTypeKept, TypeParts
          DEF Send, Core, RowsInv, TypeOK, NoFault, ProcessTypeOK, processVars, topicVars
<1>13. (\A v \in Workers \ {w} : StillWorker(v)) /\ HooksStill
       BY <1>9, <1>10, <1>12, OthersAreStill DEF SameSession, topicVars
<1>14. Core'
       BY <1>7, <1>9, <1>10, <1>11, <1>12, <1>13, OnOneWorker DEF WorkInv
<1>15. AtTurn(w) /\ TurnTaken(w)
  <2>1. Current(w) = id /\ WorkerChannels(w) = chs /\ DOMAIN chs = 1 .. Len(chs)
        /\ DOMAIN rcps = 1 .. Len(rcps) /\ position[w] \in 1 .. Len(log)
        BY <1>1, <1>2, <1>3, RequestAssumption, InMessageFacts DEF WorkerChannels, Requests
  <2>2. AtTurn(w)
        BY <1>1, <1>2, <1>3, <1>4, <2>1 DEF AtTurn, InMessage
  <2> QED BY <1>2, <1>8, <1>9, <2>2 DEF TurnTaken
<1> QED BY <1>7, <1>14, <1>15

-----------------------------------------------------------------------------
(***************************************************************************)
(* The steps that move offsets or sessions.                                *)
(***************************************************************************)
LEMMA IdleHasNoUpdate ==
    ASSUME Core, NEW w \in Workers, worker[w].pc \in {"wait", "mark"} \/ ~session[w]
    PROVE  /\ call[w] = None
           /\ ~session[w] => worker[w].pc = "wait"
BY DEF Core, WorkInv, AtUpdate, InMessage

LEMMA LoopStepKeepsCore ==
    ASSUME Core, NEW w \in Workers, call[w] = None, call' = call, table' = table,
           Grows, TopicTypeOK', \A v \in Workers \ {w} : SameSession(v) /\ worker'[v] = worker[v],
           worker' \in [Workers -> WorkerState],
           worker'[w].pc = "wait" \/ InMessage(w)',
           UNCHANGED <<api, sends, receipts, phase, host, outbox, faults>>,
           base' \in -1 .. committed'
    PROVE  Core'
<1>1. RowsInv'
      BY RowsKept DEF Core, statusVars
<1>2. TypeOK'
      BY <1>1, TypeParts DEF Core, TypeOK, RowsInv, ProcessTypeOK
<1>3. (\A v \in Workers \ {w} : StillWorker(v)) /\ HooksStill
      BY OthersAreStill
<1>4. WorkInv(w)'
      BY DEF WorkInv
<1> QED BY <1>1, <1>2, <1>3, <1>4, OnOneWorker

LEMMA ReceiveKeepsCore ==
    ASSUME Core, NEW w \in Workers, Receive(w)
    PROVE  Core'
<1>1. Grows
      BY GrowsInPlace DEF Receive, Deliver, Core, TypeOK
<1>2. PICK n : n = position[w] + 1
      OBVIOUS
<1>3. /\ TopicTypeOK'
      /\ n \in 1 .. Len(log) /\ log[n] \in Ids \cup {Junk}
      /\ session[w] /\ session' = session
      /\ position'[w] = n /\ Current(w)' = log[n]
      /\ \A v \in Workers \ {w} : SameSession(v)
      BY <1>2, DeliverFacts DEF Receive, Core, TypeOK
<1>4. PICK id \in Ids : id = log[n]
      BY <1>2, <1>3 DEF Receive
<1> DEFINE next == AtChannel(1, Len(Request[id].channels))
<1>5. /\ next \in WorkerState
      /\ IF 1 <= Len(Request[id].channels) THEN next.pc = "processing" /\ next.ch = 1
         ELSE next.pc = "mark"
      BY DEF AtChannel, WorkerState, WorkerPcs
<1>6. PICK new \in WorkerState :
          /\ worker' = [worker EXCEPT ![w] = new]
          /\ IF 1 <= Len(Request[id].channels) THEN new.pc = "processing" /\ new.ch = 1
             ELSE new.pc = "mark"
      BY <1>2, <1>4, <1>5 DEF Receive
<1>7. /\ worker' \in [Workers -> WorkerState] /\ worker'[w] = new
      /\ \A v \in Workers \ {w} : worker'[v] = worker[v]
      BY <1>6 DEF Core, TypeOK
<1>8. Len(Request[id].channels) \in Nat
      BY RequestFacts
<1>9. InMessage(w)'
  <2>1. CASE 1 <= Len(Request[id].channels)
        BY <1>3, <1>4, <1>6, <1>7, <2>1 DEF InMessage
  <2>2. CASE ~(1 <= Len(Request[id].channels))
        BY <1>3, <1>4, <1>6, <1>7, <1>8, <2>2 DEF InMessage
  <2> QED BY <2>1, <2>2
<1>10. call[w] = None /\ base' \in -1 .. committed'
       BY IdleHasNoUpdate DEF Receive, Deliver, processVars, Core, TypeOK
<1> QED BY <1>1, <1>3, <1>7, <1>9, <1>10, LoopStepKeepsCore
        DEF Receive, NoFault, statusVars, processVars

\* A loop at the acknowledgement has done all that is owed for its message.
LEMMA MarkedIsHandled ==
    ASSUME Core, NEW w \in Workers, worker[w].pc = "mark"
    PROVE  /\ position[w] \in 1 .. Len(log) /\ log[position[w]] # Junk
           /\ Handled(position[w])
<1>1. PICK id \in Ids : id = Current(w)
      BY InMessageFacts
<1>2. InMessage(w) /\ position[w] \in 1 .. Len(log) /\ log[position[w]] = id
      BY <1>1, InMessageFacts
<1>3. \A i \in 1 .. Len(Request[id].channels) : ChannelDone(id, Request[id].channels[i])
      BY <1>1, <1>2 DEF InMessage
<1> QED BY <1>2, <1>3, AllDoneIsHandled, JunkAssumption, KeysAssumption DEF Handled

LEMMA ReturnKeepsCore ==
    ASSUME Core, NEW w \in Workers, Return(w)
    PROVE  Core'
<1>1. /\ TopicTypeOK' /\ log' = log /\ committed' = committed
      /\ \A v \in Workers \ {w} : SameSession(v)
      BY StoreFacts DEF Return, Store, Core, TypeOK
<1>2. Grows
      BY <1>1, GrowsInPlace DEF Return, Core, TypeOK
<1>3. Idle \in WorkerState /\ Idle.pc = "wait"
      BY DEF Idle, WorkerState, WorkerPcs
<1>4. /\ worker' \in [Workers -> WorkerState] /\ worker'[w].pc = "wait"
      /\ \A v \in Workers \ {w} : worker'[v] = worker[v]
      BY <1>3 DEF Return, Core, TypeOK
<1>5. call[w] = None
      BY IdleHasNoUpdate DEF Return
<1> QED BY <1>1, <1>2, <1>4, <1>5, LoopStepKeepsCore
        DEF Return, NoFault, statusVars, processVars, Core, TypeOK

LEMMA JoinGroupKeepsCore ==
    ASSUME Core, NEW w \in Workers, JoinGroup(w)
    PROVE  Core' /\ worker[w].pc = "wait"
<1>1. ~session[w] /\ owner' = w /\ log' = log /\ committed' = committed
      BY DEF JoinGroup, Grant, FirstFetch, Begin
<1>2. TopicTypeOK' /\ \A v \in Workers \ {w} : SameSession(v)
  <2>1. CASE Grant(w)
        BY <2>1 DEF Grant, Core, TypeOK, TopicTypeOK, SameSession
  <2>2. CASE FirstFetch(w, "latest")
        BY <1>1, <2>2, BeginFacts DEF FirstFetch, Core, TypeOK
  <2> QED BY <2>1, <2>2 DEF JoinGroup
<1>3. Grows
      BY <1>1, GrowsInPlace DEF JoinGroup, serviceVars, Core, TypeOK
<1>4. call[w] = None /\ worker[w].pc = "wait"
      BY <1>1, IdleHasNoUpdate
<1> QED BY <1>1, <1>2, <1>3, <1>4, LoopStepKeepsCore
        DEF JoinGroup, statusVars, serviceVars, processVars, Core, TypeOK

LEMMA AutoCommitKeepsCore ==
    ASSUME Core, NEW w \in Workers, AutoCommit(w)
    PROVE  Core'
<1>1. /\ TopicTypeOK' /\ committed' \in 0 .. Len(log) /\ committed' > committed
      /\ \A v \in Workers : SameSession(v)
      BY CommitFacts DEF AutoCommit, Core, TypeOK
<1>2. log' = log /\ UNCHANGED <<session, position, stored>>
      BY DEF AutoCommit, Commit
<1>3. Grows
      BY <1>2, GrowsInPlace DEF AutoCommit, serviceVars, Core, TypeOK
<1>4. RowsInv'
      BY <1>3, RowsKept DEF AutoCommit, Core
<1>5. base' \in -1 .. committed'
      BY <1>1 DEF AutoCommit, Core, TypeOK, TopicTypeOK
<1>6. TypeOK'
      BY <1>1, <1>2, <1>4, <1>5, TypeParts
         DEF AutoCommit, serviceVars, Core, RowsInv, TypeOK, ProcessTypeOK
<1> QED BY <1>2, <1>3, <1>4, <1>6, OffTheWorkers DEF AutoCommit, statusVars, serviceVars

LEMMA SessionEndsKeepsCore ==
    ASSUME Core, NEW w \in Workers, SessionEnds(w)
    PROVE  Core'
<1>1. Close(w) /\ owner' = owner /\ owner \in Workers \cup {Nobody}
      BY DEF SessionEnds, EndSession, Core, TypeOK, TopicTypeOK
<1>2. /\ TopicTypeOK' /\ \A v \in Workers \ {w} : SameSession(v)
      /\ log' = log /\ committed' = committed
      BY <1>1, CloseFacts DEF Core, TypeOK, Close
<1>3. Grows
      BY <1>2, GrowsInPlace DEF SessionEnds, serviceVars, Core, TypeOK
<1>4. call[w] = None /\ worker[w].pc = "wait"
      BY IdleHasNoUpdate DEF SessionEnds
<1> QED BY <1>2, <1>3, <1>4, LoopStepKeepsCore
        DEF SessionEnds, statusVars, serviceVars, processVars, Core, TypeOK

LEMMA RebalanceKeepsCore ==
    ASSUME Core, Rebalance
    PROVE  Core'
<1>1. UNCHANGED <<log, committed, session, position, stored>> /\ owner' = Nobody
      BY DEF Rebalance, Revoke
<1>2. Grows
      BY <1>1, GrowsInPlace DEF Rebalance, Core, TypeOK
<1>3. RowsInv'
      BY <1>2, RowsKept DEF Rebalance, Core
<1>4. TopicTypeOK'
      BY <1>1 DEF Core, TypeOK, TopicTypeOK
<1>5. ProcessTypeOK' /\ api' \in [Ids -> ApiStates]
      BY DEF Rebalance, processVars, Core, TypeOK, ProcessTypeOK
<1>6. \E kind \in FaultKinds : Fault(kind)
      BY DEF Rebalance, Fault
<1> QED BY <1>1, <1>2, <1>3, <1>4, <1>5, <1>6, OutsideKeepsCore
        DEF Rebalance, statusVars, processVars

(***************************************************************************)
(* A crash: the process forgets its message, the requests and callbacks it *)
(* serves, and what it has not sent.                                       *)
(***************************************************************************)
LEMMA CrashKeepsCore ==
    ASSUME Core, NEW w \in Workers, Crash(w)
    PROVE  /\ Core' /\ Grows /\ table' = table
           /\ call'[w] = None
           /\ \A v \in Workers \ {w} : StillWorker(v)
<1>1. PICK gone \in SUBSET (Ids \cup Hooks) :
          /\ api' = [id \in Ids |-> IF id \in gone \cap InProgress THEN "aborted" ELSE api[id]]
          /\ call' = [p \in Procs |-> IF p \in gone \cup {w} THEN None ELSE call[p]]
          /\ outbox' = outbox \ gone
          /\ host' = [r \in Ids \cup Hooks |-> IF r \in gone THEN Nobody ELSE host[r]]
      BY DEF Crash
<1>2. Close(w) /\ owner' \in Workers \cup {Nobody}
      BY DEF Crash, Leave, Core, TypeOK, TopicTypeOK
<1>3. /\ TopicTypeOK' /\ \A v \in Workers \ {w} : SameSession(v)
      /\ log' = log /\ committed' = committed
      BY <1>2, CloseFacts DEF Core, TypeOK, Close
<1>4. Grows
      BY <1>3, GrowsInPlace DEF Crash, Core, TypeOK
<1>5. \A p \in Procs : call'[p] = call[p] \/ call'[p] = None
      BY <1>1
<1>6. StatusTypeOK' /\ call'[w] = None
      BY <1>1, ProcsAssumption DEF Crash, Core, TypeOK, StatusTypeOK
<1>7. RowsInv'
      BY <1>4, <1>5, <1>6, RowsAfterDrop DEF Crash, Core
<1>8. Idle \in WorkerState /\ Idle.pc = "wait"
      BY DEF Idle, WorkerState, WorkerPcs
<1>9. /\ worker' \in [Workers -> WorkerState] /\ worker'[w].pc = "wait"
      /\ \A v \in Workers \ {w} : worker'[v] = worker[v]
      BY <1>8 DEF Crash, Core, TypeOK
<1>10. api' \in [Ids -> ApiStates]
       BY <1>1 DEF Core, TypeOK, ApiStates
<1>11. ProcessTypeOK'
  <2>1. host' \in [Ids \cup Hooks -> Workers \cup {Nobody}]
        BY <1>1 DEF Core, TypeOK
  <2>2. outbox' \subseteq Ids /\ phase' \in [Workers -> {"down", "member", "serving"}]
        BY <1>1 DEF Crash, Core, TypeOK
  <2> QED BY <2>1, <2>2 DEF ProcessTypeOK
<1>12. \E kind \in FaultKinds : Fault(kind)
       BY DEF Crash, Fault
<1>13. TypeOK'
       BY <1>3, <1>6, <1>9, <1>10, <1>11, <1>12, TypeParts DEF Crash, Core, TypeOK
<1>14. /\ \A v \in Workers \ {w} : StillWorker(v)
       /\ HooksStill
       BY <1>3, <1>5, <1>9, ProcsAssumption DEF StillWorker, HooksStill
<1>15. WorkInv(w)'
       BY <1>6, <1>9 DEF WorkInv
<1>16. Core'
       BY <1>4, <1>7, <1>13, <1>14, <1>15, OnOneWorker
<1> QED BY <1>4, <1>6, <1>14, <1>16 DEF Crash

-----------------------------------------------------------------------------
\* Core holds at the start, and every step keeps it.
LEMMA InitCore == Init => Core
<1> SUFFICES ASSUME Init
             PROVE  Core
    OBVIOUS
<1>1. table = [id \in Ids |-> None] /\ call = [p \in Procs |-> None]
      BY DEF Init, StatusInit
<1>2. RowsInv
      BY <1>1 DEF RowsInv, StatusTypeOK
<1>3. TypeOK
      BY <1>2, FaultsAssumption
         DEF Init, TopicInit, TypeOK, RowsInv, TopicTypeOK, ApiStates, Idle, WorkerState, WorkerPcs
<1>4. \A w \in Workers : WorkInv(w)
      BY <1>1, ProcsAssumption DEF Init, WorkInv, Idle
<1>5. \A h \in Hooks : call[h] = None
      BY <1>1, ProcsAssumption
<1> QED BY <1>2, <1>3, <1>4, <1>5 DEF Core

LEMMA StutterKeepsCore ==
    ASSUME Core, UNCHANGED vars
    PROVE  Core'
<1>1. UNCHANGED <<statusVars, topicVars, serviceVars, processVars>>
      BY DEF vars
<1>2. Grows /\ TopicTypeOK'
      BY <1>1, GrowsInPlace, TopicTypeKept DEF topicVars, serviceVars, Core, TypeOK
<1>3. RowsInv'
      BY <1>1, <1>2, RowsKept DEF Core
<1>4. ProcessTypeOK' /\ api' \in [Ids -> ApiStates]
      BY <1>1 DEF processVars, serviceVars, Core, TypeOK, ProcessTypeOK
<1> QED BY <1>1, <1>2, <1>3, <1>4, OutsideKeepsCore
        DEF topicVars, serviceVars, statusVars, processVars

LEMMA NextKeepsCore == Core /\ [Next]_vars => Core'
<1> SUFFICES ASSUME Core, [Next]_vars
             PROVE  Core'
    OBVIOUS
<1>1. ASSUME NEW id \in Ids, (\E w \in Workers : Post(id, w)) \/ ApiStep(id) \/ Flush(id)
      PROVE  Core'
      BY <1>1, PostKeepsCore, ApiStepKeepsCore, FlushKeepsCore
<1>2. ASSUME NEW w \in Workers, WorkerStep(w)
      PROVE  Core'
      BY <1>2, ReceiveKeepsCore, WorkerFindKeepsCore, WorkerLoadKeepsCore,
         WorkerUpdatedKeepsCore, UpdateThrowsKeepsCore, SendKeepsCore, ReturnKeepsCore
         DEF WorkerStep
<1>3. ASSUME NEW w \in Workers, GroupStep(w) \/ Crash(w)
      PROVE  Core'
      BY <1>3, StartKeepsCore, ListenKeepsCore, JoinGroupKeepsCore, AutoCommitKeepsCore,
         SessionEndsKeepsCore, CrashKeepsCore DEF GroupStep
<1>4. ASSUME NEW h \in Hooks, HookStep(h)
      PROVE  Core'
      BY <1>4, HandleCallbackKeepsCore, HookSaveKeepsCore DEF HookStep
<1>5. CASE Rebalance \/ ForeignMessage
      BY <1>5, RebalanceKeepsCore, ForeignMessageKeepsCore
<1>6. CASE UNCHANGED vars
      BY <1>6, StutterKeepsCore
<1> QED BY <1>1, <1>2, <1>3, <1>4, <1>5, <1>6 DEF Next

\* Core holds in every reachable state.
LEMMA CoreHolds == Spec => []Core
BY InitCore, NextKeepsCore, PTL DEF Spec

(***************************************************************************)
(* Every variable keeps its type: no offset passes the end of the log, no  *)
(* update is in progress for a channel or a status that does not exist.    *)
(***************************************************************************)
THEOREM TypesHold == Spec => []TypeOK
<1>1. Core => TypeOK
      BY DEF Core
<1> QED BY <1>1, CoreHolds, PTL

(***************************************************************************)
(* A channel shown as completed has reached every recipient, unless a      *)
(* provider's callback said so (CompletedChannelsAreTrue): also when save  *)
(* mixes the columns of two updates, and when a message is handed out      *)
(* again in the middle.                                                    *)
(***************************************************************************)
THEOREM CompletedRowsAreTrue == Spec => []CompletedChannelsAreTrue
<1>1. Core => CompletedChannelsAreTrue
      BY DEF Core, RowsInv, RowIsTrue, CompletedChannelsAreTrue
<1> QED BY <1>1, CoreHolds, PTL

-----------------------------------------------------------------------------
(***************************************************************************)
(* What the offsets stand for.  A loop has gone past the first Done(w)     *)
(* messages; the offset it would commit is that one or none.  From the     *)
(* first commit on, what the loop of the partition's owner has gone past   *)
(* is done, and it is not behind the group's offset.  A loop that has lost *)
(* the partition may be anywhere: it commits no more.                      *)
(***************************************************************************)
Done(w) == IF worker[w].pc = "wait" THEN position[w] ELSE position[w] - 1

DoneUpTo(n) == base >= 0 => \A k \in base + 1 .. n : log[k] # Junk /\ Handled(k)

LoopOffsets(w) ==
    session[w] =>
        /\ stored[w] \in {-1, Done(w)}
        /\ owner = w => committed <= Done(w) /\ DoneUpTo(Done(w))

Offsets ==
    /\ base = -1 <=> committed = -1
    /\ DoneUpTo(committed)
    /\ \A w \in Workers : LoopOffsets(w)

\* The offsets, as integers.
LEMMA OffsetTypes ==
    ASSUME Core
    PROVE  /\ Len(log) \in Nat /\ committed \in -1 .. Len(log) /\ base \in -1 .. committed
           /\ position \in [Workers -> 0 .. Len(log)]
           /\ stored \in [Workers -> -1 .. Len(log)]
           /\ session \in [Workers -> BOOLEAN]
           /\ \A w \in Workers : Done(w) \in 0 .. Len(log)
<1>1. ASSUME NEW w \in Workers
      PROVE  Done(w) \in 0 .. Len(log)
  <2>1. CASE worker[w].pc = "wait"
        BY <2>1 DEF Done, Core, TypeOK, TopicTypeOK
  <2>2. CASE worker[w].pc # "wait"
    <3>1. position[w] \in 1 .. Len(log) /\ Len(log) \in Nat
          BY <2>2, InMessageFacts DEF Core, TypeOK, TopicTypeOK
    <3> QED BY <2>2, <3>1 DEF Done
  <2> QED BY <2>1, <2>2
<1> QED BY <1>1 DEF Core, TypeOK, TopicTypeOK

\* What is done stays done.
LEMMA DoneStays ==
    ASSUME Core, Grows, base' = base, NEW n \in -1 .. Len(log), DoneUpTo(n)
    PROVE  DoneUpTo(n)'
<1> SUFFICES ASSUME base >= 0, NEW k \in base + 1 .. n
             PROVE  log'[k] # Junk /\ Handled(k)'
    BY DEF DoneUpTo
<1>1. k \in 1 .. Len(log)
      BY OffsetTypes
<1> QED BY <1>1, FlowGrowthKeeps DEF DoneUpTo, Grows, Core, TypeOK

\* A step that commits nothing and moves no loop forward.
LEMMA OffsetsKept ==
    ASSUME Core, Offsets, Grows, UNCHANGED <<committed, base>>,
           \A w \in Workers : session'[w] =>
               /\ session[w] /\ stored'[w] = stored[w] /\ Done(w)' = Done(w)
               /\ owner' = w => owner = w
    PROVE  Offsets'
<1>1. DoneUpTo(committed)'
  <2>1. PICK n \in -1 .. Len(log) : n = committed
        BY OffsetTypes
  <2>2. DoneUpTo(n)'
        BY <2>1, DoneStays DEF Offsets
  <2> QED BY <2>1, <2>2
<1>2. ASSUME NEW w \in Workers, session'[w]
      PROVE  LoopOffsets(w)'
  <2>1. PICK n \in -1 .. Len(log) : n = Done(w) /\ n = Done(w)'
        BY <1>2, OffsetTypes
  <2>2. stored'[w] \in {-1, n} /\ (owner' = w => committed <= n /\ DoneUpTo(n))
        BY <1>2, <2>1 DEF Offsets, LoopOffsets
  <2>3. owner' = w => DoneUpTo(n)'
        BY <2>2, DoneStays
  <2> QED BY <2>1, <2>2, <2>3 DEF LoopOffsets
<1>3. \A w \in Workers : LoopOffsets(w)'
      BY <1>2 DEF LoopOffsets
<1> QED BY <1>1, <1>3 DEF Offsets

\* A step off the loops.
LEMMA OffsetsInPlace ==
    ASSUME Core, Offsets, Grows, UNCHANGED <<committed, session, position, stored, worker, base>>,
           owner' = owner \/ owner' = Nobody
    PROVE  Offsets'
<1>1. \A w \in Workers : Done(w)' = Done(w) /\ (owner' = w => owner = w)
      BY NobodyAssumption DEF Done
<1> QED BY <1>1, OffsetsKept

\* A step of w within its message, or one that takes it back.
LEMMA OffsetsOfLoop ==
    ASSUME Core, Offsets, Grows, NEW w \in Workers,
           UNCHANGED <<committed, owner, session, stored, base>>,
           \A v \in Workers \ {w} : position'[v] = position[v] /\ worker'[v] = worker[v],
           Done(w)' = Done(w)
    PROVE  Offsets'
<1>1. \A v \in Workers : Done(v)' = Done(v)
      BY DEF Done
<1> QED BY <1>1, OffsetsKept

\* A loop that ends.
LEMMA OffsetsAfterClose ==
    ASSUME Core, Offsets, Grows, NEW w \in Workers, Close(w), base' = base,
           owner' = owner \/ owner' = Nobody,
           \A v \in Workers \ {w} : worker'[v] = worker[v]
    PROVE  Offsets'
<1>1. /\ ~session'[w] /\ committed' = committed
      /\ \A v \in Workers \ {w} : /\ session'[v] = session[v] /\ position'[v] = position[v]
                                  /\ stored'[v] = stored[v]
      BY OffsetTypes DEF Close
<1>2. \A v \in Workers \ {w} : Done(v)' = Done(v) /\ (owner' = v => owner = v)
      BY <1>1, NobodyAssumption DEF Done
<1> QED BY <1>1, <1>2, OffsetsKept

(***************************************************************************)
(* The steps of handleNotification.  It returns when the message is done.  *)
(***************************************************************************)
LEMMA ReturnKeepsOffsets ==
    ASSUME Core, Offsets, NEW w \in Workers, Return(w)
    PROVE  Offsets'
<1>1. Grows
      BY GrowsInPlace DEF Return, Store, Core, TypeOK
<1>2. PICK n \in 1 .. Len(log) : n = position[w] /\ log[n] # Junk /\ Handled(n)
      BY MarkedIsHandled DEF Return
<1>3. /\ Done(w) = n - 1 /\ Done(w)' = n /\ stored'[w] = n
      /\ UNCHANGED <<log, committed, owner, session, base>>
      /\ \A v \in Workers \ {w} : Done(v)' = Done(v) /\ stored'[v] = stored[v]
      BY <1>2, OffsetTypes
         DEF Return, Store, Done, Idle, processVars, Core, TypeOK
<1>4. DoneUpTo(committed)'
  <2>1. PICK m \in -1 .. Len(log) : m = committed
        BY OffsetTypes
  <2>2. DoneUpTo(m)'
        BY <1>1, <1>3, <2>1, DoneStays DEF Offsets
  <2> QED BY <1>3, <2>1, <2>2
<1>5. ASSUME NEW v \in Workers, session[v]
      PROVE  LoopOffsets(v)'
  <2>1. CASE v = w
    <3>1. ASSUME owner = w
          PROVE  committed <= n /\ DoneUpTo(n)'
      <4>1. committed <= n - 1 /\ DoneUpTo(n - 1)
            BY <1>3, <1>5, <2>1, <3>1 DEF Offsets, LoopOffsets
      <4>2. DoneUpTo(n)
            BY <1>2, <4>1, OffsetTypes DEF DoneUpTo
      <4> QED BY <1>1, <1>2, <1>3, <4>1, <4>2, DoneStays, OffsetTypes
    <3> QED BY <1>3, <2>1, <3>1 DEF LoopOffsets
  <2>2. CASE v # w
    <3>1. PICK m \in -1 .. Len(log) : m = Done(v) /\ m = Done(v)'
          BY <1>3, <2>2, OffsetTypes
    <3>2. stored'[v] \in {-1, m} /\ (owner = v => committed <= m /\ DoneUpTo(m))
          BY <1>3, <1>5, <2>2, <3>1 DEF Offsets, LoopOffsets
    <3>3. owner = v => DoneUpTo(m)'
          BY <1>1, <1>3, <3>2, DoneStays
    <3> QED BY <1>3, <3>1, <3>2, <3>3 DEF LoopOffsets
  <2> QED BY <2>1, <2>2
<1>6. \A v \in Workers : LoopOffsets(v)'
      BY <1>3, <1>5 DEF LoopOffsets
<1> QED BY <1>3, <1>4, <1>6 DEF Offsets

LEMMA WorkerStepKeepsOffsets ==
    ASSUME Core, Offsets, NEW w \in Workers, WorkerStep(w)
    PROVE  Offsets'
<1>1. worker \in [Workers -> WorkerState] /\ position \in [Workers -> 0 .. Len(log)]
      BY OffsetTypes DEF Core, TypeOK
<1>2. CASE Receive(w)
  <2>1. Grows
        BY <1>2, GrowsInPlace DEF Receive, Deliver, Core, TypeOK
  <2>2. worker'[w].pc # "wait"
        BY <1>1, <1>2 DEF Receive, AtChannel
  <2>3. Done(w)' = Done(w)
        BY <1>1, <1>2, <2>2, OffsetTypes DEF Receive, Deliver, Done
  <2> QED BY <1>1, <1>2, <2>1, <2>3, OffsetsOfLoop DEF Receive, Deliver, processVars
<1>3. CASE WorkerFind(w) \/ WorkerLoad(w)
  <2>1. Grows
        BY <1>3, GrowsInPlace DEF WorkerFind, WorkerLoad, Core, TypeOK, topicVars
  <2> QED BY <1>3, <2>1, OffsetsInPlace DEF WorkerFind, WorkerLoad, topicVars, processVars
<1>4. CASE WorkerUpdated(w)
  <2>1. Grows
        BY <1>4, GrowsInPlace DEF WorkerUpdated, Core, TypeOK, topicVars
  <2>2. worker'[w].pc # "wait" /\ worker[w].pc # "wait"
        BY <1>1, <1>4 DEF WorkerUpdated, AtUpdate, AfterUpdate, Dispatch, AtChannel
  <2>3. Done(w)' = Done(w)
        BY <1>4, <2>2 DEF WorkerUpdated, Done, topicVars
  <2> QED BY <1>1, <1>4, <2>1, <2>3, OffsetsOfLoop
          DEF WorkerUpdated, AfterUpdate, topicVars, processVars
<1>5. CASE UpdateThrows(w)
  <2>1. Grows
        BY <1>5, GrowsInPlace DEF UpdateThrows, Redeliver, Core, TypeOK, topicVars
  <2>2. worker[w].pc # "wait"
        BY <1>5 DEF UpdateThrows, AtUpdate
  <2>3. Done(w)' = Done(w)
    <3>1. CASE worker[w].pc = "final"
          BY <1>1, <1>5, <3>1 DEF UpdateThrows, Done, topicVars, WorkerState
    <3>2. CASE worker[w].pc # "final"
          BY <1>1, <1>5, <2>2, <3>2 DEF UpdateThrows, Redeliver, Done, Idle
    <3> QED BY <3>1, <3>2
  <2> QED BY <1>1, <1>5, <2>1, <2>3, OffsetsOfLoop
          DEF UpdateThrows, Redeliver, topicVars, processVars
<1>6. CASE Send(w)
  <2>1. Grows /\ TurnTaken(w) /\ AtTurn(w)
        BY <1>6, SendKeepsCore
  <2>2. Done(w)' = Done(w)
        BY <1>6, <2>1 DEF Done, TurnTaken, AtTurn, Send, topicVars
  <2> QED BY <1>6, <2>1, <2>2, OffsetsOfLoop DEF Send, TurnTaken, topicVars, processVars
<1>7. CASE Return(w)
      BY <1>7, ReturnKeepsOffsets
<1> QED BY <1>2, <1>3, <1>4, <1>5, <1>6, <1>7 DEF WorkerStep

(***************************************************************************)
(* The steps of the group.  A loop starts where the group is; the owner    *)
(* commits the offset of what it has done.                                 *)
(***************************************************************************)
LEMMA JoinGroupKeepsOffsets ==
    ASSUME Core, Offsets, NEW w \in Workers, JoinGroup(w)
    PROVE  Offsets'
<1>1. Grows /\ worker[w].pc = "wait" /\ worker' = worker
      BY JoinGroupKeepsCore, GrowsInPlace
         DEF JoinGroup, Grant, FirstFetch, Begin, serviceVars, Core, TypeOK
<1>2. CASE Grant(w)
  <2>1. /\ UNCHANGED <<committed, session, position, stored, base>> /\ owner' = w /\ ~session[w]
        BY <1>2 DEF JoinGroup, Grant, processVars
  <2>2. \A v \in Workers : session'[v] => owner' # v /\ Done(v)' = Done(v)
        BY <1>1, <2>1 DEF Done
  <2> QED BY <1>1, <2>1, <2>2, OffsetsKept
<1>3. CASE FirstFetch(w, "latest")
  <2>1. PICK n : n = StartOffset("latest")
        OBVIOUS
  <2>2. /\ UNCHANGED <<log, committed, owner, base>> /\ owner = w
        /\ session' = [session EXCEPT ![w] = TRUE] /\ position' = [position EXCEPT ![w] = n]
        /\ stored' = [stored EXCEPT ![w] = -1]
        BY <1>3, <2>1 DEF JoinGroup, FirstFetch, Begin, processVars
  <2>3. n \in 0 .. Len(log) /\ n = IF committed >= 0 THEN committed ELSE Len(log)
        BY <2>1, OffsetTypes DEF StartOffset
  <2>4. stored'[w] = -1 /\ Done(w)' = n
        BY <1>1, <2>2, OffsetTypes DEF Done
  <2>5. DoneUpTo(committed)'
    <3>1. PICK m \in -1 .. Len(log) : m = committed
          BY OffsetTypes
    <3>2. DoneUpTo(m)'
          BY <1>1, <2>2, <3>1, DoneStays DEF Offsets
    <3> QED BY <2>2, <3>1, <3>2
  <2>6. LoopOffsets(w)'
    <3>1. CASE committed >= 0
          BY <2>2, <2>3, <2>4, <2>5, <3>1, OffsetTypes DEF LoopOffsets
    <3>2. CASE ~(committed >= 0)
      <4>1. committed = -1 /\ base = -1 /\ base' = -1 /\ committed' <= n
            BY <2>2, <2>3, <3>2, OffsetTypes DEF Offsets
      <4> QED BY <2>4, <4>1 DEF LoopOffsets, DoneUpTo
    <3> QED BY <3>1, <3>2
  <2>7. ASSUME NEW v \in Workers, v # w
        PROVE  LoopOffsets(v)'
    <3>1. session'[v] = session[v] /\ stored'[v] = stored[v] /\ Done(v)' = Done(v) /\ owner' # v
          BY <1>1, <2>2, <2>7, OffsetTypes DEF Done
    <3> QED BY <3>1 DEF Offsets, LoopOffsets
  <2> QED BY <2>2, <2>5, <2>6, <2>7 DEF Offsets
<1> QED BY <1>2, <1>3 DEF JoinGroup

LEMMA AutoCommitKeepsOffsets ==
    ASSUME Core, Offsets, NEW w \in Workers, AutoCommit(w)
    PROVE  Offsets'
<1>1. /\ session[w] /\ owner = w /\ stored[w] > committed /\ committed' = stored[w]
      /\ base' = IF base = -1 THEN stored[w] ELSE base
      /\ UNCHANGED <<log, owner, session, position, stored, worker, sends>>
      BY DEF AutoCommit, Commit, serviceVars
<1>2. PICK n \in 0 .. Len(log) : n = Done(w)
      BY OffsetTypes
<1>3. stored[w] = n /\ DoneUpTo(n) /\ committed < n
      BY <1>1, <1>2, OffsetTypes DEF Offsets, LoopOffsets
<1>4. base' >= 0 /\ base' \in Int
      BY <1>1, <1>3, OffsetTypes
<1>5. DoneUpTo(n)'
  <2>1. CASE base = -1
        BY <1>1, <1>3, <2>1 DEF DoneUpTo
  <2>2. CASE base # -1
        BY <1>1, <1>3, <2>2 DEF DoneUpTo, Handled, Sent
  <2> QED BY <2>1, <2>2
<1>6. ASSUME NEW v \in Workers, session[v]
      PROVE  LoopOffsets(v)'
  <2>1. Done(v)' = Done(v) /\ stored'[v] \in {-1, Done(v)}
        BY <1>1, <1>6 DEF Done, Offsets, LoopOffsets
  <2>2. CASE v = w
        BY <1>1, <1>2, <1>3, <1>5, <2>1, <2>2 DEF LoopOffsets
  <2>3. CASE v # w
        BY <1>1, <2>1, <2>3 DEF LoopOffsets
  <2> QED BY <2>2, <2>3
<1>7. \A v \in Workers : LoopOffsets(v)'
      BY <1>1, <1>6 DEF LoopOffsets
<1>8. DoneUpTo(committed)'
      BY <1>1, <1>3, <1>5
<1> QED BY <1>1, <1>3, <1>4, <1>7, <1>8, OffsetTypes DEF Offsets

\* Every step keeps Offsets.
LEMMA NextKeepsOffsets == Core /\ Offsets /\ [Next]_vars => Offsets'
<1> SUFFICES ASSUME Core, Offsets, [Next]_vars
             PROVE  Offsets'
    OBVIOUS
<1>1. ASSUME NEW id \in Ids, (\E w \in Workers : Post(id, w)) \/ ApiStep(id)
      PROVE  Offsets'
  <2>1. Grows
        BY <1>1, GrowsInPlace
           DEF Post, ApiStep, WriteInitialRow, Emit, Core, TypeOK, topicVars
  <2> QED BY <1>1, <2>1, OffsetsInPlace DEF Post, ApiStep, WriteInitialRow, Emit, topicVars
<1>2. ASSUME (\E id \in Ids : Flush(id)) \/ ForeignMessage
      PROVE  Offsets'
  <2>1. UNCHANGED topicVars \/ \E m \in Ids \cup {Junk} : Append1(m) \/ Append2(m)
        BY <1>2 DEF Flush, ForeignMessage
  <2>2. UNCHANGED <<sends, receipts, worker, base>>
        BY <1>2 DEF Flush, ForeignMessage, processVars
  <2>3. Grows
        BY <2>1, <2>2, ProducerKeepsTopic
  <2>4. UNCHANGED <<committed, owner, session, position, stored>>
        BY <2>1 DEF topicVars, Append1, Append2, groupVars
  <2> QED BY <2>2, <2>3, <2>4, OffsetsInPlace
<1>3. ASSUME NEW w \in Workers, Start(w) \/ Listen(w)
      PROVE  Offsets'
  <2>1. Grows
        BY <1>3, GrowsInPlace
           DEF Start, Listen, Revoke, Core, TypeOK, topicVars, serviceVars
  <2> QED BY <1>3, <2>1, OffsetsInPlace
          DEF Start, Listen, Revoke, topicVars, serviceVars, processVars
<1>4. ASSUME NEW w \in Workers, SessionEnds(w) \/ Crash(w)
      PROVE  Offsets'
  <2>1. Grows /\ Close(w)
        BY <1>4, CrashKeepsCore, GrowsInPlace
           DEF SessionEnds, EndSession, Crash, Leave, Close, serviceVars, Core, TypeOK
  <2>2. owner' = owner \/ owner' = Nobody
        BY <1>4 DEF SessionEnds, EndSession, Crash, Leave
  <2>3. base' = base /\ \A v \in Workers \ {w} : worker'[v] = worker[v]
        BY <1>4 DEF SessionEnds, Crash, serviceVars, processVars, Core, TypeOK
  <2> QED BY <2>1, <2>2, <2>3, OffsetsAfterClose
<1>5. ASSUME NEW h \in Hooks, HookStep(h)
      PROVE  Offsets'
  <2>1. Grows
        BY <1>5, GrowsInPlace
           DEF HookStep, HandleCallback, HookSave, HookSaveFails, Core, TypeOK, topicVars, serviceVars
  <2> QED BY <1>5, <2>1, OffsetsInPlace
          DEF HookStep, HandleCallback, HookSave, HookSaveFails, topicVars, serviceVars
<1>6. CASE UNCHANGED vars
  <2>1. Grows
        BY <1>6, GrowsInPlace DEF vars, topicVars, serviceVars, Core, TypeOK
  <2> QED BY <1>6, <2>1, OffsetsInPlace DEF vars, topicVars, serviceVars, processVars
<1>7. ASSUME NEW w \in Workers, WorkerStep(w) \/ GroupStep(w) \/ Crash(w)
      PROVE  Offsets'
      BY <1>3, <1>4, <1>7, WorkerStepKeepsOffsets, JoinGroupKeepsOffsets, AutoCommitKeepsOffsets
         DEF GroupStep
<1>8. CASE Rebalance
  <2>1. Grows
        BY <1>8, GrowsInPlace DEF Rebalance, Revoke, Core, TypeOK
  <2> QED BY <1>8, <2>1, OffsetsInPlace DEF Rebalance, Revoke, processVars
<1> QED BY <1>1, <1>2, <1>5, <1>6, <1>7, <1>8 DEF Next

(***************************************************************************)
(* Once the group has committed an offset, nothing after it is lost        *)
(* (NothingLostAfterBase): a message is acknowledged when what is owed for *)
(* it has been delivered, whoever crashes, throws, loses the partition or  *)
(* takes it over.                                                          *)
(***************************************************************************)
THEOREM NothingIsLost == Spec => []NothingLostAfterBase
<1>1. Init => Offsets
      BY DEF Init, TopicInit, Offsets, LoopOffsets, DoneUpTo
<1>2. Offsets => NothingLostAfterBase
      BY DEF Offsets, DoneUpTo, NothingLostAfterBase
<1> QED BY <1>1, <1>2, CoreHolds, NextKeepsOffsets, PTL DEF Spec

-----------------------------------------------------------------------------
(***************************************************************************)
(* Repetitions cost faults (AccountInv).  A loop starts on a partition     *)
(* that a fault has freed, be the fault that another process joins the     *)
(* group, and a message is handed out again when an update has failed.     *)
(***************************************************************************)
LEMMA ApiKeepsAccount ==
    ASSUME Core, AccountInv,
           \/ \E id \in Ids : (\E w \in Workers : Post(id, w)) \/ ApiStep(id) \/ Flush(id)
           \/ \E h \in Hooks : HookStep(h)
           \/ ForeignMessage
           \/ UNCHANGED vars
    PROVE  AccountInv'
<1>1. faults \in Nat /\ TopicTypeOK
      BY FaultsAssumption DEF Core, TypeOK
<1>2. UNCHANGED <<worker, sends>>
      BY DEF Post, ApiStep, WriteInitialRow, Emit, Flush, HookStep, HandleCallback,
             HookSave, HookSaveFails, ForeignMessage, vars, serviceVars
<1>3. faults' = faults \/ faults' = faults + 1
      BY DEF Post, ApiStep, WriteInitialRow, Emit, Flush, HookStep, HandleCallback,
             HookSave, HookSaveFails, ForeignMessage, vars, serviceVars, NoFault, Fault
<1>4. UNCHANGED topicVars \/ \E m \in Ids \cup {Junk} : Append1(m) \/ Append2(m)
      BY DEF Post, ApiStep, WriteInitialRow, Emit, Flush, HookStep, HandleCallback,
             HookSave, HookSaveFails, ForeignMessage, vars
<1>5. LogKept /\ UNCHANGED <<owner, session, position>>
      BY <1>1, <1>4, AppendKeepsLog DEF groupVars
<1> QED BY <1>1, <1>2, <1>3, <1>5, AccountOffTheLoops

\* The steps of an update, and one that fails in the try block.
LEMMA UpdateKeepsAccount ==
    ASSUME Core, AccountInv, NEW w \in Workers,
           WorkerFind(w) \/ WorkerLoad(w) \/ WorkerUpdated(w) \/ UpdateThrows(w)
    PROVE  AccountInv'
<1>1. /\ faults \in Nat /\ TopicTypeOK
      /\ worker \in [Workers -> WorkerState]
      BY FaultsAssumption DEF Core, TypeOK
<1>2. /\ sends' = sends /\ log' = log
      /\ faults' = faults \/ faults' = faults + 1
      /\ worker[w].pc \in {"processing", "final", "catch"}
      BY DEF WorkerFind, WorkerLoad, WorkerUpdated, UpdateThrows, AtUpdate, NoFault, Fault,
             Redeliver, topicVars
<1>3. worker[w] \in WorkerState /\ Current(w) \in Ids
      BY <1>2, InMessageFacts
<1>4. CASE WorkerFind(w) \/ WorkerLoad(w)
  <2>1. worker' = worker /\ LogKept /\ UNCHANGED <<owner, session, position>>
        BY <1>1, <1>2, <1>4 DEF WorkerFind, WorkerLoad, LogKept, TopicTypeOK, topicVars
  <2> QED BY <1>1, <1>2, <2>1, AccountOffTheLoops
<1>5. CASE WorkerUpdated(w)
  <2>1. /\ \A v \in Workers \ {w} : worker'[v] = worker[v]
        /\ worker'[w] = IF worker[w].pc = "processing" THEN Dispatch(w)
                        ELSE AtChannel(worker[w].ch + 1, Len(WorkerChannels(w)))
        /\ UNCHANGED <<owner, session, position>>
        BY <1>1, <1>5 DEF WorkerUpdated, AfterUpdate, topicVars
  <2>2. MovesOn(w) /\ worker'[w] \in WorkerState
    <3>1. CASE worker[w].pc = "processing"
          BY <1>3, <2>1, <3>1 DEF Dispatch, MovesOn, WorkerState, WorkerPcs
    <3>2. CASE worker[w].pc # "processing"
          BY <1>3, <2>1, <3>2 DEF AtChannel, MovesOn, WorkerState, WorkerPcs
    <3> QED BY <3>1, <3>2
  <2> QED BY <1>1, <1>2, <1>3, <2>1, <2>2, AccountWhenMovingOn
<1>6. CASE UpdateThrows(w)
  <2>1. /\ \A v \in Workers \ {w} : worker'[v] = worker[v]
        /\ faults' = faults + 1
        BY <1>1, <1>6 DEF UpdateThrows, Fault
  <2>2. CASE worker[w].pc = "final"
    <3>1. /\ UNCHANGED <<owner, session, position>>
          /\ worker'[w] = [worker[w] EXCEPT !.pc = "catch"]
          BY <1>1, <1>6, <2>2 DEF UpdateThrows, topicVars
    <3>2. MovesOn(w) /\ worker'[w] \in WorkerState
          BY <1>3, <2>1, <2>2, <3>1 DEF MovesOn, WorkerState, WorkerPcs
    <3> QED BY <1>1, <1>2, <1>3, <3>1, <3>2, AccountWhenMovingOn
  <2>3. CASE worker[w].pc # "final"
    <3>1. Redeliver(w)
          BY <1>6, <2>3 DEF UpdateThrows
    <3> QED BY <1>1, <1>2, <2>1, <3>1, AccountOfRedelivery
  <2> QED BY <2>2, <2>3
<1> QED BY <1>4, <1>5, <1>6

\* A contact is entered for the turn it was made in.
LEMMA SendKeepsAccount ==
    ASSUME Core, AccountInv, NEW w \in Workers, Send(w)
    PROVE  AccountInv'
<1>1. /\ faults \in Nat /\ TopicTypeOK /\ Core'
      /\ sends \in [Deliveries -> Nat] /\ AtTurn(w) /\ TurnTaken(w)
      BY SendKeepsCore, FaultsAssumption DEF Core, TypeOK
<1>2. UNCHANGED topicVars /\ faults' = faults
      BY DEF Send, NoFault
<1>3. PICK t : t = <<Current(w), WorkerChannel(w), WorkerRecipients(w)[worker[w].rcp]>>
      OBVIOUS
<1>4. CASE sends' = [sends EXCEPT ![t] = @ + 1]
      BY <1>1, <1>2, <1>3, <1>4, AccountOfTurn
<1>5. CASE sends' = sends
  <2>1. /\ worker[w] \in WorkerState /\ worker'[w] \in WorkerState
        /\ worker[w].pc = "send"
        BY <1>1 DEF AtTurn, Core, TypeOK
  <2>2. MovesOn(w)
        BY <1>1, <2>1 DEF MovesOn, TurnTaken, WorkerState
  <2> QED BY <1>1, <1>2, <1>5, <2>1, <2>2, AccountWhenMovingOn DEF topicVars
<1> QED BY <1>3, <1>4, <1>5 DEF Send

\* The group's steps start no run but for a fault, or the first.
LEMMA GroupKeepsAccount ==
    ASSUME Core, AccountInv, NEW w \in Workers, GroupStep(w) \/ Crash(w)
    PROVE  AccountInv'
<1>1. /\ faults \in Nat /\ TopicTypeOK
      /\ worker \in [Workers -> WorkerState] /\ Len(log) \in Nat
      BY FaultsAssumption DEF Core, TypeOK, TopicTypeOK
<1>2. CASE Revoke /\ faults' = faults + 1 /\ UNCHANGED <<sends, worker>>
      BY <1>1, <1>2, AccountOfRevoke
<1>3. CASE /\ UNCHANGED <<log, owner, session, position, worker, sends>>
           /\ faults' = faults
  <2>1. LogKept
        BY <1>1, <1>3 DEF LogKept
  <2> QED BY <1>1, <1>3, <2>1, AccountOffTheLoops
<1>4. CASE JoinGroup(w)
  <2>1. UNCHANGED <<sends, faults, worker>>
        BY <1>4 DEF JoinGroup, serviceVars
  <2>2. CASE FirstFetch(w, "latest")
    <3>1. Begin(w, "latest") /\ Unstarted /\ owner' = w
          BY <2>2 DEF FirstFetch, Unstarted
    <3> QED BY <1>1, <2>1, <3>1, AccountOfBegin
  <2>3. CASE Grant(w)
    <3>1. LogKept /\ Unstarted
          BY <1>1, <2>3 DEF Grant, LogKept, Unstarted
    <3>2. NoRunGoesBack
          BY <2>1, <2>3 DEF Grant, NoRunGoesBack, Past
    <3> QED BY <1>1, <2>1, <3>1, <3>2, AccountStays
  <2> QED BY <1>4, <2>2, <2>3 DEF JoinGroup
<1>5. CASE SessionEnds(w)
  <2>1. Close(w) /\ owner # w /\ owner' = owner /\ UNCHANGED <<sends, faults, worker>>
        BY <1>5 DEF SessionEnds, EndSession, serviceVars
  <2> QED BY <1>1, <2>1, AccountOfClose
<1>6. CASE Crash(w)
  <2>1. /\ Close(w) /\ sends' = sends /\ faults' = faults + 1
        /\ \A v \in Workers \ {w} : worker'[v] = worker[v]
        BY <1>1, <1>6 DEF Crash, Leave, Fault
  <2> QED BY <1>1, <2>1, AccountOfClose
<1>7. CASE Start(w) \/ Listen(w) \/ AutoCommit(w)
      BY <1>2, <1>3, <1>7
         DEF Start, Listen, AutoCommit, Commit, NoFault, Fault, topicVars, serviceVars
<1> QED BY <1>4, <1>5, <1>6, <1>7 DEF GroupStep

\* Every step keeps the account: a new run of a loop is paid for by a fault.
LEMMA NextKeepsAccount == Core /\ AccountInv /\ [Next]_vars => AccountInv'
<1> SUFFICES ASSUME Core, AccountInv, [Next]_vars
             PROVE  AccountInv'
    OBVIOUS
<1>1. /\ faults \in Nat /\ TopicTypeOK
      /\ worker \in [Workers -> WorkerState]
      BY FaultsAssumption DEF Core, TypeOK
<1>2. ASSUME NEW w \in Workers, Receive(w)
      PROVE  AccountInv'
  <2>1. /\ Deliver(w) /\ faults' = faults /\ sends' = sends
        /\ \A v \in Workers \ {w} : worker'[v] = worker[v]
        BY <1>1, <1>2 DEF Receive, NoFault
  <2> QED BY <1>1, <2>1, AccountOfDelivery
<1>3. ASSUME NEW w \in Workers, Return(w)
      PROVE  AccountInv'
  <2>1. /\ UNCHANGED <<log, owner, session, position, sends, faults>>
        /\ worker[w].pc = "mark" /\ worker'[w].pc = "wait"
        /\ \A v \in Workers \ {w} : worker'[v] = worker[v]
        BY <1>1, <1>3 DEF Return, Store, NoFault, Idle
  <2> QED BY <1>1, <2>1, AccountWhenDone
<1>4. ASSUME NEW w \in Workers, WorkerStep(w)
      PROVE  AccountInv'
      BY <1>2, <1>3, <1>4, UpdateKeepsAccount, SendKeepsAccount DEF WorkerStep
<1>5. CASE Rebalance
  <2>1. Revoke /\ faults' = faults + 1 /\ UNCHANGED <<sends, worker>>
        BY <1>5 DEF Rebalance, Fault
  <2> QED BY <1>1, <2>1, AccountOfRevoke
<1> QED BY <1>4, <1>5, ApiKeepsAccount, GroupKeepsAccount DEF Next

(***************************************************************************)
(* No recipient is contacted more often than the request says, but for one *)
(* more time per fault, although each failed update hands the message out  *)
(* again from its first channel (RepeatsNeedFaults).                       *)
(***************************************************************************)
THEOREM RepeatsCostFaults == Spec => []RepeatsNeedFaults
<1>1. Init => AccountInv
      BY AccountBegins DEF Init
<1>2. Core /\ AccountInv => RepeatsNeedFaults
      BY AccountBoundsRepeats, FaultsAssumption DEF Core, TypeOK
<1> QED BY <1>1, <1>2, CoreHolds, NextKeepsAccount, PTL DEF Spec

-----------------------------------------------------------------------------
(***************************************************************************)
(* Nobody disturbs the owner of the partition: no provider has called      *)
(* back, and no loop has lost its partition without its process dying, as  *)
(* before the first fault, or where the broker takes no partition away.    *)
(* Then one loop runs at a time, and an update is of the row as it is.     *)
(***************************************************************************)
Undisturbed == (faults = 0 \/ "rebalance" \notin FaultKinds) /\ receipts = {}

\* w's entity is the row with the status that w is to report, and save has found
\* the columns in which they differ.
UpdatesRow(w) ==
    LET id == Current(w)
    IN  call[w] # None =>
            /\ call[w].id = id
            /\ call[w].row = WithChannel(table[id], WorkerChannel(w), StatusToReport(w))
            /\ call[w].loaded => call[w].changed = Differing(call[w].row, table[id])

Orderly ==
    /\ \A w \in Workers : session[w] => owner = w
    /\ \A w \in Workers : UpdatesRow(w)
    /\ RowsConsistent

OrderlyInv == Undisturbed => Orderly

(***************************************************************************)
(* While one loop has the partition, the others have nothing in hand.      *)
(***************************************************************************)
LEMMA OneLoop ==
    ASSUME Core, Orderly, NEW w \in Workers, owner = w \/ session[w]
    PROVE  /\ owner = w
           /\ \A v \in Workers \ {w} :
                  ~session[v] /\ worker[v].pc = "wait" /\ call[v] = None
<1>1. owner = w /\ \A v \in Workers \ {w} : ~session[v]
      BY DEF Orderly
<1> QED BY <1>1, IdleHasNoUpdate

\* An update that does not move, on a row that nobody writes.
LEMMA UpdatesRowKept ==
    ASSUME Core, Grows, NEW v \in Workers, UpdatesRow(v),
           call'[v] = call[v] \/ call'[v] = None,
           position'[v] = position[v], worker'[v] = worker[v],
           \A id \in Ids : table[id] # None => table'[id] = table[id]
    PROVE  UpdatesRow(v)'
<1> SUFFICES ASSUME call'[v] # None, call[v] # None, call'[v] = call[v]
             PROVE  UpdatesRow(v)'
    BY DEF UpdatesRow
<1>1. worker[v].pc # "wait"
      BY DEF Core, WorkInv, AtUpdate
<1>2. PICK id \in Ids : id = Current(v) /\ position[v] \in 1 .. Len(log)
      BY <1>1, InMessageFacts
<1>3. Current(v)' = id
      BY <1>2 DEF Current, Grows
<1>4. call[v].id = id /\ v \in Procs
      BY <1>2, ProcsAssumption DEF UpdatesRow
<1>5. table'[id] = table[id]
      BY <1>4 DEF Core, RowsInv
<1>6. WorkerChannel(v)' = WorkerChannel(v) /\ StatusToReport(v)' = StatusToReport(v)
      BY <1>2, <1>3 DEF WorkerChannel, WorkerChannels, StatusToReport
<1> QED BY <1>2, <1>3, <1>5, <1>6 DEF UpdatesRow

\* A step that writes no row and starts no loop.
LEMMA OrderlyKept ==
    ASSUME Core, Grows, Orderly, table' = table, NEW w \in Workers, UpdatesRow(w)',
           \A v \in Workers : session'[v] => session[v] /\ owner' = owner,
           \A v \in Workers \ {w} : /\ call'[v] = call[v] \/ call'[v] = None
                                    /\ position'[v] = position[v] /\ worker'[v] = worker[v]
    PROVE  Orderly'
<1>1. RowsConsistent'
      BY DEF Orderly, RowsConsistent, Consistent
<1>2. \A v \in Workers : UpdatesRow(v)'
      BY UpdatesRowKept DEF Orderly
<1> QED BY <1>1, <1>2 DEF Orderly

\* A step that changes no row and no offset, and computes no entity.
LEMMA OrderlyInPlace ==
    ASSUME Core, Grows, Orderly, UNCHANGED <<table, session, owner>>,
           \A v \in Workers : /\ call'[v] = call[v] \/ call'[v] = None
                              /\ position'[v] = position[v] /\ worker'[v] = worker[v]
    PROVE  Orderly'
<1>1. RowsConsistent'
      BY DEF Orderly, RowsConsistent, Consistent
<1>2. \A v \in Workers : UpdatesRow(v)'
      BY UpdatesRowKept DEF Orderly
<1> QED BY <1>1, <1>2 DEF Orderly

(***************************************************************************)
(* The steps that write a row: the first of a notification, and the second *)
(* statement of save, which puts the entity in the place of the row it was *)
(* made of, though it writes the columns that differ.                      *)
(***************************************************************************)
LEMMA CreateKeepsOrderly ==
    ASSUME Core, Orderly, NEW id \in Ids, WriteInitialRow(id)
    PROVE  Orderly'
<1>1. Grows
      BY GrowsInPlace DEF WriteInitialRow, Core, TypeOK, topicVars
<1>2. CASE UNCHANGED statusVars
      BY <1>1, <1>2, OrderlyInPlace DEF WriteInitialRow, topicVars, statusVars
<1>3. CASE CreateInitialStatus(id, ToSet(Request[id].channels))
  <2>1. PICK row \in Row : row = InitialRow(ToSet(Request[id].channels)) /\ Consistent(row)
        BY RequestFacts, InitialRowIsConsistent DEF Consistent
  <2>2. table' = [table EXCEPT ![id] = row] /\ call' = call /\ table[id] = None
        BY <1>3, <2>1 DEF CreateInitialStatus
  <2>3. table'[id] = row /\ \A i \in Ids \ {id} : table'[i] = table[i]
        BY <2>2 DEF Core, RowsInv, StatusTypeOK
  <2>4. \A i \in Ids : table'[i] # None => Consistent(table[i])'
        BY <2>1, <2>3 DEF Orderly, RowsConsistent, Consistent
  <2>5. \A v \in Workers : UpdatesRow(v)'
        BY <1>1, <2>2, <2>3, UpdatesRowKept DEF Orderly, WriteInitialRow, topicVars
  <2> QED BY <2>4, <2>5 DEF Orderly, RowsConsistent, WriteInitialRow, topicVars
<1> QED BY <1>2, <1>3 DEF WriteInitialRow

\* The columns that save writes make the row equal to the entity, whose other
\* columns nobody else has changed since it was loaded.
LEMMA SaveWritesEntity ==
    ASSUME Core, Orderly, NEW w \in Workers, AtUpdate(w), SaveWrite(w)
    PROVE  /\ call' = [call EXCEPT ![w] = None]
           /\ \E id \in Ids, old \in Row, c \in Channels, s \in WorkerStatuses :
                  /\ id = Current(w) /\ c = WorkerChannel(w) /\ s = StatusToReport(w)
                  /\ table[id] = old /\ old # None
                  /\ table' = [table EXCEPT ![id] = WithChannel(old, c, s)]
<1>1. w \in Procs /\ RowsInv
      BY ProcsAssumption DEF Core
<1>2. PICK v \in Call : v = call[w] /\ v.loaded /\ call' = [call EXCEPT ![w] = None]
      BY <1>1, WriteFacts
<1>3. PICK id \in Ids, old \in Row : id = v.id /\ old = table[id]
      BY <1>1, <1>2, WriteFacts, NoneAssumption DEF Call, Orderly, UpdatesRow, SaveWrite
<1>4. PICK row \in Row :
          /\ table' = [table EXCEPT ![id] = row]
          /\ row.status = IF "status" \in v.changed THEN v.row.status ELSE old.status
          /\ row.channels = IF "channels" \in v.changed THEN v.row.channels ELSE old.channels
      BY <1>1, <1>2, <1>3, WriteFacts
<1>5. PICK c \in Channels, s \in WorkerStatuses : c = WorkerChannel(w) /\ s = StatusToReport(w)
      BY InMessageFacts DEF AtUpdate, StatusToReport, WorkerStatuses
<1>6. v.row = WithChannel(old, c, s) /\ v.changed = Differing(v.row, old) /\ v.row \in Row
      BY <1>2, <1>3, <1>5 DEF Orderly, UpdatesRow, SaveWrite, Call
<1>7. row.status = v.row.status /\ row.channels = v.row.channels
      BY <1>4, <1>6 DEF Differing, Columns
<1>8. \A x \in Row : x = [status |-> x.status, channels |-> x.channels]
      BY DEF Row
<1>9. row = v.row
      BY <1>6, <1>7, <1>8
<1>10. table[id] = old /\ table' = [table EXCEPT ![id] = WithChannel(old, c, s)]
      BY <1>3, <1>4, <1>6, <1>9
<1>11. old # None /\ id = Current(w)
      BY <1>2, <1>3, NoneAssumption DEF Orderly, UpdatesRow, SaveWrite
<1>12. \E i \in Ids, o \in Row, d \in Channels, t \in WorkerStatuses :
          /\ i = Current(w) /\ d = WorkerChannel(w) /\ t = StatusToReport(w)
          /\ table[i] = o /\ o # None
          /\ table' = [table EXCEPT ![i] = WithChannel(o, d, t)]
      BY <1>3, <1>5, <1>10, <1>11
<1> QED BY <1>2, <1>12

\* The owner's save puts the new row in the place of the row it was made of.
LEMMA WriteKeepsOrderly ==
    ASSUME Core, Orderly, NEW w \in Workers, WorkerUpdated(w), SaveWrite(w)
    PROVE  Orderly'
<1>1. w \in Procs /\ AtUpdate(w) /\ UNCHANGED <<session, owner>>
      BY ProcsAssumption DEF WorkerUpdated, topicVars
<1>2. PICK id \in Ids, old \in Row, c \in Channels, s \in WorkerStatuses :
          /\ call' = [call EXCEPT ![w] = None]
          /\ table' = [table EXCEPT ![id] = WithChannel(old, c, s)]
      BY <1>1, SaveWritesEntity
<1>3. PICK new \in Row : new = WithChannel(old, c, s) /\ Consistent(new)
      BY WithChannelFacts
<1>4. /\ table'[id] = new /\ \A i \in Ids \ {id} : table'[i] = table[i]
      /\ call'[w] = None /\ \A p \in Procs \ {w} : call'[p] = call[p]
      BY <1>1, <1>2, <1>3 DEF Core, RowsInv, StatusTypeOK
<1>5. \A i \in Ids : table'[i] # None => Consistent(table[i])'
      BY <1>3, <1>4 DEF Orderly, RowsConsistent, Consistent
<1>6. \A u \in Workers : call'[u] = None
  <2>1. session[w]
        BY <1>1, IdleHasNoUpdate DEF AtUpdate
  <2> QED BY <1>4, <2>1, OneLoop, ProcsAssumption
<1> QED BY <1>1, <1>5, <1>6 DEF Orderly, RowsConsistent, UpdatesRow

(***************************************************************************)
(* The other steps of a loop: they make an entity of the row as it is,     *)
(* compare the two, or leave no update in progress.                        *)
(***************************************************************************)
LEMMA ReadsKeepOrderly ==
    ASSUME Core, Orderly, NEW w \in Workers, WorkerFind(w) \/ WorkerLoad(w)
    PROVE  Orderly'
<1>1. w \in Procs /\ call \in [Procs -> Call \cup {None}]
      BY ProcsAssumption DEF Core, RowsInv, StatusTypeOK
<1>2. Grows /\ UNCHANGED <<table, worker, position, session, owner, log>>
      BY GrowsInPlace
         DEF WorkerFind, WorkerLoad, UpdateFind, SaveLoad, Core, TypeOK, topicVars
<1>3. PICK id : id = Current(w)
      OBVIOUS
<1>4. /\ Current(w)' = id /\ WorkerChannel(w)' = WorkerChannel(w)
      /\ StatusToReport(w)' = StatusToReport(w)
      BY <1>2, <1>3 DEF Current, WorkerChannel, WorkerChannels, StatusToReport
<1>5. /\ \A v \in Workers \ {w} : call'[v] = call[v]
      /\ UpdatesRow(w)'
  <2>1. CASE WorkerFind(w)
    <3>1. PICK row : row = WithChannel(table[id], WorkerChannel(w), StatusToReport(w))
          OBVIOUS
    <3>2. call' = [call EXCEPT ![w] = [id |-> id, row |-> row, loaded |-> FALSE, changed |-> {}]]
          BY <1>3, <2>1, <3>1 DEF WorkerFind, UpdateFind
    <3>3. call'[w] = [id |-> id, row |-> row, loaded |-> FALSE, changed |-> {}]
          BY <1>1, <3>2
    <3>4. UpdatesRow(w)'
          BY <1>2, <1>4, <3>1, <3>3 DEF UpdatesRow
    <3> QED BY <1>1, <3>2, <3>4, ProcsAssumption
  <2>2. CASE WorkerLoad(w)
    <3>1. PICK v \in Call : v = call[w] /\ v # None
          BY <1>1, <2>2 DEF WorkerLoad, SaveLoad
    <3>2. v.id = id /\ v.row = WithChannel(table[id], WorkerChannel(w), StatusToReport(w))
          BY <1>3, <3>1 DEF Orderly, UpdatesRow
    <3>3. PICK diff : diff = Differing(v.row, table[id])
          OBVIOUS
    <3>4. call' = [call EXCEPT ![w].loaded = TRUE, ![w].changed = diff]
          BY <2>2, <3>1, <3>2, <3>3 DEF WorkerLoad, SaveLoad
    <3>5. /\ call'[w].id = id /\ call'[w].row = v.row /\ call'[w].changed = diff
          /\ \A p \in Procs \ {w} : call'[p] = call[p]
          BY <1>1, <3>1, <3>2, <3>4 DEF Call
    <3>6. UpdatesRow(w)'
          BY <1>2, <1>4, <3>2, <3>3, <3>5 DEF UpdatesRow
    <3> QED BY <3>5, <3>6, ProcsAssumption
  <2> QED BY <2>1, <2>2
<1> QED BY <1>2, <1>5, OrderlyKept

\* The steps of a loop that write no row.
LEMMA OtherStepsKeepOrderly ==
    ASSUME Core, Orderly, NEW w \in Workers,
           \/ (WorkerUpdated(w) /\ SaveNothing(w))
           \/ UpdateThrows(w) \/ Receive(w) \/ Send(w) \/ Return(w)
    PROVE  Orderly'
<1>1. /\ w \in Procs /\ worker \in [Workers -> WorkerState]
      /\ position \in [Workers -> 0 .. Len(log)]
      BY ProcsAssumption DEF Core, TypeOK, TopicTypeOK
<1>2. Grows
      BY SendKeepsCore, GrowsInPlace
         DEF WorkerUpdated, UpdateThrows, Receive, Deliver, Return, Store, Redeliver, Core, TypeOK,
             topicVars
<1>3. /\ table' = table /\ call'[w] = None
      /\ \A v \in Workers \ {w} : call'[v] = call[v]
  <2>1. CASE (WorkerUpdated(w) /\ SaveNothing(w)) \/ UpdateThrows(w)
    <3>1. table' = table
          BY <2>1 DEF SaveNothing, UpdateThrows, UpdateAbandon, statusVars
    <3>2. call'[w] = None /\ \A p \in Procs \ {w} : call'[p] = call[p]
          BY <2>1, UpdateOver DEF UpdateThrows
    <3> QED BY <3>1, <3>2, ProcsAssumption
  <2>2. CASE Receive(w) \/ Send(w) \/ Return(w)
    <3>1. call[w] = None
          BY <2>2, SendKeepsCore, IdleHasNoUpdate
             DEF Core, WorkInv, AtUpdate, Receive, Send, Return
    <3> QED BY <2>2, <3>1 DEF Receive, Send, Return, statusVars
  <2> QED BY <2>1, <2>2
<1>4. /\ UNCHANGED <<session, owner>>
      /\ \A v \in Workers \ {w} : position'[v] = position[v] /\ worker'[v] = worker[v]
      BY <1>1 DEF WorkerUpdated, AfterUpdate, UpdateThrows, Redeliver, Receive, Deliver, Send,
                  AfterSend, Return, Store, topicVars
<1>5. UpdatesRow(w)'
      BY <1>3 DEF UpdatesRow
<1> QED BY <1>2, <1>3, <1>4, <1>5, OrderlyKept

\* Before the first fault the broker has not taken the partition away either.
LEMMA NoRebalance ==
    ASSUME Core, faults' = 0 \/ "rebalance" \notin FaultKinds
    PROVE  ~Fault("rebalance")
BY FaultsAssumption DEF Core, TypeOK, Fault

(***************************************************************************)
(* The steps of the group: a loop starts when the partition is its own,    *)
(* which it was given when no other ran; one that ends frees the partition.*)
(***************************************************************************)
LEMMA GroupKeepsOrderly ==
    ASSUME Core, Orderly, faults' = 0 \/ "rebalance" \notin FaultKinds,
           NEW w \in Workers, GroupStep(w) \/ Crash(w)
    PROVE  Orderly'
<1>1. TopicTypeOK /\ Grows
      BY CrashKeepsCore, GrowsInPlace
         DEF GroupStep, Start, Revoke, Listen, JoinGroup, Grant, FirstFetch, Begin, AutoCommit,
             Commit, SessionEnds, EndSession, Close, serviceVars, topicVars, Core, TypeOK
<1>2. CASE Start(w) \/ Listen(w) \/ AutoCommit(w)
  <2>1. ~Fault("rebalance")
        BY NoRebalance
  <2> QED BY <1>1, <1>2, <2>1, OrderlyInPlace
          DEF Start, Listen, AutoCommit, Commit, statusVars, serviceVars, topicVars
<1>3. CASE JoinGroup(w)
  <2>1. /\ owner \in {Nobody, w} /\ ~session[w] /\ owner' = w
        /\ UNCHANGED <<table, call, worker>>
        BY <1>3 DEF JoinGroup, Grant, FirstFetch, statusVars, serviceVars
  <2>2. \A v \in Workers : ~session[v]
        BY <2>1, NobodyAssumption DEF Orderly
  <2>3. \A v \in Workers \ {w} : session'[v] = session[v]
        BY <1>1, <1>3 DEF JoinGroup, Grant, FirstFetch, Begin, TopicTypeOK
  <2>4. \A v \in Workers : UpdatesRow(v)'
        BY <2>1, <2>2, IdleHasNoUpdate DEF UpdatesRow
  <2> QED BY <2>1, <2>2, <2>3, <2>4 DEF Orderly, RowsConsistent, Consistent
<1>4. CASE SessionEnds(w) \/ Crash(w)
  <2>1. Close(w) /\ table' = table
        BY <1>4 DEF SessionEnds, EndSession, Crash, Leave, statusVars
  <2>2. \A v \in Workers \ {w} : /\ session'[v] = session[v] /\ position'[v] = position[v]
                                 /\ worker'[v] = worker[v]
        BY <1>1, <1>4, <2>1 DEF Close, SessionEnds, Crash, serviceVars, TopicTypeOK, Core, TypeOK
  <2>3. ~session'[w]
        BY <1>1, <2>1 DEF Close, TopicTypeOK
  <2>4. \A v \in Workers : session'[v] => session[v] /\ owner' = owner
        BY <1>4, <2>2, <2>3 DEF Orderly, SessionEnds, EndSession, Crash, Leave
  <2>5. call'[w] = None
    <3>1. CASE SessionEnds(w)
          BY <3>1, IdleHasNoUpdate DEF SessionEnds, statusVars
    <3>2. CASE Crash(w)
          BY <3>2, CrashKeepsCore
    <3> QED BY <1>4, <3>1, <3>2
  <2>6. \A v \in Workers : call'[v] = call[v] \/ call'[v] = None
        BY <1>4, <2>5, CrashKeepsCore DEF SessionEnds, statusVars, StillWorker
  <2>7. UpdatesRow(w)'
        BY <2>5 DEF UpdatesRow
  <2> QED BY <1>1, <2>1, <2>2, <2>4, <2>6, <2>7, OrderlyKept
<1> QED BY <1>2, <1>3, <1>4 DEF GroupStep

\* Receipts are never taken back.
LEMMA ReceiptsStay ==
    ASSUME [Next]_vars
    PROVE  receipts \subseteq receipts'
BY DEF Next, Post, ApiStep, WriteInitialRow, Emit, Flush, WorkerStep, Receive, WorkerFind,
       WorkerLoad, WorkerUpdated, UpdateThrows, Send, Return, GroupStep, Start, Listen,
       JoinGroup, AutoCommit, SessionEnds, Crash, HookStep, HandleCallback, HookSave,
       HookSaveFails, Rebalance, ForeignMessage, vars, serviceVars

\* Nor are faults.
LEMMA FaultsGrow ==
    ASSUME Core, [Next]_vars
    PROVE  faults \in Nat /\ faults' \in {faults, faults + 1}
<1>1. NoFault \/ \E kind \in FaultKinds : Fault(kind)
  <2>1. ASSUME NEW id \in Ids, (\E w \in Workers : Post(id, w)) \/ ApiStep(id) \/ Flush(id)
        PROVE  NoFault \/ \E kind \in FaultKinds : Fault(kind)
        BY <2>1 DEF Post, ApiStep, WriteInitialRow, Emit, Flush, Fault
  <2>2. ASSUME NEW w \in Workers, WorkerStep(w) \/ GroupStep(w) \/ Crash(w)
        PROVE  NoFault \/ \E kind \in FaultKinds : Fault(kind)
        BY <2>2
           DEF WorkerStep, Receive, WorkerFind, WorkerLoad, WorkerUpdated, UpdateThrows, Send,
               Return, GroupStep, Start, Listen, JoinGroup, AutoCommit, SessionEnds, Crash,
               NoFault, Fault, serviceVars
  <2>3. ASSUME NEW h \in Hooks, HookStep(h)
        PROVE  NoFault \/ \E kind \in FaultKinds : Fault(kind)
        BY <2>3 DEF HookStep, HandleCallback, HookSave, HookSaveFails, NoFault, Fault,
                       serviceVars
  <2>4. CASE Rebalance \/ ForeignMessage \/ UNCHANGED vars
        BY <2>4 DEF Rebalance, ForeignMessage, vars, serviceVars, NoFault, Fault
  <2> QED BY <2>1, <2>2, <2>3, <2>4 DEF Next
<1> QED BY <1>1, FaultsAssumption DEF NoFault, Fault, Core, TypeOK

\* Without callbacks the webhook is at rest.
LEMMA HooksAtRest ==
    ASSUME Core, receipts' = {}, receipts = {}, NEW h \in Hooks
    PROVE  ~HookStep(h)
<1>1. call[h] = None
      BY DEF Core
<1> QED BY <1>1 DEF HookStep, HandleCallback, HookSave, HookSaveFails, SaveLoad, SaveNothing,
           SaveWrite, UpdateAbandon

\* Every step keeps Orderly, as long as nobody disturbs the owner.
LEMMA NextKeepsOrderly == Core /\ OrderlyInv /\ [Next]_vars => OrderlyInv'
<1> SUFFICES ASSUME Core, OrderlyInv, [Next]_vars, Undisturbed'
             PROVE  Orderly'
    BY DEF OrderlyInv
<1>1. receipts \subseteq receipts' /\ (faults' = 0 => faults = 0)
      BY ReceiptsStay, FaultsGrow
<1>2. /\ Orderly /\ receipts' = {} /\ receipts = {}
      /\ faults' = 0 \/ "rebalance" \notin FaultKinds
      BY <1>1 DEF Undisturbed, OrderlyInv
<1>3. ASSUME NEW id \in Ids, (\E w \in Workers : Post(id, w)) \/ Emit(id)
      PROVE  Orderly'
  <2>1. Grows
        BY <1>3, GrowsInPlace DEF Post, Emit, Core, TypeOK, topicVars
  <2> QED BY <1>2, <1>3, <2>1, OrderlyInPlace DEF Post, Emit, topicVars, statusVars
<1>4. CASE (\E id \in Ids : Flush(id)) \/ ForeignMessage
  <2>1. UNCHANGED topicVars \/ \E m \in Ids \cup {Junk} : Append1(m) \/ Append2(m)
        BY <1>4 DEF Flush, ForeignMessage
  <2>2. UNCHANGED <<statusVars, sends, receipts, worker>>
        BY <1>4 DEF Flush, ForeignMessage
  <2>3. Grows
        BY <2>1, <2>2, ProducerKeepsTopic
  <2>4. UNCHANGED <<owner, session, position>>
        BY <2>1 DEF topicVars, Append1, Append2, groupVars
  <2> QED BY <1>2, <2>2, <2>3, <2>4, OrderlyInPlace DEF statusVars
<1>5. CASE UNCHANGED vars
  <2>1. Grows
        BY <1>5, GrowsInPlace DEF Core, TypeOK, vars, topicVars, serviceVars
  <2> QED BY <1>2, <1>5, <2>1, OrderlyInPlace DEF vars, topicVars, serviceVars, statusVars
<1>6. ~Rebalance /\ \A h \in Hooks : ~HookStep(h)
      BY <1>2, NoRebalance, HooksAtRest DEF Rebalance
<1>7. ASSUME NEW w \in Workers, WorkerStep(w)
      PROVE  Orderly'
  <2>1. CASE WorkerUpdated(w)
        BY <1>2, <2>1, WriteKeepsOrderly, OtherStepsKeepOrderly DEF WorkerUpdated
  <2> QED BY <1>2, <1>7, <2>1, ReadsKeepOrderly, OtherStepsKeepOrderly DEF WorkerStep
<1>8. ASSUME NEW w \in Workers, GroupStep(w) \/ Crash(w)
      PROVE  Orderly'
      BY <1>2, <1>8, GroupKeepsOrderly
<1>9. ASSUME NEW id \in Ids, ApiStep(id)
      PROVE  Orderly'
      BY <1>2, <1>3, <1>9, CreateKeepsOrderly DEF ApiStep
<1> QED BY <1>3, <1>4, <1>5, <1>6, <1>7, <1>8, <1>9 DEF Next

\* OrderlyInv is an invariant of the TypeScript service.
LEMMA OrderlyHolds == Spec => []OrderlyInv
<1>1. Init => OrderlyInv
      BY ProcsAssumption
         DEF Init, StatusInit, TopicInit, OrderlyInv, Orderly, UpdatesRow, RowsConsistent
<1> QED BY <1>1, CoreHolds, NextKeepsOrderly, PTL DEF Spec

(***************************************************************************)
(* As long as no provider calls back and no loop outlives its partition,   *)
(* no row a client polls contradicts itself, though an update is three     *)
(* statements and writes single columns, and its process may die between   *)
(* any two of them (RowsConsistent).                                       *)
(***************************************************************************)
THEOREM ServiceRowsStayConsistent == Spec => [](Undisturbed => RowsConsistent)
<1>1. OrderlyInv => (Undisturbed => RowsConsistent)
      BY DEF OrderlyInv, Orderly
<1> QED BY <1>1, OrderlyHolds, PTL

(***************************************************************************)
(* ... and /metrics counts exactly (MetricsExact).                         *)
(***************************************************************************)
THEOREM ServiceMetricsStayExact == Spec => [](Undisturbed => MetricsExact)
<1>1. Core /\ RowsConsistent => MetricsExact
  <2> SUFFICES ASSUME Core, RowsConsistent
               PROVE  MetricsExact
      OBVIOUS
  <2>1. Completed \cap OverallStatuses = {"COMPLETED"} /\ "PENDING" \notin Completed
        BY DEF Completed, OverallStatuses
  <2> QED BY <2>1, ConsistentRowsCount
          DEF Core, RowsInv, StatusTypeOK, RowsConsistent, Consistent, MetricsExact, GetMetrics
<1> QED BY <1>1, CoreHolds, ServiceRowsStayConsistent, PTL

-----------------------------------------------------------------------------
(***************************************************************************)
(* The steps of the service as steps of StatusLedger: the first row opens  *)
(* the notification, the second statement of save is a report, and nothing *)
(* else shows: a failure or a crash takes entities away, but no row.       *)
(***************************************************************************)
LEMMA LedgerUnchanged ==
    ASSUME table' = table
    PROVE  UNCHANGED tableLedger
BY DEF tableLedger

\* createInitialStatus opens the ledger's entry.
LEMMA CreateIsOpen ==
    ASSUME Core, NEW id \in Ids, CreateInitialStatus(id, ToSet(Request[id].channels))
    PROVE  Ledger!LedgerNext
<1> DEFINE chans == ToSet(Request[id].channels)
<1>1. PICK row \in Row : row = InitialRow(chans)
      BY RequestFacts, InitialRowIsConsistent
<1>2. /\ table[id] = None /\ row # None
      /\ table' = [table EXCEPT ![id] = row] /\ table \in [Ids -> Row \cup {None}]
      BY <1>1, NoneAssumption DEF CreateInitialStatus, Core, RowsInv, StatusTypeOK
<1>3. /\ tableLedger[id] = None
      /\ tableLedger' = [tableLedger EXCEPT ![id] = row.channels]
      BY <1>2 DEF tableLedger
<1>4. Ledger!Open(id, chans)
      BY <1>1, <1>3 DEF Ledger!Open, Ledger!InitialRow, InitialRow
<1> QED BY <1>4, RequestFacts DEF Ledger!LedgerNext

\* The statement that writes an update's columns is its report.
LEMMA WriteIsReport ==
    ASSUME Core, Orderly, NEW w \in Workers, AtUpdate(w), SaveWrite(w)
    PROVE  Ledger!LedgerNext
<1>1. PICK id \in Ids, old \in Row, c \in Channels, s \in WorkerStatuses :
          /\ table[id] = old /\ old # None
          /\ table' = [table EXCEPT ![id] = WithChannel(old, c, s)]
      BY SaveWritesEntity
<1>2. PICK new \in Row : new = WithChannel(old, c, s) /\ new.channels = [old.channels EXCEPT ![c] = s]
      BY WithChannelFacts
<1>3. /\ table \in [Ids -> Row \cup {None}] /\ new # None /\ old.channels # None
      /\ table' = [table EXCEPT ![id] = new]
      BY <1>1, <1>2, NoneAssumption DEF Core, RowsInv, StatusTypeOK, Row
<1>4. /\ tableLedger[id] = old.channels
      /\ tableLedger' = [tableLedger EXCEPT ![id] = new.channels]
      BY <1>1, <1>3 DEF tableLedger
<1>5. Ledger!Report(id, c, s)
      BY <1>2, <1>3, <1>4 DEF Ledger!Report, tableLedger
<1> QED BY <1>5 DEF Ledger!LedgerNext, Ledger!WorkerStatuses, WorkerStatuses

\* Every step is a report, an opening, or invisible in the ledger.
LEMMA NextIsLedger ==
    Core /\ OrderlyInv /\ Undisturbed /\ Undisturbed' /\ [Next]_vars
        => [Ledger!LedgerNext]_tableLedger
<1> SUFFICES ASSUME Core, OrderlyInv, Undisturbed, Undisturbed', [Next]_vars
             PROVE  [Ledger!LedgerNext]_tableLedger
    OBVIOUS
<1>1. Orderly /\ receipts = {} /\ receipts' = {}
      BY DEF OrderlyInv, Undisturbed
<1>2. ASSUME NEW id \in Ids, ApiStep(id)
      PROVE  [Ledger!LedgerNext]_tableLedger
  <2>1. CASE CreateInitialStatus(id, ToSet(Request[id].channels))
        BY <2>1, CreateIsOpen
  <2>2. CASE UNCHANGED statusVars
        BY <2>2, LedgerUnchanged DEF statusVars
  <2> QED BY <1>2, <2>1, <2>2 DEF ApiStep, WriteInitialRow, Emit
<1>3. ASSUME NEW w \in Workers, WorkerStep(w)
      PROVE  [Ledger!LedgerNext]_tableLedger
  <2>1. CASE WorkerUpdated(w) /\ SaveWrite(w)
        BY <1>1, <2>1, WriteIsReport DEF WorkerUpdated
  <2>2. CASE table' = table
        BY <2>2, LedgerUnchanged
  <2> QED BY <1>3, <2>1, <2>2
          DEF WorkerStep, Receive, WorkerFind, UpdateFind, WorkerLoad, SaveLoad, WorkerUpdated,
              SaveNothing, UpdateThrows, UpdateAbandon, Send, Return, statusVars
<1>4. ASSUME NEW w \in Workers, GroupStep(w) \/ Crash(w)
      PROVE  UNCHANGED tableLedger
      BY <1>4, LedgerUnchanged
         DEF GroupStep, Start, Listen, JoinGroup, AutoCommit, SessionEnds, Crash, statusVars
<1>5. ASSUME NEW id \in Ids, (\E w \in Workers : Post(id, w)) \/ Flush(id)
      PROVE  UNCHANGED tableLedger
      BY <1>5, LedgerUnchanged DEF Post, Flush, statusVars
<1>6. CASE Rebalance \/ ForeignMessage \/ UNCHANGED vars
      BY <1>6, LedgerUnchanged DEF Rebalance, ForeignMessage, vars, statusVars
<1>7. \A h \in Hooks : ~HookStep(h)
      BY <1>1, HooksAtRest
<1> QED BY <1>2, <1>3, <1>4, <1>5, <1>6, <1>7 DEF Next

(***************************************************************************)
(* As long as nobody disturbs the owner of the partition, the table holds  *)
(* what was reported last for each channel: an update is one report, made  *)
(* by its last statement or not at all (ImplementsLedger).                 *)
(***************************************************************************)
THEOREM ServiceImplementsLedger == Spec /\ []Undisturbed => ImplementsLedger
<1>1. Init => Ledger!LedgerInit
      BY DEF Init, StatusInit, Ledger!LedgerInit, tableLedger
<1> QED BY <1>1, CoreHolds, OrderlyHolds, NextIsLedger, PTL
        DEF Spec, ImplementsLedger, Ledger!LedgerSpec

-----------------------------------------------------------------------------
(***************************************************************************)
(* What a polling client sees.  Until the first fault, and until a         *)
(* provider calls back, a message is worked on once, by one loop, which    *)
(* takes one channel after the other.  So the row of a notification says   *)
(* how far that loop has come.                                             *)
(***************************************************************************)
Calm == faults = 0 /\ receipts = {}

AllPending(id) ==
    \A i \in 1 .. Len(Request[id].channels) :
        table[id].channels[Request[id].channels[i]] = "PENDING"

\* Whether there is anything to send over channel c.
Sendable(id, c) == c \in Supported /\ id \notin NoRecipients

\* What the row says of channel c of id when it has been dealt with.
Outcomes(id, c) ==
    IF ~Sendable(id, c) THEN Failed
    ELSE IF c \in Flaky THEN Completed \cup Failed ELSE Completed

\* What the row may say of channel c while w works on the v.ch-th channel.
StatusMidway(w, c) ==
    LET chs == WorkerChannels(w)
        v   == worker[w]
    IN  IF v.pc # "processing" /\ c = chs[v.ch] THEN {"PROCESSING"}
        ELSE IF \E j \in 1 .. Len(chs) : j < v.ch /\ chs[j] = c THEN Outcomes(Current(w), c)
        ELSE {"PENDING"}

Midway(w) ==
    LET id  == Current(w)
        chs == WorkerChannels(w)
        v   == worker[w]
    IN  v.pc \in {"processing", "send", "final", "catch"} =>
            /\ v.pc \in {"send", "final"} => Sendable(id, chs[v.ch])
            /\ v.pc = "catch" => ~Sendable(id, chs[v.ch])
            /\ table[id] # None =>
                   \A i \in 1 .. Len(chs) : table[id].channels[chs[i]] \in StatusMidway(w, chs[i])

LoggedOnce ==
    /\ MessagesAreUnique
    /\ \A id \in Ids : api[id] \in {"idle", "create", "produce"} => ~Logged(id)
    /\ \A id \in outbox : api[id] = "accepted" /\ ~Logged(id)

FirstRun ==
    /\ LoggedOnce
    /\ \A id \in Ids : table[id] # None /\ ~Begun(id) => AllPending(id)
    /\ \A w \in Workers : Midway(w)

CalmInv == Calm => FirstRun

(***************************************************************************)
(* A row goes back when a channel is worked on again that has failed, or   *)
(* when it is the last of the channels and all are completed.  A request   *)
(* that names no channel twice is safe from both.                          *)
(***************************************************************************)
RepeatsHarmlessly(id) ==
    LET chs == Request[id].channels
    IN  \A j \in 1 .. Len(chs) : NamedBefore(id, j) =>
            /\ Outcomes(id, chs[j]) = Completed
            /\ \E k \in 1 .. Len(chs) :
                   Outcomes(id, chs[k]) = Failed \/ \A i \in 1 .. Len(chs) : i < j => chs[i] # chs[k]

\* A fault or a callback ends the calm for good.
LEMMA CalmBefore ==
    ASSUME Core, [Next]_vars, Calm'
    PROVE  Calm
BY FaultsGrow, ReceiptsStay DEF Calm

\* Calm is stricter than Undisturbed.
LEMMA CalmIsUndisturbed ==
    ASSUME Calm
    PROVE  Undisturbed
BY DEF Calm, Undisturbed

\* In the calm nothing is a fault.
LEMMA NoFaultInCalm ==
    ASSUME Calm, Calm', NEW kind
    PROVE  ~Fault(kind)
BY DEF Calm, Fault

(***************************************************************************)
(* A row that no loop has begun on stays so until one begins.              *)
(***************************************************************************)
LEMMA PendingKept ==
    ASSUME Core, Grows, FirstRun, LoopsGoOn,
           NEW id \in Ids, table[id] # None, table'[id] = table[id], ~Begun(id)'
    PROVE  AllPending(id)'
BY BegunStays DEF FirstRun, AllPending, Core, TypeOK

\* The row of the message in hand says the same while neither of them changes.
LEMMA MidwayKept ==
    ASSUME Core, Grows, FirstRun, NEW w \in Workers,
           worker[w].pc # "wait" =>
               /\ position'[w] = position[w]
               /\ table'[Current(w)] = table[Current(w)],
           worker'[w] = worker[w]
    PROVE  Midway(w)'
<1>1. CASE worker[w].pc = "wait"
      BY <1>1 DEF Midway
<1>2. CASE worker[w].pc # "wait"
  <2>1. Current(w)' = Current(w)
        BY <1>2, InMessageFacts DEF Grows, Current
  <2>2. WorkerChannels(w)' = WorkerChannels(w)
        BY <2>1 DEF WorkerChannels
  <2>3. \A c : StatusMidway(w, c)' = StatusMidway(w, c)
        BY <2>1, <2>2 DEF StatusMidway, Outcomes, Sendable
  <2>4. table'[Current(w)'] = table[Current(w)] /\ Midway(w)
        BY <1>2, <2>1 DEF FirstRun
  <2> QED BY <2>1, <2>2, <2>3, <2>4 DEF Midway, Sendable
<1> QED BY <1>1, <1>2

\* A step that touches neither a row nor what a loop has in hand.
LEMMA FirstRunAside ==
    ASSUME Core, Grows, FirstRun, LoggedOnce', UNCHANGED <<table, worker>>,
           \A w \in Workers : session[w] => session'[w] /\ position'[w] = position[w]
    PROVE  FirstRun'
<1>1. LoopsGoOn
      BY DEF LoopsGoOn, Core, TypeOK, TopicTypeOK
<1>2. \A w \in Workers : worker[w].pc # "wait" => position'[w] = position[w]
      BY IdleHasNoUpdate
<1>3. \A w \in Workers : Midway(w)'
      BY <1>2, MidwayKept
<1>4. \A id \in Ids : (table[id] # None /\ ~Begun(id) => AllPending(id))'
      BY <1>1, PendingKept
<1> QED BY <1>3, <1>4 DEF FirstRun

\* A step of the loop that has the partition.
LEMMA FirstRunOfLoop ==
    ASSUME Core, Grows, Orderly, FirstRun, NEW w \in Workers, session[w],
           UNCHANGED <<log, session, api, outbox>>,
           position'[w] \in Nat, position[w] <= position'[w],
           \A v \in Workers \ {w} : position'[v] = position[v] /\ worker'[v] = worker[v],
           \A id \in Ids : table'[id] = table[id] \/ Begun(id)',
           Midway(w)'
    PROVE  FirstRun'
<1>1. LoopsGoOn
  <2>1. TopicTypeOK
        BY DEF Core, TypeOK
  <2>2. \A v \in Workers : position[v] \in Nat
        BY <2>1 DEF TopicTypeOK
  <2> QED BY <2>2 DEF LoopsGoOn
<1>2. \A v \in Workers \ {w} : Midway(v)'
      BY OneLoop DEF Midway
<1>3. \A id \in Ids : (table[id] # None /\ ~Begun(id) => AllPending(id))'
      BY <1>1, PendingKept
<1>4. LoggedOnce'
      BY DEF FirstRun, LoggedOnce, MessagesAreUnique, Logged
<1> QED BY <1>2, <1>3, <1>4 DEF FirstRun

-----------------------------------------------------------------------------
(***************************************************************************)
(* The steps of a request.                                                 *)
(***************************************************************************)
LEMMA CreateKeepsFirstRun ==
    ASSUME Core, FirstRun, NEW id \in Ids, WriteInitialRow(id), Calm, Calm'
    PROVE  FirstRun'
<1>1. /\ api[id] = "create" /\ api' = [api EXCEPT ![id] = "produce"]
      /\ CreateInitialStatus(id, ToSet(Request[id].channels))
      /\ UNCHANGED <<log, session, position, worker, sends, receipts, outbox>>
      BY NoFaultInCalm DEF WriteInitialRow, SetApi, topicVars
<1>2. /\ table'[id] = InitialRow(ToSet(Request[id].channels))
      /\ \A i \in Ids \ {id} : table'[i] = table[i]
      BY <1>1 DEF CreateInitialStatus, Core, RowsInv, StatusTypeOK
<1>3. /\ Grows /\ LoopsGoOn /\ ~Logged(id)
      BY <1>1, GrowsInPlace DEF Core, TypeOK, TopicTypeOK, LoopsGoOn, FirstRun, LoggedOnce
<1>4. LoggedOnce'
      BY <1>1 DEF FirstRun, LoggedOnce, MessagesAreUnique, Logged, Core, TypeOK
<1>5. AllPending(id)'
  <2>1. \A c \in ToSet(Request[id].channels) : table'[id].channels[c] = "PENDING"
        BY <1>2, RequestFacts DEF InitialRow
  <2>2. \A i \in 1 .. Len(Request[id].channels) :
            Request[id].channels[i] \in ToSet(Request[id].channels)
        BY RequestFacts
  <2> QED BY <2>1, <2>2 DEF AllPending
<1>6. ASSUME NEW i \in Ids, i # id, table'[i] # None, ~Begun(i)'
      PROVE  AllPending(i)'
      BY <1>2, <1>3, <1>6, PendingKept
<1>7. ASSUME NEW w \in Workers
      PROVE  Midway(w)'
  <2>1. worker[w].pc # "wait" => Current(w) \in Ids \ {id}
        BY <1>3, InMessageFacts DEF Logged
  <2> QED BY <1>1, <1>2, <1>3, <2>1, MidwayKept
<1> QED BY <1>4, <1>5, <1>6, <1>7 DEF FirstRun

\* The request is posted, its message is emitted, and later sent.
LEMMA RequestKeepsFirstRun ==
    ASSUME Core, FirstRun, NEW id \in Ids, Calm, Calm',
           (\E w \in Workers : Post(id, w)) \/ Emit(id) \/ Flush(id)
    PROVE  FirstRun'
<1>1. UNCHANGED <<table, worker, session, position, sends, receipts>>
      BY DEF Post, Emit, Flush, Append1, Append2, groupVars, topicVars, statusVars
<1>2. CASE Flush(id)
  <2>1. /\ id \in outbox /\ outbox' = outbox \ {id} /\ Append1(id) /\ api' = api
        BY <1>2, NoFaultInCalm DEF Flush
  <2>2. Grows /\ ~Logged(id)
        BY <1>1, <2>1, GrowsByAppend DEF Core, TypeOK, FirstRun, LoggedOnce
  <2>3. MessagesAreUnique'
        BY <2>1, <2>2, AppendKeepsUnique DEF Core, TypeOK, FirstRun, LoggedOnce
  <2>4. \A i \in Ids : i # id => (Logged(i)' <=> Logged(i))
        BY <2>1, AppendFacts DEF Core, TypeOK
  <2>5. api[id] = "accepted" /\ outbox \subseteq Ids
        BY <2>1 DEF Core, TypeOK, FirstRun, LoggedOnce
  <2>6. LoggedOnce'
        BY <2>1, <2>3, <2>4, <2>5 DEF FirstRun, LoggedOnce
  <2> QED BY <1>1, <2>2, <2>6, FirstRunAside
<1>3. CASE (\E w \in Workers : Post(id, w)) \/ Emit(id)
  <2>1. /\ log' = log
        /\ \/ api[id] = "idle" /\ api' = [api EXCEPT ![id] = "create"] /\ outbox' = outbox
           \/ /\ api[id] = "produce" /\ api' = [api EXCEPT ![id] = "accepted"]
              /\ outbox' = outbox \cup {id}
        BY <1>3 DEF Post, Emit, SetApi, topicVars
  <2>2. Grows
        BY <1>1, <2>1, GrowsInPlace DEF Core, TypeOK
  <2>3. LoggedOnce'
        BY <2>1 DEF FirstRun, LoggedOnce, MessagesAreUnique, Logged, Core, TypeOK
  <2> QED BY <1>1, <2>2, <2>3, FirstRunAside
<1> QED BY <1>2, <1>3

-----------------------------------------------------------------------------
(***************************************************************************)
(* The steps of a loop.                                                    *)
(***************************************************************************)
LEMMA ReceiveKeepsFirstRun ==
    ASSUME Core, Orderly, FirstRun, NEW w \in Workers, Receive(w)
    PROVE  FirstRun'
<1>1. /\ position \in [Workers -> 0 .. Len(log)] /\ worker \in [Workers -> WorkerState]
      /\ Len(log) \in Nat /\ log \in Seq(Ids \cup {Junk})
      BY KeysAssumption DEF Core, TypeOK, TopicTypeOK
<1>2. PICK n \in 1 .. Len(log) : n = position[w] + 1 /\ position' = [position EXCEPT ![w] = n]
  <2>1. position[w] \in Nat /\ position[w] < Len(log)
        BY <1>1 DEF Receive, Deliver
  <2>2. PICK n \in 1 .. Len(log) : n = position[w] + 1
        BY <1>1, <2>1
  <2>3. position' = [position EXCEPT ![w] = n]
        BY <2>2 DEF Receive, Deliver
  <2> QED BY <2>2, <2>3
<1>3. PICK id \in Ids : id = log[n]
      BY <1>1, <1>2 DEF Receive
<1>4. PICK new : new = AtChannel(1, Len(Request[id].channels))
                 /\ worker' = [worker EXCEPT ![w] = new]
      BY <1>2, <1>3 DEF Receive
<1>5. /\ session[w] /\ position'[w] = n /\ worker'[w] = new
      /\ \A v \in Workers \ {w} : position'[v] = position[v] /\ worker'[v] = worker[v]
      /\ UNCHANGED <<log, session, sends, receipts, api, outbox, table>>
      BY <1>1, <1>2, <1>4 DEF Receive, Deliver, statusVars, processVars
<1>6. Grows
      BY <1>5, GrowsInPlace DEF Core, TypeOK
<1>7. ~Begun(id)
  <2> SUFFICES ASSUME NEW v \in Workers, session[v], NEW k \in 1 .. position[v], log[k] = id
               PROVE  FALSE
      BY DEF Begun
  <2>1. v = w
        BY <1>5, OneLoop
  <2>2. k \in 1 .. Len(log) /\ k # n
        BY <1>1, <1>2, <2>1
  <2> QED BY <1>3, <2>2 DEF FirstRun, LoggedOnce, MessagesAreUnique
<1>8. Midway(w)'
  <2>1. new.pc \in {"processing", "mark"} /\ new.ch = 1
        BY <1>4 DEF AtChannel
  <2>2. Current(w)' = id /\ WorkerChannels(w)' = Request[id].channels
        BY <1>3, <1>5 DEF Current, WorkerChannels
  <2>3. table'[id] # None => AllPending(id)
        BY <1>5, <1>7 DEF FirstRun
  <2>4. ASSUME new.pc = "processing", NEW c
        PROVE  StatusMidway(w, c)' = {"PENDING"}
        BY <1>5, <2>1, <2>2, <2>4, RequestFacts DEF StatusMidway
  <2> QED BY <1>5, <2>1, <2>2, <2>3, <2>4 DEF Midway, AllPending
<1> QED BY <1>1, <1>2, <1>5, <1>6, <1>8, FirstRunOfLoop

\* An update is over: the row has the status that the loop's place stands for.
LEMMA UpdatedRow ==
    ASSUME Core, Orderly, NEW w \in Workers, WorkerUpdated(w)
    PROVE  \E id \in Ids, row \in Row, c \in Channels, s \in WorkerStatuses :
               /\ id = Current(w) /\ c = WorkerChannel(w) /\ s = StatusToReport(w)
               /\ table[id] = row
               /\ table'[id].channels = [row.channels EXCEPT ![c] = s]
               /\ \A i \in Ids \ {id} : table'[i] = table[i]
               /\ table' = table \/ table' = [table EXCEPT ![id] = WithChannel(row, c, s)]
<1>1. AtUpdate(w) /\ w \in Procs /\ table \in [Ids -> Row \cup {None}]
      BY ProcsAssumption DEF WorkerUpdated, Core, RowsInv, StatusTypeOK
<1>2. CASE SaveWrite(w)
  <2>1. PICK id \in Ids, row \in Row, c \in Channels, s \in WorkerStatuses :
            /\ id = Current(w) /\ c = WorkerChannel(w) /\ s = StatusToReport(w)
            /\ table[id] = row /\ row # None
            /\ table' = [table EXCEPT ![id] = WithChannel(row, c, s)]
        BY <1>1, <1>2, SaveWritesEntity
  <2>2. WithChannel(row, c, s).channels = [row.channels EXCEPT ![c] = s]
        BY WithChannelFacts
  <2>3. /\ table'[id].channels = [row.channels EXCEPT ![c] = s]
        /\ \A i \in Ids \ {id} : table'[i] = table[i]
        BY <1>1, <2>1, <2>2
  <2> QED BY <2>1, <2>3
<1>3. CASE SaveNothing(w)
  <2>1. PICK id \in Ids, c \in Channels, s \in WorkerStatuses :
            id = Current(w) /\ c = WorkerChannel(w) /\ s = StatusToReport(w)
        BY <1>1, InMessageFacts DEF AtUpdate, StatusToReport, WorkerStatuses
  <2>2. /\ call[w] # None /\ Differing(call[w].row, table[call[w].id]) = {} /\ table' = table
        BY <1>3 DEF SaveNothing
  <2>3. /\ table[id] # None /\ call[w].id = id
        /\ call[w].row = WithChannel(table[id], c, s)
        BY <1>1, <2>1, <2>2 DEF Orderly, UpdatesRow, Core, RowsInv
  <2>4. PICK row \in Row : row = table[id]
        BY <1>1, <2>3
  <2>5. call[w].row.channels = row.channels
        BY <2>2, <2>3, <2>4 DEF Differing, Columns
  <2>6. call[w].row.channels = [row.channels EXCEPT ![c] = s]
        BY <2>3, <2>4, WithChannelFacts
  <2>7. /\ id = Current(w) /\ c = WorkerChannel(w) /\ s = StatusToReport(w)
        /\ table[id] = row /\ table' = table
        /\ table'[id].channels = [row.channels EXCEPT ![c] = s]
        BY <2>1, <2>2, <2>4, <2>5, <2>6
  <2> QED BY <2>7
<1> QED BY <1>2, <1>3 DEF WorkerUpdated

\* ... so the row says how far the loop has come when the update is over.
LEMMA UpdateKeepsFirstRun ==
    ASSUME Core, Orderly, FirstRun, NEW w \in Workers, WorkerUpdated(w)
    PROVE  FirstRun'
<1>1. PICK id \in Ids, row \in Row, c \in Channels, s \in WorkerStatuses :
          /\ id = Current(w) /\ c = WorkerChannel(w) /\ s = StatusToReport(w)
          /\ table[id] = row
          /\ table'[id].channels = [row.channels EXCEPT ![c] = s]
          /\ \A i \in Ids \ {id} : table'[i] = table[i]
          /\ table' = table \/ table' = [table EXCEPT ![id] = WithChannel(row, c, s)]
      BY UpdatedRow
<1>2. PICK old \in WorkerState : old = worker[w]
      BY InMessageFacts DEF WorkerUpdated, AtUpdate
<1> DEFINE chs == Request[id].channels
<1>3. /\ old.pc \in {"processing", "final", "catch"} /\ session[w] /\ InMessage(w)
      /\ position[w] \in 1 .. Len(log) /\ log[position[w]] = id
      /\ old.ch \in 1 .. Len(chs) /\ Len(chs) \in Nat /\ c = chs[old.ch]
      /\ \A i \in 1 .. Len(chs) : chs[i] \in Channels
      /\ WorkerChannels(w) = chs
  <2>1. old.pc \in {"processing", "final", "catch"} /\ WorkerChannels(w) = chs
        BY <1>1, <1>2 DEF WorkerUpdated, AtUpdate, WorkerChannels
  <2>2. InMessage(w) /\ position[w] \in 1 .. Len(log) /\ log[position[w]] = id
        BY <1>1, <1>2, <2>1, InMessageFacts
  <2>3. old.ch \in 1 .. Len(chs) /\ c = chs[old.ch]
        BY <1>1, <1>2, <2>1, InMessageFacts DEF WorkerChannel
  <2> QED BY <2>1, <2>2, <2>3, RequestFacts DEF InMessage
<1>4. /\ UNCHANGED <<topicVars, log, session, position, api, outbox, sends, receipts>> /\ Grows
      /\ Current(w)' = id /\ WorkerChannels(w)' = chs
      BY <1>1, GrowsInPlace
         DEF WorkerUpdated, topicVars, processVars, Core, TypeOK, Current, WorkerChannels
<1>5. PICK new : /\ worker' = [worker EXCEPT ![w] = new]
                 /\ new = IF old.pc = "processing" THEN Dispatch(w)
                          ELSE AtChannel(old.ch + 1, Len(chs))
      BY <1>2, <1>3 DEF WorkerUpdated, AfterUpdate
<1>6. worker'[w] = new /\ \A v \in Workers \ {w} : worker'[v] = worker[v]
      BY <1>5 DEF Core, TypeOK
<1>7. /\ old.pc = "final" => Sendable(id, c)
      /\ old.pc = "catch" => ~Sendable(id, c)
      /\ \A i \in 1 .. Len(chs) : row.channels[chs[i]] \in StatusMidway(w, chs[i])
  <2>1. Midway(w) /\ table[id] # None
        BY <1>1, NoneAssumption DEF FirstRun
  <2>2. worker[w].pc \in {"processing", "send", "final", "catch"}
        BY <1>2, <1>3
  <2>3. \A i \in 1 .. Len(WorkerChannels(w)) :
            table[id].channels[WorkerChannels(w)[i]] \in StatusMidway(w, WorkerChannels(w)[i])
        BY <1>1, <2>1, <2>2 DEF Midway
  <2>4. /\ old.pc = "final" => Sendable(id, c)
        /\ old.pc = "catch" => ~Sendable(id, c)
        BY <1>1, <1>2, <1>3, <2>1, <2>2 DEF Midway
  <2> QED BY <1>1, <1>3, <2>3, <2>4
<1>8. \A i \in 1 .. Len(chs) :
          table'[id].channels[chs[i]] = IF chs[i] = c THEN s ELSE row.channels[chs[i]]
      BY <1>1, <1>3 DEF Row, ChannelMaps
<1>9. Midway(w)'
  <2>1. CASE old.pc = "processing"
    <3>1. /\ new.pc \in {"send", "final", "catch"} /\ new.ch = old.ch
          /\ IF Sendable(id, c) THEN new.pc \in {"send", "final"} ELSE new.pc = "catch"
          BY <1>1, <1>2, <1>5, <2>1 DEF Dispatch, Sendable
    <3>2. s = "PROCESSING"
          BY <1>1, <1>2, <2>1 DEF StatusToReport
    <3>3. ASSUME NEW i \in 1 .. Len(chs)
          PROVE  table'[id].channels[chs[i]] \in StatusMidway(w, chs[i])'
      <4>1. CASE chs[i] = c
            BY <1>3, <1>4, <1>6, <1>8, <3>1, <3>2, <4>1 DEF StatusMidway
      <4>2. CASE chs[i] # c
        <5>1. StatusMidway(w, chs[i])' = StatusMidway(w, chs[i])
              BY <1>1, <1>2, <1>3, <1>4, <1>6, <2>1, <3>1, <4>2
                 DEF StatusMidway, Outcomes, Sendable
        <5> QED BY <1>7, <1>8, <4>2, <5>1
      <4> QED BY <4>1, <4>2
    <3> QED BY <1>3, <1>4, <1>6, <3>1, <3>3 DEF Midway, Sendable
  <2>2. CASE old.pc \in {"final", "catch"}
    <3>1. new.pc = "mark" \/ (new.pc = "processing" /\ new.ch = old.ch + 1)
          BY <1>5, <2>2 DEF AtChannel
    <3>2. s \in Outcomes(id, c)
      <4>1. CASE old.pc = "final"
        <5>1. IF old.ok THEN TRUE ELSE c \notin Supported \ Flaky
              BY <1>1, <1>2, <1>3, <4>1 DEF InMessage
        <5>2. s = IF old.ok THEN "COMPLETED" ELSE "FAILED"
              BY <1>1, <1>2, <4>1 DEF StatusToReport
        <5> QED BY <1>7, <4>1, <5>1, <5>2 DEF Outcomes, Sendable, Completed, Failed
      <4>2. CASE old.pc = "catch"
            BY <1>1, <1>2, <1>7, <4>2 DEF StatusToReport, Outcomes, Failed
      <4> QED BY <2>2, <4>1, <4>2
    <3>3. ASSUME NEW i \in 1 .. Len(chs), new.pc = "processing"
          PROVE  table'[id].channels[chs[i]] \in StatusMidway(w, chs[i])'
      <4>1. new.ch = old.ch + 1
            BY <3>1, <3>3
      <4>2. CASE chs[i] = c
        <5>1. StatusMidway(w, c)' = Outcomes(id, c)
              BY <1>3, <1>4, <1>6, <3>3, <4>1 DEF StatusMidway, Outcomes, Sendable
        <5> QED BY <1>8, <3>2, <4>2, <5>1
      <4>3. CASE chs[i] # c
        <5>1. \A j \in 1 .. Len(chs) : chs[j] = chs[i] => (j < old.ch <=> j < new.ch)
              BY <1>3, <4>1, <4>3
        <5>2. StatusMidway(w, chs[i])' = StatusMidway(w, chs[i])
              BY <1>1, <1>2, <1>3, <1>4, <1>6, <2>2, <3>3, <4>3, <5>1
                 DEF StatusMidway, Outcomes, Sendable
        <5> QED BY <1>7, <1>8, <4>3, <5>2
      <4> QED BY <4>2, <4>3
    <3> QED BY <1>4, <1>6, <3>1, <3>3 DEF Midway
  <2> QED BY <1>3, <2>1, <2>2
<1>10. position[w] \in Nat /\ Begun(id)'
       BY <1>3, <1>4 DEF Begun
<1> QED BY <1>1, <1>3, <1>4, <1>6, <1>9, <1>10, FirstRunOfLoop

\* A send takes the loop to the next recipient; the message is returned at "mark".
LEMMA LoopKeepsFirstRun ==
    ASSUME Core, Orderly, FirstRun, NEW w \in Workers, Send(w) \/ Return(w)
    PROVE  FirstRun'
<1>1. /\ worker \in [Workers -> WorkerState] /\ position[w] \in Nat /\ session[w]
      /\ UNCHANGED <<log, session, position, receipts, api, outbox, table>>
      /\ \A v \in Workers \ {w} : worker'[v] = worker[v]
  <2>1. worker \in [Workers -> WorkerState] /\ position[w] \in Nat
        BY DEF Core, TypeOK, TopicTypeOK
  <2>2. session[w]
        BY IdleHasNoUpdate DEF Send, Return
  <2> QED BY <2>1, <2>2
          DEF Send, AfterSend, Return, Store, topicVars, statusVars, processVars
<1>2. Grows
      BY <1>1, SendKeepsCore, GrowsInPlace DEF Return, Core, TypeOK
<1>3. Midway(w)'
  <2>1. CASE Return(w)
        BY <1>1, <2>1 DEF Return, Idle, Midway
  <2>2. CASE Send(w)
    <3>1. PICK old \in WorkerState : old = worker[w]
          BY <1>1
    <3>2. worker'[w].ch = old.ch /\ worker'[w].pc \in {"send", "final"}
          BY <1>1, <2>2, <3>1 DEF Send, AfterSend
    <3>3. /\ Current(w)' = Current(w) /\ WorkerChannels(w)' = WorkerChannels(w)
          /\ old.pc = "send" /\ Midway(w)
          BY <1>1, <2>2, <3>1 DEF Current, WorkerChannels, Send, FirstRun
    <3>4. \A c : StatusMidway(w, c)' = StatusMidway(w, c)
          BY <3>1, <3>2, <3>3 DEF StatusMidway, Outcomes, Sendable
    <3> QED BY <1>1, <3>1, <3>2, <3>3, <3>4 DEF Midway, Sendable
  <2> QED BY <2>1, <2>2
<1> QED BY <1>1, <1>2, <1>3, FirstRunOfLoop

\* The other steps leave rows and loops alone.
LEMMA AsideKeepsFirstRun ==
    ASSUME Core, Orderly, FirstRun, Calm, Calm', NEW w \in Workers,
           WorkerFind(w) \/ WorkerLoad(w) \/ GroupStep(w) \/ UNCHANGED vars
    PROVE  FirstRun'
<1>1. ~SessionEnds(w)
      BY DEF SessionEnds, EndSession, Orderly
<1>2. UNCHANGED <<log, table, worker, sends, receipts, api, outbox>>
      BY <1>1, NoFaultInCalm
         DEF WorkerFind, UpdateFind, WorkerLoad, SaveLoad, GroupStep, Start, Listen, JoinGroup,
             Grant, FirstFetch, Begin, AutoCommit, Commit, vars, statusVars, topicVars,
             serviceVars, processVars
<1>3. \A v \in Workers : session[v] => session'[v] /\ position'[v] = position[v]
  <2>1. CASE FirstFetch(w, "latest")
        BY <2>1 DEF FirstFetch, Begin, Core, TypeOK, TopicTypeOK
  <2>2. CASE ~FirstFetch(w, "latest")
        BY <1>1, <2>2, NoFaultInCalm
           DEF WorkerFind, WorkerLoad, GroupStep, Start, Listen, JoinGroup, Grant, AutoCommit,
               Commit, vars, topicVars
  <2> QED BY <2>1, <2>2
<1>4. Grows /\ LoggedOnce'
      BY <1>2, GrowsInPlace
         DEF Core, TypeOK, FirstRun, LoggedOnce, MessagesAreUnique, Logged
<1> QED BY <1>2, <1>3, <1>4, FirstRunAside

\* Every step keeps FirstRun, as long as the calm lasts.
LEMMA NextKeepsFirstRun ==
    ASSUME Core, Orderly, FirstRun, [Next]_vars, Calm, Calm'
    PROVE  FirstRun'
<1>1. ASSUME NEW id \in Ids, (\E w \in Workers : Post(id, w)) \/ ApiStep(id) \/ Flush(id)
      PROVE  FirstRun'
      BY <1>1, CreateKeepsFirstRun, RequestKeepsFirstRun DEF ApiStep
<1>2. ASSUME NEW w \in Workers, WorkerStep(w) \/ GroupStep(w)
      PROVE  FirstRun'
  <2>1. ~UpdateThrows(w)
        BY NoFaultInCalm DEF UpdateThrows
  <2> QED BY <1>2, <2>1, ReceiveKeepsFirstRun, UpdateKeepsFirstRun, LoopKeepsFirstRun,
             AsideKeepsFirstRun DEF WorkerStep
<1>3. CASE UNCHANGED vars
  <2>1. /\ UNCHANGED <<log, table, worker, sends, receipts, api, outbox, session, position>>
        BY <1>3 DEF vars, statusVars, topicVars, serviceVars, processVars
  <2>2. Grows /\ LoggedOnce'
        BY <2>1, GrowsInPlace
           DEF Core, TypeOK, FirstRun, LoggedOnce, MessagesAreUnique, Logged
  <2> QED BY <2>1, <2>2, FirstRunAside
<1>4. ~Rebalance /\ ~ForeignMessage /\ \A w \in Workers : ~Crash(w)
      BY NoFaultInCalm DEF Rebalance, ForeignMessage, Crash
<1>5. \A h \in Hooks : ~HookStep(h)
      BY HooksAtRest DEF Calm
<1> QED BY <1>1, <1>2, <1>3, <1>4, <1>5 DEF Next

\* In the calm the rows say how far each message has come (CalmInv).
LEMMA CalmHolds == Spec => []CalmInv
<1>1. Init => CalmInv
  <2> SUFFICES ASSUME Init
               PROVE  FirstRun
      BY DEF CalmInv
  <2>1. Len(log) = 0
        BY EmptySeq DEF Init, TopicInit
  <2>2. LoggedOnce
        BY <2>1 DEF LoggedOnce, MessagesAreUnique, Logged, Init
  <2> QED BY <2>2 DEF Init, StatusInit, Idle, FirstRun, Midway
<1>2. Core /\ OrderlyInv /\ CalmInv /\ [Next]_vars => CalmInv'
      BY CalmBefore, CalmIsUndisturbed, NextKeepsFirstRun DEF OrderlyInv, CalmInv
<1> QED BY <1>1, <1>2, CoreHolds, OrderlyHolds, PTL DEF Spec

-----------------------------------------------------------------------------
(***************************************************************************)
(* A row that the loop is about to change has an unfinished channel, and   *)
(* the channel it changes has not failed.                                  *)
(***************************************************************************)
LEMMA UnfinishedAtUpdate ==
    ASSUME Core, FirstRun, NEW w \in Workers, AtUpdate(w),
           NEW id \in Ids, id = Current(w), table[id] # None, RepeatsHarmlessly(id)
    PROVE  /\ \E d \in Channels : table[id].channels[d] \in {"PENDING", "PROCESSING", "FAILED"}
           /\ table[id].channels[WorkerChannel(w)] \notin Failed
<1> DEFINE chs == Request[id].channels
           ch == worker[w].ch
<1>1. /\ ch \in 1 .. Len(chs) /\ WorkerChannels(w) = chs /\ WorkerChannel(w) = chs[ch]
      /\ Len(chs) \in Nat /\ \A i \in 1 .. Len(chs) : chs[i] \in Channels
      BY InMessageFacts, RequestFacts DEF WorkerChannels, WorkerChannel, AtUpdate
<1>2. \A i \in 1 .. Len(chs) : table[id].channels[chs[i]] \in StatusMidway(w, chs[i])
      BY <1>1 DEF FirstRun, Midway, AtUpdate
<1>3. CASE worker[w].pc # "processing"
  <2>1. table[id].channels[chs[ch]] = "PROCESSING"
        BY <1>1, <1>2, <1>3 DEF StatusMidway
  <2> QED BY <1>1, <2>1 DEF Failed
<1>4. CASE worker[w].pc = "processing"
  <2>1. \A i \in 1 .. Len(chs) :
            table[id].channels[chs[i]] \in IF \E j \in 1 .. Len(chs) : j < ch /\ chs[j] = chs[i]
                                           THEN Outcomes(id, chs[i]) ELSE {"PENDING"}
        BY <1>1, <1>2, <1>4 DEF StatusMidway
  <2>2. CASE ~NamedBefore(id, ch)
    <3>1. table[id].channels[chs[ch]] = "PENDING"
          BY <1>1, <2>1, <2>2 DEF NamedBefore
    <3> QED BY <1>1, <3>1 DEF Failed
  <2>3. CASE NamedBefore(id, ch)
    <3>1. PICK k \in 1 .. Len(chs) :
              Outcomes(id, chs[k]) = Failed \/ \A i \in 1 .. Len(chs) : i < ch => chs[i] # chs[k]
          BY <1>1, <2>3 DEF RepeatsHarmlessly
    <3>2. table[id].channels[chs[k]] \in {"PENDING", "FAILED"}
      <4>1. CASE Outcomes(id, chs[k]) = Failed
            BY <2>1, <4>1 DEF Failed
      <4>2. CASE \A i \in 1 .. Len(chs) : i < ch => chs[i] # chs[k]
        <5>1. ~\E j \in 1 .. Len(chs) : j < ch /\ chs[j] = chs[k]
              BY <4>2
        <5> QED BY <2>1, <5>1
      <4> QED BY <3>1, <4>1, <4>2
    <3>3. Outcomes(id, chs[ch]) = Completed
          BY <1>1, <2>3 DEF RepeatsHarmlessly
    <3>4. table[id].channels[chs[ch]] = "COMPLETED"
      <4>1. \E j \in 1 .. Len(chs) : j < ch /\ chs[j] = chs[ch]
            BY <2>3 DEF NamedBefore
      <4> QED BY <1>1, <2>1, <3>3, <4>1 DEF Completed
    <3> QED BY <1>1, <3>2, <3>4 DEF Failed
  <2> QED BY <2>2, <2>3
<1> QED BY <1>3, <1>4

\* An update takes the row forward, or leaves its status.
LEMMA UpdateTakesForward ==
    ASSUME Core, Orderly, FirstRun, NEW w \in Workers, WorkerUpdated(w),
           \A id \in Ids : RepeatsHarmlessly(id),
           NEW id \in Ids, table[id] # None
    PROVE  Advances(table[id], table'[id])
<1>1. PICK i \in Ids, row \in Row, c \in Channels, s \in WorkerStatuses :
          /\ i = Current(w) /\ c = WorkerChannel(w) /\ s = StatusToReport(w)
          /\ table[i] = row
          /\ table'[i].channels = [row.channels EXCEPT ![c] = s]
          /\ \A j \in Ids \ {i} : table'[j] = table[j]
          /\ table' = table \/ table' = [table EXCEPT ![i] = WithChannel(row, c, s)]
      BY UpdatedRow
<1>2. CASE table'[id] = table[id]
      BY <1>2 DEF Advances
<1>3. CASE i = id /\ table' = [table EXCEPT ![i] = WithChannel(row, c, s)]
  <2>1. /\ \E d \in Channels : row.channels[d] \in {"PENDING", "PROCESSING", "FAILED"}
        /\ row.channels[c] \notin Failed
        BY <1>1, <1>3, UnfinishedAtUpdate DEF WorkerUpdated
  <2>2. \E d \in Channels : row.channels[d] \notin Completed \cup {"ABSENT"}
        BY <2>1 DEF Completed
  <2>3. RowConsistent(row, Completed, Failed)
        BY <1>1, <1>3 DEF Orderly, RowsConsistent, Consistent
  <2>4. s \in ChannelStatuses \ {"ABSENT"} /\ Completed \cap Failed = {} /\ "ABSENT" \notin Failed
        BY DEF ChannelStatuses, WorkerStatuses, Completed, Failed
  <2>5. PICK m : m = [row.channels EXCEPT ![c] = s]
        OBVIOUS
  <2>6. WithChannel(row, c, s) = [status |-> Aggregate(m, Completed, Failed), channels |-> m]
        BY <2>5 DEF WithChannel, Overall
  <2>7. Advances(row, WithChannel(row, c, s))
        BY <2>1, <2>2, <2>3, <2>4, <2>5, <2>6, UpdateAdvances
  <2> QED BY <1>1, <1>3, <2>7 DEF Core, RowsInv, StatusTypeOK
<1> QED BY <1>1, <1>2, <1>3

\* Who writes rows without a callback.
LEMMA WhoWrites ==
    ASSUME Core, receipts = {}, receipts' = {}, [Next]_vars
    PROVE  \/ table' = table
           \/ \E id \in Ids : CreateInitialStatus(id, ToSet(Request[id].channels))
           \/ \E w \in Workers : WorkerUpdated(w)
<1>1. ASSUME NEW id \in Ids, (\E w \in Workers : Post(id, w)) \/ ApiStep(id) \/ Flush(id)
      PROVE  table' = table \/ CreateInitialStatus(id, ToSet(Request[id].channels))
      BY <1>1 DEF Post, ApiStep, WriteInitialRow, Emit, Flush, statusVars
<1>2. ASSUME NEW w \in Workers, WorkerStep(w)
      PROVE  table' = table \/ WorkerUpdated(w)
      BY <1>2 DEF WorkerStep, Receive, WorkerFind, UpdateFind, WorkerLoad, SaveLoad,
                  UpdateThrows, UpdateAbandon, Send, Return, statusVars
<1>3. ASSUME NEW w \in Workers, GroupStep(w) \/ Crash(w)
      PROVE  table' = table
      BY <1>3 DEF GroupStep, Start, Listen, JoinGroup, AutoCommit, SessionEnds, Crash, statusVars
<1>4. \A h \in Hooks : ~HookStep(h)
      BY HooksAtRest
<1>5. CASE Rebalance \/ ForeignMessage \/ UNCHANGED vars
      BY <1>5 DEF Rebalance, ForeignMessage, vars, statusVars
<1> QED BY <1>1, <1>2, <1>3, <1>4, <1>5 DEF Next

(***************************************************************************)
(* A client that polls GET /status sees a notification advance             *)
(* (StatusAdvances), until the first fault and until a provider calls      *)
(* back, if requests name channels again only harmlessly.                  *)
(***************************************************************************)
THEOREM StatusesAdvance ==
    ASSUME \A id \in Ids : RepeatsHarmlessly(id)
    PROVE  Spec /\ [](receipts = {}) => StatusAdvances
<1>1. ASSUME Core, OrderlyInv, CalmInv, receipts = {}, receipts' = {}, [Next]_vars, faults' = 0,
             NEW id \in Ids, GetStatus(id) # None
      PROVE  Advances(GetStatus(id), GetStatus(id)')
  <2>1. Orderly /\ FirstRun
        BY <1>1, CalmBefore, CalmIsUndisturbed DEF Calm, OrderlyInv, CalmInv
  <2>2. CASE table' = table
        BY <1>1, <2>2 DEF GetStatus, Advances
  <2>3. ASSUME NEW i \in Ids, CreateInitialStatus(i, ToSet(Request[i].channels))
        PROVE  table'[id] = table[id]
        BY <1>1, <2>3 DEF CreateInitialStatus, GetStatus, Core, RowsInv, StatusTypeOK
  <2>4. ASSUME NEW w \in Workers, WorkerUpdated(w)
        PROVE  Advances(table[id], table'[id])
        BY <1>1, <2>1, <2>4, UpdateTakesForward DEF GetStatus
  <2> QED BY <1>1, <2>1, <2>2, <2>3, <2>4, WhoWrites DEF GetStatus, Advances
<1>2. Core /\ OrderlyInv /\ CalmInv /\ receipts = {} /\ (receipts = {})' /\ [Next]_vars
          => [faults' = 0 => \A id \in Ids :
                 GetStatus(id) # None => Advances(GetStatus(id), GetStatus(id)')]_vars
      BY <1>1
<1> QED BY <1>2, CoreHolds, OrderlyHolds, CalmHolds, PTL DEF Spec, StatusAdvances

================================================================================
