--------------------------- MODULE RustServiceProofs ---------------------------
(***************************************************************************)
(* Theorems about RustService and the RustStatusService in it, for every   *)
(* set of notifications, requests, workers, callbacks and flaky channels,  *)
(* and every bound on the faults.                                          *)
(*                                                                         *)
(* There are three invariants, each proved from the ones before it: Core   *)
(* (types, rows, and where each worker is in its message), Offsets (which  *)
(* messages have been handed out), and OneLossPerCrash itself.             *)
(***************************************************************************)
EXTENDS RustService, NotificationStatusProofs, NotificationFlowProofs

-----------------------------------------------------------------------------
(***************************************************************************)
(* The rows.  A row of id, stored or about to be, does not contradict      *)
(* itself, tells the truth about completed channels, and has an entry for  *)
(* each channel of the request.                                            *)
(***************************************************************************)
RowIsTrue(id, row) ==
    /\ \A t \in Requested[id] :
           row.channels[t[2]] \in Completed => t \in Sent \/ Reported(id, t[2])
    /\ \A c \in ToSet(Request[id].channels) : row.channels[c] # "ABSENT"

RowsInv ==
    /\ StatusTypeOK
    /\ \A id \in Ids : table[id] # None =>
           Consistent(table[id]) /\ RowIsTrue(id, table[id])
    /\ \A p \in Procs : call[p] # None =>
           Consistent(call[p].row) /\ RowIsTrue(call[p].id, call[p].row)

(***************************************************************************)
(* A row that was true stays true, as nothing is taken back of what was    *)
(* sent and of what providers have reported.                               *)
(***************************************************************************)
LEMMA TruthKept ==
    ASSUME Grows, NEW id, NEW row, RowIsTrue(id, row)
    PROVE  RowIsTrue(id, row)'
BY DEF Grows, RowIsTrue, Reported

(***************************************************************************)
(* What update_channel_status makes of a row in memory is well typed and   *)
(* consistent: the overall status is recomputed from the map stored with   *)
(* it.                                                                     *)
(***************************************************************************)
LEMMA WithChannelConsistent ==
    ASSUME NEW row \in Row, NEW c \in Channels, NEW s \in WorkerStatuses \cup Receipts
    PROVE  WithChannel(row, c, s) \in Row /\ Consistent(WithChannel(row, c, s))
<1> DEFINE m == [row.channels EXCEPT ![c] = s]
<1>1. m \in ChannelMaps /\ m[c] # "ABSENT"
      BY ReceiptsAssumption DEF Row, ChannelMaps, ChannelStatuses, WorkerStatuses
<1>2. WithChannel(row, c, s) = [status |-> Aggregate(m, Completed, Failed), channels |-> m]
      BY DEF WithChannel, Overall
<1> HIDE DEF m
<1> QED BY <1>1, <1>2, AggregatedRowIsConsistent DEF Consistent

(***************************************************************************)
(* A step that writes no row but may drop updates in progress.             *)
(***************************************************************************)
LEMMA RowsAfterDrop ==
    ASSUME RowsInv, Grows, table' = table, StatusTypeOK',
           \A p \in Procs : call'[p] = call[p] \/ call'[p] = None
    PROVE  RowsInv'
<1>1. \A id \in Ids : table'[id] # None => Consistent(table[id])' /\ RowIsTrue(id, table[id])'
      BY TruthKept DEF RowsInv, Consistent
<1>2. \A p \in Procs : call'[p] # None =>
          Consistent(call[p].row)' /\ RowIsTrue(call[p].id, call[p].row)'
      BY TruthKept DEF RowsInv, Consistent
<1> QED BY <1>1, <1>2 DEF RowsInv

\* Rows stay true in a step that touches no row and no update.
LEMMA RowsKept ==
    ASSUME RowsInv, Grows, UNCHANGED statusVars
    PROVE  RowsInv'
BY RowsAfterDrop DEF RowsInv, StatusTypeOK, statusVars

LEMMA RowsAfterAbandon ==
    ASSUME RowsInv, Grows, NEW p \in Procs, UpdateAbandon(p)
    PROVE  RowsInv'
BY RowsAfterDrop DEF RowsInv, StatusTypeOK, UpdateAbandon

(***************************************************************************)
(* create_initial_status, the two halves of update_channel_status.         *)
(***************************************************************************)
LEMMA RowsAfterCreate ==
    ASSUME RowsInv, Grows, NEW id \in Ids,
           CreateInitialStatus(id, ToSet(Request[id].channels))
    PROVE  RowsInv'
<1> DEFINE row == InitialRow(ToSet(Request[id].channels))
<1>1. row \in Row /\ Consistent(row)
      BY RequestFacts, InitialRowIsConsistent DEF Consistent
<1>2. RowIsTrue(id, row)'
  <2>1. \A c \in Channels : row.channels[c] \notin Completed
        BY DEF InitialRow, Completed
  <2>2. \A c \in ToSet(Request[id].channels) : row.channels[c] # "ABSENT"
        BY RequestFacts DEF InitialRow
  <2>3. \A t \in Requested[id] : t[2] \in Channels
        BY RequestFacts DEF Requested
  <2> QED BY <2>1, <2>2, <2>3 DEF RowIsTrue
<1> HIDE DEF row
<1>3. table' = [table EXCEPT ![id] = row] /\ call' = call
      BY DEF CreateInitialStatus, row
<1>4. StatusTypeOK'
      BY <1>1, <1>3 DEF RowsInv, StatusTypeOK
<1>5. ASSUME NEW i \in Ids, table'[i] # None
      PROVE  Consistent(table[i])' /\ RowIsTrue(i, table[i])'
  <2>1. CASE i = id
        BY <1>1, <1>2, <1>3, <2>1 DEF RowsInv, StatusTypeOK, Consistent
  <2>2. CASE i # id
        BY <1>3, <1>5, <2>2, TruthKept DEF RowsInv, StatusTypeOK, Consistent
  <2> QED BY <2>1, <2>2
<1>6. \A p \in Procs : call'[p] # None =>
          Consistent(call[p].row)' /\ RowIsTrue(call[p].id, call[p].row)'
      BY <1>3, TruthKept DEF RowsInv, Consistent
<1> QED BY <1>4, <1>5, <1>6 DEF RowsInv

LEMMA RowsAfterRead ==
    ASSUME RowsInv, Grows, NEW p \in Procs, NEW id \in Ids, NEW c \in Channels,
           NEW s \in WorkerStatuses \cup Receipts, UpdateRead(p, id, c, s),
           s \in Completed => \/ \A t \in Requested[id] : t[2] = c => t \in Sent
                              \/ Reported(id, c)'
    PROVE  RowsInv'
<1>1. table[id] \in Row /\ RowIsTrue(id, table[id])
      BY DEF UpdateRead, GetStatus, RowsInv, StatusTypeOK
<1>2. PICK row \in Row : row = WithChannel(table[id], c, s) /\ Consistent(row)
      BY <1>1, WithChannelConsistent
<1>3. row.channels = [table[id].channels EXCEPT ![c] = s]
      BY <1>2 DEF WithChannel
<1>4. table' = table /\ call' = [call EXCEPT ![p] = [id |-> id, row |-> row]]
      BY <1>2 DEF UpdateRead, GetStatus
<1>5. table[id].channels \in [Channels -> ChannelStatuses] /\ s # "ABSENT"
      BY <1>1, ReceiptsAssumption DEF Row, ChannelMaps, WorkerStatuses
<1>6. /\ \A t \in Requested[id] : t[2] \in Channels
      /\ ToSet(Request[id].channels) \subseteq Channels
      BY RequestFacts DEF Requested
<1>7. RowIsTrue(id, row)'
  <2>1. ASSUME NEW t \in Requested[id], row.channels[t[2]] \in Completed
        PROVE  t \in Sent' \/ Reported(id, t[2])'
    <3>1. CASE t[2] = c
          BY <1>3, <1>5, <2>1, <3>1 DEF Grows
    <3>2. CASE t[2] # c
      <4>1. table[id].channels[t[2]] \in Completed
            BY <1>3, <1>5, <1>6, <2>1, <3>2
      <4>2. t \in Sent \/ Reported(id, t[2])
            BY <1>1, <4>1 DEF RowIsTrue
      <4> QED BY <4>2 DEF Grows, Reported
    <3> QED BY <3>1, <3>2
  <2>2. \A d \in ToSet(Request[id].channels) : row.channels[d] # "ABSENT"
        BY <1>1, <1>3, <1>5, <1>6 DEF RowIsTrue
  <2> QED BY <2>1, <2>2 DEF RowIsTrue
<1>8. [id |-> id, row |-> row] \in Call
      BY <1>2 DEF Call
<1>9. StatusTypeOK'
      BY <1>4, <1>8 DEF RowsInv, StatusTypeOK
<1>10. \A i \in Ids : table'[i] # None => Consistent(table[i])' /\ RowIsTrue(i, table[i])'
       BY <1>4, TruthKept DEF RowsInv, Consistent
<1>11. ASSUME NEW q \in Procs, call'[q] # None
       PROVE  Consistent(call[q].row)' /\ RowIsTrue(call[q].id, call[q].row)'
  <2>1. CASE q = p
        BY <1>2, <1>4, <1>7, <2>1 DEF RowsInv, StatusTypeOK, Consistent
  <2>2. CASE q # p
        BY <1>4, <1>11, <2>2, TruthKept DEF RowsInv, StatusTypeOK, Consistent
  <2> QED BY <2>1, <2>2
<1> QED BY <1>9, <1>10, <1>11 DEF RowsInv

LEMMA RowsAfterSave ==
    ASSUME RowsInv, Grows, NEW p \in Procs, UpdateSave(p)
    PROVE  RowsInv'
<1>1. PICK id \in Ids, row \in Row : id = call[p].id /\ row = call[p].row
      BY DEF UpdateSave, RowsInv, StatusTypeOK, Call
<1>2. Consistent(row) /\ RowIsTrue(id, row)
      BY <1>1 DEF UpdateSave, RowsInv
<1>3. /\ table' = [table EXCEPT ![id] = row]
      /\ call' = [call EXCEPT ![p] = None]
      BY <1>1 DEF UpdateSave
<1>4. StatusTypeOK'
      BY <1>3 DEF RowsInv, StatusTypeOK
<1>5. ASSUME NEW i \in Ids, table'[i] # None
      PROVE  Consistent(table[i])' /\ RowIsTrue(i, table[i])'
  <2>1. CASE i = id
        BY <1>2, <1>3, <2>1, TruthKept DEF RowsInv, StatusTypeOK, Consistent
  <2>2. CASE i # id
        BY <1>3, <1>5, <2>2, TruthKept DEF RowsInv, StatusTypeOK, Consistent
  <2> QED BY <2>1, <2>2
<1>6. \A q \in Procs : call'[q] # None =>
          Consistent(call[q].row)' /\ RowIsTrue(call[q].id, call[q].row)'
      BY <1>3, TruthKept DEF RowsInv, StatusTypeOK, Consistent
<1> QED BY <1>4, <1>5, <1>6 DEF RowsInv

-----------------------------------------------------------------------------
(***************************************************************************)
(* Where a worker is in its message says which channels and recipients it  *)
(* has dealt with.                                                         *)
(***************************************************************************)
InMessage(w) ==
    LET id  == Current(w)
        chs == Request[id].channels
        v   == worker[w]
        c   == chs[v.ch]
    IN  /\ session[w] /\ position[w] > 0 /\ id \in Ids
        /\ v.pc \in {"processing", "send", "final"} /\ v.ch <= Len(chs)
        /\ \A i \in 1 .. Len(chs) : i < v.ch => ChannelDone(id, chs[i])
        /\ v.pc = "send" =>
               /\ c \in Supported /\ v.rcp <= Len(Request[id].recipients)
               /\ IF v.ok THEN SentTo(id, c, v.rcp - 1) ELSE c \in Flaky
        /\ v.pc = "final" =>
               IF v.ok THEN SentTo(id, c, Len(Request[id].recipients))
               ELSE c \notin Supported \ Flaky

WorkInv(w) == worker[w].pc # "wait" => InMessage(w)

Core ==
    /\ TypeOK
    /\ RowsInv
    /\ \A w \in Workers : WorkInv(w)

\* A worker that is not waiting has a message of the log in hand.
LEMMA InMessageFacts ==
    ASSUME Core, NEW w \in Workers, worker[w].pc # "wait"
    PROVE  /\ InMessage(w)
           /\ Current(w) \in Ids
           /\ worker[w] \in WorkerState
           /\ worker[w].ch \in 1 .. Len(WorkerChannels(w))
           /\ WorkerChannel(w) \in Channels
           /\ position[w] \in 1 .. Len(log) /\ log[position[w]] = Current(w)
<1>1. InMessage(w) /\ worker[w] \in WorkerState
      BY DEF Core, WorkInv, TypeOK
<1>2. Current(w) \in Ids
      BY <1>1 DEF InMessage
<1>3. worker[w].ch \in 1 .. Len(WorkerChannels(w))
      BY <1>1, <1>2, RequestFacts DEF InMessage, WorkerState, WorkerChannels
<1>4. WorkerChannel(w) \in Channels
      BY <1>2, <1>3, RequestFacts DEF WorkerChannel, WorkerChannels
<1>5. position[w] \in 1 .. Len(log)
      BY <1>1 DEF InMessage, Core, TypeOK, TopicTypeOK
<1> QED BY <1>1, <1>2, <1>3, <1>4, <1>5 DEF Current

(***************************************************************************)
(* A worker that does not move is where it was, whatever others do.        *)
(***************************************************************************)
StillWorker(w) == SameSession(w) /\ worker'[w] = worker[w]

\* A worker that the step leaves alone stays where it is in its message.
LEMMA StillKeeps ==
    ASSUME Core, Grows, NEW w \in Workers, StillWorker(w)
    PROVE  WorkInv(w)'
<1>1. CASE worker[w].pc = "wait"
      BY <1>1 DEF WorkInv, StillWorker
<1>2. CASE worker[w].pc # "wait"
  <2>1. InMessage(w) /\ position[w] \in 1 .. Len(log)
        BY <1>2, InMessageFacts
  <2>2. Current(w)' = Current(w)
        BY <2>1 DEF Current, Grows, StillWorker, SameSession
  <2>3. /\ \A id, c, n : SentTo(id, c, n) => SentTo(id, c, n)'
        /\ \A id, c : ChannelDone(id, c) => ChannelDone(id, c)'
        BY FlowGrowthKeeps DEF Core, TypeOK
  <2>4. InMessage(w)'
        BY <2>1, <2>2, <2>3 DEF InMessage, StillWorker, SameSession
  <2> QED BY <2>4 DEF WorkInv
<1> QED BY <1>1, <1>2

(***************************************************************************)
(* A step of one worker; a step of none.                                   *)
(***************************************************************************)
LEMMA OnOneWorker ==
    ASSUME Core, Grows, NEW w \in Workers, \A v \in Workers \ {w} : StillWorker(v),
           TypeOK', RowsInv', WorkInv(w)'
    PROVE  Core'
BY StillKeeps DEF Core

\* A step of no worker.
LEMMA OffTheWorkers ==
    ASSUME Core, Grows, UNCHANGED <<session, position, stored, worker>>, TypeOK', RowsInv'
    PROVE  Core'
<1>1. \A w \in Workers : StillWorker(w)
      BY DEF StillWorker, SameSession
<1> QED BY <1>1, StillKeeps DEF Core

-----------------------------------------------------------------------------
(***************************************************************************)
(* The steps of POST /notify, and a message of somebody else.              *)
(***************************************************************************)
LEMMA PostKeepsCore ==
    ASSUME Core, NEW id \in Ids, Post(id)
    PROVE  Core'
<1>1. Grows
      BY GrowsInPlace DEF Post, Core, TypeOK, topicVars
<1>2. RowsInv'
      BY <1>1, RowsKept DEF Post, Core
<1>3. TypeOK'
      BY <1>2, TopicTypeKept
         DEF Post, Core, RowsInv, TypeOK, SetApi, ApiStates, NoFault, history, topicVars
<1> QED BY <1>1, <1>2, <1>3, OffTheWorkers DEF Post, topicVars

LEMMA ProducerKeepsCore ==
    ASSUME Core, NEW m \in Ids \cup {Junk}, Append1(m) \/ Append2(m) \/ UNCHANGED topicVars,
           api' \in [Ids -> ApiStates], faults' \in 0 .. MaxFaults,
           UNCHANGED <<statusVars, worker, sends, receipts, history>>
    PROVE  Core'
<1>1. Grows /\ TopicTypeOK'
      BY GrowsByAppend, GrowsInPlace, TopicTypeKept DEF Core, TypeOK, topicVars
<1>2. UNCHANGED <<committed, session, position, stored>>
      BY DEF Append1, Append2, groupVars, topicVars
<1>3. RowsInv'
      BY <1>1, RowsKept DEF Core
<1>4. taken' \subseteq 1 .. Len(log') /\ base' \in -1 .. committed'
      BY <1>1, <1>2 DEF history, Core, TypeOK, TopicTypeOK, Grows
<1>5. TypeOK'
      BY <1>1, <1>3, <1>4 DEF Core, RowsInv, TypeOK
<1> QED BY <1>1, <1>2, <1>3, <1>5, OffTheWorkers

LEMMA SendMessageKeepsCore ==
    ASSUME Core, NEW id \in Ids, SendMessage(id) \/ SendMessageFails(id)
    PROVE  Core'
<1>1. api' \in [Ids -> ApiStates] /\ faults' \in 0 .. MaxFaults
      BY SMTT(30), FaultsAssumption
         DEF SendMessage, SendMessageFails, SetApi, ApiStates, NoFault, Fault, Core, TypeOK
<1> QED BY <1>1, ProducerKeepsCore DEF SendMessage, SendMessageFails

LEMMA DisconnectKeepsCore ==
    ASSUME Core, NEW id \in Ids, Disconnect(id)
    PROVE  Core'
<1>1. api' \in [Ids -> ApiStates] /\ faults' \in 0 .. MaxFaults
      BY FaultsAssumption DEF Disconnect, SetApi, ApiStates, Fault, Core, TypeOK
<1> QED BY <1>1, ProducerKeepsCore DEF Disconnect

LEMMA ForeignMessageKeepsCore ==
    ASSUME Core, ForeignMessage
    PROVE  Core'
<1>1. api' \in [Ids -> ApiStates] /\ faults' \in 0 .. MaxFaults
      BY FaultsAssumption DEF ForeignMessage, Fault, Core, TypeOK
<1> QED BY <1>1, ProducerKeepsCore DEF ForeignMessage

LEMMA WriteInitialRowKeepsCore ==
    ASSUME Core, NEW id \in Ids, WriteInitialRow(id)
    PROVE  Core'
<1>1. Grows
      BY GrowsInPlace DEF WriteInitialRow, Core, TypeOK, topicVars
<1>2. RowsInv'
      BY <1>1, RowsKept, RowsAfterCreate DEF WriteInitialRow, Core
<1>3. TypeOK'
      BY <1>2, TopicTypeKept, FaultsAssumption
         DEF WriteInitialRow, Core, RowsInv, TypeOK, SetApi, ApiStates, NoFault, Fault, history,
             topicVars
<1> QED BY <1>1, <1>2, <1>3, OffTheWorkers DEF WriteInitialRow, topicVars

-----------------------------------------------------------------------------
(***************************************************************************)
(* The steps of a webhook callback.                                        *)
(***************************************************************************)
LEMMA HandleWebhookKeepsCore ==
    ASSUME Core, NEW h \in Hooks, NEW id \in Ids, NEW c \in Channels, NEW s \in Receipts,
           HandleWebhook(h, id, c, s)
    PROVE  Core'
<1>1. Grows
      BY GrowsInPlace DEF HandleWebhook, Core, TypeOK, topicVars
<1>2. h \in Procs
      BY ProcsAssumption
<1>3. s \in Completed => Reported(id, c)'
      BY DEF HandleWebhook, Reported
<1>4. RowsInv'
      BY <1>1, <1>2, <1>3, RowsAfterRead DEF HandleWebhook, Core
<1>5. TypeOK'
      BY <1>2, <1>4, TopicTypeKept
         DEF HandleWebhook, Core, RowsInv, TypeOK, NoFault, history, topicVars
<1> QED BY <1>1, <1>4, <1>5, OffTheWorkers DEF HandleWebhook, topicVars

LEMMA HookSaveKeepsCore ==
    ASSUME Core, NEW h \in Hooks, HookSave(h) \/ HookSaveFails(h)
    PROVE  Core'
<1>1. Grows
      BY GrowsInPlace DEF HookSave, HookSaveFails, Core, TypeOK, topicVars, serviceVars
<1>2. h \in Procs
      BY ProcsAssumption
<1>3. RowsInv'
      BY <1>1, <1>2, RowsAfterSave, RowsAfterAbandon DEF HookSave, HookSaveFails, Core
<1>4. faults' \in 0 .. MaxFaults
      BY FaultsAssumption DEF HookSave, HookSaveFails, Core, TypeOK, serviceVars, Fault
<1>5. StatusTypeOK' /\ TopicTypeOK'
      BY <1>3, TopicTypeKept DEF HookSave, HookSaveFails, Core, RowsInv, TypeOK
<1>6. TypeOK'
      BY <1>4, <1>5 DEF HookSave, HookSaveFails, Core, TypeOK, serviceVars, history, topicVars
<1> QED BY <1>1, <1>3, <1>6, OffTheWorkers
        DEF HookSave, HookSaveFails, topicVars, serviceVars

-----------------------------------------------------------------------------
(***************************************************************************)
(* The steps of the loop of run_worker.  When the loop is done with its    *)
(* message, all that is owed for it has been sent (Finished).              *)
(***************************************************************************)
Finished(w) == worker'[w].pc = "wait" => Handled(position[w])'

\* What follows an update is the next turn of the loops, or the next message.
LEMMA AfterUpdateMoves ==
    ASSUME Core, Grows, NEW w \in Workers, worker[w].pc \in {"processing", "final"},
           UNCHANGED topicVars, AfterUpdate(w)
    PROVE  /\ worker' \in [Workers -> WorkerState]
           /\ \A v \in Workers \ {w} : StillWorker(v)
           /\ WorkInv(w)'
           /\ Finished(w)
<1>1. PICK id \in Ids : id = Current(w)
      BY InMessageFacts
<1>2. PICK old \in WorkerState : old = worker[w]
      BY InMessageFacts
<1> DEFINE chs == Request[id].channels
           rcps == Request[id].recipients
           c == chs[old.ch]
           next == IF old.pc = "processing" THEN Dispatch(w)
                   ELSE AtChannel(old.ch + 1, Len(chs))
<1>3. /\ InMessage(w) /\ old.ch \in 1 .. Len(chs) /\ c \in Channels
      /\ Len(chs) \in Nat /\ Len(rcps) \in Nat /\ rcps \in Seq(Recipients)
      BY <1>1, <1>2, InMessageFacts, RequestFacts, RequestAssumption
         DEF WorkerChannels, WorkerChannel, Requests
<1>4. worker' = [worker EXCEPT ![w] = next]
      BY <1>1, <1>2 DEF AfterUpdate, WorkerChannels
<1>5. next \in WorkerState
  <2>1. CASE old.pc = "processing"
        BY <1>2, <2>1 DEF Dispatch, WorkerState, WorkerPcs
  <2>2. CASE old.pc # "processing"
        BY <1>3, <2>2 DEF AtChannel, Idle, WorkerState, WorkerPcs
  <2> QED BY <2>1, <2>2
<1>6. PICK new \in WorkerState : new = next
      BY <1>5
<1>7. worker'[w] = new
      BY <1>4, <1>6 DEF Core, TypeOK
<1>8. /\ Current(w)' = id /\ session'[w] /\ position'[w] > 0
      /\ position' = position /\ log'[position[w]] = id
      BY <1>1, <1>3 DEF Current, InMessage, topicVars
<1>9. \A i \in 1 .. Len(chs) : i < old.ch => ChannelDone(id, chs[i])'
      BY <1>1, <1>2, <1>3, FlowGrowthKeeps DEF InMessage, Core, TypeOK
<1>10. WorkInv(w)' /\ Finished(w)
  <2>1. CASE old.pc = "processing" /\ c \notin Supported
    <3>1. new.pc = "final" /\ new.ch = old.ch /\ new.ok = FALSE
          BY <1>1, <1>2, <1>6, <2>1 DEF Dispatch, WorkerChannel, WorkerChannels, WorkerState
    <3> QED BY <1>3, <1>7, <1>8, <1>9, <2>1, <3>1 DEF InMessage, WorkInv, Finished
  <2>2. CASE old.pc = "processing" /\ c \in Supported
    <3>1. /\ new.pc = IF rcps = <<>> THEN "final" ELSE "send"
          /\ new.ch = old.ch /\ new.rcp = 1 /\ new.ok = TRUE
          BY <1>1, <1>2, <1>6, <2>2
             DEF Dispatch, WorkerChannel, WorkerChannels, WorkerRecipients, WorkerState
    <3>2. SentTo(id, c, 0)'
          BY DEF SentTo
    <3>3. IF rcps = <<>> THEN Len(rcps) = 0 ELSE Len(rcps) >= 1
          BY <1>3, EmptySeq
    <3> QED BY <1>3, <1>7, <1>8, <1>9, <2>2, <3>1, <3>2, <3>3
            DEF InMessage, WorkInv, Finished
  <2>3. CASE old.pc = "final"
    <3>1. ChannelDone(id, c)'
          BY <1>1, <1>2, <1>3, <2>3, FlowGrowthKeeps DEF InMessage, ChannelDone, Core, TypeOK
    <3>2. \A i \in 1 .. Len(chs) : i <= old.ch => ChannelDone(id, chs[i])'
          BY <1>3, <1>9, <3>1
    <3>3. CASE old.ch + 1 <= Len(chs)
      <4>1. new.pc = "processing" /\ new.ch = old.ch + 1
            BY <1>6, <2>3, <3>3 DEF AtChannel
      <4> QED BY <1>3, <1>7, <1>8, <3>2, <3>3, <4>1 DEF InMessage, WorkInv, Finished
    <3>4. CASE ~(old.ch + 1 <= Len(chs))
      <4>1. new.pc = "wait"
            BY <1>6, <2>3, <3>4 DEF AtChannel, Idle
      <4>2. \A i \in 1 .. Len(chs) : i <= old.ch
            BY <1>3, <3>4
      <4>3. \A i \in 1 .. Len(chs) : ChannelDone(id, chs[i])
            BY <1>1, <1>2, <1>3, <2>3, <4>2 DEF InMessage, ChannelDone
      <4>4. Owed[id] \subseteq Sent'
            BY <4>3, AllDoneIsHandled DEF Grows
      <4> QED BY <1>7, <1>8, <4>1, <4>4 DEF WorkInv, Finished, Handled
    <3> QED BY <3>3, <3>4
  <2> QED BY <1>2, <2>1, <2>2, <2>3
<1>11. \A v \in Workers \ {w} : StillWorker(v)
       BY <1>4 DEF StillWorker, SameSession, topicVars
<1> QED BY <1>4, <1>5, <1>10, <1>11 DEF Core, TypeOK

(***************************************************************************)
(* A status update of the worker begins, ends, or fails.                   *)
(***************************************************************************)
LEMMA WorkerReadKeepsCore ==
    ASSUME Core, NEW w \in Workers, WorkerRead(w)
    PROVE  Core'
<1>1. Grows
      BY GrowsInPlace DEF WorkerRead, Core, TypeOK, topicVars
<1>2. PICK id \in Ids : id = Current(w)
      BY InMessageFacts DEF WorkerRead
<1>3. PICK c \in Channels : c = WorkerChannel(w)
      BY InMessageFacts DEF WorkerRead
<1>4. PICK s \in WorkerStatuses : s = StatusToReport(w)
      BY DEF StatusToReport, WorkerStatuses
<1>5. w \in Procs /\ UpdateRead(w, id, c, s)
      BY <1>2, <1>3, <1>4, ProcsAssumption DEF WorkerRead
<1>6. ASSUME s \in Completed, NEW t \in Requested[id], t[2] = c
      PROVE  t \in Sent
  <2>1. worker[w].pc = "final" /\ worker[w].ok
        BY <1>4, <1>6 DEF StatusToReport, Completed, WorkerRead
  <2>2. SentTo(id, c, Len(Request[id].recipients))
        BY <1>2, <1>3, <2>1, InMessageFacts DEF InMessage, WorkerChannel, WorkerChannels
  <2> QED BY <1>6, <2>2, SentToAll
<1>7. RowsInv'
      BY <1>1, <1>5, <1>6, RowsAfterRead DEF Core
<1>8. TypeOK'
      BY <1>7, TopicTypeKept DEF WorkerRead, Core, RowsInv, TypeOK, NoFault, history, topicVars
<1> QED BY <1>1, <1>7, <1>8, OffTheWorkers DEF WorkerRead, topicVars

LEMMA UpdateEndsKeepsCore ==
    ASSUME Core, NEW w \in Workers, worker[w].pc \in {"processing", "final"},
           AfterUpdate(w), RowsInv', faults' \in 0 .. MaxFaults,
           UNCHANGED <<topicVars, api, sends, receipts, history>>
    PROVE  Core' /\ Finished(w)
<1>1. Grows
      BY GrowsInPlace DEF Core, TypeOK, topicVars
<1>2. /\ worker' \in [Workers -> WorkerState]
      /\ \A v \in Workers \ {w} : StillWorker(v)
      /\ WorkInv(w)' /\ Finished(w)
      BY <1>1, AfterUpdateMoves
<1>3. TypeOK'
      BY <1>2, TopicTypeKept DEF Core, RowsInv, TypeOK, history, topicVars
<1> QED BY <1>1, <1>2, <1>3, OnOneWorker

LEMMA WorkerSaveKeepsCore ==
    ASSUME Core, NEW w \in Workers, WorkerSave(w)
    PROVE  Core' /\ Finished(w)
<1>1. Grows
      BY GrowsInPlace DEF WorkerSave, Core, TypeOK, topicVars
<1>2. w \in Procs
      BY ProcsAssumption
<1>3. RowsInv'
      BY <1>1, <1>2, RowsAfterSave DEF WorkerSave, Core
<1> QED BY <1>3, UpdateEndsKeepsCore DEF WorkerSave, Core, TypeOK, NoFault

LEMMA WorkerUpdateFailsKeepsCore ==
    ASSUME Core, NEW w \in Workers, WorkerUpdateFails(w)
    PROVE  Core' /\ Finished(w)
<1>1. Grows
      BY GrowsInPlace DEF WorkerUpdateFails, Core, TypeOK, topicVars
<1>2. w \in Procs
      BY ProcsAssumption
<1>3. RowsInv'
      BY <1>1, <1>2, RowsKept, RowsAfterAbandon DEF WorkerUpdateFails, UpdateMissing, Core
<1>4. faults' \in 0 .. MaxFaults
      BY FaultsAssumption DEF WorkerUpdateFails, Core, TypeOK, NoFault, Fault
<1> QED BY <1>3, <1>4, UpdateEndsKeepsCore DEF WorkerUpdateFails

(***************************************************************************)
(* A turn of the recipient loop.                                           *)
(***************************************************************************)
LEMMA SendKeepsCore ==
    ASSUME Core, NEW w \in Workers, Send(w)
    PROVE  Core' /\ worker'[w].pc # "wait" /\ Grows
<1>1. PICK id \in Ids : id = Current(w)
      BY InMessageFacts DEF Send
<1>2. PICK old \in WorkerState : old = worker[w]
      BY InMessageFacts DEF Send
<1> DEFINE chs == Request[id].channels
           rcps == Request[id].recipients
           c == chs[old.ch]
           t == <<id, c, rcps[old.rcp]>>
<1>3. /\ InMessage(w) /\ old.pc = "send" /\ old.ch \in 1 .. Len(chs) /\ c \in Channels
      /\ Len(rcps) \in Nat /\ old.rcp \in 1 .. Len(rcps) /\ c \in Supported
      /\ IF old.ok THEN SentTo(id, c, old.rcp - 1) ELSE c \in Flaky
  <2>1. InMessage(w) /\ old.pc = "send" /\ old.ch \in 1 .. Len(chs) /\ c \in Channels
        BY <1>1, <1>2, InMessageFacts DEF Send, WorkerChannels, WorkerChannel
  <2>2. /\ c \in Supported /\ old.rcp <= Len(rcps)
        /\ IF old.ok THEN SentTo(id, c, old.rcp - 1) ELSE c \in Flaky
        BY <1>1, <1>2, <2>1 DEF InMessage
  <2>3. Len(rcps) \in Nat /\ old.rcp \in Nat \ {0}
        BY RequestFacts DEF WorkerState
  <2> QED BY <2>1, <2>2, <2>3
<1>4. WorkerChannel(w) = c /\ WorkerRecipients(w) = rcps /\ t \in Deliveries
      BY <1>1, <1>2, <1>3, RequestFacts
         DEF WorkerChannel, WorkerChannels, WorkerRecipients, Deliveries
<1>5. PICK delivered \in BOOLEAN :
          /\ AfterSend(w, delivered)
          /\ IF delivered THEN sends' = [sends EXCEPT ![t] = @ + 1]
             ELSE c \in Flaky /\ sends' = sends
      BY <1>1, <1>2, <1>4 DEF Send
<1>6. sends' \in [Deliveries -> Nat] /\ Sent \subseteq Sent' /\ (delivered => t \in Sent')
  <2>1. PICK d \in Deliveries : d = t
        BY <1>4
  <2>2. sends \in [Deliveries -> Nat]
        BY DEF Core, TypeOK
  <2>3. CASE delivered
    <3>1. sends' = [sends EXCEPT ![d] = @ + 1]
          BY <1>5, <2>1, <2>3
    <3> QED BY <2>1, <2>2, <3>1, SentGrows
  <2>4. CASE ~delivered
    <3>1. sends' = sends
          BY <1>5, <2>4
    <3> QED BY <2>2, <2>4, <3>1 DEF Sent
  <2> QED BY <2>3, <2>4
<1>7. Grows
      BY <1>6 DEF Grows, Send, topicVars, Core, TypeOK, TopicTypeOK
<1>8. PICK new \in WorkerState :
          /\ worker' = [worker EXCEPT ![w] = new]
          /\ new.pc = IF old.rcp = Len(rcps) THEN "final" ELSE "send"
          /\ new.ch = old.ch /\ new.rcp = old.rcp + 1 /\ new.ok = (old.ok /\ delivered)
  <2> DEFINE next == [pc |-> IF old.rcp = Len(rcps) THEN "final" ELSE "send",
                      ch |-> old.ch, rcp |-> old.rcp + 1, ok |-> old.ok /\ delivered]
  <2>1. worker' = [worker EXCEPT ![w] = next]
        BY <1>2, <1>4, <1>5 DEF AfterSend
  <2>2. next \in WorkerState
        BY <1>3 DEF WorkerState, WorkerPcs
  <2>3. /\ next.pc = IF old.rcp = Len(rcps) THEN "final" ELSE "send"
        /\ next.ch = old.ch /\ next.rcp = old.rcp + 1 /\ next.ok = (old.ok /\ delivered)
        OBVIOUS
  <2> QED BY <2>1, <2>2, <2>3
<1>9. worker' \in [Workers -> WorkerState] /\ worker'[w] = new /\ new.pc # "wait"
      BY <1>8 DEF Core, TypeOK
<1>10. WorkInv(w)'
  <2>1. Current(w)' = id /\ session'[w] /\ position'[w] > 0
        BY <1>1, <1>3 DEF Current, InMessage, Send, topicVars
  <2>2. \A i \in 1 .. Len(chs) : i < old.ch => ChannelDone(id, chs[i])'
        BY <1>1, <1>2, <1>3, <1>7, FlowGrowthKeeps DEF InMessage, Core, TypeOK
  <2>3. IF new.ok THEN SentTo(id, c, old.rcp)' ELSE c \in Flaky
    <3>1. CASE new.ok
      <4>1. SentTo(id, c, old.rcp - 1)' /\ t \in Sent'
            BY <1>3, <1>6, <1>7, <1>8, <3>1, FlowGrowthKeeps DEF Core, TypeOK
      <4>2. \A j \in 1 .. old.rcp : j = old.rcp \/ j \in 1 .. old.rcp - 1
            BY <1>3
      <4>3. \A j \in 1 .. old.rcp : <<id, c, rcps[j]>> \in Sent'
            BY <4>1, <4>2 DEF SentTo
      <4> QED BY <3>1, <4>3 DEF SentTo
    <3>2. CASE ~new.ok
          BY <1>3, <1>5, <1>8, <3>2
    <3> QED BY <3>1, <3>2
  <2>4. CASE old.rcp = Len(rcps)
        BY <1>3, <1>8, <1>9, <2>1, <2>2, <2>3, <2>4 DEF InMessage, WorkInv
  <2>5. CASE old.rcp # Len(rcps)
    <3>1. /\ new.pc = "send" /\ new.ch = old.ch /\ new.rcp = old.rcp + 1
          /\ new.rcp <= Len(rcps) /\ new.rcp - 1 = old.rcp
          BY <1>3, <1>8, <2>5
    <3>2. IF new.ok THEN SentTo(id, c, new.rcp - 1)' ELSE c \in Flaky
          BY <2>3, <3>1
    <3> QED BY <1>3, <1>9, <2>1, <2>2, <3>1, <3>2 DEF InMessage, WorkInv
  <2> QED BY <2>4, <2>5
<1>11. RowsInv'
       BY <1>7, RowsKept DEF Send, Core
<1>12. TypeOK'
       BY <1>6, <1>9, <1>11, TopicTypeKept
          DEF Send, Core, RowsInv, TypeOK, NoFault, history, topicVars
<1>13. \A v \in Workers \ {w} : StillWorker(v)
       BY <1>8 DEF StillWorker, SameSession, Send, topicVars
<1> QED BY <1>7, <1>9, <1>10, <1>11, <1>12, <1>13, OnOneWorker

-----------------------------------------------------------------------------
(***************************************************************************)
(* The steps that move offsets or sessions.                                *)
(***************************************************************************)
LEMMA ReceiveKeepsCore ==
    ASSUME Core, NEW w \in Workers, Receive(w)
    PROVE  Core' /\ Finished(w)
<1>1. Grows
      BY GrowsInPlace DEF Receive, Deliver, Core, TypeOK
<1>2. PICK n : n = position[w] + 1
      OBVIOUS
<1>3. /\ TopicTypeOK'
      /\ n \in 1 .. Len(log) /\ log[n] \in Ids \cup {Junk}
      /\ session[w] /\ session' = session
      /\ position'[w] = n /\ Current(w)' = log[n]
      /\ \A v \in Workers \ {w} : SameSession(v)
      BY <1>2, DeliverFacts DEF Receive, Core, TypeOK
<1>4. log' = log /\ committed' = committed /\ taken' = taken \cup {n} /\ base' = base
      BY <1>2 DEF Receive, Deliver
<1>5. PICK new \in WorkerState :
          /\ worker' = [worker EXCEPT ![w] = new]
          /\ log[n] = Junk => new.pc = "wait"
          /\ log[n] # Junk => IF 1 <= Len(Request[log[n]].channels)
                              THEN new.pc = "processing" /\ new.ch = 1
                              ELSE new.pc = "wait"
  <2>1. CASE log[n] = Junk
    <3>1. worker' = [worker EXCEPT ![w] = Idle] /\ Idle \in WorkerState /\ Idle.pc = "wait"
          BY <1>2, <2>1 DEF Receive, Idle, WorkerState, WorkerPcs
    <3> QED BY <2>1, <3>1
  <2>2. CASE log[n] # Junk
    <3> DEFINE next == AtChannel(1, Len(Request[log[n]].channels))
    <3>1. worker' = [worker EXCEPT ![w] = next]
          BY <1>2, <2>2 DEF Receive
    <3>2. next \in WorkerState /\ IF 1 <= Len(Request[log[n]].channels)
                                  THEN next.pc = "processing" /\ next.ch = 1
                                  ELSE next.pc = "wait"
          BY DEF AtChannel, Idle, WorkerState, WorkerPcs
    <3> QED BY <2>2, <3>1, <3>2
  <2> QED BY <2>1, <2>2
<1>6. worker' \in [Workers -> WorkerState] /\ worker'[w] = new
      BY <1>5 DEF Core, TypeOK
<1>7. WorkInv(w)'
  <2>1. CASE new.pc = "wait"
        BY <1>6, <2>1 DEF WorkInv
  <2>2. CASE new.pc # "wait"
        BY <1>3, <1>5, <1>6, <2>2 DEF WorkInv, InMessage
  <2> QED BY <2>1, <2>2
<1>8. Finished(w)
  <2> SUFFICES ASSUME new.pc = "wait", log[n] # Junk
               PROVE  Owed[log[n]] \subseteq Sent
      BY <1>1, <1>3, <1>4, <1>6 DEF Finished, Handled, Grows
  <2>1. PICK id \in Ids : id = log[n]
        BY <1>3
  <2>2. Len(Request[id].channels) = 0
        BY <1>5, <2>1, RequestFacts
  <2> QED BY <2>1, <2>2, AllDoneIsHandled
<1>9. RowsInv'
      BY <1>1, RowsKept DEF Receive, Core
<1>10. taken' \subseteq 1 .. Len(log') /\ base' \in -1 .. committed'
       BY <1>3, <1>4 DEF Core, TypeOK
<1>11. TypeOK'
       BY <1>3, <1>6, <1>9, <1>10 DEF Receive, NoFault, Core, RowsInv, TypeOK
<1>12. \A v \in Workers \ {w} : StillWorker(v)
       BY <1>3, <1>5 DEF StillWorker
<1> QED BY <1>1, <1>7, <1>8, <1>9, <1>11, <1>12, OnOneWorker

LEMMA JoinGroupKeepsCore ==
    ASSUME Core, NEW w \in Workers, JoinGroup(w)
    PROVE  Core' /\ worker[w].pc = "wait"
<1>1. Begin(w, "latest") /\ ~session[w] /\ owner' = w
      BY DEF JoinGroup, Assign
<1>2. /\ TopicTypeOK' /\ \A v \in Workers \ {w} : SameSession(v)
      /\ log' = log /\ committed' = committed
      BY <1>1, BeginFacts DEF Core, TypeOK, Begin
<1>3. Grows
      BY <1>2, GrowsInPlace DEF JoinGroup, serviceVars, Core, TypeOK
<1>4. worker[w].pc = "wait"
      BY <1>1 DEF Core, WorkInv, InMessage
<1>5. RowsInv'
      BY <1>3, RowsKept DEF JoinGroup, Core
<1>6. TypeOK'
      BY <1>2, <1>5 DEF JoinGroup, serviceVars, history, Core, RowsInv, TypeOK
<1>7. WorkInv(w)'
      BY <1>4 DEF WorkInv, JoinGroup, serviceVars
<1>8. \A v \in Workers \ {w} : StillWorker(v)
      BY <1>2 DEF StillWorker, JoinGroup, serviceVars
<1> QED BY <1>3, <1>4, <1>5, <1>6, <1>7, <1>8, OnOneWorker

LEMMA AutoCommitKeepsCore ==
    ASSUME Core, NEW w \in Workers, AutoCommit(w)
    PROVE  Core'
<1>1. /\ TopicTypeOK' /\ committed' \in 0 .. Len(log) /\ committed' > committed
      /\ \A v \in Workers : SameSession(v)
      BY CommitFacts DEF AutoCommit, Core, TypeOK
<1>2. log' = log
      BY DEF AutoCommit, Commit
<1>3. Grows
      BY <1>2, GrowsInPlace DEF AutoCommit, serviceVars, Core, TypeOK
<1>4. RowsInv'
      BY <1>3, RowsKept DEF AutoCommit, Core
<1>5. base' \in -1 .. committed'
      BY <1>1 DEF AutoCommit, Core, TypeOK, TopicTypeOK
<1>6. TypeOK'
      BY <1>1, <1>2, <1>4, <1>5 DEF AutoCommit, serviceVars, Core, RowsInv, TypeOK
<1>7. \A v \in Workers : StillWorker(v)
      BY <1>1 DEF StillWorker, AutoCommit, serviceVars
<1> QED BY <1>3, <1>4, <1>6, <1>7, StillKeeps DEF Core

LEMMA SessionEndsKeepsCore ==
    ASSUME Core, NEW w \in Workers, SessionEnds(w)
    PROVE  Core'
<1>1. Close(w) /\ owner' = owner /\ owner \in Workers \cup {Nobody}
      BY DEF SessionEnds, EndSession, Core, TypeOK, TopicTypeOK
<1>2. /\ TopicTypeOK' /\ \A v \in Workers \ {w} : SameSession(v)
      /\ log' = log /\ committed' = committed
      BY <1>1, CloseFacts DEF Core, TypeOK, Close
<1>3. Grows
      BY <1>2, GrowsInPlace DEF SessionEnds, serviceVars, Core, TypeOK
<1>4. RowsInv'
      BY <1>3, RowsKept DEF SessionEnds, Core
<1>5. TypeOK'
      BY <1>2, <1>4 DEF SessionEnds, serviceVars, history, Core, RowsInv, TypeOK
<1>6. WorkInv(w)'
      BY DEF SessionEnds, WorkInv, serviceVars
<1>7. \A v \in Workers \ {w} : StillWorker(v)
      BY <1>2 DEF StillWorker, SessionEnds, serviceVars
<1> QED BY <1>3, <1>4, <1>5, <1>6, <1>7, OnOneWorker

LEMMA RebalanceKeepsCore ==
    ASSUME Core, Rebalance
    PROVE  Core'
<1>1. Grows
      BY GrowsInPlace DEF Rebalance, Revoke, Core, TypeOK
<1>2. RowsInv'
      BY <1>1, RowsKept DEF Rebalance, Core
<1>3. TypeOK'
      BY <1>2, FaultsAssumption
         DEF Rebalance, Revoke, Fault, history, Core, RowsInv, TypeOK, TopicTypeOK
<1> QED BY <1>1, <1>2, <1>3, OffTheWorkers DEF Rebalance, Revoke

(***************************************************************************)
(* A crash: the worker forgets its message, the requests in progress their *)
(* place, and some callers of the status service what they have read.      *)
(***************************************************************************)
LEMMA CrashKeepsCore ==
    ASSUME Core, NEW w \in Workers, Crash(w)
    PROVE  /\ Core' /\ Grows
           /\ \A v \in Workers \ {w} : StillWorker(v)
<1>1. PICK lost \in SUBSET InProgress, hung \in SUBSET {h \in Hooks : call[h] # None} :
          /\ api' = [id \in Ids |-> IF id \in lost THEN "aborted" ELSE api[id]]
          /\ call' = [p \in Procs |-> IF p \in hung \cup {w} THEN None ELSE call[p]]
      BY DEF Crash
<1>2. Close(w) /\ owner' \in Workers \cup {Nobody}
      BY DEF Crash, Leave, Core, TypeOK, TopicTypeOK
<1>3. /\ TopicTypeOK' /\ \A v \in Workers \ {w} : SameSession(v)
      /\ log' = log /\ committed' = committed
      BY <1>2, CloseFacts DEF Core, TypeOK, Close
<1>4. Grows
      BY <1>3, GrowsInPlace DEF Crash, Core, TypeOK
<1>5. StatusTypeOK'
      BY <1>1 DEF Crash, Core, TypeOK, StatusTypeOK
<1>6. RowsInv'
      BY <1>1, <1>4, <1>5, RowsAfterDrop DEF Crash, Core
<1>7. worker' = [worker EXCEPT ![w] = Idle] /\ Idle \in WorkerState /\ Idle.pc = "wait"
      BY DEF Crash, Idle, WorkerState, WorkerPcs
<1>8. api' \in [Ids -> ApiStates] /\ faults' \in 0 .. MaxFaults
      BY <1>1, FaultsAssumption DEF Crash, Fault, Core, TypeOK, ApiStates
<1>9. TypeOK'
      BY <1>3, <1>5, <1>7, <1>8 DEF Crash, history, Core, TypeOK
<1>10. WorkInv(w)'
       BY <1>7 DEF WorkInv, Core, TypeOK
<1>11. \A v \in Workers \ {w} : StillWorker(v)
       BY <1>3, <1>7 DEF StillWorker
<1> QED BY <1>4, <1>6, <1>9, <1>10, <1>11, OnOneWorker

-----------------------------------------------------------------------------
\* Core holds at the start, and every step keeps it.
LEMMA InitCore == Init => Core
<1> SUFFICES ASSUME Init
             PROVE  Core
    OBVIOUS
<1>1. table = [id \in Ids |-> None] /\ call = [p \in Procs |-> None]
      BY DEF Init, StatusInit
<1>2. RowsInv
      BY <1>1 DEF RowsInv, StatusTypeOK
<1>3. TypeOK
      BY <1>2, FaultsAssumption
         DEF Init, TopicInit, TypeOK, RowsInv, TopicTypeOK, ApiStates, Idle, WorkerState, WorkerPcs
<1>4. \A w \in Workers : WorkInv(w)
      BY DEF Init, WorkInv, Idle
<1> QED BY <1>2, <1>3, <1>4 DEF Core

LEMMA NextKeepsCore == Core /\ [Next]_vars => Core'
<1> SUFFICES ASSUME Core, [Next]_vars
             PROVE  Core'
    OBVIOUS
<1>1. ASSUME NEW id \in Ids, Post(id) \/ ApiStep(id) \/ Disconnect(id)
      PROVE  Core'
      BY <1>1, PostKeepsCore, SendMessageKeepsCore, WriteInitialRowKeepsCore,
         DisconnectKeepsCore DEF ApiStep
<1>2. ASSUME NEW w \in Workers, WorkerStep(w)
      PROVE  Core'
      BY <1>2, ReceiveKeepsCore, WorkerReadKeepsCore, WorkerSaveKeepsCore,
         WorkerUpdateFailsKeepsCore, SendKeepsCore DEF WorkerStep
<1>3. ASSUME NEW w \in Workers, GroupStep(w) \/ Crash(w)
      PROVE  Core'
      BY <1>3, JoinGroupKeepsCore, AutoCommitKeepsCore, SessionEndsKeepsCore, CrashKeepsCore
         DEF GroupStep
<1>4. ASSUME NEW h \in Hooks, HookStep(h)
      PROVE  Core'
  <2>1. ASSUME NEW r \in Reporting, NEW s \in Receipts, HandleWebhook(h, r[1], r[2], s)
        PROVE  Core'
    <3>1. r[1] \in Ids /\ r[2] \in Channels
          BY ReportingAssumption
    <3> QED BY <2>1, <3>1, HandleWebhookKeepsCore
  <2> QED BY <1>4, <2>1, HookSaveKeepsCore DEF HookStep
<1>5. CASE Rebalance \/ ForeignMessage
      BY <1>5, RebalanceKeepsCore, ForeignMessageKeepsCore
<1>6. CASE UNCHANGED vars
  <2>1. UNCHANGED <<statusVars, topicVars, serviceVars, history>>
        BY <1>6 DEF vars
  <2>2. Grows
        BY <2>1, GrowsInPlace DEF topicVars, serviceVars, Core, TypeOK
  <2>3. RowsInv'
        BY <2>1, <2>2, RowsKept DEF Core
  <2>4. TypeOK'
        BY <2>1, <2>3, TopicTypeKept
           DEF serviceVars, history, topicVars, Core, RowsInv, TypeOK
  <2> QED BY <2>1, <2>2, <2>3, <2>4, OffTheWorkers DEF topicVars, serviceVars
<1> QED BY <1>1, <1>2, <1>3, <1>4, <1>5, <1>6 DEF Next

\* The inductive invariant of the Rust service (Core), behind all that follows.
THEOREM CoreHolds == Spec => []Core
BY InitCore, NextKeepsCore, PTL DEF Spec

(***************************************************************************)
(* Every variable keeps its type: no offset passes the end of the log, no  *)
(* update is in progress for a channel or a status that does not exist.    *)
(***************************************************************************)
THEOREM TypesHold == Spec => []TypeOK
<1>1. Core => TypeOK
      BY DEF Core
<1> QED BY <1>1, CoreHolds, PTL

(***************************************************************************)
(* No row contradicts itself, though the row of a notification may be      *)
(* written after the worker has begun with it, and two statements of       *)
(* different callers may interleave.                                       *)
(***************************************************************************)
THEOREM ServiceRowsStayConsistent == Spec => []RowsConsistent
<1>1. Core => RowsConsistent
      BY DEF Core, RowsInv, RowsConsistent
<1> QED BY <1>1, CoreHolds, PTL

(***************************************************************************)
(* What /metrics shows is exact in every state.                            *)
(***************************************************************************)
THEOREM ServiceMetricsStayExact == Spec => []MetricsExact
<1>1. Core => MetricsExact
  <2> SUFFICES ASSUME Core
               PROVE  MetricsExact
      OBVIOUS
  <2>1. Completed \cap OverallStatuses = {"COMPLETED"} /\ "PENDING" \notin Completed
        BY DEF Completed, OverallStatuses
  <2> QED BY <2>1, ConsistentRowsCount
          DEF Core, RowsInv, StatusTypeOK, Consistent, MetricsExact, GetMetrics
<1> QED BY <1>1, CoreHolds, PTL

(***************************************************************************)
(* A channel that /status shows as COMPLETED has reached every recipient,  *)
(* unless a provider's callback said so; a COMPLETED notification is       *)
(* completed in every channel of its request (CompletedIsTrue).            *)
(***************************************************************************)
THEOREM CompletedRowsAreTrue == Spec => []CompletedIsTrue
<1>1. Core => CompletedIsTrue
  <2> SUFFICES ASSUME Core, NEW id \in Ids, table[id] # None
               PROVE  LET done == {c \in Channels : table[id].channels[c] \in Completed}
                      IN  /\ \A t \in Requested[id] :
                                 t[2] \in done => t \in Sent \/ Reported(id, t[2])
                          /\ table[id].status = "COMPLETED" =>
                                 ToSet(Request[id].channels) \subseteq done
      BY DEF CompletedIsTrue
  <2>1. RowIsTrue(id, table[id]) /\ Consistent(table[id])
        BY DEF Core, RowsInv
  <2>2. ASSUME table[id].status = "COMPLETED", NEW c \in ToSet(Request[id].channels)
        PROVE  table[id].channels[c] \in Completed
    <3>1. c \in Channels /\ table[id].channels[c] # "ABSENT"
          BY <2>1, RequestFacts DEF RowIsTrue
    <3> QED BY <2>1, <2>2, <3>1 DEF Consistent, RowConsistent, Present
  <2> QED BY <2>1, <2>2, RequestFacts DEF RowIsTrue
<1> QED BY <1>1, CoreHolds, PTL

-----------------------------------------------------------------------------
(***************************************************************************)
(* Which offsets have been handed out.  From the first commit on, all from *)
(* there up to the group's offset and to every running loop's.  And even   *)
(* before it, all from the owner's position up to that of a loop that has  *)
(* lost the partition and is ahead of the owner: whichever of them commits *)
(* first, nothing is passed over from then on.                             *)
(***************************************************************************)
LoopOffsets(w) ==
    session[w] =>
        /\ stored[w] \in {-1, position[w]}
        /\ base >= 0 => base + 1 .. position[w] \subseteq taken
        /\ \A v \in Workers :
               owner = v /\ session[v] => position[v] + 1 .. position[w] \subseteq taken

Offsets ==
    /\ committed >= 0 => base >= 0 /\ base + 1 .. committed \subseteq taken
    /\ \A w \in Workers : LoopOffsets(w)

\* The offsets, as integers.
LEMMA OffsetTypes ==
    ASSUME Core
    PROVE  /\ Len(log) \in Nat /\ committed \in -1 .. Len(log) /\ base \in -1 .. committed
           /\ position \in [Workers -> 0 .. Len(log)]
           /\ stored \in [Workers -> -1 .. Len(log)]
           /\ session \in [Workers -> BOOLEAN]
           /\ taken \subseteq 1 .. Len(log)
BY DEF Core, TypeOK, TopicTypeOK

\* A step that moves no offset and gives nobody the partition.
LEMMA OffsetsKept ==
    ASSUME Offsets, UNCHANGED <<committed, session, position, stored, history>>,
           owner' = owner \/ owner' = Nobody
    PROVE  Offsets'
BY NobodyAssumption DEF Offsets, LoopOffsets, history

\* A loop that ends.
LEMMA OffsetsAfterClose ==
    ASSUME Core, Offsets, NEW w \in Workers, Close(w), UNCHANGED history,
           owner' = owner \/ owner' = Nobody
    PROVE  Offsets'
<1>1. /\ ~session'[w] /\ committed' = committed
      /\ \A v \in Workers \ {w} : session'[v] = session[v] /\ position'[v] = position[v]
                                                           /\ stored'[v] = stored[v]
      BY OffsetTypes DEF Close
<1>2. ASSUME NEW v \in Workers PROVE LoopOffsets(v)'
      BY <1>1, NobodyAssumption DEF Offsets, LoopOffsets, history
<1> QED BY <1>1, <1>2 DEF Offsets, history

LEMMA ReceiveKeepsOffsets ==
    ASSUME Core, Offsets, NEW w \in Workers, Receive(w)
    PROVE  Offsets'
<1>1. PICK n \in 1 .. Len(log) : n = position[w] + 1
      BY OffsetTypes DEF Receive, Deliver
<1>2. /\ position' = [position EXCEPT ![w] = n] /\ stored' = [stored EXCEPT ![w] = n]
      /\ taken' = taken \cup {n} /\ session[w]
      /\ UNCHANGED <<committed, owner, session, base>>
      BY <1>1 DEF Receive, Deliver
<1>3. ASSUME NEW u \in Workers, session[u]
      PROVE  LoopOffsets(u)'
  <2>1. stored'[u] \in {-1, position'[u]}
        BY <1>2, <1>3, OffsetTypes DEF Offsets, LoopOffsets
  <2>2. base >= 0 => base + 1 .. position'[u] \subseteq taken'
    <3>1. CASE u = w
          BY <1>1, <1>2, <1>3, <3>1, OffsetTypes DEF Offsets, LoopOffsets
    <3>2. CASE u # w
          BY <1>2, <1>3, <3>2, OffsetTypes DEF Offsets, LoopOffsets
    <3> QED BY <3>1, <3>2
  <2>3. ASSUME NEW v \in Workers, owner = v, session[v]
        PROVE  position'[v] + 1 .. position'[u] \subseteq taken'
    <3>1. position[v] + 1 .. position[u] \subseteq taken
          BY <1>3, <2>3 DEF Offsets, LoopOffsets
    <3>2. /\ position[v] \in 0 .. Len(log) /\ position[u] \in 0 .. Len(log)
          /\ position'[v] >= position[v]
          /\ position'[u] = IF u = w THEN position[u] + 1 ELSE position[u]
          /\ u = w => position'[u] = n
          BY <1>1, <1>2, OffsetTypes
    <3> QED BY <1>2, <3>1, <3>2, OffsetTypes
  <2> QED BY <1>2, <2>1, <2>2, <2>3 DEF LoopOffsets
<1>4. \A u \in Workers : LoopOffsets(u)'
      BY <1>2, <1>3 DEF LoopOffsets
<1> QED BY <1>2, <1>4 DEF Offsets

LEMMA JoinGroupKeepsOffsets ==
    ASSUME Core, Offsets, NEW w \in Workers, JoinGroup(w)
    PROVE  Offsets'
<1>1. PICK start \in 0 .. Len(log) : start = IF committed >= 0 THEN committed ELSE Len(log)
      BY OffsetTypes
<1>2. /\ ~session[w] /\ owner' = w
      /\ session' = [session EXCEPT ![w] = TRUE]
      /\ position' = [position EXCEPT ![w] = start]
      /\ stored' = [stored EXCEPT ![w] = -1]
      /\ UNCHANGED <<committed, taken, base>>
      BY <1>1 DEF JoinGroup, Assign, Begin, StartOffset, history
<1>3. committed >= 0 => base >= 0 /\ base + 1 .. committed \subseteq taken
      BY DEF Offsets
<1>4. ~(committed >= 0) => ~(base >= 0)
      BY OffsetTypes
<1>5. position'[w] = start /\ stored'[w] = -1
      BY <1>2, OffsetTypes
<1>6. LoopOffsets(w)'
  <2>1. base >= 0 => base + 1 .. start \subseteq taken
        BY <1>1, <1>3, <1>4
  <2>2. start + 1 .. start = {}
        BY <1>1
  <2> QED BY <1>2, <1>5, <2>1, <2>2 DEF LoopOffsets
<1>7. ASSUME NEW u \in Workers, u # w, session[u]
      PROVE  LoopOffsets(u)'
  <2>1. /\ session'[u] /\ position'[u] = position[u] /\ stored'[u] = stored[u]
        /\ position[u] \in 0 .. Len(log)
        BY <1>2, <1>7, OffsetTypes
  <2>2. /\ stored[u] \in {-1, position[u]}
        /\ base >= 0 => base + 1 .. position[u] \subseteq taken
        BY <1>7 DEF Offsets, LoopOffsets
  <2>3. start + 1 .. position[u] \subseteq taken
    <3>1. CASE committed >= 0
          BY <1>1, <1>3, <2>1, <2>2, <3>1, OffsetTypes
    <3>2. CASE ~(committed >= 0)
          BY <1>1, <2>1, <3>2, OffsetTypes
    <3> QED BY <3>1, <3>2
  <2> QED BY <1>2, <1>5, <2>1, <2>2, <2>3 DEF LoopOffsets
<1>8. \A u \in Workers : LoopOffsets(u)'
      BY <1>2, <1>6, <1>7, OffsetTypes DEF LoopOffsets
<1> QED BY <1>2, <1>3, <1>8 DEF Offsets

LEMMA AutoCommitKeepsOffsets ==
    ASSUME Core, Offsets, NEW w \in Workers, AutoCommit(w)
    PROVE  Offsets'
<1>1. /\ session[w] /\ owner = w /\ stored[w] > committed /\ committed' = stored[w]
      /\ base' = IF base = -1 THEN stored[w] ELSE base
      /\ UNCHANGED <<owner, session, position, stored, taken>>
      BY DEF AutoCommit, Commit
<1>2. /\ stored[w] = position[w] /\ committed' = position[w] /\ committed' >= 0
      /\ base' = IF base = -1 THEN position[w] ELSE base
      BY <1>1, OffsetTypes DEF Offsets, LoopOffsets
<1>3. base' >= 0
      BY <1>2, OffsetTypes
<1>4. base' + 1 .. committed' \subseteq taken'
  <2>1. CASE base = -1
        BY <1>2, <2>1, OffsetTypes
  <2>2. CASE base # -1
    <3>1. base >= 0 /\ base' = base
          BY <1>2, <2>2, OffsetTypes
    <3> QED BY <1>1, <1>2, <3>1 DEF Offsets, LoopOffsets
  <2> QED BY <2>1, <2>2
<1>5. ASSUME NEW u \in Workers, session[u]
      PROVE  LoopOffsets(u)'
  <2>1. /\ stored[u] \in {-1, position[u]}
        /\ base >= 0 => base + 1 .. position[u] \subseteq taken
        /\ position[w] + 1 .. position[u] \subseteq taken
        /\ \A v \in Workers :
               owner = v /\ session[v] => position[v] + 1 .. position[u] \subseteq taken
        BY <1>1, <1>5 DEF Offsets, LoopOffsets
  <2>2. base' + 1 .. position[u] \subseteq taken
        BY <1>2, <2>1, OffsetTypes
  <2> QED BY <1>1, <2>1, <2>2 DEF LoopOffsets
<1>6. \A u \in Workers : LoopOffsets(u)'
      BY <1>1, <1>5 DEF LoopOffsets
<1> QED BY <1>3, <1>4, <1>6 DEF Offsets

\* Every step keeps Offsets.
LEMMA NextKeepsOffsets ==
    ASSUME Core, Offsets, [Next]_vars
    PROVE  Offsets'
<1>1. ASSUME NEW id \in Ids, Post(id) \/ ApiStep(id) \/ Disconnect(id)
      PROVE  Offsets'
      BY <1>1, OffsetsKept
         DEF ApiStep, Post, SendMessage, SendMessageFails, WriteInitialRow, Disconnect,
             Append1, Append2, groupVars, topicVars
<1>2. ASSUME NEW w \in Workers,
             WorkerRead(w) \/ WorkerSave(w) \/ WorkerUpdateFails(w) \/ Send(w)
      PROVE  Offsets'
      BY <1>2, OffsetsKept DEF WorkerRead, WorkerSave, WorkerUpdateFails, Send, topicVars
<1>3. ASSUME NEW w \in Workers, SessionEnds(w) \/ Crash(w)
      PROVE  Offsets'
      BY <1>3, OffsetsAfterClose DEF SessionEnds, EndSession, Crash, Leave
<1>4. ASSUME NEW h \in Hooks, HookStep(h)
      PROVE  Offsets'
      BY <1>4, OffsetsKept DEF HookStep, HandleWebhook, HookSave, HookSaveFails, topicVars
<1>5. CASE Rebalance
      BY <1>5, OffsetsKept DEF Rebalance, Revoke
<1>6. CASE ForeignMessage
      BY <1>6, OffsetsKept DEF ForeignMessage, Append1, groupVars
<1>7. CASE UNCHANGED vars
      BY <1>7, OffsetsKept DEF vars, topicVars
<1> QED BY <1>1, <1>2, <1>3, <1>4, <1>5, <1>6, <1>7, ReceiveKeepsOffsets,
           JoinGroupKeepsOffsets, AutoCommitKeepsOffsets DEF Next, WorkerStep, GroupStep

(***************************************************************************)
(* Only what the topic got before the group's first commit is ever passed  *)
(* over (NoneSkippedAfterBase), whichever workers come, go, crash or lose  *)
(* the partition and run on.                                               *)
(***************************************************************************)
THEOREM NothingSkipped == Spec => []NoneSkippedAfterBase
<1>1. Init => Offsets
      BY DEF Init, TopicInit, Offsets, LoopOffsets
<1>2. Core /\ Offsets /\ [Next]_vars => Offsets'
      BY NextKeepsOffsets
<1>3. Offsets => NoneSkippedAfterBase
      BY DEF Offsets, LoopOffsets, NoneSkippedAfterBase
<1> QED BY <1>1, <1>2, <1>3, CoreHolds, PTL DEF Spec

-----------------------------------------------------------------------------
(***************************************************************************)
(* What a crash costs.  A message that has been handed out is lost when it *)
(* is neither handled nor in the hands of a worker.  Every step but a      *)
(* crash finds no new one: a worker lets go of its message only when it is *)
(* Finished with it.                                                       *)
(***************************************************************************)
Losses == {k \in taken : ~ Handled(k) /\ ~ InHand(k)}

Holds(w) == worker[w].pc # "wait" => position'[w] = position[w] /\ Finished(w)

\* Losses are messages of the log, which is finite.
LEMMA LossesAreFinite ==
    ASSUME Core
    PROVE  IsFiniteSet(Losses) /\ Cardinality(Losses) \in Nat
<1>1. Losses \subseteq 1 .. Len(log) /\ Len(log) \in Nat
      BY OffsetTypes DEF Losses
<1>2. IsFiniteSet(1 .. Len(log))
      BY <1>1, FS_Interval
<1>3. IsFiniteSet(Losses)
      BY <1>1, <1>2, FS_Subset
<1> QED BY <1>3, FS_CardinalityType

\* A step that drops no message from anybody's hands loses none.
LEMMA NoNewLoss ==
    ASSUME Core, Core', Grows, OneLossPerCrash, faults <= faults',
           \A w \in Workers : Holds(w),
           \A k \in taken' : k \in taken \/ InHand(k)' \/ Handled(k)'
    PROVE  OneLossPerCrash'
<1>1. Losses' \subseteq Losses
  <2> SUFFICES ASSUME NEW k \in taken', ~ Handled(k)', ~ InHand(k)'
               PROVE  k \in taken /\ ~ Handled(k) /\ ~ InHand(k)
      BY DEF Losses
  <2>1. k \in taken /\ k \in 1 .. Len(log)
        BY OffsetTypes
  <2>2. ~ Handled(k)
        BY <2>1, FlowGrowthKeeps DEF Core, TypeOK
  <2>3. ASSUME NEW w \in Workers, worker[w].pc # "wait", position[w] = k
        PROVE  FALSE
        BY <2>3 DEF Holds, Finished, InHand
  <2> QED BY <2>1, <2>2, <2>3 DEF InHand
<1>2. IsFiniteSet(Losses) /\ Cardinality(Losses) \in Nat /\ Cardinality(Losses') \in Nat
  <2>1. Core => Cardinality(Losses) \in Nat
        BY LossesAreFinite
  <2>2. Cardinality(Losses') \in Nat
    <3>1. Losses' \subseteq 1 .. Len(log') /\ Len(log') \in Nat
          BY DEF Losses, Core, TypeOK, TopicTypeOK, Grows
    <3>2. IsFiniteSet(1 .. Len(log'))
          BY <3>1, FS_Interval
    <3>3. IsFiniteSet(Losses')
          BY <3>1, <3>2, FS_Subset
    <3> QED BY <3>3, FS_CardinalityType
  <2> QED BY <2>1, <2>2, LossesAreFinite
<1>3. Cardinality(Losses') <= Cardinality(Losses)
      BY <1>1, <1>2, FS_Subset
<1>4. Cardinality(Losses) <= faults
      BY DEF OneLossPerCrash, Losses
<1>5. faults \in Nat /\ faults' \in Nat
      BY FaultsAssumption DEF Core, TypeOK
<1>6. Cardinality(Losses') <= faults'
      BY <1>2, <1>3, <1>4, <1>5
<1> QED BY <1>6 DEF OneLossPerCrash, Losses

\* A crash loses the message in hand, and is a fault.
LEMMA CrashLosesOne ==
    ASSUME Core, OneLossPerCrash, NEW w \in Workers, Crash(w)
    PROVE  OneLossPerCrash'
<1>1. /\ Core' /\ Grows /\ \A v \in Workers \ {w} : StillWorker(v)
      /\ taken' = taken /\ faults' = faults + 1
      BY CrashKeepsCore DEF Crash, history, Fault
<1>2. PICK n : n = position[w]
      OBVIOUS
<1>3. Losses' \subseteq Losses \cup {n}
  <2> SUFFICES ASSUME NEW k \in taken, ~ Handled(k)', ~ InHand(k)', k # n
               PROVE  ~ Handled(k) /\ ~ InHand(k)
      BY <1>1 DEF Losses
  <2>1. ~ Handled(k)
        BY <1>1, FlowGrowthKeeps, OffsetTypes DEF Core, TypeOK
  <2>2. ASSUME NEW v \in Workers, worker[v].pc # "wait", position[v] = k
        PROVE  FALSE
        BY <1>1, <1>2, <2>2 DEF InHand, StillWorker, SameSession
  <2> QED BY <2>1, <2>2 DEF InHand
<1>4. /\ IsFiniteSet(Losses) /\ Cardinality(Losses) \in Nat
      /\ IsFiniteSet(Losses \cup {n}) /\ Cardinality(Losses \cup {n}) <= Cardinality(Losses) + 1
  <2>1. IsFiniteSet(Losses) /\ Cardinality(Losses) \in Nat
        BY LossesAreFinite
  <2>2. /\ IsFiniteSet(Losses \cup {n})
        /\ Cardinality(Losses \cup {n}) = IF n \in Losses THEN Cardinality(Losses)
                                           ELSE Cardinality(Losses) + 1
        BY <2>1, FS_AddElement
  <2> QED BY <2>1, <2>2
<1>5. Cardinality(Losses') <= Cardinality(Losses \cup {n}) /\ Cardinality(Losses') \in Nat
  <2>1. IsFiniteSet(Losses')
        BY <1>3, <1>4, FS_Subset
  <2> QED BY <1>3, <1>4, <2>1, FS_Subset, FS_CardinalityType
<1>6. Cardinality(Losses) <= faults
      BY DEF OneLossPerCrash, Losses
<1>7. faults \in Nat /\ Cardinality(Losses \cup {n}) \in Nat
      BY <1>4, FaultsAssumption, FS_CardinalityType DEF Core, TypeOK
<1>8. Cardinality(Losses') <= faults'
      BY <1>1, <1>4, <1>5, <1>6, <1>7
<1> QED BY <1>8 DEF OneLossPerCrash, Losses

(***************************************************************************)
(* A step that leaves the workers' loops alone, and one of a loop that     *)
(* lets go of nothing it has not finished with.                            *)
(***************************************************************************)
LEMMA NoLossElsewhere ==
    ASSUME Core, Core', Grows, OneLossPerCrash, UNCHANGED <<worker, position, taken>>,
           NoFault \/ \E kind \in FaultKinds : Fault(kind)
    PROVE  OneLossPerCrash'
<1>1. faults <= faults'
      BY FaultsAssumption DEF NoFault, Fault, Core, TypeOK
<1>2. \A w \in Workers : Holds(w)
      BY DEF Holds, Finished
<1> QED BY <1>1, <1>2, NoNewLoss

\* A worker that goes on with its message, or is through with it, loses none.
LEMMA LoopLosesNothing ==
    ASSUME Core, Core', Grows, OneLossPerCrash, NEW w \in Workers,
           \A v \in Workers \ {w} : position'[v] = position[v] /\ worker'[v] = worker[v],
           Holds(w), taken' = taken, faults <= faults'
    PROVE  OneLossPerCrash'
<1>1. \A v \in Workers : Holds(v)
      BY DEF Holds, Finished
<1> QED BY <1>1, NoNewLoss

LEMMA ReceiveLosesNothing ==
    ASSUME Core, OneLossPerCrash, NEW w \in Workers, Receive(w)
    PROVE  OneLossPerCrash'
<1>1. Core' /\ Finished(w) /\ Grows
      BY ReceiveKeepsCore, GrowsInPlace DEF Receive, Deliver, Core, TypeOK
<1>2. PICK n : n = position[w] + 1
      OBVIOUS
<1>3. /\ worker[w].pc = "wait" /\ taken' = taken \cup {n} /\ faults' = faults
      /\ \A v \in Workers \ {w} : position'[v] = position[v] /\ worker'[v] = worker[v]
      /\ position'[w] = n
      BY <1>2 DEF Receive, Deliver, NoFault, Core, TypeOK, TopicTypeOK
<1>4. \A v \in Workers : Holds(v)
      BY <1>3 DEF Holds, Finished
<1>5. InHand(n)' \/ Handled(n)'
      BY <1>1, <1>3 DEF Finished, InHand, Handled
<1>6. faults <= faults'
      BY <1>3, FaultsAssumption DEF Core, TypeOK
<1> QED BY <1>1, <1>3, <1>4, <1>5, <1>6, NoNewLoss

\* Every step keeps the bound.
LEMMA NextLosesOne ==
    ASSUME Core, OneLossPerCrash, [Next]_vars
    PROVE  OneLossPerCrash'
<1>1. Core'
      BY NextKeepsCore
<1>2. faults \in Nat
      BY FaultsAssumption DEF Core, TypeOK
<1>3. ASSUME NEW id \in Ids, Post(id) \/ ApiStep(id) \/ Disconnect(id)
      PROVE  OneLossPerCrash'
  <2>1. Grows
        BY <1>3, GrowsInPlace, GrowsByAppend
           DEF ApiStep, Post, SendMessage, SendMessageFails, WriteInitialRow, Disconnect,
               Core, TypeOK, topicVars
  <2>2. /\ UNCHANGED <<worker, position, taken>>
        /\ NoFault \/ \E kind \in FaultKinds : Fault(kind)
        BY <1>3
           DEF ApiStep, Post, SendMessage, SendMessageFails, WriteInitialRow, Disconnect,
               Append1, Append2, groupVars, topicVars, history, Fault
  <2> QED BY <1>1, <2>1, <2>2, NoLossElsewhere
<1>4. ASSUME NEW w \in Workers, WorkerStep(w)
      PROVE  OneLossPerCrash'
  <2>1. CASE Receive(w)
        BY <2>1, ReceiveLosesNothing
  <2>2. CASE WorkerRead(w)
    <3>1. Grows
          BY <2>2, GrowsInPlace DEF WorkerRead, Core, TypeOK, topicVars
    <3> QED BY <1>1, <2>2, <3>1, NoLossElsewhere DEF WorkerRead, topicVars, history
  <2>3. CASE WorkerSave(w) \/ WorkerUpdateFails(w)
    <3>1. Finished(w)
          BY <2>3, WorkerSaveKeepsCore, WorkerUpdateFailsKeepsCore
    <3>2. Grows
          BY <2>3, GrowsInPlace DEF WorkerSave, WorkerUpdateFails, Core, TypeOK, topicVars
    <3>3. /\ UNCHANGED <<position, taken>> /\ faults <= faults'
          /\ \A v \in Workers \ {w} : worker'[v] = worker[v]
          BY <1>2, <2>3
             DEF WorkerSave, WorkerUpdateFails, AfterUpdate, NoFault, Fault, topicVars, history,
                 Core, TypeOK
    <3> QED BY <1>1, <3>1, <3>2, <3>3, LoopLosesNothing DEF Holds
  <2>4. CASE Send(w)
    <3>1. worker'[w].pc # "wait" /\ Grows
          BY <2>4, SendKeepsCore
    <3>2. /\ UNCHANGED <<position, taken>> /\ faults <= faults'
          /\ \A v \in Workers \ {w} : worker'[v] = worker[v]
          BY <1>2, <2>4 DEF Send, AfterSend, NoFault, topicVars, history, Core, TypeOK
    <3> QED BY <1>1, <3>1, <3>2, LoopLosesNothing DEF Holds, Finished
  <2> QED BY <1>4, <2>1, <2>2, <2>3, <2>4 DEF WorkerStep
<1>5. ASSUME NEW w \in Workers, GroupStep(w)
      PROVE  OneLossPerCrash'
  <2>1. CASE AutoCommit(w)
    <3>1. Grows
          BY <2>1, GrowsInPlace DEF AutoCommit, Commit, serviceVars, Core, TypeOK
    <3> QED BY <1>1, <2>1, <3>1, NoLossElsewhere DEF AutoCommit, Commit, serviceVars, NoFault
  <2>2. CASE JoinGroup(w) \/ SessionEnds(w)
    <3>1. worker[w].pc = "wait"
          BY <2>2, JoinGroupKeepsCore DEF SessionEnds
    <3>2. Grows
          BY <2>2, GrowsInPlace
             DEF JoinGroup, Assign, Begin, SessionEnds, EndSession, Close, serviceVars, Core, TypeOK
    <3>3. /\ taken' = taken /\ worker' = worker /\ faults <= faults'
          /\ \A v \in Workers \ {w} : position'[v] = position[v]
          BY <1>2, <2>2
             DEF JoinGroup, Assign, Begin, SessionEnds, EndSession, Close, serviceVars, history,
                 Core, TypeOK, TopicTypeOK
    <3> QED BY <1>1, <3>1, <3>2, <3>3, LoopLosesNothing DEF Holds
  <2> QED BY <1>5, <2>1, <2>2 DEF GroupStep
<1>6. ASSUME NEW h \in Hooks, HookStep(h)
      PROVE  OneLossPerCrash'
  <2>1. Grows
        BY <1>6, GrowsInPlace
           DEF HookStep, HandleWebhook, HookSave, HookSaveFails, topicVars, serviceVars, Core, TypeOK
  <2>2. /\ UNCHANGED <<worker, position, taken>>
        /\ NoFault \/ \E kind \in FaultKinds : Fault(kind)
        BY <1>6
           DEF HookStep, HandleWebhook, HookSave, HookSaveFails, topicVars, serviceVars, history,
               NoFault, Fault
  <2> QED BY <1>1, <2>1, <2>2, NoLossElsewhere
<1>7. CASE Rebalance \/ ForeignMessage
  <2>1. Grows
        BY <1>7, GrowsInPlace, GrowsByAppend
           DEF Rebalance, Revoke, ForeignMessage, Core, TypeOK
  <2>2. /\ UNCHANGED <<worker, position, taken>>
        /\ \E kind \in FaultKinds : Fault(kind)
        BY <1>7 DEF Rebalance, Revoke, ForeignMessage, Append1, groupVars, history, Fault
  <2> QED BY <1>1, <2>1, <2>2, NoLossElsewhere
<1>8. CASE UNCHANGED vars
  <2>1. UNCHANGED <<log, sends, receipts, worker, position, taken, faults>>
        BY <1>8 DEF vars, topicVars, serviceVars, history
  <2>2. Grows
        BY <2>1, GrowsInPlace DEF Core, TypeOK
  <2> QED BY <1>1, <2>1, <2>2, NoLossElsewhere DEF NoFault
<1> QED BY <1>3, <1>4, <1>5, <1>6, <1>7, <1>8, CrashLosesOne DEF Next

(***************************************************************************)
(* A crash loses at most the one message its worker has in hand, though    *)
(* offsets are committed ahead of the work (OneLossPerCrash); no other     *)
(* fault, and nothing a group's members do to each other, loses one.       *)
(***************************************************************************)
THEOREM LossesAreBounded == Spec => []OneLossPerCrash
<1>1. Init => OneLossPerCrash
  <2> SUFFICES ASSUME Init
               PROVE  OneLossPerCrash
      OBVIOUS
  <2>1. {k \in taken : ~ Handled(k) /\ ~ InHand(k)} = {} /\ faults = 0
        BY DEF Init
  <2> QED BY <2>1, FS_EmptySet DEF OneLossPerCrash
<1>2. Core /\ OneLossPerCrash /\ [Next]_vars => OneLossPerCrash'
      BY NextLosesOne
<1> QED BY <1>1, <1>2, CoreHolds, PTL DEF Spec

================================================================================
