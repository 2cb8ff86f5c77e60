---------------------------- MODULE GoServiceProofs ----------------------------
(***************************************************************************)
(* Theorems about GoService, for every set of notifications, requests,     *)
(* workers, callbacks and flaky channels, and every bound on the faults.   *)
(*                                                                         *)
(* There are six invariants, each proved from those before it: Inv (types, *)
(* rows, offsets and where each worker is in its message); RowOrder (the   *)
(* row is there before the message is); FinalInv (who writes while the     *)
(* service is quiet); AccountInv of NotificationFlowProofs (which turn of  *)
(* which loop made a delivery); AloneInv (the owner of the partition alone *)
(* has updates while nobody disturbs it); and CalmInv (what the rows say   *)
(* of a message while it is worked on for the first time).                 *)
(*                                                                         *)
(* A step changes one worker at most, and whatever it changes, the log,    *)
(* the deliveries made and the callbacks received only grow (Grows).  So   *)
(* the proof of a step says what becomes of the worker that takes it, and  *)
(* takes the rest from the lemmas on growth.                               *)
(***************************************************************************)
EXTENDS GoService, GoStatusServiceProofs, NotificationFlowProofs

(***************************************************************************)
(* The inductive invariant behind CommittedIsDelivered, AcceptedIsNotLost  *)
(* and CompletedIsTrue.  A loop that still runs, even one that has lost    *)
(* its partition, has dealt with every message it was given before the one *)
(* in hand; and where it is within that message says which channels and    *)
(* recipients it has dealt with.                                           *)
(***************************************************************************)
SessionInv(w) ==
    session[w] =>
        /\ \A k \in 1 .. position[w] :
               k < position[w] \/ worker[w].pc = "wait" => Handled(k)
        /\ \A k \in 1 .. stored[w] : Handled(k)

InMessage(w) ==
    LET id  == Current(w)
        chs == Request[id].channels
        v   == worker[w]
        c   == chs[v.ch]
    IN  /\ session[w] /\ position[w] > 0 /\ id \in Ids
        /\ v.pc # "mark" => v.ch <= Len(chs)
        /\ \A i \in 1 .. Len(chs) : i < v.ch \/ v.pc = "mark" => ChannelDone(id, chs[i])
        /\ v.pc = "send" =>
               /\ c \in Supported /\ v.rcp <= Len(Request[id].recipients)
               /\ IF v.ok THEN SentTo(id, c, v.rcp - 1) ELSE c \in Flaky
        /\ v.pc = "final" =>
               IF v.ok THEN SentTo(id, c, Len(Request[id].recipients))
               ELSE c \notin Supported \ Flaky

WorkInv(w) == worker[w].pc # "wait" => InMessage(w)

\* A row of id, stored or about to be, tells the truth about completed
\* channels and has an entry for each channel of the request.
RowIsTrue(id, row) ==
    /\ \A t \in Requested[id] :
           row.channels[t[2]] \in Completed => t \in Sent \/ Reported(id, t[2])
    /\ \A c \in ToSet(Request[id].channels) : row.channels[c] # "ABSENT"

RowsInv ==
    /\ \A id \in Ids : table[id] # None => RowIsTrue(id, table[id])
    /\ \A p \in Procs : call[p] # None => RowIsTrue(call[p].id, call[p].row)

AcceptedIsLogged == \A id \in Ids : api[id] = "accepted" => Logged(id)

Inv ==
    /\ TypeOK
    /\ StatusInv
    /\ CommittedIsDelivered
    /\ \A w \in Workers : SessionInv(w) /\ WorkInv(w)
    /\ RowsInv
    /\ AcceptedIsLogged

(***************************************************************************)
(* Growth as the proofs use it most: with the callbacks received.          *)
(***************************************************************************)
LEMMA GrowthKeeps ==
    ASSUME Grows, TypeOK
    PROVE  /\ \A k \in 1 .. Len(log) : Handled(k) => Handled(k)'
           /\ \A id, c, n : SentTo(id, c, n) => SentTo(id, c, n)'
           /\ \A id, c : ChannelDone(id, c) => ChannelDone(id, c)'
           /\ \A id, c : Reported(id, c) => Reported(id, c)'
           /\ \A id : Logged(id) => Logged(id)'
<1>1. \A id, c : Reported(id, c) => Reported(id, c)'
      BY DEF Grows, Reported
<1> QED BY <1>1, FlowGrowthKeeps DEF TypeOK

(***************************************************************************)
(* A worker that does not move keeps its part of the invariant.            *)
(***************************************************************************)
Still(w) ==
    /\ session'[w] = session[w]
    /\ position'[w] = position[w]
    /\ stored'[w] = stored[w]
    /\ worker'[w] = worker[w]

\* A worker that the step leaves alone stays where it is in its message.
LEMMA StillKeeps ==
    ASSUME Inv, Grows, NEW w \in Workers, Still(w)
    PROVE  SessionInv(w)' /\ WorkInv(w)'
<1> USE DEF Still
<1>1. /\ position[w] \in 0 .. Len(log) /\ stored[w] \in -1 .. Len(log)
      /\ Len(log) \in Nat
      BY DEF Inv, TypeOK, TopicTypeOK
<1>2. SessionInv(w)'
  <2> SUFFICES ASSUME session[w]
               PROVE  SessionInv(w)'
      BY DEF SessionInv
  <2>1. \A k \in 1 .. position[w] :
            k < position[w] \/ worker[w].pc = "wait" => Handled(k)'
        BY <1>1, GrowthKeeps DEF SessionInv, Inv
  <2>2. \A k \in 1 .. stored[w] : Handled(k)'
        BY <1>1, GrowthKeeps DEF SessionInv, Inv
  <2> QED BY <2>1, <2>2 DEF SessionInv
<1>3. CASE worker[w].pc = "wait"
      BY <1>2, <1>3 DEF WorkInv
<1>4. CASE worker[w].pc # "wait"
  <2>1. InMessage(w)
        BY <1>4 DEF Inv, WorkInv
  <2>2. Current(w)' = Current(w)
        BY <1>1, <2>1 DEF Current, Grows, InMessage
  <2>3. InMessage(w)'
        BY <2>1, <2>2, GrowthKeeps DEF InMessage, Inv
  <2> QED BY <1>2, <2>3 DEF WorkInv
<1> QED BY <1>3, <1>4

\* What is committed stays delivered while the offset stays.
LEMMA CommittedKept ==
    ASSUME Inv, Grows, committed' = committed
    PROVE  CommittedIsDelivered'
<1>1. committed \in -1 .. Len(log) /\ Len(log) \in Nat
      BY DEF Inv, TypeOK, TopicTypeOK
<1>2. \A k \in 1 .. committed : Handled(k)
      BY DEF Inv, CommittedIsDelivered, Handled
<1>3. \A k \in 1 .. committed : Handled(k)'
      BY <1>1, <1>2, GrowthKeeps DEF Inv
<1> QED BY <1>3 DEF CommittedIsDelivered, Handled

\* Rows stay true in a step that touches no row and no update.
LEMMA RowsKept ==
    ASSUME Inv, Grows, UNCHANGED statusVars
    PROVE  RowsInv'
BY GrowthKeeps DEF statusVars, Inv, RowsInv, RowIsTrue, Grows

\* No step but an accepted request can owe the log a message.
LEMMA AcceptedKept ==
    ASSUME Inv, Grows, \A id \in Ids : api'[id] = "accepted" => api[id] = "accepted" \/ Logged(id)'
    PROVE  AcceptedIsLogged'
BY GrowthKeeps DEF Inv, AcceptedIsLogged

-----------------------------------------------------------------------------
(***************************************************************************)
(* Rows stay true (RowsInv), statement by statement.                       *)
(***************************************************************************)
LEMMA RowsAfterCreate ==
    ASSUME Inv, Grows, NEW id \in Ids, CreateInitialStatus(id, ToSet(Request[id].channels))
    PROVE  RowsInv'
<1> DEFINE row == InitialRow(ToSet(Request[id].channels))
<1>1. /\ \A c \in Channels : row.channels[c] \notin Completed
      /\ \A c \in ToSet(Request[id].channels) : row.channels[c] # "ABSENT"
      BY RequestFacts DEF InitialRow, Completed
<1>2. table' = [table EXCEPT ![id] = row] /\ call' = call
      BY DEF CreateInitialStatus
<1> HIDE DEF row
<1>3. \A t \in Requested[id] : t[2] \in Channels
      BY RequestFacts DEF Requested
<1>4. ASSUME NEW i \in Ids, table'[i] # None
      PROVE  RowIsTrue(i, table[i])' 
  <2>1. CASE i = id
        BY <1>1, <1>2, <1>3, <2>1 DEF RowIsTrue, Inv, TypeOK, StatusTypeOK
  <2>2. CASE i # id
        BY <1>2, <1>4, <2>2, GrowthKeeps DEF RowIsTrue, Grows, Inv, RowsInv, TypeOK, StatusTypeOK
  <2> QED BY <2>1, <2>2
<1>5. \A p \in Procs : call'[p] # None => RowIsTrue(call[p].id, call[p].row)'
      BY <1>2, GrowthKeeps DEF RowIsTrue, Grows, Inv, RowsInv
<1> QED BY <1>4, <1>5 DEF RowsInv

LEMMA RowsAfterRead ==
    ASSUME Inv, Grows, NEW p \in Procs, NEW id \in Ids, NEW c \in Channels,
           NEW s \in WorkerStatuses \cup Receipts, UpdateRead(p, id, c, s),
           s \in Completed => \/ \A t \in Requested[id] : t[2] = c => t \in Sent
                              \/ Reported(id, c)'
    PROVE  RowsInv'
<1> DEFINE row == WithChannel(table[id], c, s)
<1>1. /\ table[id] \in Row /\ RowIsTrue(id, table[id])
      BY DEF UpdateRead, Inv, TypeOK, StatusTypeOK, RowsInv
<1>2. row.channels = [table[id].channels EXCEPT ![c] = s]
      BY DEF WithChannel
<1>3. table' = table /\ call' = [call EXCEPT ![p] = [id |-> id, row |-> row]]
      BY DEF UpdateRead
<1>4. table[id].channels \in [Channels -> ChannelStatuses]
      BY <1>1 DEF Row, ChannelMaps
<1>5. s # "ABSENT"
      BY ReceiptsAssumption DEF WorkerStatuses
<1>6. /\ \A t \in Requested[id] : t[2] \in Channels
      /\ ToSet(Request[id].channels) \subseteq Channels
      BY RequestFacts DEF Requested
<1> HIDE DEF row
<1>7. \A i \in Ids : table'[i] # None => RowIsTrue(i, table[i])'
      BY <1>3, GrowthKeeps DEF RowIsTrue, Grows, Inv, RowsInv
<1>8. ASSUME NEW q \in Procs, call'[q] # None
      PROVE  RowIsTrue(call[q].id, call[q].row)'
  <2>1. CASE q # p
        BY <1>3, <1>8, <2>1, GrowthKeeps
           DEF RowIsTrue, Grows, Inv, RowsInv, TypeOK, StatusTypeOK
  <2>2. CASE q = p
    <3>1. call'[q].id = id /\ call'[q].row = row
          BY <1>3, <2>2 DEF Inv, TypeOK, StatusTypeOK
    <3>2. ASSUME NEW t \in Requested[id], row.channels[t[2]] \in Completed
          PROVE  t \in Sent' \/ Reported(id, t[2])'
      <4>1. CASE t[2] = c
            BY <1>2, <1>4, <3>2, <4>1 DEF Grows
      <4>2. CASE t[2] # c
        <5>1. table[id].channels[t[2]] \in Completed
              BY <1>2, <1>4, <1>6, <3>2, <4>2
        <5> QED BY <1>1, <3>2, <5>1, GrowthKeeps DEF RowIsTrue, Grows, Inv
      <4> QED BY <4>1, <4>2
    <3>3. \A d \in ToSet(Request[id].channels) : row.channels[d] # "ABSENT"
          BY <1>1, <1>2, <1>4, <1>5, <1>6 DEF RowIsTrue
    <3> QED BY <3>1, <3>2, <3>3 DEF RowIsTrue
  <2> QED BY <2>1, <2>2
<1> QED BY <1>7, <1>8 DEF RowsInv

LEMMA RowsAfterSave ==
    ASSUME Inv, Grows, NEW p \in Procs, UpdateSave(p)
    PROVE  RowsInv'
<1>1. /\ call[p].id \in Ids
      /\ RowIsTrue(call[p].id, call[p].row)
      BY DEF UpdateSave, Inv, TypeOK, StatusTypeOK, RowsInv, Call
<1>2. /\ table' = [table EXCEPT ![call[p].id] = call[p].row]
      /\ call' = [call EXCEPT ![p] = None]
      BY DEF UpdateSave
<1>3. ASSUME NEW i \in Ids, table'[i] # None
      PROVE  RowIsTrue(i, table[i])'
  <2>1. CASE i = call[p].id
        BY <1>1, <1>2, <2>1, GrowthKeeps DEF RowIsTrue, Grows, Inv, TypeOK, StatusTypeOK
  <2>2. CASE i # call[p].id
        BY <1>2, <1>3, <2>2, GrowthKeeps
           DEF RowIsTrue, Grows, Inv, RowsInv, TypeOK, StatusTypeOK
  <2> QED BY <2>1, <2>2
<1>4. \A q \in Procs : call'[q] # None => RowIsTrue(call[q].id, call[q].row)'
      BY <1>2, GrowthKeeps DEF RowIsTrue, Grows, Inv, RowsInv, TypeOK, StatusTypeOK
<1> QED BY <1>3, <1>4 DEF RowsInv

LEMMA RowsAfterAbandon ==
    ASSUME Inv, Grows, table' = table,
           \A p \in Procs : call'[p] = call[p] \/ call'[p] = None
    PROVE  RowsInv'
BY GrowthKeeps DEF RowIsTrue, Grows, Inv, RowsInv

-----------------------------------------------------------------------------
(***************************************************************************)
(* A step that moves no worker and commits nothing keeps Inv if it keeps   *)
(* the types, the rows and the log's share of it.                          *)
(***************************************************************************)
LEMMA OffTheWorkers ==
    ASSUME Inv, Grows, UNCHANGED <<committed, session, position, stored, worker>>,
           TypeOK', StatusInv', RowsInv',
           \A id \in Ids : api'[id] = "accepted" => api[id] = "accepted" \/ Logged(id)'
    PROVE  Inv'
<1>1. \A w \in Workers : SessionInv(w)' /\ WorkInv(w)'
      BY StillKeeps DEF Still
<1>2. CommittedIsDelivered'
      BY CommittedKept
<1>3. AcceptedIsLogged'
      BY AcceptedKept
<1> QED BY <1>1, <1>2, <1>3 DEF Inv

(***************************************************************************)
(* A step of one worker that keeps the log, the offsets and the API.       *)
(***************************************************************************)
LEMMA OnOneWorker ==
    ASSUME Inv, Grows, NEW w \in Workers,
           UNCHANGED <<topicVars, api, receipts>>,
           \A v \in Workers \ {w} : worker'[v] = worker[v],
           worker' \in [Workers -> WorkerState],
           worker[w].pc # "wait", worker'[w].pc # "wait",
           InMessage(w)',
           sends' \in [Deliveries -> Nat], faults' \in 0 .. MaxFaults,
           StatusInv', RowsInv'
    PROVE  Inv'
<1>1. TypeOK'
  <2>1. TopicTypeOK'
        BY TopicTypeKept DEF Inv, TypeOK
  <2> QED BY <2>1 DEF Inv, TypeOK, StatusInv
<1>2. ASSUME NEW v \in Workers, v # w
      PROVE  SessionInv(v)' /\ WorkInv(v)'
      BY <1>2, StillKeeps DEF Still, topicVars
<1>3. WorkInv(w)'
      BY DEF WorkInv
<1>4. SessionInv(w)'
  <2>1. /\ position[w] \in 0 .. Len(log) /\ stored[w] \in -1 .. Len(log)
        /\ Len(log) \in Nat
        BY DEF Inv, TypeOK, TopicTypeOK
  <2>2. session[w] => /\ \A k \in 1 .. position[w] : k < position[w] => Handled(k)'
                      /\ \A k \in 1 .. stored[w] : Handled(k)'
        BY <2>1, GrowthKeeps DEF Inv, SessionInv
  <2> QED BY <2>2 DEF SessionInv, topicVars
<1>5. CommittedIsDelivered' /\ AcceptedIsLogged'
      BY CommittedKept, AcceptedKept DEF topicVars
<1> QED BY <1>1, <1>2, <1>3, <1>4, <1>5 DEF Inv

-----------------------------------------------------------------------------
(***************************************************************************)
(* The steps of POST /notifications, and a message of somebody else.       *)
(***************************************************************************)
LEMMA PostKeepsInv ==
    ASSUME Inv, NEW id \in Ids, Post(id)
    PROVE  Inv'
<1>1. Grows
      BY GrowsInPlace DEF TypeOK, Post, Inv, topicVars
<1>2. StatusInv' /\ RowsInv'
      BY <1>1, StutterKeepsStatusInv, RowsKept DEF Post, Inv
<1>3. TypeOK'
      BY <1>2, TopicTypeKept
         DEF Post, Inv, TypeOK, StatusInv, SetApi, ApiStates, NoFault
<1> QED BY <1>1, <1>2, <1>3, OffTheWorkers
        DEF Post, SetApi, topicVars, Inv, TypeOK

LEMMA WriteInitialRowKeepsInv ==
    ASSUME Inv, NEW id \in Ids, WriteInitialRow(id)
    PROVE  Inv'
<1>1. Grows
      BY GrowsInPlace DEF TypeOK, WriteInitialRow, Inv, topicVars
<1>2. StatusInv' /\ RowsInv'
  <2>1. CASE CreateInitialStatus(id, ToSet(Request[id].channels))
        BY <1>1, <2>1, RequestFacts, CreateKeepsStatusInv, RowsAfterCreate DEF Inv
  <2>2. CASE UNCHANGED statusVars
        BY <1>1, <2>2, StutterKeepsStatusInv, RowsKept DEF Inv
  <2> QED BY <2>1, <2>2 DEF WriteInitialRow
<1>3. TypeOK'
      BY <1>2, TopicTypeKept, FaultsAssumption
         DEF WriteInitialRow, Inv, TypeOK, StatusInv, SetApi, ApiStates, NoFault, Fault
<1> QED BY <1>1, <1>2, <1>3, OffTheWorkers
        DEF WriteInitialRow, SetApi, topicVars, Inv, TypeOK

LEMMA SendMessageKeepsInv ==
    ASSUME Inv, NEW id \in Ids, SendMessage(id)
    PROVE  Inv'
<1>1. Grows /\ TopicTypeOK' /\ Logged(id)'
      BY GrowsByAppend DEF TypeOK, SendMessage, Inv, Logged
<1>2. StatusInv' /\ RowsInv'
      BY <1>1, StutterKeepsStatusInv, RowsKept DEF SendMessage, Inv
<1>3. TypeOK'
      BY <1>1, <1>2, FaultsAssumption
         DEF SendMessage, Inv, TypeOK, StatusInv, SetApi, ApiStates, NoFault, Fault
<1>4. UNCHANGED <<committed, session, position, stored, worker>>
      BY DEF SendMessage, Append1, Append2, groupVars
<1>5. \A i \in Ids : api'[i] = "accepted" => api[i] = "accepted" \/ Logged(i)'
      BY <1>1 DEF SendMessage, SetApi, Inv, TypeOK
<1> QED BY <1>1, <1>2, <1>3, <1>4, <1>5, OffTheWorkers

LEMMA SendMessageFailsKeepsInv ==
    ASSUME Inv, NEW id \in Ids, SendMessageFails(id)
    PROVE  Inv'
<1>1. /\ Grows /\ TopicTypeOK'
      /\ UNCHANGED <<committed, session, position, stored, worker>>
  <2>1. CASE UNCHANGED topicVars
        BY <2>1, GrowsInPlace, TopicTypeKept DEF SendMessageFails, Inv, TypeOK, topicVars
  <2>2. CASE Append1(id)
        BY <2>2, GrowsByAppend DEF TypeOK, SendMessageFails, Inv, Append1, groupVars
  <2> QED BY <2>1, <2>2 DEF SendMessageFails
<1>2. StatusInv' /\ RowsInv'
      BY <1>1, StutterKeepsStatusInv, RowsKept DEF SendMessageFails, Inv
<1>3. TypeOK'
      BY <1>1, <1>2, FaultsAssumption
         DEF SendMessageFails, Inv, TypeOK, StatusInv, SetApi, ApiStates, Fault
<1>4. \A i \in Ids : api'[i] = "accepted" => api[i] = "accepted"
      BY DEF SendMessageFails, SetApi, Inv, TypeOK
<1> QED BY <1>1, <1>2, <1>3, <1>4, OffTheWorkers

LEMMA ForeignMessageKeepsInv ==
    ASSUME Inv, ForeignMessage
    PROVE  Inv'
<1>1. Grows /\ TopicTypeOK'
      BY GrowsByAppend DEF TypeOK, ForeignMessage, Inv
<1>2. StatusInv' /\ RowsInv'
      BY <1>1, StutterKeepsStatusInv, RowsKept DEF ForeignMessage, Inv
<1>3. TypeOK'
      BY <1>1, <1>2, FaultsAssumption DEF ForeignMessage, Inv, TypeOK, StatusInv, Fault
<1> QED BY <1>1, <1>2, <1>3, OffTheWorkers DEF ForeignMessage, Append1, groupVars

-----------------------------------------------------------------------------
(***************************************************************************)
(* The steps of a webhook callback.                                        *)
(***************************************************************************)
LEMMA HandleWebhookKeepsInv ==
    ASSUME Inv, NEW h \in Hooks, NEW id \in Ids, NEW c \in Channels, NEW s \in Receipts,
           HandleWebhook(h, id, c, s)
    PROVE  Inv'
<1>1. Grows
      BY GrowsInPlace DEF TypeOK, HandleWebhook, Inv, topicVars
<1>2. h \in Procs /\ UpdateRead(h, id, c, s)
      BY ProcsAssumption DEF HandleWebhook
<1>3. s \in Completed => Reported(id, c)'
      BY DEF HandleWebhook, Reported
<1>4. StatusInv' /\ RowsInv'
      BY <1>1, <1>2, <1>3, ReadKeepsStatusInv, RowsAfterRead DEF Inv
<1>5. TypeOK'
      BY <1>4, TopicTypeKept DEF HandleWebhook, Inv, TypeOK, StatusInv, NoFault
<1> QED BY <1>1, <1>4, <1>5, OffTheWorkers DEF HandleWebhook, topicVars

LEMMA HookSaveKeepsInv ==
    ASSUME Inv, NEW h \in Hooks, HookSave(h) \/ HookSaveFails(h)
    PROVE  Inv'
<1>1. Grows
      BY GrowsInPlace DEF TypeOK, HookSave, HookSaveFails, Inv, topicVars, serviceVars
<1>2. h \in Procs
      BY ProcsAssumption
<1>3. StatusInv' /\ RowsInv'
  <2>1. CASE UpdateSave(h)
        BY <1>1, <1>2, <2>1, SaveKeepsStatusInv, RowsAfterSave DEF Inv
  <2>2. CASE UpdateAbandon(h)
    <3>1. table' = table /\ \A p \in Procs : call'[p] = call[p] \/ call'[p] = None
          BY <2>2, <1>2 DEF UpdateAbandon, Inv, TypeOK, StatusTypeOK
    <3> QED BY <1>1, <1>2, <2>2, <3>1, AbandonKeepsStatusInv, RowsAfterAbandon DEF Inv
  <2> QED BY <2>1, <2>2 DEF HookSave, HookSaveFails
<1>4. TypeOK'
      BY <1>3, TopicTypeKept, FaultsAssumption
         DEF HookSave, HookSaveFails, Inv, TypeOK, StatusInv, serviceVars, Fault
<1> QED BY <1>1, <1>3, <1>4, OffTheWorkers
        DEF HookSave, HookSaveFails, topicVars, serviceVars

-----------------------------------------------------------------------------
(***************************************************************************)
(* The steps of the channel loop of ConsumeClaim.                          *)
(***************************************************************************)
LEMMA InMessageFacts ==
    ASSUME Inv, NEW w \in Workers, worker[w].pc # "wait"
    PROVE  /\ InMessage(w)
           /\ Current(w) \in Ids
           /\ worker[w] \in WorkerState
           /\ worker[w].pc # "mark" =>
                  /\ worker[w].ch \in 1 .. Len(WorkerChannels(w))
                  /\ WorkerChannel(w) \in Channels
<1>1. InMessage(w) /\ worker[w] \in WorkerState
      BY DEF Inv, WorkInv, TypeOK
<1>2. Current(w) \in Ids
      BY <1>1 DEF InMessage
<1>3. worker[w].pc # "mark" => worker[w].ch \in 1 .. Len(WorkerChannels(w))
      BY <1>1, <1>2, RequestFacts DEF InMessage, WorkerState, WorkerChannels
<1>4. worker[w].pc # "mark" => WorkerChannel(w) \in Channels
      BY <1>2, <1>3, RequestFacts DEF WorkerChannel, WorkerChannels
<1> QED BY <1>1, <1>2, <1>3, <1>4

\* What follows an update is the next turn of the loops, or the mark.
LEMMA AfterUpdateMoves ==
    ASSUME Inv, Grows, NEW w \in Workers, worker[w].pc \in {"processing", "final"},
           UNCHANGED topicVars, AfterUpdate(w)
    PROVE  /\ worker' \in [Workers -> WorkerState]
           /\ \A v \in Workers \ {w} : worker'[v] = worker[v]
           /\ worker'[w].pc # "wait"
           /\ InMessage(w)'
<1>1. PICK id \in Ids : id = Current(w)
      BY InMessageFacts
<1>2. PICK old \in WorkerState : old = worker[w]
      BY InMessageFacts
<1> DEFINE chs == Request[id].channels
           rcps == Request[id].recipients
           c == chs[old.ch]
           next == IF old.pc = "processing" THEN Dispatch(w)
                   ELSE AtChannel(old.ch + 1, Len(chs))
<1>3. /\ InMessage(w) /\ old.ch \in 1 .. Len(chs) /\ c \in Channels
      /\ Len(chs) \in Nat /\ Len(rcps) \in Nat /\ rcps \in Seq(Recipients)
      BY <1>1, <1>2, InMessageFacts, RequestFacts, RequestAssumption
         DEF WorkerChannels, WorkerChannel, Requests
<1>4. worker' = [worker EXCEPT ![w] = next]
      BY <1>1, <1>2 DEF AfterUpdate, WorkerChannels
<1>5. next \in WorkerState /\ next.pc # "wait"
  <2>1. CASE old.pc = "processing"
        BY <1>2, <2>1 DEF Dispatch, WorkerState, WorkerPcs
  <2>2. CASE old.pc # "processing"
        BY <1>3, <2>2 DEF AtChannel, WorkerState, WorkerPcs
  <2> QED BY <2>1, <2>2
<1>6. PICK new \in WorkerState : new = next
      BY <1>5
<1>7. worker'[w] = new
      BY <1>4, <1>6 DEF Inv, TypeOK
<1>8. /\ Current(w)' = id /\ session'[w] /\ position'[w] > 0
      BY <1>1, <1>3 DEF Current, InMessage, topicVars
<1>9. \A i \in 1 .. Len(chs) : i < old.ch => ChannelDone(id, chs[i])'
      BY <1>1, <1>2, <1>3, GrowthKeeps DEF InMessage, Inv
<1>10. InMessage(w)'
  <2>1. CASE old.pc = "processing" /\ c \notin Supported
    <3>1. new.pc = "final" /\ new.ch = old.ch /\ new.ok = FALSE
          BY <1>1, <1>2, <1>6, <2>1 DEF Dispatch, WorkerChannel, WorkerChannels, WorkerState
    <3> QED BY <1>3, <1>7, <1>8, <1>9, <2>1, <3>1 DEF InMessage
  <2>2. CASE old.pc = "processing" /\ c \in Supported
    <3>1. /\ new.pc = IF rcps = <<>> THEN "final" ELSE "send"
          /\ new.ch = old.ch /\ new.rcp = 1 /\ new.ok = TRUE
          BY <1>1, <1>2, <1>6, <2>2
             DEF Dispatch, WorkerChannel, WorkerChannels, WorkerRecipients, WorkerState
    <3>2. SentTo(id, c, 0)'
          BY DEF SentTo
    <3>3. IF rcps = <<>> THEN Len(rcps) = 0 ELSE Len(rcps) >= 1
          BY <1>3, EmptySeq
    <3> QED BY <1>3, <1>7, <1>8, <1>9, <2>2, <3>1, <3>2, <3>3 DEF InMessage
  <2>3. CASE old.pc = "final"
    <3>1. ChannelDone(id, c)'
          BY <1>1, <1>2, <1>3, <2>3, GrowthKeeps DEF InMessage, ChannelDone, Inv
    <3>2. \A i \in 1 .. Len(chs) : i <= old.ch => ChannelDone(id, chs[i])'
          BY <1>3, <1>9, <3>1
    <3>3. CASE old.ch + 1 <= Len(chs)
      <4>1. new.pc = "processing" /\ new.ch = old.ch + 1
            BY <1>6, <2>3, <3>3 DEF AtChannel
      <4> QED BY <1>3, <1>7, <1>8, <3>2, <3>3, <4>1 DEF InMessage
    <3>4. CASE ~(old.ch + 1 <= Len(chs))
      <4>1. new.pc = "mark"
            BY <1>6, <2>3, <3>4 DEF AtChannel
      <4>2. \A i \in 1 .. Len(chs) : ChannelDone(id, chs[i])'
            BY <1>3, <3>2, <3>4
      <4> QED BY <1>7, <1>8, <4>1, <4>2 DEF InMessage
    <3> QED BY <3>3, <3>4
  <2> QED BY <1>2, <2>1, <2>2, <2>3
<1> QED BY <1>4, <1>5, <1>6, <1>7, <1>10 DEF Inv, TypeOK

LEMMA WorkerReadKeepsInv ==
    ASSUME Inv, NEW w \in Workers, WorkerRead(w)
    PROVE  Inv'
<1>1. Grows
      BY GrowsInPlace DEF TypeOK, WorkerRead, Inv, topicVars
<1>2. PICK id \in Ids : id = Current(w)
      BY InMessageFacts DEF WorkerRead
<1>3. PICK c \in Channels : c = WorkerChannel(w)
      BY InMessageFacts DEF WorkerRead
<1>4. PICK s \in WorkerStatuses : s = StatusToReport(w)
      BY DEF StatusToReport, WorkerStatuses
<1>5. w \in Procs /\ UpdateRead(w, id, c, s)
      BY <1>2, <1>3, <1>4, ProcsAssumption DEF WorkerRead
<1>6. ASSUME s \in Completed, NEW t \in Requested[id], t[2] = c
      PROVE  t \in Sent
  <2>1. worker[w].pc = "final" /\ worker[w].ok
        BY <1>4, <1>6 DEF StatusToReport, Completed, WorkerRead
  <2>2. SentTo(id, c, Len(Request[id].recipients))
        BY <1>2, <1>3, <2>1, InMessageFacts DEF InMessage, WorkerChannel, WorkerChannels
  <2> QED BY <1>6, <2>2, SentToAll
<1>7. StatusInv' /\ RowsInv'
      BY <1>1, <1>5, <1>6, ReadKeepsStatusInv, RowsAfterRead DEF Inv
<1>8. TypeOK'
      BY <1>7, TopicTypeKept DEF WorkerRead, Inv, TypeOK, StatusInv, NoFault
<1> QED BY <1>1, <1>7, <1>8, OffTheWorkers DEF WorkerRead, topicVars

LEMMA WorkerSaveKeepsInv ==
    ASSUME Inv, NEW w \in Workers, WorkerSave(w)
    PROVE  Inv'
<1>1. Grows
      BY GrowsInPlace DEF TypeOK, WorkerSave, Inv, topicVars
<1>2. w \in Procs
      BY ProcsAssumption
<1>3. StatusInv' /\ RowsInv'
      BY <1>1, <1>2, SaveKeepsStatusInv, RowsAfterSave DEF WorkerSave, Inv
<1> QED BY <1>1, <1>3, AfterUpdateMoves, OnOneWorker
        DEF WorkerSave, Inv, TypeOK, NoFault

LEMMA WorkerUpdateFailsKeepsInv ==
    ASSUME Inv, NEW w \in Workers, WorkerUpdateFails(w)
    PROVE  Inv'
<1>1. Grows
      BY GrowsInPlace DEF TypeOK, WorkerUpdateFails, Inv, topicVars
<1>2. w \in Procs
      BY ProcsAssumption
<1>3. StatusInv' /\ RowsInv'
  <2>1. CASE UNCHANGED statusVars
        BY <1>1, <2>1, StutterKeepsStatusInv, RowsKept DEF Inv
  <2>2. CASE UpdateAbandon(w)
    <3>1. table' = table /\ \A p \in Procs : call'[p] = call[p] \/ call'[p] = None
          BY <1>2, <2>2 DEF UpdateAbandon, Inv, TypeOK, StatusTypeOK
    <3> QED BY <1>1, <1>2, <2>2, <3>1, AbandonKeepsStatusInv, RowsAfterAbandon DEF Inv
  <2> QED BY <2>1, <2>2 DEF WorkerUpdateFails
<1>4. faults' \in 0 .. MaxFaults
      BY FaultsAssumption DEF WorkerUpdateFails, Inv, TypeOK, NoFault, Fault
<1> QED BY <1>1, <1>3, <1>4, AfterUpdateMoves, OnOneWorker
        DEF WorkerUpdateFails, Inv, TypeOK

LEMMA SendKeepsInv ==
    ASSUME Inv, NEW w \in Workers, Send(w)
    PROVE  Inv'
<1>1. PICK id \in Ids : id = Current(w)
      BY InMessageFacts DEF Send
<1>2. PICK old \in WorkerState : old = worker[w]
      BY InMessageFacts DEF Send
<1> DEFINE chs == Request[id].channels
           rcps == Request[id].recipients
           c == chs[old.ch]
           t == <<id, c, rcps[old.rcp]>>
<1>3. /\ InMessage(w) /\ old.pc = "send" /\ old.ch \in 1 .. Len(chs) /\ c \in Channels
      /\ Len(rcps) \in Nat /\ old.rcp \in 1 .. Len(rcps) /\ c \in Supported
      /\ IF old.ok THEN SentTo(id, c, old.rcp - 1) ELSE c \in Flaky
  <2>1. InMessage(w) /\ old.pc = "send" /\ old.ch \in 1 .. Len(chs) /\ c \in Channels
        BY <1>1, <1>2, InMessageFacts DEF Send, WorkerChannels, WorkerChannel
  <2> QED BY <1>1, <1>2, <2>1, RequestFacts DEF InMessage, WorkerState
<1>4. WorkerChannel(w) = c /\ WorkerRecipients(w) = rcps /\ t \in Deliveries
      BY <1>1, <1>2, <1>3, RequestFacts
         DEF WorkerChannel, WorkerChannels, WorkerRecipients, Deliveries
<1>5. PICK delivered \in BOOLEAN :
          /\ AfterSend(w, delivered)
          /\ IF delivered THEN sends' = [sends EXCEPT ![t] = @ + 1]
             ELSE c \in Flaky /\ sends' = sends
      BY <1>1, <1>2, <1>4 DEF Send
<1>6. sends' \in [Deliveries -> Nat] /\ Sent \subseteq Sent' /\ (delivered => t \in Sent')
  <2>1. PICK d \in Deliveries : d = t
        BY <1>4
  <2>2. sends \in [Deliveries -> Nat]
        BY DEF Inv, TypeOK
  <2>3. CASE delivered
    <3>1. sends' = [sends EXCEPT ![d] = @ + 1]
          BY <1>5, <2>1, <2>3
    <3> QED BY <2>1, <2>2, <3>1, SentGrows
  <2>4. CASE ~delivered
    <3>1. sends' = sends
          BY <1>5, <2>4
    <3> QED BY <2>2, <2>4, <3>1 DEF Sent
  <2> QED BY <2>3, <2>4
<1>7. Grows
      BY <1>6 DEF Grows, Send, topicVars, Inv, TypeOK, TopicTypeOK
<1>8. PICK new \in WorkerState :
          /\ worker' = [worker EXCEPT ![w] = new]
          /\ new.pc = IF old.rcp = Len(rcps) THEN "final" ELSE "send"
          /\ new.ch = old.ch /\ new.rcp = old.rcp + 1 /\ new.ok = (old.ok /\ delivered)
  <2> DEFINE next == [pc |-> IF old.rcp = Len(rcps) THEN "final" ELSE "send",
                      ch |-> old.ch, rcp |-> old.rcp + 1, ok |-> old.ok /\ delivered]
  <2>1. worker' = [worker EXCEPT ![w] = next]
        BY <1>2, <1>4, <1>5 DEF AfterSend
  <2>2. next \in WorkerState
        BY <1>3 DEF WorkerState, WorkerPcs
  <2>3. /\ next.pc = IF old.rcp = Len(rcps) THEN "final" ELSE "send"
        /\ next.ch = old.ch /\ next.rcp = old.rcp + 1 /\ next.ok = (old.ok /\ delivered)
        OBVIOUS
  <2> QED BY <2>1, <2>2, <2>3
<1>9. worker' \in [Workers -> WorkerState] /\ worker'[w] = new
      BY <1>8 DEF Inv, TypeOK
<1>10. InMessage(w)'
  <2>1. Current(w)' = id /\ session'[w] /\ position'[w] > 0
        BY <1>1, <1>3 DEF Current, InMessage, Send, topicVars
  <2>2. \A i \in 1 .. Len(chs) : i < old.ch => ChannelDone(id, chs[i])'
        BY <1>1, <1>2, <1>3, <1>7, GrowthKeeps DEF InMessage, Inv
  <2>3. IF new.ok THEN SentTo(id, c, old.rcp)' ELSE c \in Flaky
    <3>1. CASE new.ok
      <4>1. SentTo(id, c, old.rcp - 1)' /\ t \in Sent'
            BY <1>3, <1>6, <1>7, <1>8, <3>1, GrowthKeeps DEF Inv
      <4>2. \A j \in 1 .. old.rcp : j = old.rcp \/ j \in 1 .. old.rcp - 1
            BY <1>3
      <4>3. \A j \in 1 .. old.rcp : <<id, c, rcps[j]>> \in Sent'
            BY <4>1, <4>2 DEF SentTo
      <4> QED BY <3>1, <4>3 DEF SentTo
    <3>2. CASE ~new.ok
          BY <1>3, <1>5, <1>8, <3>2
    <3> QED BY <3>1, <3>2
  <2>4. CASE old.rcp = Len(rcps)
        BY <1>3, <1>8, <1>9, <2>1, <2>2, <2>3, <2>4 DEF InMessage
  <2>5. CASE old.rcp # Len(rcps)
    <3>1. /\ new.pc = "send" /\ new.ch = old.ch /\ new.rcp = old.rcp + 1
          /\ new.rcp <= Len(rcps) /\ new.rcp - 1 = old.rcp
          BY <1>3, <1>8, <2>5
    <3>2. IF new.ok THEN SentTo(id, c, new.rcp - 1)' ELSE c \in Flaky
          BY <2>3, <3>1
    <3> QED BY <1>3, <1>9, <2>1, <2>2, <3>1, <3>2 DEF InMessage
  <2> QED BY <2>4, <2>5
<1>11. StatusInv' /\ RowsInv'
       BY <1>7, StutterKeepsStatusInv, RowsKept DEF Send, Inv
<1>12. /\ worker[w].pc # "wait" /\ worker'[w].pc # "wait"
       /\ \A v \in Workers \ {w} : worker'[v] = worker[v]
       /\ faults' \in 0 .. MaxFaults
       /\ UNCHANGED <<topicVars, api, receipts>>
       BY <1>2, <1>3, <1>8, <1>9 DEF Send, NoFault, Inv, TypeOK
<1> QED BY <1>6, <1>7, <1>9, <1>10, <1>11, <1>12, OnOneWorker

-----------------------------------------------------------------------------
(***************************************************************************)
(* The steps that move offsets or sessions.                                *)
(***************************************************************************)
LEMMA OnOneSession ==
    ASSUME Inv, Grows, NEW w \in Workers,
           \A v \in Workers \ {w} : Still(v),
           SessionInv(w)', WorkInv(w)', CommittedIsDelivered',
           TypeOK', UNCHANGED <<statusVars, api>>
    PROVE  Inv'
<1>1. \A v \in Workers : SessionInv(v)' /\ WorkInv(v)'
      BY StillKeeps
<1>2. StatusInv' /\ RowsInv'
      BY StutterKeepsStatusInv, RowsKept DEF Inv
<1>3. AcceptedIsLogged'
      BY AcceptedKept
<1> QED BY <1>1, <1>2, <1>3 DEF Inv

\* The offsets of a worker, as natural numbers.
LEMMA OffsetFacts ==
    ASSUME Inv, NEW w \in Workers
    PROVE  /\ log \in Seq(Ids \cup {Junk}) /\ Len(log) \in Nat
           /\ position[w] \in 0 .. Len(log)
           /\ stored[w] \in -1 .. Len(log)
           /\ committed \in -1 .. Len(log)
           /\ session \in [Workers -> BOOLEAN]
           /\ position \in [Workers -> 0 .. Len(log)]
           /\ stored \in [Workers -> -1 .. Len(log)]
           /\ worker \in [Workers -> WorkerState]
BY KeysAssumption DEF Inv, TypeOK, TopicTypeOK

\* The message loop of a worker with nothing in hand has handled all it was given.
LEMMA WaitingIsHandled ==
    ASSUME Inv, NEW w \in Workers, session[w], worker[w].pc = "wait"
    PROVE  \A k \in 1 .. position[w] : Handled(k)
BY DEF Inv, SessionInv

LEMMA ReceiveKeepsInv ==
    ASSUME Inv, NEW w \in Workers, Receive(w)
    PROVE  Inv'
<1>1. Grows
      BY GrowsInPlace DEF TypeOK, Receive, Deliver, Inv
<1>n. PICK n \in Nat : n = position[w] + 1
      BY OffsetFacts
<1>2. /\ session[w] /\ worker[w].pc = "wait" /\ n \in 1 .. Len(log)
      /\ n = position[w] + 1
      /\ position' = [position EXCEPT ![w] = n]
      /\ UNCHANGED <<log, committed, owner, session>>
      BY <1>n, OffsetFacts DEF Receive, Deliver
<1>3. \A k \in 1 .. n : k < n => Handled(k)'
      BY <1>1, <1>2, OffsetFacts, WaitingIsHandled, GrowthKeeps DEF Inv
<1>4. \A k \in 1 .. stored[w] : Handled(k)'
      BY <1>1, <1>2, OffsetFacts, GrowthKeeps DEF Inv, SessionInv
<1>5. CASE log[n] = Junk
  <2>1. stored' = [stored EXCEPT ![w] = n] /\ worker' = worker
        BY <1>2, <1>5 DEF Receive
  <2>2. Handled(n)'
        BY <1>2, <1>5 DEF Handled
  <2>3. SessionInv(w)' /\ WorkInv(w)'
        BY <1>2, <1>3, <2>1, <2>2, OffsetFacts DEF SessionInv, WorkInv
  <2>4. TypeOK'
        BY SMTT(30), <1>2, <2>1, OffsetFacts, KeysAssumption
           DEF Receive, statusVars, NoFault, Inv, TypeOK, StatusTypeOK, TopicTypeOK
  <2>5. \A v \in Workers \ {w} : Still(v)
        BY <1>2, <2>1, OffsetFacts DEF Still
  <2> QED BY <1>1, <1>2, <2>3, <2>4, <2>5, CommittedKept, OnOneSession DEF Receive
<1>6. CASE log[n] # Junk
  <2>1. PICK id \in Ids : id = log[n]
        BY <1>2, <1>6, OffsetFacts
  <2> DEFINE chs == Request[id].channels
  <2>2. PICK new \in WorkerState :
            /\ new = AtChannel(1, Len(chs))
            /\ worker' = [worker EXCEPT ![w] = new]
            /\ stored' = stored
    <3>1. AtChannel(1, Len(chs)) \in WorkerState
          BY RequestFacts DEF AtChannel, WorkerState, WorkerPcs
    <3> QED BY <1>2, <1>6, <2>1, <3>1 DEF Receive
  <2>3. Current(w)' = id /\ position'[w] = n /\ worker'[w] = new
        BY <1>2, <2>1, <2>2, OffsetFacts DEF Current
  <2>4. /\ new.pc # "mark" => new.pc = "processing" /\ new.ch = 1 /\ 1 <= Len(chs)
        /\ new.pc = "mark" => ~ (1 <= Len(chs))
        BY <2>2 DEF AtChannel
  <2>5. InMessage(w)'
    <3>1. Len(chs) \in Nat
          BY RequestFacts
    <3> QED BY <1>2, <2>3, <2>4, <3>1 DEF InMessage
  <2>6. SessionInv(w)' /\ WorkInv(w)'
    <3>1. new.pc # "wait"
          BY <2>2 DEF AtChannel
    <3> QED BY <1>3, <1>4, <2>2, <2>3, <2>5, <3>1 DEF SessionInv, WorkInv
  <2>7. TypeOK'
        BY SMTT(30), <1>2, <2>2, OffsetFacts, KeysAssumption
           DEF Receive, statusVars, NoFault, Inv, TypeOK, StatusTypeOK, TopicTypeOK
  <2>8. \A v \in Workers \ {w} : Still(v)
        BY <1>2, <2>2, OffsetFacts DEF Still
  <2> QED BY <1>1, <1>2, <2>6, <2>7, <2>8, CommittedKept, OnOneSession DEF Receive
<1> QED BY <1>5, <1>6

LEMMA MarkMessageKeepsInv ==
    ASSUME Inv, NEW w \in Workers, MarkMessage(w)
    PROVE  Inv'
<1>1. Grows
      BY GrowsInPlace DEF TypeOK, MarkMessage, Store, Inv
<1>2. /\ stored' = [stored EXCEPT ![w] = position[w]]
      /\ worker' = [worker EXCEPT ![w] = Idle]
      /\ UNCHANGED <<log, committed, owner, session, position>>
      BY DEF MarkMessage, Store
<1>3. PICK id \in Ids : id = Current(w)
      BY InMessageFacts DEF MarkMessage
<1>4. session[w] /\ Owed[id] \subseteq Sent
  <2>1. InMessage(w) /\ worker[w].pc = "mark"
        BY InMessageFacts DEF MarkMessage
  <2>2. \A i \in 1 .. Len(Request[id].channels) : ChannelDone(id, Request[id].channels[i])
        BY <1>3, <2>1 DEF InMessage
  <2> QED BY <2>1, <2>2, AllDoneIsHandled DEF InMessage
<1>5. \A k \in 1 .. position[w] : Handled(k)'
  <2>1. Handled(position[w])
        BY <1>3, <1>4 DEF Handled, Current
  <2>2. \A k \in 1 .. position[w] : Handled(k)
        BY <1>4, <2>1, OffsetFacts DEF Inv, SessionInv
  <2> QED BY <1>1, <2>2, OffsetFacts, GrowthKeeps DEF Inv
<1>6. SessionInv(w)' /\ WorkInv(w)'
      BY <1>2, <1>5, OffsetFacts DEF SessionInv, WorkInv, Idle
<1>7. TypeOK'
  <2>1. StatusTypeOK'
        BY DEF MarkMessage, statusVars, Inv, TypeOK, StatusTypeOK
  <2>2. TopicTypeOK'
        BY <1>2, OffsetFacts DEF Inv, TypeOK, TopicTypeOK
  <2>3. worker' \in [Workers -> WorkerState]
        BY <1>2 DEF Inv, TypeOK, Idle, WorkerState, WorkerPcs
  <2> QED BY <2>1, <2>2, <2>3 DEF MarkMessage, NoFault, Inv, TypeOK
<1>8. \A v \in Workers \ {w} : Still(v)
      BY <1>2, OffsetFacts DEF Still
<1> QED BY <1>1, <1>2, <1>6, <1>7, <1>8, CommittedKept, OnOneSession DEF MarkMessage

LEMMA JoinGroupKeepsInv ==
    ASSUME Inv, NEW w \in Workers, JoinGroup(w)
    PROVE  Inv'
<1>1. Grows
      BY GrowsInPlace DEF TypeOK, JoinGroup, Assign, Begin, StartOffset, serviceVars, Inv
<1> DEFINE start == IF committed >= 0 THEN committed ELSE 0
<1>2. /\ owner' = w /\ session' = [session EXCEPT ![w] = TRUE]
      /\ position' = [position EXCEPT ![w] = start]
      /\ stored' = [stored EXCEPT ![w] = -1]
      /\ UNCHANGED <<log, committed, serviceVars, statusVars>>
      BY DEF JoinGroup, Assign, Begin, StartOffset
<1>3. start \in 0 .. Len(log) /\ \A k \in 1 .. start : k \in 1 .. committed
      BY OffsetFacts
<1>4. CommittedIsDelivered'
      BY <1>1, <1>2, CommittedKept
<1>5. \A k \in 1 .. start : Handled(k)'
      BY <1>2, <1>3, <1>4 DEF CommittedIsDelivered, Handled
<1>6. worker[w].pc = "wait"
      BY DEF JoinGroup, Assign, Begin, StartOffset, Inv, WorkInv, InMessage
<1>7. SessionInv(w)' /\ WorkInv(w)'
      BY <1>2, <1>5, <1>6, OffsetFacts DEF SessionInv, WorkInv, serviceVars
<1>8. TypeOK'
      BY SMTT(30), <1>2, <1>3, OffsetFacts, KeysAssumption
         DEF statusVars, serviceVars, Inv, TypeOK, StatusTypeOK, TopicTypeOK
<1>9. \A v \in Workers \ {w} : Still(v)
      BY <1>2, OffsetFacts DEF Still, serviceVars
<1> QED BY <1>1, <1>2, <1>4, <1>7, <1>8, <1>9, OnOneSession DEF serviceVars

LEMMA AutoCommitKeepsInv ==
    ASSUME Inv, NEW w \in Workers, AutoCommit(w)
    PROVE  Inv'
<1>1. Grows
      BY GrowsInPlace DEF TypeOK, AutoCommit, Commit, serviceVars, Inv
<1>2. /\ session[w] /\ committed' = stored[w] /\ stored[w] > committed
      /\ UNCHANGED <<log, owner, session, position, stored, serviceVars, statusVars>>
      BY DEF AutoCommit, Commit
<1>3. CommittedIsDelivered'
  <2>1. \A k \in 1 .. stored[w] : Handled(k)'
        BY <1>1, <1>2, OffsetFacts, GrowthKeeps DEF Inv, SessionInv
  <2> QED BY <1>2, <2>1 DEF CommittedIsDelivered, Handled
<1>4. TypeOK'
      BY <1>2, OffsetFacts, KeysAssumption
         DEF statusVars, serviceVars, Inv, TypeOK, StatusTypeOK, TopicTypeOK
<1>5. \A v \in Workers : Still(v)
      BY <1>2 DEF Still, serviceVars
<1> QED BY <1>1, <1>2, <1>3, <1>4, <1>5, StillKeeps, OnOneSession DEF serviceVars

LEMMA SessionEndsKeepsInv ==
    ASSUME Inv, NEW w \in Workers, SessionEnds(w)
    PROVE  Inv'
<1>1. Grows
      BY GrowsInPlace DEF TypeOK, SessionEnds, EndSession, Close, serviceVars, Inv
<1>2. /\ worker[w].pc = "wait" /\ session' = [session EXCEPT ![w] = FALSE]
      /\ position' = [position EXCEPT ![w] = 0] /\ stored' = [stored EXCEPT ![w] = -1]
      /\ UNCHANGED <<log, committed, owner, serviceVars, statusVars>>
      BY DEF SessionEnds, EndSession, Close
<1>3. SessionInv(w)' /\ WorkInv(w)'
      BY <1>2, OffsetFacts DEF SessionInv, WorkInv, serviceVars
<1>4. TypeOK'
      BY SMTT(30), <1>2, OffsetFacts, KeysAssumption
         DEF statusVars, serviceVars, Inv, TypeOK, StatusTypeOK, TopicTypeOK
<1>5. \A v \in Workers \ {w} : Still(v)
      BY <1>2, OffsetFacts DEF Still, serviceVars
<1> QED BY <1>1, <1>2, <1>3, <1>4, <1>5, CommittedKept, OnOneSession DEF serviceVars

LEMMA RebalanceKeepsInv ==
    ASSUME Inv, Rebalance
    PROVE  Inv'
<1>1. Grows
      BY GrowsInPlace DEF TypeOK, Rebalance, Revoke, Inv
<1>2. StatusInv' /\ RowsInv'
      BY <1>1, StutterKeepsStatusInv, RowsKept DEF Rebalance, Inv
<1>3. TypeOK'
      BY <1>2, FaultsAssumption
         DEF Rebalance, Revoke, Fault, Inv, TypeOK, StatusInv, TopicTypeOK
<1> QED BY <1>1, <1>2, <1>3, OffTheWorkers DEF Rebalance, Revoke

(***************************************************************************)
(* A crash: the worker forgets its message, the requests in progress their *)
(* place, and some callers of the status service what they have read.      *)
(***************************************************************************)
LEMMA CrashKeepsInv ==
    ASSUME Inv, NEW w \in Workers, Crash(w)
    PROVE  Inv'
<1>1. Grows
      BY GrowsInPlace DEF TypeOK, Crash, Leave, Close, Inv
<1>2. PICK lost \in SUBSET InProgress, hung \in SUBSET {h \in Hooks : call[h] # None} :
          /\ api' = [id \in Ids |-> IF id \in lost THEN "aborted" ELSE api[id]]
          /\ call' = [p \in Procs |-> IF p \in hung \cup {w} THEN None ELSE call[p]]
      BY DEF Crash
<1>3. /\ worker' = [worker EXCEPT ![w] = Idle]
      /\ session' = [session EXCEPT ![w] = FALSE]
      /\ owner' = IF owner = w THEN Nobody ELSE owner
      /\ position' = [position EXCEPT ![w] = 0] /\ stored' = [stored EXCEPT ![w] = -1]
      /\ UNCHANGED <<log, committed, table, sends, receipts>>
      BY DEF Crash, Leave, Close
<1>4. \A p \in Procs : call'[p] = call[p] \/ call'[p] = None
      BY <1>2
<1>5. StatusInv'
      BY <1>2, <1>3, <1>4 DEF Inv, StatusInv, StatusTypeOK, RowsConsistent, CallsConsistent
<1>6. RowsInv'
      BY <1>1, <1>3, <1>4, RowsAfterAbandon
<1>7. TypeOK'
  <2>1. api' \in [Ids -> ApiStates]
        BY <1>2 DEF Inv, TypeOK, ApiStates
  <2>2. Idle \in WorkerState
        BY DEF Idle, WorkerState, WorkerPcs
  <2>3. faults' \in 0 .. MaxFaults
        BY FaultsAssumption DEF Crash, Fault, Inv, TypeOK
  <2> QED BY SMTT(30), <1>3, <1>5, <2>1, <2>2, <2>3, OffsetFacts, KeysAssumption
          DEF Inv, TypeOK, StatusInv, TopicTypeOK
<1>8. SessionInv(w)' /\ WorkInv(w)'
      BY <1>3, OffsetFacts DEF SessionInv, WorkInv, Idle
<1>9. \A v \in Workers : SessionInv(v)' /\ WorkInv(v)'
  <2>1. \A v \in Workers \ {w} : Still(v)
        BY <1>3, OffsetFacts DEF Still
  <2> QED BY <1>1, <1>8, <2>1, StillKeeps
<1>10. CommittedIsDelivered'
       BY <1>1, <1>3, CommittedKept
<1>11. AcceptedIsLogged'
       BY <1>1, <1>2, AcceptedKept
<1> QED BY <1>5, <1>6, <1>7, <1>9, <1>10, <1>11 DEF Inv

-----------------------------------------------------------------------------
\* Inv holds at the start, and every step keeps it.
LEMMA InitInv == Init => Inv
<1> SUFFICES ASSUME Init
             PROVE  Inv
    OBVIOUS
<1>1. StatusInv /\ table = [id \in Ids |-> None] /\ call = [p \in Procs |-> None]
      BY InitStatusInv DEF Init, StatusInit
<1>2. TypeOK
      BY <1>1, FaultsAssumption
         DEF Init, TopicInit, TypeOK, StatusInv, TopicTypeOK, ApiStates, Idle, WorkerState, WorkerPcs
<1>3. RowsInv
      BY <1>1 DEF RowsInv
<1>4. CommittedIsDelivered /\ AcceptedIsLogged
      BY DEF Init, TopicInit, CommittedIsDelivered, AcceptedIsLogged
<1>5. \A w \in Workers : SessionInv(w) /\ WorkInv(w)
      BY DEF Init, TopicInit, SessionInv, WorkInv, Idle
<1> QED BY <1>1, <1>2, <1>3, <1>4, <1>5 DEF Inv

LEMMA NextKeepsInv == Inv /\ [Next]_vars => Inv'
<1> SUFFICES ASSUME Inv, [Next]_vars
             PROVE  Inv'
    OBVIOUS
<1>1. ASSUME NEW id \in Ids, Post(id) \/ ApiStep(id)
      PROVE  Inv'
      BY <1>1, PostKeepsInv, WriteInitialRowKeepsInv, SendMessageKeepsInv,
         SendMessageFailsKeepsInv DEF ApiStep
<1>2. ASSUME NEW w \in Workers, WorkerStep(w)
      PROVE  Inv'
      BY <1>2, ReceiveKeepsInv, WorkerReadKeepsInv, WorkerSaveKeepsInv,
         WorkerUpdateFailsKeepsInv, SendKeepsInv, MarkMessageKeepsInv DEF WorkerStep
<1>3. ASSUME NEW w \in Workers, GroupStep(w) \/ Crash(w)
      PROVE  Inv'
      BY <1>3, JoinGroupKeepsInv, AutoCommitKeepsInv, SessionEndsKeepsInv, CrashKeepsInv
         DEF GroupStep
<1>4. ASSUME NEW h \in Hooks, HookStep(h)
      PROVE  Inv'
      BY <1>4, HandleWebhookKeepsInv, HookSaveKeepsInv DEF HookStep
<1>5. CASE Rebalance \/ ForeignMessage
      BY <1>5, RebalanceKeepsInv, ForeignMessageKeepsInv
<1>6. CASE UNCHANGED vars
  <2>1. UNCHANGED <<statusVars, topicVars, serviceVars>>
        BY <1>6 DEF vars
  <2>2. Grows
        BY <2>1, GrowsInPlace DEF TypeOK, topicVars, serviceVars, Inv
  <2>3. StatusInv' /\ RowsInv'
        BY <2>1, <2>2, StutterKeepsStatusInv, RowsKept DEF Inv
  <2>4. TypeOK'
        BY <2>1, <2>3, TopicTypeKept DEF serviceVars, Inv, TypeOK, StatusInv
  <2> QED BY <2>1, <2>2, <2>3, <2>4, OffTheWorkers DEF topicVars, serviceVars
<1> QED BY <1>1, <1>2, <1>3, <1>4, <1>5, <1>6 DEF Next

\* The inductive invariant of the Go service (Inv), behind all that follows.
THEOREM InvHolds == Spec => []Inv
BY InitInv, NextKeepsInv, PTL DEF Spec

(***************************************************************************)
(* Every variable keeps its type: no offset passes the end of the log, no  *)
(* update is in progress for a channel or a status that does not exist.    *)
(***************************************************************************)
THEOREM TypesHold == Spec => []TypeOK
<1>1. Inv => TypeOK
      BY DEF Inv
<1> QED BY <1>1, InvHolds, PTL

(***************************************************************************)
(* At-least-once: whatever crashes, rebalances and lost acknowledgements   *)
(* there are, the group acknowledges a message only when all that is owed  *)
(* for it has been sent.                                                   *)
(***************************************************************************)
THEOREM CommittedMessagesAreDelivered == Spec => []CommittedIsDelivered
<1>1. Inv => CommittedIsDelivered
      BY DEF Inv
<1> QED BY <1>1, InvHolds, PTL

(***************************************************************************)
(* A notification the API has answered 202 for is delivered, or is in the  *)
(* topic behind the committed offset.                                      *)
(***************************************************************************)
THEOREM AcceptedNotificationsAreNotLost == Spec => []AcceptedIsNotLost
<1>1. Inv => AcceptedIsNotLost
  <2> SUFFICES ASSUME Inv, NEW id \in Ids, api[id] = "accepted"
               PROVE  \/ Owed[id] \subseteq Sent
                      \/ \E k \in 1 .. Len(log) : k > committed /\ log[k] = id
      BY DEF AcceptedIsNotLost
  <2>1. PICK k \in 1 .. Len(log) : log[k] = id
        BY DEF Inv, AcceptedIsLogged, Logged
  <2>2. committed \in -1 .. Len(log) /\ id # Junk
        BY KeysAssumption, JunkAssumption DEF Inv, TypeOK, TopicTypeOK
  <2>3. k \in 1 .. committed => Owed[id] \subseteq Sent
        BY <2>1, <2>2 DEF Inv, CommittedIsDelivered
  <2> QED BY <2>1, <2>2, <2>3
<1> QED BY <1>1, InvHolds, PTL

(***************************************************************************)
(* A channel that /status shows as completed has reached every recipient,  *)
(* unless a provider's callback said so; a COMPLETED notification is       *)
(* completed in every channel of its request.                              *)
(***************************************************************************)
THEOREM CompletedRowsAreTrue == Spec => []CompletedIsTrue
<1>1. Inv => CompletedIsTrue
  <2> SUFFICES ASSUME Inv, NEW id \in Ids, table[id] # None
               PROVE  LET done == {c \in Channels : table[id].channels[c] \in Completed}
                      IN  /\ \A t \in Requested[id] :
                                 t[2] \in done => t \in Sent \/ Reported(id, t[2])
                          /\ table[id].status = "COMPLETED" =>
                                 ToSet(Request[id].channels) \subseteq done
      BY DEF CompletedIsTrue
  <2>1. RowIsTrue(id, table[id]) /\ Consistent(table[id])
        BY DEF Inv, RowsInv, StatusInv, RowsConsistent
  <2>2. ASSUME table[id].status = "COMPLETED", NEW c \in ToSet(Request[id].channels)
        PROVE  table[id].channels[c] \in Completed
    <3>1. c \in Channels /\ table[id].channels[c] # "ABSENT"
          BY <2>1, RequestFacts DEF RowIsTrue
    <3> QED BY <2>1, <2>2, <3>1 DEF Consistent, RowConsistent, Present
  <2> QED BY <2>1, <2>2, RequestFacts DEF RowIsTrue
<1> QED BY <1>1, InvHolds, PTL

(***************************************************************************)
(* No row contradicts itself, in the whole service as in the status        *)
(* service on its own.                                                     *)
(***************************************************************************)
THEOREM ServiceRowsStayConsistent == Spec => []RowsConsistent
<1>1. Inv => RowsConsistent
      BY DEF Inv, StatusInv
<1> QED BY <1>1, InvHolds, PTL

(***************************************************************************)
(* What GET /metrics answers is exact in every state of the service.       *)
(***************************************************************************)
THEOREM ServiceMetricsStayExact == Spec => []MetricsExact
<1>1. Inv => MetricsExact
      BY RowsAreCounted DEF Inv, StatusInv
<1> QED BY <1>1, InvHolds, PTL

-----------------------------------------------------------------------------
(***************************************************************************)
(* The row comes first.  A handler that is about to produce has written    *)
(* the row, unless the database failed it; no statement removes a row.     *)
(***************************************************************************)
HasRow(id) == api[id] = "produce" \/ Logged(id) => table[id] # None

RowOrder == "db" \notin FaultKinds => \A id \in Ids : HasRow(id)

\* A row is never deleted.
LEMMA RowsStay ==
    ASSUME Inv, [Next]_vars, NEW id \in Ids, table[id] # None
    PROVE  table'[id] # None
<1>1. CASE table' = table
      BY <1>1
<1>2. ASSUME NEW i \in Ids, NEW chans, CreateInitialStatus(i, chans)
      PROVE  table'[id] # None
      BY <1>2 DEF CreateInitialStatus, Inv, TypeOK, StatusTypeOK
<1>3. ASSUME NEW p \in Procs, UpdateSave(p)
      PROVE  table'[id] # None
  <2>1. call[p] \in Call /\ call[p].row # None
        BY <1>3, NoneAssumption DEF UpdateSave, Inv, TypeOK, StatusTypeOK, Call
  <2> QED BY <1>3, <2>1 DEF UpdateSave, Inv, TypeOK, StatusTypeOK
<1>4. \/ table' = table
      \/ \E i \in Ids, chans \in SUBSET Channels : CreateInitialStatus(i, chans)
      \/ \E p \in Procs : UpdateSave(p)
  <2>1. ASSUME NEW i \in Ids, Post(i) \/ ApiStep(i)
        PROVE  \/ table' = table
               \/ \E j \in Ids, chans \in SUBSET Channels : CreateInitialStatus(j, chans)
        BY <2>1, RequestFacts
           DEF ApiStep, Post, WriteInitialRow, SendMessage, SendMessageFails, statusVars
  <2>2. ASSUME NEW w \in Workers, WorkerStep(w)
        PROVE  table' = table \/ UpdateSave(w)
        BY <2>2 DEF WorkerStep, Receive, WorkerRead, UpdateRead, WorkerSave, WorkerUpdateFails,
                    UpdateAbandon, Send, MarkMessage, statusVars
  <2>3. ASSUME NEW w \in Workers, GroupStep(w) \/ Crash(w)
        PROVE  table' = table
        BY <2>3 DEF GroupStep, JoinGroup, AutoCommit, SessionEnds, Crash, statusVars
  <2>4. ASSUME NEW h \in Hooks, HookStep(h)
        PROVE  table' = table \/ UpdateSave(h)
        BY <2>4 DEF HookStep, HandleWebhook, UpdateRead, HookSave, HookSaveFails, UpdateAbandon
  <2>5. CASE Rebalance \/ ForeignMessage \/ UNCHANGED vars
        BY <2>5 DEF Rebalance, ForeignMessage, vars, statusVars
  <2> QED BY <2>1, <2>2, <2>3, <2>4, <2>5, ProcsAssumption DEF Next
<1> QED BY <1>1, <1>2, <1>3, <1>4

(***************************************************************************)
(* Only a handler that is about to produce puts its notification into the  *)
(* log, and it gets there only with its row written or the write failed.   *)
(***************************************************************************)
LEMMA WhoProduces ==
    ASSUME Inv, [Next]_vars
    PROVE  /\ \/ log' = log
              \/ \E m \in Ids \cup {Junk} :
                     (m = Junk \/ api[m] = "produce") /\ (Append1(m) \/ Append2(m))
           /\ \A id \in Ids :
                  api'[id] = "produce" => api[id] = "produce" \/ WriteInitialRow(id)
<1>1. ASSUME NEW i \in Ids, Post(i) \/ ApiStep(i)
      PROVE  /\ log' = log \/ (api[i] = "produce" /\ (Append1(i) \/ Append2(i)))
             /\ \A id \in Ids :
                    api'[id] = "produce" => api[id] = "produce" \/ WriteInitialRow(id)
  <2>1. log' = log \/ (api[i] = "produce" /\ (Append1(i) \/ Append2(i)))
        BY <1>1 DEF ApiStep, Post, WriteInitialRow, SendMessage, SendMessageFails, topicVars
  <2>2. WriteInitialRow(i) \/ \E s \in ApiStates \ {"produce"} : SetApi(i, s)
        BY <1>1 DEF ApiStep, Post, SendMessage, SendMessageFails, ApiStates
  <2>3. \A id \in Ids : api'[id] = "produce" => api[id] = "produce" \/ WriteInitialRow(id)
    <3>1. \E s \in ApiStates : SetApi(i, s)
          BY <1>1 DEF ApiStep, Post, WriteInitialRow, SendMessage, SendMessageFails, ApiStates
    <3>2. \A id \in Ids : id # i => api'[id] = api[id]
          BY <3>1 DEF SetApi, Inv, TypeOK
    <3>3. api'[i] = "produce" => WriteInitialRow(i)
          BY <2>2 DEF SetApi, Inv, TypeOK
    <3> QED BY <3>2, <3>3
  <2> QED BY <2>1, <2>3
<1>2. ASSUME NEW w \in Workers, WorkerStep(w)
      PROVE  log' = log /\ api' = api
      BY <1>2 DEF WorkerStep, Receive, Deliver, WorkerRead, WorkerSave, WorkerUpdateFails, Send,
                  MarkMessage, Store, topicVars
<1>3. ASSUME NEW w \in Workers, GroupStep(w)
      PROVE  log' = log /\ api' = api
      BY <1>3 DEF GroupStep, JoinGroup, Assign, Begin, AutoCommit, Commit, SessionEnds, EndSession,
                  Close, serviceVars
<1>4. ASSUME NEW w \in Workers, Crash(w)
      PROVE  log' = log /\ \A id \in Ids : api'[id] = "produce" => api[id] = "produce"
      BY <1>4 DEF Crash, Leave, Close
<1>5. ASSUME NEW h \in Hooks, HookStep(h)
      PROVE  log' = log /\ api' = api
      BY <1>5 DEF HookStep, HandleWebhook, HookSave, HookSaveFails, topicVars, serviceVars
<1>6. CASE Rebalance \/ UNCHANGED vars
      BY <1>6 DEF Rebalance, Revoke, vars, topicVars, serviceVars
<1>7. CASE ForeignMessage
      BY <1>7 DEF ForeignMessage
<1> QED BY <1>1, <1>2, <1>3, <1>4, <1>5, <1>6, <1>7 DEF Next

\* A message is sent when its row is there, and rows stay.
LEMMA NextKeepsRowOrder ==
    ASSUME Inv, RowOrder, [Next]_vars
    PROVE  RowOrder'
<1> SUFFICES ASSUME "db" \notin FaultKinds, NEW id \in Ids,
                    api'[id] = "produce" \/ Logged(id)'
             PROVE  table'[id] # None
    BY DEF RowOrder, HasRow
<1>1. HasRow(id)
      BY DEF RowOrder
<1>2. CASE WriteInitialRow(id)
  <2>1. CreateInitialStatus(id, ToSet(Request[id].channels))
        BY <1>2 DEF WriteInitialRow, Fault
  <2>2. InitialRow(ToSet(Request[id].channels)) # None
        BY InitialRowIsConsistent, RequestFacts, NoneAssumption
  <2> QED BY <2>1, <2>2 DEF CreateInitialStatus, Inv, TypeOK, StatusTypeOK
<1>3. CASE ~ WriteInitialRow(id)
  <2>1. Logged(id)' => Logged(id) \/ api[id] = "produce"
    <3>1. CASE log' = log
          BY <3>1 DEF Logged
    <3>2. ASSUME NEW m \in Ids \cup {Junk}, m = Junk \/ api[m] = "produce",
                 Append1(m) \/ Append2(m)
          PROVE  Logged(id)' => Logged(id) \/ api[id] = "produce"
      <4>1. Logged(id)' => Logged(id) \/ id = m
            BY <3>2, AppendFacts DEF Inv, TypeOK
      <4>2. id # Junk
            BY KeysAssumption, JunkAssumption
      <4> QED BY <3>2, <4>1, <4>2
    <3> QED BY <3>1, <3>2, WhoProduces
  <2>2. api[id] = "produce" \/ Logged(id)
        BY <1>3, <2>1, WhoProduces
  <2> QED BY <1>1, <2>2, RowsStay DEF HasRow
<1> QED BY <1>2, <1>3

\* A notification on the topic, in a worker's hands or in an update has its row
\* (RowOrder) if the database has not failed it: /notify writes the row first.
THEOREM RowOrderHolds == Spec => []RowOrder
<1>1. Init => RowOrder
  <2> SUFFICES ASSUME Init, NEW id \in Ids
               PROVE  HasRow(id)
      BY DEF RowOrder
  <2>1. Len(log) = 0 /\ api[id] = "idle"
        BY EmptySeq DEF Init, TopicInit
  <2> QED BY <2>1 DEF HasRow, Logged
<1>2. Inv /\ RowOrder /\ [Next]_vars => RowOrder'
      BY NextKeepsRowOrder
<1> QED BY <1>1, <1>2, InvHolds, PTL DEF Spec

(***************************************************************************)
(* Unless the database fails, there is a row for each notification in the  *)
(* topic (RowPrecedesMessage), whatever crashes come between the two.      *)
(***************************************************************************)
THEOREM RowsPrecedeMessages == Spec => []RowPrecedesMessage
<1>1. RowOrder => RowPrecedesMessage
      BY DEF RowOrder, HasRow, RowPrecedesMessage
<1> QED BY <1>1, RowOrderHolds, PTL

-----------------------------------------------------------------------------
(***************************************************************************)
(* What is acknowledged is final.  While the database answers and no       *)
(* worker loses its partition, and until a provider calls, the owner of    *)
(* the partition is alone with the rows of the topic: what it saves is     *)
(* what it has read with its own change.                                   *)
(***************************************************************************)
Quiet == {"db", "rebalance"} \cap FaultKinds = {} /\ receipts = {}

RowSettled(id) ==
    \A i \in 1 .. Len(Request[id].channels) :
        table[id].channels[Request[id].channels[i]] \in FinalStatus(Request[id].channels[i])

\* The row of a message that is not followed by another copy is settled.
LastCopy(k) == log[k] # Junk /\ \A j \in 1 .. Len(log) : j > k => log[j] # log[k]
Closed(k) == LastCopy(k) => RowSettled(log[k])

Alone(w) ==
    session[w] =>
        /\ owner = w
        /\ committed <= position[w] /\ stored[w] <= position[w]
        /\ worker[w].pc # "wait" => committed < position[w] /\ stored[w] < position[w]

Carries(w) ==
    call[w] # None =>
        /\ worker[w].pc \in {"processing", "final"}
        /\ call[w].id = Current(w)
        /\ call[w].row = WithChannel(table[Current(w)], WorkerChannel(w), StatusToReport(w))

\* The channels that w is done with are final, but for one that it has just
\* begun to work on again, as the request names it twice.
Reports(w) ==
    LET id  == Current(w)
        chs == Request[id].channels
        v   == worker[w]
    IN  v.pc # "wait" =>
            /\ v.pc = "final" /\ v.ok => chs[v.ch] \in Supported
            /\ \A i \in 1 .. Len(chs) :
                   i < v.ch \/ v.pc = "mark" =>
                       \/ table[id].channels[chs[i]] \in FinalStatus(chs[i])
                       \/ v.pc \in {"send", "final"} /\ chs[i] = chs[v.ch]

LoopClosed(w) ==
    session[w] =>
        \A k \in 1 .. position[w] : k < position[w] \/ worker[w].pc = "wait" => Closed(k)

QuietWorker(w) == Alone(w) /\ Carries(w) /\ Reports(w) /\ LoopClosed(w)

QuietInv ==
    /\ \A h \in Hooks : call[h] = None
    /\ \A k \in 1 .. committed : Closed(k)
    /\ \A w \in Workers : QuietWorker(w)

FinalInv == Quiet => QuietInv

\* A worker that is not waiting has a session and a notification in hand.
LEMMA QuietFacts ==
    ASSUME Inv, NEW w \in Workers, worker[w].pc # "wait"
    PROVE  /\ session[w] /\ position[w] \in 1 .. Len(log)
           /\ Current(w) \in Ids /\ Logged(Current(w)) /\ Current(w) = log[position[w]]
<1>1. InMessage(w) /\ Current(w) \in Ids
      BY InMessageFacts
<1>2. position[w] \in 1 .. Len(log)
      BY <1>1, OffsetFacts DEF InMessage
<1> QED BY <1>1, <1>2 DEF InMessage, Logged, Current

(***************************************************************************)
(* A message stays closed while the row of its notification stays.         *)
(***************************************************************************)
LEMMA ClosedKept ==
    ASSUME Inv, Grows, NEW k \in 1 .. Len(log), Closed(k),
           LastCopy(k) /\ log[k] \in Ids => table'[log[k]] = table[log[k]]
    PROVE  Closed(k)'
<1>1. /\ Len(log) \in Nat /\ log[k] \in Ids \cup {Junk}
      /\ log'[k] = log[k]
      BY OffsetFacts, KeysAssumption DEF Grows, Inv, TypeOK, TopicTypeOK
<1>2. LastCopy(k)' => LastCopy(k)
      BY <1>1 DEF LastCopy, Grows
<1>3. ASSUME LastCopy(k)'
      PROVE  RowSettled(log[k])'
  <2>1. log[k] \in Ids /\ RowSettled(log[k]) /\ table'[log[k]] = table[log[k]]
        BY <1>1, <1>2, <1>3 DEF Closed, LastCopy
  <2> QED BY <1>1, <2>1 DEF RowSettled
<1> QED BY <1>1, <1>3 DEF Closed

(***************************************************************************)
(* What is closed for a loop, and for the group, stays closed while the    *)
(* rows of logged notifications stay.                                      *)
(***************************************************************************)
LEMMA LoopKept ==
    ASSUME Inv, Grows, NEW w \in Workers, LoopClosed(w), Still(w),
           \A id \in Ids : Logged(id) => table'[id] = table[id]
    PROVE  LoopClosed(w)'
<1> SUFFICES ASSUME session[w], NEW k \in 1 .. position[w],
                    k < position[w] \/ worker[w].pc = "wait"
             PROVE  Closed(k)'
    BY DEF LoopClosed, Still
<1>1. k \in 1 .. Len(log) /\ Closed(k)
      BY OffsetFacts DEF LoopClosed
<1>2. log[k] \in Ids => table'[log[k]] = table[log[k]]
      BY <1>1 DEF Logged
<1> QED BY <1>1, <1>2, ClosedKept

\* Committed rows stay final while no row of a logged notification changes.
LEMMA CommittedStayClosed ==
    ASSUME Inv, Grows, \A k \in 1 .. committed : Closed(k),
           \A id \in Ids : Logged(id) => table'[id] = table[id]
    PROVE  \A k \in 1 .. committed : Closed(k)'
<1> SUFFICES ASSUME NEW k \in 1 .. committed
             PROVE  Closed(k)'
    OBVIOUS
<1>1. k \in 1 .. Len(log) /\ Closed(k)
      BY DEF Inv, TypeOK, TopicTypeOK
<1>2. log[k] \in Ids => table'[log[k]] = table[log[k]]
      BY <1>1 DEF Logged
<1> QED BY <1>1, <1>2, ClosedKept

(***************************************************************************)
(* A worker that nothing happens to stays as it was if the rows do.        *)
(***************************************************************************)
LEMMA QuietWorkerKept ==
    ASSUME Inv, Grows, NEW w \in Workers, QuietWorker(w), Still(w), call'[w] = call[w],
           committed' = committed, session[w] => owner' = owner,
           \A id \in Ids : Logged(id) => table'[id] = table[id]
    PROVE  QuietWorker(w)'
<1>1. Alone(w)'
      BY DEF QuietWorker, Alone, Still
<1>2. CASE worker[w].pc = "wait"
  <2>1. Carries(w)' /\ Reports(w)'
        BY <1>2 DEF QuietWorker, Carries, Reports, Still
  <2> QED BY <1>1, <2>1, LoopKept DEF QuietWorker
<1>3. CASE worker[w].pc # "wait"
  <2>1. PICK id \in Ids : id = Current(w) /\ Current(w)' = id /\ table'[id] = table[id]
        BY <1>3, QuietFacts DEF Grows, Current, Still
  <2>2. Carries(w)'
        BY <2>1 DEF QuietWorker, Carries, Still, WorkerChannel, WorkerChannels, StatusToReport
  <2>3. Reports(w)'
        BY <2>1 DEF QuietWorker, Reports, Still
  <2> QED BY <1>1, <2>2, <2>3, LoopKept DEF QuietWorker
<1> QED BY <1>2, <1>3

(***************************************************************************)
(* So is a worker that has nothing, before and after.                      *)
(***************************************************************************)
LEMMA RestingWorker ==
    ASSUME Inv, NEW w \in Workers, worker'[w].pc = "wait", ~ session'[w], call'[w] = None
    PROVE  QuietWorker(w)'
BY DEF QuietWorker, Alone, Carries, Reports, LoopClosed

(***************************************************************************)
(* The others have nothing while w has a session.                          *)
(***************************************************************************)
LEMMA OthersRest ==
    ASSUME Inv, QuietInv, NEW w \in Workers, session[w], NEW v \in Workers, v # w
    PROVE  ~ session[v] /\ worker[v].pc = "wait" /\ call[v] = None
<1>1. Alone(w) /\ Alone(v) /\ Carries(v)
      BY DEF QuietInv, QuietWorker
<1>2. ~ session[v]
      BY <1>1 DEF Alone
<1>3. worker[v].pc = "wait"
      BY <1>2, QuietFacts
<1> QED BY <1>1, <1>2, <1>3 DEF Carries

\* With the partition free nothing is in anybody's hands, and no update is open.
LEMMA NobodyRuns ==
    ASSUME Inv, QuietInv, owner = Nobody, NEW v \in Workers
    PROVE  ~ session[v] /\ worker[v].pc = "wait" /\ call[v] = None
<1>1. Alone(v) /\ Carries(v)
      BY DEF QuietInv, QuietWorker
<1>2. ~ session[v]
      BY <1>1, NobodyAssumption DEF Alone
<1>3. worker[v].pc = "wait"
      BY <1>2, QuietFacts
<1> QED BY <1>1, <1>2, <1>3 DEF Carries

(***************************************************************************)
(* A step outside the loops.                                               *)
(***************************************************************************)
LEMMA QuietElsewhere ==
    ASSUME Inv, Grows, QuietInv,
           UNCHANGED <<call, committed, owner, session, position, stored, worker>>,
           \A id \in Ids : Logged(id) => table'[id] = table[id]
    PROVE  QuietInv'
<1>1. \A w \in Workers : QuietWorker(w)'
      BY QuietWorkerKept DEF QuietInv, Still
<1>2. \A k \in 1 .. committed : Closed(k)'
      BY CommittedStayClosed DEF QuietInv
<1> QED BY <1>1, <1>2 DEF QuietInv

(***************************************************************************)
(* A step of the one loop that runs.                                       *)
(***************************************************************************)
LEMMA QuietLoop ==
    ASSUME Inv, QuietInv, NEW w \in Workers, session[w] \/ owner = Nobody,
           \A v \in Workers \ {w} : Still(v) /\ call'[v] = call[v],
           \A h \in Hooks : call'[h] = call[h],
           \A k \in 1 .. committed' : Closed(k)',
           QuietWorker(w)'
    PROVE  QuietInv'
<1>1. ASSUME NEW v \in Workers, v # w
      PROVE  QuietWorker(v)'
  <2>1. ~ session[v] /\ worker[v].pc = "wait" /\ call[v] = None
    <3>1. CASE session[w]
          BY <1>1, <3>1, OthersRest
    <3>2. CASE owner = Nobody
          BY <3>2, NobodyRuns
    <3> QED BY <3>1, <3>2
  <2> QED BY <1>1, <2>1, RestingWorker DEF Still
<1>2. \A v \in Workers : QuietWorker(v)'
      BY <1>1
<1>3. \A h \in Hooks : call'[h] = None
      BY DEF QuietInv
<1> QED BY <1>2, <1>3 DEF QuietInv

-----------------------------------------------------------------------------
(***************************************************************************)
(* The steps of the loop.  The hypotheses say that the step is one of a    *)
(* quiet behaviour, and that rows precede messages in it.                  *)
(***************************************************************************)
LEMMA ReceiveKeepsQuiet ==
    ASSUME Inv, QuietInv, NEW w \in Workers, Receive(w)
    PROVE  QuietInv'
<1>1. Grows
      BY GrowsInPlace DEF TypeOK, Receive, Deliver, Inv
<1>2. PICK n \in 1 .. Len(log) : n = position[w] + 1
      BY OffsetFacts DEF Receive, Deliver
<1>3. /\ session[w] /\ worker[w].pc = "wait" /\ position[w] \in 0 .. Len(log)
      /\ position' = [position EXCEPT ![w] = n] /\ position'[w] = n
      /\ UNCHANGED <<log, committed, owner, session, table, call>>
      BY <1>2, OffsetFacts DEF Receive, Deliver, statusVars
<1>4. QuietWorker(w) /\ call[w] = None
      BY <1>3 DEF QuietInv, QuietWorker, Carries
<1>5. \A k \in 1 .. Len(log) : Closed(k) => Closed(k)'
      BY <1>1, <1>3, ClosedKept
<1>6. \A k \in 1 .. n : k < n => Closed(k)'
      BY <1>2, <1>3, <1>4, <1>5, OffsetFacts DEF QuietWorker, LoopClosed
<1>7. \A k \in 1 .. committed' : Closed(k)'
      BY <1>1, <1>3, CommittedStayClosed DEF QuietInv
<1>8. QuietWorker(w)'
  <2>1. committed < n /\ stored[w] < n
        BY <1>2, <1>3, <1>4, OffsetFacts DEF QuietWorker, Alone
  <2>2. CASE log[n] = Junk
    <3>1. stored'[w] = n /\ worker' = worker
          BY <1>2, <1>3, <2>2, OffsetFacts DEF Receive
    <3>2. Closed(n)'
          BY <1>3, <2>2 DEF Closed, LastCopy
    <3>3. Alone(w)'
          BY <1>2, <1>3, <1>4, <2>1, <3>1, OffsetFacts DEF QuietWorker, Alone
    <3>4. Carries(w)' /\ Reports(w)'
          BY <1>3, <1>4, <3>1 DEF Carries, Reports
    <3>5. LoopClosed(w)'
          BY <1>2, <1>3, <1>6, <3>2 DEF LoopClosed
    <3> QED BY <3>3, <3>4, <3>5 DEF QuietWorker
  <2>3. CASE log[n] # Junk
    <3>1. PICK id \in Ids : id = log[n]
          BY <2>3, OffsetFacts, KeysAssumption DEF Inv, TypeOK, TopicTypeOK
    <3>2. PICK new : /\ new = AtChannel(1, Len(Request[id].channels))
                     /\ worker'[w] = new /\ stored' = stored
          BY <1>2, <1>3, <2>3, <3>1, OffsetFacts DEF Receive
    <3>3. /\ new.pc \in {"processing", "mark"} /\ new.ch = 1
          /\ new.pc = "mark" => ~ (1 <= Len(Request[id].channels))
          BY <3>2 DEF AtChannel
    <3>4. Current(w)' = id /\ Len(Request[id].channels) \in Nat
          BY <1>3, <3>1, RequestFacts DEF Current
    <3>5. Reports(w)'
          BY <3>2, <3>3, <3>4 DEF Reports
    <3>6. Alone(w)'
          BY <1>2, <1>3, <1>4, <2>1, <3>2, OffsetFacts DEF QuietWorker, Alone
    <3>7. Carries(w)' /\ LoopClosed(w)'
          BY <1>3, <1>4, <1>6, <3>2, <3>3 DEF Carries, LoopClosed
    <3> QED BY <3>5, <3>6, <3>7 DEF QuietWorker
  <2> QED BY <2>2, <2>3
<1>9. \A v \in Workers \ {w} : Still(v) /\ call'[v] = call[v]
      BY <1>3, OffsetFacts DEF Still, Receive
<1> QED BY <1>3, <1>7, <1>8, <1>9, QuietLoop

LEMMA WorkerReadKeepsQuiet ==
    ASSUME Inv, QuietInv, NEW w \in Workers, WorkerRead(w)
    PROVE  QuietInv'
<1>1. Grows
      BY GrowsInPlace DEF TypeOK, WorkerRead, Inv, topicVars
<1>2. /\ UNCHANGED <<topicVars, worker, table>> /\ call[w] = None
      /\ worker[w].pc \in {"processing", "final"} /\ session[w]
      BY QuietFacts DEF WorkerRead, UpdateRead
<1>3. /\ \A p \in Procs : p # w => call'[p] = call[p]
      /\ call'[w] = [id |-> Current(w), row |-> WithChannel(table[Current(w)], WorkerChannel(w), StatusToReport(w))]
      BY ProcsAssumption DEF WorkerRead, UpdateRead, Inv, TypeOK, StatusTypeOK
<1>4. /\ Current(w)' = Current(w) /\ WorkerChannel(w)' = WorkerChannel(w)
      /\ StatusToReport(w)' = StatusToReport(w)
      BY <1>2 DEF Current, WorkerChannel, WorkerChannels, StatusToReport, topicVars
<1>5. Carries(w)'
      BY <1>2, <1>3, <1>4 DEF Carries
<1>6. Alone(w)' /\ Reports(w)' /\ LoopClosed(w)'
  <2>1. LoopClosed(w)'
        BY <1>1, <1>2, LoopKept DEF QuietInv, QuietWorker, Still, topicVars
  <2> QED BY <1>2, <1>4, <2>1 DEF QuietInv, QuietWorker, Alone, Reports, topicVars
<1>7. \A k \in 1 .. committed' : Closed(k)'
      BY <1>1, <1>2, CommittedStayClosed DEF QuietInv, topicVars
<1>8. /\ \A v \in Workers \ {w} : Still(v) /\ call'[v] = call[v]
      /\ \A h \in Hooks : call'[h] = call[h]
      BY <1>2, <1>3, ProcsAssumption DEF Still, topicVars
<1> QED BY <1>2, <1>5, <1>6, <1>7, <1>8, QuietLoop DEF QuietWorker

(***************************************************************************)
(* There is a row for the message in hand.                                 *)
(***************************************************************************)
LEMMA RowThere ==
    ASSUME Inv, RowOrder, Quiet, NEW w \in Workers, worker[w].pc # "wait"
    PROVE  table[Current(w)] # None /\ table[Current(w)] \in Row
<1>1. Current(w) \in Ids /\ Logged(Current(w))
      BY QuietFacts
<1>2. table[Current(w)] # None
      BY <1>1 DEF RowOrder, HasRow, Quiet
<1> QED BY <1>1, <1>2 DEF Inv, TypeOK, StatusTypeOK

(***************************************************************************)
(* The save is where a row is settled, channel by channel.  It touches one *)
(* row, that of the message in hand, and no other message whose row must   *)
(* be settled by now has the same id: it would not be the last copy.       *)
(***************************************************************************)
LEMMA WorkerSaveKeepsQuiet ==
    ASSUME Inv, RowOrder, Quiet, QuietInv, NEW w \in Workers, WorkerSave(w)
    PROVE  QuietInv'
<1>1. Grows
      BY GrowsInPlace DEF TypeOK, WorkerSave, Inv, topicVars
<1>2. PICK id \in Ids : id = Current(w) /\ id = log[position[w]]
      BY QuietFacts DEF WorkerSave
<1>3. PICK old \in WorkerState : old = worker[w]
      BY InMessageFacts DEF WorkerSave
<1> DEFINE chs == Request[id].channels
           c == chs[old.ch]
<1>4. /\ old.pc \in {"processing", "final"} /\ session[w]
      /\ position[w] \in 1 .. Len(log) /\ Len(log) \in Nat
      /\ old.ch \in 1 .. Len(chs) /\ Len(chs) \in Nat /\ c \in Channels
      /\ \A i \in 1 .. Len(chs) : chs[i] \in Channels
      /\ WorkerChannel(w) = c
      BY <1>2, <1>3, QuietFacts, InMessageFacts, RequestFacts, OffsetFacts
         DEF WorkerSave, WorkerChannels, WorkerChannel
<1>5. PICK s : s = StatusToReport(w)
      OBVIOUS
<1>6. /\ table[id] \in Row
      /\ table' = [table EXCEPT ![id] = WithChannel(table[id], c, s)]
      /\ table'[id].channels = [table[id].channels EXCEPT ![c] = s]
      /\ \A p \in Procs : p # w => call'[p] = call[p]
      /\ call'[w] = None
      /\ UNCHANGED topicVars
  <2>1. call[w] # None /\ w \in Procs
        BY ProcsAssumption DEF WorkerSave, UpdateSave
  <2>2. call[w].id = id /\ call[w].row = WithChannel(table[id], c, s)
        BY <1>2, <1>4, <1>5, <2>1 DEF QuietInv, QuietWorker, Carries
  <2>3. table' = [table EXCEPT ![id] = WithChannel(table[id], c, s)]
        BY <2>2 DEF WorkerSave, UpdateSave
  <2>4. table[id] \in Row
        BY <1>2, RowThere DEF WorkerSave
  <2>5. table'[id] = WithChannel(table[id], c, s)
        BY <2>3 DEF Inv, TypeOK, StatusTypeOK
  <2>6. table'[id].channels = [table[id].channels EXCEPT ![c] = s]
        BY <2>5 DEF WithChannel
  <2>7. /\ call' = [call EXCEPT ![w] = None] /\ call \in [Procs -> Call \cup {None}]
        /\ UNCHANGED topicVars
        BY DEF WorkerSave, UpdateSave, Inv, TypeOK, StatusTypeOK
  <2> QED BY <2>1, <2>3, <2>4, <2>6, <2>7
<1>7. PICK new : /\ worker' = [worker EXCEPT ![w] = new]
                 /\ new = IF old.pc = "processing" THEN Dispatch(w)
                          ELSE AtChannel(old.ch + 1, Len(chs))
      BY <1>2, <1>3 DEF WorkerSave, AfterUpdate, WorkerChannels
<1>8. worker'[w] = new /\ new.pc # "wait"
      BY <1>4, <1>7 DEF Dispatch, AtChannel, Inv, TypeOK
<1>9. \A i \in 1 .. Len(chs) :
          i < old.ch => table[id].channels[chs[i]] \in FinalStatus(chs[i])
                        \/ (old.pc = "final" /\ chs[i] = c)
  <2>1. Reports(w)
        BY DEF QuietInv, QuietWorker
  <2> QED BY <1>2, <1>3, <1>4, <2>1 DEF Reports
<1>10. \A i \in 1 .. Len(chs) :
           table'[id].channels[chs[i]] = IF chs[i] = c THEN s ELSE table[id].channels[chs[i]]
       BY <1>4, <1>6 DEF Row, ChannelMaps
<1>11. Reports(w)'
  <2>1. Current(w)' = id
        BY <1>2, <1>6 DEF Current, topicVars
  <2>2. CASE old.pc = "processing"
    <3>1. /\ new.pc \in {"send", "final"} /\ new.ch = old.ch
          /\ new.pc = "final" /\ new.ok => c \in Supported
          BY <1>3, <1>4, <1>7, <2>2 DEF Dispatch
    <3>2. \A i \in 1 .. Len(chs) :
              i < old.ch => table'[id].channels[chs[i]] \in FinalStatus(chs[i]) \/ chs[i] = c
          BY <1>9, <1>10, <2>2
    <3> QED BY <1>8, <2>1, <3>1, <3>2 DEF Reports
  <2>3. CASE old.pc = "final"
    <3>1. s \in FinalStatus(c)
      <4>1. IF old.ok THEN c \in Supported ELSE c \notin Supported \ Flaky
            BY <1>2, <1>3, <1>4, <2>3, InMessageFacts
               DEF QuietInv, QuietWorker, Reports, InMessage
      <4>2. s = IF old.ok THEN "COMPLETED" ELSE "FAILED"
            BY <1>3, <1>5, <2>3 DEF StatusToReport
      <4> QED BY <4>1, <4>2 DEF FinalStatus
    <3>2. \A i \in 1 .. Len(chs) :
              i < old.ch + 1 => table'[id].channels[chs[i]] \in FinalStatus(chs[i])
          BY <1>4, <1>9, <1>10, <3>1
    <3>3. \/ new.pc = "processing" /\ new.ch = old.ch + 1
          \/ new.pc = "mark" /\ ~ (old.ch + 1 <= Len(chs))
          BY <1>7, <2>3 DEF AtChannel
    <3>4. \A i \in 1 .. Len(chs) : new.pc = "mark" => i < old.ch + 1
          BY <1>4, <3>3
    <3> QED BY <1>8, <2>1, <3>2, <3>3, <3>4 DEF Reports
  <2> QED BY <1>4, <2>2, <2>3
<1>12. ASSUME NEW k \in 1 .. Len(log), k < position[w], Closed(k)
       PROVE  Closed(k)'
  <2>1. LastCopy(k) => log[k] # id
        BY <1>2, <1>4, <1>12 DEF LastCopy
  <2>2. LastCopy(k) /\ log[k] \in Ids => table'[log[k]] = table[log[k]]
        BY <1>6, <2>1
  <2> QED BY <1>1, <1>12, <2>2, ClosedKept
<1>13. Alone(w) /\ LoopClosed(w) /\ committed < position[w]
       BY <1>3, <1>4 DEF QuietInv, QuietWorker, Alone
<1>14. LoopClosed(w)'
       BY <1>4, <1>6, <1>8, <1>12, <1>13 DEF LoopClosed, topicVars
<1>15. \A k \in 1 .. committed' : Closed(k)'
       BY <1>4, <1>6, <1>12, <1>13, OffsetFacts DEF QuietInv, topicVars
<1>16. QuietWorker(w)'
       BY <1>3, <1>4, <1>6, <1>8, <1>11, <1>13, <1>14 DEF QuietWorker, Alone, Carries, topicVars
<1>17. /\ \A v \in Workers \ {w} : Still(v) /\ call'[v] = call[v]
       /\ \A h \in Hooks : call'[h] = call[h]
       BY <1>6, <1>7, ProcsAssumption DEF Still, topicVars
<1> QED BY <1>4, <1>15, <1>16, <1>17, QuietLoop

\* A contact is only ever added.
LEMMA SendGrows ==
    ASSUME Inv, NEW w \in Workers, Send(w)
    PROVE  Grows
<1>1. PICK t : sends' = sends \/ sends' = [sends EXCEPT ![t] = @ + 1]
      BY DEF Send
<1>2. Sent \subseteq Sent'
      BY <1>1 DEF Sent, Inv, TypeOK
<1> QED BY <1>2 DEF Grows, Send, topicVars, Inv, TypeOK, TopicTypeOK

\* What a provider has reported stays reported.
LEMMA CallbacksStay ==
    ASSUME [Next]_vars
    PROVE  receipts \subseteq receipts'
BY DEF Next, ApiStep, Post, WriteInitialRow, SendMessage, SendMessageFails, WorkerStep, Receive,
       WorkerRead, WorkerSave, WorkerUpdateFails, Send, MarkMessage, GroupStep, JoinGroup,
       AutoCommit, SessionEnds, Crash, HookStep, HandleWebhook, HookSave, HookSaveFails,
       Rebalance, ForeignMessage, vars, serviceVars

\* Without database faults an update finds its row and succeeds.
LEMMA UpdateCannotFail ==
    ASSUME Inv, RowOrder, Quiet, NEW w \in Workers, WorkerUpdateFails(w)
    PROVE  FALSE
BY RowThere DEF WorkerUpdateFails, Quiet, Fault

LEMMA SendKeepsQuiet ==
    ASSUME Inv, QuietInv, NEW w \in Workers, Send(w)
    PROVE  QuietInv'
<1>1. Grows
      BY SendGrows
<1>2. PICK id \in Ids : id = Current(w)
      BY QuietFacts DEF Send
<1>3. PICK old \in WorkerState : old = worker[w]
      BY InMessageFacts DEF Send
<1> DEFINE c == Request[id].channels[old.ch]
<1>4. /\ old.pc = "send" /\ session[w] /\ c \in Supported /\ call[w] = None
      /\ UNCHANGED <<topicVars, table, call>>
  <2>1. InMessage(w) /\ call[w] = None
        BY InMessageFacts DEF Send, QuietInv, QuietWorker, Carries
  <2> QED BY <1>2, <1>3, <2>1 DEF Send, InMessage, statusVars
<1>5. PICK new : /\ worker' = [worker EXCEPT ![w] = new]
                 /\ new.pc \in {"send", "final"} /\ new.ch = old.ch
      BY <1>3 DEF Send, AfterSend
<1>6. worker'[w] = new
      BY <1>5 DEF Inv, TypeOK
<1>7. QuietWorker(w)
      BY DEF QuietInv
<1>8. Reports(w)'
  <2>1. Current(w)' = id /\ table'[id] = table[id]
        BY <1>2, <1>4 DEF Current, topicVars
  <2>2. \A i \in 1 .. Len(Request[id].channels) :
            i < old.ch => \/ table[id].channels[Request[id].channels[i]]
                                 \in FinalStatus(Request[id].channels[i])
                          \/ Request[id].channels[i] = c
        BY <1>2, <1>3, <1>4, <1>7 DEF QuietWorker, Reports
  <2> QED BY <1>4, <1>5, <1>6, <2>1, <2>2 DEF Reports
<1>9. ASSUME NEW k \in 1 .. Len(log), Closed(k)
      PROVE  Closed(k)'
      BY <1>1, <1>4, <1>9, ClosedKept
<1>10. Alone(w)' /\ Carries(w)'
       BY <1>3, <1>4, <1>7 DEF QuietWorker, Alone, Carries, topicVars
<1>11. LoopClosed(w)'
       BY <1>3, <1>4, <1>5, <1>6, <1>7, <1>9, OffsetFacts DEF QuietWorker, LoopClosed, topicVars
<1>12. \A k \in 1 .. committed' : Closed(k)'
       BY <1>1, <1>4, CommittedStayClosed DEF QuietInv, topicVars
<1>13. /\ \A v \in Workers \ {w} : Still(v) /\ call'[v] = call[v]
       /\ \A h \in Hooks : call'[h] = call[h]
       BY <1>4, <1>5 DEF Still, topicVars
<1> QED BY <1>4, <1>8, <1>10, <1>11, <1>12, <1>13, QuietLoop DEF QuietWorker

LEMMA MarkMessageKeepsQuiet ==
    ASSUME Inv, QuietInv, NEW w \in Workers, MarkMessage(w)
    PROVE  QuietInv'
<1>1. Grows
      BY GrowsInPlace DEF TypeOK, MarkMessage, Store, Inv
<1>2. PICK id \in Ids : id = Current(w) /\ id = log[position[w]]
      BY QuietFacts DEF MarkMessage
<1>3. /\ worker[w].pc = "mark" /\ session[w] /\ call[w] = None
      /\ position[w] \in 1 .. Len(log)
      /\ stored' = [stored EXCEPT ![w] = position[w]]
      /\ worker' = [worker EXCEPT ![w] = Idle]
      /\ UNCHANGED <<log, committed, owner, session, position, table, call>>
      BY QuietFacts DEF MarkMessage, Store, QuietInv, QuietWorker, Carries, statusVars
<1>4. worker'[w].pc = "wait" /\ stored'[w] = position[w]
      BY <1>3, OffsetFacts DEF Idle
<1>5. QuietWorker(w) /\ committed <= position[w]
      BY <1>3 DEF QuietInv, QuietWorker, Alone
<1>6. RowSettled(id)
      BY <1>2, <1>3, <1>5 DEF QuietWorker, Reports, RowSettled
<1>7. \A k \in 1 .. position[w] : Closed(k)
  <2>1. Closed(position[w])
        BY <1>2, <1>6 DEF Closed
  <2>2. \A k \in 1 .. position[w] : k < position[w] => Closed(k)
        BY <1>3, <1>5 DEF QuietWorker, LoopClosed
  <2>3. \A k \in 1 .. position[w] : k < position[w] \/ k = position[w]
        BY <1>3, OffsetFacts
  <2> QED BY <2>1, <2>2, <2>3
<1>8. \A k \in 1 .. position[w] : Closed(k)'
      BY <1>1, <1>3, <1>7, ClosedKept, OffsetFacts
<1>9. LoopClosed(w)' /\ Carries(w)' /\ Reports(w)'
      BY <1>3, <1>4, <1>8 DEF LoopClosed, Carries, Reports
<1>10. Alone(w)'
       BY <1>3, <1>4, <1>5, OffsetFacts DEF QuietWorker, Alone
<1>11. \A k \in 1 .. committed' : Closed(k)'
       BY <1>1, <1>3, CommittedStayClosed DEF QuietInv
<1>12. /\ \A v \in Workers \ {w} : Still(v) /\ call'[v] = call[v]
       /\ \A h \in Hooks : call'[h] = call[h]
       BY <1>3, OffsetFacts DEF Still
<1> QED BY <1>3, <1>9, <1>10, <1>11, <1>12, QuietLoop DEF QuietWorker

LEMMA JoinGroupKeepsQuiet ==
    ASSUME Inv, QuietInv, NEW w \in Workers, JoinGroup(w)
    PROVE  QuietInv'
<1>1. Grows
      BY GrowsInPlace DEF TypeOK, JoinGroup, Assign, Begin, serviceVars, Inv
<1>2. PICK start \in 0 .. Len(log) :
          /\ position' = [position EXCEPT ![w] = start]
          /\ start = IF committed >= 0 THEN committed ELSE 0
  <2>1. StartOffset("earliest") = IF committed >= 0 THEN committed ELSE 0
        BY DEF StartOffset
  <2>2. StartOffset("earliest") \in 0 .. Len(log)
        BY <2>1, OffsetFacts
  <2> QED BY <2>1, <2>2 DEF JoinGroup, Assign, Begin
<1>3. /\ owner = Nobody /\ owner' = w
      /\ session' = [session EXCEPT ![w] = TRUE]
      /\ stored' = [stored EXCEPT ![w] = -1]
      /\ UNCHANGED <<log, committed, worker, table, call>>
      BY DEF JoinGroup, Assign, Begin, serviceVars, statusVars
<1>4. worker[w].pc = "wait" /\ call[w] = None
      BY <1>3, NobodyRuns
<1>5. position'[w] = start /\ stored'[w] = -1 /\ session'[w]
      BY <1>2, <1>3, OffsetFacts
<1>6. \A k \in 1 .. committed : Closed(k)'
      BY <1>1, <1>3, CommittedStayClosed DEF QuietInv
<1>7. committed <= start /\ \A k \in 1 .. start : k \in 1 .. committed
      BY <1>2, OffsetFacts
<1>8. QuietWorker(w)'
      BY <1>2, <1>3, <1>4, <1>5, <1>6, <1>7
         DEF QuietWorker, Alone, Carries, Reports, LoopClosed
<1>9. /\ \A v \in Workers \ {w} : Still(v) /\ call'[v] = call[v]
      /\ \A h \in Hooks : call'[h] = call[h]
      BY <1>2, <1>3, OffsetFacts DEF Still
<1> QED BY <1>3, <1>6, <1>8, <1>9, QuietLoop

(***************************************************************************)
(* A commit covers no more than the loop has closed.                       *)
(***************************************************************************)
LEMMA AutoCommitKeepsQuiet ==
    ASSUME Inv, QuietInv, NEW w \in Workers, AutoCommit(w)
    PROVE  QuietInv'
<1>1. Grows
      BY GrowsInPlace DEF TypeOK, AutoCommit, Commit, serviceVars, Inv
<1>2. /\ session[w] /\ committed' = stored[w]
      /\ UNCHANGED <<log, owner, session, position, stored, worker, table, call>>
      BY DEF AutoCommit, Commit, serviceVars, statusVars
<1>3. QuietWorker(w)
      BY DEF QuietInv
<1>4. LoopClosed(w)'
      BY <1>1, <1>2, <1>3, LoopKept DEF QuietWorker, Still
<1>5. Carries(w)' /\ Reports(w)'
  <2>1. Current(w)' = Current(w) /\ WorkerChannel(w)' = WorkerChannel(w)
        BY <1>2 DEF Current, WorkerChannel, WorkerChannels
  <2> QED BY <1>2, <1>3, <2>1 DEF QuietWorker, Carries, Reports, StatusToReport
<1>6. Alone(w)'
      BY <1>2, <1>3 DEF QuietWorker, Alone
<1>7. \A k \in 1 .. committed' : Closed(k)'
  <2>1. \A k \in 1 .. stored[w] : k \in 1 .. position[w] /\ (k < position[w] \/ worker[w].pc = "wait")
        BY <1>2, <1>3, OffsetFacts DEF QuietWorker, Alone
  <2> QED BY <1>2, <1>4, <2>1 DEF LoopClosed
<1>8. /\ \A v \in Workers \ {w} : Still(v) /\ call'[v] = call[v]
      /\ \A h \in Hooks : call'[h] = call[h]
      BY <1>2 DEF Still
<1> QED BY <1>2, <1>4, <1>5, <1>6, <1>7, <1>8, QuietLoop DEF QuietWorker

LEMMA CrashKeepsQuiet ==
    ASSUME Inv, QuietInv, NEW w \in Workers, Crash(w)
    PROVE  QuietInv'
<1>1. Grows
      BY GrowsInPlace DEF TypeOK, Crash, Leave, Close, Inv
<1>2. /\ worker' = [worker EXCEPT ![w] = Idle]
      /\ session' = [session EXCEPT ![w] = FALSE]
      /\ owner' = IF owner = w THEN Nobody ELSE owner
      /\ position' = [position EXCEPT ![w] = 0] /\ stored' = [stored EXCEPT ![w] = -1]
      /\ UNCHANGED <<log, committed, table>>
      BY DEF Crash, Leave, Close
<1>3. PICK hung \in SUBSET Hooks :
          call' = [p \in Procs |-> IF p \in hung \cup {w} THEN None ELSE call[p]]
      BY DEF Crash
<1>4. /\ call'[w] = None
      /\ \A v \in Workers \ {w} : Still(v) /\ call'[v] = call[v]
      /\ \A h \in Hooks : call'[h] = None
      BY <1>2, <1>3, ProcsAssumption, OffsetFacts DEF Still, QuietInv
<1>5. worker'[w].pc = "wait" /\ ~ session'[w]
      BY <1>2, OffsetFacts DEF Idle
<1>6. QuietWorker(w)'
      BY <1>4, <1>5, RestingWorker
<1>7. ASSUME NEW v \in Workers, v # w
      PROVE  QuietWorker(v)'
  <2>1. session[v] => owner' = owner
        BY <1>2, <1>7 DEF QuietInv, QuietWorker, Alone
  <2>2. Still(v) /\ call'[v] = call[v] /\ QuietWorker(v)
        BY <1>4, <1>7 DEF QuietInv
  <2>3. \A id \in Ids : Logged(id) => table'[id] = table[id]
        BY <1>2
  <2> QED BY <1>1, <1>2, <2>1, <2>2, <2>3, QuietWorkerKept
<1>8. \A k \in 1 .. committed' : Closed(k)'
      BY <1>1, <1>2, CommittedStayClosed DEF QuietInv
<1>9. \A v \in Workers : QuietWorker(v)'
      BY <1>6, <1>7
<1> QED BY <1>4, <1>8, <1>9 DEF QuietInv

\* Every step keeps QuietInv, as long as the quiet lasts.
LEMMA NextKeepsQuiet ==
    ASSUME Inv, RowOrder, Quiet, QuietInv, [Next]_vars, Quiet'
    PROVE  QuietInv'
<1>1. ASSUME NEW id \in Ids, Post(id) \/ ApiStep(id)
      PROVE  QuietInv'
  <2>1. Grows
        BY <1>1, GrowsInPlace, GrowsByAppend
           DEF ApiStep, Post, WriteInitialRow, SendMessage, SendMessageFails, Inv, TypeOK, topicVars
  <2>2. UNCHANGED <<call, committed, owner, session, position, stored, worker>>
        BY <1>1
           DEF ApiStep, Post, WriteInitialRow, CreateInitialStatus, SendMessage, SendMessageFails,
               Append1, Append2, groupVars, topicVars, statusVars
  <2>3. ASSUME NEW i \in Ids, Logged(i)
        PROVE  table'[i] = table[i]
    <3>1. table[i] # None
          BY <2>3 DEF RowOrder, HasRow, Quiet
    <3> QED BY <1>1, <3>1
            DEF ApiStep, Post, WriteInitialRow, CreateInitialStatus, SendMessage,
                SendMessageFails, statusVars, Inv, TypeOK, StatusTypeOK
  <2> QED BY <2>1, <2>2, <2>3, QuietElsewhere
<1>2. ASSUME NEW w \in Workers, WorkerStep(w)
      PROVE  QuietInv'
      BY <1>2, ReceiveKeepsQuiet, WorkerReadKeepsQuiet, WorkerSaveKeepsQuiet, UpdateCannotFail,
         SendKeepsQuiet, MarkMessageKeepsQuiet DEF WorkerStep
<1>3. ASSUME NEW w \in Workers, SessionEnds(w)
      PROVE  FALSE
      BY <1>3 DEF SessionEnds, EndSession, QuietInv, QuietWorker, Alone
<1>4. ASSUME NEW w \in Workers, GroupStep(w) \/ Crash(w)
      PROVE  QuietInv'
      BY <1>3, <1>4, JoinGroupKeepsQuiet, AutoCommitKeepsQuiet, CrashKeepsQuiet DEF GroupStep
<1>5. ASSUME NEW h \in Hooks, HookStep(h)
      PROVE  FALSE
      BY <1>5
         DEF HookStep, HandleWebhook, HookSave, UpdateSave, HookSaveFails, UpdateAbandon,
             QuietInv, Quiet
<1>6. CASE Rebalance
      BY <1>6 DEF Rebalance, Fault, Quiet
<1>7. CASE ForeignMessage
  <2>1. Grows
        BY <1>7, GrowsByAppend DEF ForeignMessage, Inv, TypeOK
  <2> QED BY <1>7, <2>1, QuietElsewhere DEF ForeignMessage, Append1, groupVars, statusVars
<1>8. CASE UNCHANGED vars
  <2>1. UNCHANGED <<log, sends, receipts, table, call, committed, owner, session, position,
                    stored, worker>>
        BY <1>8 DEF vars, topicVars, serviceVars, statusVars
  <2>2. Grows
        BY <2>1, GrowsInPlace DEF Inv, TypeOK
  <2> QED BY <2>1, <2>2, QuietElsewhere
<1> QED BY <1>1, <1>2, <1>4, <1>5, <1>6, <1>7, <1>8 DEF Next

\* While the database answers, no session outlives its partition and nobody
\* calls back, the owner works alone and committed rows are final (FinalInv).
THEOREM FinalHolds == Spec => []FinalInv
<1>1. Init => FinalInv
  <2> SUFFICES ASSUME Init
               PROVE  QuietInv
      BY DEF FinalInv
  <2>1. \A w \in Workers : ~ session[w] /\ worker[w].pc = "wait"
        BY DEF Init, TopicInit, Idle
  <2>2. \A p \in Procs : call[p] = None
        BY DEF Init, StatusInit
  <2>3. committed = -1
        BY DEF Init, TopicInit
  <2> QED BY <2>1, <2>2, <2>3, ProcsAssumption
          DEF QuietInv, QuietWorker, Alone, Carries, Reports, LoopClosed
<1>2. Inv /\ RowOrder /\ FinalInv /\ [Next]_vars => FinalInv'
  <2> SUFFICES ASSUME Inv, RowOrder, FinalInv, [Next]_vars, Quiet'
               PROVE  QuietInv'
      BY DEF FinalInv
  <2>1. receipts \subseteq receipts'
        BY CallbacksStay
  <2>2. Quiet
        BY <2>1 DEF Quiet
  <2> QED BY <2>2, NextKeepsQuiet DEF FinalInv
<1> QED BY <1>1, <1>2, InvHolds, RowOrderHolds, PTL DEF Spec

(***************************************************************************)
(* Once the last message of a notification is acknowledged, its row says   *)
(* what became of each channel (CommittedIsFinal), though the messages     *)
(* before it may have been worked on and crashed in the middle of.         *)
(***************************************************************************)
THEOREM CommittedRowsAreFinal == Spec => []CommittedIsFinal
<1>1. Inv /\ FinalInv => CommittedIsFinal
  <2> SUFFICES ASSUME Inv, FinalInv, Quiet, NEW k \in 1 .. committed, log[k] # Junk,
                      ~ \E j \in k + 1 .. Len(log) : log[j] = log[k],
                      NEW c \in ToSet(Request[log[k]].channels)
               PROVE  table[log[k]].channels[c] \in FinalStatus(c)
      BY DEF CommittedIsFinal, Quiet
  <2>1. k \in 1 .. Len(log) /\ Len(log) \in Nat
        BY DEF Inv, TypeOK, TopicTypeOK
  <2>2. LastCopy(k)
        BY <2>1 DEF LastCopy
  <2>3. RowSettled(log[k])
        BY <2>2 DEF FinalInv, QuietInv, Closed
  <2>4. PICK id \in Ids : id = log[k]
        BY <2>1, KeysAssumption DEF Inv, TypeOK, TopicTypeOK
  <2>5. PICK i \in 1 .. Len(Request[id].channels) : c = Request[id].channels[i]
    <3>1. c \in ToSet(Request[id].channels)
          BY <2>4
    <3>2. ToSet(Request[id].channels)
              = {Request[id].channels[i] : i \in 1 .. Len(Request[id].channels)}
          BY RequestFacts
    <3> QED BY <3>1, <3>2
  <2> QED BY <2>3, <2>4, <2>5 DEF RowSettled
<1> QED BY <1>1, InvHolds, FinalHolds, PTL

-----------------------------------------------------------------------------
(***************************************************************************)
(* Repetitions cost faults (AccountInv).  A session starts on a partition  *)
(* that nobody owns, once at the beginning and then after a rebalance or a *)
(* crash; within it ConsumeClaim only goes forward.                        *)
(***************************************************************************)
LEMMA ApiKeepsAccount ==
    ASSUME Inv, AccountInv,
           \/ \E id \in Ids : Post(id) \/ ApiStep(id)
           \/ \E h \in Hooks : HookStep(h)
           \/ ForeignMessage
           \/ UNCHANGED vars
    PROVE  AccountInv'
<1>1. faults \in Nat /\ TopicTypeOK
      BY FaultsAssumption DEF Inv, TypeOK
<1>2. UNCHANGED <<worker, sends>>
      BY DEF Post, ApiStep, WriteInitialRow, SendMessage, SendMessageFails, HookStep,
             HandleWebhook, HookSave, HookSaveFails, ForeignMessage, vars, serviceVars
<1>3. faults' = faults \/ faults' = faults + 1
      BY DEF Post, ApiStep, WriteInitialRow, SendMessage, SendMessageFails, HookStep,
             HandleWebhook, HookSave, HookSaveFails, ForeignMessage, vars, serviceVars,
             NoFault, Fault
<1>4. UNCHANGED topicVars \/ \E m \in Ids \cup {Junk} : Append1(m) \/ Append2(m)
      BY DEF Post, ApiStep, WriteInitialRow, SendMessage, SendMessageFails, HookStep,
             HandleWebhook, HookSave, HookSaveFails, ForeignMessage, vars
<1>5. LogKept /\ UNCHANGED <<owner, session, position>>
      BY <1>1, <1>4, AppendKeepsLog DEF groupVars
<1> QED BY <1>1, <1>2, <1>3, <1>5, AccountOffTheLoops

\* An update moves the loops on to a turn that nobody has taken yet.
LEMMA UpdateKeepsAccount ==
    ASSUME Inv, AccountInv, NEW w \in Workers,
           WorkerRead(w) \/ WorkerSave(w) \/ WorkerUpdateFails(w)
    PROVE  AccountInv'
<1>1. /\ faults \in Nat /\ TopicTypeOK
      /\ worker \in [Workers -> WorkerState]
      BY FaultsAssumption DEF Inv, TypeOK
<1>2. /\ UNCHANGED <<log, owner, session, position, sends>>
      /\ faults' = faults \/ faults' = faults + 1
      /\ worker[w].pc \in {"processing", "final"}
      BY DEF WorkerRead, WorkerSave, WorkerUpdateFails, NoFault, Fault, topicVars
<1>3. LogKept
      BY <1>1, <1>2 DEF LogKept, TopicTypeOK
<1>4. CASE WorkerRead(w)
  <2>1. worker' = worker
        BY <1>4 DEF WorkerRead
  <2> QED BY <1>1, <1>2, <1>3, <2>1, AccountOffTheLoops
<1>5. CASE AfterUpdate(w)
  <2>1. worker[w] \in WorkerState /\ Current(w) \in Ids
        BY <1>2, InMessageFacts
  <2>2. /\ \A v \in Workers \ {w} : worker'[v] = worker[v]
        /\ worker'[w] = IF worker[w].pc = "processing" THEN Dispatch(w)
                        ELSE AtChannel(worker[w].ch + 1, Len(WorkerChannels(w)))
        BY <1>1, <1>5 DEF AfterUpdate
  <2>3. MovesOn(w) /\ worker'[w] \in WorkerState
    <3>1. CASE worker[w].pc = "processing"
          BY <2>1, <2>2, <3>1 DEF Dispatch, MovesOn, WorkerState, WorkerPcs
    <3>2. CASE worker[w].pc = "final"
          BY <2>1, <2>2, <3>2 DEF AtChannel, MovesOn, WorkerState, WorkerPcs
    <3> QED BY <1>2, <3>1, <3>2
  <2> QED BY <1>1, <1>2, <2>1, <2>3, AccountWhenMovingOn
<1> QED BY <1>4, <1>5 DEF WorkerSave, WorkerUpdateFails

\* A contact is entered for the turn it was made in.
LEMMA SendKeepsAccount ==
    ASSUME Inv, AccountInv, NEW w \in Workers, Send(w)
    PROVE  AccountInv'
<1>1. /\ faults \in Nat /\ TopicTypeOK
      /\ worker \in [Workers -> WorkerState] /\ sends \in [Deliveries -> Nat]
      BY FaultsAssumption DEF Inv, TypeOK
<1>2. PICK id \in Ids : id = Current(w)
      BY InMessageFacts DEF Send
<1>3. AtTurn(w)
  <2>1. /\ session[w] /\ worker[w].rcp <= Len(Request[id].recipients)
        /\ worker[w] \in WorkerState /\ worker[w].pc = "send"
        BY <1>2, InMessageFacts DEF Send, InMessage
  <2>2. position[w] \in 1 .. Len(log)
        BY OffsetFacts, InMessageFacts DEF Send, InMessage
  <2>3. worker[w].ch \in DOMAIN WorkerChannels(w)
        BY <1>2, InMessageFacts, RequestAssumption DEF Send, WorkerChannels, Requests
  <2>4. worker[w].rcp \in DOMAIN WorkerRecipients(w)
        BY <1>2, <2>1, RequestAssumption DEF WorkerRecipients, Requests, WorkerState
  <2> QED BY <1>2, <2>1, <2>2, <2>3, <2>4 DEF AtTurn
<1>4. /\ UNCHANGED topicVars /\ faults' = faults
      /\ UNCHANGED <<log, owner, session, position>>
      BY DEF Send, NoFault, topicVars
<1>5. TurnTaken(w) /\ worker'[w] \in WorkerState
  <2>1. PICK delivered \in BOOLEAN : AfterSend(w, delivered)
        BY DEF Send
  <2>2. PICK pc \in {"send", "final"}, ok \in BOOLEAN :
            worker' = [worker EXCEPT ![w] = [pc |-> pc, ch |-> worker[w].ch,
                                             rcp |-> worker[w].rcp + 1, ok |-> ok]]
        BY <2>1 DEF AfterSend
  <2>3. worker[w].ch \in Nat \ {0} /\ worker[w].rcp + 1 \in Nat \ {0}
        BY <1>3 DEF AtTurn, WorkerState
  <2> QED BY <1>1, <2>2, <2>3 DEF TurnTaken, WorkerState, WorkerPcs
<1>6. CASE UNCHANGED sends
  <2>1. MovesOn(w)
        BY <1>3, <1>5 DEF MovesOn, TurnTaken, AtTurn, WorkerState
  <2>2. worker[w] \in WorkerState /\ worker[w].pc \notin {"wait", "mark"}
        BY <1>3 DEF AtTurn
  <2> QED BY <1>1, <1>4, <1>5, <1>6, <2>1, <2>2, AccountWhenMovingOn
<1>7. CASE sends' = [sends EXCEPT ![<<Current(w), WorkerChannel(w),
                                      WorkerRecipients(w)[worker[w].rcp]>>] = @ + 1]
      BY <1>1, <1>3, <1>4, <1>5, <1>7, AccountOfTurn
<1> QED BY <1>6, <1>7 DEF Send

\* Every step keeps the account: a new run of a loop is paid for by a fault.
LEMMA NextKeepsAccount == Inv /\ AccountInv /\ [Next]_vars => AccountInv'
<1> SUFFICES ASSUME Inv, AccountInv, [Next]_vars
             PROVE  AccountInv'
    OBVIOUS
<1>1. /\ faults \in Nat /\ TopicTypeOK
      /\ worker \in [Workers -> WorkerState]
      BY FaultsAssumption DEF Inv, TypeOK
<1>2. ASSUME NEW w \in Workers, Receive(w)
      PROVE  AccountInv'
  <2>1. /\ Deliver(w) /\ faults' = faults /\ sends' = sends
        /\ \A v \in Workers \ {w} : worker'[v] = worker[v]
        BY <1>1, <1>2 DEF Receive, NoFault
  <2> QED BY <1>1, <2>1, AccountOfDelivery
<1>3. ASSUME NEW w \in Workers, MarkMessage(w)
      PROVE  AccountInv'
  <2>1. /\ UNCHANGED <<log, owner, session, position, sends, faults>>
        /\ worker[w].pc = "mark" /\ worker'[w].pc = "wait"
        /\ \A v \in Workers \ {w} : worker'[v] = worker[v]
        BY <1>1, <1>3 DEF MarkMessage, Store, NoFault, Idle
  <2> QED BY <1>1, <2>1, AccountWhenDone
<1>4. ASSUME NEW w \in Workers, JoinGroup(w)
      PROVE  AccountInv'
  <2>1. Begin(w, "earliest") /\ Unstarted /\ owner' = w /\ UNCHANGED <<sends, faults, worker>>
        BY <1>4 DEF JoinGroup, Assign, Unstarted, serviceVars
  <2> QED BY <1>1, <2>1, AccountOfBegin
<1>5. ASSUME NEW w \in Workers, AutoCommit(w)
      PROVE  AccountInv'
  <2>1. /\ UNCHANGED <<owner, session, position, worker, sends>> /\ log' = log
        /\ faults' = faults
        BY <1>5 DEF AutoCommit, Commit, serviceVars
  <2>2. LogKept
        BY <1>1, <2>1 DEF LogKept, TopicTypeOK
  <2> QED BY <1>1, <2>1, <2>2, AccountOffTheLoops
<1>6. ASSUME NEW w \in Workers, SessionEnds(w)
      PROVE  AccountInv'
  <2>1. Close(w) /\ owner # w /\ owner' = owner /\ UNCHANGED <<sends, faults, worker>>
        BY <1>6 DEF SessionEnds, EndSession, serviceVars
  <2> QED BY <1>1, <2>1, AccountOfClose
<1>7. ASSUME NEW w \in Workers, Crash(w)
      PROVE  AccountInv'
  <2>1. /\ Close(w) /\ sends' = sends /\ faults' = faults + 1
        /\ \A v \in Workers \ {w} : worker'[v] = worker[v]
        BY <1>1, <1>7 DEF Crash, Leave, Fault
  <2> QED BY <1>1, <2>1, AccountOfClose
<1>8. CASE Rebalance
  <2>1. Revoke /\ faults' = faults + 1 /\ UNCHANGED <<sends, worker>>
        BY <1>8 DEF Rebalance, Fault
  <2> QED BY <1>1, <2>1, AccountOfRevoke
<1>9. ASSUME NEW w \in Workers, WorkerStep(w)
      PROVE  AccountInv'
      BY <1>2, <1>3, <1>9, UpdateKeepsAccount, SendKeepsAccount DEF WorkerStep
<1>10. ASSUME NEW w \in Workers, GroupStep(w)
       PROVE  AccountInv'
       BY <1>4, <1>5, <1>6, <1>10 DEF GroupStep
<1> QED BY <1>7, <1>8, <1>9, <1>10, ApiKeepsAccount DEF Next

(***************************************************************************)
(* No recipient is contacted more often than the request and the copies of *)
(* its message say, but for one more time per fault.                       *)
(***************************************************************************)
THEOREM RepeatsCostFaults == Spec => []RepeatsNeedFaults
<1>1. Init => AccountInv
      BY AccountBegins DEF Init
<1>2. Inv /\ AccountInv => RepeatsNeedFaults
      BY AccountBoundsRepeats, FaultsAssumption DEF Inv, TypeOK
<1> QED BY <1>1, <1>2, InvHolds, NextKeepsAccount, PTL DEF Spec

-----------------------------------------------------------------------------
(***************************************************************************)
(* The steps of the service as steps of DeliveryPromise: a message that is *)
(* appended queues its notification, a Send delivers, a commit retires all *)
(* it newly covers, and no other step shows.                               *)
(***************************************************************************)
LEMMA SendDelivers ==
    ASSUME Inv, NEW w \in Workers, Send(w)
    PROVE  [Promise!PromiseNext]_(Promise!promiseVars)
<1>1. PICK id \in Ids : id = Current(w)
      BY InMessageFacts DEF Send
<1>2. Queued' = Queued /\ Retired' = Retired
      BY DEF Send, topicVars, Queued, Logged, Retired
<1>3. id \in Queued
  <2>1. position[w] \in 1 .. Len(log)
        BY OffsetFacts, InMessageFacts DEF Send, InMessage
  <2> QED BY <1>1, <2>1 DEF Queued, Logged, Current
<1>4. CASE sends' = sends
      BY <1>2, <1>4 DEF Promise!promiseVars, Sent
<1>5. CASE sends' # sends
  <2> DEFINE t == <<Current(w), WorkerChannel(w), WorkerRecipients(w)[worker[w].rcp]>>
  <2>1. sends' = [sends EXCEPT ![t] = @ + 1]
        BY <1>5 DEF Send
  <2>2. PICK d \in Requested[id] : d = t
    <3>1. /\ worker[w].ch \in 1 .. Len(Request[id].channels)
          /\ worker[w].rcp \in 1 .. Len(Request[id].recipients)
      <4>1. InMessage(w) /\ worker[w] \in WorkerState
            BY InMessageFacts DEF Send
      <4>2. worker[w].pc = "send" /\ worker[w].rcp \in Nat \ {0}
            BY <4>1 DEF Send, WorkerState
      <4>3. worker[w].rcp <= Len(Request[id].recipients)
            BY <1>1, <4>1, <4>2 DEF InMessage
      <4> QED BY <1>1, <4>2, <4>3, InMessageFacts, RequestFacts DEF WorkerChannels
    <3>2. /\ Request[id].channels[worker[w].ch] \in ToSet(Request[id].channels)
          /\ Request[id].recipients[worker[w].rcp] \in ToSet(Request[id].recipients)
          BY <3>1, RequestFacts
    <3> QED BY <1>1, <3>2
            DEF Requested, WorkerChannel, WorkerChannels, WorkerRecipients
  <2>3. d \in Deliveries
        BY <1>1, RequestFacts DEF Requested, Deliveries
  <2>4. Sent' = Sent \cup {d}
    <3>1. sends \in [Deliveries -> Nat]
          BY DEF Inv, TypeOK
    <3> QED BY <2>1, <2>2, <2>3, <3>1, SentGrows
  <2>5. Promise!Deliver(id)
        BY <1>2, <1>3, <2>4 DEF Promise!Deliver
  <2> QED BY <2>5 DEF Promise!PromiseNext
<1> QED BY <1>4, <1>5

\* A commit moves the offset past delivered messages, which are retired by it.
LEMMA CommitRetires ==
    ASSUME Inv, NEW w \in Workers, AutoCommit(w)
    PROVE  Promise!PromiseNext
<1>1. /\ committed' = stored[w] /\ stored[w] > committed
      /\ log' = log /\ sends' = sends
      BY DEF AutoCommit, Commit, serviceVars
<1>2. CommittedIsDelivered' /\ Sent' = Sent
      BY <1>1, AutoCommitKeepsInv DEF Inv, Sent
<1>3. PICK S \in SUBSET Ids : S = Retired'
      BY DEF Retired
<1>4. Retired \subseteq S
      BY <1>1, <1>3, OffsetFacts DEF Retired
<1>5. S \subseteq Queued /\ Queued' = Queued
      BY <1>1, <1>3, OffsetFacts DEF Retired, Queued, Logged
<1>6. \A id \in S : Owed[id] \subseteq Sent
      BY <1>1, <1>2, <1>3, KeysAssumption, JunkAssumption DEF Retired, CommittedIsDelivered
<1>7. Promise!Retire(S)
      BY <1>2, <1>3, <1>4, <1>5, <1>6 DEF Promise!Retire
<1> QED BY <1>7 DEF Promise!PromiseNext

\* Each step of the service is a step of the promise, or none.
LEMMA NextKeepsPromise ==
    ASSUME Inv, [Next]_vars
    PROVE  [Promise!PromiseNext]_(Promise!promiseVars)
<1> USE DEF Promise!PromiseNext
<1>1. ASSUME NEW id \in Ids, Post(id) \/ WriteInitialRow(id)
      PROVE  UNCHANGED Promise!promiseVars
      BY <1>1, HiddenStep DEF Post, WriteInitialRow, topicVars
<1>2. ASSUME NEW id \in Ids, SendMessage(id) \/ SendMessageFails(id)
      PROVE  [Promise!PromiseNext]_(Promise!promiseVars)
      BY <1>2, HiddenStep, AppendQueues DEF Inv, TypeOK, SendMessage, SendMessageFails, topicVars
<1>3. ASSUME NEW w \in Workers,
             \/ Receive(w) \/ WorkerRead(w) \/ WorkerSave(w) \/ WorkerUpdateFails(w)
             \/ MarkMessage(w)
      PROVE  UNCHANGED Promise!promiseVars
      BY <1>3, HiddenStep
         DEF Receive, Deliver, WorkerRead, WorkerSave, WorkerUpdateFails, MarkMessage, Store,
             topicVars
<1>4. ASSUME NEW w \in Workers, JoinGroup(w) \/ SessionEnds(w) \/ Crash(w)
      PROVE  UNCHANGED Promise!promiseVars
      BY <1>4, HiddenStep
         DEF JoinGroup, Assign, Begin, StartOffset, SessionEnds, EndSession, Crash, Leave, Close,
             serviceVars
<1>5. ASSUME NEW h \in Hooks, HookStep(h)
      PROVE  UNCHANGED Promise!promiseVars
      BY <1>5, HiddenStep
         DEF HookStep, HandleWebhook, HookSave, HookSaveFails, topicVars, serviceVars
<1>6. CASE Rebalance \/ UNCHANGED vars
      BY <1>6, HiddenStep DEF Rebalance, Revoke, vars, topicVars, serviceVars
<1>7. CASE ForeignMessage
      BY <1>7, AppendQueues DEF Inv, TypeOK, ForeignMessage
<1> QED BY <1>1, <1>2, <1>3, <1>4, <1>5, <1>6, <1>7, SendDelivers, CommitRetires
        DEF Next, ApiStep, WorkerStep, GroupStep

(***************************************************************************)
(* The Go service implements at-least-once delivery as DeliveryPromise     *)
(* states it: nothing is sent that was not queued and requested, and       *)
(* nothing is retired that is still owed.                                  *)
(***************************************************************************)
THEOREM GoKeepsThePromise == Spec => ImplementsPromise
<1>1. Init => Promise!PromiseInit
  <2> SUFFICES ASSUME Init
               PROVE  Promise!PromiseInit
      OBVIOUS
  <2>1. log = <<>> /\ committed = -1 /\ sends = [t \in Deliveries |-> 0]
        BY DEF Init, TopicInit
  <2>2. Len(log) = 0
        BY <2>1, EmptySeq
  <2> QED BY <2>1, <2>2 DEF Promise!PromiseInit, Queued, Logged, Sent, Retired
<1>2. Inv /\ [Next]_vars => [Promise!PromiseNext]_(Promise!promiseVars)
      BY NextKeepsPromise
<1> QED BY <1>1, <1>2, InvHolds, PTL DEF Spec, ImplementsPromise, Promise!PromiseSpec

-----------------------------------------------------------------------------
(***************************************************************************)
(* An update is one report.  Until a provider calls back, or the broker    *)
(* takes the partition from a worker that is alive, whoever has a loop     *)
(* owns the partition, and the row that an update replaces is the row it   *)
(* has read: crashes and statements that fail do not change that.          *)
(***************************************************************************)
Undisturbed == (faults = 0 \/ "rebalance" \notin FaultKinds) /\ receipts = {}

OwnerWorks(w) ==
    /\ session[w] => owner = w
    /\ Carries(w)
    /\ call[w] # None => table[Current(w)] # None

OwnerInv ==
    /\ \A h \in Hooks : call[h] = None
    /\ \A w \in Workers : OwnerWorks(w)

AloneInv == Undisturbed => OwnerInv

\* While w has a loop, or nobody has the partition, the others have nothing.
LEMMA OthersWait ==
    ASSUME Inv, OwnerInv, NEW w \in Workers, session[w] \/ owner = Nobody,
           NEW v \in Workers, v # w
    PROVE  ~ session[v] /\ worker[v].pc = "wait" /\ call[v] = None
<1>1. OwnerWorks(w) /\ OwnerWorks(v)
      BY DEF OwnerInv
<1>2. ~ session[v]
      BY <1>1, NobodyAssumption DEF OwnerWorks
<1>3. worker[v].pc = "wait"
      BY <1>2, QuietFacts
<1> QED BY <1>1, <1>2, <1>3 DEF OwnerWorks, Carries

\* A step outside the loops leaves the rows that updates have read.
LEMMA OwnerElsewhere ==
    ASSUME Inv, Grows, OwnerInv, UNCHANGED <<call, owner, session, position, worker>>,
           \A id \in Ids : table[id] # None => table'[id] = table[id]
    PROVE  OwnerInv'
<1>1. ASSUME NEW w \in Workers
      PROVE  OwnerWorks(w)'
  <2>1. CASE call[w] = None
        BY <2>1 DEF OwnerInv, OwnerWorks, Carries
  <2>2. CASE call[w] # None
    <3>1. OwnerWorks(w) /\ worker[w].pc # "wait"
          BY <2>2 DEF OwnerInv, OwnerWorks, Carries
    <3>2. PICK id \in Ids : id = Current(w) /\ Current(w)' = id /\ table'[id] = table[id]
          BY <2>2, <3>1, QuietFacts DEF Grows, Current, OwnerWorks
    <3> QED BY <3>1, <3>2
            DEF OwnerWorks, Carries, WorkerChannel, WorkerChannels, StatusToReport
  <2> QED BY <2>1, <2>2
<1> QED BY <1>1 DEF OwnerInv

\* A step of the one loop that runs, or of the worker that gets the partition.
LEMMA OwnerLoop ==
    ASSUME Inv, OwnerInv, NEW w \in Workers, session[w] \/ owner = Nobody,
           \A v \in Workers \ {w} : Still(v) /\ call'[v] = call[v],
           \A h \in Hooks : call'[h] = call[h],
           OwnerWorks(w)'
    PROVE  OwnerInv'
<1>1. ASSUME NEW v \in Workers, v # w
      PROVE  OwnerWorks(v)'
      BY <1>1, OthersWait DEF OwnerWorks, Carries, Still
<1> QED BY <1>1 DEF OwnerInv

\* The statements of an update.
LEMMA UpdateKeepsOwner ==
    ASSUME Inv, OwnerInv, NEW w \in Workers,
           WorkerRead(w) \/ WorkerSave(w) \/ WorkerUpdateFails(w)
    PROVE  OwnerInv'
<1>1. /\ session[w] /\ w \in Procs /\ UNCHANGED topicVars
      /\ \A v \in Workers \ {w} : worker'[v] = worker[v]
      BY QuietFacts, ProcsAssumption, OffsetFacts
         DEF WorkerRead, WorkerSave, WorkerUpdateFails, AfterUpdate
<1>2. /\ \A p \in Procs : p # w => call'[p] = call[p]
      /\ WorkerRead(w) \/ call'[w] = None
      BY <1>1 DEF WorkerRead, UpdateRead, WorkerSave, UpdateSave, WorkerUpdateFails,
                  UpdateAbandon, statusVars, Inv, TypeOK, StatusTypeOK
<1>3. /\ \A v \in Workers \ {w} : Still(v) /\ call'[v] = call[v]
      /\ \A h \in Hooks : call'[h] = call[h]
      BY <1>1, <1>2, ProcsAssumption DEF Still, topicVars
<1>4. OwnerWorks(w)'
  <2>1. (session[w] => owner = w)'
        BY <1>1 DEF OwnerInv, OwnerWorks, topicVars
  <2>2. CASE call'[w] = None
        BY <2>1, <2>2 DEF OwnerWorks, Carries
  <2>3. CASE WorkerRead(w)
    <3>1. UNCHANGED <<topicVars, worker, table>> /\ table[Current(w)] # None
          BY <2>3 DEF WorkerRead, UpdateRead
    <3>2. /\ Current(w)' = Current(w) /\ WorkerChannel(w)' = WorkerChannel(w)
          /\ StatusToReport(w)' = StatusToReport(w)
          BY <3>1 DEF Current, WorkerChannel, WorkerChannels, StatusToReport, topicVars
    <3>3. /\ worker[w].pc \in {"processing", "final"}
          /\ call'[w] = [id |-> Current(w),
                         row |-> WithChannel(table[Current(w)], WorkerChannel(w), StatusToReport(w))]
          BY <1>1, <2>3 DEF WorkerRead, UpdateRead, Inv, TypeOK, StatusTypeOK
    <3> QED BY <2>1, <3>1, <3>2, <3>3 DEF OwnerWorks, Carries
  <2> QED BY <1>2, <2>2, <2>3
<1> QED BY <1>1, <1>3, <1>4, OwnerLoop

\* The other steps of the loop are made between two updates.
LEMMA LoopKeepsOwner ==
    ASSUME Inv, OwnerInv, NEW w \in Workers, Receive(w) \/ Send(w) \/ MarkMessage(w)
    PROVE  OwnerInv'
<1>1. /\ session[w] /\ worker[w].pc \in {"wait", "send", "mark"} /\ UNCHANGED <<call, owner, session>>
      /\ \A v \in Workers \ {w} : Still(v)
      BY QuietFacts, OffsetFacts
         DEF Receive, Deliver, Send, AfterSend, MarkMessage, Store, Still, topicVars, statusVars
<1>2. call[w] = None
      BY <1>1 DEF OwnerInv, OwnerWorks, Carries
<1>3. OwnerWorks(w)'
      BY <1>1, <1>2 DEF OwnerInv, OwnerWorks, Carries
<1> QED BY <1>1, <1>3, OwnerLoop

\* A worker joins when nobody has the partition, and commits as its owner.
LEMMA GroupKeepsOwner ==
    ASSUME Inv, OwnerInv, NEW w \in Workers, GroupStep(w)
    PROVE  OwnerInv'
<1>1. ~ SessionEnds(w)
      BY DEF SessionEnds, EndSession, OwnerInv, OwnerWorks
<1>2. CASE JoinGroup(w)
  <2>1. /\ owner = Nobody /\ owner' = w /\ ~ session[w] /\ UNCHANGED <<call, worker>>
        /\ \A v \in Workers \ {w} : Still(v)
        BY <1>2, OffsetFacts DEF JoinGroup, Assign, Begin, Still, statusVars, serviceVars
  <2>2. call[w] = None
        BY <2>1, QuietFacts DEF OwnerInv, OwnerWorks, Carries
  <2>3. OwnerWorks(w)'
        BY <2>1, <2>2 DEF OwnerWorks, Carries
  <2> QED BY <2>1, <2>3, OwnerLoop
<1>3. CASE AutoCommit(w)
  <2>1. UNCHANGED <<log, call, owner, session, position, worker, sends, receipts, table>>
        BY <1>3 DEF AutoCommit, Commit, statusVars, serviceVars
  <2> QED BY <2>1, GrowsInPlace, OwnerElsewhere DEF Inv, TypeOK
<1> QED BY <1>1, <1>2, <1>3 DEF GroupStep

\* A process that dies takes its loop, its update and those of its requests with it.
LEMMA CrashKeepsOwner ==
    ASSUME Inv, OwnerInv, NEW w \in Workers, Crash(w)
    PROVE  OwnerInv'
<1>1. /\ worker' = [worker EXCEPT ![w] = Idle]
      /\ session' = [session EXCEPT ![w] = FALSE]
      /\ owner' = IF owner = w THEN Nobody ELSE owner
      /\ position' = [position EXCEPT ![w] = 0]
      /\ UNCHANGED <<log, table>>
      BY DEF Crash, Leave, Close
<1>2. PICK hung \in SUBSET Hooks :
          call' = [p \in Procs |-> IF p \in hung \cup {w} THEN None ELSE call[p]]
      BY DEF Crash
<1>3. /\ \A h \in Hooks : call'[h] = None
      /\ \A v \in Workers \ {w} : /\ call'[v] = call[v]
                                  /\ session'[v] = session[v] /\ position'[v] = position[v]
                                  /\ worker'[v] = worker[v]
      /\ call'[w] = None /\ ~ session'[w]
      BY <1>1, <1>2, ProcsAssumption, OffsetFacts DEF OwnerInv
<1>4. ASSUME NEW v \in Workers, v # w
      PROVE  OwnerWorks(v)'
  <2>1. OwnerWorks(v) /\ Current(v)' = Current(v)
        BY <1>1, <1>3, <1>4 DEF OwnerInv, Current
  <2>2. (session[v] => owner = v)'
        BY <1>1, <1>3, <1>4, <2>1 DEF OwnerWorks
  <2> QED BY <1>1, <1>3, <1>4, <2>1, <2>2
          DEF OwnerWorks, Carries, WorkerChannel, WorkerChannels, StatusToReport
<1>5. OwnerWorks(w)'
      BY <1>3 DEF OwnerWorks, Carries
<1> QED BY <1>3, <1>4, <1>5 DEF OwnerInv

\* Handlers of requests write no row that is there.
LEMMA ApiKeepsRows ==
    ASSUME Inv, NEW id \in Ids, Post(id) \/ ApiStep(id)
    PROVE  /\ Grows
           /\ UNCHANGED <<call, committed, owner, session, position, stored, worker>>
           /\ \A i \in Ids : table[i] # None => table'[i] = table[i]
<1>1. Grows
      BY GrowsInPlace, GrowsByAppend
         DEF ApiStep, Post, WriteInitialRow, SendMessage, SendMessageFails, Inv, TypeOK, topicVars
<1>2. UNCHANGED <<call, committed, owner, session, position, stored, worker>>
      BY DEF ApiStep, Post, WriteInitialRow, CreateInitialStatus, SendMessage, SendMessageFails,
             Append1, Append2, groupVars, topicVars, statusVars
<1>3. ASSUME NEW i \in Ids, table[i] # None
      PROVE  table'[i] = table[i]
      BY <1>3 DEF ApiStep, Post, WriteInitialRow, CreateInitialStatus, SendMessage,
                  SendMessageFails, statusVars, Inv, TypeOK, StatusTypeOK
<1> QED BY <1>1, <1>2, <1>3

\* Every step keeps OwnerInv, as long as nobody disturbs the owner.
LEMMA NextKeepsOwner ==
    ASSUME Inv, Undisturbed, OwnerInv, [Next]_vars, Undisturbed'
    PROVE  OwnerInv'
<1>1. ASSUME NEW id \in Ids, Post(id) \/ ApiStep(id)
      PROVE  OwnerInv'
      BY <1>1, ApiKeepsRows, OwnerElsewhere
<1>2. ASSUME NEW w \in Workers, WorkerStep(w)
      PROVE  OwnerInv'
      BY <1>2, UpdateKeepsOwner, LoopKeepsOwner DEF WorkerStep
<1>3. ASSUME NEW w \in Workers, GroupStep(w) \/ Crash(w)
      PROVE  OwnerInv'
      BY <1>3, GroupKeepsOwner, CrashKeepsOwner
<1>4. ASSUME NEW h \in Hooks, HookStep(h)
      PROVE  FALSE
      BY <1>4
         DEF HookStep, HandleWebhook, HookSave, UpdateSave, HookSaveFails, UpdateAbandon,
             OwnerInv, Undisturbed
<1>5. ~ Rebalance
      BY DEF Rebalance, Fault, Undisturbed, Inv, TypeOK
<1>6. CASE ForeignMessage
  <2>1. Grows
        BY <1>6, GrowsByAppend DEF ForeignMessage, Inv, TypeOK
  <2> QED BY <1>6, <2>1, OwnerElsewhere DEF ForeignMessage, Append1, groupVars, statusVars
<1>7. CASE UNCHANGED vars
  <2>1. UNCHANGED <<log, sends, receipts, table, call, owner, session, position, worker>>
        BY <1>7 DEF vars, topicVars, serviceVars, statusVars
  <2> QED BY <2>1, GrowsInPlace, OwnerElsewhere DEF Inv, TypeOK
<1> QED BY <1>1, <1>2, <1>3, <1>4, <1>5, <1>6, <1>7 DEF Next

\* The faults are counted, and never taken back.
LEMMA FaultsGrow ==
    ASSUME Inv, [Next]_vars
    PROVE  faults' = faults \/ faults' > faults
<1>1. faults \in Nat
      BY FaultsAssumption DEF Inv, TypeOK
<1>2. NoFault \/ \E kind \in FaultKinds : Fault(kind)
  <2>1. ASSUME NEW id \in Ids, Post(id) \/ ApiStep(id)
        PROVE  NoFault \/ \E kind \in FaultKinds : Fault(kind)
        BY <2>1 DEF ApiStep, Post, WriteInitialRow, SendMessage, SendMessageFails, Fault
  <2>2. ASSUME NEW w \in Workers, WorkerStep(w)
        PROVE  NoFault \/ \E kind \in FaultKinds : Fault(kind)
        BY <2>2 DEF WorkerStep, Receive, WorkerRead, WorkerSave, WorkerUpdateFails, Send,
                    MarkMessage, Fault
  <2>3. ASSUME NEW w \in Workers, GroupStep(w) \/ Crash(w)
        PROVE  NoFault \/ \E kind \in FaultKinds : Fault(kind)
        BY <2>3 DEF GroupStep, JoinGroup, AutoCommit, SessionEnds, Crash, serviceVars, NoFault,
                    Fault
  <2>4. ASSUME NEW h \in Hooks, HookStep(h)
        PROVE  NoFault \/ \E kind \in FaultKinds : Fault(kind)
        BY <2>4 DEF HookStep, HandleWebhook, HookSave, HookSaveFails, serviceVars, NoFault, Fault
  <2>5. CASE Rebalance \/ ForeignMessage \/ UNCHANGED vars
        BY <2>5 DEF Rebalance, ForeignMessage, vars, serviceVars, NoFault, Fault
  <2> QED BY <2>1, <2>2, <2>3, <2>4, <2>5 DEF Next
<1> QED BY <1>1, <1>2 DEF NoFault, Fault

\* While the owner is not disturbed, it alone has updates (AloneInv).
THEOREM AloneHolds == Spec => []AloneInv
<1>1. Init => AloneInv
      BY ProcsAssumption
         DEF Init, StatusInit, TopicInit, AloneInv, OwnerInv, OwnerWorks, Carries
<1>2. Inv /\ AloneInv /\ [Next]_vars => AloneInv'
  <2> SUFFICES ASSUME Inv, AloneInv, [Next]_vars, Undisturbed'
               PROVE  OwnerInv'
      BY DEF AloneInv
  <2>1. receipts = {} /\ (faults' = 0 => faults = 0)
        BY CallbacksStay, FaultsGrow, FaultsAssumption DEF Undisturbed, Inv, TypeOK
  <2>2. Undisturbed
        BY <2>1 DEF Undisturbed
  <2> QED BY <2>2, NextKeepsOwner DEF AloneInv
<1> QED BY <1>1, <1>2, InvHolds, PTL DEF Spec

\* A step that touches no row is invisible in the ledger.
LEMMA LedgerUnchanged ==
    ASSUME table' = table
    PROVE  UNCHANGED tableLedger
BY DEF tableLedger

\* createInitialStatus opens the ledger's entry.
LEMMA CreateIsOpen ==
    ASSUME Inv, NEW id \in Ids, CreateInitialStatus(id, ToSet(Request[id].channels))
    PROVE  Ledger!LedgerNext
<1> DEFINE chans == ToSet(Request[id].channels)
<1>1. PICK row \in Row : row = InitialRow(chans)
      BY RequestFacts, InitialRowIsConsistent
<1>2. /\ table[id] = None /\ row # None
      /\ table' = [table EXCEPT ![id] = row] /\ table \in [Ids -> Row \cup {None}]
      BY <1>1, NoneAssumption DEF CreateInitialStatus, Inv, TypeOK, StatusTypeOK
<1>3. /\ tableLedger[id] = None
      /\ tableLedger' = [tableLedger EXCEPT ![id] = row.channels]
      BY <1>2 DEF tableLedger
<1>4. Ledger!Open(id, chans)
      BY <1>1, <1>3 DEF Ledger!Open, Ledger!InitialRow, InitialRow
<1> QED BY <1>4, RequestFacts DEF Ledger!LedgerNext

\* What the owner saves: the row that is there, with its change.
LEMMA SaveWrites ==
    ASSUME Inv, OwnerInv, NEW w \in Workers, WorkerSave(w)
    PROVE  \E id \in Ids, old \in Row, c \in Channels, s \in WorkerStatuses :
               /\ id = Current(w) /\ c = WorkerChannel(w) /\ s = StatusToReport(w)
               /\ table[id] = old /\ old # None
               /\ table' = [table EXCEPT ![id] = WithChannel(old, c, s)]
<1>1. /\ Current(w) \in Ids /\ WorkerChannel(w) \in Channels
      /\ StatusToReport(w) \in WorkerStatuses
      BY InMessageFacts DEF WorkerSave, StatusToReport, WorkerStatuses
<1>2. call[w] # None /\ table' = [table EXCEPT ![call[w].id] = call[w].row]
      BY DEF WorkerSave, UpdateSave
<1>3. /\ table[Current(w)] # None /\ call[w].id = Current(w)
      /\ call[w].row = WithChannel(table[Current(w)], WorkerChannel(w), StatusToReport(w))
      BY <1>2 DEF OwnerInv, OwnerWorks, Carries
<1>4. table[Current(w)] \in Row
      BY <1>1, <1>3 DEF Inv, TypeOK, StatusTypeOK
<1> QED BY <1>1, <1>2, <1>3, <1>4

\* The save of the owner is its report.
LEMMA SaveIsReport ==
    ASSUME Inv, OwnerInv, NEW w \in Workers, WorkerSave(w)
    PROVE  Ledger!LedgerNext
<1>1. PICK id \in Ids, old \in Row, c \in Channels, s \in WorkerStatuses :
          /\ table[id] = old /\ old # None
          /\ table' = [table EXCEPT ![id] = WithChannel(old, c, s)]
      BY SaveWrites
<1>2. PICK new \in Row : new = WithChannel(old, c, s) /\ new.channels = [old.channels EXCEPT ![c] = s]
  <2>1. WithChannel(old, c, s) \in Row
        BY WithChannelConsistent
  <2>2. WithChannel(old, c, s).channels = [old.channels EXCEPT ![c] = s]
        BY DEF WithChannel
  <2> QED BY <2>1, <2>2
<1>3. /\ table \in [Ids -> Row \cup {None}] /\ new # None /\ old.channels # None
      /\ table' = [table EXCEPT ![id] = new]
      BY <1>1, <1>2, NoneAssumption DEF Inv, TypeOK, StatusTypeOK, Row
<1>4. /\ tableLedger[id] = old.channels
      /\ tableLedger' = [tableLedger EXCEPT ![id] = new.channels]
      BY <1>1, <1>3 DEF tableLedger
<1>5. Ledger!Report(id, c, s)
      BY <1>2, <1>3, <1>4 DEF Ledger!Report, tableLedger
<1> QED BY <1>5 DEF Ledger!LedgerNext, Ledger!WorkerStatuses, WorkerStatuses

\* Who writes rows while nobody disturbs the owner.
LEMMA WhoWrites ==
    ASSUME Inv, OwnerInv, receipts = {}, receipts' = {}, [Next]_vars
    PROVE  \/ table' = table
           \/ \E id \in Ids : WriteInitialRow(id) /\ CreateInitialStatus(id, ToSet(Request[id].channels))
           \/ \E w \in Workers : WorkerSave(w)
<1>1. ASSUME NEW id \in Ids, Post(id) \/ ApiStep(id)
      PROVE  \/ table' = table
             \/ WriteInitialRow(id) /\ CreateInitialStatus(id, ToSet(Request[id].channels))
      BY <1>1 DEF ApiStep, Post, WriteInitialRow, SendMessage, SendMessageFails, statusVars
<1>2. ASSUME NEW w \in Workers, WorkerStep(w)
      PROVE  table' = table \/ WorkerSave(w)
      BY <1>2 DEF WorkerStep, Receive, WorkerRead, UpdateRead, WorkerUpdateFails,
                  UpdateAbandon, Send, MarkMessage, statusVars
<1>3. ASSUME NEW w \in Workers, GroupStep(w) \/ Crash(w)
      PROVE  table' = table
      BY <1>3 DEF GroupStep, JoinGroup, AutoCommit, SessionEnds, Crash, statusVars
<1>4. ASSUME NEW h \in Hooks, HookStep(h)
      PROVE  FALSE
      BY <1>4
         DEF HookStep, HandleWebhook, HookSave, UpdateSave, HookSaveFails, UpdateAbandon, OwnerInv
<1>5. CASE Rebalance \/ ForeignMessage \/ UNCHANGED vars
      BY <1>5 DEF Rebalance, ForeignMessage, vars, statusVars
<1> QED BY <1>1, <1>2, <1>3, <1>4, <1>5 DEF Next

(***************************************************************************)
(* As long as nobody disturbs the owner of the partition, the table holds  *)
(* what was reported last for each channel: the SELECT and the UPDATE of   *)
(* UpdateChannelStatus act as one report (ImplementsLedger), though the    *)
(* database may fail either and a process may die between them.            *)
(***************************************************************************)
THEOREM ServiceImplementsLedger == Spec /\ []Undisturbed => ImplementsLedger
<1>1. Init => Ledger!LedgerInit
      BY DEF Init, StatusInit, Ledger!LedgerInit, tableLedger
<1>2. Inv /\ AloneInv /\ Undisturbed /\ Undisturbed' /\ [Next]_vars
          => [Ledger!LedgerNext]_tableLedger
  <2> SUFFICES ASSUME Inv, AloneInv, Undisturbed, Undisturbed', [Next]_vars
               PROVE  [Ledger!LedgerNext]_tableLedger
      OBVIOUS
  <2>1. OwnerInv /\ receipts = {} /\ receipts' = {}
        BY DEF AloneInv, Undisturbed
  <2> QED BY <2>1, WhoWrites, LedgerUnchanged, CreateIsOpen, SaveIsReport
<1> QED BY <1>1, <1>2, InvHolds, AloneHolds, PTL
        DEF Spec, ImplementsLedger, Ledger!LedgerSpec

-----------------------------------------------------------------------------
(***************************************************************************)
(* What a polling client sees.  Until the first fault, and until a         *)
(* provider calls back, a message is worked on once, by one worker, which  *)
(* takes one channel after the other.  So the row of a notification says   *)
(* how far that worker has come.                                           *)
(***************************************************************************)
Calm == faults = 0 /\ receipts = {}

AllPending(id) ==
    \A i \in 1 .. Len(Request[id].channels) :
        table[id].channels[Request[id].channels[i]] = "PENDING"

\* What the row may say of channel c while w works on the v.ch-th channel.
StatusMidway(w, c) ==
    LET chs == WorkerChannels(w)
        v   == worker[w]
    IN  IF v.pc # "processing" /\ c = chs[v.ch] THEN {"PROCESSING"}
        ELSE IF \E j \in 1 .. Len(chs) : j < v.ch /\ chs[j] = c THEN FinalStatus(c)
        ELSE {"PENDING"}

Midway(w) ==
    LET id  == Current(w)
        chs == WorkerChannels(w)
        v   == worker[w]
    IN  v.pc \in {"processing", "send", "final"} /\ table[id] # None =>
            /\ v.pc = "final" /\ v.ok => chs[v.ch] \in Supported
            /\ \A i \in 1 .. Len(chs) : table[id].channels[chs[i]] \in StatusMidway(w, chs[i])

LoggedOnce ==
    /\ MessagesAreUnique
    /\ \A id \in Ids : api[id] \in {"idle", "create", "produce"} => ~ Logged(id)

FirstRun ==
    /\ LoggedOnce
    /\ \A id \in Ids : table[id] # None /\ ~ Begun(id) => AllPending(id)
    /\ \A w \in Workers : Midway(w)

CalmInv == Calm => FirstRun

(***************************************************************************)
(* A row goes back when a channel is worked on again that has failed, or   *)
(* when it is the last of the channels and all are completed.  A request   *)
(* that names no channel twice is safe from both.                          *)
(***************************************************************************)
RepeatsHarmlessly(id) ==
    LET chs == Request[id].channels
    IN  \A j \in 1 .. Len(chs) : NamedBefore(id, j) =>
            /\ chs[j] \in Supported \ Flaky
            /\ \E k \in 1 .. Len(chs) :
                   chs[k] \notin Supported \/ \A i \in 1 .. Len(chs) : i < j => chs[i] # chs[k]

\* A fault or a callback ends the calm for good.
LEMMA CalmBefore ==
    ASSUME Inv, [Next]_vars, Calm'
    PROVE  Calm
BY FaultsGrow, CallbacksStay, FaultsAssumption DEF Calm, Inv, TypeOK

\* Calm is stricter than Undisturbed.
LEMMA CalmIsUndisturbed ==
    ASSUME Calm
    PROVE  Undisturbed
BY DEF Calm, Undisturbed

\* In the calm nothing is a fault.
LEMMA NoFaultInCalm ==
    ASSUME Calm, Calm', NEW kind
    PROVE  ~ Fault(kind)
BY DEF Calm, Fault

(***************************************************************************)
(* A row that no worker has begun on stays so until one begins.            *)
(***************************************************************************)
LEMMA PendingKept ==
    ASSUME Inv, Grows, FirstRun, LoopsGoOn,
           NEW id \in Ids, table[id] # None, table'[id] = table[id], ~ Begun(id)'
    PROVE  AllPending(id)'
BY BegunStays DEF FirstRun, AllPending, Inv, TypeOK

\* The row of the message in hand says the same while neither of them changes.
LEMMA MidwayKept ==
    ASSUME Inv, Grows, FirstRun, NEW w \in Workers,
           worker[w].pc # "wait" =>
               /\ position'[w] = position[w]
               /\ table'[Current(w)] = table[Current(w)],
           worker'[w] = worker[w]
    PROVE  Midway(w)'
<1>1. CASE worker[w].pc = "wait"
      BY <1>1 DEF Midway
<1>2. CASE worker[w].pc # "wait"
  <2>1. Current(w)' = Current(w)
        BY <1>2, QuietFacts DEF Grows, Current
  <2>2. WorkerChannels(w)' = WorkerChannels(w)
        BY <2>1 DEF WorkerChannels
  <2>3. \A c : StatusMidway(w, c)' = StatusMidway(w, c)
        BY <2>2 DEF StatusMidway, FinalStatus
  <2>4. table'[Current(w)'] = table[Current(w)] /\ Midway(w)
        BY <1>2, <2>1 DEF FirstRun
  <2> QED BY <2>1, <2>2, <2>3, <2>4 DEF Midway
<1> QED BY <1>1, <1>2

\* A step that touches neither the log nor a row nor a request.
LEMMA FirstRunKept ==
    ASSUME Inv, FirstRun, UNCHANGED <<log, sends, receipts, api, table>>,
           LoopsGoOn,
           \A w \in Workers : Midway(w)'
    PROVE  FirstRun'
<1>1. Grows
      BY GrowsInPlace DEF Inv, TypeOK
<1>2. LoggedOnce'
      BY DEF FirstRun, LoggedOnce, MessagesAreUnique, Logged
<1>3. \A id \in Ids : (table[id] # None /\ ~ Begun(id) => AllPending(id))'
      BY <1>1, PendingKept
<1> QED BY <1>2, <1>3 DEF FirstRun

-----------------------------------------------------------------------------
(***************************************************************************)
(* The steps of a request.                                                 *)
(***************************************************************************)
LEMMA WriteKeepsFirstRun ==
    ASSUME Inv, FirstRun, NEW id \in Ids, WriteInitialRow(id), Calm, Calm'
    PROVE  FirstRun'
<1>1. /\ api[id] = "create" /\ api' = [api EXCEPT ![id] = "produce"]
      /\ UNCHANGED <<log, owner, session, position, worker, sends, receipts>>
      BY DEF WriteInitialRow, SetApi, topicVars
<1>2. CreateInitialStatus(id, ToSet(Request[id].channels))
      BY NoFaultInCalm DEF WriteInitialRow
<1>3. /\ table'[id] = InitialRow(ToSet(Request[id].channels))
      /\ \A i \in Ids \ {id} : table'[i] = table[i]
      BY <1>2 DEF CreateInitialStatus, Inv, TypeOK, StatusTypeOK
<1>4. Grows /\ ~ Logged(id)
      BY <1>1, GrowsInPlace DEF Inv, TypeOK, FirstRun, LoggedOnce
<1>5. LoggedOnce'
      BY <1>1 DEF FirstRun, LoggedOnce, MessagesAreUnique, Logged, Inv, TypeOK
<1>6. AllPending(id)'
  <2>1. \A c \in ToSet(Request[id].channels) : table'[id].channels[c] = "PENDING"
        BY <1>3, RequestFacts DEF InitialRow
  <2>2. \A i \in 1 .. Len(Request[id].channels) :
            Request[id].channels[i] \in ToSet(Request[id].channels)
        BY RequestFacts
  <2> QED BY <2>1, <2>2 DEF AllPending
<1>7. ASSUME NEW i \in Ids, i # id, table'[i] # None, ~ Begun(i)'
      PROVE  AllPending(i)'
      BY <1>1, <1>3, <1>4, <1>7, PendingKept, OffsetFacts DEF LoopsGoOn
<1>8. ASSUME NEW w \in Workers
      PROVE  Midway(w)'
  <2>1. worker[w].pc # "wait" => Current(w) \in Ids \ {id}
        BY <1>4, QuietFacts
  <2> QED BY <1>1, <1>3, <1>4, <2>1, MidwayKept
<1> QED BY <1>5, <1>6, <1>7, <1>8 DEF FirstRun

\* A message is logged once, for a request that was not logged before.
LEMMA SendMessageKeepsFirstRun ==
    ASSUME Inv, FirstRun, NEW id \in Ids, SendMessage(id), Calm, Calm'
    PROVE  FirstRun'
<1>1. /\ api[id] = "produce" /\ api' = [api EXCEPT ![id] = "accepted"]
      /\ Append1(id)
      /\ UNCHANGED <<worker, table, sends, receipts>>
      BY NoFaultInCalm DEF SendMessage, SetApi, statusVars
<1>2. /\ Len(log') = Len(log) + 1 /\ Len(log) \in Nat
      /\ \A k \in 1 .. Len(log) : log'[k] = log[k]
      /\ log'[Len(log) + 1] = id
      /\ UNCHANGED <<session, position>>
      BY <1>1, KeysAssumption DEF Append1, groupVars, Inv, TypeOK, TopicTypeOK
<1>3. Grows /\ ~ Logged(id)
      BY <1>1, GrowsByAppend DEF Inv, TypeOK, FirstRun, LoggedOnce
<1>4. LoggedOnce'
  <2>1. MessagesAreUnique'
        BY <1>1, <1>3, AppendKeepsUnique DEF FirstRun, LoggedOnce, Inv, TypeOK
  <2>2. ASSUME NEW i \in Ids, api'[i] \in {"idle", "create", "produce"}
        PROVE  ~ Logged(i)'
    <3>1. i # id /\ ~ Logged(i)
          BY <1>1, <2>2 DEF FirstRun, LoggedOnce, Inv, TypeOK
    <3> QED BY <1>1, <3>1, AppendFacts DEF Inv, TypeOK
  <2> QED BY <2>1, <2>2 DEF LoggedOnce
<1>5. ASSUME NEW i \in Ids, table'[i] # None, ~ Begun(i)'
      PROVE  AllPending(i)'
      BY <1>1, <1>2, <1>3, <1>5, PendingKept, OffsetFacts DEF LoopsGoOn
<1>6. \A w \in Workers : Midway(w)'
      BY <1>1, <1>2, <1>3, MidwayKept
<1> QED BY <1>4, <1>5, <1>6 DEF FirstRun

-----------------------------------------------------------------------------
(***************************************************************************)
(* The steps of a loop.                                                    *)
(***************************************************************************)
LEMMA ReceiveKeepsFirstRun ==
    ASSUME Inv, OwnerInv, FirstRun, NEW w \in Workers, Receive(w)
    PROVE  FirstRun'
<1>1. PICK n \in 1 .. Len(log) : n = position[w] + 1
      BY OffsetFacts DEF Receive, Deliver
<1>2. /\ session[w] /\ worker[w].pc = "wait" /\ position[w] \in 0 .. Len(log)
      /\ position'[w] = n /\ \A v \in Workers \ {w} : position'[v] = position[v]
      /\ \A v \in Workers \ {w} : worker'[v] = worker[v]
      /\ UNCHANGED <<log, session, sends, receipts, api, table>>
      BY <1>1, OffsetFacts DEF Receive, Deliver, statusVars
<1>3. Grows
      BY <1>2, GrowsInPlace DEF Inv, TypeOK
<1>4. Midway(w)'
  <2>1. CASE log[n] = Junk
        BY <1>1, <1>2, <2>1 DEF Receive, Midway
  <2>2. CASE log[n] # Junk
    <3>1. PICK id \in Ids : id = log[n]
          BY <2>2, OffsetFacts
    <3>2. ~ Begun(id)
      <4> SUFFICES ASSUME NEW v \in Workers, session[v], NEW k \in 1 .. position[v], log[k] = id
                   PROVE  FALSE
          BY DEF Begun
      <4>1. v = w
            BY <1>2, OthersWait
      <4>2. k \in 1 .. Len(log) /\ k # n
            BY <1>1, <4>1, OffsetFacts
      <4> QED BY <3>1, <4>2 DEF FirstRun, LoggedOnce, MessagesAreUnique
    <3>3. PICK new : new = AtChannel(1, Len(Request[id].channels)) /\ worker'[w] = new
          BY <1>1, <1>2, <2>2, <3>1, OffsetFacts DEF Receive
    <3>4. new.pc \in {"processing", "mark"} /\ new.ch = 1
          BY <3>3 DEF AtChannel
    <3>5. Current(w)' = id /\ WorkerChannels(w)' = Request[id].channels
          BY <1>2, <3>1 DEF Current, WorkerChannels
    <3>6. table'[id] # None => AllPending(id)
          BY <1>2, <3>2 DEF FirstRun
    <3>7. ASSUME new.pc = "processing", NEW c
          PROVE  StatusMidway(w, c)' = {"PENDING"}
          BY <3>3, <3>4, <3>5, <3>7, RequestFacts DEF StatusMidway
    <3> QED BY <1>2, <3>3, <3>4, <3>5, <3>6, <3>7 DEF Midway, AllPending
  <2> QED BY <2>1, <2>2
<1>5. \A v \in Workers : Midway(v)'
      BY <1>2, <1>3, <1>4, MidwayKept
<1> QED BY <1>1, <1>2, <1>5, FirstRunKept, OffsetFacts DEF LoopsGoOn

\* What an update says of its channel is what its place in the loop stands for.
LEMMA SaveKeepsFirstRun ==
    ASSUME Inv, OwnerInv, FirstRun, NEW w \in Workers, WorkerSave(w)
    PROVE  FirstRun'
<1>1. PICK id \in Ids, row \in Row, c \in Channels, s \in WorkerStatuses :
          /\ id = Current(w) /\ c = WorkerChannel(w) /\ s = StatusToReport(w)
          /\ table[id] = row /\ row # None
          /\ table' = [table EXCEPT ![id] = WithChannel(row, c, s)]
      BY SaveWrites
<1>2. PICK old \in WorkerState : old = worker[w]
      BY InMessageFacts DEF WorkerSave
<1> DEFINE chs == Request[id].channels
<1>3. /\ old.pc \in {"processing", "final"} /\ session[w]
      /\ position[w] \in 1 .. Len(log) /\ log[position[w]] = id
      /\ old.ch \in 1 .. Len(chs) /\ Len(chs) \in Nat /\ c = chs[old.ch]
      /\ \A i \in 1 .. Len(chs) : chs[i] \in Channels
      /\ WorkerChannels(w) = chs
      BY <1>1, <1>2, QuietFacts, InMessageFacts, RequestFacts
         DEF WorkerSave, WorkerChannels, WorkerChannel
<1>4. /\ table'[id].channels = [row.channels EXCEPT ![c] = s]
      /\ \A i \in Ids \ {id} : table'[i] = table[i]
      BY <1>1 DEF WithChannel, Inv, TypeOK, StatusTypeOK
<1>5. /\ UNCHANGED <<topicVars, api, sends, receipts>> /\ Grows
      /\ Current(w)' = id /\ WorkerChannels(w)' = chs
      BY <1>1, GrowsInPlace DEF WorkerSave, topicVars, Inv, TypeOK, Current, WorkerChannels
<1>6. PICK new : /\ worker' = [worker EXCEPT ![w] = new]
                 /\ new = IF old.pc = "processing" THEN Dispatch(w)
                          ELSE AtChannel(old.ch + 1, Len(chs))
      BY <1>2, <1>3 DEF WorkerSave, AfterUpdate
<1>7. worker'[w] = new /\ \A v \in Workers \ {w} : worker'[v] = worker[v]
      BY <1>6 DEF Inv, TypeOK
<1>8. /\ old.pc = "final" /\ old.ok => c \in Supported
      /\ \A i \in 1 .. Len(chs) : row.channels[chs[i]] \in StatusMidway(w, chs[i])
  <2>1. Midway(w)
        BY DEF FirstRun
  <2> QED BY <1>1, <1>2, <1>3, <2>1 DEF Midway
<1>9. \A i \in 1 .. Len(chs) :
          table'[id].channels[chs[i]] = IF chs[i] = c THEN s ELSE row.channels[chs[i]]
      BY <1>3, <1>4 DEF Row, ChannelMaps
<1>10. Midway(w)'
  <2>1. CASE old.pc = "processing"
    <3>1. /\ new.pc \in {"send", "final"} /\ new.ch = old.ch
          /\ new.pc = "final" /\ new.ok => c \in Supported
          BY <1>1, <1>2, <1>6, <2>1 DEF Dispatch
    <3>2. s = "PROCESSING"
          BY <1>1, <1>2, <2>1 DEF StatusToReport
    <3>3. ASSUME NEW i \in 1 .. Len(chs)
          PROVE  table'[id].channels[chs[i]] \in StatusMidway(w, chs[i])'
      <4>1. CASE chs[i] = c
            BY <1>3, <1>5, <1>7, <1>9, <3>1, <3>2, <4>1 DEF StatusMidway
      <4>2. CASE chs[i] # c
        <5>1. StatusMidway(w, chs[i])' = StatusMidway(w, chs[i])
              BY <1>2, <1>3, <1>5, <1>7, <2>1, <3>1, <4>2 DEF StatusMidway, FinalStatus
        <5> QED BY <1>8, <1>9, <4>2, <5>1
      <4> QED BY <4>1, <4>2
    <3> QED BY <1>3, <1>5, <1>7, <3>1, <3>3 DEF Midway
  <2>2. CASE old.pc = "final"
    <3>1. new.pc = "mark" \/ (new.pc = "processing" /\ new.ch = old.ch + 1)
          BY <1>6, <2>2 DEF AtChannel
    <3>2. s \in FinalStatus(c)
      <4>1. IF old.ok THEN c \in Supported ELSE c \notin Supported \ Flaky
            BY <1>1, <1>2, <1>3, <1>8, <2>2, InMessageFacts DEF InMessage
      <4>2. s = IF old.ok THEN "COMPLETED" ELSE "FAILED"
            BY <1>1, <1>2, <2>2 DEF StatusToReport
      <4> QED BY <4>1, <4>2 DEF FinalStatus
    <3>3. ASSUME NEW i \in 1 .. Len(chs), new.pc = "processing"
          PROVE  table'[id].channels[chs[i]] \in StatusMidway(w, chs[i])'
      <4>1. new.ch = old.ch + 1
            BY <3>1, <3>3
      <4>2. CASE chs[i] = c
        <5>1. StatusMidway(w, c)' = FinalStatus(c)
              BY <1>3, <1>5, <1>7, <3>3, <4>1 DEF StatusMidway, FinalStatus
        <5> QED BY <1>9, <3>2, <4>2, <5>1
      <4>3. CASE chs[i] # c
        <5>1. \A j \in 1 .. Len(chs) : chs[j] = chs[i] => (j < old.ch <=> j < new.ch)
              BY <1>3, <4>1, <4>3
        <5>2. StatusMidway(w, chs[i])' = StatusMidway(w, chs[i])
              BY <1>2, <1>3, <1>5, <1>7, <2>2, <3>3, <4>3, <5>1 DEF StatusMidway, FinalStatus
        <5> QED BY <1>8, <1>9, <4>3, <5>2
      <4> QED BY <4>2, <4>3
    <3> QED BY <1>5, <1>7, <3>1, <3>3 DEF Midway
  <2> QED BY <1>3, <2>1, <2>2
<1>11. \A v \in Workers \ {w} : Midway(v)'
       BY <1>3, <1>7, OthersWait DEF Midway
<1>12. ASSUME NEW i \in Ids, table'[i] # None, ~ Begun(i)'
       PROVE  AllPending(i)'
  <2>1. Begun(id)'
        BY <1>3, <1>5 DEF Begun, topicVars
  <2>2. LoopsGoOn
        BY <1>5, OffsetFacts DEF LoopsGoOn, topicVars
  <2>3. i # id /\ table'[i] = table[i]
        BY <1>4, <1>12, <2>1
  <2> QED BY <1>5, <1>12, <2>2, <2>3, PendingKept
<1>13. LoggedOnce'
       BY <1>5 DEF FirstRun, LoggedOnce, MessagesAreUnique, Logged, topicVars
<1> QED BY <1>10, <1>11, <1>12, <1>13 DEF FirstRun

\* The other steps of the loop write no row.
LEMMA LoopKeepsFirstRun ==
    ASSUME Inv, FirstRun, NEW w \in Workers, Calm, Calm',
           WorkerRead(w) \/ WorkerUpdateFails(w) \/ Send(w) \/ MarkMessage(w)
    PROVE  FirstRun'
<1>1. /\ session[w] /\ UNCHANGED <<log, session, position, receipts, api, table>>
      /\ \A v \in Workers \ {w} : worker'[v] = worker[v]
      BY QuietFacts, OffsetFacts
         DEF WorkerRead, UpdateRead, WorkerUpdateFails, UpdateAbandon, AfterUpdate, Send, AfterSend,
             MarkMessage, Store, topicVars, statusVars
<1>2. Grows
      BY <1>1, SendGrows, GrowsInPlace DEF WorkerRead, WorkerUpdateFails, MarkMessage, Inv, TypeOK
<1>3. Current(w)' = Current(w) /\ WorkerChannels(w)' = WorkerChannels(w)
      BY <1>1 DEF Current, WorkerChannels
<1>4. Midway(w)'
  <2>1. CASE WorkerRead(w)
        BY <1>1, <1>2, <2>1, MidwayKept DEF WorkerRead
  <2>2. CASE WorkerUpdateFails(w)
    <3>1. table[Current(w)] = None
          BY <2>2, NoFaultInCalm DEF WorkerUpdateFails
    <3> QED BY <1>1, <1>3, <3>1 DEF Midway
  <2>3. CASE Send(w)
    <3>1. PICK old \in WorkerState : old = worker[w]
          BY <2>3, InMessageFacts DEF Send
    <3>2. /\ worker'[w].ch = old.ch /\ worker'[w].pc \in {"send", "final"}
          /\ worker'[w].ok => old.ok
      <4>1. PICK delivered \in BOOLEAN : AfterSend(w, delivered)
            BY <2>3 DEF Send
      <4>2. worker' = [worker EXCEPT ![w] =
                [pc |-> IF old.rcp = Len(WorkerRecipients(w)) THEN "final" ELSE "send",
                 ch |-> old.ch, rcp |-> old.rcp + 1, ok |-> old.ok /\ delivered]]
            BY <3>1, <4>1 DEF AfterSend
      <4>3. worker'[w] =
                [pc |-> IF old.rcp = Len(WorkerRecipients(w)) THEN "final" ELSE "send",
                 ch |-> old.ch, rcp |-> old.rcp + 1, ok |-> old.ok /\ delivered]
            BY <4>2, OffsetFacts
      <4>4. worker'[w].ok = (old.ok /\ delivered)
            BY <4>3
      <4>5. worker'[w].ok => old.ok
            BY <4>4, Zenon
      <4>6. worker'[w].ch = old.ch /\ worker'[w].pc \in {"send", "final"}
            BY <4>3
      <4> QED BY <4>5, <4>6
    <3>3. old.pc = "send" /\ WorkerChannels(w)[old.ch] \in Supported /\ Midway(w)
          BY <2>3, <3>1, InMessageFacts DEF Send, InMessage, WorkerChannels, FirstRun
    <3>4. \A c : StatusMidway(w, c)' = StatusMidway(w, c)
          BY <1>3, <3>1, <3>2, <3>3 DEF StatusMidway, FinalStatus
    <3> QED BY <1>1, <1>3, <3>1, <3>2, <3>3, <3>4 DEF Midway
  <2>4. CASE MarkMessage(w)
        BY <2>4, OffsetFacts DEF MarkMessage, Idle, Midway
  <2> QED BY <2>1, <2>2, <2>3, <2>4
<1>5. \A v \in Workers : Midway(v)'
      BY <1>1, <1>2, <1>4, MidwayKept
<1>6. LoggedOnce'
      BY <1>1 DEF FirstRun, LoggedOnce, MessagesAreUnique, Logged
<1>7. \A id \in Ids : (table[id] # None /\ ~ Begun(id) => AllPending(id))'
      BY <1>1, <1>2, PendingKept, OffsetFacts DEF LoopsGoOn
<1> QED BY <1>5, <1>6, <1>7 DEF FirstRun

\* In the calm no session ends, and taking over touches no row.
LEMMA GroupKeepsFirstRun ==
    ASSUME Inv, OwnerInv, FirstRun, NEW w \in Workers, GroupStep(w)
    PROVE  FirstRun'
<1>1. ~ SessionEnds(w)
      BY DEF SessionEnds, EndSession, OwnerInv, OwnerWorks
<1>2. CASE JoinGroup(w)
  <2>1. /\ ~ session[w] /\ UNCHANGED <<log, worker, sends, receipts, api, table>>
        /\ \A v \in Workers \ {w} : Still(v)
        BY <1>2, OffsetFacts DEF JoinGroup, Assign, Begin, Still, statusVars, serviceVars
  <2>2. worker[w].pc = "wait" /\ Grows
        BY <2>1, QuietFacts, GrowsInPlace DEF Inv, TypeOK
  <2>3. /\ \A v \in Workers : worker'[v] = worker[v]
        /\ \A v \in Workers : session[v] => /\ session'[v] = session[v]
                                            /\ position'[v] = position[v]
        BY <2>1 DEF Still
  <2>4. \A v \in Workers : worker[v].pc # "wait" => position'[v] = position[v]
        BY <2>1, <2>2 DEF Still
  <2>5. \A v \in Workers : Midway(v)'
        BY <2>1, <2>2, <2>3, <2>4, MidwayKept
  <2>6. LoopsGoOn
        BY <2>3, OffsetFacts DEF LoopsGoOn
  <2> QED BY <2>1, <2>5, <2>6, FirstRunKept
<1>3. CASE AutoCommit(w)
  <2>1. UNCHANGED <<log, session, position, worker, sends, receipts, api, table>>
        BY <1>3 DEF AutoCommit, Commit, statusVars, serviceVars
  <2>2. \A v \in Workers : Midway(v)'
        BY <2>1, GrowsInPlace, MidwayKept DEF Inv, TypeOK
  <2> QED BY <2>1, <2>2, FirstRunKept, OffsetFacts DEF LoopsGoOn
<1> QED BY <1>1, <1>2, <1>3 DEF GroupStep

\* Every step keeps FirstRun, as long as the calm lasts.
LEMMA NextKeepsFirstRun ==
    ASSUME Inv, OwnerInv, FirstRun, [Next]_vars, Calm, Calm'
    PROVE  FirstRun'
<1>1. ASSUME NEW id \in Ids, ApiStep(id)
      PROVE  FirstRun'
      BY <1>1, WriteKeepsFirstRun, SendMessageKeepsFirstRun, NoFaultInCalm
         DEF ApiStep, SendMessageFails
<1>2. ASSUME NEW w \in Workers, WorkerStep(w) \/ GroupStep(w)
      PROVE  FirstRun'
      BY <1>2, ReceiveKeepsFirstRun, SaveKeepsFirstRun, LoopKeepsFirstRun, GroupKeepsFirstRun
         DEF WorkerStep
<1>3. ASSUME NEW id \in Ids, Post(id)
      PROVE  FirstRun'
  <2>1. /\ api[id] = "idle" /\ api' = [api EXCEPT ![id] = "create"]
        /\ UNCHANGED <<log, session, position, worker, sends, receipts, table>>
        BY <1>3 DEF Post, SetApi, topicVars, statusVars
  <2>2. Grows
        BY <2>1, GrowsInPlace DEF Inv, TypeOK
  <2>3. LoggedOnce'
        BY <2>1 DEF FirstRun, LoggedOnce, MessagesAreUnique, Logged, Inv, TypeOK
  <2>4. \A i \in Ids : (table[i] # None /\ ~ Begun(i) => AllPending(i))'
        BY <2>1, <2>2, PendingKept, OffsetFacts DEF LoopsGoOn
  <2>5. \A w \in Workers : Midway(w)'
        BY <2>1, <2>2, MidwayKept
  <2> QED BY <2>3, <2>4, <2>5 DEF FirstRun
<1>4. CASE UNCHANGED vars
  <2>1. UNCHANGED <<log, session, position, worker, sends, receipts, api, table>>
        BY <1>4 DEF vars, topicVars, statusVars, serviceVars
  <2>2. \A w \in Workers : Midway(w)'
        BY <2>1, GrowsInPlace, MidwayKept DEF Inv, TypeOK
  <2> QED BY <2>1, <2>2, FirstRunKept, OffsetFacts DEF LoopsGoOn
<1>5. ~ Rebalance /\ ~ ForeignMessage /\ \A w \in Workers : ~ Crash(w)
      BY NoFaultInCalm DEF Rebalance, ForeignMessage, Crash
<1>6. \A h \in Hooks : ~ HookStep(h)
      BY DEF HookStep, HandleWebhook, HookSave, UpdateSave, HookSaveFails, UpdateAbandon,
             OwnerInv, Calm
<1> QED BY <1>1, <1>2, <1>3, <1>4, <1>5, <1>6 DEF Next

\* In the calm the rows say how far each message has come (CalmInv).
THEOREM CalmHolds == Spec => []CalmInv
<1>1. Init => CalmInv
  <2> SUFFICES ASSUME Init
               PROVE  FirstRun
      BY DEF CalmInv
  <2>1. Len(log) = 0
        BY EmptySeq DEF Init, TopicInit
  <2>2. LoggedOnce
        BY <2>1 DEF LoggedOnce, MessagesAreUnique, Logged
  <2> QED BY <2>2 DEF Init, StatusInit, Idle, FirstRun, Midway
<1>2. Inv /\ AloneInv /\ CalmInv /\ [Next]_vars => CalmInv'
      BY CalmBefore, CalmIsUndisturbed, NextKeepsFirstRun DEF AloneInv, CalmInv
<1> QED BY <1>1, <1>2, InvHolds, AloneHolds, PTL DEF Spec

-----------------------------------------------------------------------------
(***************************************************************************)
(* A row that the owner is about to change has an unfinished channel, and  *)
(* the channel it changes has not failed.                                  *)
(***************************************************************************)
LEMMA UnfinishedAtSave ==
    ASSUME Inv, FirstRun, NEW w \in Workers, worker[w].pc \in {"processing", "final"},
           NEW id \in Ids, id = Current(w), table[id] # None, RepeatsHarmlessly(id)
    PROVE  /\ \E d \in Channels : table[id].channels[d] \in {"PENDING", "PROCESSING", "FAILED"}
           /\ table[id].channels[WorkerChannel(w)] \notin Failed
<1> DEFINE chs == Request[id].channels
           ch == worker[w].ch
<1>1. /\ ch \in 1 .. Len(chs) /\ WorkerChannels(w) = chs /\ WorkerChannel(w) = chs[ch]
      /\ Len(chs) \in Nat /\ \A i \in 1 .. Len(chs) : chs[i] \in Channels
      BY InMessageFacts, RequestFacts DEF WorkerChannels, WorkerChannel
<1>2. \A i \in 1 .. Len(chs) : table[id].channels[chs[i]] \in StatusMidway(w, chs[i])
      BY <1>1 DEF FirstRun, Midway
<1>3. CASE worker[w].pc = "final"
  <2>1. table[id].channels[chs[ch]] = "PROCESSING"
        BY <1>1, <1>2, <1>3 DEF StatusMidway
  <2> QED BY <1>1, <2>1 DEF Failed
<1>4. CASE worker[w].pc = "processing"
  <2>1. \A i \in 1 .. Len(chs) :
            table[id].channels[chs[i]] \in IF \E j \in 1 .. Len(chs) : j < ch /\ chs[j] = chs[i]
                                           THEN FinalStatus(chs[i]) ELSE {"PENDING"}
        BY <1>1, <1>2, <1>4 DEF StatusMidway
  <2>2. CASE ~ NamedBefore(id, ch)
    <3>1. table[id].channels[chs[ch]] = "PENDING"
          BY <1>1, <2>1, <2>2 DEF NamedBefore
    <3> QED BY <1>1, <3>1 DEF Failed
  <2>3. CASE NamedBefore(id, ch)
    <3>1. PICK k \in 1 .. Len(chs) :
              chs[k] \notin Supported \/ \A i \in 1 .. Len(chs) : i < ch => chs[i] # chs[k]
          BY <1>1, <2>3 DEF RepeatsHarmlessly
    <3>2. table[id].channels[chs[k]] \in {"PENDING", "FAILED"}
      <4>1. CASE chs[k] \notin Supported
        <5>1. FinalStatus(chs[k]) = {"FAILED"}
              BY <4>1 DEF FinalStatus
        <5> QED BY <2>1, <5>1
      <4>2. CASE \A i \in 1 .. Len(chs) : i < ch => chs[i] # chs[k]
        <5>1. ~ \E j \in 1 .. Len(chs) : j < ch /\ chs[j] = chs[k]
              BY <4>2
        <5> QED BY <2>1, <5>1
      <4> QED BY <3>1, <4>1, <4>2
    <3>3. chs[ch] \in Supported \ Flaky
          BY <1>1, <2>3 DEF RepeatsHarmlessly
    <3>4. table[id].channels[chs[ch]] = "COMPLETED"
      <4>1. \E j \in 1 .. Len(chs) : j < ch /\ chs[j] = chs[ch]
            BY <2>3 DEF NamedBefore
      <4> QED BY <1>1, <2>1, <3>3, <4>1 DEF FinalStatus
    <3> QED BY <1>1, <3>2, <3>4 DEF Failed
  <2> QED BY <2>2, <2>3
<1> QED BY <1>3, <1>4

\* The owner's save takes the row forward, or leaves its status.
LEMMA SaveAdvances ==
    ASSUME Inv, OwnerInv, FirstRun, NEW w \in Workers, WorkerSave(w),
           \A id \in Ids : RepeatsHarmlessly(id),
           NEW id \in Ids, table[id] # None
    PROVE  Advances(table[id], table'[id])
<1>1. PICK i \in Ids, row \in Row, c \in Channels, s \in WorkerStatuses :
          /\ i = Current(w) /\ c = WorkerChannel(w)
          /\ table[i] = row /\ row # None
          /\ table' = [table EXCEPT ![i] = WithChannel(row, c, s)]
      BY SaveWrites
<1>2. CASE i # id
      BY <1>1, <1>2 DEF Advances, Inv, TypeOK, StatusTypeOK
<1>3. CASE i = id
  <2>1. /\ \E d \in Channels : row.channels[d] \in {"PENDING", "PROCESSING", "FAILED"}
        /\ row.channels[c] \notin Failed
        BY <1>1, UnfinishedAtSave DEF WorkerSave
  <2>2. \E d \in Channels : row.channels[d] \notin Completed \cup {"ABSENT"}
        BY <2>1 DEF Completed
  <2>3. RowConsistent(row, Completed, Failed)
        BY <1>1 DEF Inv, StatusInv, RowsConsistent, Consistent
  <2>4. s \in ChannelStatuses \ {"ABSENT"} /\ Completed \cap Failed = {} /\ "ABSENT" \notin Failed
        BY DEF ChannelStatuses, WorkerStatuses, Completed, Failed
  <2>5. PICK m : m = [row.channels EXCEPT ![c] = s]
        OBVIOUS
  <2>6. WithChannel(row, c, s) = [status |-> Aggregate(m, Completed, Failed), channels |-> m]
        BY <2>5 DEF WithChannel, Overall
  <2>7. Advances(row, WithChannel(row, c, s))
        BY <2>1, <2>2, <2>3, <2>4, <2>5, <2>6, UpdateAdvances
  <2> QED BY <1>1, <1>3, <2>7 DEF Inv, TypeOK, StatusTypeOK
<1> QED BY <1>2, <1>3

(***************************************************************************)
(* A client that polls GET /status sees a notification advance             *)
(* (StatusAdvances), until the first fault and until a provider calls      *)
(* back, if requests name channels again only harmlessly.                  *)
(***************************************************************************)
THEOREM StatusesAdvance ==
    ASSUME \A id \in Ids : RepeatsHarmlessly(id)
    PROVE  Spec /\ [](receipts = {}) => StatusAdvances
<1>1. ASSUME Inv, AloneInv, CalmInv, receipts = {}, receipts' = {}, [Next]_vars, faults' = 0,
             NEW id \in Ids, GetStatus(id) # None
      PROVE  Advances(GetStatus(id), GetStatus(id)')
  <2>1. Calm /\ OwnerInv /\ FirstRun
        BY <1>1, CalmBefore, CalmIsUndisturbed DEF Calm, AloneInv, CalmInv
  <2>2. CASE table' = table
        BY <1>1, <2>2 DEF GetStatus, Advances
  <2>3. ASSUME NEW i \in Ids, CreateInitialStatus(i, ToSet(Request[i].channels))
        PROVE  table'[id] = table[id]
        BY <1>1, <2>3 DEF CreateInitialStatus, GetStatus, Inv, TypeOK, StatusTypeOK
  <2>4. ASSUME NEW w \in Workers, WorkerSave(w)
        PROVE  Advances(table[id], table'[id])
        BY <1>1, <2>1, <2>4, SaveAdvances DEF GetStatus
  <2> QED BY <1>1, <2>1, <2>2, <2>3, <2>4, WhoWrites DEF GetStatus, Advances
<1>2. Inv /\ AloneInv /\ CalmInv /\ receipts = {} /\ (receipts = {})' /\ [Next]_vars
          => [faults' = 0 => \A id \in Ids :
                 GetStatus(id) # None => Advances(GetStatus(id), GetStatus(id)')]_vars
      BY <1>1
<1> QED BY <1>2, InvHolds, AloneHolds, CalmHolds, PTL DEF Spec, StatusAdvances

===============================================================================
