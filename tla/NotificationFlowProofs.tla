------------------------ MODULE NotificationFlowProofs ------------------------
(***************************************************************************)
(* Lemmas about NotificationFlow, for the proofs about the services that   *)
(* extend it: what requests are made of, what grows in every step whatever *)
(* the service does, and which steps show in DeliveryPromise.              *)
(***************************************************************************)
EXTENDS NotificationFlow, FiniteSetTheorems, SequenceTheorems, TLAPS

\* The first n recipients of id have been reached over channel c.
SentTo(id, c, n) ==
    \A j \in 1 .. n : <<id, c, Request[id].recipients[j]>> \in Sent

\* Channel c of id needs no more work: sent, or nothing is owed for it.
ChannelDone(id, c) ==
    c \in Supported \ Flaky => SentTo(id, c, Len(Request[id].recipients))

(***************************************************************************)
(* The requests as the proofs use them.                                    *)
(***************************************************************************)
LEMMA RequestFacts ==
    ASSUME NEW id \in Ids
    PROVE  /\ Len(Request[id].channels) \in Nat
           /\ \A i \in 1 .. Len(Request[id].channels) : Request[id].channels[i] \in Channels
           /\ ToSet(Request[id].channels) =
                  {Request[id].channels[i] : i \in 1 .. Len(Request[id].channels)}
           /\ ToSet(Request[id].channels) \subseteq Channels
           /\ Len(Request[id].recipients) \in Nat
           /\ \A j \in 1 .. Len(Request[id].recipients) : Request[id].recipients[j] \in Recipients
           /\ ToSet(Request[id].recipients) =
                  {Request[id].recipients[j] : j \in 1 .. Len(Request[id].recipients)}
           /\ ToSet(Request[id].recipients) \subseteq Recipients
<1>1. Request[id].channels \in Seq(Channels) /\ Request[id].recipients \in Seq(Recipients)
      BY RequestAssumption DEF Requests
<1> QED BY <1>1 DEF ToSet

(***************************************************************************)
(* A message all of whose channels are done is handled (the end of the     *)
(* channel loop of ConsumeClaim).                                          *)
(***************************************************************************)
LEMMA AllDoneIsHandled ==
    ASSUME NEW id \in Ids,
           \A i \in 1 .. Len(Request[id].channels) : ChannelDone(id, Request[id].channels[i])
    PROVE  Owed[id] \subseteq Sent
<1> SUFFICES ASSUME NEW t \in Owed[id]
             PROVE  t \in Sent
    OBVIOUS
<1>1. /\ t \in {id} \X ToSet(Request[id].channels) \X ToSet(Request[id].recipients)
      /\ t[2] \in Supported \ Flaky
  <2>1. Owed[id] = {u \in Requested[id] : u[2] \in Supported \ Flaky}
        BY DEF Owed
  <2>2. Requested[id] = {id} \X ToSet(Request[id].channels) \X ToSet(Request[id].recipients)
        BY DEF Requested
  <2> QED BY <2>1, <2>2
<1>2. PICK i \in 1 .. Len(Request[id].channels) : t[2] = Request[id].channels[i]
  <2>1. t[2] \in ToSet(Request[id].channels)
        BY <1>1
  <2> QED BY <2>1, RequestFacts
<1>3. PICK j \in 1 .. Len(Request[id].recipients) : t[3] = Request[id].recipients[j]
  <2>1. t[3] \in ToSet(Request[id].recipients)
        BY <1>1
  <2> QED BY <2>1, RequestFacts
<1>4. t = <<id, Request[id].channels[i], Request[id].recipients[j]>>
      BY <1>1, <1>2, <1>3
<1>5. SentTo(id, Request[id].channels[i], Len(Request[id].recipients))
      BY <1>1, <1>2 DEF ChannelDone
<1> QED BY <1>4, <1>5 DEF SentTo

(***************************************************************************)
(* Deliveries made to all recipients of channel c are those the request    *)
(* names for it.                                                           *)
(***************************************************************************)
LEMMA SentToAll ==
    ASSUME NEW id \in Ids, NEW c \in Channels, SentTo(id, c, Len(Request[id].recipients)),
           NEW t \in Requested[id], t[2] = c
    PROVE  t \in Sent
<1>1. t \in {id} \X ToSet(Request[id].channels) \X ToSet(Request[id].recipients)
      BY DEF Requested
<1>2. PICK j \in 1 .. Len(Request[id].recipients) : t[3] = Request[id].recipients[j]
      BY <1>1, RequestFacts
<1>3. t = <<id, c, Request[id].recipients[j]>>
      BY <1>1, <1>2
<1> QED BY <1>3 DEF SentTo

(***************************************************************************)
(* An adapter delivers (sends is incremented).                             *)
(***************************************************************************)
LEMMA SentGrows ==
    ASSUME sends \in [Deliveries -> Nat], NEW d \in Deliveries,
           sends' = [sends EXCEPT ![d] = @ + 1]
    PROVE  /\ sends' \in [Deliveries -> Nat]
           /\ Sent \subseteq Sent' /\ d \in Sent'
           /\ Sent' = Sent \cup {d}
<1>1. sends[d] \in Nat /\ sends'[d] = sends[d] + 1
      OBVIOUS
<1>2. \A t \in Deliveries \ {d} : sends'[t] = sends[t]
      OBVIOUS
<1>3. \A t \in Deliveries : t \in Sent' <=> t \in Sent \/ t = d
      BY <1>1, <1>2 DEF Sent
<1>4. sends' \in [Deliveries -> Nat]
      BY <1>1
<1> QED BY <1>3, <1>4 DEF Sent

-----------------------------------------------------------------------------
(***************************************************************************)
(* A service never forgets a message of the log, a delivery made or a      *)
(* callback received.  Every step of every implementation is such a step.  *)
(***************************************************************************)
Grows ==
    /\ Len(log') \in Nat /\ Len(log) <= Len(log')
    /\ \A k \in 1 .. Len(log) : log'[k] = log[k]
    /\ Sent \subseteq Sent'
    /\ receipts \subseteq receipts'

(***************************************************************************)
(* What growth does not undo: a message that is handled stays handled, a   *)
(* recipient that has been reached stays reached, a message stays logged.  *)
(***************************************************************************)
LEMMA FlowGrowthKeeps ==
    ASSUME Grows, TopicTypeOK
    PROVE  /\ \A k \in 1 .. Len(log) : Handled(k) => Handled(k)'
           /\ \A id, c, n : SentTo(id, c, n) => SentTo(id, c, n)'
           /\ \A id, c : ChannelDone(id, c) => ChannelDone(id, c)'
           /\ \A id : Logged(id) => Logged(id)'
<1>1. Len(log) \in Nat /\ Len(log') >= Len(log)
      BY DEF Grows, TopicTypeOK
<1>2. \A k \in 1 .. Len(log) : Handled(k) => Handled(k)'
      BY DEF Grows, Handled
<1>3. \A id, c, n : SentTo(id, c, n) => SentTo(id, c, n)'
      BY DEF Grows, SentTo
<1>4. \A id, c : ChannelDone(id, c) => ChannelDone(id, c)'
      BY <1>3 DEF ChannelDone
<1>5. ASSUME NEW id, Logged(id)
      PROVE  Logged(id)'
  <2>1. PICK k \in 1 .. Len(log) : log[k] = id
        BY <1>5 DEF Logged
  <2>2. k \in 1 .. Len(log') /\ log'[k] = id
        BY <1>1, <2>1 DEF Grows
  <2> QED BY <2>2 DEF Logged
<1> QED BY <1>2, <1>3, <1>4, <1>5

(***************************************************************************)
(* A step that leaves log and deliveries alone is one of growth.           *)
(***************************************************************************)
LEMMA GrowsInPlace ==
    ASSUME TopicTypeOK, log' = log, sends' = sends, receipts \subseteq receipts'
    PROVE  Grows
BY DEF TopicTypeOK, Grows, Sent

(***************************************************************************)
(* So is what a producer does to the topic, once or, after a lost          *)
(* acknowledgement, twice.                                                 *)
(***************************************************************************)
LEMMA GrowsByAppend ==
    ASSUME TopicTypeOK, NEW m \in Ids \cup {Junk}, Append1(m) \/ Append2(m),
           sends' = sends, receipts' = receipts
    PROVE  /\ Grows
           /\ TopicTypeOK'
           /\ \E k \in 1 .. Len(log') : log'[k] = m
<1>1. log \in Seq(Ids \cup {Junk}) /\ Len(log) \in Nat
      BY KeysAssumption DEF TopicTypeOK
<1>2. /\ log' \in Seq(Ids \cup {Junk})
      /\ Len(log') \in Nat
      /\ Len(log) < Len(log')
      /\ \A k \in 1 .. Len(log) : log'[k] = log[k]
      /\ log'[Len(log')] = m
  <2>1. CASE Append1(m)
        BY <1>1, <2>1 DEF Append1
  <2>2. CASE Append2(m)
        BY <1>1, <2>2 DEF Append2
  <2> QED BY <2>1, <2>2
<1>3. UNCHANGED groupVars
      BY DEF Append1, Append2
<1>4. TopicTypeOK'
      BY <1>1, <1>2, <1>3, KeysAssumption DEF TopicTypeOK, groupVars
<1>5. Grows
      BY <1>1, <1>2 DEF Grows, Sent
<1> QED BY <1>1, <1>2, <1>4, <1>5

(***************************************************************************)
(* A step that does not touch the topic keeps its types.                   *)
(***************************************************************************)
LEMMA TopicTypeKept ==
    ASSUME TopicTypeOK, UNCHANGED topicVars
    PROVE  TopicTypeOK'
BY DEF TopicTypeOK, topicVars

-----------------------------------------------------------------------------
(***************************************************************************)
(* The consumer group.  What a step of w's loop does to the offsets of w,  *)
(* and that it leaves those of every other loop alone.                     *)
(***************************************************************************)
SameSession(v) ==
    session'[v] = session[v] /\ position'[v] = position[v] /\ stored'[v] = stored[v]

\* A loop starts, at an offset of the log (Begin, and so Assign and FirstFetch).
LEMMA BeginFacts ==
    ASSUME TopicTypeOK, NEW w \in Workers, NEW reset, Begin(w, reset),
           owner' \in Workers \cup {Nobody}
    PROVE  /\ TopicTypeOK'
           /\ StartOffset(reset) \in 0 .. Len(log)
           /\ session'[w] /\ position'[w] = StartOffset(reset) /\ stored'[w] = -1
           /\ \A v \in Workers \ {w} : SameSession(v)
<1>1. StartOffset(reset) \in 0 .. Len(log)
      BY DEF StartOffset, TopicTypeOK
<1> QED BY <1>1 DEF Begin, TopicTypeOK, SameSession

\* A loop is gone (Close, and so EndSession and Leave).
LEMMA CloseFacts ==
    ASSUME TopicTypeOK, NEW w \in Workers, Close(w), owner' \in Workers \cup {Nobody}
    PROVE  /\ TopicTypeOK'
           /\ ~session'[w] /\ position'[w] = 0 /\ stored'[w] = -1
           /\ \A v \in Workers \ {w} : SameSession(v)
BY DEF Close, TopicTypeOK, SameSession

\* The next message is handed out, and its offset may be stored (Deliver).
LEMMA DeliverFacts ==
    ASSUME TopicTypeOK, NEW w \in Workers, Deliver(w), NEW n, n = position[w] + 1,
           \/ stored' = stored
           \/ stored' = [stored EXCEPT ![w] = n]
    PROVE  /\ TopicTypeOK'
           /\ n \in 1 .. Len(log) /\ log[n] \in Ids \cup {Junk}
           /\ session[w] /\ session' = session
           /\ position'[w] = n /\ Current(w)' = log[n]
           /\ \A v \in Workers \ {w} : SameSession(v)
<1>1. log \in Seq(Ids \cup {Junk}) /\ Len(log) \in Nat
      BY KeysAssumption DEF TopicTypeOK
<1>2. position[w] \in 0 .. Len(log) /\ position[w] < Len(log)
      BY DEF Deliver, TopicTypeOK
<1>3. n \in 1 .. Len(log)
      BY <1>1, <1>2
<1>4. position' = [position EXCEPT ![w] = n]
      BY DEF Deliver
<1>5. position'[w] = n /\ log' = log
      BY <1>4 DEF Deliver, TopicTypeOK
<1>6. TopicTypeOK'
  <2>1. n \in 0 .. Len(log) /\ n \in -1 .. Len(log)
        BY <1>1, <1>3
  <2>2. position' \in [Workers -> 0 .. Len(log)] /\ stored' \in [Workers -> -1 .. Len(log)]
        BY <1>4, <2>1 DEF TopicTypeOK
  <2> QED BY <2>2 DEF Deliver, TopicTypeOK
<1> QED BY SMTT(30), <1>1, <1>3, <1>4, <1>5, <1>6 DEF Deliver, TopicTypeOK, SameSession, Current

\* What is in hand is noted as done (Store).
LEMMA StoreFacts ==
    ASSUME TopicTypeOK, NEW w \in Workers, Store(w)
    PROVE  /\ TopicTypeOK'
           /\ session' = session /\ position' = position /\ stored'[w] = position[w]
           /\ \A v \in Workers \ {w} : SameSession(v)
BY DEF Store, TopicTypeOK, SameSession

\* A commit of the owner moves the group's offset forward (Commit).
LEMMA CommitFacts ==
    ASSUME TopicTypeOK, NEW w \in Workers, Commit(w)
    PROVE  /\ TopicTypeOK'
           /\ session[w] /\ owner = w
           /\ committed' = stored[w] /\ committed' \in 0 .. Len(log) /\ committed' > committed
           /\ \A v \in Workers : SameSession(v)
BY DEF Commit, TopicTypeOK, SameSession

-----------------------------------------------------------------------------
(***************************************************************************)
(* The steps that do not show in DeliveryPromise.                          *)
(***************************************************************************)
LEMMA HiddenStep ==
    ASSUME log' = log, sends' = sends, committed' = committed
    PROVE  UNCHANGED Promise!promiseVars
BY DEF Promise!promiseVars, Queued, Logged, Sent, Retired

(***************************************************************************)
(* What an append adds to the log, and that it logs one notification.      *)
(***************************************************************************)
LEMMA AppendFacts ==
    ASSUME TopicTypeOK, NEW m \in Ids \cup {Junk}, Append1(m) \/ Append2(m)
    PROVE  /\ Len(log) \in Nat /\ Len(log') \in Nat /\ Len(log) < Len(log')
           /\ \A k \in 1 .. Len(log) : log'[k] = log[k]
           /\ \A k \in 1 .. Len(log') : k > Len(log) => log'[k] = m
           /\ \A id \in Ids : Logged(id)' <=> Logged(id) \/ id = m
           /\ UNCHANGED groupVars
<1>1. /\ Len(log) \in Nat /\ log \in Seq(Ids \cup {Junk})
      /\ UNCHANGED groupVars
      BY KeysAssumption DEF TopicTypeOK, Append1, Append2
<1>2. /\ Len(log') \in Nat /\ Len(log) < Len(log')
      /\ \A k \in 1 .. Len(log) : log'[k] = log[k]
      /\ \A k \in 1 .. Len(log') : k > Len(log) => log'[k] = m
  <2>1. CASE Append1(m)
        BY <1>1, <2>1 DEF Append1
  <2>2. CASE Append2(m)
        BY <1>1, <2>2 DEF Append2
  <2> QED BY <2>1, <2>2
<1>3. ASSUME NEW id \in Ids
      PROVE  Logged(id)' <=> Logged(id) \/ id = m
  <2>1. Len(log') \in 1 .. Len(log') /\ Len(log') > Len(log)
        BY <1>1, <1>2
  <2>2. Logged(id)' => Logged(id) \/ id = m
        BY <1>1, <1>2 DEF Logged
  <2>3. Logged(id) => Logged(id)'
        BY <1>1, <1>2 DEF Logged
  <2>4. id = m => Logged(id)'
        BY <1>2, <2>1 DEF Logged
  <2> QED BY <2>2, <2>3, <2>4
<1> QED BY <1>1, <1>2, <1>3

(***************************************************************************)
(* A message that is appended queues its notification.                     *)
(***************************************************************************)
LEMMA AppendQueues ==
    ASSUME TopicTypeOK, NEW m \in Ids \cup {Junk}, Append1(m) \/ Append2(m), sends' = sends
    PROVE  /\ m \in Ids => Promise!Enqueue(m)
           /\ m = Junk => UNCHANGED Promise!promiseVars
<1>1. committed \in -1 .. Len(log) /\ committed' = committed /\ Junk \notin Ids
      BY AppendFacts, KeysAssumption, JunkAssumption DEF TopicTypeOK, groupVars
<1>2. \A id \in Ids : Logged(id)' <=> Logged(id) \/ id = m
      BY AppendFacts
<1>3. Sent' = Sent
      BY DEF Sent
<1>4. Retired' = Retired
      BY <1>1, AppendFacts DEF Retired
<1>5. CASE m \in Ids
      BY <1>1, <1>2, <1>3, <1>4, <1>5 DEF Promise!Enqueue, Queued
<1>6. CASE m = Junk
      BY <1>1, <1>2, <1>3, <1>4, <1>6 DEF Promise!promiseVars, Queued
<1> QED BY <1>5, <1>6

-----------------------------------------------------------------------------
(***************************************************************************)
(* How often a delivery is repeated.  A run is what a consumer loop does   *)
(* with the topic from where it starts, or starts again: within one run    *)
(* offsets, channels and recipients only go forward.  A turn is one turn   *)
(* of the recipient loop, <<<<run, offset>>, <<channel, recipient>>>>,     *)
(* given by the number of the run and three positions.                     *)
(***************************************************************************)
Turn == (Nat \X Nat) \X (Nat \X Nat)

\* The delivery that turn d makes, if its send succeeds.
Makes(d) ==
    LET id == log[d[1][2]]
    IN  <<id, Request[id].channels[d[2][1]], Request[id].recipients[d[2][2]]>>

\* w's loop is past the j-th recipient of the i-th channel of the k-th message.
Past(w, k, i, j) ==
    \/ k < position[w]
    \/ /\ k = position[w]
       /\ \/ worker[w].pc \in {"wait", "mark"}
          \/ i < worker[w].ch
          \/ /\ i = worker[w].ch
             /\ \/ worker[w].pc \in {"final", "catch"}
                \/ worker[w].pc = "send" /\ j < worker[w].rcp

\* The partition has no owner, or its owner's loop has not started.
Unstarted == owner = Nobody \/ ~session[owner]

(***************************************************************************)
(* The deliveries made are accounted for by the turns of D, which belong   *)
(* to the runs 1 .. n; run[w], the one that w is in, is its alone and has  *)
(* no turn that w is not past; and each run after the first takes a fault. *)
(* The code keeps no such account: D, run and n only have to exist.        *)
(***************************************************************************)
Account(D, run, n) ==
    /\ \A d \in D : /\ d[1][1] \in 1 .. n
                    /\ d[1][2] \in 1 .. Len(log)
                    /\ d[2][1] \in DOMAIN Request[log[d[1][2]]].channels
                    /\ d[2][2] \in DOMAIN Request[log[d[1][2]]].recipients
    /\ \A t \in Deliveries : sends[t] <= Cardinality({d \in D : Makes(d) = t})
    /\ \A w \in Workers : session[w] =>
           /\ run[w] \in 1 .. n
           /\ \A v \in Workers \ {w} : session[v] => run[v] # run[w]
           /\ \A d \in D : d[1][1] = run[w] => Past(w, d[1][2], d[2][1], d[2][2])
    /\ n + (IF Unstarted THEN 1 ELSE 0) <= 1 + faults

AccountInv ==
    \E D \in SUBSET Turn, run \in [Workers -> Nat], n \in Nat : Account(D, run, n)

(***************************************************************************)
(* The turns that make one delivery are finitely many: they differ in run, *)
(* copy of the message, and the places where the request names channel and *)
(* recipient.                                                              *)
(***************************************************************************)
LEMMA TurnsAreBounded ==
    ASSUME TopicTypeOK, NEW D \in SUBSET Turn, NEW run, NEW n \in Nat, Account(D, run, n),
           NEW t \in Deliveries
    PROVE  /\ IsFiniteSet({d \in D : Makes(d) = t})
           /\ Cardinality({d \in D : Makes(d) = t}) <= (n * Copies(t[1])) * Named(t)
           /\ Copies(t[1]) \in Nat /\ Named(t) \in Nat
<1> DEFINE K == {k \in 1 .. Len(log) : log[k] = t[1]}
           C == {c \in DOMAIN Request[t[1]].channels : Request[t[1]].channels[c] = t[2]}
           R == {r \in DOMAIN Request[t[1]].recipients : Request[t[1]].recipients[r] = t[3]}
           S == {d \in D : Makes(d) = t}
           Box == ((1 .. n) \X K) \X (C \X R)
<1>1. t[1] \in Ids /\ Len(log) \in Nat
      BY DEF Deliveries, TopicTypeOK
<1>2. /\ DOMAIN Request[t[1]].channels = 1 .. Len(Request[t[1]].channels)
      /\ DOMAIN Request[t[1]].recipients = 1 .. Len(Request[t[1]].recipients)
      /\ Len(Request[t[1]].channels) \in Nat /\ Len(Request[t[1]].recipients) \in Nat
      BY <1>1, RequestAssumption DEF Requests
<1>3. IsFiniteSet(K) /\ IsFiniteSet(C) /\ IsFiniteSet(R)
  <2>1. \A m \in Nat : IsFiniteSet(1 .. m)
        BY FS_Interval
  <2>2. /\ K \subseteq 1 .. Len(log)
        /\ C \subseteq 1 .. Len(Request[t[1]].channels)
        /\ R \subseteq 1 .. Len(Request[t[1]].recipients)
        BY <1>2
  <2> QED BY <1>1, <1>2, <2>1, <2>2, FS_Subset
<1>4. IsFiniteSet(1 .. n) /\ Cardinality(1 .. n) = n
      BY FS_Interval
<1>5. S \subseteq Box
  <2> SUFFICES ASSUME NEW d \in S
               PROVE  d \in Box
      OBVIOUS
  <2>1. /\ d \in (Nat \X Nat) \X (Nat \X Nat)
        /\ d[1][1] \in 1 .. n /\ d[1][2] \in 1 .. Len(log)
        /\ d[2][1] \in DOMAIN Request[log[d[1][2]]].channels
        /\ d[2][2] \in DOMAIN Request[log[d[1][2]]].recipients
        /\ Makes(d) = t
        BY DEF Account, Turn
  <2>2. /\ log[d[1][2]] = t[1]
        /\ Request[t[1]].channels[d[2][1]] = t[2]
        /\ Request[t[1]].recipients[d[2][2]] = t[3]
        BY <2>1 DEF Makes
  <2>3. d[1][2] \in K /\ d[2][1] \in C /\ d[2][2] \in R
        BY <2>1, <2>2
  <2> HIDE DEF K, C, R
  <2> QED BY <2>1, <2>3
<1> HIDE DEF S, K, C, R
<1>6. /\ IsFiniteSet(Box)
      /\ Cardinality(Box) = (n * Cardinality(K)) * (Cardinality(C) * Cardinality(R))
  <2>1. /\ IsFiniteSet((1 .. n) \X K)
        /\ Cardinality((1 .. n) \X K) = n * Cardinality(K)
        BY <1>3, <1>4, FS_Product
  <2>2. /\ IsFiniteSet(C \X R)
        /\ Cardinality(C \X R) = Cardinality(C) * Cardinality(R)
        BY <1>3, FS_Product
  <2> QED BY <2>1, <2>2, FS_Product
<1>7. IsFiniteSet(S) /\ Cardinality(S) <= Cardinality(Box)
      BY <1>5, <1>6, FS_Subset
<1>8. /\ Cardinality(K) \in Nat /\ Cardinality(C) \in Nat /\ Cardinality(R) \in Nat
      /\ Cardinality(C) * Cardinality(R) \in Nat
  <2>1. Cardinality(K) \in Nat /\ Cardinality(C) \in Nat /\ Cardinality(R) \in Nat
        BY <1>3, FS_CardinalityType
  <2>2. Cardinality(C) * Cardinality(R) \in Nat
    <3>1. IsFiniteSet(C \X R) /\ Cardinality(C \X R) = Cardinality(C) * Cardinality(R)
          BY <1>3, FS_Product
    <3> QED BY <3>1, FS_CardinalityType
  <2> QED BY <2>1, <2>2
<1>9. Named(t) = Cardinality(C) * Cardinality(R) /\ Copies(t[1]) = Cardinality(K)
      BY DEF Named, Copies, C, R, K
<1> QED BY <1>6, <1>7, <1>8, <1>9 DEF S

\* The bound of RepeatsNeedFaults grows with the faults.
LEMMA ProductsGrow ==
    ASSUME NEW a \in Nat, NEW b \in Nat, NEW n \in Nat, NEW m \in Nat, n <= m
    PROVE  (n * a) * b <= (b * a) * m
<1>1. PICK k \in Nat : m = n + k
      <2>1. m - n \in Nat /\ m = n + (m - n)
            OBVIOUS
      <2> QED BY <2>1
<1>2. a * b \in Nat
      OBVIOUS
<1>3. PICK x \in Nat : x = a * b
      BY <1>2
<1>4. (n * a) * b = n * x /\ (b * a) * m = x * m
      BY <1>3
<1>5. x * m = n * x + k * x /\ k * x >= 0
      BY <1>1
<1> QED BY <1>4, <1>5

(***************************************************************************)
(* The account is what makes repetitions cost faults (RepeatsNeedFaults).  *)
(***************************************************************************)
LEMMA AccountBoundsRepeats ==
    ASSUME TopicTypeOK, sends \in [Deliveries -> Nat], faults \in Nat, AccountInv
    PROVE  RepeatsNeedFaults
<1>1. PICK D \in SUBSET Turn, run \in [Workers -> Nat], n \in Nat : Account(D, run, n)
      BY DEF AccountInv
<1>2. n <= 1 + faults
      BY <1>1 DEF Account
<1> SUFFICES ASSUME NEW t \in Deliveries
             PROVE  sends[t] <= Named(t) * Copies(t[1]) * (1 + faults)
    BY DEF RepeatsNeedFaults
<1>3. /\ IsFiniteSet({d \in D : Makes(d) = t})
      /\ Cardinality({d \in D : Makes(d) = t}) <= (n * Copies(t[1])) * Named(t)
      /\ Copies(t[1]) \in Nat /\ Named(t) \in Nat
      BY <1>1, TurnsAreBounded
<1>4. (n * Copies(t[1])) * Named(t) <= (Named(t) * Copies(t[1])) * (1 + faults)
      BY <1>2, <1>3, ProductsGrow
<1>5. sends[t] <= Cardinality({d \in D : Makes(d) = t}) /\ sends[t] \in Nat
      BY <1>1 DEF Account
<1>6. PICK c \in Nat : c = Cardinality({d \in D : Makes(d) = t})
      BY <1>3, FS_CardinalityType
<1>7. PICK a \in Nat, b \in Nat : a = Copies(t[1]) /\ b = Named(t)
      BY <1>3
<1>8. (n * a) * b \in Int /\ (b * a) * (1 + faults) \in Int
      OBVIOUS
<1> QED BY <1>3, <1>4, <1>5, <1>6, <1>7, <1>8

(***************************************************************************)
(* At first nothing has been sent, and the first run needs no fault.       *)
(***************************************************************************)
LEMMA AccountBegins ==
    ASSUME TopicInit, sends = [t \in Deliveries |-> 0], faults = 0
    PROVE  AccountInv
<1>1. Account({}, [w \in Workers |-> 0], 0)
  <2>1. \A t \in Deliveries : {d \in {} : Makes(d) = t} = {}
        OBVIOUS
  <2>2. Cardinality({}) = 0
        BY FS_EmptySet
  <2> QED BY <2>1, <2>2 DEF Account, TopicInit, Unstarted
<1> QED BY <1>1 DEF AccountInv

(***************************************************************************)
(* What keeps the account as it is: a step in which the log may grow, no   *)
(* delivery is made, no run starts, no loop goes back, and the partition   *)
(* gets free to start on only by a fault.                                  *)
(***************************************************************************)
NoRunGoesBack ==
    \A w \in Workers : session'[w] =>
        session[w] /\ \A k, i, j \in Nat : Past(w, k, i, j) => Past(w, k, i, j)'

LogKept ==
    /\ Len(log) \in Nat /\ Len(log') \in Nat /\ Len(log) <= Len(log')
    /\ \A k \in 1 .. Len(log) : log'[k] = log[k]

\* A step in which no loop takes a turn, and none goes back but for a fault.
LEMMA AccountStays ==
    ASSUME AccountInv, faults \in Nat, faults' \in Nat, LogKept, sends' = sends,
           NoRunGoesBack,
           \/ faults' = faults /\ (Unstarted' => Unstarted)
           \/ faults' = faults + 1
    PROVE  AccountInv'
<1>1. PICK D \in SUBSET Turn, run \in [Workers -> Nat], n \in Nat : Account(D, run, n)
      BY DEF AccountInv
<1>2. \A d \in D : log'[d[1][2]] = log[d[1][2]] /\ d[1][2] \in 1 .. Len(log')
      BY <1>1 DEF Account, LogKept
<1>3. \A d \in D : Makes(d)' = Makes(d)
      BY <1>2 DEF Makes
<1>4. \A t \in Deliveries : {d \in D : Makes(d)' = t} = {d \in D : Makes(d) = t}
      BY <1>3
<1>5. \A d \in D : /\ d[1][2] \in Nat /\ d[2][1] \in Nat /\ d[2][2] \in Nat
      BY DEF Turn
<1>6. n + (IF Unstarted' THEN 1 ELSE 0) <= 1 + faults'
  <2>1. PICK a \in 0 .. 1 : a = IF Unstarted THEN 1 ELSE 0
        OBVIOUS
  <2>2. PICK b \in 0 .. 1 : b = IF Unstarted' THEN 1 ELSE 0
        OBVIOUS
  <2>3. n + a <= 1 + faults
        BY <1>1, <2>1 DEF Account
  <2>4. (faults' = faults /\ b <= a) \/ faults' = faults + 1
        BY <2>1, <2>2
  <2>5. n + b <= 1 + faults'
    <3>1. CASE faults' = faults /\ b <= a
          BY <2>3, <3>1
    <3>2. CASE faults' = faults + 1
          BY <2>3, <3>2
    <3> QED BY <2>4, <3>1, <3>2
  <2> QED BY <2>2, <2>5
<1>7. /\ \A d \in D : /\ d[1][1] \in 1 .. n
                      /\ d[1][2] \in 1 .. Len(log')
                      /\ d[2][1] \in DOMAIN Request[log'[d[1][2]]].channels
                      /\ d[2][2] \in DOMAIN Request[log'[d[1][2]]].recipients
      BY <1>1, <1>2 DEF Account
<1>8. \A t \in Deliveries : sends'[t] <= Cardinality({d \in D : Makes(d)' = t})
      BY <1>1, <1>4 DEF Account
<1>9. ASSUME NEW w \in Workers, session'[w]
      PROVE  /\ run[w] \in 1 .. n
             /\ \A v \in Workers \ {w} : session'[v] => run[v] # run[w]
             /\ \A d \in D : d[1][1] = run[w] => Past(w, d[1][2], d[2][1], d[2][2])'
  <2>1. session[w] /\ \A v \in Workers : session'[v] => session[v]
        BY <1>9 DEF NoRunGoesBack
  <2>2. \A k, i, j \in Nat : Past(w, k, i, j) => Past(w, k, i, j)'
        BY <1>9 DEF NoRunGoesBack
  <2>3. \A d \in D : d[1][1] = run[w] => Past(w, d[1][2], d[2][1], d[2][2])
        BY <1>1, <2>1 DEF Account
  <2>4. \A d \in D : d[1][1] = run[w] => Past(w, d[1][2], d[2][1], d[2][2])'
        BY <1>5, <2>2, <2>3
  <2> QED BY <1>1, <2>1, <2>4 DEF Account
<1>10. Account(D, run, n)'
      BY <1>6, <1>7, <1>8, <1>9 DEF Account
<1> QED BY <1>10 DEF AccountInv

(***************************************************************************)
(* A loop starts, or starts again: a new run, which no turn belongs to.    *)
(* It is started on a partition that was free, or takes a fault.           *)
(***************************************************************************)
OthersGoOn(w) ==
    \A v \in Workers \ {w} : session'[v] =>
        session[v] /\ \A k, i, j \in Nat : Past(v, k, i, j) => Past(v, k, i, j)'

\* A worker starts a run: the first one ever, or one paid for by a fault.
LEMMA AccountOfNewRun ==
    ASSUME AccountInv, faults \in Nat, faults' \in Nat, LogKept, sends' = sends,
           NEW w \in Workers, OthersGoOn(w),
           \/ faults' = faults /\ Unstarted /\ ~Unstarted'
           \/ faults' = faults + 1 /\ (Unstarted' => Unstarted)
    PROVE  AccountInv'
<1>1. PICK D \in SUBSET Turn, run \in [Workers -> Nat], n \in Nat : Account(D, run, n)
      BY DEF AccountInv
<1>2. PICK new : new = [run EXCEPT ![w] = n + 1]
      OBVIOUS
<1>3. /\ new \in [Workers -> Nat] /\ new[w] = n + 1
      /\ \A v \in Workers \ {w} : new[v] = run[v]
      BY <1>2
<1>4. \A d \in D : /\ d[1][1] \in 1 .. n /\ d[1][1] \in 1 .. n + 1 /\ d[1][1] # n + 1
                   /\ log'[d[1][2]] = log[d[1][2]] /\ d[1][2] \in 1 .. Len(log')
                   /\ d[1][2] \in Nat /\ d[2][1] \in Nat /\ d[2][2] \in Nat
      BY <1>1 DEF Account, LogKept, Turn
<1>5. \A t \in Deliveries : {d \in D : Makes(d)' = t} = {d \in D : Makes(d) = t}
      BY <1>4 DEF Makes
<1>6. n + 1 + (IF Unstarted' THEN 1 ELSE 0) <= 1 + faults'
  <2>1. PICK a \in 0 .. 1 : a = IF Unstarted THEN 1 ELSE 0
        OBVIOUS
  <2>2. PICK b \in 0 .. 1 : b = IF Unstarted' THEN 1 ELSE 0
        OBVIOUS
  <2>3. n + a <= 1 + faults
        BY <1>1, <2>1 DEF Account
  <2>4. (faults' = faults /\ b + 1 = a) \/ (faults' = faults + 1 /\ b <= a)
        BY <2>1, <2>2
  <2>5. n + 1 + b <= 1 + faults'
    <3>1. CASE faults' = faults /\ b + 1 = a
          BY <2>3, <3>1
    <3>2. CASE faults' = faults + 1 /\ b <= a
          BY <2>3, <3>2
    <3> QED BY <2>4, <3>1, <3>2
  <2> QED BY <2>2, <2>5
<1>7. /\ \A d \in D : /\ d[1][1] \in 1 .. n + 1
                      /\ d[1][2] \in 1 .. Len(log')
                      /\ d[2][1] \in DOMAIN Request[log'[d[1][2]]].channels
                      /\ d[2][2] \in DOMAIN Request[log'[d[1][2]]].recipients
      BY <1>1, <1>4 DEF Account
<1>8. \A t \in Deliveries : sends'[t] <= Cardinality({d \in D : Makes(d)' = t})
      BY <1>1, <1>5 DEF Account
<1>9. ASSUME NEW v \in Workers, session'[v]
      PROVE  /\ new[v] \in 1 .. n + 1
             /\ \A u \in Workers \ {v} : session'[u] => new[u] # new[v]
             /\ \A d \in D : d[1][1] = new[v] => Past(v, d[1][2], d[2][1], d[2][2])'
  <2>1. \A u \in Workers \ {w} : session'[u] => new[u] \in 1 .. n
        BY <1>1, <1>3 DEF Account, OthersGoOn
  <2>2. CASE v = w
        BY <1>3, <1>4, <2>1, <2>2
  <2>3. CASE v # w
    <3>1. session[v] /\ \A u \in Workers \ {w} : session'[u] => session[u]
          BY <1>9, <2>3 DEF OthersGoOn
    <3>2. \A u \in Workers \ {v} : session'[u] => new[u] # new[v]
          BY <1>1, <1>3, <1>9, <2>1, <2>3, <3>1 DEF Account
    <3>3. \A d \in D : d[1][1] = new[v] => Past(v, d[1][2], d[2][1], d[2][2])
          BY <1>1, <1>3, <2>3, <3>1 DEF Account
    <3>4. \A k, i, j \in Nat : Past(v, k, i, j) => Past(v, k, i, j)'
          BY <1>9, <2>3 DEF OthersGoOn
    <3>5. \A d \in D : d[1][1] = new[v] => Past(v, d[1][2], d[2][1], d[2][2])'
          BY <1>4, <3>3, <3>4
    <3>6. new[v] \in 1 .. n + 1
          BY <1>9, <2>1, <2>3
    <3> QED BY <3>2, <3>5, <3>6
  <2> QED BY <2>2, <2>3
<1>10. Account(D, new, n + 1)'
      BY <1>6, <1>7, <1>8, <1>9 DEF Account
<1> QED BY <1>3, <1>10 DEF AccountInv

(***************************************************************************)
(* A send that succeeds is a turn that no loop has taken in this run, and  *)
(* the loop is past it afterwards.                                         *)
(***************************************************************************)
AtTurn(w) ==
    /\ session[w]
    /\ position[w] \in 1 .. Len(log) /\ Current(w) \in Ids
    /\ worker[w] \in WorkerState /\ worker[w].pc = "send"
    /\ worker[w].ch \in DOMAIN WorkerChannels(w)
    /\ worker[w].rcp \in DOMAIN WorkerRecipients(w)

TurnTaken(w) ==
    /\ worker'[w].pc \in {"send", "final"}
    /\ worker'[w].ch = worker[w].ch
    /\ worker'[w].rcp = worker[w].rcp + 1
    /\ \A v \in Workers \ {w} : worker'[v] = worker[v]

\* A worker takes the turn it is at: one contact more, one turn more.
LEMMA AccountOfTurn ==
    ASSUME AccountInv, TopicTypeOK, sends \in [Deliveries -> Nat], UNCHANGED topicVars,
           faults' = faults, NEW w \in Workers, AtTurn(w), TurnTaken(w),
           sends' = [sends EXCEPT ![<<Current(w), WorkerChannel(w),
                                      WorkerRecipients(w)[worker[w].rcp]>>] = @ + 1]
    PROVE  AccountInv'
<1>1. PICK D \in SUBSET Turn, run \in [Workers -> Nat], n \in Nat : Account(D, run, n)
      BY DEF AccountInv
<1>2. PICK d : d = <<<<run[w], position[w]>>, <<worker[w].ch, worker[w].rcp>>>>
      OBVIOUS
<1>3. /\ d \in Turn
      /\ d[1][1] = run[w] /\ d[1][2] = position[w]
      /\ d[2][1] = worker[w].ch /\ d[2][2] = worker[w].rcp
  <2>1. Len(log) \in Nat
        BY DEF TopicTypeOK
  <2> QED BY <1>2, <2>1 DEF Turn, AtTurn, WorkerState
<1>4. PICK t : t = Makes(d)
      OBVIOUS
<1>5. /\ t = <<Current(w), WorkerChannel(w), WorkerRecipients(w)[worker[w].rcp]>>
      /\ t \in Deliveries
  <2>1. t = <<Current(w), WorkerChannel(w), WorkerRecipients(w)[worker[w].rcp]>>
        BY <1>3, <1>4
           DEF Makes, Current, WorkerChannel, WorkerChannels, WorkerRecipients
  <2>2. PICK id \in Ids : id = Current(w)
        BY DEF AtTurn
  <2>3. /\ worker[w].ch \in DOMAIN Request[id].channels
        /\ worker[w].rcp \in DOMAIN Request[id].recipients
        /\ Request[id].channels \in Seq(Channels) /\ Request[id].recipients \in Seq(Recipients)
        BY <2>2, RequestAssumption DEF AtTurn, WorkerChannels, WorkerRecipients, Requests
  <2>4. /\ Request[id].channels[worker[w].ch] \in Channels
        /\ Request[id].recipients[worker[w].rcp] \in Recipients
        BY <2>3
  <2> QED BY <2>1, <2>2, <2>4
          DEF Deliveries, WorkerChannel, WorkerChannels, WorkerRecipients
<1>6. d \notin D
  <2>1. d[1][1] = run[w] /\ ~ Past(w, d[1][2], d[2][1], d[2][2])
        BY <1>3 DEF Past, AtTurn, WorkerState, TopicTypeOK
  <2> QED BY <1>1, <2>1 DEF Account, AtTurn
<1>7. PICK E \in SUBSET Turn : E = D \cup {d}
      BY <1>3
<1>8. /\ log' = log /\ session' = session /\ position' = position /\ owner' = owner
      BY DEF topicVars
<1>9. \A e \in E : /\ e[1][1] \in 1 .. n
                   /\ e[1][2] \in 1 .. Len(log')
                   /\ e[2][1] \in DOMAIN Request[log'[e[1][2]]].channels
                   /\ e[2][2] \in DOMAIN Request[log'[e[1][2]]].recipients
  <2>1. run[w] \in 1 .. n
        BY <1>1 DEF Account, AtTurn
  <2>2. \A e \in D : /\ e[1][1] \in 1 .. n
                     /\ e[1][2] \in 1 .. Len(log)
                     /\ e[2][1] \in DOMAIN Request[log[e[1][2]]].channels
                     /\ e[2][2] \in DOMAIN Request[log[e[1][2]]].recipients
        BY <1>1 DEF Account
  <2>3. /\ d[1][1] \in 1 .. n
        /\ d[1][2] \in 1 .. Len(log)
        /\ d[2][1] \in DOMAIN Request[log[d[1][2]]].channels
        /\ d[2][2] \in DOMAIN Request[log[d[1][2]]].recipients
        BY <1>3, <2>1 DEF AtTurn, WorkerChannels, WorkerRecipients, Current
  <2> QED BY <1>7, <1>8, <2>2, <2>3
<1>10. ASSUME NEW u \in Deliveries
       PROVE  sends'[u] <= Cardinality({e \in E : Makes(e)' = u})
  <2> DEFINE S == {e \in D : Makes(e) = u}
  <2>1. sends[u] <= Cardinality(S) /\ sends[u] \in Nat
        BY <1>1 DEF Account
  <2>2. IsFiniteSet(S)
        BY <1>1, TurnsAreBounded
  <2>3. \A e \in E : Makes(e)' = Makes(e)
        BY <1>8 DEF Makes
  <2>4. PICK x \in Nat : x = Cardinality(S)
        BY <2>2, FS_CardinalityType
  <2>5. CASE u = t
    <3>1. sends'[u] = sends[u] + 1
          BY <1>5, <2>5
    <3>2. {e \in E : Makes(e)' = u} = S \cup {d} /\ d \notin S
          BY <1>4, <1>6, <1>7, <2>3, <2>5
    <3>3. Cardinality(S \cup {d}) = Cardinality(S) + 1
          BY <2>2, <3>2, FS_AddElement
    <3>4. sends[u] + 1 <= x + 1
          BY <2>1, <2>4
    <3>5. Cardinality({e \in E : Makes(e)' = u}) = x + 1
          BY <2>4, <3>2, <3>3
    <3> QED BY <3>1, <3>4, <3>5
  <2>6. CASE u # t
    <3>1. sends'[u] = sends[u]
          BY <1>5, <2>6
    <3>2. {e \in E : Makes(e)' = u} = S
          BY <1>4, <1>7, <2>3, <2>6
    <3> QED BY <2>1, <3>1, <3>2
  <2> QED BY <2>5, <2>6
<1>11. ASSUME NEW v \in Workers, session'[v]
       PROVE  /\ run[v] \in 1 .. n
              /\ \A u \in Workers \ {v} : session'[u] => run[u] # run[v]
              /\ \A e \in E : e[1][1] = run[v] => Past(v, e[1][2], e[2][1], e[2][2])'
  <2>1. /\ run[v] \in 1 .. n
        /\ \A u \in Workers \ {v} : session[u] => run[u] # run[v]
        /\ \A e \in D : e[1][1] = run[v] => Past(v, e[1][2], e[2][1], e[2][2])
        BY <1>1, <1>8, <1>11 DEF Account
  <2>2. CASE v = w
    <3>1. Past(w, d[1][2], d[2][1], d[2][2])'
          BY <1>3, <1>8 DEF Past, TurnTaken, AtTurn, WorkerState
    <3>2. ASSUME NEW e \in D, e[1][1] = run[w]
          PROVE  Past(w, e[1][2], e[2][1], e[2][2])'
      <4>1. Past(w, e[1][2], e[2][1], e[2][2]) /\ e[2][2] \in Nat
            BY <2>1, <2>2, <3>2 DEF Turn
      <4> QED BY <1>8, <4>1 DEF Past, TurnTaken, AtTurn, WorkerState
    <3> QED BY <1>7, <1>8, <2>1, <2>2, <3>1, <3>2
  <2>3. CASE v # w
    <3>1. d[1][1] # run[v]
          BY <1>3, <2>1, <2>3 DEF AtTurn
    <3>2. \A e \in D : Past(v, e[1][2], e[2][1], e[2][2]) => Past(v, e[1][2], e[2][1], e[2][2])'
          BY <1>8, <2>3 DEF Past, TurnTaken
    <3> QED BY <1>7, <1>8, <2>1, <3>1, <3>2
  <2> QED BY <2>2, <2>3
<1>12. n + (IF Unstarted' THEN 1 ELSE 0) <= 1 + faults'
       BY <1>1, <1>8 DEF Account, Unstarted
<1>13. Account(E, run, n)'
       BY <1>9, <1>10, <1>11, <1>12 DEF Account
<1> QED BY <1>7, <1>13 DEF AccountInv

(***************************************************************************)
(* The steps of the services as far as the account is concerned.  One that *)
(* moves no loop: a request, a callback, a commit, a message put on the    *)
(* topic, with or without a fault.                                         *)
(***************************************************************************)
LEMMA AccountOffTheLoops ==
    ASSUME AccountInv, faults \in Nat, faults' \in Nat, LogKept,
           UNCHANGED <<owner, session, position, worker, sends>>,
           faults' = faults \/ faults' = faults + 1
    PROVE  AccountInv'
<1>1. NoRunGoesBack
      BY DEF NoRunGoesBack, Past
<1>2. Unstarted' => Unstarted
      BY DEF Unstarted
<1> QED BY <1>1, <1>2, AccountStays

\* The producer's steps keep the log that there is.
LEMMA AppendKeepsLog ==
    ASSUME TopicTypeOK,
           UNCHANGED topicVars \/ \E m \in Ids \cup {Junk} : Append1(m) \/ Append2(m)
    PROVE  LogKept /\ UNCHANGED groupVars
<1>1. CASE UNCHANGED topicVars
      BY <1>1 DEF LogKept, topicVars, groupVars, TopicTypeOK
<1>2. CASE \E m \in Ids \cup {Junk} : Append1(m) \/ Append2(m)
      BY <1>2, AppendFacts DEF LogKept
<1> QED BY <1>1, <1>2

\* w's loop moves within its message, to where it is past all it was past.
MovesOn(w) ==
    /\ \A v \in Workers \ {w} : worker'[v] = worker[v]
    /\ \/ worker'[w].pc \in {"wait", "mark"}
       \/ worker'[w].ch > worker[w].ch
       \/ /\ worker'[w].ch = worker[w].ch
          /\ \/ worker[w].pc = "processing"
             \/ worker[w].pc = "send" /\ worker'[w].pc \in {"final", "catch"}
             \/ /\ worker[w].pc = "send" /\ worker'[w].pc = "send"
                /\ worker'[w].rcp >= worker[w].rcp
             \/ worker[w].pc \in {"final", "catch"} /\ worker'[w].pc \in {"final", "catch"}

\* The loops of a worker move past turns without a contact.
LEMMA AccountWhenMovingOn ==
    ASSUME AccountInv, TopicTypeOK, faults \in Nat, faults' \in Nat,
           UNCHANGED <<log, owner, session, position, sends>>,
           faults' = faults \/ faults' = faults + 1,
           NEW w \in Workers, worker[w] \in WorkerState, worker'[w] \in WorkerState,
           worker[w].pc \notin {"wait", "mark"}, MovesOn(w)
    PROVE  AccountInv'
<1>1. ASSUME NEW k \in Nat, NEW i \in Nat, NEW j \in Nat, Past(w, k, i, j)
      PROVE  Past(w, k, i, j)'
      BY <1>1 DEF Past, MovesOn, WorkerState
<1>2. NoRunGoesBack
      BY <1>1 DEF NoRunGoesBack, Past, MovesOn
<1>3. (Unstarted' => Unstarted) /\ LogKept
      BY DEF Unstarted, LogKept, TopicTypeOK
<1> QED BY <1>2, <1>3, AccountStays

\* w's loop is done with its message.
LEMMA AccountWhenDone ==
    ASSUME AccountInv, TopicTypeOK, faults \in Nat,
           UNCHANGED <<log, owner, session, position, sends, faults>>,
           NEW w \in Workers, worker[w].pc = "mark", worker'[w].pc = "wait",
           \A v \in Workers \ {w} : worker'[v] = worker[v]
    PROVE  AccountInv'
<1>1. NoRunGoesBack
      BY DEF NoRunGoesBack, Past
<1>2. (Unstarted' => Unstarted) /\ LogKept
      BY DEF Unstarted, LogKept, TopicTypeOK
<1> QED BY <1>1, <1>2, AccountStays

\* The next message is handed to w's loop.
LEMMA AccountOfDelivery ==
    ASSUME AccountInv, TopicTypeOK, faults \in Nat, faults' = faults, sends' = sends,
           NEW w \in Workers, Deliver(w), \A v \in Workers \ {w} : worker'[v] = worker[v]
    PROVE  AccountInv'
<1>1. /\ position[w] \in Nat /\ position'[w] = position[w] + 1
      /\ \A v \in Workers \ {w} : position'[v] = position[v]
      /\ session' = session /\ owner' = owner /\ log' = log
      BY DEF Deliver, TopicTypeOK
<1>2. \A k, i, j \in Nat : Past(w, k, i, j) => Past(w, k, i, j)'
      BY <1>1 DEF Past
<1>3. \A v \in Workers \ {w} : \A k, i, j \in Nat : Past(v, k, i, j) => Past(v, k, i, j)'
      BY <1>1 DEF Past
<1>4. NoRunGoesBack
      BY <1>1, <1>2, <1>3 DEF NoRunGoesBack
<1>5. (Unstarted' => Unstarted) /\ LogKept
      BY <1>1 DEF Unstarted, LogKept, TopicTypeOK
<1> QED BY <1>4, <1>5, AccountStays

\* w's loop starts on a free partition.
LEMMA AccountOfBegin ==
    ASSUME AccountInv, TopicTypeOK, faults \in Nat, UNCHANGED <<sends, faults, worker>>,
           NEW w \in Workers, NEW reset, Begin(w, reset), Unstarted, owner' = w
    PROVE  AccountInv'
<1>1. /\ session' = [session EXCEPT ![w] = TRUE] /\ session'[w]
      /\ \A v \in Workers \ {w} : session'[v] = session[v] /\ position'[v] = position[v]
      /\ log' = log
      BY DEF Begin, TopicTypeOK
<1>2. OthersGoOn(w)
      BY <1>1 DEF OthersGoOn, Past
<1>3. ~ Unstarted' /\ LogKept
      BY <1>1, NobodyAssumption DEF Unstarted, LogKept, TopicTypeOK
<1> QED BY <1>2, <1>3, AccountOfNewRun

\* w's loop is gone: its partition was taken from it before, or its process
\* has died.
LEMMA AccountOfClose ==
    ASSUME AccountInv, TopicTypeOK, faults \in Nat, sends' = sends,
           NEW w \in Workers, Close(w), \A v \in Workers \ {w} : worker'[v] = worker[v],
           \/ faults' = faults /\ owner # w /\ owner' = owner
           \/ faults' = faults + 1
    PROVE  AccountInv'
<1>1. /\ ~session'[w]
      /\ \A v \in Workers \ {w} : session'[v] = session[v] /\ position'[v] = position[v]
      /\ log' = log
      BY DEF Close, TopicTypeOK
<1>2. NoRunGoesBack
      BY <1>1 DEF NoRunGoesBack, Past
<1>3. LogKept
      BY <1>1 DEF LogKept, TopicTypeOK
<1>4. faults' = faults => (Unstarted' => Unstarted)
  <2>1. faults' = faults => owner # w /\ owner' = owner
        OBVIOUS
  <2> QED BY <1>1, <2>1 DEF Unstarted, TopicTypeOK
<1> QED BY <1>2, <1>3, <1>4, AccountStays

\* The broker takes the partition from its owner.
LEMMA AccountOfRevoke ==
    ASSUME AccountInv, TopicTypeOK, faults \in Nat, faults' = faults + 1,
           Revoke, UNCHANGED <<sends, worker>>
    PROVE  AccountInv'
<1>1. NoRunGoesBack
      BY DEF NoRunGoesBack, Past, Revoke
<1>2. LogKept
      BY DEF LogKept, TopicTypeOK, Revoke
<1> QED BY <1>1, <1>2, AccountStays

\* After an error, w's loop is handed its message again.
LEMMA AccountOfRedelivery ==
    ASSUME AccountInv, TopicTypeOK, faults \in Nat, faults' = faults + 1, sends' = sends,
           NEW w \in Workers, Redeliver(w), \A v \in Workers \ {w} : worker'[v] = worker[v]
    PROVE  AccountInv'
<1>1. /\ \A v \in Workers \ {w} : position'[v] = position[v]
      /\ session' = session /\ owner' = owner /\ log' = log
      BY DEF Redeliver, TopicTypeOK
<1>2. OthersGoOn(w)
      BY <1>1 DEF OthersGoOn, Past
<1>3. (Unstarted' => Unstarted) /\ LogKept
      BY <1>1 DEF Unstarted, LogKept, TopicTypeOK
<1> QED BY <1>2, <1>3, AccountOfNewRun

-----------------------------------------------------------------------------
(***************************************************************************)
(* Before anything has failed each message is logged once, and a loop that *)
(* has begun on it goes on.                                                *)
(***************************************************************************)
MessagesAreUnique == \A j, k \in 1 .. Len(log) : log[j] = log[k] => j = k

\* A loop that still runs has been handed the message of id, or has started
\* behind it.
Begun(id) == \E w \in Workers : session[w] /\ \E k \in 1 .. position[w] : log[k] = id

LoopsGoOn ==
    \A w \in Workers :
        session[w] => session'[w] /\ position'[w] \in Nat /\ position[w] <= position'[w]

\* The j-th channel of the request is one that it names earlier too.
NamedBefore(id, j) ==
    \E i \in 1 .. Len(Request[id].channels) :
        i < j /\ Request[id].channels[i] = Request[id].channels[j]

\* What has been begun stays so while the loops go on.
LEMMA BegunStays ==
    ASSUME TopicTypeOK, Grows, LoopsGoOn, NEW id, Begun(id)
    PROVE  Begun(id)'
<1>1. PICK w \in Workers : session[w] /\ \E k \in 1 .. position[w] : log[k] = id
      BY DEF Begun
<1>2. PICK k \in 1 .. position[w] : log[k] = id
      BY <1>1
<1>3. k \in 1 .. Len(log) /\ position[w] \in Nat
      BY DEF TopicTypeOK
<1>4. k \in 1 .. position'[w] /\ log'[k] = id /\ session'[w]
      BY <1>1, <1>2, <1>3 DEF Grows, LoopsGoOn
<1> QED BY <1>4 DEF Begun

\* A message that is not in the log is logged once.
LEMMA AppendKeepsUnique ==
    ASSUME TopicTypeOK, MessagesAreUnique, NEW m \in Ids, ~Logged(m), Append1(m)
    PROVE  MessagesAreUnique'
<1>1. /\ Len(log') = Len(log) + 1 /\ Len(log) \in Nat
      /\ \A k \in 1 .. Len(log) : log'[k] = log[k]
      /\ log'[Len(log) + 1] = m
      BY KeysAssumption DEF Append1, TopicTypeOK
<1>2. \A k \in 1 .. Len(log') : k = Len(log) + 1 \/ (k \in 1 .. Len(log) /\ log'[k] # m)
      BY <1>1 DEF Logged
<1> QED BY <1>1, <1>2 DEF MessagesAreUnique

================================================================================
