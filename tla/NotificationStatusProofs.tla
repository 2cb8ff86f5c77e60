------------------------ MODULE NotificationStatusProofs ------------------------
(***************************************************************************)
(* Lemmas about status rows, for the proofs about the status services:     *)
(* what the initial row and an aggregated row are, and what the counts of  *)
(* /metrics add up to.  Sets of completed and of failed strings are        *)
(* parameters, as the implementations differ in them.                      *)
(***************************************************************************)
EXTENDS NotificationStatus, FiniteSetTheorems, TLAPS

(***************************************************************************)
(* The row a new notification gets is well typed and consistent: no update *)
(* has reached it (createInitialStatus of every implementation).           *)
(***************************************************************************)
LEMMA InitialRowIsConsistent ==
    ASSUME NEW chans \in SUBSET Channels, NEW completed, NEW failed
    PROVE  /\ InitialRow(chans) \in Row
           /\ RowConsistent(InitialRow(chans), completed, failed)
<1>1. InitialRow(chans) \in Row
      BY DEF InitialRow, Row, ChannelMaps, ChannelStatuses, OverallStatuses
<1>2. Untouched(InitialRow(chans).channels)
      BY DEF InitialRow, Untouched, Present
<1> QED BY <1>1, <1>2 DEF RowConsistent, InitialRow

(***************************************************************************)
(* A row whose overall status has just been computed from its own map is   *)
(* well typed and consistent, and no longer ENQUEUED.                      *)
(***************************************************************************)
LEMMA AggregatedRowIsConsistent ==
    ASSUME NEW m \in ChannelMaps, NEW c \in Channels, m[c] # "ABSENT",
           NEW completed, NEW failed, NEW row,
           row = [status |-> Aggregate(m, completed, failed), channels |-> m]
    PROVE  /\ row \in Row
           /\ row.status # "ENQUEUED"
           /\ RowConsistent(row, completed, failed)
<1> DEFINE overall == Aggregate(m, completed, failed)
<1>1. overall \in OverallStatuses /\ overall # "ENQUEUED"
      BY DEF Aggregate, OverallStatuses
<1>2. Present(m) # {}
      BY DEF Present
<1>3. overall = "COMPLETED" <=> Present(m) \subseteq completed
      BY DEF Aggregate
<1>4. overall = "PARTIAL_FAILURE" <=>
          ~(Present(m) \subseteq completed) /\ Present(m) \cap failed # {}
      BY DEF Aggregate
<1> HIDE DEF overall
<1>5. row = [status |-> overall, channels |-> m]
      BY DEF overall
<1>6. row \in Row /\ row.status # "ENQUEUED"
      BY <1>1, <1>5 DEF Row
<1>7. RowConsistent(row, completed, failed)
      BY <1>1, <1>2, <1>3, <1>4, <1>5 DEF RowConsistent
<1> QED BY <1>6, <1>7

(***************************************************************************)
(* One update takes a row forward, or leaves its status, if it does not    *)
(* start a failed channel anew and does not come after the last channel    *)
(* has completed: a failure elsewhere in the row outlasts it.              *)
(***************************************************************************)
LEMMA UpdateAdvances ==
    ASSUME NEW old \in Row, NEW c \in Channels, NEW s \in ChannelStatuses \ {"ABSENT"},
           NEW completed, NEW failed, completed \cap failed = {}, "ABSENT" \notin failed,
           NEW m, m = [old.channels EXCEPT ![c] = s],
           NEW row, row = [status |-> Aggregate(m, completed, failed), channels |-> m],
           RowConsistent(old, completed, failed),
           \E d \in Channels : old.channels[d] \notin completed \cup {"ABSENT"},
           old.channels[c] \notin failed
    PROVE  Advances(old, row)
<1>1. m \in ChannelMaps /\ m[c] # "ABSENT" /\ \A d \in Channels \ {c} : m[d] = old.channels[d]
      BY DEF Row, ChannelMaps
<1>2. row # None /\ row.status # "ENQUEUED"
  <2>1. row \in Row /\ row.status # "ENQUEUED"
        BY <1>1, AggregatedRowIsConsistent, ZenonT(40)
  <2> QED BY <2>1, NoneAssumption
<1>3. old.status # "COMPLETED"
      BY DEF RowConsistent, Present
<1>4. old.status = "PARTIAL_FAILURE" => row.status = "PARTIAL_FAILURE"
  <2> SUFFICES ASSUME old.status = "PARTIAL_FAILURE"
               PROVE  row.status = "PARTIAL_FAILURE"
      OBVIOUS
  <2>1. PICK d \in Channels : old.channels[d] \in failed
        BY DEF RowConsistent, Present
  <2>2. m[d] \in failed
        BY <1>1, <2>1
  <2>3. m[d] \in Present(m) /\ m[d] \notin completed
        BY <2>2 DEF Present
  <2> QED BY <2>2, <2>3 DEF Aggregate
<1>5. old.status \in {"ENQUEUED", "PROCESSING", "COMPLETED", "PARTIAL_FAILURE"}
      BY DEF Row, OverallStatuses
<1> QED BY <1>2, <1>3, <1>4, <1>5 DEF Advances

-----------------------------------------------------------------------------
(***************************************************************************)
(* The sums of GetMetrics.  The library's sum is a recursive function; as  *)
(* there are but four statuses, PartialSum says in closed form what it is  *)
(* on each set of them.                                                    *)
(***************************************************************************)
At(f, S, s) == IF s \in S THEN f[s] ELSE 0

PartialSum(f, S) ==
    At(f, S, "ENQUEUED") + At(f, S, "PROCESSING")
        + At(f, S, "COMPLETED") + At(f, S, "PARTIAL_FAILURE")

\* The library's choice of an element, and the function by which it defines the
\* sum of f over S.
Pick(s) == CHOOSE x \in s : TRUE

SumsBy(f, S, it) ==
    it = [s \in SUBSET S |-> IF s = {} THEN 0 ELSE f[Pick(s)] + it[s \ {Pick(s)}]]

(***************************************************************************)
(* One status more in the set is one count more in the sum.                *)
(***************************************************************************)
LEMMA PartialSumStep ==
    ASSUME NEW f \in [OverallStatuses -> Nat], NEW S \in SUBSET OverallStatuses, NEW x \in S
    PROVE  PartialSum(f, S) = f[x] + PartialSum(f, S \ {x})
BY DEF PartialSum, At, OverallStatuses

(***************************************************************************)
(* The library's sum is the closed form: shown for the sets of at most     *)
(* one status, then two, three and four, as there is no induction here.    *)
(***************************************************************************)
LEMMA SumIsPartialSum ==
    ASSUME NEW f \in [OverallStatuses -> Nat], NEW S \in SUBSET OverallStatuses
    PROVE  SumFunctionOnSet(f, S) = PartialSum(f, S)
<1> DEFINE it == CHOOSE g : SumsBy(f, S, g)
           Right(s) == it[s] = PartialSum(f, s)
<1>1. SumFunctionOnSet(f, S) = it[S]
      BY DEF SumFunctionOnSet, FoldFunctionOnSet, MapThenFoldSet, SumsBy, Pick
<1>2. \A s \in SUBSET S : s # {} => Pick(s) \in s
      BY DEF Pick
<1>3. \A s \in SUBSET S : s # {} => PartialSum(f, s) = f[Pick(s)] + PartialSum(f, s \ {Pick(s)})
      BY <1>2, PartialSumStep
<1>4. PartialSum(f, {}) = 0
      BY DEF PartialSum, At
<1>5. SumsBy(f, S, it)
  <2> DEFINE g == [s \in SUBSET S |-> PartialSum(f, s)]
  <2>1. SumsBy(f, S, g)
    <3>1. \A s \in SUBSET S : s # {} => s \ {Pick(s)} \in SUBSET S
          OBVIOUS
    <3> QED BY <1>3, <1>4, <3>1 DEF SumsBy
  <2> QED BY <2>1
<1> HIDE DEF it
<1>6. Right({})
      BY <1>4, <1>5 DEF SumsBy
<1>7. ASSUME NEW s \in SUBSET S, s # {}, Right(s \ {Pick(s)})
      PROVE  Right(s)
  <2>1. it[s] = f[Pick(s)] + it[s \ {Pick(s)}]
        BY <1>5, <1>7 DEF SumsBy
  <2> QED BY <1>3, <1>7, <2>1
<1> HIDE DEF Right
<1>8. ASSUME NEW u, NEW T \in SUBSET S, T \subseteq {u}
      PROVE  Right(T)
  <2>1. T # {} => T \ {Pick(T)} = {}
        BY <1>2, <1>8
  <2> QED BY <1>6, <1>7, <1>8, <2>1
<1>9. ASSUME NEW u, NEW v, NEW T \in SUBSET S, T \subseteq {u, v}
      PROVE  Right(T)
  <2>1. T # {} =>
            \/ T \ {Pick(T)} \subseteq {v}
            \/ T \ {Pick(T)} \subseteq {u}
        BY <1>2, <1>9
  <2> QED BY <1>6, <1>7, <1>8, <1>9, <2>1
<1>10. ASSUME NEW u, NEW v, NEW w, NEW T \in SUBSET S, T \subseteq {u, v, w}
      PROVE  Right(T)
  <2>1. T # {} =>
            \/ T \ {Pick(T)} \subseteq {v, w}
            \/ T \ {Pick(T)} \subseteq {u, w}
            \/ T \ {Pick(T)} \subseteq {u, v}
        BY <1>2, <1>10
  <2> QED BY <1>6, <1>7, <1>9, <1>10, <2>1
<1>11. ASSUME NEW u, NEW v, NEW w, NEW z, NEW T \in SUBSET S, T \subseteq {u, v, w, z}
      PROVE  Right(T)
  <2>1. T # {} =>
            \/ T \ {Pick(T)} \subseteq {v, w, z}
            \/ T \ {Pick(T)} \subseteq {u, w, z}
            \/ T \ {Pick(T)} \subseteq {u, v, z}
            \/ T \ {Pick(T)} \subseteq {u, v, w}
        BY <1>2, <1>11
  <2> QED BY <1>6, <1>7, <1>10, <1>11, <2>1
<1>12. Right(S)
  <2>1. S \subseteq {"ENQUEUED", "PROCESSING", "COMPLETED", "PARTIAL_FAILURE"}
        BY DEF OverallStatuses
  <2> QED BY <1>6, <1>11, <2>1
<1> QED BY <1>1, <1>12 DEF Right

-----------------------------------------------------------------------------
(***************************************************************************)
(* The rows with one overall status or another, for two different ones,    *)
(* are counted one by one.                                                 *)
(***************************************************************************)
LEMMA DisjointCount ==
    ASSUME NEW A \in SUBSET Ids, NEW B \in SUBSET Ids, A \cap B = {}
    PROVE  /\ Cardinality(A \cup B) = Cardinality(A) + Cardinality(B)
           /\ Cardinality(A) \in Nat /\ Cardinality(B) \in Nat
<1>1. IsFiniteSet(A) /\ IsFiniteSet(B)
      BY IdsAssumption, FS_Subset
<1>2. Cardinality(A) \in Nat /\ Cardinality(B) \in Nat
      BY <1>1, FS_CardinalityType
<1>3. Cardinality(A \cup B) = Cardinality(A) + Cardinality(B) - Cardinality({})
      BY <1>1, FS_Union
<1> QED BY <1>2, <1>3, FS_EmptySet

(***************************************************************************)
(* GetMetrics of any implementation counts exactly, as long as no row      *)
(* contradicts itself: "completed" and "failed" are the strings the        *)
(* implementation takes for it, of which one is an overall status.         *)
(***************************************************************************)
LEMMA ConsistentRowsCount ==
    ASSUME NEW rows \in [Ids -> Row \cup {None}], NEW completed, NEW failed,
           completed \cap OverallStatuses = {"COMPLETED"}, "PENDING" \notin completed,
           \A id \in Ids : rows[id] # None => RowConsistent(rows[id], completed, failed)
    PROVE  CountsExact(Metrics(rows, completed, failed), rows, completed)
<1> DEFINE enqueued   == RowsWith(rows, "ENQUEUED")
           processing == RowsWith(rows, "PROCESSING")
           success    == RowsWith(rows, "COMPLETED")
           partial    == RowsWith(rows, "PARTIAL_FAILURE")
           byStatus   == [s \in OverallStatuses |-> Cardinality(RowsWith(rows, s))]
           stored     == {id \in Ids : rows[id] # None}
           done       == {id \in stored : /\ Present(rows[id].channels) # {}
                                          /\ Present(rows[id].channels) \subseteq completed}
<1>1. /\ enqueued \in SUBSET Ids /\ processing \in SUBSET Ids
      /\ success \in SUBSET Ids /\ partial \in SUBSET Ids
      BY DEF RowsWith
<1>2. /\ enqueued \cap processing = {}
      /\ (enqueued \cup processing) \cap success = {}
      /\ (enqueued \cup processing \cup success) \cap partial = {}
      BY DEF RowsWith
<1>3. stored = enqueued \cup processing \cup success \cup partial
      BY DEF RowsWith, Row, OverallStatuses
<1>4. done = success
      BY DEF RowsWith, RowConsistent, Row, OverallStatuses, Untouched
<1>5. \A s \in OverallStatuses : byStatus[s] = Cardinality(RowsWith(rows, s))
      OBVIOUS
<1>6. byStatus \in [OverallStatuses -> Nat] /\ DOMAIN byStatus = OverallStatuses
  <2>1. \A s \in OverallStatuses : RowsWith(rows, s) \in SUBSET Ids
        BY DEF RowsWith
  <2>2. \A s \in OverallStatuses : Cardinality(RowsWith(rows, s)) \in Nat
        BY <2>1, IdsAssumption, FS_Subset, FS_CardinalityType
  <2> QED BY <2>2
<1> HIDE DEF enqueued, processing, success, partial, byStatus, stored, done
<1>7. Cardinality(stored) = Cardinality(enqueued) + Cardinality(processing)
                                + Cardinality(success) + Cardinality(partial)
  <2>1. Cardinality(enqueued \cup processing)
            = Cardinality(enqueued) + Cardinality(processing)
        BY <1>1, <1>2, DisjointCount
  <2>2. Cardinality((enqueued \cup processing) \cup success)
            = Cardinality(enqueued \cup processing) + Cardinality(success)
        BY <1>1, <1>2, DisjointCount
  <2>3. Cardinality((enqueued \cup processing \cup success) \cup partial)
            = Cardinality(enqueued \cup processing \cup success) + Cardinality(partial)
        BY <1>1, <1>2, DisjointCount
  <2> QED BY <1>3, <2>1, <2>2, <2>3
<1>8. SumFunction(byStatus) = Cardinality(stored)
  <2>1. SumFunction(byStatus) = PartialSum(byStatus, OverallStatuses)
        BY <1>6, SumIsPartialSum DEF SumFunction
  <2>2. /\ byStatus["ENQUEUED"] = Cardinality(enqueued)
        /\ byStatus["PROCESSING"] = Cardinality(processing)
        /\ byStatus["COMPLETED"] = Cardinality(success)
        /\ byStatus["PARTIAL_FAILURE"] = Cardinality(partial)
        BY <1>5 DEF OverallStatuses, enqueued, processing, success, partial
  <2> QED BY <1>7, <2>1, <2>2 DEF PartialSum, At, OverallStatuses
<1>9. SumFunctionOnSet(byStatus, OverallStatuses \cap completed) = Cardinality(done)
  <2>1. SumFunctionOnSet(byStatus, {"COMPLETED"}) = PartialSum(byStatus, {"COMPLETED"})
        BY <1>6, SumIsPartialSum DEF OverallStatuses
  <2>2. byStatus["COMPLETED"] = Cardinality(done) /\ byStatus["COMPLETED"] \in Nat
        BY <1>4, <1>5, <1>6 DEF OverallStatuses, success
  <2>3. OverallStatuses \cap completed = {"COMPLETED"}
        OBVIOUS
  <2> QED BY <2>1, <2>2, <2>3 DEF PartialSum, At
<1>10. /\ Metrics(rows, completed, failed).total = SumFunction(byStatus)
       /\ Metrics(rows, completed, failed).success
              = SumFunctionOnSet(byStatus, OverallStatuses \cap completed)
       BY DEF Metrics, byStatus
<1> QED BY <1>8, <1>9, <1>10 DEF CountsExact, stored, done
================================================================================
