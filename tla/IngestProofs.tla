---------------------------- MODULE IngestProofs ----------------------------
(***************************************************************************)
(* What the sinks of the streaming job hold, for any number of partitions, *)
(* records, simulator runs and failures.                                   *)
(*                                                                         *)
(* The archive has an event once because its id is remembered as long as   *)
(* the event could still be taken: what the state store forgets is behind  *)
(* the watermark that late rows are held against.  A sink misses only late *)
(* events because the watermark is always Delay behind an event the query  *)
(* has read, and because a batch is written before it is committed.        *)
(***************************************************************************)
EXTENDS Ingest, SetLemmas

-----------------------------------------------------------------------------
(***************************************************************************)
(* Bags.                                                                   *)
(***************************************************************************)
\* Adding one copy of each element of a set.
LEMMA BagAddSet ==
    ASSUME NEW B, IsABag(B), NEW S
    PROVE  /\ IsABag(B (+) SetToBag(S))
           /\ BagToSet(B (+) SetToBag(S)) = BagToSet(B) \cup S
           /\ \A e : Copies(e, B (+) SetToBag(S))
                        = Copies(e, B) + IF e \in S THEN 1 ELSE 0
  BY DEF IsABag, BagToSet, SetToBag, Copies, BagIn, (+)

-----------------------------------------------------------------------------
(***************************************************************************)
(* The invariant.                                                          *)
(***************************************************************************)
\* The deduplication would not pass the event on.
Known(q, e) == e \in seen[q] \/ IsLate(q, e)

\* The latest batch of the query is in its sink and not committed.
InSink(q) ==
    \/ stage[q] = "written"
    \/ q = "archive" /\ filed /\ stage[q] # "idle"

WatermarkFollows(q) ==
    /\ lateBound[q] <= watermark[q]
    /\ watermark[q] > 0 =>
           \E f \in ConsumedEvents(q) : f[2] >= watermark[q] + Delay

StoreIsInSink(q) == seen[q] \subseteq BagToSet(out[q])

BatchIsInSink(q) ==
    /\ InSink(q) => Output(q) \subseteq BagToSet(out[q])
    /\ q = "archive" /\ stage[q] = "written" => filed

ArchivedAreKnown(q) ==
    q = "archive" =>
        \A e \in BagToSet(out[q]) :
            /\ e \in Events
            /\ Copies(e, out[q]) = 1
            /\ Known(q, e) \/ (InSink(q) /\ e \in Fresh(q))

OldIsLost(q) ==
    q # "quarantine" =>
        \A e \in ConsumedEvents(q) :
            \/ Copies(e, out[q]) >= 1
            \/ \E f \in ConsumedEvents(q) : f[2] >= e[2] + Delay

\* The records the quarantine holds are still where they were read.
RejectedAreKept(q) ==
    q = "quarantine" =>
        /\ \A c \in BagToSet(out[q]) :
              /\ c \in Partitions \X (1..MaxRecords)
              /\ c[2] <= Len(topic[c[1]])
              /\ RecordAt(c) = Bad
        /\ \A c \in Consumed(q) : RecordAt(c) = Bad => c \in BagToSet(out[q])

QueryInv(q) ==
    /\ WatermarkFollows(q)
    /\ StoreIsInSink(q)
    /\ BatchIsInSink(q)
    /\ ArchivedAreKnown(q)
    /\ OldIsLost(q)
    /\ RejectedAreKept(q)

IInv == TypeOK /\ \A q \in Queries : QueryInv(q)

-----------------------------------------------------------------------------
(***************************************************************************)
(* One batch.                                                              *)
(***************************************************************************)
\* What a query reads as valid are events, finitely many.
LEMMA ValidAreEvents ==
    ASSUME TypeOK, NEW q \in Queries
    PROVE  ValidIn(q) \subseteq Events /\ IsFiniteSet(ValidIn(q))
  <1> USE IngestAssumption
  <1> DEFINE D == { d \in Slice(q) : q # "quarantine" /\ RecordAt(d) # Bad }
             f == [c \in D |-> <<c[1], RecordAt(c)>>]
  <1>1. Slice(q) \subseteq Partitions \X (1..MaxRecords)
    BY DEF Slice
  <1>2. IsFiniteSet(Partitions \X (1..MaxRecords))
    <2>1. IsFiniteSet(1..MaxRecords)
      BY FS_Interval
    <2> QED
      BY <2>1, FS_Product
  <1>3. IsFiniteSet(D)
    BY <1>1, <1>2, FS_Subset
  <1>4. ASSUME NEW c \in D PROVE <<c[1], RecordAt(c)>> \in Events
    <2>1. /\ c[1] \in Partitions /\ c[2] \in 1..MaxRecords
          /\ c[2] <= planned[q][c[1]]
      BY DEF Slice
    <2>2. c[2] \in 1..Len(topic[c[1]])
      BY <2>1 DEF TypeOK, Offsets
    <2>3. RecordAt(c) \in Times \cup {Bad} /\ RecordAt(c) # Bad
      BY <2>1, <2>2 DEF TypeOK, RecordAt
    <2> QED
      BY <2>1, <2>3 DEF Events
  <1>5. ValidIn(q) = { <<c[1], RecordAt(c)>> : c \in D }
    BY DEF ValidIn
  <1>6. f \in Surjection(D, ValidIn(q))
    BY <1>5 DEF Surjection
  <1>7. IsFiniteSet(ValidIn(q))
    BY <1>3, <1>6, FS_Surjection
  <1> QED
    BY <1>4, <1>5, <1>7

LEMMA ConsumedAreEvents ==
    ASSUME TypeOK, NEW q \in Queries
    PROVE  ConsumedEvents(q) \subseteq Events
  <1> USE IngestAssumption
  <1>1. ASSUME NEW c \in Consumed(q), RecordAt(c) # Bad
        PROVE  <<c[1], RecordAt(c)>> \in Events
    <2>1. /\ c[1] \in Partitions /\ c[2] \in 1..MaxRecords
          /\ c[2] <= committed[q][c[1]]
      BY DEF Consumed
    <2>2. c[2] \in 1..Len(topic[c[1]])
      BY <2>1 DEF TypeOK, Offsets
    <2>3. RecordAt(c) \in Times
      BY <1>1, <2>1, <2>2 DEF TypeOK, RecordAt
    <2> QED
      BY <2>1, <2>3 DEF Events
  <1> QED
    BY <1>1 DEF ConsumedEvents

\* The watermark only rises, and is Delay behind an event when it does.
LEMMA NextWatermarkRises ==
    ASSUME TypeOK, NEW q \in Queries
    PROVE  /\ NextWatermark(q) \in Nat
           /\ NextWatermark(q) >= watermark[q]
           /\ \/ NextWatermark(q) = watermark[q]
              \/ NextWatermark(q) = 0
              \/ \E f \in ValidIn(q) : f[2] >= NextWatermark(q) + Delay
  <1> USE IngestAssumption
  <1> DEFINE g == [e \in ValidIn(q) |-> Later(e[2] - Delay, 0)]
             G == { Later(e[2] - Delay, 0) : e \in ValidIn(q) }
             C == {watermark[q]} \cup G
  <1>1. \A e \in ValidIn(q) : e[2] \in Nat
    BY ValidAreEvents DEF Events
  <1>2. IsFiniteSet(G)
    <2>1. g \in Surjection(ValidIn(q), G)
      BY DEF Surjection
    <2> QED
      BY <2>1, ValidAreEvents, FS_Surjection
  <1>3. C \subseteq Nat /\ IsFiniteSet(C) /\ C # {}
    <2>1. IsFiniteSet(G \cup {watermark[q]})
      BY <1>2, FS_AddElement
    <2>2. G \subseteq Nat
      BY <1>1 DEF Later
    <2> QED
      BY <2>1, <2>2 DEF TypeOK
  <1>4. PICK m \in C : \A n \in C : n <= m
    BY <1>3, LargestExists
  <1>5. m >= watermark[q] /\ \A e \in ValidIn(q) : m >= e[2] - Delay
    BY <1>1, <1>3, <1>4 DEF Later, TypeOK
  <1>6. /\ NextWatermark(q) \in C
        /\ NextWatermark(q) >= watermark[q]
    BY <1>5 DEF NextWatermark
  <1>7. NextWatermark(q) \in Nat
    BY <1>3, <1>6
  <1> QED
    BY <1>1, <1>6, <1>7 DEF Later

LEMMA NextSeenAreEvents ==
    ASSUME TypeOK, NEW q \in Queries
    PROVE  NextSeen(q) \subseteq Events
  BY ValidAreEvents DEF NextSeen, Fresh, TypeOK

\* Records are appended and stay where they are.
TopicGrows ==
    \A p \in Partitions :
        /\ Len(topic'[p]) >= Len(topic[p])
        /\ \A i \in 1..Len(topic[p]) : topic'[p][i] = topic[p][i]

\* As long as a query's progress stays, so does what it has read, and its
\* batch too unless another one is planned.
LEMMA BatchStays ==
    ASSUME TypeOK, TopicGrows, NEW q \in Queries,
           committed'[q] = committed[q],
           lateBound'[q] = lateBound[q], seen'[q] = seen[q]
    PROVE  /\ ConsumedEvents(q)' = ConsumedEvents(q)
           /\ Consumed(q)' = Consumed(q)
           /\ \A c \in Consumed(q) : RecordAt(c)' = RecordAt(c)
           /\ \A e : Known(q, e)' = Known(q, e)
           /\ planned'[q] = planned[q] =>
                 Fresh(q)' = Fresh(q) /\ Output(q)' = Output(q)
  <1>1. Consumed(q)' = Consumed(q)
    BY DEF Consumed
  <1>2. ASSUME NEW c \in Slice(q) \cup Consumed(q) PROVE RecordAt(c)' = RecordAt(c)
    <2>1. c[1] \in Partitions /\ c[2] \in 1..MaxRecords /\ c[2] <= planned[q][c[1]]
      BY DEF Slice, Consumed, TypeOK, Offsets
    <2>2. c[2] \in 1..Len(topic[c[1]])
      BY <2>1 DEF TypeOK, Offsets
    <2> QED
      BY <2>1, <2>2 DEF RecordAt, TopicGrows
  <1>3. ConsumedEvents(q)' = ConsumedEvents(q)
    BY <1>1, <1>2 DEF ConsumedEvents
  <1>4. \A e : Known(q, e)' = Known(q, e)
    BY DEF Known, IsLate
  <1>5. ASSUME planned'[q] = planned[q]
        PROVE  Fresh(q)' = Fresh(q) /\ Output(q)' = Output(q)
    <2>1. Slice(q)' = Slice(q)
      BY <1>5 DEF Slice
    <2>2. ValidIn(q)' = ValidIn(q) /\ InvalidIn(q)' = InvalidIn(q)
      BY <2>1, <1>2 DEF ValidIn, InvalidIn
    <2>3. Fresh(q)' = Fresh(q)
      BY <2>2 DEF Fresh, IsLate
    <2> QED
      BY <2>2, <2>3 DEF Output
  <1> QED
    BY <1>1, <1>2, <1>3, <1>4, <1>5

\* What a query has read after a commit is what it had read and the batch.
LEMMA CommitConsumes ==
    ASSUME TypeOK, NEW q \in Queries, Commit(q)
    PROVE  /\ Consumed(q)' = Consumed(q) \cup Slice(q)
           /\ ConsumedEvents(q) \subseteq ConsumedEvents(q)'
           /\ q # "quarantine" =>
                 ConsumedEvents(q)' = ConsumedEvents(q) \cup ValidIn(q)
  <1>1. /\ committed'[q] = planned[q] /\ topic' = topic
        /\ \A p \in Partitions : committed[q][p] \in Nat /\ planned[q][p] \in Nat
                                 /\ committed[q][p] <= planned[q][p]
    BY DEF Commit, simulator, TypeOK, Offsets
  <1>2. Consumed(q)' = Consumed(q) \cup Slice(q)
    BY <1>1 DEF Consumed, Slice
  <1>3. \A c : RecordAt(c)' = RecordAt(c)
    BY <1>1 DEF RecordAt
  <1>4. /\ ConsumedEvents(q) \subseteq ConsumedEvents(q)'
        /\ q # "quarantine" =>
              ConsumedEvents(q)' = ConsumedEvents(q) \cup ValidIn(q)
    BY <1>2, <1>3 DEF ConsumedEvents, ValidIn
  <1> QED
    BY <1>2, <1>4

-----------------------------------------------------------------------------
(***************************************************************************)
(* Types.                                                                  *)
(***************************************************************************)
LEMMA SimulateGrows == TypeOK /\ Simulate => TopicGrows
  <1> SUFFICES ASSUME TypeOK, Simulate PROVE TopicGrows
    OBVIOUS
  <1>1. ASSUME NEW p \in Partitions, NEW record \in Times \cup {Bad}, Send(p, record)
        PROVE  TopicGrows
    BY <1>1 DEF Send, TopicGrows, TypeOK
  <1>2. CASE RestartSimulator
    BY <1>2 DEF RestartSimulator, TopicGrows, TypeOK
  <1> QED
    BY <1>1, <1>2 DEF Simulate, Publish, PublishBad

LEMMA TypesInitially == Init => TypeOK
  <1> SUFFICES ASSUME Init PROVE TypeOK
    OBVIOUS
  <1>1. IsABag(EmptyBag)
    BY DEF IsABag, EmptyBag, SetToBag
  <1>2. SinksAreBags
    BY <1>1 DEF Init, SinksAreBags
  <1>3. /\ committed \in [Queries -> Offsets] /\ planned \in [Queries -> Offsets]
        /\ \A q \in Queries, p \in Partitions :
              committed[q][p] <= planned[q][p] /\ planned[q][p] <= Len(topic[p])
    BY DEF Init, Offsets
  <1>4. /\ topic \in [Partitions -> Seq(Times \cup {Bad})]
        /\ tick \in [Partitions -> Times \cup {0}]
    BY DEF Init
  <1>5. /\ stage \in [Queries -> Stages] /\ watermark \in [Queries -> Nat]
        /\ lateBound \in [Queries -> Nat] /\ seen \in [Queries -> SUBSET Events]
    BY DEF Init, Stages
  <1>6. up \in BOOLEAN /\ filed \in BOOLEAN /\ runs \in Nat /\ failures \in Nat
    BY DEF Init
  <1> QED
    BY <1>2, <1>3, <1>4, <1>5, <1>6 DEF TypeOK

LEMMA TypesStay == TypeOK /\ [Next]_vars => TypeOK'
  <1> SUFFICES ASSUME TypeOK, [Next]_vars PROVE TypeOK'
    OBVIOUS
  <1> USE IngestAssumption
  <1>1. ASSUME NEW p \in Partitions, NEW record \in Times \cup {Bad}, Send(p, record),
               tick' \in [Partitions -> Times \cup {0}]
        PROVE  TypeOK'
    <2>1. /\ topic' \in [Partitions -> Seq(Times \cup {Bad})]
          /\ \A r \in Partitions : Len(topic'[r]) \in Nat /\ Len(topic'[r]) >= Len(topic[r])
      <3> DEFINE Records == Times \cup {Bad}
                 longer == Append(topic[p], record)
      <3>1. topic \in [Partitions -> Seq(Records)]
        BY DEF TypeOK
      <3>2. topic' = [topic EXCEPT ![p] = longer]
        BY <1>1 DEF Send
      <3>3. \A r \in Partitions : topic[r] \in Seq(Records) /\ Len(topic[r]) \in Nat
        <4> HIDE DEF Records
        <4> QED
          BY <3>1
      <3>4. record \in Records
        OBVIOUS
      <3>5. longer \in Seq(Records) /\ Len(longer) = Len(topic[p]) + 1
        <4> HIDE DEF Records
        <4> QED
          BY <3>3, <3>4
      <3> HIDE DEF Records, longer
      <3>6. topic' \in [Partitions -> Seq(Records)]
        BY <3>1, <3>2, <3>5
      <3>7. \A r \in Partitions : Len(topic'[r]) \in Nat /\ Len(topic'[r]) >= Len(topic[r])
        BY <3>1, <3>2, <3>3, <3>5
      <3> QED
        BY <3>6, <3>7 DEF Records
    <2>2. UNCHANGED <<committed, planned>>
      BY <1>1 DEF Send, progress
    <2>3. \A q \in Queries, r \in Partitions :
             committed'[q][r] <= planned'[q][r] /\ planned'[q][r] <= Len(topic'[r])
      BY <2>1, <2>2 DEF TypeOK, Offsets
    <2>4. UNCHANGED <<up, stage, watermark, lateBound, seen, out, filed, runs, failures>>
      BY <1>1 DEF Send, progress
    <2> QED
      BY <1>1, <2>1, <2>2, <2>3, <2>4 DEF TypeOK, SinksAreBags
  <1>2. CASE Simulate
    <2>1. ASSUME NEW p \in Partitions, Publish(p) PROVE TypeOK'
      <3>1. PICK t \in Times : Send(p, t) /\ tick' = [tick EXCEPT ![p] = t]
        BY <2>1 DEF Publish
      <3>2. tick' \in [Partitions -> Times \cup {0}]
        BY <3>1 DEF TypeOK
      <3> QED
        BY <3>1, <3>2, <1>1
    <2>2. ASSUME NEW p \in Partitions, PublishBad(p) PROVE TypeOK'
      BY <2>2, <1>1 DEF PublishBad, TypeOK
    <2>3. CASE RestartSimulator
      <3>1. tick' \in [Partitions -> Times \cup {0}] /\ runs' \in Nat
        BY <2>3 DEF RestartSimulator, TypeOK
      <3>2. UNCHANGED <<topic, committed, planned, up, stage, watermark, lateBound,
                        seen, out, filed, failures>>
        BY <2>3 DEF RestartSimulator, progress
      <3> QED
        BY <3>1, <3>2 DEF TypeOK, SinksAreBags
    <2> QED
      BY <1>2, <2>1, <2>2, <2>3 DEF Simulate
  <1>3. ASSUME NEW q \in Queries, Plan(q) PROVE TypeOK'
    <2>1. Lengths \in Offsets /\ \A p \in Partitions : Lengths[p] = Len(topic[p])
      BY DEF Lengths, Offsets, TypeOK
    <2>2. planned' \in [Queries -> Offsets]
      BY <1>3, <2>1 DEF Plan, TypeOK
    <2>3. \A r \in Queries, p \in Partitions :
             committed'[r][p] <= planned'[r][p] /\ planned'[r][p] <= Len(topic'[p])
      BY <1>3, <2>1 DEF Plan, TypeOK, Offsets, simulator
    <2>4. stage' \in [Queries -> Stages]
      BY <1>3 DEF Plan, TypeOK, Stages
    <2>5. filed' \in BOOLEAN
      BY <1>3, Zenon DEF Plan
    <2> QED
      BY <1>3, <2>2, <2>3, <2>4, <2>5 DEF Plan, TypeOK, SinksAreBags, simulator
  <1>4. ASSUME NEW q \in Queries, Write(q) PROVE TypeOK'
    <2>1. SinksAreBags'
      BY <1>4, BagAddSet DEF Write, TypeOK, SinksAreBags
    <2>2. stage' \in [Queries -> Stages]
      BY <1>4 DEF Write, TypeOK, Stages
    <2>3. filed' \in BOOLEAN
      BY <1>4, Zenon DEF Write
    <2> QED
      BY <1>4, <2>1, <2>2, <2>3 DEF Write, TypeOK, simulator, progress
  <1>5. ASSUME NEW q \in Queries, Commit(q) PROVE TypeOK'
    <2>1. committed' \in [Queries -> Offsets]
      BY <1>5 DEF Commit, TypeOK
    <2>2. \A r \in Queries, p \in Partitions :
             committed'[r][p] <= planned'[r][p] /\ planned'[r][p] <= Len(topic'[p])
      BY <1>5 DEF Commit, TypeOK, Offsets, simulator
    <2>3. stage' \in [Queries -> Stages]
      BY <1>5 DEF Commit, TypeOK, Stages
    <2>4. watermark' \in [Queries -> Nat] /\ lateBound' \in [Queries -> Nat]
      BY <1>5, NextWatermarkRises DEF Commit, TypeOK
    <2>5. seen' \in [Queries -> SUBSET Events]
      BY <1>5, NextSeenAreEvents DEF Commit, TypeOK
    <2> QED
      BY <1>5, <2>1, <2>2, <2>3, <2>4, <2>5 DEF Commit, TypeOK, SinksAreBags, simulator
  <1>6. ASSUME NEW q \in Queries, Fail(q) PROVE TypeOK'
    <2>1. SinksAreBags'
      BY <1>6, BagAddSet DEF Fail, TypeOK, SinksAreBags
    <2>2. stage' \in [Queries -> Stages] /\ failures' \in Nat
      BY <1>6 DEF Fail, TypeOK, Stages
    <2> QED
      BY <1>6, <2>1, <2>2 DEF Fail, TypeOK, simulator, progress
  <1>7. CASE Terminate /\ failures' \in Nat
    <2>1. stage' \in [Queries -> Stages]
      BY <1>7 DEF Terminate, TypeOK, Stages
    <2> QED
      BY <1>7, <2>1 DEF Terminate, TypeOK, SinksAreBags, simulator, progress
  <1>8. CASE Restart
    BY <1>8 DEF Restart, TypeOK, SinksAreBags, simulator, progress
  <1>9. CASE UNCHANGED vars
    BY <1>9 DEF vars, TypeOK, SinksAreBags, simulator, progress
  <1>10. CASE Exit \/ Interrupt
    BY <1>7, <1>10 DEF Exit, Interrupt, TypeOK
  <1> QED
    BY <1>2, <1>3, <1>4, <1>5, <1>6, <1>8, <1>9, <1>10 DEF Next, Advance, Poll

-----------------------------------------------------------------------------
(***************************************************************************)
(* The sinks.                                                              *)
(***************************************************************************)
LEMMA QueryInvInitially == ASSUME Init, NEW q \in Queries PROVE QueryInv(q)
  <1> USE IngestAssumption
  <1>1. out[q] = EmptyBag /\ stage[q] = "idle" /\ filed = FALSE /\ seen[q] = {}
    BY DEF Init
  <1>2. lateBound[q] = 0 /\ watermark[q] = 0 /\ \A p \in Partitions : committed[q][p] = 0
    BY DEF Init
  <1>3. Consumed(q) = {} /\ ConsumedEvents(q) = {}
    BY <1>2 DEF Consumed, ConsumedEvents
  <1>4. BagToSet(out[q]) = {}
    BY <1>1 DEF BagToSet, EmptyBag, SetToBag
  <1>5. ~InSink(q)
    BY <1>1 DEF InSink
  <1> QED
    BY <1>1, <1>2, <1>3, <1>4, <1>5
    DEF QueryInv, WatermarkFollows, StoreIsInSink, BatchIsInSink, ArchivedAreKnown,
        OldIsLost, RejectedAreKept

\* What the quarantine holds is not overwritten on the topic.
LEMMA RejectedStay ==
    ASSUME TypeOK, TopicGrows, NEW c \in Partitions \X (1..MaxRecords),
           c[2] <= Len(topic[c[1]])
    PROVE  c[2] <= Len(topic'[c[1]]) /\ RecordAt(c)' = RecordAt(c)
  <1> USE IngestAssumption
  <1>1. Len(topic[c[1]]) \in Nat /\ Len(topic'[c[1]]) >= Len(topic[c[1]])
    BY DEF TypeOK, TopicGrows
  <1>2. c[1] \in Partitions /\ c[2] \in 1..Len(topic[c[1]])
    BY <1>1
  <1>3. RecordAt(c)' = RecordAt(c)
    BY <1>2 DEF RecordAt, TopicGrows
  <1> QED
    BY <1>1, <1>2, <1>3

\* Records arrive, the job ends and starts again, another query moves on: none
\* of this disturbs a query whose progress and sink stay.
LEMMA QueryStays ==
    ASSUME TypeOK, TypeOK', TopicGrows, NEW q \in Queries, QueryInv(q),
           committed'[q] = committed[q], planned'[q] = planned[q],
           watermark'[q] = watermark[q], lateBound'[q] = lateBound[q],
           seen'[q] = seen[q], out'[q] = out[q], q = "archive" => filed' = filed,
           stage'[q] = "written" => stage[q] = "written",
           stage'[q] = "idle" <=> stage[q] = "idle"
    PROVE  QueryInv(q)'
  <1>1. /\ ConsumedEvents(q)' = ConsumedEvents(q)
        /\ Consumed(q)' = Consumed(q)
        /\ \A c \in Consumed(q) : RecordAt(c)' = RecordAt(c)
        /\ \A e : Known(q, e)' = Known(q, e)
        /\ Fresh(q)' = Fresh(q) /\ Output(q)' = Output(q)
    BY BatchStays
  <1>2. InSink(q)' => InSink(q)
    BY DEF InSink
  <1>3. WatermarkFollows(q)' /\ StoreIsInSink(q)' /\ OldIsLost(q)'
    BY <1>1 DEF QueryInv, WatermarkFollows, StoreIsInSink, OldIsLost
  <1>4. BatchIsInSink(q)'
    BY <1>1, <1>2 DEF QueryInv, BatchIsInSink
  <1>5. ArchivedAreKnown(q)'
    <2>1. q = "archive" /\ InSink(q) => InSink(q)'
      BY DEF InSink, QueryInv, BatchIsInSink
    <2> QED
      BY <1>1, <2>1 DEF QueryInv, ArchivedAreKnown
  <1>6. RejectedAreKept(q)'
    BY <1>1, RejectedStay DEF QueryInv, RejectedAreKept
  <1> QED
    BY <1>3, <1>4, <1>5, <1>6 DEF QueryInv

\* A new batch is not in the sink, so what the archive holds is known.
LEMMA PlanKeeps ==
    ASSUME TypeOK, NEW q \in Queries, QueryInv(q), Plan(q)
    PROVE  QueryInv(q)'
  <1>1. /\ TopicGrows /\ out' = out /\ watermark' = watermark
        /\ committed' = committed /\ lateBound' = lateBound /\ seen' = seen
    BY DEF Plan, simulator, TopicGrows, TypeOK
  <1>2. stage[q] = "idle" /\ stage'[q] = "planned" /\ (q = "archive" => ~filed')
    BY DEF Plan, TypeOK
  <1>3. ~InSink(q) /\ ~InSink(q)'
    BY <1>2 DEF InSink
  <1>4. /\ ConsumedEvents(q)' = ConsumedEvents(q)
        /\ Consumed(q)' = Consumed(q)
        /\ \A c \in Consumed(q) : RecordAt(c)' = RecordAt(c)
        /\ \A e : Known(q, e)' = Known(q, e)
    BY <1>1, BatchStays
  <1>5. WatermarkFollows(q)' /\ StoreIsInSink(q)' /\ OldIsLost(q)'
    BY <1>1, <1>4 DEF QueryInv, WatermarkFollows, StoreIsInSink, OldIsLost
  <1>6. BatchIsInSink(q)' /\ ArchivedAreKnown(q)'
    BY <1>1, <1>2, <1>3, <1>4 DEF QueryInv, BatchIsInSink, ArchivedAreKnown
  <1>7. RejectedAreKept(q)'
    BY <1>1, <1>4, RejectedStay DEF QueryInv, RejectedAreKept
  <1> QED
    BY <1>5, <1>6, <1>7 DEF QueryInv

\* A part of the batch goes to the sink: the whole of it, or what a dying
\* quarantine query had sent.
LEMMA SinkGrows ==
    ASSUME TypeOK, NEW q \in Queries, QueryInv(q), NEW S \in SUBSET Output(q),
           out'[q] = out[q] (+) SetToBag(S),
           topic' = topic, committed' = committed, planned' = planned,
           watermark' = watermark, lateBound' = lateBound, seen' = seen
    PROVE  /\ WatermarkFollows(q)' /\ StoreIsInSink(q)'
           /\ OldIsLost(q)' /\ RejectedAreKept(q)'
           /\ Output(q)' = Output(q) /\ Fresh(q)' = Fresh(q)
           /\ \A e : Known(q, e)' = Known(q, e)
           /\ BagToSet(out'[q]) = BagToSet(out[q]) \cup S
  <1> USE IngestAssumption
  <1>1. TopicGrows
    BY DEF TopicGrows, TypeOK
  <1>2. /\ ConsumedEvents(q)' = ConsumedEvents(q)
        /\ Consumed(q)' = Consumed(q)
        /\ \A c \in Consumed(q) : RecordAt(c)' = RecordAt(c)
        /\ \A e : Known(q, e)' = Known(q, e)
        /\ Fresh(q)' = Fresh(q) /\ Output(q)' = Output(q)
    BY <1>1, BatchStays
  <1>3. /\ BagToSet(out'[q]) = BagToSet(out[q]) \cup S
        /\ \A e : Copies(e, out'[q]) = Copies(e, out[q]) + IF e \in S THEN 1 ELSE 0
    <2>1. IsABag(out[q])
      BY DEF TypeOK, SinksAreBags
    <2>2. LET B == out[q] (+) SetToBag(S)
          IN  /\ BagToSet(B) = BagToSet(out[q]) \cup S
              /\ \A e : Copies(e, B) = Copies(e, out[q]) + IF e \in S THEN 1 ELSE 0
      BY <2>1, BagAddSet
    <2> QED
      BY <2>2
  <1>4. WatermarkFollows(q)' /\ StoreIsInSink(q)'
    BY <1>2, <1>3 DEF QueryInv, WatermarkFollows, StoreIsInSink
  <1>5. \A e : Copies(e, out[q]) >= 1 => Copies(e, out'[q]) >= 1
    <2>1. \A e : Copies(e, out[q]) \in Nat
      BY DEF TypeOK, SinksAreBags, IsABag, Copies, BagIn, BagToSet
    <2> QED
      BY <1>3, <2>1
  <1>6. OldIsLost(q)'
    BY <1>2, <1>5 DEF QueryInv, OldIsLost
  <1>7. RejectedAreKept(q)'
    <2>1. ASSUME q = "quarantine", NEW c \in S
          PROVE  /\ c \in Partitions \X (1..MaxRecords)
                 /\ c[2] <= Len(topic[c[1]]) /\ RecordAt(c) = Bad
      <3>1. /\ c[1] \in Partitions /\ c[2] \in 1..MaxRecords
            /\ c[2] <= planned[q][c[1]] /\ RecordAt(c) = Bad
            /\ c \in Partitions \X (1..MaxRecords)
        BY <2>1 DEF Output, InvalidIn, Slice
      <3>2. planned[q][c[1]] \in Nat /\ planned[q][c[1]] <= Len(topic[c[1]])
        BY <3>1 DEF TypeOK, Offsets
      <3>3. c[2] \in Nat /\ Len(topic[c[1]]) \in Nat
        BY <3>1 DEF TypeOK
      <3> QED
        BY <3>1, <3>2, <3>3
    <2>2. \A c : RecordAt(c)' = RecordAt(c)
      BY DEF RecordAt
    <2> QED
      BY <1>2, <1>3, <2>1, <2>2 DEF QueryInv, RejectedAreKept
  <1> QED
    BY <1>2, <1>3, <1>4, <1>6, <1>7

\* The archive writes a batch that is not in its log, and then nothing of the
\* batch was known, or skips one that is.
LEMMA WriteKeeps ==
    ASSUME TypeOK, NEW q \in Queries, QueryInv(q), Write(q)
    PROVE  QueryInv(q)'
  <1> DEFINE S == IF q = "archive" /\ filed THEN {} ELSE Output(q)
  <1>1. /\ topic' = topic /\ committed' = committed /\ planned' = planned
        /\ watermark' = watermark /\ lateBound' = lateBound /\ seen' = seen
        /\ stage[q] = "planned" /\ stage'[q] = "written"
        /\ q = "archive" => filed'
    BY DEF Write, simulator, progress, TypeOK
  <1>2. CASE q = "archive" /\ filed
    <2>1. out'[q] = out[q] /\ filed'
      BY <1>2 DEF Write, TypeOK, SinksAreBags
    <2>2. TopicGrows
      BY <1>1 DEF TopicGrows, TypeOK
    <2>3. /\ ConsumedEvents(q)' = ConsumedEvents(q)
          /\ \A e : Known(q, e)' = Known(q, e)
          /\ Fresh(q)' = Fresh(q) /\ Output(q)' = Output(q)
      BY <1>1, <2>2, BatchStays
    <2>4. InSink(q) /\ InSink(q)'
      BY <1>1, <1>2 DEF InSink
    <2> QED
      BY <1>1, <1>2, <2>1, <2>3, <2>4
      DEF QueryInv, WatermarkFollows, StoreIsInSink, BatchIsInSink, ArchivedAreKnown,
          OldIsLost, RejectedAreKept
  <1>3. CASE ~(q = "archive" /\ filed)
    <2>1. out'[q] = out[q] (+) SetToBag(Output(q))
      BY <1>3 DEF Write, TypeOK, SinksAreBags
    <2>2. /\ WatermarkFollows(q)' /\ StoreIsInSink(q)'
          /\ OldIsLost(q)' /\ RejectedAreKept(q)'
          /\ Output(q)' = Output(q) /\ Fresh(q)' = Fresh(q)
          /\ \A e : Known(q, e)' = Known(q, e)
          /\ BagToSet(out'[q]) = BagToSet(out[q]) \cup Output(q)
      BY <1>1, <2>1, SinkGrows
    <2>3. BatchIsInSink(q)'
      BY <1>1, <2>2 DEF BatchIsInSink
    <2>4. ASSUME q = "archive", NEW e \in BagToSet(out'[q])
          PROVE  /\ e \in Events /\ Copies(e, out'[q]) = 1
                 /\ Known(q, e) \/ e \in Fresh(q)
      <3>1. Output(q) = Fresh(q) /\ Fresh(q) \subseteq Events
        BY <2>4, ValidAreEvents DEF Output, Fresh
      <3>2. ~InSink(q)
        BY <1>1, <1>3, <2>4 DEF InSink
      <3>3. Copies(e, out'[q]) = Copies(e, out[q]) + IF e \in Fresh(q) THEN 1 ELSE 0
        BY <2>1, <3>1, BagAddSet DEF TypeOK, SinksAreBags
      <3>4. CASE e \in BagToSet(out[q])
        <4>1. e \in Events /\ Copies(e, out[q]) = 1 /\ Known(q, e)
          BY <2>4, <3>2, <3>4 DEF QueryInv, ArchivedAreKnown
        <4>2. e \notin Fresh(q)
          BY <4>1 DEF Known, Fresh
        <4> QED
          BY <3>3, <4>1, <4>2
      <3>5. CASE e \notin BagToSet(out[q])
        <4>1. Copies(e, out[q]) = 0 /\ e \in Fresh(q)
          BY <2>2, <3>1, <3>5 DEF Copies, BagIn
        <4> QED
          BY <3>1, <3>3, <4>1
      <3> QED
        BY <3>4, <3>5
    <2>5. ArchivedAreKnown(q)'
      BY <1>1, <2>2, <2>4 DEF ArchivedAreKnown, InSink
    <2> QED
      BY <2>2, <2>3, <2>5 DEF QueryInv
  <1> QED
    BY <1>2, <1>3

\* What a dying query leaves behind: nothing of its batch, all of it, or, on the
\* invalid topic only, a part.
LEMMA FailKeeps ==
    ASSUME TypeOK, NEW q \in Queries, QueryInv(q), Fail(q)
    PROVE  QueryInv(q)'
  <1>1. /\ topic' = topic /\ committed' = committed /\ planned' = planned
        /\ watermark' = watermark /\ lateBound' = lateBound /\ seen' = seen
        /\ stage[q] # "idle" /\ stage'[q] = "failed" /\ filed' = filed
    BY DEF Fail, simulator, progress, TypeOK
  <1>2. PICK S \in SUBSET (IF q = "quarantine" /\ stage[q] = "planned"
                            THEN Output(q) ELSE {}) :
            out' = [out EXCEPT ![q] = @ (+) SetToBag(S)]
    BY DEF Fail
  <1>3. out'[q] = out[q] (+) SetToBag(S) /\ S \in SUBSET Output(q)
    BY <1>2 DEF TypeOK, SinksAreBags
  <1>4. /\ WatermarkFollows(q)' /\ StoreIsInSink(q)'
        /\ OldIsLost(q)' /\ RejectedAreKept(q)'
        /\ Output(q)' = Output(q) /\ Fresh(q)' = Fresh(q)
        /\ \A e : Known(q, e)' = Known(q, e)
        /\ BagToSet(out'[q]) = BagToSet(out[q]) \cup S
    BY <1>1, <1>3, SinkGrows
  <1>5. BatchIsInSink(q)'
    BY <1>1, <1>4 DEF QueryInv, BatchIsInSink, InSink
  <1>6. ArchivedAreKnown(q)'
    <2>1. ASSUME q = "archive"
          PROVE  /\ \A e : Copies(e, out'[q]) = Copies(e, out[q])
                 /\ BagToSet(out'[q]) = BagToSet(out[q])
                 /\ InSink(q) => InSink(q)'
      <3>1. S = {}
        BY <1>2, <2>1
      <3>2. \A e : Copies(e, out'[q]) = Copies(e, out[q]) + 0
        BY <1>3, <3>1, BagAddSet DEF TypeOK, SinksAreBags
      <3>3. \A e : Copies(e, out[q]) \in Nat
        BY DEF TypeOK, SinksAreBags, IsABag, Copies, BagIn, BagToSet
      <3>4. InSink(q) => InSink(q)'
        BY <1>1, <2>1 DEF InSink, QueryInv, BatchIsInSink
      <3> QED
        BY <1>4, <3>1, <3>2, <3>3, <3>4
    <2> QED
      BY <1>4, <2>1 DEF QueryInv, ArchivedAreKnown
  <1> QED
    BY <1>4, <1>5, <1>6 DEF QueryInv

\* The commit moves past the batch, which is in the sink, and forgets the ids
\* that the new bound on late rows keeps out.
LEMMA CommitKeeps ==
    ASSUME TypeOK, NEW q \in Queries, QueryInv(q), Commit(q)
    PROVE  QueryInv(q)'
  <1> USE IngestAssumption
  <1>1. /\ topic' = topic /\ out' = out /\ filed' = filed
        /\ stage[q] = "written" /\ stage'[q] = "idle"
        /\ watermark'[q] = NextWatermark(q) /\ lateBound'[q] = watermark[q]
        /\ seen'[q] = NextSeen(q)
    BY DEF Commit, simulator, TypeOK
  <1>2. InSink(q) /\ ~InSink(q)'
    BY <1>1 DEF InSink
  <1>3. Output(q) \subseteq BagToSet(out[q])
    BY <1>2 DEF QueryInv, BatchIsInSink
  <1>4. q # "quarantine" => Fresh(q) \subseteq BagToSet(out[q])
    BY <1>3 DEF Output
  <1>5. q = "quarantine" => ValidIn(q) = {}
    BY DEF ValidIn
  <1>6. /\ Consumed(q)' = Consumed(q) \cup Slice(q)
        /\ ConsumedEvents(q) \subseteq ConsumedEvents(q)'
        /\ q # "quarantine" => ConsumedEvents(q)' = ConsumedEvents(q) \cup ValidIn(q)
    BY CommitConsumes
  <1>7. /\ watermark[q] \in Nat /\ lateBound[q] \in Nat /\ Delay \in Nat
        /\ \A e \in Events : e[2] \in Nat /\ e[2] > 0
    <2>1. \A e \in Events : e[2] \in Times
      BY DEF Events
    <2>2. \A t \in Times : t \in Nat /\ t > 0
      OBVIOUS
    <2> QED
      BY <2>1, <2>2 DEF TypeOK
  <1>8. WatermarkFollows(q)'
    <2>1. /\ watermark'[q] \in Nat /\ watermark'[q] >= watermark[q]
          /\ \/ watermark'[q] = watermark[q]
             \/ watermark'[q] = 0
             \/ \E f \in ValidIn(q) : f[2] >= watermark'[q] + Delay
      BY <1>1, NextWatermarkRises
    <2>2. watermark'[q] > 0 =>
              \E f \in ConsumedEvents(q)' : f[2] >= watermark'[q] + Delay
      BY <2>1, <1>5, <1>6 DEF QueryInv, WatermarkFollows
    <2> QED
      BY <1>1, <1>7, <2>1, <2>2 DEF WatermarkFollows
  <1>9. StoreIsInSink(q)'
    <2>1. Fresh(q) \subseteq BagToSet(out[q])
      BY <1>4, <1>5 DEF Fresh
    <2> QED
      BY <1>1, <2>1 DEF QueryInv, StoreIsInSink, NextSeen
  <1>10. BatchIsInSink(q)'
    BY <1>1, <1>2 DEF BatchIsInSink
  <1>11. ArchivedAreKnown(q)'
    <2>1. ASSUME q = "archive", NEW e \in BagToSet(out[q]) PROVE Known(q, e)'
      <3>1. e \in Events /\ (Known(q, e) \/ e \in Fresh(q))
        BY <2>1 DEF QueryInv, ArchivedAreKnown
      <3>2. CASE IsLate(q, e)
        <4>1. e[2] <= watermark[q]
          BY <3>1, <3>2, <1>7 DEF QueryInv, WatermarkFollows, IsLate
        <4> QED
          BY <1>1, <4>1 DEF Known, IsLate
      <3>3. CASE e \in seen[q] \cup Fresh(q)
        <4>1. CASE e[2] + Delay > watermark[q]
          BY <1>1, <3>3, <4>1 DEF Known, NextSeen
        <4>2. CASE ~(e[2] + Delay > watermark[q])
          BY <1>1, <1>7, <3>1, <4>2 DEF Known, IsLate
        <4> QED
          BY <4>1, <4>2
      <3> QED
        BY <3>1, <3>2, <3>3 DEF Known
    <2> QED
      BY <1>1, <2>1 DEF QueryInv, ArchivedAreKnown
  <1>12. OldIsLost(q)'
    <2>1. ASSUME q # "quarantine", NEW e \in ValidIn(q)
          PROVE  \/ Copies(e, out[q]) >= 1
                 \/ \E f \in ConsumedEvents(q) : f[2] >= e[2] + Delay
      <3>1. e \in Events
        BY ValidAreEvents
      <3>2. CASE IsLate(q, e)
        <4>1. lateBound[q] <= watermark[q] /\ e[2] <= lateBound[q]
          BY <3>2 DEF QueryInv, WatermarkFollows, IsLate
        <4>2. e[2] <= watermark[q] /\ watermark[q] > 0
          BY <3>1, <4>1, <1>7
        <4>3. PICK f \in ConsumedEvents(q) : f[2] >= watermark[q] + Delay
          BY <4>2 DEF QueryInv, WatermarkFollows
        <4>4. f[2] \in Nat /\ e[2] \in Nat
          BY <1>7, <3>1, ConsumedAreEvents
        <4>5. f[2] >= e[2] + Delay
          BY <4>2, <4>3, <4>4, <1>7
        <4> QED
          BY <4>5
      <3>3. CASE ~IsLate(q, e)
        <4>1. e \in BagToSet(out[q])
          BY <1>4, <2>1, <3>3 DEF Fresh, QueryInv, StoreIsInSink
        <4> QED
          BY <4>1 DEF TypeOK, SinksAreBags, IsABag, Copies, BagIn, BagToSet
      <3> QED
        BY <3>2, <3>3
    <2>2. q # "quarantine" => \A e \in ConsumedEvents(q) :
                \/ Copies(e, out[q]) >= 1
                \/ \E f \in ConsumedEvents(q) : f[2] >= e[2] + Delay
      BY DEF QueryInv, OldIsLost
    <2> QED
      BY <1>1, <1>6, <2>1, <2>2 DEF OldIsLost
  <1>13. RejectedAreKept(q)'
    <2>1. \A c : RecordAt(c)' = RecordAt(c)
      BY <1>1 DEF RecordAt
    <2>2. q = "quarantine" => \A c \in Slice(q) :
              RecordAt(c) = Bad => c \in BagToSet(out[q])
      BY <1>3 DEF Output, InvalidIn
    <2> QED
      BY <1>1, <1>6, <2>1, <2>2 DEF QueryInv, RejectedAreKept
  <1> QED
    BY <1>8, <1>9, <1>10, <1>11, <1>12, <1>13 DEF QueryInv

-----------------------------------------------------------------------------
(***************************************************************************)
(* The specification.                                                      *)
(***************************************************************************)
LEMMA InvInitially == Init => IInv
  BY TypesInitially, QueryInvInitially DEF IInv

\* A query's step leaves the others alone.
LEMMA OthersStay ==
    ASSUME IInv, TypeOK', NEW q \in Queries, Advance(q) \/ Fail(q),
           NEW r \in Queries \ {q}
    PROVE  QueryInv(r)'
  <1>1. TopicGrows
    BY DEF Advance, Plan, Write, Commit, Fail, simulator, TopicGrows, IInv, TypeOK
  <1>2. /\ committed'[r] = committed[r] /\ planned'[r] = planned[r]
        /\ watermark'[r] = watermark[r] /\ lateBound'[r] = lateBound[r]
        /\ seen'[r] = seen[r] /\ stage'[r] = stage[r] /\ out'[r] = out[r]
    <2>1. CASE Plan(q)
      BY <2>1 DEF Plan, IInv, TypeOK
    <2>2. CASE Write(q)
      BY <2>2 DEF Write, progress, IInv, TypeOK, SinksAreBags
    <2>3. CASE Commit(q)
      BY <2>3 DEF Commit, IInv, TypeOK
    <2>4. CASE Fail(q)
      BY <2>4 DEF Fail, progress, IInv, TypeOK, SinksAreBags
    <2> QED
      BY <2>1, <2>2, <2>3, <2>4 DEF Advance
  <1>3. r = "archive" => filed' = filed
    <2>1. CASE Plan(q)
      BY <2>1, Zenon DEF Plan, IInv, TypeOK
    <2>2. CASE Write(q)
      BY <2>2, Zenon DEF Write, IInv, TypeOK
    <2> QED
      BY <2>1, <2>2 DEF Advance, Commit, Fail
  <1> QED
    BY <1>1, <1>2, <1>3, QueryStays DEF IInv

LEMMA InvStays == IInv /\ [Next]_vars => IInv'
  <1> SUFFICES ASSUME IInv, [Next]_vars PROVE IInv'
    OBVIOUS
  <1>1. TypeOK /\ TypeOK'
    BY TypesStay DEF IInv
  <1>2. ASSUME NEW q \in Queries, Advance(q) \/ Fail(q) PROVE IInv'
    <2>1. QueryInv(q)'
      BY <1>1, <1>2, PlanKeeps, WriteKeeps, CommitKeeps, FailKeeps DEF IInv, Advance
    <2> QED
      BY <1>1, <1>2, <2>1, OthersStay DEF IInv
  <1>3. CASE Simulate
    <2>1. TopicGrows
      BY <1>1, <1>3, SimulateGrows
    <2>2. UNCHANGED <<progress, stage, out, filed>>
      BY <1>3 DEF Simulate, Publish, PublishBad, Send, RestartSimulator
    <2>3. \A q \in Queries : QueryInv(q)'
      BY <1>1, <2>1, <2>2, QueryStays DEF IInv, progress
    <2> QED
      BY <1>1, <2>3 DEF IInv
  <1>4. CASE Terminate
    <2>1. TopicGrows
      BY <1>1, <1>4 DEF Terminate, simulator, TopicGrows, TypeOK
    <2>2. \A q \in Queries : /\ stage'[q] # "written"
                             /\ stage'[q] = "idle" <=> stage[q] = "idle"
      BY <1>1, <1>4 DEF Terminate, TypeOK
    <2>3. \A q \in Queries : QueryInv(q)'
      BY <1>1, <1>4, <2>1, <2>2, QueryStays DEF IInv, Terminate, progress
    <2> QED
      BY <1>1, <2>3 DEF IInv
  <1>5. CASE Restart \/ UNCHANGED vars
    <2>1. UNCHANGED <<simulator, progress, stage, out, filed>>
      BY <1>5 DEF Restart, vars
    <2>2. TopicGrows
      BY <1>1, <2>1 DEF simulator, TopicGrows, TypeOK
    <2>3. \A q \in Queries : QueryInv(q)'
      BY <1>1, <2>1, <2>2, QueryStays DEF IInv, progress
    <2> QED
      BY <1>1, <2>3 DEF IInv
  <1> QED
    BY <1>2, <1>3, <1>4, <1>5 DEF Next, Poll, Exit, Interrupt

\* Offsets, state stores, batches and sinks of every query stay in step,
\* whatever fails and whenever.
THEOREM IngestInvariant == Spec => []IInv
  BY InvInitially, InvStays, PTL DEF Spec

\* No event is in the archive twice, whatever is published twice and whatever
\* is run again after a failure.
THEOREM ArchivedOnceTheorem == Spec => []ArchivedOnce
  <1>1. IInv => ArchivedOnce
    <2> SUFFICES ASSUME IInv, "archive" \in Queries, NEW e \in Events
                 PROVE  Copies(e, out["archive"]) <= 1
      BY DEF ArchivedOnce
    <2>1. BagIn(e, out["archive"]) => Copies(e, out["archive"]) = 1
      BY DEF IInv, QueryInv, ArchivedAreKnown, BagIn
    <2> QED
      BY <2>1 DEF Copies
  <1> QED
    BY <1>1, IngestInvariant, PTL

\* An event a query has moved past is in its sink, or was Delay behind another
\* one it has read.
THEOREM OnlyLateIsLostTheorem == Spec => []OnlyLateIsLost
  <1>1. IInv => OnlyLateIsLost
    BY DEF IInv, QueryInv, OldIsLost, OnlyLateIsLost
  <1> QED
    BY <1>1, IngestInvariant, PTL

\* The invalid topic has every rejected record the quarantine query has moved
\* past, and nothing else.
THEOREM QuarantineIsCompleteTheorem == Spec => []QuarantineIsComplete
  <1>1. IInv => QuarantineIsComplete
    BY DEF IInv, QueryInv, RejectedAreKept, QuarantineIsComplete
  <1> QED
    BY <1>1, IngestInvariant, PTL
=============================================================================
