----------------------- MODULE EstimatePipelineProofs -----------------------
(***************************************************************************)
(* Theorems about EstimatePipeline, for every set of voyages and contents, *)
(* every batch limit and any number of faults and poison pills.            *)
(***************************************************************************)
EXTENDS EstimatePipeline, TLAPS

\* Wrapping yields an integer.
LEMMA WrapType == \A x \in Int : Wrap(x) \in Int
  BY HalfAssumption DEF Wrap

\* Add returns an integer amount, whether it succeeds or not.
LEMMA AddType ==
  ASSUME NEW m \in [minor : Int, currency : {USD}],
         NEW other \in [minor : Int, currency : {USD}]
  PROVE  Add(m, other).money \in [minor : Int, currency : {USD}]
  <1>1. Wrap(m.minor + other.minor) \in Int
    BY WrapType
  <1> QED
    BY <1>1 DEF Add, Ok, Failed, FromUSD

\* Mul returns an integer amount, whether it succeeds or not.
LEMMA MulType ==
  ASSUME NEW m \in [minor : Int, currency : {USD}], NEW factor \in Int
  PROVE  Mul(m, factor).money \in [minor : Int, currency : {USD}]
  <1>1. Wrap(m.minor * factor) \in Int
    BY WrapType
  <1> QED
    BY <1>1 DEF Mul, Ok, Failed, FromUSD

\* A content that can be priced has an integer price.
LEMMA PriceType ==
  ASSUME NEW c \in Contents
  PROVE  Priceable(c) => Price(c) \in Int
  <1> DEFINE base == Mul(FromUSD(RatePerNm), c.distanceNm)
  <1>1. /\ c.distanceNm \in Int /\ c.feesMinor \in Int /\ RatePerNm \in Int
    BY PipelineAssumption
  <1>2. /\ FromUSD(c.feesMinor) \in [minor : Int, currency : {USD}]
        /\ FromUSD(RatePerNm) \in [minor : Int, currency : {USD}]
    BY <1>1 DEF FromUSD
  <1>3. base.money \in [minor : Int, currency : {USD}]
    BY <1>1, <1>2, MulType
  <1>4. Add(base.money, FromUSD(c.feesMinor)).money
            \in [minor : Int, currency : {USD}]
    BY <1>2, <1>3, AddType
  <1>5. Cost(c).money \in [minor : Int, currency : {USD}]
    <2> HIDE DEF base
    <2>1. Failed("ErrNegativeDistance").money \in [minor : Int, currency : {USD}]
      BY DEF Failed, FromUSD
    <2>2. Failed("ErrNonPositiveRate").money \in [minor : Int, currency : {USD}]
      BY DEF Failed, FromUSD
    <2> QED
      BY <1>3, <1>4, <2>1, <2>2 DEF Cost, EstimateCost, base
  <1> QED
    BY <1>5 DEF Price
-----------------------------------------------------------------------------
\* The two consumer groups are distinct names.
LEMMA GroupNames ==
  /\ Groups = {Estimator, Voyage} /\ Estimator # Voyage
  /\ Estimator \in Groups /\ Voyage \in Groups
  BY DEF Groups, Estimator, Voyage

\* Appending keeps a sequence's type, adds one element and keeps the others.
LEMMA AppendFacts ==
  ASSUME NEW S, NEW s \in Seq(S), NEW e \in S
  PROVE  /\ Append(s, e) \in Seq(S)
         /\ Len(Append(s, e)) = Len(s) + 1
         /\ Len(s) \in Nat
         /\ \A i \in 1..Len(s) : Append(s, e)[i] = s[i]
         /\ Append(s, e)[Len(s) + 1] = e
  OBVIOUS

\* Well-typed and with ordered offsets: what every other invariant builds on.
Shape == TypeOK /\ OffsetsOrdered

\* The record a consumer handles exists and is an event or a poison pill; what
\* the estimator publishes for an event it can price is a well-typed event.
LEMMA RecordTypes ==
  ASSUME Shape
  PROVE  /\ Handling(Estimator) =>
              /\ cursor[Estimator] \in 1..Len(created)
              /\ CreatedRecord \in CreatedEvents \cup {Poison}
         /\ Handling(Voyage) =>
              /\ cursor[Voyage] \in 1..Len(ready)
              /\ ReadyRecord \in ReadyEvents \cup {Poison}
         /\ Handling(Estimator) /\ CreatedRecord # Poison
              /\ Priceable(CreatedRecord.content) =>
              BuildEstimateReady(CreatedRecord) \in ReadyEvents
  <1>1. ASSUME Handling(Estimator)
        PROVE  /\ cursor[Estimator] \in 1..Len(created)
               /\ CreatedRecord \in CreatedEvents \cup {Poison}
    <2>1. cursor[Estimator] \in 1..Len(created)
      BY <1>1, GroupNames DEF Shape, TypeOK, TopicType, LoopType, OffsetsOrdered, Handling, EndOffset
    <2> QED
      BY <2>1 DEF Shape, TypeOK, TopicType, CreatedRecord
  <1>2. ASSUME Handling(Voyage)
        PROVE  /\ cursor[Voyage] \in 1..Len(ready)
               /\ ReadyRecord \in ReadyEvents \cup {Poison}
    <2>1. cursor[Voyage] \in 1..Len(ready)
      BY <1>2, GroupNames DEF Shape, TypeOK, TopicType, LoopType, OffsetsOrdered, Handling, EndOffset
    <2> QED
      BY <2>1 DEF Shape, TypeOK, TopicType, ReadyRecord
  <1>3. ASSUME Handling(Estimator), CreatedRecord # Poison,
               Priceable(CreatedRecord.content)
        PROVE  BuildEstimateReady(CreatedRecord) \in ReadyEvents
    <2>1. CreatedRecord \in CreatedEvents
      BY <1>1, <1>3
    <2>2. Price(CreatedRecord.content) \in Int
      BY <1>3, <2>1, PriceType DEF CreatedEvents
    <2> QED
      BY <2>1, <2>2 DEF BuildEstimateReady, ReadyEvents, CreatedEvents
  <1> QED
    BY <1>1, <1>2, <1>3
-----------------------------------------------------------------------------
\* Every step keeps the types, part by part.
LEMMA TypeStep == Shape /\ [Next]_vars => TypeOK'
  <1> SUFFICES ASSUME Shape, [Next]_vars PROVE TypeOK'
    OBVIOUS
  <1> USE DEF table, poller, loops
  <1>a. TableType /\ OutboxType /\ TopicType /\ LoopType
    BY DEF Shape, TypeOK
  <1>b. Estimator \in Groups /\ Voyage \in Groups
    BY GroupNames
  <1>c. faults \in Nat /\ poisoned \in Nat
    BY DEF Shape, TypeOK

  <1>1. ASSUME NEW v \in Voyages, NEW c \in Contents, Create(v, c)
        PROVE  TypeOK'
    <2>1. TableType'
      BY <1>1, <1>a DEF TableType, Create
    <2>2. OutboxType'
      <3>1. ToVoyageCreated(v, 1, c) \in CreatedEvents
        BY DEF ToVoyageCreated, CreatedEvents
      <3>2. outbox \in Seq(CreatedEvents)
        BY <1>a DEF OutboxType
      <3> QED
        BY <1>1, <1>a, <3>1, <3>2, AppendFacts DEF OutboxType, Create
    <2>3. TopicType'
      BY <1>1, <1>a DEF TopicType, Create
    <2>4. LoopType'
      BY <1>1, <1>a DEF LoopType, Create
    <2> QED
      BY <1>1, <1>c, <2>1, <2>2, <2>3, <2>4 DEF TypeOK, Create
  <1>2. ASSUME NEW v \in Voyages, NEW n \in 1..MaxVersion, NEW c \in Contents, Update(v, n, c)
        PROVE  TypeOK'
    <2>1. TableType'
      BY <1>2, <1>a, PipelineAssumption DEF TableType, Update
    <2>2. OutboxType'
      BY <1>2, <1>a DEF OutboxType, Update
    <2>3. TopicType'
      BY <1>2, <1>a DEF TopicType, Update
    <2>4. LoopType'
      BY <1>2, <1>a DEF LoopType, Update
    <2> QED
      BY <1>2, <1>c, <2>1, <2>2, <2>3, <2>4 DEF TypeOK, Update
  <1>3. CASE ProducePoison
    <2>1. TableType'
      BY <1>3, <1>a DEF TableType, ProducePoison
    <2>2. OutboxType'
      BY <1>3, <1>a DEF OutboxType, ProducePoison
    <2>3. TopicType'
      <3>1. /\ Append(created, Poison) \in Seq(CreatedEvents \cup {Poison})
            /\ Append(ready, Poison) \in Seq(ReadyEvents \cup {Poison})
        BY <1>a DEF TopicType
      <3> QED
        BY <1>3, <1>a, <3>1 DEF TopicType, ProducePoison
    <2>4. LoopType'
      BY <1>3, <1>a DEF LoopType, ProducePoison
    <2> QED
      BY <1>3, <1>c, <2>1, <2>2, <2>3, <2>4 DEF TypeOK, ProducePoison
  <1>4. CASE Select
    <2>1. TableType'
      BY <1>4, <1>a DEF TableType, Select
    <2>2. OutboxType'
      BY <1>4, <1>a DEF OutboxType, Select, SelectUnpublished, Unpublished
    <2>3. TopicType'
      BY <1>4, <1>a DEF TopicType, Select
    <2>4. LoopType'
      BY <1>4, <1>a DEF LoopType, Select
    <2> QED
      BY <1>4, <1>c, <2>1, <2>2, <2>3, <2>4 DEF TypeOK, Select
  <1>5. ASSUME NEW i \in flush, Publish(i)
        PROVE  TypeOK'
    <2>1. TableType'
      BY <1>5, <1>a DEF TableType, Publish
    <2>2. OutboxType'
      BY <1>5, <1>a DEF OutboxType, Publish
    <2>3. TopicType'
      <3>1. outbox[i] \in CreatedEvents \cup {Poison}
        BY <1>a DEF OutboxType
      <3> QED
        BY <1>5, <1>a, <3>1, AppendFacts DEF TopicType, Publish
    <2>4. LoopType'
      BY <1>5, <1>a DEF LoopType, Publish
    <2> QED
      BY <1>5, <1>c, <2>1, <2>2, <2>3, <2>4 DEF TypeOK, Publish
  <1>6. CASE MarkPublished
    <2>1. TableType'
      BY <1>6, <1>a DEF TableType, MarkPublished
    <2>2. OutboxType'
      BY <1>6, <1>a DEF OutboxType, MarkPublished
    <2>3. TopicType'
      BY <1>6, <1>a DEF TopicType, MarkPublished
    <2>4. LoopType'
      BY <1>6, <1>a DEF LoopType, MarkPublished
    <2> QED
      BY <1>6, <1>c, <2>1, <2>2, <2>3, <2>4 DEF TypeOK, MarkPublished
  <1>7. ASSUME NEW g \in Groups, PollFetches(g)
        PROVE  TypeOK'
    <2>1. TableType'
      BY <1>7, <1>a DEF TableType, PollFetches
    <2>2. OutboxType'
      BY <1>7, <1>a DEF OutboxType, PollFetches
    <2>3. TopicType'
      BY <1>7, <1>a DEF TopicType, PollFetches
    <2>4. LoopType'
      <3>1. \A n \in (fetched[g] + 1)..EndOffset(g) : n \in Nat
        BY <1>a DEF LoopType
      <3> QED
        BY <1>7, <1>a, <3>1 DEF LoopType, PollFetches
    <2> QED
      BY <1>7, <1>c, <2>1, <2>2, <2>3, <2>4 DEF TypeOK, PollFetches
  <1>8. ASSUME NEW g \in Groups, CommitRecords(g)
        PROVE  TypeOK'
    <2>1. TableType'
      BY <1>8, <1>a DEF TableType, CommitRecords
    <2>2. OutboxType'
      BY <1>8, <1>a DEF OutboxType, CommitRecords
    <2>3. TopicType'
      BY <1>8, <1>a DEF TopicType, CommitRecords
    <2>4. LoopType'
      BY <1>8, <1>a DEF LoopType, CommitRecords
    <2> QED
      BY <1>8, <1>c, <2>1, <2>2, <2>3, <2>4 DEF TypeOK, CommitRecords
  <1>9. ASSUME NEW g \in Groups, HandlePoison(g)
        PROVE  TypeOK'
    <2>1. TableType'
      BY <1>9, <1>a DEF TableType, HandlePoison
    <2>2. OutboxType'
      BY <1>9, <1>a DEF OutboxType, HandlePoison
    <2>3. TopicType'
      <3>1. dlq[g] \in Seq(Nat) /\ cursor[g] \in Nat
        BY <1>a DEF LoopType, TopicType
      <3>2. Append(dlq[g], cursor[g]) \in Seq(Nat)
        BY <3>1, AppendFacts
      <3> QED
        BY <1>9, <1>a, <3>1, <3>2 DEF TopicType, HandlePoison
    <2>4. LoopType'
      BY <1>9, <1>a DEF LoopType, HandlePoison, Handled
    <2> QED
      BY <1>9, <1>c, <2>1, <2>2, <2>3, <2>4 DEF TypeOK, HandlePoison
  <1>10. CASE HandlePrice
    <2>1. TableType'
      BY <1>10, <1>a DEF TableType, HandlePrice
    <2>2. OutboxType'
      BY <1>10, <1>a DEF OutboxType, HandlePrice
    <2>3. TopicType'
      <3>1. BuildEstimateReady(CreatedRecord) \in ReadyEvents \cup {Poison}
        BY <1>10, RecordTypes DEF HandlePrice
      <3> QED
        BY <1>10, <1>a, <3>1, AppendFacts DEF TopicType, HandlePrice
    <2>4. LoopType'
      BY <1>10, <1>a, <1>b DEF LoopType, HandlePrice, Handled
    <2> QED
      BY <1>10, <1>c, <2>1, <2>2, <2>3, <2>4 DEF TypeOK, HandlePrice
  <1>11. CASE HandleUnpriceable
    <2>1. TableType'
      BY <1>11, <1>a DEF TableType, HandleUnpriceable
    <2>2. OutboxType'
      BY <1>11, <1>a DEF OutboxType, HandleUnpriceable
    <2>3. TopicType'
      BY <1>11, <1>a DEF TopicType, HandleUnpriceable
    <2>4. LoopType'
      BY <1>11, <1>a, <1>b DEF LoopType, HandleUnpriceable, Handled
    <2> QED
      BY <1>11, <1>c, <2>1, <2>2, <2>3, <2>4 DEF TypeOK, HandleUnpriceable
  <1>12. CASE HandleReady
    <2>1. TableType'
      <3>1. ReadyRecord \in ReadyEvents
        BY <1>12, RecordTypes DEF HandleReady
      <3>2. ReadyRecord.voyage \in Voyages /\ ReadyRecord.amount \in Int
        BY <3>1 DEF ReadyEvents
      <3> QED
        BY <1>12, <1>a, <3>1, <3>2 DEF TableType, HandleReady, Upsert
    <2>2. OutboxType'
      BY <1>12, <1>a DEF OutboxType, HandleReady
    <2>3. TopicType'
      BY <1>12, <1>a DEF TopicType, HandleReady
    <2>4. LoopType'
      BY <1>12, <1>a, <1>b DEF LoopType, HandleReady, Handled
    <2> QED
      BY <1>12, <1>c, <2>1, <2>2, <2>3, <2>4 DEF TypeOK, HandleReady
  <1>13. ASSUME NEW i \in flush, PublishFails(i)
        PROVE  TypeOK'
    <2>1. TableType'
      BY <1>13, <1>a DEF TableType, PublishFails
    <2>2. OutboxType'
      BY <1>13, <1>a DEF OutboxType, PublishFails
    <2>3. TopicType'
      <3>1. outbox[i] \in CreatedEvents \cup {Poison}
        BY <1>a DEF OutboxType
      <3> QED
        BY <1>13, <1>a, <3>1, AppendFacts DEF TopicType, PublishFails
    <2>4. LoopType'
      BY <1>13, <1>a DEF LoopType, PublishFails
    <2> QED
      BY <1>13, <1>c, <2>1, <2>2, <2>3, <2>4 DEF TypeOK, PublishFails, Fault
  <1>14. CASE MarkPublishedFails
    <2>1. TableType'
      BY <1>14, <1>a DEF TableType, MarkPublishedFails
    <2>2. OutboxType'
      BY <1>14, <1>a DEF OutboxType, MarkPublishedFails
    <2>3. TopicType'
      BY <1>14, <1>a DEF TopicType, MarkPublishedFails
    <2>4. LoopType'
      BY <1>14, <1>a DEF LoopType, MarkPublishedFails
    <2> QED
      BY <1>14, <1>c, <2>1, <2>2, <2>3, <2>4 DEF TypeOK, MarkPublishedFails, Fault
  <1>15. ASSUME NEW g \in Groups, CommitFails(g)
        PROVE  TypeOK'
    <2>1. TableType'
      BY <1>15, <1>a DEF TableType, CommitFails
    <2>2. OutboxType'
      BY <1>15, <1>a DEF OutboxType, CommitFails
    <2>3. TopicType'
      BY <1>15, <1>a DEF TopicType, CommitFails
    <2>4. LoopType'
      BY <1>15, <1>a DEF LoopType, CommitFails
    <2> QED
      BY <1>15, <1>c, <2>1, <2>2, <2>3, <2>4 DEF TypeOK, CommitFails, Fault
  <1>16. ASSUME NEW g \in Groups, HandlePoisonFails(g)
        PROVE  TypeOK'
    <2>1. TableType'
      BY <1>16, <1>a DEF TableType, HandlePoisonFails
    <2>2. OutboxType'
      BY <1>16, <1>a DEF OutboxType, HandlePoisonFails
    <2>3. TopicType'
      <3>1. dlq[g] \in Seq(Nat) /\ cursor[g] \in Nat
        BY <1>a DEF LoopType, TopicType
      <3>2. Append(dlq[g], cursor[g]) \in Seq(Nat)
        BY <3>1, AppendFacts
      <3>3. CASE dlq' = dlq
        BY <1>16, <1>a, <3>3 DEF TopicType, HandlePoisonFails
      <3>4. CASE dlq' = [dlq EXCEPT ![g] = Append(@, cursor[g])]
        BY <1>16, <1>a, <3>2, <3>4 DEF TopicType, HandlePoisonFails
      <3> QED
        BY <1>16, <3>3, <3>4 DEF HandlePoisonFails
    <2>4. LoopType'
      BY <1>16, <1>a DEF LoopType, HandlePoisonFails, Handled
    <2> QED
      BY <1>16, <1>c, <2>1, <2>2, <2>3, <2>4 DEF TypeOK, HandlePoisonFails, Fault
  <1>17. CASE HandlePriceFails
    <2>1. TableType'
      BY <1>17, <1>a DEF TableType, HandlePriceFails
    <2>2. OutboxType'
      BY <1>17, <1>a DEF OutboxType, HandlePriceFails
    <2>3. TopicType'
      <3>1. BuildEstimateReady(CreatedRecord) \in ReadyEvents \cup {Poison}
        BY <1>17, RecordTypes DEF HandlePriceFails
      <3> QED
        BY <1>17, <1>a, <3>1, AppendFacts DEF TopicType, HandlePriceFails
    <2>4. LoopType'
      BY <1>17, <1>a, <1>b DEF LoopType, HandlePriceFails, Handled
    <2> QED
      BY <1>17, <1>c, <2>1, <2>2, <2>3, <2>4 DEF TypeOK, HandlePriceFails, Fault
  <1>18. CASE HandleReadyFails
    <2>1. TableType'
      <3>1. ReadyRecord \in ReadyEvents
        BY <1>18, RecordTypes DEF HandleReadyFails
      <3>2. ReadyRecord.voyage \in Voyages /\ ReadyRecord.amount \in Int
        BY <3>1 DEF ReadyEvents
      <3> QED
        BY <1>18, <1>a, <3>1, <3>2 DEF TableType, HandleReadyFails
    <2>2. OutboxType'
      BY <1>18, <1>a DEF OutboxType, HandleReadyFails
    <2>3. TopicType'
      BY <1>18, <1>a DEF TopicType, HandleReadyFails
    <2>4. LoopType'
      BY <1>18, <1>a, <1>b DEF LoopType, HandleReadyFails, Handled
    <2> QED
      BY <1>18, <1>c, <2>1, <2>2, <2>3, <2>4 DEF TypeOK, HandleReadyFails, Fault
  <1>19. CASE RestartEstimator
    <2>1. TableType'
      BY <1>19, <1>a DEF TableType, RestartEstimator
    <2>2. OutboxType'
      BY <1>19, <1>a DEF OutboxType, RestartEstimator
    <2>3. TopicType'
      BY <1>19, <1>a DEF TopicType, RestartEstimator
    <2>4. LoopType'
      BY <1>19, <1>a, <1>b DEF LoopType, RestartEstimator, Resume
    <2> QED
      BY <1>19, <1>c, <2>1, <2>2, <2>3, <2>4 DEF TypeOK, RestartEstimator, Fault
  <1>20. CASE RestartVoyage
    <2>1. TableType'
      BY <1>20, <1>a DEF TableType, RestartVoyage
    <2>2. OutboxType'
      BY <1>20, <1>a DEF OutboxType, RestartVoyage
    <2>3. TopicType'
      BY <1>20, <1>a DEF TopicType, RestartVoyage
    <2>4. LoopType'
      BY <1>20, <1>a, <1>b DEF LoopType, RestartVoyage, Resume
    <2> QED
      BY <1>20, <1>c, <2>1, <2>2, <2>3, <2>4 DEF TypeOK, RestartVoyage, Fault
  <1>21. CASE UNCHANGED vars
    BY <1>21, <1>a, <1>c DEF TypeOK, TableType, OutboxType, TopicType, LoopType, vars
  <1> QED
    BY <1>1, <1>2, <1>3, <1>4, <1>5, <1>6, <1>7, <1>8, <1>9, <1>10, <1>11, <1>12, <1>13, <1>14, <1>15, <1>16, <1>17, <1>18, <1>19, <1>20, <1>21
    DEF Next, PollerStep, ConsumerStep, FaultStep
-----------------------------------------------------------------------------
\* The topics are logs: a step leaves voyage.created as it is or appends one
\* outbox payload or poison pill to it ...
LEMMA CreatedSteps ==
  ASSUME [Next]_vars
  PROVE  \/ UNCHANGED created
         \/ created' = Append(created, Poison)
         \/ \E i \in flush : created' = Append(created, outbox[i])
  <1>1. CASE ProducePoison
    BY <1>1 DEF ProducePoison
  <1>2. ASSUME NEW i \in flush, Publish(i)
        PROVE  created' = Append(created, outbox[i])
    BY <1>2 DEF Publish
  <1>3. ASSUME NEW i \in flush, PublishFails(i)
        PROVE  UNCHANGED created \/ created' = Append(created, outbox[i])
    BY <1>3 DEF PublishFails
  <1>4. CASE UNCHANGED vars
    BY <1>4 DEF vars
  <1> QED
    BY <1>1, <1>2, <1>3, <1>4
    DEF Next, PollerStep, ConsumerStep, FaultStep, Create, Update, Select,
        MarkPublished, PollFetches, CommitRecords, HandlePoison, HandlePrice,
        HandleUnpriceable, HandleReady, MarkPublishedFails, CommitFails,
        HandlePoisonFails, HandlePriceFails, HandleReadyFails,
        RestartEstimator, RestartVoyage

\* ... and estimate.ready as it is, or with one poison pill or the event of the
\* voyage.created record being handled appended to it.
LEMMA ReadySteps ==
  ASSUME [Next]_vars
  PROVE  \/ UNCHANGED ready
         \/ ready' = Append(ready, Poison)
         \/ /\ Handling(Estimator)
            /\ CreatedRecord # Poison /\ Priceable(CreatedRecord.content)
            /\ ready' = Append(ready, BuildEstimateReady(CreatedRecord))
            /\ UNCHANGED <<version, content, outbox>>
  <1>1. CASE ProducePoison
    BY <1>1 DEF ProducePoison
  <1>2. CASE HandlePrice
    BY <1>2 DEF HandlePrice, table
  <1>3. CASE HandlePriceFails
    BY <1>3 DEF HandlePriceFails, table
  <1>4. CASE UNCHANGED vars
    BY <1>4 DEF vars
  <1> QED
    BY <1>1, <1>2, <1>3, <1>4
    DEF Next, PollerStep, ConsumerStep, FaultStep, Create, Update, Select,
        Publish, PublishFails, MarkPublished, PollFetches, CommitRecords,
        HandlePoison, HandleUnpriceable, HandleReady, MarkPublishedFails,
        CommitFails, HandlePoisonFails, HandleReadyFails,
        RestartEstimator, RestartVoyage

\* Only Create and Update write a voyage's version and content; only Create
\* writes the outbox.
LEMMA TableSteps ==
  ASSUME [Next]_vars
  PROVE  \/ UNCHANGED <<version, content, outbox>>
         \/ \E v \in Voyages, c \in Contents : Create(v, c)
         \/ \E v \in Voyages, n \in 1..MaxVersion, c \in Contents : Update(v, n, c)
  <1> USE DEF table
  <1>1. CASE UNCHANGED vars
    BY <1>1 DEF vars
  <1>2. CASE PollerStep
    BY <1>2 DEF PollerStep, Select, Publish, MarkPublished
  <1>3. ASSUME NEW g \in Groups, ConsumerStep(g)
        PROVE  UNCHANGED <<version, content, outbox>>
    BY <1>3 DEF ConsumerStep, PollFetches, CommitRecords, HandlePoison,
                HandlePrice, HandleUnpriceable, HandleReady
  <1>4. CASE FaultStep
    BY <1>4 DEF FaultStep, PublishFails, MarkPublishedFails, CommitFails,
                HandlePoisonFails, HandlePriceFails, HandleReadyFails,
                RestartEstimator, RestartVoyage
  <1>5. CASE ProducePoison
    BY <1>5 DEF ProducePoison
  <1> QED
    BY <1>1, <1>2, <1>3, <1>4, <1>5 DEF Next

\* Only the upsert of the estimate.ready record being handled writes an estimate,
\* and only where its WHERE clause matches.
LEMMA EstimateSteps ==
  ASSUME [Next]_vars
  PROVE  \/ UNCHANGED <<estimate, applied>>
         \/ /\ Handling(Voyage) /\ ReadyRecord # Poison /\ Matches(ReadyRecord)
            /\ estimate' = [estimate EXCEPT ![ReadyRecord.voyage] = ReadyRecord.amount]
            /\ \/ UNCHANGED applied
               \/ applied' = [applied EXCEPT ![ReadyRecord.voyage] = @ + 1]
            /\ UNCHANGED <<version, content, outbox, ready>>
  <1> USE DEF table
  <1>1. CASE UNCHANGED vars
    BY <1>1 DEF vars
  <1>2. CASE HandleReady
    BY <1>2 DEF HandleReady, Upsert
  <1>3. CASE HandleReadyFails
    BY <1>3 DEF HandleReadyFails
  <1> QED
    BY <1>1, <1>2, <1>3
    DEF Next, PollerStep, ConsumerStep, FaultStep, Create, Update,
        ProducePoison, Select, Publish, PublishFails, MarkPublished,
        PollFetches, CommitRecords, HandlePoison, HandlePrice,
        HandleUnpriceable, MarkPublishedFails, CommitFails,
        HandlePoisonFails, HandlePriceFails, RestartEstimator, RestartVoyage

\* Every step keeps the offsets in order.  A step of one group's loop moves only
\* that group's positions; the topics only grow.
LEMMA OffsetsStep == Shape /\ [Next]_vars => OffsetsOrdered'
  <1> SUFFICES ASSUME Shape, [Next]_vars PROVE OffsetsOrdered'
    OBVIOUS
  <1> USE DEF table, poller, loops
  <1>a. LoopType /\ OffsetsOrdered
    BY DEF Shape, TypeOK
  <1>b. Estimator \in Groups /\ Voyage \in Groups
    BY GroupNames
  <1>c. \A g \in Groups : EndOffset(g) \in Nat
    BY DEF Shape, TypeOK, TopicType, EndOffset
  \* The topics only grow.
  <1>d. \A g \in Groups : EndOffset(g)' \in Nat /\ EndOffset(g)' >= EndOffset(g)
    <2>1. Len(created)' \in Nat /\ Len(ready)' \in Nat
      BY TypeStep DEF TypeOK, TopicType
    <2>2. /\ \A e : Len(Append(created, e)) = Len(created) + 1
          /\ \A e : Len(Append(ready, e)) = Len(ready) + 1
          /\ Len(created) \in Nat /\ Len(ready) \in Nat
      BY DEF Shape, TypeOK, TopicType
    <2>3. Len(created)' >= Len(created) /\ Len(ready)' >= Len(ready)
      BY <2>1, <2>2, CreatedSteps, ReadySteps
    <2> QED
      BY <2>1, <2>2, <2>3 DEF EndOffset
  <1>1. CASE UNCHANGED <<loops, committed>>
    BY <1>1, <1>a, <1>c, <1>d DEF OffsetsOrdered, LoopType
  <1>2. ASSUME NEW g \in Groups, PollFetches(g)
        PROVE  OffsetsOrdered'
    BY <1>2, <1>a, <1>c, <1>d DEF OffsetsOrdered, LoopType, PollFetches, Handling
  <1>3. ASSUME NEW g \in Groups, CommitRecords(g)
        PROVE  OffsetsOrdered'
    BY <1>3, <1>a, <1>c, <1>d DEF OffsetsOrdered, LoopType, CommitRecords
  <1>4. ASSUME NEW g \in Groups, CommitFails(g)
        PROVE  OffsetsOrdered'
    BY <1>4, <1>a, <1>c, <1>d DEF OffsetsOrdered, LoopType, CommitFails
  <1>5. ASSUME NEW g \in Groups, NEW ok \in BOOLEAN, Handling(g), Handled(g, ok)
        PROVE  OffsetsOrdered'
    BY <1>5, <1>a, <1>c, <1>d DEF OffsetsOrdered, LoopType, Handling, Handled
  <1>6. ASSUME NEW g \in Groups, Resume(g), UNCHANGED committed
        PROVE  OffsetsOrdered'
    BY <1>6, <1>a, <1>c, <1>d DEF OffsetsOrdered, LoopType, Resume
  <1> QED
    BY <1>1, <1>2, <1>3, <1>4, <1>5, <1>6, <1>b
    DEF Next, PollerStep, ConsumerStep, FaultStep, vars,
        Create, Update, ProducePoison, Select, Publish, MarkPublished,
        HandlePoison, AtPoison, HandlePrice, HandleUnpriceable, HandleReady,
        PublishFails, MarkPublishedFails, HandlePoisonFails, HandlePriceFails,
        HandleReadyFails, RestartEstimator, RestartVoyage
-----------------------------------------------------------------------------
\* Types and ordered offsets are inductive together, and only together: a handled
\* record exists because the offsets are ordered.
LEMMA ShapeInvariant == SafeSpec => []Shape
  <1>1. Init => Shape
    BY DEF Init, Shape, TypeOK, TableType, OutboxType, TopicType, LoopType,
           OffsetsOrdered, EndOffset
  <1>2. Shape /\ [Next]_vars => Shape'
    BY TypeStep, OffsetsStep DEF Shape
  <1> QED
    BY <1>1, <1>2, PTL DEF SafeSpec

\* Every variable always has its type (TypeOK).
THEOREM TypeCorrect == SafeSpec => []TypeOK
  <1>1. Shape => TypeOK
    BY DEF Shape
  <1> QED
    BY <1>1, ShapeInvariant, PTL

\* Committed, handled and fetched offsets never contradict each other or the
\* topics, whatever crashes and failed commits happened (OffsetsOrdered).
THEOREM OffsetsConsistent == SafeSpec => []OffsetsOrdered
  <1>1. Shape => OffsetsOrdered
    BY DEF Shape
  <1> QED
    BY <1>1, ShapeInvariant, PTL
-----------------------------------------------------------------------------
(* Genuine events, and estimates applied at most once.                     *)

\* An outbox row is its voyage's create: version 1, and the stored content for
\* as long as the voyage stays at version 1.
OutboxGenuine ==
    \A i \in 1..Len(outbox) :
        /\ outbox[i].version = 1
        /\ version[outbox[i].voyage] # 0
        /\ version[outbox[i].voyage] = 1 =>
              content[outbox[i].voyage] = outbox[i].content

\* A counted apply left an estimate; an estimate stands on a row, and at version
\* 1 it is the price of the row's content.
TableGenuine ==
    \A v \in Voyages :
        /\ applied[v] <= 1
        /\ estimate[v] = Null => applied[v] = 0
        /\ version[v] = 0 => estimate[v] = Null
        /\ version[v] = 1 /\ estimate[v] # Null =>
              estimate[v] = Price(content[v])

Genuine == Shape /\ OutboxGenuine /\ CreatedGenuine /\ ReadyGenuine /\ TableGenuine

\* A step keeps every outbox row the event of a created voyage: only Create adds a
\* row, and an Update leaves version 1 behind for good.
LEMMA OutboxGenuineStep == Genuine /\ [Next]_vars => OutboxGenuine'
  <1> SUFFICES ASSUME Genuine, [Next]_vars PROVE OutboxGenuine'
    OBVIOUS
  <1>a. /\ OutboxGenuine /\ version \in [Voyages -> Nat]
        /\ content \in [Voyages -> Contents \cup {Null}]
        /\ outbox \in Seq(CreatedEvents)
    BY DEF Genuine, Shape, TypeOK, TableType, OutboxType
  <1>b. \A i \in 1..Len(outbox) : outbox[i].voyage \in Voyages
    <2>1. \A i \in 1..Len(outbox) : outbox[i] \in CreatedEvents
      BY <1>a
    <2> QED
      BY <2>1 DEF CreatedEvents
  <1>1. CASE UNCHANGED <<version, content, outbox>>
    BY <1>1, <1>a DEF OutboxGenuine
  <1>2. ASSUME NEW v \in Voyages, NEW c \in Contents, Create(v, c)
        PROVE  OutboxGenuine'
    <2> DEFINE e == ToVoyageCreated(v, 1, c)
    <2>1. e \in CreatedEvents /\ e.voyage = v /\ e.version = 1 /\ e.content = c
      BY DEF ToVoyageCreated, CreatedEvents
    <2> HIDE DEF e
    <2>2. /\ Len(outbox') = Len(outbox) + 1
          /\ \A i \in 1..Len(outbox) : outbox'[i] = outbox[i]
          /\ outbox'[Len(outbox) + 1] = e
          /\ Len(outbox) \in Nat
      BY <1>2, <1>a, <2>1, AppendFacts DEF Create, e
    <2>3. /\ version[v] = 0
          /\ version' = [version EXCEPT ![v] = 1]
          /\ content' = [content EXCEPT ![v] = c]
      BY <1>2 DEF Create
    <2>4. \A i \in 1..Len(outbox) : outbox[i].voyage # v
      BY <1>a, <2>3 DEF OutboxGenuine
    <2>5. ASSUME NEW i \in 1..Len(outbox')
          PROVE  /\ outbox'[i].version = 1
                 /\ version'[outbox'[i].voyage] # 0
                 /\ version'[outbox'[i].voyage] = 1 =>
                       content'[outbox'[i].voyage] = outbox'[i].content
      <3>1. CASE i = Len(outbox) + 1
        BY <3>1, <1>a, <2>1, <2>2, <2>3
      <3>2. CASE i \in 1..Len(outbox)
        BY <3>2, <1>a, <1>b, <2>2, <2>3, <2>4 DEF OutboxGenuine
      <3> QED
        BY <3>1, <3>2, <2>2, <2>5
    <2> QED
      BY <2>5 DEF OutboxGenuine
  <1>3. ASSUME NEW v \in Voyages, NEW n \in 1..MaxVersion, NEW c \in Contents,
               Update(v, n, c)
        PROVE  OutboxGenuine'
    <2>1. /\ version[v] \in Nat /\ version[v] # 0 /\ n > version[v] /\ n \in Nat
          /\ version' = [version EXCEPT ![v] = n]
          /\ content' = [content EXCEPT ![v] = c]
          /\ outbox' = outbox
      BY <1>3, <1>a, PipelineAssumption DEF Update
    <2> QED
      BY <2>1, <1>a, <1>b DEF OutboxGenuine
  <1> QED
    BY <1>1, <1>2, <1>3, TableSteps

\* A step keeps every voyage.created event a copy of an outbox row: the poller, in
\* Publish and PublishFails, is the only producer of events.
LEMMA CreatedGenuineStep == Genuine /\ [Next]_vars => CreatedGenuine'
  <1> SUFFICES ASSUME Genuine, [Next]_vars PROVE CreatedGenuine'
    OBVIOUS
  <1>a. /\ CreatedGenuine /\ outbox \in Seq(CreatedEvents)
        /\ created \in Seq(CreatedEvents \cup {Poison})
        /\ flush \subseteq 1..Len(outbox)
    BY DEF Genuine, Shape, TypeOK, TopicType, OutboxType
  \* No outbox row ever changes or goes away.
  <1>b. \A i \in 1..Len(outbox) : i \in 1..Len(outbox') /\ outbox'[i] = outbox[i]
    <2>1. ASSUME NEW v \in Voyages, NEW c \in Contents, Create(v, c)
          PROVE  \A i \in 1..Len(outbox) : i \in 1..Len(outbox') /\ outbox'[i] = outbox[i]
      <3>1. ToVoyageCreated(v, 1, c) \in CreatedEvents
        BY DEF ToVoyageCreated, CreatedEvents
      <3> QED
        BY <2>1, <3>1, <1>a, AppendFacts DEF Create
    <2>2. ASSUME NEW v \in Voyages, NEW n \in 1..MaxVersion, NEW c \in Contents,
                 Update(v, n, c)
          PROVE  outbox' = outbox
      BY <2>2 DEF Update
    <2> QED
      BY <2>1, <2>2, TableSteps
  <1>1. CASE UNCHANGED created
    BY <1>1, <1>a, <1>b DEF CreatedGenuine
  <1>2. CASE created' = Append(created, Poison)
    BY <1>2, <1>a, <1>b, AppendFacts DEF CreatedGenuine
  <1>3. ASSUME NEW i \in flush, created' = Append(created, outbox[i])
        PROVE  CreatedGenuine'
    <2>1. outbox[i] \in CreatedEvents /\ i \in 1..Len(outbox)
      BY <1>a
    <2>2. /\ Len(created') = Len(created) + 1 /\ Len(created) \in Nat
          /\ \A o \in 1..Len(created) : created'[o] = created[o]
          /\ created'[Len(created) + 1] = outbox[i]
      BY <1>3, <1>a, <2>1, AppendFacts
    <2> QED
      BY <2>1, <2>2, <1>a, <1>b DEF CreatedGenuine
  <1> QED
    BY <1>1, <1>2, <1>3, CreatedSteps

\* A step keeps every estimate.ready event the price of the voyage it names: the
\* estimator builds it from a genuine voyage.created event.
LEMMA ReadyGenuineStep == Genuine /\ [Next]_vars => ReadyGenuine'
  <1> SUFFICES ASSUME Genuine, [Next]_vars PROVE ReadyGenuine'
    OBVIOUS
  <1>a. /\ ReadyGenuine /\ Shape /\ OutboxGenuine /\ CreatedGenuine
        /\ version \in [Voyages -> Nat]
        /\ content \in [Voyages -> Contents \cup {Null}]
        /\ ready \in Seq(ReadyEvents \cup {Poison})
    BY DEF Genuine, Shape, TypeOK, TableType, TopicType
  <1>b. \A o \in 1..Len(ready) : ready[o] # Poison => ready[o].voyage \in Voyages
    <2>1. \A o \in 1..Len(ready) : ready[o] # Poison => ready[o] \in ReadyEvents
      BY <1>a
    <2> QED
      BY <2>1 DEF ReadyEvents
  \* Create and Update leave the events of the topic genuine.
  <1>c. ASSUME NEW o \in 1..Len(ready), ready[o] # Poison
        PROVE  /\ ready[o].version = 1
               /\ version'[ready[o].voyage] # 0
               /\ version'[ready[o].voyage] = 1 =>
                     ready[o].amount = Price(content'[ready[o].voyage])
    <2> DEFINE w == ready[o].voyage
    <2>1. /\ w \in Voyages /\ version[w] \in Nat /\ version[w] # 0
          /\ ready[o].version = 1
          /\ version[w] = 1 => ready[o].amount = Price(content[w])
      BY <1>a, <1>b, <1>c DEF ReadyGenuine
    <2> HIDE DEF w
    <2>2. \/ version'[w] = version[w] /\ content'[w] = content[w]
          \/ version'[w] > 1 /\ version'[w] \in Nat
      <3>1. ASSUME NEW v \in Voyages, NEW c \in Contents, Create(v, c)
            PROVE  version'[w] = version[w] /\ content'[w] = content[w]
        BY <3>1, <2>1, <1>a DEF Create
      <3>2. ASSUME NEW v \in Voyages, NEW n \in 1..MaxVersion,
                   NEW c \in Contents, Update(v, n, c)
            PROVE  \/ version'[w] = version[w] /\ content'[w] = content[w]
                   \/ version'[w] > 1 /\ version'[w] \in Nat
        BY <3>2, <2>1, <1>a, PipelineAssumption DEF Update
      <3> QED
        BY <3>1, <3>2, TableSteps
    <2> QED
      BY <2>1, <2>2 DEF w
  <1>1. CASE UNCHANGED ready
    BY <1>1, <1>c DEF ReadyGenuine
  <1>2. CASE ready' = Append(ready, Poison)
    <2>1. /\ Len(ready') = Len(ready) + 1 /\ Len(ready) \in Nat
          /\ \A o \in 1..Len(ready) : ready'[o] = ready[o]
          /\ ready'[Len(ready) + 1] = Poison
      BY <1>2, <1>a, AppendFacts
    <2> QED
      BY <2>1, <1>c DEF ReadyGenuine
  <1>3. ASSUME Handling(Estimator), CreatedRecord # Poison,
               Priceable(CreatedRecord.content),
               ready' = Append(ready, BuildEstimateReady(CreatedRecord)),
               UNCHANGED <<version, content, outbox>>
        PROVE  ReadyGenuine'
    <2> DEFINE e == CreatedRecord
               r == BuildEstimateReady(CreatedRecord)
    <2>1. /\ cursor[Estimator] \in 1..Len(created)
          /\ e = created[cursor[Estimator]] /\ r \in ReadyEvents
      BY <1>3, <1>a, RecordTypes DEF CreatedRecord
    <2>2. PICK i \in 1..Len(outbox) : outbox[i] = e
      BY <1>3, <1>a, <2>1 DEF CreatedGenuine
    <2>3. /\ e.version = 1 /\ version[e.voyage] # 0
          /\ version[e.voyage] = 1 => content[e.voyage] = e.content
      BY <2>2, <1>a DEF OutboxGenuine
    <2>4. r.voyage = e.voyage /\ r.version = e.version /\ r.amount = Price(e.content)
      BY DEF BuildEstimateReady
    <2> HIDE DEF e, r
    <2>5. /\ Len(ready') = Len(ready) + 1 /\ Len(ready) \in Nat
          /\ \A o \in 1..Len(ready) : ready'[o] = ready[o]
          /\ ready'[Len(ready) + 1] = r
      BY <1>3, <1>a, <2>1, AppendFacts DEF r
    <2> QED
      BY <2>3, <2>4, <2>5, <1>3, <1>c DEF ReadyGenuine
  <1> QED
    BY <1>1, <1>2, <1>3, ReadySteps

\* A step keeps every stored estimate one that was applied once and at version 1.
LEMMA TableGenuineStep == Genuine /\ [Next]_vars => TableGenuine'
  <1> SUFFICES ASSUME Genuine, [Next]_vars PROVE TableGenuine'
    OBVIOUS
  <1>a. /\ TableGenuine /\ ReadyGenuine /\ Shape /\ TableType
        /\ version \in [Voyages -> Nat]
        /\ content \in [Voyages -> Contents \cup {Null}]
        /\ estimate \in [Voyages -> Int \cup {Null}]
        /\ applied \in [Voyages -> Nat]
    BY DEF Genuine, Shape, TypeOK, TableType
  <1>1. CASE UNCHANGED <<estimate, applied>>
    <2>1. CASE UNCHANGED <<version, content, outbox>>
      BY <1>1, <2>1, <1>a DEF TableGenuine
    <2>2. ASSUME NEW v \in Voyages, NEW c \in Contents, Create(v, c)
          PROVE  TableGenuine'
      BY <1>1, <2>2, <1>a DEF TableGenuine, Create
    <2>3. ASSUME NEW v \in Voyages, NEW n \in 1..MaxVersion, NEW c \in Contents,
                 Update(v, n, c)
          PROVE  TableGenuine'
      <3>1. /\ version[v] \in Nat /\ version[v] # 0 /\ n > version[v] /\ n \in Nat
            /\ version' = [version EXCEPT ![v] = n]
            /\ content' = [content EXCEPT ![v] = c]
        BY <2>3, <1>a, PipelineAssumption DEF Update
      <3> QED
        BY <1>1, <3>1, <1>a DEF TableGenuine
    <2> QED
      BY <2>1, <2>2, <2>3, TableSteps
  <1>2. ASSUME Handling(Voyage), ReadyRecord # Poison, Matches(ReadyRecord),
               estimate' = [estimate EXCEPT ![ReadyRecord.voyage] = ReadyRecord.amount],
               \/ UNCHANGED applied
               \/ applied' = [applied EXCEPT ![ReadyRecord.voyage] = @ + 1],
               UNCHANGED <<version, content, outbox, ready>>
        PROVE  TableGenuine'
    <2> DEFINE w == ReadyRecord.voyage
               a == ReadyRecord.amount
    <2>1. /\ cursor[Voyage] \in 1..Len(ready)
          /\ ReadyRecord \in ReadyEvents
      BY <1>2, <1>a, RecordTypes
    <2>2. w \in Voyages /\ a \in Int
      BY <2>1 DEF ReadyEvents
    <2>3. version[w] = 1 /\ estimate[w] # a /\ a = Price(content[w])
      BY <1>2, <1>a, <2>1 DEF Matches, ReadyGenuine, ReadyRecord
    <2> HIDE DEF w, a
    <2>4. estimate[w] = Null /\ applied[w] = 0
      BY <1>a, <2>2, <2>3 DEF TableGenuine
    <2>5. a # Null
      BY <2>2, PipelineAssumption
    <2>6. /\ estimate' = [estimate EXCEPT ![w] = a]
          /\ applied' = applied \/ applied' = [applied EXCEPT ![w] = @ + 1]
          /\ version' = version /\ content' = content
      BY <1>2 DEF w, a
    <2> QED
      BY <1>a, <2>2, <2>3, <2>4, <2>5, <2>6 DEF TableGenuine
  <1> QED
    BY <1>1, <1>2, EstimateSteps

\* The inductive invariant behind the theorems below.
LEMMA GenuineInvariant == SafeSpec => []Genuine
  <1>1. Init => Genuine
    BY DEF Init, Genuine, Shape, TypeOK, TableType, OutboxType, TopicType, LoopType,
           OffsetsOrdered, EndOffset, OutboxGenuine, CreatedGenuine,
           ReadyGenuine, TableGenuine
  <1>2. Genuine /\ [Next]_vars => Genuine'
    BY TypeStep, OffsetsStep, OutboxGenuineStep, CreatedGenuineStep,
       ReadyGenuineStep, TableGenuineStep DEF Genuine, Shape
  <1> QED
    BY <1>1, <1>2, PTL DEF SafeSpec

\* No event is invented or altered, whatever is republished or redelivered.
THEOREM EventsGenuine == SafeSpec => []EventsAreGenuine
  <1>1. Genuine => EventsAreGenuine
    BY DEF Genuine, EventsAreGenuine
  <1> QED
    BY <1>1, GenuineInvariant, PTL

\* At-least-once delivery costs at most one counted apply per voyage.
THEOREM AppliedOnce == SafeSpec => []AppliedAtMostOnce
  <1>1. Genuine => AppliedAtMostOnce
    BY DEF Genuine, TableGenuine, AppliedAtMostOnce
  <1> QED
    BY <1>1, GenuineInvariant, PTL

\* The pipeline implements the ledger: an estimate is written once, only on a
\* voyage still at version 1, and is the exact price of its content; every other
\* step of poller, broker and consumers leaves the ledger alone.
THEOREM ImplementsLedger == SafeSpec => LedgerSafe
  <1>1. Init => Ledger!Init
    BY DEF Init, Ledger!Init
  <1>2. ASSUME Genuine, [Next]_vars
        PROVE  [Ledger!Next]_(Ledger!vars)
    <2>a. TableGenuine /\ ReadyGenuine /\ Shape /\ TableType
      BY <1>2 DEF Genuine, Shape, TypeOK
    <2>1. CASE UNCHANGED <<estimate, applied>>
      <3>1. CASE UNCHANGED <<version, content, outbox>>
        BY <2>1, <3>1 DEF Ledger!vars
      <3>2. ASSUME NEW v \in Voyages, NEW c \in Contents, Create(v, c)
            PROVE  Ledger!Next
        BY <3>2, <2>1 DEF Create, Ledger!Next, Ledger!Create
      <3>3. ASSUME NEW v \in Voyages, NEW n \in 1..MaxVersion, NEW c \in Contents,
                   Update(v, n, c)
            PROVE  Ledger!Next
        BY <3>3, <2>1 DEF Update, Ledger!Next, Ledger!Update
      <3> QED
        BY <3>1, <3>2, <3>3, <1>2, TableSteps
    <2>2. ASSUME Handling(Voyage), ReadyRecord # Poison, Matches(ReadyRecord),
                 estimate' = [estimate EXCEPT ![ReadyRecord.voyage] = ReadyRecord.amount],
                 UNCHANGED <<version, content>>
          PROVE  Ledger!Next
      <3> DEFINE w == ReadyRecord.voyage
                 a == ReadyRecord.amount
      <3>1. cursor[Voyage] \in 1..Len(ready) /\ ReadyRecord \in ReadyEvents
        BY <2>2, <2>a, RecordTypes
      <3>2. w \in Voyages /\ a \in Int
        BY <3>1 DEF ReadyEvents
      <3>3. version[w] = 1 /\ estimate[w] # a /\ a = Price(content[w])
        BY <2>2, <2>a, <3>1 DEF Matches, ReadyGenuine, ReadyRecord
      <3> HIDE DEF w, a
      <3>4. estimate[w] = Null /\ a # Null
        BY <2>a, <3>2, <3>3, PipelineAssumption DEF TableGenuine
      <3>5. Ledger!Estimate(w)
        BY <2>2, <3>3, <3>4 DEF Ledger!Estimate, w, a
      <3> QED
        BY <3>2, <3>5 DEF Ledger!Next
    <2> QED
      BY <2>1, <2>2, <1>2, EstimateSteps
  <1> QED
    BY <1>1, <1>2, GenuineInvariant, PTL DEF SafeSpec, LedgerSafe, Ledger!SafeSpec
=============================================================================
