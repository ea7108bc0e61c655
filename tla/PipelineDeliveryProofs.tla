----------------------- MODULE PipelineDeliveryProofs -----------------------
(***************************************************************************)
(* No estimate is lost: the outbox, flag-on-ack and commit-after-handle    *)
(* disciplines together keep every unpaid estimate in flight somewhere     *)
(* durable, provided no handler fails.  The proviso is necessary: the runs *)
(* ProduceFailureSkips and UpsertFailureSkips show the loss without it.    *)
(***************************************************************************)
EXTENDS EstimatePipelineProofs

\* Every voyage has an outbox row.
OutboxComplete ==
    \A v \in Voyages : version[v] # 0 => \E i \in 1..Len(outbox) : outbox[i].voyage = v

\* The row acked but not yet stamped is on the topic.
AckedOnTopic == acked # 0 => OnTopic(outbox[acked])

\* CommitAfterProduce for every record the loop has passed, committed or not.
HandledProduced ==
    \A o \in 1..Len(created) :
        o < cursor[Estimator] /\ created[o] # Poison /\ Priceable(created[o].content) =>
            \E p \in 1..Len(ready) : ready[p] = BuildEstimateReady(created[o])

\* CommitAfterUpsert for every record the loop has passed.
HandledUpserted ==
    \A o \in 1..Len(ready) :
        o < cursor[Voyage] /\ ready[o] # Poison =>
            \/ estimate[ready[o].voyage] = ready[o].amount
            \/ version[ready[o].voyage] # ready[o].version
-----------------------------------------------------------------------------
\* A consumer is never more than one past the end of its topic.
LEMMA CursorBounds ==
  ASSUME Shape
  PROVE  /\ cursor[Estimator] <= Len(created) + 1 /\ cursor[Estimator] \in Nat
         /\ cursor[Voyage] <= Len(ready) + 1 /\ cursor[Voyage] \in Nat
         /\ Len(created) \in Nat /\ Len(ready) \in Nat
  <1>1. EndOffset(Estimator) = Len(created) /\ EndOffset(Voyage) = Len(ready)
    BY GroupNames DEF EndOffset
  <1>2. Len(created) \in Nat /\ Len(ready) \in Nat
    BY DEF Shape, TypeOK, TopicType
  <1>3. \A g \in Groups : /\ cursor[g] \in Nat /\ fetched[g] \in Nat
                          /\ cursor[g] <= fetched[g] + 1 /\ fetched[g] <= EndOffset(g)
    BY DEF Shape, TypeOK, LoopType, OffsetsOrdered
  <1> QED
    BY <1>1, <1>2, <1>3, GroupNames

\* Outbox rows and topic records never change or go away.
LEMMA LogsOnlyGrow ==
  ASSUME Shape, [Next]_vars
  PROVE  /\ \A i \in 1..Len(outbox) : i \in 1..Len(outbox') /\ outbox'[i] = outbox[i]
         /\ \A o \in 1..Len(created) : o \in 1..Len(created') /\ created'[o] = created[o]
         /\ \A o \in 1..Len(ready) : o \in 1..Len(ready') /\ ready'[o] = ready[o]
  <1>a. /\ outbox \in Seq(CreatedEvents)
        /\ created \in Seq(CreatedEvents \cup {Poison})
        /\ ready \in Seq(ReadyEvents \cup {Poison})
        /\ flush \subseteq 1..Len(outbox)
    BY DEF Shape, TypeOK, OutboxType, TopicType
  <1>1. \A i \in 1..Len(outbox) : i \in 1..Len(outbox') /\ outbox'[i] = outbox[i]
    <2>1. ASSUME NEW v \in Voyages, NEW c \in Contents, Create(v, c)
          PROVE  \A i \in 1..Len(outbox) : i \in 1..Len(outbox') /\ outbox'[i] = outbox[i]
      <3>1. ToVoyageCreated(v, 1, c) \in CreatedEvents
        BY DEF ToVoyageCreated, CreatedEvents
      <3> QED
        BY <2>1, <3>1, <1>a, AppendFacts DEF Create
    <2>2. ASSUME NEW v \in Voyages, NEW n \in 1..MaxVersion, NEW c \in Contents,
                 Update(v, n, c)
          PROVE  outbox' = outbox
      BY <2>2 DEF Update
    <2> QED
      BY <2>1, <2>2, TableSteps
  <1>2. \A o \in 1..Len(created) : o \in 1..Len(created') /\ created'[o] = created[o]
    <2>1. CASE created' = Append(created, Poison)
      BY <2>1, <1>a, AppendFacts
    <2>2. ASSUME NEW i \in flush, created' = Append(created, outbox[i])
          PROVE  \A o \in 1..Len(created) : o \in 1..Len(created') /\ created'[o] = created[o]
      <3>1. outbox[i] \in CreatedEvents \cup {Poison}
        BY <1>a
      <3> QED
        BY <2>2, <3>1, <1>a, AppendFacts
    <2> QED
      BY <2>1, <2>2, CreatedSteps
  <1>3. \A o \in 1..Len(ready) : o \in 1..Len(ready') /\ ready'[o] = ready[o]
    <2>1. CASE ready' = Append(ready, Poison)
      BY <2>1, <1>a, AppendFacts
    <2>2. ASSUME Handling(Estimator), CreatedRecord # Poison,
                 Priceable(CreatedRecord.content),
                 ready' = Append(ready, BuildEstimateReady(CreatedRecord))
          PROVE  \A o \in 1..Len(ready) : o \in 1..Len(ready') /\ ready'[o] = ready[o]
      <3>1. BuildEstimateReady(CreatedRecord) \in ReadyEvents \cup {Poison}
        BY <2>2, RecordTypes
      <3> QED
        BY <2>2, <3>1, <1>a, AppendFacts
    <2> QED
      BY <2>1, <2>2, ReadySteps
  <1> QED
    BY <1>1, <1>2, <1>3

\* The row ids only change state in the poller's actions.
LEMMA PollerSteps ==
  ASSUME [Next]_vars
  PROVE  \/ UNCHANGED <<stamped, acked>>
         \/ \E i \in flush : acked' = i /\ created' = Append(created, outbox[i])
                              /\ UNCHANGED stamped
         \/ acked # 0 /\ acked' = 0 /\ stamped' = stamped \cup {acked}
         \/ acked' = 0 /\ UNCHANGED stamped
  <1> USE DEF poller
  <1>1. CASE UNCHANGED vars
    BY <1>1 DEF vars
  <1>2. CASE MarkPublished \/ MarkPublishedFails
    BY <1>2 DEF MarkPublished, MarkPublishedFails
  <1>3. ASSUME NEW i \in flush, Publish(i)
        PROVE  acked' = i /\ created' = Append(created, outbox[i]) /\ UNCHANGED stamped
    BY <1>3 DEF Publish
  <1>4. CASE RestartVoyage
    BY <1>4 DEF RestartVoyage
  <1> QED
    BY <1>1, <1>2, <1>3, <1>4
    DEF Next, PollerStep, ConsumerStep, FaultStep, Create, Update,
        ProducePoison, Select, PublishFails,
        PollFetches, CommitRecords, HandlePoison, HandlePrice, HandleReady,
        HandleUnpriceable, CommitFails, HandlePoisonFails, HandlePriceFails,
        HandleReadyFails, RestartEstimator

\* The estimator's loop passes a record only if it is a pill, cannot be priced,
\* or its event was appended; a restart only moves the loop back.
LEMMA EstimatorSteps ==
  ASSUME Shape, [Next]_vars, "produce" \notin Faults
  PROVE  \/ cursor'[Estimator] <= cursor[Estimator]
         \/ /\ Handling(Estimator)
            /\ cursor'[Estimator] = cursor[Estimator] + 1
            /\ \/ CreatedRecord = Poison
               \/ ~Priceable(CreatedRecord.content)
               \/ ready' = Append(ready, BuildEstimateReady(CreatedRecord))
  <1> USE DEF loops
  <1>a. /\ Estimator \in Groups /\ Voyage \in Groups /\ Estimator # Voyage
        /\ LoopType /\ OffsetsOrdered
    BY GroupNames DEF Shape, TypeOK
  <1>b. cursor[Estimator] \in Nat /\ committed[Estimator] < cursor[Estimator]
        /\ committed[Estimator] \in Nat
    BY <1>a DEF LoopType, OffsetsOrdered
  <1>1. CASE UNCHANGED cursor
    BY <1>1, <1>b
  <1>2. ASSUME NEW g \in Groups, HandlePoison(g) \/ HandlePoisonFails(g)
        PROVE  \/ cursor'[Estimator] <= cursor[Estimator]
               \/ /\ Handling(Estimator)
                  /\ cursor'[Estimator] = cursor[Estimator] + 1
                  /\ CreatedRecord = Poison
    BY <1>2, <1>a, <1>b
    DEF HandlePoison, HandlePoisonFails, AtPoison, Handled, LoopType
  <1>3. CASE HandlePrice
    BY <1>3, <1>a, <1>b DEF HandlePrice, Handled, LoopType
  <1>4. CASE HandleUnpriceable
    BY <1>4, <1>a, <1>b DEF HandleUnpriceable, Handled, LoopType
  <1>5. CASE HandleReady \/ HandleReadyFails
    BY <1>5, <1>a, <1>b DEF HandleReady, HandleReadyFails, Handled, LoopType
  <1>6. CASE RestartEstimator \/ RestartVoyage
    BY <1>6, <1>a, <1>b DEF RestartEstimator, RestartVoyage, Resume, LoopType
  <1>7. ~HandlePriceFails
    BY DEF HandlePriceFails, Fault
  <1> QED
    BY <1>1, <1>2, <1>3, <1>4, <1>5, <1>6, <1>7
    DEF Next, PollerStep, ConsumerStep, FaultStep, vars, Create, Update,
        ProducePoison, Select, Publish, PublishFails, MarkPublished,
        MarkPublishedFails, PollFetches, CommitRecords, CommitFails

\* The voyage service's loop passes a record only if it is a pill or its upsert
\* succeeded; a restart only moves the loop back.
LEMMA VoyageSteps ==
  ASSUME Shape, [Next]_vars, "upsert" \notin Faults
  PROVE  \/ cursor'[Voyage] <= cursor[Voyage]
         \/ /\ Handling(Voyage)
            /\ cursor'[Voyage] = cursor[Voyage] + 1
            /\ \/ ReadyRecord = Poison
               \/ HandleReady
  <1> USE DEF loops
  <1>a. /\ Estimator \in Groups /\ Voyage \in Groups /\ Estimator # Voyage
        /\ LoopType /\ OffsetsOrdered
    BY GroupNames DEF Shape, TypeOK
  <1>b. cursor[Voyage] \in Nat /\ committed[Voyage] < cursor[Voyage]
        /\ committed[Voyage] \in Nat
    BY <1>a DEF LoopType, OffsetsOrdered
  <1>1. CASE UNCHANGED cursor
    BY <1>1, <1>b
  <1>2. ASSUME NEW g \in Groups, HandlePoison(g) \/ HandlePoisonFails(g)
        PROVE  \/ cursor'[Voyage] <= cursor[Voyage]
               \/ /\ Handling(Voyage)
                  /\ cursor'[Voyage] = cursor[Voyage] + 1
                  /\ ReadyRecord = Poison
    <2>1. CASE g = Estimator
      BY <2>1, <1>2, <1>a, <1>b
      DEF HandlePoison, HandlePoisonFails, Handled, LoopType
    <2>2. CASE g = Voyage
      BY <2>2, <1>2, <1>a, <1>b
      DEF HandlePoison, HandlePoisonFails, AtPoison, Handled, LoopType
    <2> QED
      BY <2>1, <2>2, GroupNames
  <1>3. CASE HandlePrice \/ HandleUnpriceable \/ HandlePriceFails
    BY <1>3, <1>a, <1>b
    DEF HandlePrice, HandleUnpriceable, HandlePriceFails, Handled, LoopType
  <1>4. CASE HandleReady
    BY <1>4, <1>a, <1>b DEF HandleReady, Handled, LoopType
  <1>5. CASE RestartEstimator \/ RestartVoyage
    BY <1>5, <1>a, <1>b DEF RestartEstimator, RestartVoyage, Resume, LoopType
  <1>6. ~HandleReadyFails
    BY DEF HandleReadyFails, Fault
  <1> QED
    BY <1>1, <1>2, <1>3, <1>4, <1>5, <1>6
    DEF Next, PollerStep, ConsumerStep, FaultStep, vars, Create, Update,
        ProducePoison, Select, Publish, PublishFails, MarkPublished,
        MarkPublishedFails, PollFetches, CommitRecords, CommitFails
-----------------------------------------------------------------------------
\* Flag-on-ack is preserved by every step.
LEMMA PublishedStep ==
  Shape /\ PublishedIsOnTopic /\ AckedOnTopic /\ [Next]_vars
    => PublishedIsOnTopic' /\ AckedOnTopic'
  <1> SUFFICES ASSUME Shape, PublishedIsOnTopic, AckedOnTopic, [Next]_vars
               PROVE  PublishedIsOnTopic' /\ AckedOnTopic'
    OBVIOUS
  <1>a. /\ stamped \subseteq 1..Len(outbox) /\ flush \subseteq 1..Len(outbox)
        /\ acked \in (1..Len(outbox)) \cup {0}
        /\ created \in Seq(CreatedEvents \cup {Poison})
        /\ outbox \in Seq(CreatedEvents)
    BY DEF Shape, TypeOK, OutboxType, TopicType
  <1>b. \A i \in 1..Len(outbox) : OnTopic(outbox[i]) => OnTopic(outbox[i])'
    BY LogsOnlyGrow DEF OnTopic
  <1>1. CASE UNCHANGED <<stamped, acked>>
    BY <1>1, <1>a, <1>b DEF PublishedIsOnTopic, AckedOnTopic
  <1>2. ASSUME NEW i \in flush, acked' = i, created' = Append(created, outbox[i]),
               UNCHANGED stamped
        PROVE  PublishedIsOnTopic' /\ AckedOnTopic'
    <2>1. outbox[i] \in CreatedEvents \cup {Poison} /\ i \in 1..Len(outbox)
      BY <1>a
    <2>2. OnTopic(outbox[i])'
      BY <1>2, <1>a, <2>1, AppendFacts, LogsOnlyGrow DEF OnTopic
    <2> QED
      BY <1>2, <2>2, <1>a, <1>b DEF PublishedIsOnTopic, AckedOnTopic
  <1>3. CASE acked # 0 /\ acked' = 0 /\ stamped' = stamped \cup {acked}
    BY <1>3, <1>a, <1>b DEF PublishedIsOnTopic, AckedOnTopic
  <1>4. CASE acked' = 0 /\ UNCHANGED stamped
    BY <1>4, <1>a, <1>b DEF PublishedIsOnTopic, AckedOnTopic
  <1> QED
    BY <1>1, <1>2, <1>3, <1>4, PollerSteps

\* An outbox row is stamped only if its event is on voyage.created, with any
\* number of failed produces, failed stamps and crashes.
THEOREM FlagOnAck == SafeSpec => []PublishedIsOnTopic
  <1>1. Init => PublishedIsOnTopic /\ AckedOnTopic
    BY DEF Init, PublishedIsOnTopic, AckedOnTopic
  <1>2. Genuine => Shape
    BY DEF Genuine
  <1> QED
    BY <1>1, <1>2, PublishedStep, GenuineInvariant, PTL DEF SafeSpec
-----------------------------------------------------------------------------
\* A step keeps an outbox row for every voyage: Create writes both.
LEMMA OutboxCompleteStep == Shape /\ OutboxComplete /\ [Next]_vars => OutboxComplete'
  <1> SUFFICES ASSUME Shape, OutboxComplete, [Next]_vars, NEW v \in Voyages, version'[v] # 0
               PROVE  \E i \in 1..Len(outbox') : outbox'[i].voyage = v
    BY DEF OutboxComplete
  <1>a. outbox \in Seq(CreatedEvents) /\ version \in [Voyages -> Nat]
    BY DEF Shape, TypeOK, OutboxType, TableType
  <1>1. CASE version[v] # 0
    BY <1>1, LogsOnlyGrow DEF OutboxComplete
  <1>2. CASE version[v] = 0
    <2>1. \E c \in Contents : Create(v, c)
      BY <1>2, <1>a, TableSteps DEF Create, Update
    <2>2. PICK c \in Contents : Create(v, c)
      BY <2>1
    <2>3. /\ ToVoyageCreated(v, 1, c) \in CreatedEvents
          /\ ToVoyageCreated(v, 1, c).voyage = v
      BY DEF ToVoyageCreated, CreatedEvents
    <2> QED
      BY <2>2, <2>3, <1>a, AppendFacts DEF Create
  <1> QED
    BY <1>1, <1>2

\* A step keeps HandledProduced when no produce fails: the cursor passes a record
\* only once its estimate.ready is on the topic.
LEMMA HandledProducedStep ==
  Shape /\ HandledProduced /\ [Next]_vars /\ "produce" \notin Faults => HandledProduced'
  <1> SUFFICES ASSUME Shape, HandledProduced, [Next]_vars, "produce" \notin Faults,
                      NEW o \in 1..Len(created'), o < cursor'[Estimator],
                      created'[o] # Poison, Priceable(created'[o].content)
               PROVE  \E p \in 1..Len(ready') : ready'[p] = BuildEstimateReady(created'[o])
    BY DEF HandledProduced, BuildEstimateReady
  <1>a. /\ LoopType' /\ LoopType /\ OffsetsOrdered
        /\ created \in Seq(CreatedEvents \cup {Poison})
        /\ ready \in Seq(ReadyEvents \cup {Poison})
    BY TypeStep DEF Shape, TypeOK, TopicType
  <1>b. cursor[Estimator] \in Nat /\ cursor[Estimator] <= Len(created) + 1
        /\ Len(created) \in Nat /\ cursor'[Estimator] \in Nat
    BY <1>a, CursorBounds, GroupNames DEF LoopType
  <1>1. CASE o < cursor[Estimator]
    <2>1. o \in 1..Len(created) /\ created'[o] = created[o]
      BY <1>1, <1>b, LogsOnlyGrow
    <2> QED
      BY <1>1, <2>1, LogsOnlyGrow DEF HandledProduced
  <1>2. CASE ~(o < cursor[Estimator])
    <2>1. /\ Handling(Estimator) /\ o = cursor[Estimator]
          /\ \/ CreatedRecord = Poison
             \/ ~Priceable(CreatedRecord.content)
             \/ ready' = Append(ready, BuildEstimateReady(CreatedRecord))
      BY <1>2, <1>b, EstimatorSteps
    <2>2. o \in 1..Len(created) /\ created'[o] = CreatedRecord
      BY <2>1, RecordTypes, LogsOnlyGrow DEF CreatedRecord
    <2>3. ready' = Append(ready, BuildEstimateReady(CreatedRecord))
      BY <2>1, <2>2
    <2>4. BuildEstimateReady(CreatedRecord) \in ReadyEvents \cup {Poison}
      BY <2>1, <2>2, RecordTypes
    <2> QED
      BY <2>2, <2>3, <2>4, <1>a, AppendFacts
  <1> QED
    BY <1>1, <1>2

\* A step keeps HandledUpserted when no upsert fails: the cursor passes an event only
\* once its estimate is stored or its voyage has moved on.
LEMMA HandledUpsertedStep ==
  Genuine /\ HandledUpserted /\ [Next]_vars /\ "upsert" \notin Faults => HandledUpserted'
  <1> SUFFICES ASSUME Genuine, HandledUpserted, [Next]_vars, "upsert" \notin Faults,
                      NEW o \in 1..Len(ready'), o < cursor'[Voyage], ready'[o] # Poison
               PROVE  \/ estimate'[ready'[o].voyage] = ready'[o].amount
                      \/ version'[ready'[o].voyage] # ready'[o].version
    BY DEF HandledUpserted
  <1>a. /\ LoopType' /\ LoopType /\ OffsetsOrdered /\ TableType /\ Shape
        /\ ReadyGenuine
        /\ ready \in Seq(ReadyEvents \cup {Poison})
    BY TypeStep DEF Genuine, Shape, TypeOK, TopicType
  <1>b. /\ cursor[Voyage] \in Nat /\ cursor[Voyage] <= Len(ready) + 1
        /\ Len(ready) \in Nat /\ cursor'[Voyage] \in Nat
    BY <1>a, CursorBounds, GroupNames DEF LoopType
  <1>1. CASE o < cursor[Voyage]
    <2> DEFINE r == ready[o]
               w == ready[o].voyage
    <2>1. o \in 1..Len(ready) /\ ready'[o] = r /\ r # Poison
      BY <1>1, <1>b, <1>a, LogsOnlyGrow
    <2>2. r \in ReadyEvents
      BY <2>1, <1>a
    <2>3. /\ w \in Voyages /\ r.amount \in Int
          /\ r.version = 1 /\ version[w] # 0
          /\ estimate[w] = r.amount \/ version[w] # r.version
      BY <1>1, <2>1, <2>2, <1>a DEF HandledUpserted, ReadyGenuine, ReadyEvents
    <2>4. version[w] \in Nat
      BY <2>3, <1>a DEF TableType
    \* A version that has left 1 never returns to it.
    <2>5. CASE version[w] # r.version
      <3>1. version'[w] # 1
        BY <2>3, <2>4, <2>5, <1>a, PipelineAssumption, TableSteps
        DEF Create, Update, TableType
      <3> QED
        BY <3>1, <2>1, <2>3
    \* While it stays at 1, every event for it carries the estimate it has.
    <2>6. CASE version[w] = r.version /\ estimate[w] = r.amount
      <3>1. \/ estimate'[w] = estimate[w]
            \/ /\ Handling(Voyage) /\ ReadyRecord # Poison /\ Matches(ReadyRecord)
               /\ estimate' = [estimate EXCEPT ![ReadyRecord.voyage] = ReadyRecord.amount]
        BY EstimateSteps
      <3>2. ASSUME Handling(Voyage), ReadyRecord # Poison, Matches(ReadyRecord)
            PROVE  ReadyRecord.voyage # w
        <4>1. cursor[Voyage] \in 1..Len(ready)
          BY <3>2, <1>a, RecordTypes
        <4>2. ReadyRecord.version = 1 /\
              (version[ReadyRecord.voyage] = 1 =>
                  ReadyRecord.amount = Price(content[ReadyRecord.voyage]))
          BY <3>2, <4>1, <1>a DEF ReadyGenuine, ReadyRecord
        <4>3. r.amount = Price(content[w])
          BY <2>1, <2>3, <2>6, <1>a DEF ReadyGenuine
        <4> QED
          BY <3>2, <4>2, <4>3, <2>3, <2>6 DEF Matches
      <3>3. estimate'[w] = r.amount
        BY <3>1, <3>2, <2>3, <2>6, <1>a DEF TableType
      <3> QED
        BY <3>3, <2>1
    <2> QED
      BY <2>3, <2>5, <2>6
  <1>2. CASE ~(o < cursor[Voyage])
    <2>1. /\ Handling(Voyage) /\ o = cursor[Voyage]
          /\ ReadyRecord = Poison \/ HandleReady
      BY <1>2, <1>a, <1>b, VoyageSteps
    <2>2. o \in 1..Len(ready) /\ ready'[o] = ReadyRecord
      BY <2>1, <1>a, RecordTypes, LogsOnlyGrow DEF ReadyRecord
    <2>3. HandleReady /\ ReadyRecord \in ReadyEvents
      BY <2>1, <2>2, <1>a, RecordTypes
    <2>4. ReadyRecord.voyage \in Voyages
      BY <2>3 DEF ReadyEvents
    <2>5. /\ Upsert(ReadyRecord) /\ version' = version
      BY <2>3 DEF HandleReady
    <2> QED
      BY <2>2, <2>4, <2>5, <1>a DEF Upsert, Matches, TableType
  <1> QED
    BY <1>1, <1>2
-----------------------------------------------------------------------------
\* As long as no estimate.ready produce fails, the estimator commits an offset
\* only after every estimate it owes up to there is on the topic.
THEOREM ProduceBeforeCommit ==
  "produce" \notin Faults => (SafeSpec => []CommitAfterProduce)
  <1> SUFFICES ASSUME "produce" \notin Faults PROVE SafeSpec => []CommitAfterProduce
    OBVIOUS
  <1>1. Init => HandledProduced
    BY DEF Init, HandledProduced
  <1>2. Genuine /\ HandledProduced /\ [Next]_vars => HandledProduced'
    BY HandledProducedStep DEF Genuine
  <1>3. Genuine /\ HandledProduced => CommitAfterProduce
    <2> SUFFICES ASSUME Genuine, HandledProduced, NEW o \in 1..committed[Estimator]
                 PROVE  o \in 1..Len(created) /\ o < cursor[Estimator]
      BY DEF CommitAfterProduce, HandledProduced
    <2>1. Shape /\ committed[Estimator] < cursor[Estimator] /\ committed[Estimator] \in Nat
      BY GroupNames DEF Genuine, Shape, TypeOK, LoopType, OffsetsOrdered
    <2> QED
      BY <2>1, CursorBounds
  <1> QED
    BY <1>1, <1>2, <1>3, GenuineInvariant, PTL DEF SafeSpec

\* As long as no upsert fails, the voyage service commits an offset only after
\* every estimate up to there is in the table or obsolete.
THEOREM UpsertBeforeCommit ==
  "upsert" \notin Faults => (SafeSpec => []CommitAfterUpsert)
  <1> SUFFICES ASSUME "upsert" \notin Faults PROVE SafeSpec => []CommitAfterUpsert
    OBVIOUS
  <1>1. Init => HandledUpserted
    BY DEF Init, HandledUpserted
  <1>2. Genuine /\ HandledUpserted /\ [Next]_vars => HandledUpserted'
    BY HandledUpsertedStep
  <1>3. Genuine /\ HandledUpserted => CommitAfterUpsert
    <2> SUFFICES ASSUME Genuine, HandledUpserted, NEW o \in 1..committed[Voyage]
                 PROVE  o \in 1..Len(ready) /\ o < cursor[Voyage]
      BY DEF CommitAfterUpsert, HandledUpserted
    <2>1. Shape /\ committed[Voyage] < cursor[Voyage] /\ committed[Voyage] \in Nat
      BY GroupNames DEF Genuine, Shape, TypeOK, LoopType, OffsetsOrdered
    <2> QED
      BY <2>1, CursorBounds
  <1> QED
    BY <1>1, <1>2, <1>3, GenuineInvariant, PTL DEF SafeSpec

\* A voyage the three disciplines have lost would contradict them: follow its
\* outbox row to the topic, its event past the estimator, and its estimate past
\* the voyage service into the table.
LEMMA NothingStranded ==
  ASSUME Genuine, PublishedIsOnTopic, OutboxComplete, CommitAfterProduce, CommitAfterUpsert
  PROVE  NeverStranded
  <1> SUFFICES ASSUME NEW v \in Voyages, version[v] = 1, Priceable(content[v]),
                      estimate[v] = Null, ~InFlight(v)
               PROVE  FALSE
    BY DEF NeverStranded
  <1>a. /\ OutboxGenuine /\ ReadyGenuine /\ TableType /\ LoopType
        /\ outbox \in Seq(CreatedEvents) /\ Shape
    BY DEF Genuine, Shape, TypeOK, OutboxType
  <1>b. /\ committed[Estimator] \in Nat /\ committed[Voyage] \in Nat
        /\ Len(created) \in Nat /\ Len(ready) \in Nat
    BY <1>a, GroupNames, CursorBounds DEF LoopType
  <1>1. PICK i \in 1..Len(outbox) : outbox[i].voyage = v
    BY DEF OutboxComplete
  <1>2. outbox[i] \in CreatedEvents /\ outbox[i] # Poison
    BY <1>a, PipelineAssumption
  <1>3. outbox[i].content = content[v] /\ outbox[i].version = 1
    BY <1>1, <1>a DEF OutboxGenuine
  <1>4. i \in stamped
    BY <1>1 DEF InFlight, Unpublished
  <1>5. PICK o \in 1..Len(created) : created[o] = outbox[i]
    BY <1>4 DEF PublishedIsOnTopic, OnTopic
  <1>6. o \in 1..committed[Estimator]
    BY <1>1, <1>2, <1>5, <1>b DEF InFlight
  <1>7. PICK p \in 1..Len(ready) : ready[p] = BuildEstimateReady(outbox[i])
    BY <1>2, <1>3, <1>5, <1>6 DEF CommitAfterProduce
  <1>8. ready[p].voyage = v /\ ready[p].version = 1 /\ ready[p].amount = Price(content[v])
    BY <1>1, <1>3, <1>7 DEF BuildEstimateReady
  <1>9. content[v] \in Contents /\ Price(content[v]) \in Int
    <2>1. content[v] \in Contents
      BY <1>2, <1>3 DEF CreatedEvents
    <2> QED
      BY <2>1, PriceType
  <1>10. ready[p] # Poison
    <2>1. BuildEstimateReady(outbox[i]) \in ReadyEvents
      BY <1>2, <1>3, <1>9 DEF BuildEstimateReady, ReadyEvents, CreatedEvents
    <2> QED
      BY <2>1, <1>7, PipelineAssumption
  <1>11. p \in 1..committed[Voyage]
    BY <1>8, <1>10, <1>b DEF InFlight
  <1>12. estimate[v] = Price(content[v])
    BY <1>8, <1>10, <1>11 DEF CommitAfterUpsert
  <1> QED
    BY <1>9, <1>12, PipelineAssumption

\* No estimate is silently dropped as long as no handler fails: whatever the
\* crashes, lost commits, failed publishes and stamps, and poison pills, an
\* unpaid estimate is always in flight past some durable, uncommitted position.
THEOREM NoEstimateLost ==
  Faults \cap {"produce", "upsert"} = {} => (SafeSpec => []NeverStranded)
  <1> SUFFICES ASSUME Faults \cap {"produce", "upsert"} = {}
               PROVE  SafeSpec => []NeverStranded
    OBVIOUS
  <1>0. "produce" \notin Faults /\ "upsert" \notin Faults
    OBVIOUS
  <1>1. SafeSpec => []CommitAfterProduce
    BY <1>0, ProduceBeforeCommit
  <1>2. SafeSpec => []CommitAfterUpsert
    BY <1>0, UpsertBeforeCommit
  <1>3. Init => OutboxComplete
    BY DEF Init, OutboxComplete
  <1>4. Genuine /\ OutboxComplete /\ [Next]_vars => OutboxComplete'
    BY OutboxCompleteStep DEF Genuine
  <1> QED
    BY <1>1, <1>2, <1>3, <1>4, FlagOnAck, GenuineInvariant, NothingStranded, PTL
    DEF SafeSpec
-----------------------------------------------------------------------------
Topic(g) == IF g = Estimator THEN created ELSE ready

\* CommitAfterDLQ for every record a loop has passed, committed or not.
HandledDeadLettered ==
    \A g \in Groups : \A o \in 1..Len(Topic(g)) :
        o < cursor[g] /\ Topic(g)[o] = Poison => \E k \in 1..Len(dlq[g]) : dlq[g][k] = o

\* Dead-letter topics change only when a loop is at a pill, and then grow.
LEMMA DeadLetterSteps ==
  ASSUME [Next]_vars
  PROVE  \/ dlq' = dlq
         \/ \E g \in Groups : Handling(g) /\ dlq' = [dlq EXCEPT ![g] = Append(@, cursor[g])]
  BY DEF Next, PollerStep, ConsumerStep, FaultStep, vars, loops, poller, Create, Update,
         ProducePoison, Select, Publish, PublishFails, MarkPublished, MarkPublishedFails,
         PollFetches, CommitRecords, CommitFails, HandlePrice, HandleUnpriceable,
         HandlePriceFails, HandleReady, HandleReadyFails, HandlePoison, HandlePoisonFails,
         AtPoison, RestartEstimator, RestartVoyage

\* A loop passes a record only if it is no pill or was put on the dead-letter topic;
\* a restart only moves the loop back.
LEMMA PillSteps ==
  ASSUME Shape, [Next]_vars, "dlq" \notin Faults, NEW g \in Groups
  PROVE  \/ cursor'[g] <= cursor[g]
         \/ /\ Handling(g)
            /\ cursor'[g] = cursor[g] + 1
            /\ \/ Topic(g)[cursor[g]] # Poison
               \/ dlq' = [dlq EXCEPT ![g] = Append(@, cursor[g])]
  <1> USE DEF loops
  <1>a. /\ Estimator \in Groups /\ Voyage \in Groups /\ Estimator # Voyage
        /\ LoopType /\ OffsetsOrdered
    BY GroupNames DEF Shape, TypeOK
  <1>b. /\ cursor[g] \in Nat /\ committed[g] < cursor[g] /\ committed[g] \in Nat
        /\ cursor \in [Groups -> Nat]
    BY <1>a DEF LoopType, OffsetsOrdered
  <1>c. Topic(Estimator) = created /\ Topic(Voyage) = ready
    BY <1>a DEF Topic
  <1>1. CASE UNCHANGED cursor
    BY <1>1, <1>b
  <1>2. ASSUME NEW k \in Groups, HandlePoison(k)
        PROVE  \/ cursor'[g] <= cursor[g]
               \/ /\ Handling(g)
                  /\ cursor'[g] = cursor[g] + 1
                  /\ dlq' = [dlq EXCEPT ![g] = Append(@, cursor[g])]
    <2>1. /\ Handling(k) /\ cursor' = [cursor EXCEPT ![k] = @ + 1]
          /\ dlq' = [dlq EXCEPT ![k] = Append(@, cursor[k])]
      BY <1>2 DEF HandlePoison, AtPoison, Handled
    <2>2. CASE k = g
      BY <1>b, <2>1, <2>2
    <2>3. CASE k # g
      BY <1>b, <2>1, <2>3
    <2> QED
      BY <2>2, <2>3
  <1>3. CASE HandlePrice \/ HandleUnpriceable \/ HandlePriceFails
    <2>1. /\ Handling(Estimator) /\ created[cursor[Estimator]] # Poison
          /\ cursor' = [cursor EXCEPT ![Estimator] = @ + 1]
      BY <1>3 DEF HandlePrice, HandleUnpriceable, HandlePriceFails, Handled, CreatedRecord
    <2> QED
      BY <1>b, <1>c, <2>1
  <1>4. CASE HandleReady \/ HandleReadyFails
    <2>1. /\ Handling(Voyage) /\ ready[cursor[Voyage]] # Poison
          /\ cursor' = [cursor EXCEPT ![Voyage] = @ + 1]
      BY <1>4 DEF HandleReady, HandleReadyFails, Handled, ReadyRecord
    <2> QED
      BY <1>b, <1>c, <2>1
  <1>5. CASE RestartEstimator \/ RestartVoyage
    BY <1>5, <1>a, <1>b DEF RestartEstimator, RestartVoyage, Resume
  <1>6. \A k \in Groups : ~HandlePoisonFails(k)
    BY DEF HandlePoisonFails, Fault
  <1> QED
    BY <1>1, <1>2, <1>3, <1>4, <1>5, <1>6
    DEF Next, PollerStep, ConsumerStep, FaultStep, vars, Create, Update,
        ProducePoison, Select, Publish, PublishFails, MarkPublished,
        MarkPublishedFails, PollFetches, CommitRecords, CommitFails

\* A step keeps HandledDeadLettered when no produce to a dead-letter topic fails.
LEMMA DeadLetteredStep ==
  Shape /\ HandledDeadLettered /\ [Next]_vars /\ "dlq" \notin Faults => HandledDeadLettered'
  <1> SUFFICES ASSUME Shape, HandledDeadLettered, [Next]_vars, "dlq" \notin Faults,
                      NEW g \in Groups, NEW o \in 1..Len(Topic(g)'),
                      o < cursor'[g], Topic(g)'[o] = Poison
               PROVE  \E k \in 1..Len(dlq'[g]) : dlq'[g][k] = o
    BY DEF HandledDeadLettered
  <1>a. /\ Len(Topic(g)) \in Nat /\ cursor[g] \in Nat /\ cursor[g] <= Len(Topic(g)) + 1
        /\ cursor'[g] \in Nat
        /\ Handling(g) => cursor[g] \in 1..Len(Topic(g))
    <2>1. g = Estimator \/ g = Voyage
      BY GroupNames
    <2>2. /\ Handling(Estimator) => cursor[Estimator] \in 1..Len(created)
          /\ Handling(Voyage) => cursor[Voyage] \in 1..Len(ready)
      BY RecordTypes
    <2>3. LoopType'
      BY TypeStep DEF TypeOK
    <2> QED
      BY <2>1, <2>2, <2>3, CursorBounds, GroupNames DEF Topic, LoopType
  <1>b. dlq \in [Groups -> Seq(Nat)] /\ cursor \in [Groups -> Nat]
    BY DEF Shape, TypeOK, TopicType, LoopType
  <1>c. \A i \in 1..Len(Topic(g)) : Topic(g)'[i] = Topic(g)[i]
    BY LogsOnlyGrow DEF Topic
  <1>d. \A k \in 1..Len(dlq[g]) : k \in 1..Len(dlq'[g]) /\ dlq'[g][k] = dlq[g][k]
    <2>1. ASSUME NEW h \in Groups, dlq' = [dlq EXCEPT ![h] = Append(@, cursor[h])]
          PROVE  dlq'[g] = dlq[g] \/ dlq'[g] = Append(dlq[g], cursor[g])
      BY <1>b, <2>1
    <2>2. dlq'[g] = dlq[g] \/ dlq'[g] = Append(dlq[g], cursor[g])
      BY <2>1, DeadLetterSteps
    <2>3. dlq[g] \in Seq(Nat)
      BY <1>b
    <2> QED
      BY <1>a, <2>2, <2>3
  <1>1. CASE o < cursor[g]
    <2>1. o \in 1..Len(Topic(g)) /\ Topic(g)[o] = Poison
      BY <1>1, <1>a, <1>c
    <2> QED
      BY <1>1, <1>d, <2>1 DEF HandledDeadLettered
  <1>2. CASE ~(o < cursor[g])
    <2>1. /\ Handling(g) /\ o = cursor[g]
          /\ \/ Topic(g)[cursor[g]] # Poison
             \/ dlq' = [dlq EXCEPT ![g] = Append(@, cursor[g])]
      BY <1>2, <1>a, PillSteps
    <2>2. Topic(g)[o] = Poison
      BY <1>a, <1>c, <2>1
    <2>3. dlq'[g] = Append(dlq[g], o) /\ dlq[g] \in Seq(Nat)
      BY <1>b, <2>1, <2>2
    <2>4. Len(dlq[g]) + 1 \in 1..Len(dlq'[g]) /\ dlq'[g][Len(dlq[g]) + 1] = o
      BY <1>a, <2>1, <2>3
    <2> QED
      BY <2>4
  <1> QED
    BY <1>1, <1>2

\* As long as no produce to a dead-letter topic fails, neither service commits the
\* offset of a record it could not decode before that record is on its dead-letter
\* topic, whatever else fails and wherever it is killed.
THEOREM DeadLetterBeforeCommit ==
  "dlq" \notin Faults => (SafeSpec => []CommitAfterDLQ)
  <1> SUFFICES ASSUME "dlq" \notin Faults PROVE SafeSpec => []CommitAfterDLQ
    OBVIOUS
  <1>1. Init => HandledDeadLettered
    BY GroupNames DEF Init, HandledDeadLettered, Topic
  <1>2. Genuine /\ HandledDeadLettered /\ [Next]_vars => HandledDeadLettered'
    BY DeadLetteredStep DEF Genuine
  <1>3. Genuine /\ HandledDeadLettered => CommitAfterDLQ
    <2> SUFFICES ASSUME Genuine, HandledDeadLettered PROVE CommitAfterDLQ
      OBVIOUS
    <2>1. /\ \A o \in 1..committed[Estimator] :
                o \in 1..Len(Topic(Estimator)) /\ o < cursor[Estimator]
          /\ \A o \in 1..committed[Voyage] : o \in 1..Len(Topic(Voyage)) /\ o < cursor[Voyage]
      <3>1. /\ Shape /\ committed[Estimator] < cursor[Estimator]
            /\ committed[Estimator] \in Nat
            /\ committed[Voyage] < cursor[Voyage] /\ committed[Voyage] \in Nat
        BY GroupNames DEF Genuine, Shape, TypeOK, LoopType, OffsetsOrdered
      <3> QED
        BY <3>1, CursorBounds, GroupNames DEF Topic
    <2>2. Topic(Estimator) = created /\ Topic(Voyage) = ready
      BY GroupNames DEF Topic
    <2> QED
      BY <2>1, <2>2, GroupNames DEF CommitAfterDLQ, HandledDeadLettered
  <1> QED
    BY <1>1, <1>2, <1>3, GenuineInvariant, PTL DEF SafeSpec
-----------------------------------------------------------------------------
\* What a loop is about to commit is ahead of what it has committed.
CommittableAhead ==
    \A g \in Groups : committable[g] # 0 => committed[g] < committable[g]

\* Where a step can move a committed offset, and to what.
LEMMA CommitStep ==
  ASSUME Shape, CommittableAhead, [Next]_vars
  PROVE  CommittableAhead' /\ \A g \in Groups : committed'[g] >= committed[g]
  <1> DEFINE Goal == CommittableAhead' /\ \A g \in Groups : committed'[g] >= committed[g]
  <1> USE DEF loops
  <1>a. LoopType /\ OffsetsOrdered /\ Estimator \in Groups /\ Voyage \in Groups
    BY GroupNames DEF Shape, TypeOK
  <1>1. CASE UNCHANGED <<committable, committed>>
    BY <1>1, <1>a DEF CommittableAhead, LoopType
  <1>2. ASSUME NEW g \in Groups, CommitRecords(g)
        PROVE  Goal
    BY <1>2, <1>a DEF CommittableAhead, LoopType, CommitRecords
  <1>3. ASSUME NEW g \in Groups, CommitFails(g)
        PROVE  Goal
    BY <1>3, <1>a DEF CommittableAhead, LoopType, CommitFails
  <1>4. ASSUME NEW g \in Groups, NEW ok \in BOOLEAN, Handled(g, ok)
        PROVE  Goal
    BY <1>4, <1>a DEF CommittableAhead, LoopType, OffsetsOrdered, Handled
  <1>5. ASSUME NEW g \in Groups, Resume(g), UNCHANGED committed
        PROVE  Goal
    BY <1>5, <1>a DEF CommittableAhead, LoopType, Resume
  <1> HIDE DEF Goal
  <1>6. Goal
    BY <1>1, <1>2, <1>3, <1>4, <1>5, <1>a
    DEF Next, PollerStep, ConsumerStep, FaultStep, vars, Goal,
        Create, Update, ProducePoison, Select, Publish, MarkPublished,
        PollFetches, HandlePoison, HandlePrice, HandleUnpriceable, HandleReady,
        PublishFails, MarkPublishedFails, HandlePoisonFails, HandlePriceFails,
        HandleReadyFails, RestartEstimator, RestartVoyage
  <1> QED
    BY <1>6 DEF Goal

\* A group's committed offset never moves back, under any faults.
THEOREM CommitsOnlyAdvance == SafeSpec => CommittedNeverRewinds
  <1>1. Init => CommittableAhead
    BY DEF Init, CommittableAhead
  <1>2. ASSUME Genuine, CommittableAhead, [Next]_vars
        PROVE  CommittableAhead' /\ [\A g \in Groups : committed'[g] >= committed[g]]_vars
    BY <1>2, CommitStep DEF Genuine
  <1> QED
    BY <1>1, <1>2, GenuineInvariant, PTL DEF SafeSpec, CommittedNeverRewinds
=============================================================================
