-------------------------- MODULE EstimatePipeline --------------------------
(***************************************************************************)
(* The asynchronous estimate pipeline:                                     *)
(*                                                                         *)
(*   Create -> voyages + outbox -> poller -> voyage.created -> estimator   *)
(*          -> estimate.ready -> voyage service -> voyages.estimate_minor  *)
(*                                                                         *)
(* Postgres tables and Kafka topics are durable; the poller's batch and    *)
(* both consumers' loops are process memory that a restart loses.  Topics  *)
(* have one partition, so a topic is a log and an offset is a position in  *)
(* it (counted from 1).  Both consumers run the same fetch-handle-commit   *)
(* loop and differ in handle.                                              *)
(***************************************************************************)
EXTENDS Money, Sequences, FiniteSets

CONSTANTS
    Voyages,     \* client_request_ids
    Contents,    \* [distanceNm, feesMinor] a request may carry
    RatePerNm,   \* the estimator's configured rate, in minor units
    MaxVersion,  \* bound on the versions UpdateVoyage carries
    PollLimit,   \* LIMIT of the poller's query (100 in the code)
    Faults,      \* which faults may happen, a subset of FaultKinds
    MaxFaults,   \* bound on how many faults happen
    MaxPoison,   \* bound on undecodable records put on the topics
    Null,        \* SQL NULL
    Poison       \* a record that does not decode

FaultKinds ==
    {"crash",    \* a service is killed and restarted
     "publish",  \* the poller's ProduceSync fails
     "stamp",    \* the poller's UPDATE of published_at fails
     "produce",  \* the estimator's ProduceSync (or Encode) fails
     "upsert",   \* UpsertEstimate fails
     "dlq",      \* a ProduceSync to a dead-letter topic fails
     "commit"}   \* CommitRecords fails

Estimator == "estimator-service"   \* the two consumer groups
Voyage == "voyage-service"
Groups == {Estimator, Voyage}

\* Money amounts of the pipeline: EstimateCost as the estimator calls it.
Cost(c) == EstimateCost(c.distanceNm, FromUSD(c.feesMinor), FromUSD(RatePerNm))
Priceable(c) == Cost(c).err = "nil"
Price(c) == IF Priceable(c) THEN Cost(c).money.minor ELSE Null

CreatedEvents == [voyage : Voyages, version : Nat, content : Contents]
ReadyEvents == [voyage : Voyages, version : Nat, amount : Int]

ASSUME PipelineAssumption ==
    /\ MaxVersion \in Nat /\ MaxFaults \in Nat /\ MaxPoison \in Nat
    /\ PollLimit \in Nat \ {0}
    /\ Faults \subseteq FaultKinds
    /\ Null \notin Int \cup Contents
    /\ Poison \notin CreatedEvents \cup ReadyEvents
    /\ Contents \subseteq [distanceNm : Int, feesMinor : Int]
    /\ RatePerNm \in Int

VARIABLES
    version, content, estimate, \* columns of voyages; version 0: no row
    outbox,       \* payloads of the outbox rows, in id order
    stamped,      \* ids of the outbox rows with published_at set
    flush, acked, \* poller: rows left of this Flush; row acked, not stamped
    created,      \* topic voyage.created
    ready,        \* topic estimate.ready
    dlq,          \* per group: its dead-letter topic, as offsets of the originals
    cursor,       \* per group: offset of the next record to handle
    fetched,      \* per group: last offset of the batch PollFetches returned
    committable,  \* per group: highest offset of this batch handled true, or 0
    committed,    \* per group: the committed offset (records up to it are done)
    applied,      \* per voyage: how often estimateApplied was incremented for it
    faults,       \* how many faults have happened
    poisoned      \* how many undecodable records were put on the topics

table == <<version, content, estimate, applied>>
poller == <<flush, acked>>
loops == <<cursor, fetched, committable>>
vars == <<table, outbox, stamped, poller, created, ready, dlq, loops,
          committed, faults, poisoned>>

Init ==
    /\ version = [v \in Voyages |-> 0]
    /\ content = [v \in Voyages |-> Null]
    /\ estimate = [v \in Voyages |-> Null]
    /\ outbox = <<>> /\ stamped = {}
    /\ flush = {} /\ acked = 0
    /\ created = <<>> /\ ready = <<>>
    /\ dlq = [g \in Groups |-> <<>>]
    /\ cursor = [g \in Groups |-> 1]
    /\ fetched = [g \in Groups |-> 0]
    /\ committable = [g \in Groups |-> 0]
    /\ committed = [g \in Groups |-> 0]
    /\ applied = [v \in Voyages |-> 0]
    /\ faults = 0 /\ poisoned = 0

\* A fault of kind k happens in this step.
Fault(k) ==
    /\ k \in Faults
    /\ faults < MaxFaults
    /\ faults' = faults + 1
-----------------------------------------------------------------------------
(* Voyage service: the repository (one transaction or statement each).     *)

ToVoyageCreated(v, n, c) == [voyage |-> v, version |-> n, content |-> c]

\* Mutant of Create: the outbox row is written outside the transaction and lost.
CreateNoOutbox(v, c) ==
    /\ version[v] = 0
    /\ version' = [version EXCEPT ![v] = 1]
    /\ content' = [content EXCEPT ![v] = c]
    /\ UNCHANGED <<estimate, applied, outbox, stamped, poller, created, ready,
                   dlq, loops, committed, faults, poisoned>>

\* Create commits the row and its voyage.created outbox row together.  For an
\* id that exists, ON CONFLICT DO NOTHING leaves every table as it is.
Create(v, c) ==
    /\ version[v] = 0
    /\ version' = [version EXCEPT ![v] = 1]
    /\ content' = [content EXCEPT ![v] = c]
    /\ outbox' = Append(outbox, ToVoyageCreated(v, 1, c))
    /\ UNCHANGED <<estimate, applied, stamped, poller, created, ready, dlq,
                   loops, committed, faults, poisoned>>

\* Mutant of Update: the version guard of the UPDATE is dropped.
UpdateAlways(v, n, c) ==
    /\ version[v] # 0
    /\ version' = [version EXCEPT ![v] = n]
    /\ content' = [content EXCEPT ![v] = c]
    /\ UNCHANGED <<estimate, applied, outbox, stamped, poller, created, ready,
                   dlq, loops, committed, faults, poisoned>>

\* Update lands only on a lower stored version; it leaves estimate_minor as it
\* is and writes no outbox row.  Otherwise no table changes.
Update(v, n, c) ==
    /\ version[v] # 0
    /\ n > version[v]
    /\ version' = [version EXCEPT ![v] = n]
    /\ content' = [content EXCEPT ![v] = c]
    /\ UNCHANGED <<estimate, applied, outbox, stamped, poller, created, ready,
                   dlq, loops, committed, faults, poisoned>>
-----------------------------------------------------------------------------
(* Voyage service: the outbox poller.                                      *)

Unpublished == (1..Len(outbox)) \ stamped

\* Mutant of SelectUnpublished: rows before the last published one are not retried.
SelectPastStamped == {i \in Unpublished : \A j \in stamped : j < i}

\* unpublished(): the first PollLimit unpublished rows, by id.
SelectUnpublished ==
    {i \in Unpublished :
        Cardinality({j \in Unpublished : j < i}) < PollLimit}

\* The row the loop of Flush is at: the batch is walked in id order.
AtRow(i) == i \in flush /\ \A j \in flush : i <= j

Select ==
    /\ flush = {} /\ acked = 0
    /\ Unpublished # {}
    /\ flush' = SelectUnpublished
    /\ UNCHANGED <<table, outbox, stamped, acked, created, ready, dlq, loops,
                   committed, faults, poisoned>>

\* Mutant of Publish: published_at is set before the broker has acked.
PublishStampFirst(i) ==
    /\ acked = 0 /\ AtRow(i)
    /\ stamped' = stamped \cup {i}
    /\ acked' = i
    /\ created' \in {created, Append(created, outbox[i])}
    /\ UNCHANGED <<table, outbox, flush, ready, dlq, loops, committed, faults,
                   poisoned>>

\* ProduceSync is acked: the record is on the topic, the row not yet stamped.
Publish(i) ==
    /\ acked = 0 /\ AtRow(i)
    /\ created' = Append(created, outbox[i])
    /\ acked' = i
    /\ UNCHANGED <<table, outbox, stamped, flush, ready, dlq, loops, committed,
                   faults, poisoned>>

\* ProduceSync fails: "continue".  The record may have been written all the same.
PublishFails(i) ==
    /\ Fault("publish")
    /\ acked = 0 /\ AtRow(i)
    /\ created' \in {created, Append(created, outbox[i])}
    /\ flush' = flush \ {i}
    /\ UNCHANGED <<table, outbox, stamped, acked, ready, dlq, loops, committed,
                   poisoned>>

MarkPublished ==
    /\ acked # 0
    /\ stamped' = stamped \cup {acked}
    /\ flush' = flush \ {acked}
    /\ acked' = 0
    /\ UNCHANGED <<table, outbox, created, ready, dlq, loops, committed, faults,
                   poisoned>>

\* Mutant of MarkPublishedFails: Flush returns but goes on stamping the row.
MarkPublishedFailsGoesOn ==
    /\ Fault("stamp")
    /\ acked # 0
    /\ flush' = {}
    /\ UNCHANGED <<table, outbox, stamped, acked, created, ready, dlq, loops,
                   committed, poisoned>>

\* The UPDATE fails: Flush returns, whether or not the UPDATE took effect.
MarkPublishedFails ==
    /\ Fault("stamp")
    /\ acked # 0
    /\ stamped' \in {stamped, stamped \cup {acked}}
    /\ flush' = {}
    /\ acked' = 0
    /\ UNCHANGED <<table, outbox, created, ready, dlq, loops, committed, poisoned>>
-----------------------------------------------------------------------------
(* Both consumers: Run's loop around handle.                               *)

EndOffset(g) == IF g = Estimator THEN Len(created) ELSE Len(ready)

Handling(g) == cursor[g] <= fetched[g]

PollFetches(g) ==
    /\ ~Handling(g) /\ committable[g] = 0
    /\ \E n \in (fetched[g] + 1)..EndOffset(g) :
          fetched' = [fetched EXCEPT ![g] = n]
    /\ UNCHANGED <<table, outbox, stamped, poller, created, ready, dlq, cursor,
                   committable, committed, faults, poisoned>>

\* handle returned ok for the record at the cursor; only then is it committable.
Handled(g, ok) ==
    /\ cursor' = [cursor EXCEPT ![g] = @ + 1]
    /\ committable' = [committable EXCEPT ![g] = IF ok THEN cursor[g] ELSE @]
    /\ UNCHANGED <<fetched, committed>>

\* CommitRecords(committable...): the group's offset becomes the highest one.
CommitRecords(g) ==
    /\ ~Handling(g) /\ committable[g] # 0
    /\ committed' = [committed EXCEPT ![g] = committable[g]]
    /\ committable' = [committable EXCEPT ![g] = 0]
    /\ UNCHANGED <<table, outbox, stamped, poller, created, ready, dlq, cursor,
                   fetched, faults, poisoned>>

\* CommitRecords fails, perhaps after the broker stored the offset; the error
\* is only logged and the loop fetches on.
CommitFails(g) ==
    /\ Fault("commit")
    /\ ~Handling(g) /\ committable[g] # 0
    /\ committed' \in {committed, [committed EXCEPT ![g] = committable[g]]}
    /\ committable' = [committable EXCEPT ![g] = 0]
    /\ UNCHANGED <<table, outbox, stamped, poller, created, ready, dlq, cursor,
                   fetched, poisoned>>
-----------------------------------------------------------------------------
(* Estimator service: Consumer.handle, one action per way it can end.      *)

CreatedRecord == created[cursor[Estimator]]

BuildEstimateReady(vc) ==
    [voyage |-> vc.voyage, version |-> vc.version, amount |-> Price(vc.content)]

\* Mutant of HandlePrice: the record is committable before the produce is acked.
HandlePriceNoAck ==
    /\ Handling(Estimator)
    /\ CreatedRecord # Poison /\ Priceable(CreatedRecord.content)
    /\ ready' \in {ready, Append(ready, BuildEstimateReady(CreatedRecord))}
    /\ Handled(Estimator, TRUE)
    /\ UNCHANGED <<table, outbox, stamped, poller, created, dlq, faults, poisoned>>

\* The estimate.ready produce is acked.
HandlePrice ==
    /\ Handling(Estimator)
    /\ CreatedRecord # Poison /\ Priceable(CreatedRecord.content)
    /\ ready' = Append(ready, BuildEstimateReady(CreatedRecord))
    /\ Handled(Estimator, TRUE)
    /\ UNCHANGED <<table, outbox, stamped, poller, created, dlq, faults, poisoned>>

\* EstimateCost fails: the record is logged and skipped.
HandleUnpriceable ==
    /\ Handling(Estimator)
    /\ CreatedRecord # Poison /\ ~Priceable(CreatedRecord.content)
    /\ Handled(Estimator, TRUE)
    /\ UNCHANGED <<table, outbox, stamped, poller, created, ready, dlq, faults,
                   poisoned>>

\* The produce fails (it may have been written all the same): handle is false.
HandlePriceFails ==
    /\ Fault("produce")
    /\ Handling(Estimator)
    /\ CreatedRecord # Poison /\ Priceable(CreatedRecord.content)
    /\ ready' \in {ready, Append(ready, BuildEstimateReady(CreatedRecord))}
    /\ Handled(Estimator, FALSE)
    /\ UNCHANGED <<table, outbox, stamped, poller, created, dlq, poisoned>>
-----------------------------------------------------------------------------
(* Voyage service: EstimateConsumer.handle.                                *)

ReadyRecord == ready[cursor[Voyage]]

\* Mutant of Matches: the version of the event is not compared.
MatchesAnyVersion(er) ==
    /\ version[er.voyage] # 0
    /\ estimate[er.voyage] # er.amount

\* Mutant of Matches: IS DISTINCT FROM is dropped.
MatchesSame(er) == version[er.voyage] = er.version

\* The WHERE clause of upsertEstimate.
Matches(er) ==
    /\ version[er.voyage] = er.version
    /\ estimate[er.voyage] # er.amount

\* UpsertEstimate and the metrics that follow it: applied counts a row changed.
Upsert(er) ==
    IF Matches(er)
    THEN /\ estimate' = [estimate EXCEPT ![er.voyage] = er.amount]
         /\ applied' = [applied EXCEPT ![er.voyage] = @ + 1]
    ELSE UNCHANGED <<estimate, applied>>

\* Mutant of HandleReady: the upsert runs in the background and may be lost.
HandleReadyAsync ==
    /\ Handling(Voyage) /\ ReadyRecord # Poison
    /\ Upsert(ReadyRecord) \/ UNCHANGED <<estimate, applied>>
    /\ Handled(Voyage, TRUE)
    /\ UNCHANGED <<version, content, outbox, stamped, poller, created, ready, dlq,
                   faults, poisoned>>

HandleReady ==
    /\ Handling(Voyage) /\ ReadyRecord # Poison
    /\ Upsert(ReadyRecord)
    /\ Handled(Voyage, TRUE)
    /\ UNCHANGED <<version, content, outbox, stamped, poller, created, ready, dlq,
                   faults, poisoned>>

\* The statement fails, before or after it took effect: handle is false, and
\* applied, which would count the change, is not incremented.
HandleReadyFails ==
    /\ Fault("upsert")
    /\ Handling(Voyage) /\ ReadyRecord # Poison
    /\ \/ UNCHANGED estimate
       \/ /\ Matches(ReadyRecord)
          /\ estimate' = [estimate EXCEPT ![ReadyRecord.voyage] = ReadyRecord.amount]
    /\ Handled(Voyage, FALSE)
    /\ UNCHANGED <<version, content, applied, outbox, stamped, poller, created,
                   ready, dlq, poisoned>>
-----------------------------------------------------------------------------
(* Poison pills, restarts, and the specification.                          *)

AtPoison(g) ==
    /\ Handling(g)
    /\ IF g = Estimator THEN CreatedRecord = Poison ELSE ReadyRecord = Poison

\* Mutant of HandlePoison: the undecodable record is dropped, not dead-lettered.
HandlePoisonDrop(g) ==
    /\ AtPoison(g)
    /\ Handled(g, TRUE)
    /\ UNCHANGED <<table, outbox, stamped, poller, created, ready, dlq, faults,
                   poisoned>>

\* Mutant of HandlePoison: the undecodable record is tried again and again.
HandlePoisonStall(g) == AtPoison(g) /\ UNCHANGED vars

\* toDLQ succeeds; the record is committable.
HandlePoison(g) ==
    /\ AtPoison(g)
    /\ dlq' = [dlq EXCEPT ![g] = Append(@, cursor[g])]
    /\ Handled(g, TRUE)
    /\ UNCHANGED <<table, outbox, stamped, poller, created, ready, faults, poisoned>>

\* toDLQ's produce fails (it may have been written all the same), which is only
\* logged: the record is committable.
HandlePoisonFails(g) ==
    /\ Fault("dlq")
    /\ AtPoison(g)
    /\ dlq' \in {dlq, [dlq EXCEPT ![g] = Append(@, cursor[g])]}
    /\ Handled(g, TRUE)
    /\ UNCHANGED <<table, outbox, stamped, poller, created, ready, poisoned>>

\* Another producer puts an undecodable record on a topic.
ProducePoison ==
    /\ poisoned < MaxPoison
    /\ poisoned' = poisoned + 1
    /\ \/ created' = Append(created, Poison) /\ UNCHANGED ready
       \/ ready' = Append(ready, Poison) /\ UNCHANGED created
    /\ UNCHANGED <<table, outbox, stamped, poller, dlq, loops, committed, faults>>

\* Mutant of Resume: the consumer starts after the last record on the topic.
ResumeAtEnd(g) ==
    /\ cursor' = [cursor EXCEPT ![g] = EndOffset(g) + 1]
    /\ fetched' = [fetched EXCEPT ![g] = EndOffset(g)]
    /\ committable' = [committable EXCEPT ![g] = 0]

\* Mutant of Resume: the committed offset is ignored.
ResumeAtStart(g) ==
    /\ cursor' = [cursor EXCEPT ![g] = 1]
    /\ fetched' = [fetched EXCEPT ![g] = 0]
    /\ committable' = [committable EXCEPT ![g] = 0]

\* A (re)started consumer fetches from the committed offset, or from the start.
Resume(g) ==
    /\ cursor' = [cursor EXCEPT ![g] = committed[g] + 1]
    /\ fetched' = [fetched EXCEPT ![g] = committed[g]]
    /\ committable' = [committable EXCEPT ![g] = 0]

\* The estimator process is killed, at any point of its loop, and restarted.
RestartEstimator ==
    /\ Fault("crash")
    /\ Resume(Estimator)
    /\ UNCHANGED <<table, outbox, stamped, poller, created, ready, dlq, committed,
                   poisoned>>

\* The voyage process holds the poller and the estimate consumer.
RestartVoyage ==
    /\ Fault("crash")
    /\ Resume(Voyage)
    /\ flush' = {} /\ acked' = 0
    /\ UNCHANGED <<table, outbox, stamped, created, ready, dlq, committed, poisoned>>

PollerStep ==
    \/ Select
    \/ \E i \in flush : Publish(i)
    \/ MarkPublished

ConsumerStep(g) ==
    \/ PollFetches(g)
    \/ CommitRecords(g)
    \/ HandlePoison(g)
    \/ g = Estimator /\ (HandlePrice \/ HandleUnpriceable)
    \/ g = Voyage /\ HandleReady

FaultStep ==
    \/ \E i \in flush : PublishFails(i)
    \/ MarkPublishedFails
    \/ \E g \in Groups : CommitFails(g) \/ HandlePoisonFails(g)
    \/ HandlePriceFails
    \/ HandleReadyFails
    \/ RestartEstimator
    \/ RestartVoyage

Next ==
    \/ \E v \in Voyages, c \in Contents : Create(v, c)
    \/ \E v \in Voyages, n \in 1..MaxVersion, c \in Contents : Update(v, n, c)
    \/ ProducePoison
    \/ PollerStep
    \/ \E g \in Groups : ConsumerStep(g)
    \/ FaultStep

SafeSpec == Init /\ [][Next]_vars

\* The ticker fires forever and both loops keep polling: each process that can
\* take a step of its own eventually takes one.  Nothing forces a request, a
\* poison pill or a fault.
Spec ==
    /\ SafeSpec
    /\ WF_vars(PollerStep)
    /\ \A g \in Groups : WF_vars(ConsumerStep(g))
-----------------------------------------------------------------------------
(* Properties.                                                             *)

TableType ==
    /\ version \in [Voyages -> Nat]
    /\ content \in [Voyages -> Contents \cup {Null}]
    /\ estimate \in [Voyages -> Int \cup {Null}]
    /\ applied \in [Voyages -> Nat]

OutboxType ==
    /\ outbox \in Seq(CreatedEvents)
    /\ stamped \subseteq 1..Len(outbox)
    /\ flush \subseteq 1..Len(outbox)
    /\ acked \in flush \cup {0}

TopicType ==
    /\ created \in Seq(CreatedEvents \cup {Poison})
    /\ ready \in Seq(ReadyEvents \cup {Poison})
    /\ dlq \in [Groups -> Seq(Nat)]

LoopType ==
    /\ cursor \in [Groups -> Nat]
    /\ fetched \in [Groups -> Nat]
    /\ committable \in [Groups -> Nat]
    /\ committed \in [Groups -> Nat]

\* Every variable has its type: in particular the row the poller has had acked
\* is one of its batch, and every row of the batch exists.
TypeOK ==
    /\ TableType
    /\ OutboxType
    /\ TopicType
    /\ LoopType
    /\ faults \in Nat /\ poisoned \in Nat

\* The consumers' positions never contradict each other or the topics: what is
\* committed or committable was handled, what was handled was fetched, and what
\* was fetched is on the topic, whatever crashes and lost commits happened.
OffsetsOrdered ==
    \A g \in Groups :
        /\ committed[g] < cursor[g]
        /\ committable[g] < cursor[g]
        /\ cursor[g] <= fetched[g] + 1
        /\ fetched[g] <= EndOffset(g)

OnTopic(e) == \E o \in 1..Len(created) : created[o] = e

\* Flag-on-ack (poller.go): an outbox row is stamped published only if its event
\* is on voyage.created, even when the produce or the stamp fails half-way.
PublishedIsOnTopic == \A i \in stamped : OnTopic(outbox[i])

CreatedGenuine ==
    \A o \in 1..Len(created) :
        created[o] # Poison => \E i \in 1..Len(outbox) : outbox[i] = created[o]

ReadyGenuine ==
    \A o \in 1..Len(ready) :
        ready[o] # Poison =>
            /\ ready[o].version = 1
            /\ version[ready[o].voyage] # 0
            /\ version[ready[o].voyage] = 1 =>
                  ready[o].amount = Price(content[ready[o].voyage])

\* Every event on either topic stems from one voyage's create: its version is 1,
\* and as long as no update landed, its payload is the stored content and its
\* amount is the price of that content.  Redelivery and republishing only
\* duplicate events; they never invent or alter one.
EventsAreGenuine == CreatedGenuine /\ ReadyGenuine

\* At-least-once delivery costs one apply (repository.go, IS DISTINCT FROM): no
\* voyage's estimate is ever counted as applied twice.
AppliedAtMostOnce == \A v \in Voyages : applied[v] <= 1

\* The estimator commits an offset only after the estimate.ready it owes for
\* every record up to there is on the topic (package doc of consumer.go).
CommitAfterProduce ==
    \A o \in 1..committed[Estimator] :
        created[o] # Poison /\ Priceable(created[o].content) =>
            \E p \in 1..Len(ready) : ready[p] = BuildEstimateReady(created[o])

\* The voyage service commits an offset only after every estimate up to there is
\* in the table, or its voyage has moved past the version that was priced.
CommitAfterUpsert ==
    \A o \in 1..committed[Voyage] :
        ready[o] # Poison =>
            \/ estimate[ready[o].voyage] = ready[o].amount
            \/ version[ready[o].voyage] # ready[o].version

\* A poison pill is committed only after it is on the dead-letter topic.
CommitAfterDLQ ==
    /\ \A o \in 1..committed[Estimator] :
          created[o] = Poison =>
              \E k \in 1..Len(dlq[Estimator]) : dlq[Estimator][k] = o
    /\ \A o \in 1..committed[Voyage] :
          ready[o] = Poison => \E k \in 1..Len(dlq[Voyage]) : dlq[Voyage][k] = o

\* Something still owes voyage v its estimate and survives any crash: an
\* unpublished outbox row, or an event past the committed offset of its group.
InFlight(v) ==
    \/ \E i \in Unpublished : outbox[i].voyage = v
    \/ \E o \in (committed[Estimator] + 1)..Len(created) :
          created[o] # Poison /\ created[o].voyage = v
    \/ \E o \in (committed[Voyage] + 1)..Len(ready) :
          ready[o] # Poison /\ ready[o].voyage = v

\* No estimate is ever silently dropped: a voyage that can be priced, was not
\* updated and has no estimate is still in flight somewhere durable.
NeverStranded ==
    \A v \in Voyages :
        version[v] = 1 /\ Priceable(content[v]) /\ estimate[v] = Null => InFlight(v)

\* A group's committed offset never moves back, across crashes and lost commits.
CommittedNeverRewinds == [][\A g \in Groups : committed'[g] >= committed[g]]_vars

\* The table, seen alone, is the ledger of EstimateLedger: estimates are written
\* once, only at version 1, and are the exact price.  With fairness, a voyage
\* that stays at version 1 is eventually priced.
Ledger == INSTANCE EstimateLedger WITH
              Voyages <- Voyages, Contents <- Contents, MaxVersion <- MaxVersion,
              Null <- Null, Price <- Price,
              version <- version, content <- content, estimate <- estimate
LedgerSafe == Ledger!SafeSpec
LedgerLive == Ledger!Spec

\* The poller retries until it succeeds: every outbox row is eventually stamped.
OutboxDrains ==
    \A i \in 1..Cardinality(Voyages) : i \in Unpublished ~> i \in stamped

\* A poison pill never stalls a consumer (consumer.go: "costs one entry, not a
\* stall"): whatever is on the topics, redelivered or not, both consumers get to
\* the end of them.
ConsumersCatchUp == \A g \in Groups : []<>(cursor[g] > EndOffset(g))
-----------------------------------------------------------------------------
(* What the repository says of the pipeline and the code does not do.      *)

\* "the estimate applies only to the voyage at the exact version it was priced
\* for" (repository.go): the estimate of a voyage is the price of its content.
EstimateIsCurrent ==
    \A v \in Voyages : estimate[v] # Null => estimate[v] = Price(content[v])
=============================================================================
