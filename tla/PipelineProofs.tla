--------------------------- MODULE PipelineProofs ---------------------------
(***************************************************************************)
(* Proofs about the composition.  Every step of the pipeline is a step of  *)
(* the consumer loop or leaves it alone, and a step of the outbox or       *)
(* leaves it alone: what is proved of Delivery and of Outbox, each against *)
(* an environment that does as it likes, holds in the pipeline.            *)
(***************************************************************************)
EXTENDS Pipeline, DeliveryProofs, OutboxProofs

LEMMA RowTyped ==
    ASSUME OutboxTypeOK, NEW i \in RowIds
    PROVE  i \in EventIds /\ outbox[i].topic \in Topics /\ outbox[i].doc \in Docs
  <1>1. i \in 1 .. Len(outbox) /\ outbox \in Seq(Row)
    BY DEF OutboxTypeOK, RowIds
  <1>2. outbox[i] \in Row /\ i \in Nat \ {0}
    BY <1>1
  <1>3. QED
    BY <1>2 DEF Row, EventIds

(* To the workers, a relay that publishes a row is a delivery, and nothing
   else the gateway and the relays do exists. *)
LEMMA StepOfDelivery ==
    ASSUME OutboxTypeOK, [PipelineNext]_pipelineVars
    PROVE  [DeliveryNext]_deliveryVars
  <1> USE DEF workerVars, deliveryVars
  <1>1. ASSUME NEW d \in Docs, GatewayStep(d) \/ AbandonUpload(d)
        PROVE  UNCHANGED deliveryVars
    BY <1>1 DEF GatewayStep, SaveUpload, CreateJob, AbandonUpload, GatewayFrame
  <1>2. ASSUME NEW r \in Relays, PublisherStep(r) \/ PublisherFault(r)
        PROVE  [DeliveryNext]_deliveryVars
    <2>1. CASE PublishRow(r) /\ UNCHANGED workerVars
      <3>1. PICK i \in RowIds : Produce(outbox[i].topic, RecordOf(i))
        BY <2>1 DEF PublishRow
      <3>2. i \in EventIds /\ outbox[i].topic \in Topics /\ outbox[i].doc \in Docs
        BY RowTyped
      <3>3. Deliver(outbox[i].topic, i, outbox[i].doc)
        BY <2>1, <3>1 DEF Deliver, RecordOf, consumerVars
      <3>4. QED
        BY <3>2, <3>3 DEF DeliveryNext
    <2>2. CASE ~PublishRow(r)
      BY <1>2, <2>2 DEF PublisherStep, PublisherFault, RelayStep, FetchBatch,
                        CommitBatch, RefuseRow, LoseBatch
    <2>3. QED
      BY <1>2, <2>1, <2>2 DEF PublisherStep, PublisherFault, RelayStep, LoseBatch
  <1>3. ASSUME NEW w \in Workers, HandlerStep(w)
        PROVE  WorkerStep(w) \/ UNCHANGED deliveryVars
    BY <1>3 DEF HandlerStep, ConsumerStep, SaveText, UpsertBatch, SideEffect,
                HandlerCommits, HandlerFails, MarkFailed, WorkerStep
  <1>4. ASSUME NEW w \in Workers,
               HandlerCommitsUnacked(w) \/ SessionLost(w) \/ WorkerCrash(w)
        PROVE  WorkSucceedsUnacked(w) \/ LoseSession(w) \/ Crash(w)
    BY <1>4 DEF HandlerCommitsUnacked, SessionLost, WorkerCrash
  <1>5. ASSUME NEW t \in Topics, GroupFault(t)
        PROVE  Rebalance(t)
    BY <1>5 DEF GroupFault
  <1>6. CASE UNCHANGED pipelineVars
    BY <1>6 DEF pipelineVars
  <1>7. QED
    BY <1>1, <1>2, <1>3, <1>4, <1>5, <1>6
    DEF PipelineNext, DeliveryNext, DeliveryFault

(* To the relays, the gateway and the handlers stage rows, and a worker that
   requeues its record puts a retry of something on the bus. *)
LEMMA StepOfOutbox ==
    ASSUME HeldInv, OutboxTypeOK, [PipelineNext]_pipelineVars
    PROVE  [OutboxNext]_outboxVars
  <1> USE DEF relayVars, outboxVars
  <1>0. /\ {"ingested", "extracted", "enriched"} \subseteq Topics
        /\ Results \subseteq Payloads /\ NoResult \in Payloads
    BY PipelineAssumption
  <1>1. ASSUME NEW d \in Docs, GatewayStep(d) \/ AbandonUpload(d)
        PROVE  [OutboxNext]_outboxVars
    <2>1. CASE CreateJob(d)
      <3>1. Stage("ingested", d, NoResult)
        BY <2>1 DEF CreateJob, GatewayFrame, Stage
      <3>2. QED
        BY <1>0, <3>1 DEF OutboxNext
    <2>2. CASE ~CreateJob(d)
      BY <1>1, <2>2 DEF GatewayStep, SaveUpload, AbandonUpload, GatewayFrame
    <2>3. QED
      BY <2>1, <2>2
  <1>2. ASSUME NEW r \in Relays, PublisherStep(r) \/ PublisherFault(r)
        PROVE  OutboxNext
    BY <1>2 DEF PublisherStep, PublisherFault, OutboxNext
  <1>3. ASSUME NEW w \in Workers, Handle(w), EndWork(w), pc[w] # "idle",
               UNCHANGED log
        PROVE  [OutboxNext]_outboxVars
    <2>1. DocIn(w) \in Docs
      BY <1>3, BusyHasMessage DEF HeldInv, DocIn, Message
    <2>2. CASE HandleIngested(w)
      <3>1. Stage("extracted", DocIn(w), NoResult)
        BY <1>3, <2>2 DEF HandleIngested, EndWork, Stage
      <3>2. QED
        BY <1>0, <2>1, <3>1 DEF OutboxNext
    <2>3. CASE HandleExtracted(w)
      <3>1. PICK r \in Results : Stage("enriched", DocIn(w), r)
        BY <1>3, <2>3 DEF HandleExtracted, EndWork, Stage
      <3>2. QED
        BY <1>0, <2>1, <3>1 DEF OutboxNext
    <2>4. CASE HandleEnriched(w)
      BY <1>3, <2>4 DEF HandleEnriched, EndWork
    <2>5. QED
      BY <1>3, <2>2, <2>3, <2>4 DEF Handle
  <1>4. ASSUME NEW w \in Workers, Requeue(w), UNCHANGED <<outbox, relayVars>>
        PROVE  OutboxNext
    <2>1. inflight[w] \in Message /\ WorkerTopic[w] \in Topics
      BY <1>4, BusyHasMessage, WorkerAssumption DEF HeldInv, Requeue, Goto
    <2> DEFINE p == PartitionOf[inflight[w].doc]
    <2>2. p \in Partitions
      BY <2>1, BrokerAssumption DEF Message
    <2>3. PICK i \in 1 .. Len(log[<<WorkerTopic[w], p>>]) :
              log[<<WorkerTopic[w], p>>][i] = inflight[w]
      BY <1>4 DEF HeldInv, HeldIsOnBus, StreamOf, Requeue, Goto
    <2>4. inflight[w].attempt + 1 < MaxAttempts
      BY <1>4, <2>1 DEF Requeue, NextAttempt, Message
    <2>5. Redeliver(WorkerTopic[w])
      BY <1>4, <2>2, <2>3, <2>4 DEF Redeliver, Requeue
    <2>6. QED
      BY <2>1, <2>5 DEF OutboxNext
  <1>5. ASSUME NEW w \in Workers, HandlerStep(w)
        PROVE  [OutboxNext]_outboxVars
    <2>1. CASE HandlerCommits(w)
      BY <1>3, <2>1 DEF HandlerCommits, WorkSucceeds, Goto
    <2>2. CASE ConsumerStep(w)
      <3>1. CASE Requeue(w)
        BY <1>4, <2>2, <3>1 DEF ConsumerStep
      <3>2. CASE ~Requeue(w)
        BY <2>2, <3>2 DEF ConsumerStep, Fetch, Claim, SkipDuplicate, DeadLetter,
                          CommitOffset
      <3>3. QED
        BY <3>1, <3>2
    <2>3. CASE SaveText(w) \/ UpsertBatch(w) \/ HandlerFails(w) \/ MarkFailed(w)
      BY <2>3 DEF SaveText, UpsertBatch, SideEffect, HandlerFails, WorkFails,
                  EndWork, MarkFailed, OnDlqReturns
    <2>4. QED
      BY <1>5, <2>1, <2>2, <2>3 DEF HandlerStep
  <1>6. ASSUME NEW w \in Workers,
               HandlerCommitsUnacked(w) \/ SessionLost(w) \/ WorkerCrash(w)
        PROVE  [OutboxNext]_outboxVars
    <2>1. CASE HandlerCommitsUnacked(w)
      BY <1>3, <2>1 DEF HandlerCommitsUnacked, WorkSucceedsUnacked, Goto
    <2>2. CASE SessionLost(w) \/ WorkerCrash(w)
      BY <2>2 DEF SessionLost, LoseSession, WorkerCrash, Crash, EndWork
    <2>3. QED
      BY <1>6, <2>1, <2>2
  <1>7. ASSUME \/ \E t \in Topics : GroupFault(t)
               \/ UNCHANGED pipelineVars
        PROVE  UNCHANGED outboxVars
    BY <1>7 DEF GroupFault, Rebalance, pipelineVars
  <1>8. QED
    BY <1>1, <1>2, <1>5, <1>6, <1>7 DEF PipelineNext

-----------------------------------------------------------------------------
(* The invariants of the parts hold in the whole.  They need each other: a
   relay delivers envelopes because rows are well-formed, and a worker
   requeues what is on the bus. *)
PartsInv ==
    /\ HeldInv
    /\ DeliveryInv
    /\ ClaimExclusive
    /\ OutboxInv

LEMMA PipelineInitParts == PipelineInit => PartsInv
  <1>1. PipelineInit => DeliveryInit /\ OutboxInit
    BY DEF PipelineInit
  <1>2. DeliveryInit => ClaimExclusive
    BY DEF DeliveryInit, ClaimExclusive
  <1>3. QED
    BY <1>1, <1>2, InitHeldInv, InitDeliveryInv, OutboxInitInv DEF PartsInv

LEMMA PipelineNextParts ==
    ASSUME PartsInv, [PipelineNext]_pipelineVars
    PROVE  /\ PartsInv'
           /\ [DeliveryNext]_deliveryVars
           /\ [OutboxNext]_outboxVars
  <1>1. DeliveryTypeOK /\ OutboxTypeOK
    BY DEF PartsInv, HeldInv, OutboxInv
  <1>2. [DeliveryNext]_deliveryVars /\ [OutboxNext]_outboxVars
    BY <1>1, StepOfDelivery, StepOfOutbox DEF PartsInv
  <1>3. HeldInv' /\ DeliveryInv' /\ ClaimExclusive'
    BY <1>1, <1>2, NextHeldInv, NextDeliveryInv, NextClaimExclusive DEF PartsInv
  <1>4. OutboxInv'
    BY <1>2, OutboxNextTypeOK, NextBusHasRows, NextSentIsOnBus,
       NextPublishedIsOnBus DEF PartsInv, OutboxInv
  <1>5. QED
    BY <1>2, <1>3, <1>4 DEF PartsInv

THEOREM PipelineParts == PipelineSpec => []PartsInv
  BY PipelineInitParts, PipelineNextParts, PTL DEF PipelineSpec

(* The pipeline implements the consumer loop: the relays are an environment
   that delivers what it likes, and the handlers are work that succeeds or
   fails. *)
THEOREM PipelineImplementsDelivery == PipelineSpec => DeliverySpec
  <1>1. PipelineInit => DeliveryInit
    BY DEF PipelineInit
  <1>2. PartsInv /\ [PipelineNext]_pipelineVars => [DeliveryNext]_deliveryVars
    BY PipelineNextParts
  <1>3. QED
    BY <1>1, <1>2, PipelineParts, PTL DEF PipelineSpec, DeliverySpec

(* The pipeline implements the outbox: gateway and handlers stage rows in
   their transactions, workers redeliver what is on the bus. *)
THEOREM PipelineImplementsOutbox == PipelineSpec => OutboxSpec
  <1>1. PipelineInit => OutboxInit
    BY DEF PipelineInit
  <1>2. PartsInv /\ [PipelineNext]_pipelineVars => [OutboxNext]_outboxVars
    BY PipelineNextParts
  <1>3. QED
    BY <1>1, <1>2, PipelineParts, PTL DEF PipelineSpec, OutboxSpec

(* So the pipeline never commits an offset past an event that is neither
   worked off, parked nor on its way again. *)
THEOREM PipelineLosesNothing == PipelineSpec => []NoEventLost
  BY PipelineImplementsDelivery, DeliveryLosesNothing

-----------------------------------------------------------------------------
(* Exactly-once effects.

   OneEventPerStage is not inductive: that a handler stages its event once
   rests on the claims.  What ties the two together is StagedByClaim: an
   event is staged by the handler of the event before it, whose claim commits
   in the same transaction.  A handler at work has no committed claim on its
   event, so the event after it is not staged yet. *)

(* The topic whose handler stages the events of t. *)
StageBefore(t) == IF t = "extracted" THEN "ingested" ELSE "extracted"

ClaimedRows == {i \in RowIds : <<outbox[i].topic, i>> \in claims}

StagedByClaim ==
    \A i \in RowIds : outbox[i].topic # "ingested" =>
        \E j \in ClaimedRows : /\ outbox[j].topic = StageBefore(outbox[i].topic)
                               /\ outbox[j].doc = outbox[i].doc

(* A document has no event before its job is created. *)
StagedIsAccepted ==
    \A i \in RowIds : uploads[outbox[i].doc] \notin {"new", "saved"}

StagesInv ==
    /\ uploads \in [Docs -> UploadStates]
    /\ StagedByClaim
    /\ StagedIsAccepted
    /\ OneEventPerStage

(* What a worker holds is an event of its topic, staged for its document. *)
LEMMA HeldHasRow ==
    ASSUME PartsInv, NEW w \in Workers, pc[w] # "idle"
    PROVE  /\ inflight[w].id \in RowIds
           /\ outbox[inflight[w].id].topic = WorkerTopic[w]
           /\ outbox[inflight[w].id].doc = DocIn(w)
           /\ DocIn(w) \in Docs
  <1> DEFINE s == StreamOf(WorkerTopic[w], inflight[w])
  <1>1. inflight[w] \in Message /\ WorkerTopic[w] \in Topics
    BY BusyHasMessage, WorkerAssumption DEF PartsInv, HeldInv
  <1>2. s \in Streams /\ s[1] = WorkerTopic[w]
    BY <1>1, BrokerAssumption DEF StreamOf, Streams, Message
  <1>3. PICK i \in 1 .. Len(log[s]) : log[s][i] = inflight[w]
    BY DEF PartsInv, HeldInv, HeldIsOnBus
  <1> HIDE DEF s
  <1>4. /\ inflight[w].id \in RowIds
        /\ outbox[inflight[w].id].topic = s[1]
        /\ outbox[inflight[w].id].doc = inflight[w].doc
    BY <1>2, <1>3 DEF PartsInv, OutboxInv, BusHasRows
  <1>5. QED
    BY <1>1, <1>2, <1>4 DEF DocIn, Message

(* A step that stages nothing. *)
LEMMA NothingStaged ==
    ASSUME StagesInv, OutboxTypeOK,
           Len(outbox') = Len(outbox),
           \A i \in RowIds : /\ outbox'[i].topic = outbox[i].topic
                             /\ outbox'[i].doc = outbox[i].doc,
           claims \subseteq claims',
           uploads' \in [Docs -> UploadStates],
           \A d \in Docs : uploads'[d] \in {"new", "saved"}
                               => uploads[d] \in {"new", "saved"}
    PROVE  StagesInv'
  <1>1. RowIds' = RowIds
    BY DEF RowIds
  <1>2. ClaimedRows \subseteq ClaimedRows'
    BY <1>1 DEF ClaimedRows
  <1>3. \A i \in RowIds : outbox[i].doc \in Docs
    BY RowTyped
  <1>4. StagedByClaim'
    <2> SUFFICES ASSUME NEW i \in RowIds, outbox'[i].topic # "ingested"
                 PROVE  \E j \in ClaimedRows' :
                           /\ outbox'[j].topic = StageBefore(outbox'[i].topic)
                           /\ outbox'[j].doc = outbox'[i].doc
      BY <1>1 DEF StagedByClaim, StageBefore
    <2>1. PICK j \in ClaimedRows : /\ outbox[j].topic = StageBefore(outbox[i].topic)
                                   /\ outbox[j].doc = outbox[i].doc
      BY DEF StagesInv, StagedByClaim
    <2>2. j \in ClaimedRows' /\ j \in RowIds
      BY <1>2, <2>1 DEF ClaimedRows
    <2>3. QED
      BY <2>1, <2>2
  <1>5. StagedIsAccepted'
    BY <1>1, <1>3 DEF StagesInv, StagedIsAccepted
  <1>6. OneEventPerStage'
    BY <1>1 DEF StagesInv, OneEventPerStage
  <1>7. QED
    BY <1>4, <1>5, <1>6 DEF StagesInv

(* A step that stages the first event of topic t for document d. *)
LEMMA FirstStaged ==
    ASSUME StagesInv, OutboxTypeOK,
           NEW t \in Topics, NEW d \in Docs, NEW p \in Payloads,
           Enqueue(t, d, p),
           Rows(t, d) = {},
           claims \subseteq claims',
           t # "ingested" =>
               \E j \in RowIds : /\ outbox[j].topic = StageBefore(t)
                                 /\ outbox[j].doc = d
                                 /\ <<StageBefore(t), j>> \in claims',
           uploads' \in [Docs -> UploadStates],
           uploads'[d] \notin {"new", "saved"},
           \A e \in Docs : uploads'[e] \in {"new", "saved"}
                               => uploads[e] \in {"new", "saved"}
    PROVE  StagesInv'
  <1> DEFINE n == Len(outbox) + 1
  <1>1. outbox \in Seq(Row) /\ Len(outbox) \in Nat
    BY DEF OutboxTypeOK
  <1>2. /\ Len(outbox') = n
        /\ \A i \in RowIds : outbox'[i] = outbox[i]
        /\ outbox'[n].topic = t /\ outbox'[n].doc = d
    BY <1>1, EnqueueAppends
  <1>3. RowIds' = RowIds \cup {n} /\ n \notin RowIds
    BY <1>1, <1>2 DEF RowIds
  <1>4. \A i \in RowIds : outbox[i].doc \in Docs
    BY RowTyped
  <1> HIDE DEF n
  <1>5. ClaimedRows \subseteq ClaimedRows'
    BY <1>2, <1>3 DEF ClaimedRows
  <1>6. StagedByClaim'
    <2> SUFFICES ASSUME NEW i \in RowIds', outbox'[i].topic # "ingested"
                 PROVE  \E j \in ClaimedRows' :
                           /\ outbox'[j].topic = StageBefore(outbox'[i].topic)
                           /\ outbox'[j].doc = outbox'[i].doc
      BY DEF StagedByClaim, StageBefore
    <2>1. CASE i \in RowIds
      <3>1. PICK j \in ClaimedRows :
                /\ outbox[j].topic = StageBefore(outbox[i].topic)
                /\ outbox[j].doc = outbox[i].doc
        BY <1>2, <2>1 DEF StagesInv, StagedByClaim
      <3>2. j \in ClaimedRows' /\ j \in RowIds
        BY <1>5, <3>1 DEF ClaimedRows
      <3>3. QED
        BY <1>2, <2>1, <3>1, <3>2
    <2>2. CASE i = n
      <3>1. PICK j \in RowIds : /\ outbox[j].topic = StageBefore(t)
                                /\ outbox[j].doc = d
                                /\ <<StageBefore(t), j>> \in claims'
        BY <1>2, <2>2
      <3>2. j \in ClaimedRows'
        BY <1>2, <1>3, <3>1 DEF ClaimedRows
      <3>3. QED
        BY <1>2, <2>2, <3>1, <3>2
    <2>3. QED
      BY <1>3, <2>1, <2>2
  <1>7. StagedIsAccepted'
    BY <1>2, <1>3, <1>4 DEF StagesInv, StagedIsAccepted
  <1>8. OneEventPerStage'
    BY <1>2, <1>3 DEF StagesInv, OneEventPerStage, Rows
  <1>9. QED
    BY <1>6, <1>7, <1>8 DEF StagesInv

(* The event a handler at work is to stage does not exist yet. *)
LEMMA NotStagedYet ==
    ASSUME PartsInv, StagesInv, NEW w \in Workers, pc[w] = "working",
           NEW t \in {"extracted", "enriched"},
           WorkerTopic[w] = StageBefore(t)
    PROVE  Rows(t, DocIn(w)) = {}
  <1> DEFINE id == inflight[w].id
             d == DocIn(w)
  <1>1. /\ id \in RowIds
        /\ outbox[id].topic = StageBefore(t)
        /\ outbox[id].doc = d
    BY HeldHasRow
  <1>2. <<StageBefore(t), id>> \notin claims
    BY DEF EventOf, PartsInv, ClaimExclusive
  <1> HIDE DEF id, d
  <1> SUFFICES ASSUME NEW i \in RowIds, outbox[i].topic = t, outbox[i].doc = d
               PROVE  FALSE
    BY DEF Rows, d
  <1>3. PICK j \in ClaimedRows : /\ outbox[j].topic = StageBefore(t)
                                 /\ outbox[j].doc = d
    BY DEF StagesInv, StagedByClaim
  <1>4. j \in RowIds /\ <<StageBefore(t), j>> \in claims
    BY <1>3 DEF ClaimedRows
  <1>5. j = id
    BY <1>1, <1>3, <1>4 DEF StagesInv, OneEventPerStage
  <1>6. QED
    BY <1>2, <1>4, <1>5

(* The commit of handle_ingested or handle_extracted. *)
LEMMA HandlerStagesOnce ==
    ASSUME PartsInv, StagesInv, NEW w \in Workers, pc[w] = "working",
           NEW t \in {"extracted", "enriched"}, NEW p \in Payloads,
           WorkerTopic[w] = StageBefore(t),
           Enqueue(t, DocIn(w), p),
           claims' = claims \cup {EventOf(w)},
           UNCHANGED uploads
    PROVE  StagesInv'
  <1> DEFINE id == inflight[w].id
             d == DocIn(w)
  <1>1. /\ id \in RowIds
        /\ outbox[id].topic = StageBefore(t)
        /\ outbox[id].doc = d
        /\ d \in Docs
    BY HeldHasRow
  <1>2. EventOf(w) = <<StageBefore(t), id>> /\ EventOf(w) \notin claims
    BY DEF EventOf, PartsInv, ClaimExclusive
  <1>3. OutboxTypeOK /\ t \in Topics
    BY PipelineAssumption DEF PartsInv, OutboxInv
  <1> HIDE DEF id, d
  <1>4. Rows(t, d) = {}
    BY NotStagedYet DEF d
  <1>5. <<StageBefore(t), id>> \in claims' /\ claims \subseteq claims'
    BY <1>2
  <1>6. uploads'[d] \notin {"new", "saved"}
    BY <1>1 DEF StagesInv, StagedIsAccepted
  <1>7. Enqueue(t, d, p)
    BY DEF d
  <1>8. uploads' \in [Docs -> UploadStates]
    BY DEF StagesInv
  <1>9. QED
    BY <1>1, <1>3, <1>4, <1>5, <1>6, <1>7, <1>8, FirstStaged

LEMMA CommitKeepsStages ==
    ASSUME PartsInv, StagesInv, NEW w \in Workers, pc[w] = "working",
           Handle(w), EndWork(w), claims' = claims \cup {EventOf(w)}
    PROVE  StagesInv'
  <1>1. uploads' = uploads
    BY DEF EndWork
  <1>2. CASE HandleIngested(w)
    <2>1. /\ WorkerTopic[w] = StageBefore("extracted")
          /\ Enqueue("extracted", DocIn(w), NoResult)
          /\ NoResult \in Payloads
      BY <1>2, PipelineAssumption DEF HandleIngested, StageBefore
    <2>2. QED
      BY <1>1, <2>1, HandlerStagesOnce
  <1>3. CASE HandleExtracted(w)
    <2>1. PICK r \in Results : Enqueue("enriched", DocIn(w), r)
      BY <1>3 DEF HandleExtracted
    <2>2. WorkerTopic[w] = StageBefore("enriched") /\ r \in Payloads
      BY <1>3, PipelineAssumption DEF HandleExtracted, StageBefore
    <2>3. QED
      BY <1>1, <2>1, <2>2, HandlerStagesOnce
  <1>4. CASE HandleEnriched(w)
    <2>1. outbox' = outbox /\ claims \subseteq claims'
      BY <1>4 DEF HandleEnriched
    <2>2. OutboxTypeOK /\ uploads' \in [Docs -> UploadStates]
      BY <1>1 DEF PartsInv, OutboxInv, StagesInv
    <2>3. QED
      BY <1>1, <2>1, <2>2, NothingStaged
  <1>5. QED
    BY <1>2, <1>3, <1>4 DEF Handle

LEMMA NextStagesInv ==
    ASSUME PartsInv, StagesInv, [PipelineNext]_pipelineVars
    PROVE  StagesInv'
  <1> USE DEF workerVars, relayVars, serviceVars
  <1>0. OutboxTypeOK /\ uploads \in [Docs -> UploadStates]
    BY DEF PartsInv, OutboxInv, StagesInv
  <1>1. ASSUME UNCHANGED <<outbox, claims, uploads>>
        PROVE  StagesInv'
    BY <1>0, <1>1, NothingStaged
  <1>2. ASSUME NEW d \in Docs, SaveUpload(d) \/ AbandonUpload(d)
        PROVE  StagesInv'
    <2>1. /\ UNCHANGED <<outbox, claims>>
          /\ uploads[d] \in {"new", "saved"}
          /\ \E u \in {"saved", "failed"} : uploads' = [uploads EXCEPT ![d] = u]
      BY <1>2 DEF SaveUpload, AbandonUpload, GatewayFrame
    <2>2. /\ uploads' \in [Docs -> UploadStates]
          /\ \A e \in Docs : uploads'[e] \in {"new", "saved"}
                                 => uploads[e] \in {"new", "saved"}
      BY <1>0, <2>1 DEF UploadStates
    <2>3. QED
      BY <1>0, <2>1, <2>2, NothingStaged
  <1>3. ASSUME NEW d \in Docs, CreateJob(d)
        PROVE  StagesInv'
    <2>1. /\ Enqueue("ingested", d, NoResult)
          /\ uploads[d] = "saved"
          /\ \E u \in {"accepted", "failed"} : uploads' = [uploads EXCEPT ![d] = u]
          /\ claims' = claims
      BY <1>3 DEF CreateJob, GatewayFrame
    <2>2. /\ uploads' \in [Docs -> UploadStates]
          /\ uploads'[d] \notin {"new", "saved"}
          /\ \A e \in Docs : uploads'[e] \in {"new", "saved"}
                                 => uploads[e] \in {"new", "saved"}
      BY <1>0, <2>1 DEF UploadStates
    <2>3. Rows("ingested", d) = {}
      BY <2>1 DEF Rows, StagesInv, StagedIsAccepted
    <2>4. "ingested" \in Topics /\ NoResult \in Payloads
      BY PipelineAssumption
    <2>5. QED
      BY <1>0, <2>1, <2>2, <2>3, <2>4, FirstStaged
  <1>4. ASSUME NEW r \in Relays, PublisherStep(r) \/ PublisherFault(r)
        PROVE  StagesInv'
    <2>1. UNCHANGED <<claims, uploads>>
      BY <1>4 DEF PublisherStep, PublisherFault
    <2>2. CASE CommitBatch(r)
      BY <1>0, <2>1, <2>2, CommitMarks, NothingStaged DEF OutboxTypeOK
    <2>3. CASE ~CommitBatch(r)
      <3>1. outbox' = outbox
        BY <1>4, <2>3 DEF PublisherStep, PublisherFault, RelayStep, FetchBatch,
                          PublishRow, RefuseRow, LoseBatch
      <3>2. QED
        BY <1>1, <2>1, <3>1
    <2>4. QED
      BY <2>2, <2>3
  <1>5. ASSUME NEW w \in Workers, HandlerCommits(w) \/ HandlerCommitsUnacked(w)
        PROVE  StagesInv'
    <2>1. /\ Handle(w) /\ EndWork(w) /\ pc[w] = "working"
          /\ claims' = claims \cup {EventOf(w)}
      BY <1>5 DEF HandlerCommits, HandlerCommitsUnacked, WorkSucceeds,
                  WorkSucceedsUnacked, Goto
    <2>2. QED
      BY <2>1, CommitKeepsStages
  <1>6. ASSUME NEW w \in Workers,
               \/ ConsumerStep(w) \/ SaveText(w) \/ UpsertBatch(w)
               \/ HandlerFails(w) \/ MarkFailed(w)
               \/ SessionLost(w) \/ WorkerCrash(w)
        PROVE  UNCHANGED <<outbox, claims, uploads>>
    <2>1. CASE ConsumerStep(w)
      BY <2>1 DEF ConsumerStep, Fetch, Claim, SkipDuplicate, Requeue,
                  DeadLetter, CommitOffset
    <2>2. CASE ~ConsumerStep(w)
      BY <1>6, <2>2 DEF SaveText, UpsertBatch, SideEffect, HandlerFails,
            WorkFails, MarkFailed, OnDlqReturns, SessionLost, LoseSession,
            WorkerCrash, Crash, EndWork, serviceVars
    <2>3. QED
      BY <2>1, <2>2
  <1>7. ASSUME NEW t \in Topics, GroupFault(t)
        PROVE  UNCHANGED <<outbox, claims, uploads>>
    BY <1>7 DEF GroupFault, Rebalance
  <1>8. CASE UNCHANGED pipelineVars
    BY <1>1, <1>8 DEF pipelineVars
  <1>9. QED
    BY <1>1, <1>2, <1>3, <1>4, <1>5, <1>6, <1>7, <1>8
    DEF PipelineNext, GatewayStep, HandlerStep

LEMMA PipelineInitStages == PipelineInit => StagesInv
  <1> SUFFICES ASSUME PipelineInit PROVE StagesInv
    OBVIOUS
  <1>1. RowIds = {}
    BY DEF PipelineInit, OutboxInit, RowIds
  <1>2. uploads \in [Docs -> UploadStates]
    BY DEF PipelineInit, UploadStates
  <1>3. QED
    BY <1>1, <1>2 DEF StagesInv, StagedByClaim, StagedIsAccepted,
                      OneEventPerStage

LEMMA PipelineStages == PipelineSpec => []StagesInv
  <1>1. PartsInv /\ StagesInv /\ [PipelineNext]_pipelineVars => StagesInv'
    BY NextStagesInv
  <1>2. QED
    BY <1>1, PipelineInitStages, PipelineParts, PTL DEF PipelineSpec

(* However often an event is published, redelivered and retried, each stage
   stages one event per document: the effects are exactly-once. *)
THEOREM PipelineStagesOnce == PipelineSpec => []OneEventPerStage
  <1>1. StagesInv => OneEventPerStage
    BY DEF StagesInv
  <1>2. QED
    BY <1>1, PipelineStages, PTL

-----------------------------------------------------------------------------
(* What a step does to the rows and to what the services store. *)

SameRows ==
    /\ RowIds' = RowIds
    /\ \A i \in RowIds : /\ outbox'[i].topic = outbox[i].topic
                         /\ outbox'[i].doc = outbox[i].doc
                         /\ outbox'[i].payload = outbox[i].payload

NewRow(t, d, p) ==
    \E n \in Nat :
        /\ RowIds' = RowIds \cup {n} /\ n \notin RowIds
        /\ \A i \in RowIds : outbox'[i] = outbox[i]
        /\ outbox'[n].topic = t /\ outbox'[n].doc = d /\ outbox'[n].payload = p

LEMMA EnqueueIsNewRow ==
    ASSUME OutboxTypeOK, NEW t \in Topics, NEW d \in Docs, NEW p \in Payloads,
           Enqueue(t, d, p)
    PROVE  NewRow(t, d, p)
  <1> DEFINE n == Len(outbox) + 1
  <1>1. outbox \in Seq(Row) /\ Len(outbox) \in Nat
    BY DEF OutboxTypeOK
  <1>2. /\ Len(outbox') = n
        /\ \A i \in RowIds : outbox'[i] = outbox[i]
        /\ outbox'[n].topic = t /\ outbox'[n].doc = d /\ outbox'[n].payload = p
    BY <1>1, EnqueueAppends
  <1>3. RowIds' = RowIds \cup {n} /\ n \notin RowIds /\ n \in Nat
    BY <1>1, <1>2 DEF RowIds
  <1> HIDE DEF n
  <1>4. QED
    BY <1>2, <1>3 DEF NewRow

LEMMA UnchangedRows ==
    ASSUME outbox' = outbox
    PROVE  SameRows
  BY DEF SameRows, RowIds

(* Relays, the loop of the workers and faults leave the services alone. *)
Quiet ==
    /\ SameRows
    /\ UNCHANGED serviceVars
    /\ \A t \in Topics : dlq[t] \subseteq dlq'[t]

(* The commit of a handler's transaction. *)
Commits(w) ==
    /\ pc[w] = "working"
    /\ Handle(w)
    /\ UNCHANGED <<uploads, raws, texts, points, dlq>>

LEMMA StepKinds ==
    ASSUME PartsInv, [PipelineNext]_pipelineVars
    PROVE  \/ Quiet
           \/ \E d \in Docs : SaveUpload(d) \/ AbandonUpload(d) \/ CreateJob(d)
           \/ \E w \in Workers :
                 SaveText(w) \/ UpsertBatch(w) \/ Commits(w) \/ MarkFailed(w)
  <1> USE DEF workerVars, relayVars
  <1>1. ASSUME NEW r \in Relays, PublisherStep(r) \/ PublisherFault(r)
        PROVE  Quiet
    <2>1. UNCHANGED serviceVars /\ dlq' = dlq
      BY <1>1 DEF PublisherStep, PublisherFault
    <2>2. CASE CommitBatch(r)
      <3>1. SameRows
        BY <2>2, CommitMarks DEF PartsInv, OutboxInv, OutboxTypeOK, SameRows,
                                 RowIds
      <3>2. QED
        BY <2>1, <3>1 DEF Quiet
    <2>3. CASE ~CommitBatch(r)
      <3>1. outbox' = outbox
        BY <1>1, <2>3 DEF PublisherStep, PublisherFault, RelayStep, FetchBatch,
                          PublishRow, RefuseRow, LoseBatch
      <3>2. QED
        BY <2>1, <3>1, UnchangedRows DEF Quiet
    <2>4. QED
      BY <2>2, <2>3
  <1>2. ASSUME NEW w \in Workers, HandlerCommits(w) \/ HandlerCommitsUnacked(w)
        PROVE  Commits(w)
    BY <1>2 DEF HandlerCommits, HandlerCommitsUnacked, WorkSucceeds,
                WorkSucceedsUnacked, Goto, EndWork, Commits
  <1>3. ASSUME NEW w \in Workers, ConsumerStep(w)
        PROVE  Quiet
    <2>1. UNCHANGED <<outbox, serviceVars>>
      BY <1>3 DEF ConsumerStep
    <2>2. CASE DeadLetter(w)
      <3>1. \A t \in Topics : dlq[t] \subseteq dlq'[t]
        BY <2>2 DEF DeadLetter, PartsInv, HeldInv, DeliveryTypeOK
      <3>2. QED
        BY <2>1, <3>1, UnchangedRows DEF Quiet
    <2>3. CASE ~DeadLetter(w)
      <3>1. dlq' = dlq
        BY <1>3, <2>3 DEF ConsumerStep, Fetch, Claim, SkipDuplicate, Requeue,
                          CommitOffset
      <3>2. QED
        BY <2>1, <3>1, UnchangedRows DEF Quiet
    <2>4. QED
      BY <2>2, <2>3
  <1>4. ASSUME NEW w \in Workers,
               HandlerFails(w) \/ SessionLost(w) \/ WorkerCrash(w)
        PROVE  Quiet
    <2>1. UNCHANGED <<outbox, serviceVars, dlq>>
      BY <1>4 DEF HandlerFails, WorkFails, SessionLost, LoseSession, WorkerCrash,
                  Crash, EndWork, serviceVars
    <2>2. QED
      BY <2>1, UnchangedRows DEF Quiet
  <1>5. ASSUME \/ \E t \in Topics : GroupFault(t)
               \/ UNCHANGED pipelineVars
        PROVE  Quiet
    <2>1. UNCHANGED <<outbox, serviceVars, dlq>>
      BY <1>5 DEF GroupFault, Rebalance, pipelineVars
    <2>2. QED
      BY <2>1, UnchangedRows DEF Quiet
  <1>6. QED
    BY <1>1, <1>2, <1>3, <1>4, <1>5
    DEF PipelineNext, GatewayStep, HandlerStep

(* What a handler that commits does, by topic. *)
LEMMA CommitKinds ==
    ASSUME PartsInv, NEW w \in Workers, Commits(w)
    PROVE  \/ /\ HandleIngested(w)
              /\ NewRow("extracted", DocIn(w), NoResult)
           \/ /\ WorkerTopic[w] = "extracted"
              /\ progress[w] = Batches[DocIn(w)]
              /\ view' = view
              /\ \E r \in Results : /\ SetJob(DocIn(w), "completed", r)
                                    /\ NewRow("enriched", DocIn(w), r)
           \/ HandleEnriched(w) /\ SameRows
  <1>0. /\ {"ingested", "extracted", "enriched"} \subseteq Topics
        /\ Results \subseteq Payloads /\ NoResult \in Payloads
        /\ OutboxTypeOK /\ DocIn(w) \in Docs
    BY PipelineAssumption, BusyHasMessage
    DEF PartsInv, OutboxInv, HeldInv, DocIn, Message, Commits
  <1>1. CASE HandleIngested(w)
    BY <1>0, <1>1, EnqueueIsNewRow DEF HandleIngested
  <1>2. CASE HandleExtracted(w)
    <2>1. PICK r \in Results : /\ SetJob(DocIn(w), "completed", r)
                               /\ Enqueue("enriched", DocIn(w), r)
      BY <1>2 DEF HandleExtracted
    <2>2. NewRow("enriched", DocIn(w), r)
      BY <1>0, <2>1, EnqueueIsNewRow
    <2>3. QED
      BY <1>2, <2>1, <2>2 DEF HandleExtracted
  <1>3. CASE HandleEnriched(w)
    BY <1>3, UnchangedRows DEF HandleEnriched
  <1>4. QED
    BY <1>1, <1>2, <1>3 DEF Commits, Handle

-----------------------------------------------------------------------------
(* What is announced is stored.

   The side effects of a handler are not part of its transaction, so what a
   commit announces rests on what the handler did since its claim, in the
   steps progress counts (SideEffectsDone), and on attempts before it having
   left the first batches of the document, and no others (PointsArePrefix). *)

StoreTyped ==
    /\ raws \subseteq Docs
    /\ texts \subseteq Docs
    /\ points \in [Docs -> SUBSET Nat]
    /\ jobs \in [Docs -> Job \cup {NoJob}]
    /\ view \in [Docs -> Payloads]

SavedHasBytes == \A d \in Docs : uploads[d] = "saved" => d \in raws

PointsArePrefix ==
    \A d \in Docs : \E k \in Nat : k <= Batches[d] /\ points[d] = 1 .. k

SideEffectsDone ==
    \A w \in Workers :
        /\ pc[w] \notin AtWork => progress[w] = 0
        /\ WorkerTopic[w] = "ingested" /\ progress[w] # 0 => DocIn(w) \in texts
        /\ WorkerTopic[w] = "extracted" => 1 .. progress[w] \subseteq points[DocIn(w)]

StoreInv ==
    /\ StoreTyped
    /\ progress \in [Workers -> Nat]
    /\ SavedHasBytes
    /\ PointsArePrefix
    /\ SideEffectsDone
    /\ AnnouncedIsStored

(* Storage and Qdrant only grow. *)
LEMMA StoresGrow ==
    ASSUME PartsInv, StoreInv, [PipelineNext]_pipelineVars
    PROVE  /\ raws \subseteq raws'
           /\ texts \subseteq texts'
           /\ \A d \in Docs : points[d] \subseteq points'[d]
  <1>1. CASE Quiet
    BY <1>1 DEF Quiet, serviceVars
  <1>2. ASSUME NEW d \in Docs, SaveUpload(d) \/ AbandonUpload(d) \/ CreateJob(d)
        PROVE  UNCHANGED <<texts, points>> /\ raws \subseteq raws'
    BY <1>2 DEF SaveUpload, AbandonUpload, CreateJob, GatewayFrame
  <1>3. ASSUME NEW w \in Workers, SaveText(w)
        PROVE  UNCHANGED <<raws, points>> /\ texts \subseteq texts'
    BY <1>3 DEF SaveText, SideEffect
  <1>4. ASSUME NEW w \in Workers, UpsertBatch(w)
        PROVE  /\ UNCHANGED <<raws, texts>>
               /\ \A d \in Docs : points[d] \subseteq points'[d]
    BY <1>4 DEF UpsertBatch, SideEffect, StoreInv, StoreTyped
  <1>5. ASSUME NEW w \in Workers, Commits(w) \/ MarkFailed(w)
        PROVE  UNCHANGED <<raws, texts, points>>
    BY <1>5 DEF Commits, MarkFailed
  <1>6. QED
    BY <1>1, <1>2, <1>3, <1>4, <1>5, StepKinds

(* A step of one worker, other than a side effect, leaves it without any. *)
LEMMA NoneDone ==
    ASSUME PartsInv, StoreInv, NEW w \in Workers,
           \/ ConsumerStep(w) \/ HandlerCommits(w) \/ HandlerCommitsUnacked(w)
           \/ HandlerFails(w) \/ MarkFailed(w) \/ WorkerCrash(w)
    PROVE  /\ progress' \in [Workers -> Nat]
           /\ progress'[w] = 0
           /\ \A v \in Workers \ {w} : /\ progress'[v] = progress[v]
                                       /\ pc'[v] = pc[v]
                                       /\ inflight'[v] = inflight[v]
  <1>0. /\ progress \in [Workers -> Nat] /\ DeliveryTypeOK
        /\ pc[w] \notin AtWork => progress[w] = 0
    BY DEF StoreInv, SideEffectsDone, PartsInv, HeldInv
  <1>1. \A v \in Workers \ {w} : pc'[v] = pc[v] /\ inflight'[v] = inflight[v]
    <2>1. CASE ConsumerStep(w)
      BY <1>0, <2>1 DEF ConsumerStep, Fetch, Claim, SkipDuplicate, Requeue,
                        DeadLetter, CommitOffset, Goto, DeliveryTypeOK
    <2>2. CASE ~ConsumerStep(w)
      BY <1>0, <2>2 DEF HandlerCommits, HandlerCommitsUnacked, HandlerFails,
           MarkFailed, WorkerCrash, WorkSucceeds, WorkSucceedsUnacked, WorkFails,
           OnDlqReturns, Crash, Goto, DeliveryTypeOK
    <2>3. QED
      BY <2>1, <2>2
  <1>2. CASE ConsumerStep(w)
    <2>1. progress' = progress /\ pc[w] \notin AtWork
      BY <1>2 DEF AtWork, ConsumerStep, Fetch, Claim, SkipDuplicate, Requeue,
                  DeadLetter, CommitOffset, Goto
    <2>2. QED
      BY <1>0, <1>1, <2>1
  <1>3. CASE MarkFailed(w)
    <2>1. progress' = progress /\ pc[w] \notin AtWork
      BY <1>3 DEF AtWork, MarkFailed, OnDlqReturns, Goto
    <2>2. QED
      BY <1>0, <1>1, <2>1
  <1>4. CASE EndWork(w)
    BY <1>0, <1>1, <1>4 DEF EndWork
  <1>5. QED
    BY <1>2, <1>3, <1>4
    DEF HandlerCommits, HandlerCommitsUnacked, HandlerFails, WorkerCrash

LEMMA NextSideEffectsDone ==
    ASSUME PartsInv, StoreInv, [PipelineNext]_pipelineVars
    PROVE  progress' \in [Workers -> Nat] /\ SideEffectsDone'
  <1>0. /\ progress \in [Workers -> Nat]
        /\ points \in [Docs -> SUBSET Nat]
        /\ SideEffectsDone
        /\ DeliveryTypeOK
        /\ 1 .. 0 = {}
    BY DEF StoreInv, StoreTyped, PartsInv, HeldInv
  <1>1. /\ texts \subseteq texts'
        /\ \A d \in Docs : points[d] \subseteq points'[d]
    BY StoresGrow
  <1>2. ASSUME NEW v \in Workers,
               progress'[v] = progress[v],
               pc'[v] = pc[v] \/ pc'[v] \in AtWork,
               inflight'[v] = inflight[v]
        PROVE  /\ pc'[v] \notin AtWork => progress'[v] = 0
               /\ WorkerTopic[v] = "ingested" /\ progress'[v] # 0
                      => inflight'[v].doc \in texts'
               /\ WorkerTopic[v] = "extracted"
                      => 1 .. progress'[v] \subseteq points'[inflight'[v].doc]
    <2>1. CASE progress[v] = 0
      BY <1>0, <1>2, <2>1
    <2>2. CASE progress[v] # 0
      <3>1. inflight[v].doc \in Docs
        BY <1>0, <2>2, BusyHasMessage DEF SideEffectsDone, AtWork, Message
      <3>2. QED
        BY <1>0, <1>1, <1>2, <3>1 DEF SideEffectsDone, DocIn
    <2>3. QED
      BY <2>1, <2>2
  <1>3. CASE UNCHANGED <<pc, inflight, progress>>
    BY <1>0, <1>2, <1>3 DEF SideEffectsDone, DocIn
  <1>4. ASSUME NEW w \in Workers,
               \/ ConsumerStep(w) \/ HandlerCommits(w) \/ HandlerCommitsUnacked(w)
               \/ HandlerFails(w) \/ MarkFailed(w) \/ WorkerCrash(w)
        PROVE  progress' \in [Workers -> Nat] /\ SideEffectsDone'
    <2>1. /\ progress' \in [Workers -> Nat]
          /\ progress'[w] = 0
          /\ \A v \in Workers \ {w} : /\ progress'[v] = progress[v]
                                      /\ pc'[v] = pc[v]
                                      /\ inflight'[v] = inflight[v]
      BY <1>4, NoneDone
    <2>2. QED
      BY <1>0, <1>2, <2>1 DEF SideEffectsDone, DocIn
  <1>5. ASSUME NEW w \in Workers, SaveText(w) \/ UpsertBatch(w)
        PROVE  progress' \in [Workers -> Nat] /\ SideEffectsDone'
    <2>1. /\ pc[w] \in AtWork /\ UNCHANGED <<pc, inflight>>
          /\ progress' = [progress EXCEPT ![w] = @ + 1]
      BY <1>5 DEF SaveText, UpsertBatch, SideEffect, workerVars
    <2>2. /\ progress' \in [Workers -> Nat]
          /\ progress'[w] = progress[w] + 1
          /\ \A v \in Workers \ {w} : progress'[v] = progress[v]
      BY <1>0, <2>1
    <2>3. DocIn(w) \in Docs
      BY <1>0, <2>1, BusyHasMessage DEF DocIn, AtWork, Message
    <2>4. WorkerTopic[w] = "ingested" => DocIn(w) \in texts'
      BY <1>5 DEF SaveText, UpsertBatch, SideEffect
    <2>5. ASSUME WorkerTopic[w] = "extracted"
          PROVE  1 .. progress[w] + 1 \subseteq points'[DocIn(w)]
      <3>1. points' = [points EXCEPT ![DocIn(w)] = @ \cup {progress[w] + 1}]
        BY <1>5, <2>5 DEF SaveText, UpsertBatch, SideEffect
      <3>2. points'[DocIn(w)] = points[DocIn(w)] \cup {progress[w] + 1}
        BY <1>0, <2>3, <3>1
      <3>3. 1 .. progress[w] \subseteq points[DocIn(w)]
        BY <1>0, <2>5 DEF SideEffectsDone
      <3>4. 1 .. progress[w] + 1 = 1 .. progress[w] \cup {progress[w] + 1}
        BY <1>0
      <3>5. QED
        BY <3>2, <3>3, <3>4
    <2>6. QED
      BY <1>2, <2>1, <2>2, <2>4, <2>5 DEF SideEffectsDone, DocIn
  <1>6. ASSUME NEW w \in Workers, SessionLost(w)
        PROVE  progress' \in [Workers -> Nat] /\ SideEffectsDone'
    <2>1. /\ UNCHANGED <<inflight, progress>>
          /\ \A v \in Workers : pc'[v] = pc[v] \/ pc'[v] \in AtWork
      BY <1>0, <1>6 DEF SessionLost, LoseSession, Goto, AtWork, DeliveryTypeOK
    <2>2. QED
      BY <1>0, <1>2, <2>1 DEF SideEffectsDone, DocIn
  <1>7. UNCHANGED <<pc, inflight, progress>>
           \/ \E w \in Workers :
                 \/ SaveText(w) \/ UpsertBatch(w)
                 \/ ConsumerStep(w) \/ HandlerCommits(w)
                 \/ HandlerCommitsUnacked(w)
                 \/ HandlerFails(w) \/ MarkFailed(w)
                 \/ SessionLost(w) \/ WorkerCrash(w)
    BY DEF PipelineNext, GatewayStep, SaveUpload, CreateJob, AbandonUpload,
           GatewayFrame, PublisherStep, PublisherFault, GroupFault, Rebalance,
           HandlerStep, workerVars, pipelineVars
  <1>8. QED
    BY <1>3, <1>4, <1>5, <1>6, <1>7

LEMMA NextPointsArePrefix ==
    ASSUME PartsInv, StoreInv, [PipelineNext]_pipelineVars
    PROVE  points' \in [Docs -> SUBSET Nat] /\ PointsArePrefix'
  <1>0. /\ points \in [Docs -> SUBSET Nat]
        /\ PointsArePrefix
        /\ progress \in [Workers -> Nat]
        /\ SideEffectsDone
    BY DEF StoreInv, StoreTyped
  <1>1. CASE points' = points
    BY <1>0, <1>1 DEF PointsArePrefix
  <1>2. ASSUME NEW w \in Workers, UpsertBatch(w)
        PROVE  points' \in [Docs -> SUBSET Nat] /\ PointsArePrefix'
    <2> DEFINE d == DocIn(w)
               n == progress[w]
    <2>1. /\ WorkerTopic[w] = "extracted" /\ pc[w] \in AtWork
          /\ n < Batches[d]
          /\ points' = [points EXCEPT ![d] = @ \cup {n + 1}]
      BY <1>2 DEF UpsertBatch, SideEffect
    <2>2. d \in Docs /\ n \in Nat /\ Batches[d] \in Nat
      BY <1>0, <2>1, BusyHasMessage, PipelineAssumption
      DEF DocIn, AtWork, Message, PartsInv, HeldInv
    <2>3. 1 .. n \subseteq points[d]
      BY <1>0, <2>1 DEF SideEffectsDone
    <2> HIDE DEF d, n
    <2>4. /\ points' \in [Docs -> SUBSET Nat]
          /\ points'[d] = points[d] \cup {n + 1}
          /\ \A e \in Docs \ {d} : points'[e] = points[e]
      BY <1>0, <2>1, <2>2
    <2>5. PICK k \in Nat : k <= Batches[d] /\ points[d] = 1 .. k
      BY <1>0, <2>2 DEF PointsArePrefix
    <2>6. n <= k
      BY <2>2, <2>3, <2>5
    <2>7. \E j \in Nat : j <= Batches[d] /\ points'[d] = 1 .. j
      <3>1. CASE n = k
        <4>1. points'[d] = 1 .. k + 1
          BY <2>4, <2>5, <3>1
        <4>2. k + 1 \in Nat /\ k + 1 <= Batches[d]
          BY <2>1, <2>2, <3>1
        <4>3. QED
          BY <4>1, <4>2
      <3>2. CASE n # k
        <4>1. n + 1 \in 1 .. k
          BY <2>2, <2>6, <3>2
        <4>2. points'[d] = 1 .. k
          BY <2>4, <2>5, <4>1
        <4>3. QED
          BY <2>5, <4>2
      <3>3. QED
        BY <3>1, <3>2
    <2>8. QED
      BY <1>0, <2>4, <2>7 DEF PointsArePrefix
  <1>3. points' = points \/ \E w \in Workers : UpsertBatch(w)
    BY StepKinds DEF Quiet, serviceVars, SaveUpload, AbandonUpload, CreateJob,
       GatewayFrame, SaveText, Commits, MarkFailed
  <1>4. QED
    BY <1>1, <1>2, <1>3

LEMMA PayloadTyped ==
    ASSUME OutboxTypeOK, NEW i \in RowIds
    PROVE  outbox[i].payload \in Payloads
  <1>1. i \in 1 .. Len(outbox) /\ outbox \in Seq(Row)
    BY DEF OutboxTypeOK, RowIds
  <1>2. outbox[i] \in Row
    BY <1>1
  <1>3. QED
    BY <1>2 DEF Row

(* A job is not taken back. *)
LEMMA JobUpdate ==
    ASSUME jobs \in [Docs -> Job \cup {NoJob}],
           NEW d \in Docs, jobs[d] # NoJob,
           NEW job \in Job, jobs' = [jobs EXCEPT ![d] = job]
    PROVE  /\ jobs' \in [Docs -> Job \cup {NoJob}]
           /\ jobs'[d] = job
           /\ \A e \in Docs \ {d} : jobs'[e] = jobs[e]
           /\ \A e \in Docs : jobs[e] # NoJob => jobs'[e] # NoJob
  BY PipelineAssumption

LEMMA SetJobUpdates ==
    ASSUME jobs \in [Docs -> Job \cup {NoJob}],
           NEW d \in Docs, jobs[d] # NoJob,
           NEW status \in JobStatus, NEW result \in Payloads,
           SetJob(d, status, result)
    PROVE  /\ jobs' \in [Docs -> Job \cup {NoJob}]
           /\ jobs'[d].status = status
           /\ jobs'[d].result = result
           /\ jobs'[d].error = jobs[d].error
           /\ \A e \in Docs \ {d} : jobs'[e] = jobs[e]
           /\ \A e \in Docs : jobs[e] # NoJob => jobs'[e] # NoJob
  <1> DEFINE job == [jobs[d] EXCEPT !.status = status, !.result = result]
  <1>1. jobs[d] \in Job
    OBVIOUS
  <1>2. /\ job \in Job
        /\ job.status = status /\ job.result = result
        /\ job.error = jobs[d].error
    BY <1>1 DEF Job
  <1>3. jobs' = [jobs EXCEPT ![d] = job]
    BY <1>1 DEF SetJob
  <1> HIDE DEF job
  <1>4. QED
    BY <1>2, <1>3, JobUpdate

LEMMA MarkFailedUpdates ==
    ASSUME jobs \in [Docs -> Job \cup {NoJob}],
           NEW w \in Workers, DocIn(w) \in Docs, jobs[DocIn(w)] # NoJob,
           MarkFailed(w), jobs' # jobs
    PROVE  /\ jobs' \in [Docs -> Job \cup {NoJob}]
           /\ jobs'[DocIn(w)].status = "failed"
           /\ jobs'[DocIn(w)].result = jobs[DocIn(w)].result
           /\ \A e \in Docs \ {DocIn(w)} : jobs'[e] = jobs[e]
           /\ \A e \in Docs : jobs[e] # NoJob => jobs'[e] # NoJob
  <1> DEFINE d == DocIn(w)
             job == [jobs[d] EXCEPT !.status = "failed", !.error = TRUE]
  <1>1. jobs[d] \in Job
    OBVIOUS
  <1>2. /\ job \in Job
        /\ job.status = "failed"
        /\ job.result = jobs[d].result
    BY <1>1 DEF Job, JobStatus
  <1>3. jobs' = [jobs EXCEPT ![d] = job]
    BY <1>1 DEF MarkFailed
  <1> HIDE DEF job, d
  <1>4. /\ jobs' \in [Docs -> Job \cup {NoJob}]
        /\ jobs'[d] = job
        /\ \A e \in Docs \ {d} : jobs'[e] = jobs[e]
        /\ \A e \in Docs : jobs[e] # NoJob => jobs'[e] # NoJob
    BY <1>2, <1>3, JobUpdate DEF d
  <1>5. QED
    BY <1>2, <1>4 DEF d

(* The document in a worker's hands has a job. *)
LEMMA HeldHasJob ==
    ASSUME PartsInv, StoreInv, NEW w \in Workers, pc[w] # "idle"
    PROVE  DocIn(w) \in Docs /\ jobs[DocIn(w)] # NoJob /\ jobs[DocIn(w)] \in Job
  <1>1. /\ inflight[w].id \in RowIds
        /\ outbox[inflight[w].id].doc = DocIn(w)
        /\ DocIn(w) \in Docs
    BY HeldHasRow
  <1>2. jobs[DocIn(w)] # NoJob
    BY <1>1 DEF StoreInv, AnnouncedIsStored
  <1>3. QED
    BY <1>1, <1>2 DEF StoreInv, StoreTyped

(* What the commit of a handler does to jobs and read model. *)
LEMMA CommitUpdates ==
    ASSUME PartsInv, StoreInv, NEW w \in Workers, Commits(w)
    PROVE  /\ jobs' \in [Docs -> Job \cup {NoJob}]
           /\ \A d \in Docs : jobs[d] # NoJob => jobs'[d] # NoJob
           /\ \A d \in Docs \ {DocIn(w)} : jobs'[d] = jobs[d]
           /\ view' \in [Docs -> Payloads]
  <1>0. /\ DocIn(w) \in Docs /\ jobs[DocIn(w)] # NoJob /\ jobs[DocIn(w)] \in Job
        /\ jobs \in [Docs -> Job \cup {NoJob}] /\ view \in [Docs -> Payloads]
        /\ Results \subseteq Payloads
        /\ jobs[DocIn(w)].result \in Payloads
    BY HeldHasJob, PipelineAssumption DEF Commits, StoreInv, StoreTyped, Job
  <1>1. CASE HandleIngested(w)
    <2>1. SetJob(DocIn(w), "extracted", jobs[DocIn(w)].result) /\ view' = view
      BY <1>1 DEF HandleIngested
    <2>2. QED
      BY <1>0, <2>1, SetJobUpdates DEF JobStatus
  <1>2. CASE view' = view /\ \E r \in Results : SetJob(DocIn(w), "completed", r)
    BY <1>0, <1>2, SetJobUpdates DEF JobStatus
  <1>3. CASE HandleEnriched(w)
    <2>1. inflight[w].id \in RowIds
      BY HeldHasRow DEF Commits
    <2>2. outbox[inflight[w].id].payload \in Payloads
      BY <2>1, PayloadTyped DEF PartsInv, OutboxInv
    <2>3. QED
      BY <1>0, <1>3, <2>2 DEF HandleEnriched
  <1>4. QED
    BY <1>1, <1>2, <1>3, CommitKinds

(* A step that stages nothing and forgets nothing. *)
LEMMA StillStored ==
    ASSUME PartsInv, StoreInv, SameRows,
           raws \subseteq raws', texts \subseteq texts',
           \A d \in Docs : points[d] \subseteq points'[d],
           PointsArePrefix',
           \A d \in Docs : jobs[d] # NoJob => jobs'[d] # NoJob
    PROVE  AnnouncedIsStored'
  <1> SUFFICES ASSUME NEW i \in RowIds
               PROVE  LET d == outbox[i].doc IN
                      /\ jobs'[d] # NoJob
                      /\ outbox[i].topic = "ingested" => d \in raws'
                      /\ outbox[i].topic = "extracted" => d \in texts'
                      /\ outbox[i].topic = "enriched" => points'[d] = 1 .. Batches[d]
    BY DEF SameRows, AnnouncedIsStored
  <1> DEFINE d == outbox[i].doc
  <1>1. d \in Docs
    BY RowTyped DEF PartsInv, OutboxInv
  <1>2. /\ jobs[d] # NoJob
        /\ outbox[i].topic = "ingested" => d \in raws
        /\ outbox[i].topic = "extracted" => d \in texts
        /\ outbox[i].topic = "enriched" => points[d] = 1 .. Batches[d]
    BY DEF StoreInv, AnnouncedIsStored
  <1> HIDE DEF d
  <1>3. ASSUME points[d] = 1 .. Batches[d]
        PROVE  points'[d] = 1 .. Batches[d]
    <2>1. PICK k \in Nat : k <= Batches[d] /\ points'[d] = 1 .. k
      BY <1>1 DEF PointsArePrefix
    <2>2. Batches[d] \in Nat
      BY <1>1, PipelineAssumption
    <2>3. 1 .. Batches[d] \subseteq 1 .. k
      BY <1>1, <1>3, <2>1
    <2>4. k = Batches[d]
      BY <2>1, <2>2, <2>3
    <2>5. QED
      BY <2>1, <2>4
  <1>4. QED
    BY <1>1, <1>2, <1>3 DEF d

(* A step that stages an event whose store is there. *)
LEMMA NewIsStored ==
    ASSUME PartsInv, StoreInv,
           NEW t \in Topics, NEW d \in Docs, NEW p \in Payloads,
           NewRow(t, d, p),
           UNCHANGED <<raws, texts, points>>,
           \A e \in Docs : jobs[e] # NoJob => jobs'[e] # NoJob,
           jobs'[d] # NoJob,
           t = "ingested" => d \in raws,
           t = "extracted" => d \in texts,
           t = "enriched" => points[d] = 1 .. Batches[d]
    PROVE  AnnouncedIsStored'
  <1>1. PICK n \in Nat :
            /\ RowIds' = RowIds \cup {n}
            /\ \A i \in RowIds : outbox'[i] = outbox[i]
            /\ outbox'[n].topic = t /\ outbox'[n].doc = d
    BY DEF NewRow
  <1>2. ASSUME NEW i \in RowIds
        PROVE  LET e == outbox'[i].doc IN
               /\ jobs'[e] # NoJob
               /\ outbox'[i].topic = "ingested" => e \in raws'
               /\ outbox'[i].topic = "extracted" => e \in texts'
               /\ outbox'[i].topic = "enriched" => points'[e] = 1 .. Batches[e]
    <2>1. outbox[i].doc \in Docs /\ outbox'[i] = outbox[i]
      BY <1>1, RowTyped DEF PartsInv, OutboxInv
    <2>2. QED
      BY <2>1 DEF StoreInv, AnnouncedIsStored
  <1>3. LET e == outbox'[n].doc IN
        /\ jobs'[e] # NoJob
        /\ outbox'[n].topic = "ingested" => e \in raws'
        /\ outbox'[n].topic = "extracted" => e \in texts'
        /\ outbox'[n].topic = "enriched" => points'[e] = 1 .. Batches[e]
    BY <1>1
  <1>4. QED
    BY <1>1, <1>2, <1>3 DEF AnnouncedIsStored

LEMMA CommitIsStored ==
    ASSUME PartsInv, StoreInv, StagesInv, NEW w \in Workers, Commits(w),
           PointsArePrefix'
    PROVE  AnnouncedIsStored'
  <1>0. /\ \A d \in Docs : jobs[d] # NoJob => jobs'[d] # NoJob
        /\ DocIn(w) \in Docs /\ jobs'[DocIn(w)] # NoJob
        /\ UNCHANGED <<raws, texts, points>>
        /\ {"extracted", "enriched"} \subseteq Topics
        /\ NoResult \in Payloads /\ Results \subseteq Payloads
    BY HeldHasJob, CommitUpdates, PipelineAssumption DEF Commits
  <1>1. CASE HandleIngested(w) /\ NewRow("extracted", DocIn(w), NoResult)
    <2>1. DocIn(w) \in texts
      BY <1>1 DEF HandleIngested, StoreInv, SideEffectsDone
    <2>2. QED
      BY <1>0, <1>1, <2>1, NewIsStored
  <1>2. CASE /\ WorkerTopic[w] = "extracted"
             /\ progress[w] = Batches[DocIn(w)]
             /\ \E r \in Results : NewRow("enriched", DocIn(w), r)
    <2> DEFINE d == DocIn(w)
    <2>1. 1 .. Batches[d] \subseteq points[d]
      BY <1>2 DEF StoreInv, SideEffectsDone
    <2>2. PICK k \in Nat : k <= Batches[d] /\ points[d] = 1 .. k
      BY <1>0 DEF StoreInv, PointsArePrefix
    <2>3. Batches[d] \in Nat
      BY <1>0, PipelineAssumption
    <2> HIDE DEF d
    <2>4. k = Batches[d]
      BY <2>1, <2>2, <2>3
    <2>5. points[DocIn(w)] = 1 .. Batches[DocIn(w)]
      BY <2>2, <2>4 DEF d
    <2>6. QED
      BY <1>0, <1>2, <2>5, NewIsStored
  <1>3. CASE SameRows
    BY <1>0, <1>3, StillStored
  <1>4. QED
    BY <1>1, <1>2, <1>3, CommitKinds

LEMMA NextStoreInv ==
    ASSUME PartsInv, StagesInv, StoreInv, [PipelineNext]_pipelineVars
    PROVE  StoreInv'
  <1>0. /\ points' \in [Docs -> SUBSET Nat] /\ PointsArePrefix'
        /\ progress' \in [Workers -> Nat] /\ SideEffectsDone'
        /\ raws \subseteq raws' /\ texts \subseteq texts'
        /\ \A d \in Docs : points[d] \subseteq points'[d]
        /\ StoreTyped /\ SavedHasBytes
        /\ uploads \in [Docs -> UploadStates]
    BY NextPointsArePrefix, NextSideEffectsDone, StoresGrow
    DEF StoreInv, StagesInv
  <1> DEFINE Rest == /\ raws' \subseteq Docs
                     /\ texts' \subseteq Docs
                     /\ jobs' \in [Docs -> Job \cup {NoJob}]
                     /\ view' \in [Docs -> Payloads]
                     /\ SavedHasBytes'
                     /\ AnnouncedIsStored'
  <1>1. ASSUME Quiet
        PROVE  Rest
    <2>1. SameRows /\ UNCHANGED <<raws, texts, jobs, view, uploads>>
      BY <1>1 DEF Quiet, serviceVars
    <2>2. AnnouncedIsStored'
      BY <1>0, <2>1, StillStored
    <2>3. QED
      BY <1>0, <2>1, <2>2 DEF StoreInv, StoreTyped, SavedHasBytes
  <1>2. ASSUME NEW d \in Docs, SaveUpload(d) \/ AbandonUpload(d)
        PROVE  Rest
    <2>1. /\ UNCHANGED <<texts, jobs, view, outbox>>
          /\ \/ uploads' = [uploads EXCEPT ![d] = "saved"] /\ raws' = raws \cup {d}
             \/ uploads' = [uploads EXCEPT ![d] = "failed"] /\ raws' = raws
      BY <1>2 DEF SaveUpload, AbandonUpload, GatewayFrame
    <2>2. AnnouncedIsStored'
      BY <1>0, <2>1, UnchangedRows, StillStored
    <2>3. SavedHasBytes' /\ raws' \subseteq Docs
      BY <1>0, <2>1 DEF SavedHasBytes, StoreTyped
    <2>4. QED
      BY <1>0, <2>1, <2>2, <2>3 DEF StoreTyped
  <1>3. ASSUME NEW d \in Docs, CreateJob(d)
        PROVE  Rest
    <2> DEFINE job == [status |-> "pending", error |-> FALSE, result |-> NoResult]
    <2>1. /\ Enqueue("ingested", d, NoResult)
          /\ uploads[d] = "saved"
          /\ \E u \in {"accepted", "failed"} : uploads' = [uploads EXCEPT ![d] = u]
          /\ jobs' = [jobs EXCEPT ![d] = job]
          /\ UNCHANGED <<raws, texts, points, view>>
      BY <1>3 DEF CreateJob, GatewayFrame
    <2>2. job \in Job /\ "ingested" \in Topics /\ NoResult \in Payloads
      BY PipelineAssumption DEF Job, JobStatus
    <2>3. /\ jobs' \in [Docs -> Job \cup {NoJob}]
          /\ jobs'[d] # NoJob
          /\ \A e \in Docs : jobs[e] # NoJob => jobs'[e] # NoJob
      BY <1>0, <2>1, <2>2, PipelineAssumption DEF StoreTyped
    <2>4. NewRow("ingested", d, NoResult)
      BY <2>1, <2>2, EnqueueIsNewRow DEF PartsInv, OutboxInv
    <2>5. d \in raws
      BY <1>0, <2>1 DEF SavedHasBytes
    <2>6. AnnouncedIsStored'
      BY <2>1, <2>2, <2>3, <2>4, <2>5, NewIsStored
    <2>7. SavedHasBytes'
      BY <1>0, <2>1 DEF SavedHasBytes
    <2>8. QED
      BY <1>0, <2>1, <2>3, <2>6, <2>7 DEF StoreTyped
  <1>4. ASSUME NEW w \in Workers, SaveText(w) \/ UpsertBatch(w)
        PROVE  Rest
    <2>1. UNCHANGED <<raws, jobs, view, uploads, outbox>>
      BY <1>4 DEF SaveText, UpsertBatch, SideEffect
    <2>2. texts' \subseteq Docs
      <3>1. pc[w] \in AtWork
        BY <1>4 DEF SaveText, UpsertBatch, SideEffect
      <3>2. DocIn(w) \in Docs
        BY <3>1, HeldHasJob DEF AtWork
      <3>3. QED
        BY <1>0, <1>4, <3>2 DEF SaveText, UpsertBatch, StoreTyped
    <2>3. AnnouncedIsStored'
      BY <1>0, <2>1, UnchangedRows, StillStored
    <2>4. QED
      BY <1>0, <2>1, <2>2, <2>3 DEF StoreTyped, SavedHasBytes
  <1>5. ASSUME NEW w \in Workers, Commits(w)
        PROVE  Rest
    <2>1. UNCHANGED <<raws, texts, uploads>>
      BY <1>5 DEF Commits
    <2>2. AnnouncedIsStored'
      BY <1>0, <1>5, CommitIsStored
    <2>3. jobs' \in [Docs -> Job \cup {NoJob}] /\ view' \in [Docs -> Payloads]
      BY <1>5, CommitUpdates
    <2>4. QED
      BY <1>0, <2>1, <2>2, <2>3 DEF StoreTyped, SavedHasBytes
  <1>6. ASSUME NEW w \in Workers, MarkFailed(w)
        PROVE  Rest
    <2>1. UNCHANGED <<raws, texts, uploads, view, outbox>> /\ pc[w] # "idle"
      BY <1>6 DEF MarkFailed, OnDlqReturns, Goto
    <2>2. /\ jobs' \in [Docs -> Job \cup {NoJob}]
          /\ \A d \in Docs : jobs[d] # NoJob => jobs'[d] # NoJob
      BY <1>0, <1>6, <2>1, HeldHasJob, MarkFailedUpdates DEF StoreTyped
    <2>3. AnnouncedIsStored'
      BY <1>0, <2>1, <2>2, UnchangedRows, StillStored
    <2>4. QED
      BY <1>0, <2>1, <2>2, <2>3 DEF StoreTyped, SavedHasBytes
  <1>7. Rest
    BY <1>1, <1>2, <1>3, <1>4, <1>5, <1>6, StepKinds
  <1> HIDE DEF Rest
  <1>8. QED
    BY <1>0, <1>7 DEF Rest, StoreInv, StoreTyped

-----------------------------------------------------------------------------
(* Write model, events and read model.

   All is said of one document at a time: a step changes the job, the rows
   and the read model of one document, in one transaction. *)
JobAgrees(d) ==
    /\ jobs[d] # NoJob =>
          /\ jobs[d].status = "pending" => Rows("extracted", d) = {}
          /\ jobs[d].status = "extracted" =>
                Rows("extracted", d) # {} /\ Rows("enriched", d) = {}
          /\ jobs[d].status = "completed" => Rows("enriched", d) # {}
          /\ jobs[d].result # NoResult <=> Rows("enriched", d) # {}
          /\ jobs[d].status = "failed" \/ jobs[d].error => Parked(d)
    /\ \A i \in Rows("enriched", d) :
          outbox[i].payload = jobs[d].result /\ outbox[i].payload \in Results
    /\ view[d] # NoResult =>
          view[d] = jobs[d].result /\ Rows("enriched", d) # {}

JobsInv == \A d \in Docs : JobAgrees(d)

LEMMA SameRowsOfDoc ==
    ASSUME SameRows, NEW d \in Docs
    PROVE  /\ \A t \in Topics : Rows(t, d)' = Rows(t, d)
           /\ \A t \in Topics : \A i \in Rows(t, d) :
                 outbox'[i].payload = outbox[i].payload
  BY DEF SameRows, Rows

LEMMA NewRowOfDoc ==
    ASSUME NEW t \in Topics, NEW d \in Docs, NEW p \in Payloads, NewRow(t, d, p)
    PROVE  /\ \A u \in Topics, e \in Docs :
                 /\ <<u, e>> # <<t, d>> => Rows(u, e)' = Rows(u, e)
                 /\ \A i \in Rows(u, e) : outbox'[i].payload = outbox[i].payload
           /\ \E n \in Nat : /\ Rows(t, d)' = Rows(t, d) \cup {n}
                             /\ n \notin RowIds
                             /\ outbox'[n].payload = p
  <1>1. PICK n \in Nat :
            /\ RowIds' = RowIds \cup {n} /\ n \notin RowIds
            /\ \A i \in RowIds : outbox'[i] = outbox[i]
            /\ outbox'[n].topic = t /\ outbox'[n].doc = d /\ outbox'[n].payload = p
    BY DEF NewRow
  <1>2. ASSUME NEW u \in Topics, NEW e \in Docs
        PROVE  /\ <<u, e>> # <<t, d>> => Rows(u, e)' = Rows(u, e)
               /\ \A i \in Rows(u, e) : outbox'[i].payload = outbox[i].payload
    BY <1>1 DEF Rows
  <1>3. Rows(t, d)' = Rows(t, d) \cup {n}
    BY <1>1 DEF Rows
  <1>4. QED
    BY <1>1, <1>2, <1>3

(* A document that is not touched, but perhaps parked, and only as far as its
   job was set to failed. *)
LEMMA StillAgrees ==
    ASSUME NEW d \in Docs, JobAgrees(d),
           jobs'[d] = jobs[d], view'[d] = view[d],
           \A t \in Topics : Rows(t, d)' = Rows(t, d),
           \A i \in Rows("enriched", d) : outbox'[i].payload = outbox[i].payload,
           \A t \in Topics : dlq[t] \subseteq dlq'[t]
    PROVE  JobAgrees(d)'
  <1>1. Parked(d) => Parked(d)'
    BY DEF Parked
  <1>2. {"extracted", "enriched"} \subseteq Topics
    BY PipelineAssumption
  <1>3. Rows("extracted", d)' = Rows("extracted", d)
        /\ Rows("enriched", d)' = Rows("enriched", d)
    BY <1>2
  <1>4. QED
    BY <1>1, <1>3 DEF JobAgrees

(* The event after the one in a handler's hands is not staged yet, nor the
   one after that. *)
LEMMA NoneAfter ==
    ASSUME StagesInv, NEW d \in Docs
    PROVE  /\ Rows("ingested", d) = {} => Rows("extracted", d) = {}
           /\ Rows("extracted", d) = {} => Rows("enriched", d) = {}
  <1>1. \A i \in RowIds : outbox[i].topic # "ingested" =>
            \E j \in RowIds : /\ outbox[j].topic = StageBefore(outbox[i].topic)
                              /\ outbox[j].doc = outbox[i].doc
    BY DEF StagesInv, StagedByClaim, ClaimedRows
  <1>2. QED
    BY <1>1 DEF Rows, StageBefore

LEMMA IngestedAgrees ==
    ASSUME PartsInv, StagesInv, StoreInv, JobsInv,
           NEW w \in Workers, Commits(w),
           HandleIngested(w), NewRow("extracted", DocIn(w), NoResult)
    PROVE  JobsInv'
  <1>a. PICK d \in Docs : d = DocIn(w)
    BY HeldHasJob DEF Commits
  <1>0. /\ jobs[d] # NoJob /\ jobs[d] \in Job
        /\ jobs \in [Docs -> Job \cup {NoJob}]
        /\ {"extracted", "enriched"} \subseteq Topics /\ NoResult \in Payloads
        /\ view' = view /\ dlq' = dlq
    BY <1>a, HeldHasJob, PipelineAssumption
    DEF Commits, HandleIngested, StoreInv, StoreTyped
  <1>1. /\ jobs'[d].status = "extracted"
        /\ jobs'[d].result = jobs[d].result
        /\ jobs'[d].error = jobs[d].error
        /\ \A e \in Docs \ {d} : jobs'[e] = jobs[e]
        /\ jobs'[d] # NoJob
    <2>1. SetJob(d, "extracted", jobs[d].result) /\ jobs[d].result \in Payloads
      BY <1>a, <1>0 DEF HandleIngested, Job
    <2>2. "extracted" \in JobStatus
      BY DEF JobStatus
    <2>3. QED
      BY <1>0, <2>1, <2>2, SetJobUpdates
  <1>2. Rows("extracted", d) = {} /\ Rows("enriched", d) = {}
    BY <1>a, <1>0, NotStagedYet, NoneAfter DEF Commits, HandleIngested, StageBefore
  <1>3. /\ Rows("extracted", d)' # {}
        /\ Rows("enriched", d)' = {}
        /\ \A e \in Docs \ {d} : \A t \in Topics : Rows(t, e)' = Rows(t, e)
        /\ \A e \in Docs : \A i \in Rows("enriched", e) :
              outbox'[i].payload = outbox[i].payload
    BY <1>a, <1>0, <1>2, NewRowOfDoc
  <1>4. JobAgrees(d)'
    <2>1. JobAgrees(d) /\ view[d] = NoResult /\ Parked(d)' = Parked(d)
      BY <1>0, <1>2 DEF JobsInv, JobAgrees, Parked
    <2>2. jobs[d].result = NoResult /\ (jobs[d].error => Parked(d))
      BY <1>0, <1>2, <2>1 DEF JobAgrees
    <2>3. QED
      BY <1>0, <1>1, <1>3, <2>1, <2>2 DEF JobAgrees
  <1>5. \A e \in Docs \ {d} : JobAgrees(e)'
    BY <1>0, <1>1, <1>3, StillAgrees DEF JobsInv
  <1>6. QED
    BY <1>4, <1>5 DEF JobsInv

LEMMA ExtractedAgrees ==
    ASSUME PartsInv, StagesInv, StoreInv, JobsInv,
           NEW w \in Workers, Commits(w),
           WorkerTopic[w] = "extracted", view' = view,
           NEW r \in Results, SetJob(DocIn(w), "completed", r),
           NewRow("enriched", DocIn(w), r)
    PROVE  JobsInv'
  <1>a. PICK d \in Docs : d = DocIn(w)
    BY HeldHasJob DEF Commits
  <1>0. /\ jobs[d] # NoJob /\ jobs[d] \in Job
        /\ jobs \in [Docs -> Job \cup {NoJob}]
        /\ {"extracted", "enriched"} \subseteq Topics
        /\ r \in Payloads /\ r # NoResult
        /\ dlq' = dlq
    BY <1>a, HeldHasJob, PipelineAssumption DEF Commits, StoreInv, StoreTyped
  <1>1. /\ jobs'[d].status = "completed"
        /\ jobs'[d].result = r
        /\ jobs'[d].error = jobs[d].error
        /\ \A e \in Docs \ {d} : jobs'[e] = jobs[e]
    <2>1. "completed" \in JobStatus
      BY DEF JobStatus
    <2>2. SetJob(d, "completed", r)
      BY <1>a
    <2>3. QED
      BY <1>0, <2>1, <2>2, SetJobUpdates
  <1>2. Rows("enriched", d) = {}
    BY <1>a, <1>0, NotStagedYet DEF Commits, StageBefore
  <1>3. /\ \E n \in Nat : /\ Rows("enriched", d)' = {n}
                          /\ outbox'[n].payload = r
        /\ \A e \in Docs \ {d} : \A t \in Topics : Rows(t, e)' = Rows(t, e)
        /\ \A e \in Docs : \A i \in Rows("enriched", e) :
              outbox'[i].payload = outbox[i].payload
    BY <1>a, <1>0, <1>2, NewRowOfDoc
  <1>4. JobAgrees(d)'
    <2>1. JobAgrees(d) /\ view[d] = NoResult /\ Parked(d)' = Parked(d)
      BY <1>0, <1>2 DEF JobsInv, JobAgrees, Parked
    <2>2. jobs[d].error => Parked(d)
      BY <1>0, <2>1 DEF JobAgrees
    <2>3. QED
      BY <1>0, <1>1, <1>3, <2>1, <2>2 DEF JobAgrees
  <1>5. \A e \in Docs \ {d} : JobAgrees(e)'
    BY <1>0, <1>1, <1>3, StillAgrees DEF JobsInv
  <1>6. QED
    BY <1>4, <1>5 DEF JobsInv

LEMMA EnrichedAgrees ==
    ASSUME PartsInv, StoreInv, JobsInv,
           NEW w \in Workers, Commits(w), HandleEnriched(w), SameRows
    PROVE  JobsInv'
  <1>a. PICK d \in Docs, i \in RowIds : d = DocIn(w) /\ i = inflight[w].id
    BY HeldHasRow DEF Commits
  <1>0. /\ i \in Rows("enriched", d)
        /\ view \in [Docs -> Payloads]
        /\ view' = [view EXCEPT ![d] = outbox[i].payload]
        /\ jobs' = jobs /\ dlq' = dlq
        /\ "enriched" \in Topics
    BY <1>a, HeldHasRow, PipelineAssumption
    DEF Commits, HandleEnriched, StoreInv, StoreTyped, Rows
  <1>1. outbox[i].payload = jobs[d].result
    BY <1>0 DEF JobsInv, JobAgrees
  <1>2. \A e \in Docs : /\ \A t \in Topics : Rows(t, e)' = Rows(t, e)
                        /\ \A j \in Rows("enriched", e) :
                              outbox'[j].payload = outbox[j].payload
    BY <1>0, SameRowsOfDoc
  <1>3. view'[d] = jobs[d].result /\ \A e \in Docs \ {d} : view'[e] = view[e]
    BY <1>0, <1>1
  <1>4. JobAgrees(d)'
    <2>1. Parked(d)' = Parked(d) /\ JobAgrees(d)
      BY <1>0 DEF Parked, JobsInv
    <2>2. Rows("extracted", d)' = Rows("extracted", d)
          /\ Rows("enriched", d)' = Rows("enriched", d)
      BY <1>0, <1>2, PipelineAssumption
    <2>3. QED
      BY <1>0, <1>2, <1>3, <2>1, <2>2 DEF JobAgrees
  <1>5. \A e \in Docs \ {d} : JobAgrees(e)'
    BY <1>0, <1>2, <1>3, StillAgrees DEF JobsInv
  <1>6. QED
    BY <1>4, <1>5 DEF JobsInv

LEMMA CreatedAgrees ==
    ASSUME PartsInv, StagesInv, StoreInv, JobsInv, NEW d \in Docs, CreateJob(d)
    PROVE  JobsInv'
  <1> DEFINE job == [status |-> "pending", error |-> FALSE, result |-> NoResult]
  <1>0. /\ uploads[d] = "saved"
        /\ jobs' = [jobs EXCEPT ![d] = job]
        /\ view' = view /\ dlq' = dlq
        /\ Topics = {"ingested", "extracted", "enriched"} /\ NoResult \in Payloads
        /\ jobs \in [Docs -> Job \cup {NoJob}]
    BY PipelineAssumption
    DEF CreateJob, GatewayFrame, StoreInv, StoreTyped, workerVars
  <1>1. NewRow("ingested", d, NoResult)
    BY <1>0, EnqueueIsNewRow DEF CreateJob, PartsInv, OutboxInv
  <1>2. \A t \in Topics : Rows(t, d) = {}
    BY <1>0 DEF StagesInv, StagedIsAccepted, Rows
  <1>3. /\ Rows("extracted", d)' = {} /\ Rows("enriched", d)' = {}
        /\ \A e \in Docs \ {d} : \A t \in Topics : Rows(t, e)' = Rows(t, e)
        /\ \A e \in Docs : \A i \in Rows("enriched", e) :
              outbox'[i].payload = outbox[i].payload
    BY <1>0, <1>1, <1>2, NewRowOfDoc
  <1>4. jobs'[d] = job /\ \A e \in Docs \ {d} : jobs'[e] = jobs[e]
    BY <1>0
  <1>5. JobAgrees(d)'
    <2>1. view'[d] = NoResult
      BY <1>0, <1>2 DEF JobsInv, JobAgrees
    <2>2. QED
      BY <1>3, <1>4, <2>1 DEF JobAgrees
  <1>6. \A e \in Docs \ {d} : JobAgrees(e)'
    BY <1>0, <1>3, <1>4, StillAgrees DEF JobsInv
  <1>7. QED
    BY <1>5, <1>6 DEF JobsInv

(* The document of a parked record is parked. *)
LEMMA DlqHasRows ==
    ASSUME PartsInv, NEW t \in Topics, NEW m \in dlq[t]
    PROVE  outbox[m.id].doc = m.doc
  <1> DEFINE s == StreamOf(t, m)
  <1>1. m \in Message
    BY DEF PartsInv, HeldInv, DeliveryTypeOK
  <1>2. s \in Streams
    BY <1>1, BrokerAssumption DEF StreamOf, Streams, Message
  <1>3. PICK i \in 1 .. Len(log[s]) : log[s][i] = m
    BY DEF PartsInv, HeldInv, TriesCounted
  <1> HIDE DEF s
  <1>4. QED
    BY <1>2, <1>3 DEF PartsInv, OutboxInv, BusHasRows

(* on_dlq runs when the event of its document is in the dead-letter queue. *)
LEMMA DeadDocIsParked ==
    ASSUME PartsInv, NEW w \in Workers, pc[w] = "dead"
    PROVE  Parked(DocIn(w))
  <1>1. WorkerTopic[w] \in Topics
    BY WorkerAssumption
  <1>2. PICK m \in dlq[WorkerTopic[w]] : m.id = inflight[w].id
    BY DEF PartsInv, DeliveryInv, DeadIsParked
  <1>3. outbox[m.id].doc = m.doc
    BY <1>1, <1>2, DlqHasRows
  <1>4. outbox[inflight[w].id].doc = DocIn(w)
    BY HeldHasRow
  <1>5. QED
    BY <1>1, <1>2, <1>3, <1>4 DEF Parked

LEMMA FailedAgrees ==
    ASSUME PartsInv, StoreInv, JobsInv, NEW w \in Workers, MarkFailed(w)
    PROVE  JobsInv'
  <1>0. /\ pc[w] = "dead" /\ view' = view /\ dlq' = dlq /\ outbox' = outbox
        /\ jobs \in [Docs -> Job \cup {NoJob}]
        /\ Topics = {"ingested", "extracted", "enriched"}
    BY PipelineAssumption
    DEF MarkFailed, OnDlqReturns, Goto, StoreInv, StoreTyped
  <1>1. PICK d \in Docs : d = DocIn(w) /\ jobs[d] # NoJob /\ Parked(d)
    BY <1>0, HeldHasJob, DeadDocIsParked
  <1>2. \A e \in Docs : /\ \A t \in Topics : Rows(t, e)' = Rows(t, e)
                        /\ Parked(e)' = Parked(e)
    BY <1>0 DEF Rows, RowIds, Parked
  <1>3. CASE jobs' = jobs
    BY <1>0, <1>2, <1>3, StillAgrees DEF JobsInv
  <1>4. CASE jobs' # jobs
    <2>1. /\ jobs'[d].status = "failed"
          /\ jobs'[d].result = jobs[d].result
          /\ \A e \in Docs \ {d} : jobs'[e] = jobs[e]
      BY <1>0, <1>1, <1>4, MarkFailedUpdates
    <2>2. JobAgrees(d)'
      <3>1. Rows("extracted", d)' = Rows("extracted", d)
            /\ Rows("enriched", d)' = Rows("enriched", d) /\ Parked(d)'
        BY <1>0, <1>1, <1>2
      <3>2. JobAgrees(d)
        BY <1>1 DEF JobsInv
      <3>3. QED
        BY <1>0, <1>1, <2>1, <3>1, <3>2 DEF JobAgrees
    <2>3. \A e \in Docs \ {d} : JobAgrees(e)'
      BY <1>0, <1>2, <2>1, StillAgrees DEF JobsInv
    <2>4. QED
      BY <2>2, <2>3 DEF JobsInv
  <1>5. QED
    BY <1>3, <1>4

LEMMA NextJobsInv ==
    ASSUME PartsInv, StagesInv, StoreInv, JobsInv, [PipelineNext]_pipelineVars
    PROVE  JobsInv'
  <1>1. ASSUME SameRows, UNCHANGED <<jobs, view>>,
               \A t \in Topics : dlq[t] \subseteq dlq'[t]
        PROVE  JobsInv'
    <2>1. "enriched" \in Topics
      BY PipelineAssumption
    <2>2. \A e \in Docs : /\ \A t \in Topics : Rows(t, e)' = Rows(t, e)
                          /\ \A i \in Rows("enriched", e) :
                                outbox'[i].payload = outbox[i].payload
      BY <1>1, <2>1, SameRowsOfDoc
    <2>3. QED
      BY <1>1, <2>2, StillAgrees DEF JobsInv
  <1>2. CASE Quiet
    BY <1>1, <1>2 DEF Quiet, serviceVars
  <1>3. ASSUME NEW d \in Docs, SaveUpload(d) \/ AbandonUpload(d)
        PROVE  JobsInv'
    <2>1. UNCHANGED <<outbox, jobs, view, dlq>>
      BY <1>3 DEF SaveUpload, AbandonUpload, GatewayFrame, workerVars
    <2>2. QED
      BY <1>1, <2>1, UnchangedRows
  <1>4. ASSUME NEW w \in Workers, SaveText(w) \/ UpsertBatch(w)
        PROVE  JobsInv'
    <2>1. UNCHANGED <<outbox, jobs, view, dlq>>
      BY <1>4 DEF SaveText, UpsertBatch, SideEffect, workerVars
    <2>2. QED
      BY <1>1, <2>1, UnchangedRows
  <1>5. ASSUME NEW w \in Workers, Commits(w)
        PROVE  JobsInv'
    BY <1>5, CommitKinds, IngestedAgrees, ExtractedAgrees, EnrichedAgrees
  <1>6. QED
    BY <1>2, <1>3, <1>4, <1>5, CreatedAgrees, FailedAgrees, StepKinds

(* The invariant, and what follows. *)
PipelineInv ==
    /\ PartsInv
    /\ StagesInv
    /\ StoreInv
    /\ JobsInv

LEMMA PipelineInitInv == PipelineInit => PipelineInv
  <1> SUFFICES ASSUME PipelineInit PROVE PipelineInv
    OBVIOUS
  <1>1. PartsInv /\ StagesInv
    BY PipelineInitParts, PipelineInitStages
  <1>2. RowIds = {} /\ 1 .. 0 = {}
    BY DEF PipelineInit, OutboxInit, RowIds
  <1>3. StoreTyped
    BY PipelineAssumption DEF PipelineInit, StoreTyped
  <1>4. SavedHasBytes /\ SideEffectsDone /\ AnnouncedIsStored
        /\ progress \in [Workers -> Nat]
    BY <1>2 DEF PipelineInit, SavedHasBytes, SideEffectsDone, AnnouncedIsStored
  <1>5. PointsArePrefix
    <2>1. \A d \in Docs : 0 <= Batches[d] /\ points[d] = 1 .. 0
      BY <1>2, PipelineAssumption DEF PipelineInit
    <2>2. QED
      BY <2>1 DEF PointsArePrefix
  <1>6. JobsInv
    <2>1. \A d \in Docs, t \in Topics : Rows(t, d) = {}
      BY <1>2 DEF Rows
    <2>2. \A d \in Docs : jobs[d] = NoJob /\ view[d] = NoResult
      BY DEF PipelineInit
    <2>3. QED
      BY <2>1, <2>2, PipelineAssumption DEF JobsInv, JobAgrees
  <1>7. QED
    BY <1>1, <1>3, <1>4, <1>5, <1>6 DEF PipelineInv, StoreInv

LEMMA PipelineNextInv ==
    ASSUME PipelineInv, [PipelineNext]_pipelineVars
    PROVE  PipelineInv'
  BY PipelineNextParts, NextStagesInv, NextStoreInv, NextJobsInv DEF PipelineInv

LEMMA PipelineInvariant == PipelineSpec => []PipelineInv
  BY PipelineInitInv, PipelineNextInv, PTL DEF PipelineSpec

(* Types of the whole composition. *)
THEOREM PipelineTypeCorrect == PipelineSpec => []PipelineTypeOK
  <1>1. PipelineInv => PipelineTypeOK
    BY DEF PipelineInv, PartsInv, HeldInv, OutboxInv, StagesInv, StoreInv,
           StoreTyped, PipelineTypeOK
  <1>2. QED
    BY <1>1, PipelineInvariant, PTL

(* Text and vectors are not part of the transactions that announce them, and
   are there nevertheless when an event or a status says so (handle_ingested,
   handle_extracted). *)
THEOREM PipelineStoresFirst == PipelineSpec => []AnnouncedIsStored
  <1>1. PipelineInv => AnnouncedIsStored
    BY DEF PipelineInv, StoreInv
  <1>2. QED
    BY <1>1, PipelineInvariant, PTL

(* The status of a job is that of the last event its document has staged,
   unless it is FAILED (handle_ingested, handle_extracted). *)
THEOREM PipelineStatusMatches == PipelineSpec => []StatusMatchesEvents
  <1>1. PipelineInv => StatusMatchesEvents
    BY DEF PipelineInv, JobsInv, JobAgrees, StatusMatchesEvents
  <1>2. QED
    BY <1>1, PipelineInvariant, PTL

(* The read model shows what the write model has, although the LLM answers
   anew on every attempt and the projector sees events only
   (handle_enriched). *)
THEOREM PipelineReadModelAgrees == PipelineSpec => []ReadModelAgrees
  <1>1. PipelineInv => ReadModelAgrees
    BY DEF PipelineInv, JobsInv, JobAgrees, ReadModelAgrees
  <1>2. QED
    BY <1>1, PipelineInvariant, PTL

(* FAILED is said of documents an operator finds in a dead-letter queue
   (_mark_failed). *)
THEOREM PipelineFailedIsParked == PipelineSpec => []FailedIsParked
  <1>1. PipelineInv => FailedIsParked
    BY DEF PipelineInv, JobsInv, JobAgrees, FailedIsParked
  <1>2. QED
    BY <1>1, PipelineInvariant, PTL

-----------------------------------------------------------------------------
(* Nothing is stranded, and what was shown stays.

   A claim is in the table only with what its handler did (ClaimedTookEffect):
   an event that no claim settles is the last of its document, or the
   document has the event after it. *)

ClaimsHaveRows ==
    \A c \in claims : c[2] \in RowIds /\ outbox[c[2]].topic = c[1]

TookEffect(i) ==
    /\ outbox[i].topic = "ingested" => Rows("extracted", outbox[i].doc) # {}
    /\ outbox[i].topic = "extracted" => Rows("enriched", outbox[i].doc) # {}
    /\ outbox[i].topic = "enriched" => view[outbox[i].doc] # NoResult

ClaimedTookEffect == \A i \in ClaimedRows : TookEffect(i)

JobHasEvent == \A d \in Docs : jobs[d] # NoJob => Rows("ingested", d) # {}

EffectsInv ==
    /\ ClaimsHaveRows
    /\ ClaimedTookEffect
    /\ JobHasEvent

(* Rows stay, and so does what is told of a document by having them. *)
LEMMA RowsStay ==
    ASSUME PartsInv, [PipelineNext]_pipelineVars
    PROVE  /\ RowIds \subseteq RowIds'
           /\ \A i \in RowIds : /\ outbox'[i].topic = outbox[i].topic
                                /\ outbox'[i].doc = outbox[i].doc
           /\ \A t \in Topics, d \in Docs : Rows(t, d) \subseteq Rows(t, d)'
  <1>1. RowsKept /\ Len(outbox) \in Nat /\ Len(outbox') \in Nat
    <2>1. OutboxTypeOK /\ OutboxTypeOK' /\ [OutboxNext]_outboxVars
      BY PipelineNextParts DEF PartsInv, OutboxInv
    <2>2. QED
      BY <2>1, NextRowsKept DEF OutboxTypeOK
  <1>2. /\ RowIds \subseteq RowIds'
        /\ \A i \in RowIds : /\ outbox'[i].topic = outbox[i].topic
                             /\ outbox'[i].doc = outbox[i].doc
    BY <1>1 DEF RowsKept, RowIds
  <1>3. QED
    BY <1>2 DEF Rows

(* A claim gets into the table with the transaction of its handler. *)
LEMMA ClaimStep ==
    ASSUME [PipelineNext]_pipelineVars
    PROVE  \/ claims' = claims
           \/ \E w \in Workers : /\ Commits(w)
                                 /\ claims' = claims \cup {EventOf(w)}
  <1> USE DEF workerVars
  <1>1. ASSUME NEW d \in Docs, GatewayStep(d) \/ AbandonUpload(d)
        PROVE  claims' = claims
    BY <1>1 DEF GatewayStep, SaveUpload, CreateJob, AbandonUpload, GatewayFrame
  <1>2. ASSUME NEW r \in Relays, PublisherStep(r) \/ PublisherFault(r)
        PROVE  claims' = claims
    BY <1>2 DEF PublisherStep, PublisherFault
  <1>3. ASSUME NEW w \in Workers, HandlerCommits(w) \/ HandlerCommitsUnacked(w)
        PROVE  Commits(w) /\ claims' = claims \cup {EventOf(w)}
    BY <1>3 DEF HandlerCommits, HandlerCommitsUnacked, WorkSucceeds,
                WorkSucceedsUnacked, Goto, EndWork, Commits
  <1>4. ASSUME NEW w \in Workers, HandlerStep(w), ~HandlerCommits(w)
        PROVE  claims' = claims
    <2>1. CASE ConsumerStep(w)
      BY <2>1 DEF ConsumerStep, Fetch, Claim, SkipDuplicate, Requeue,
                  DeadLetter, CommitOffset
    <2>2. CASE ~ConsumerStep(w)
      BY <1>4, <2>2 DEF HandlerStep, SaveText, UpsertBatch, SideEffect,
                        HandlerFails, WorkFails, MarkFailed, OnDlqReturns
    <2>3. QED
      BY <2>1, <2>2
  <1>5. ASSUME NEW w \in Workers, SessionLost(w) \/ WorkerCrash(w)
        PROVE  claims' = claims
    BY <1>5 DEF SessionLost, LoseSession, WorkerCrash, Crash
  <1>6. ASSUME \/ \E t \in Topics : GroupFault(t)
               \/ UNCHANGED pipelineVars
        PROVE  claims' = claims
    BY <1>6 DEF GroupFault, Rebalance, pipelineVars
  <1>7. QED
    BY <1>1, <1>2, <1>3, <1>4, <1>5, <1>6 DEF PipelineNext

(* The projector writes the one result there is: a second time it is the same
   result. *)
LEMMA EnrichedShowsResult ==
    ASSUME PipelineInv, NEW w \in Workers, Commits(w), HandleEnriched(w)
    PROVE  \E d \in Docs : /\ d = DocIn(w)
                           /\ jobs[d].result # NoResult
                           /\ view' = [view EXCEPT ![d] = jobs[d].result]
                           /\ view \in [Docs -> Payloads]
  <1>1. PICK d \in Docs, i \in RowIds : d = DocIn(w) /\ i = inflight[w].id
    BY HeldHasRow DEF PipelineInv, Commits
  <1>2. /\ i \in Rows("enriched", d)
        /\ view' = [view EXCEPT ![d] = outbox[i].payload]
        /\ view \in [Docs -> Payloads]
    BY <1>1, HeldHasRow
    DEF Commits, HandleEnriched, PipelineInv, StoreInv, StoreTyped, Rows
  <1>3. outbox[i].payload = jobs[d].result /\ jobs[d].result # NoResult
    BY <1>2, PipelineAssumption DEF PipelineInv, JobsInv, JobAgrees
  <1>4. QED
    BY <1>1, <1>2, <1>3

LEMMA ViewStays ==
    ASSUME PipelineInv, [PipelineNext]_pipelineVars, NEW d \in Docs
    PROVE  view[d] # NoResult => view'[d] = view[d]
  <1>1. ASSUME NEW w \in Workers, Commits(w), view[d] # NoResult
        PROVE  view'[d] = view[d]
    <2>1. CASE HandleEnriched(w)
      <3>1. view[d] = jobs[d].result
        BY <1>1 DEF PipelineInv, JobsInv, JobAgrees
      <3>2. QED
        BY <1>1, <2>1, <3>1, EnrichedShowsResult
    <2>2. CASE view' = view
      BY <2>2
    <2>3. QED
      BY <1>1, <2>1, <2>2, CommitKinds DEF PipelineInv, HandleIngested
  <1>2. view' = view \/ \E w \in Workers : Commits(w)
    BY StepKinds DEF PipelineInv, Quiet, serviceVars, SaveUpload, AbandonUpload,
       CreateJob, GatewayFrame, SaveText, UpsertBatch, SideEffect, MarkFailed
  <1>3. QED
    BY <1>1, <1>2

(* A job stays, and its result with it. *)
LEMMA JobStays ==
    ASSUME PipelineInv, JobHasEvent, [PipelineNext]_pipelineVars,
           NEW d \in Docs, jobs[d] # NoJob
    PROVE  /\ jobs'[d] # NoJob
           /\ jobs[d].result # NoResult => jobs'[d].result = jobs[d].result
  <1>0. /\ PartsInv /\ StagesInv /\ StoreInv /\ JobAgrees(d)
        /\ jobs \in [Docs -> Job \cup {NoJob}]
        /\ {"ingested", "extracted", "enriched"} \subseteq Topics
    BY PipelineAssumption DEF PipelineInv, StoreInv, StoreTyped, JobsInv
  <1>1. CASE jobs'[d] = jobs[d]
    BY <1>1
  <1>2. ASSUME NEW e \in Docs, CreateJob(e)
        PROVE  jobs'[d] = jobs[d]
    <2>1. Rows("ingested", e) = {}
      BY <1>0, <1>2 DEF CreateJob, StagesInv, StagedIsAccepted, Rows
    <2>2. d # e
      BY <2>1 DEF JobHasEvent
    <2>3. QED
      BY <1>0, <1>2, <2>2 DEF CreateJob
  <1>3. ASSUME NEW w \in Workers, Commits(w), DocIn(w) = d
        PROVE  /\ jobs'[d] # NoJob
               /\ jobs[d].result # NoResult => jobs'[d].result = jobs[d].result
    <2>1. jobs'[d] # NoJob
      BY <1>0, <1>3, CommitUpdates
    <2>2. CASE HandleIngested(w)
      <3>1. /\ SetJob(d, "extracted", jobs[d].result)
            /\ jobs[d].result \in Payloads /\ "extracted" \in JobStatus
        BY <1>0, <1>3, <2>2 DEF HandleIngested, Job, JobStatus
      <3>2. jobs'[d].result = jobs[d].result
        BY <1>0, <3>1, SetJobUpdates
      <3>3. QED
        BY <2>1, <3>2
    <2>3. CASE WorkerTopic[w] = "extracted"
      <3>1. Rows("enriched", d) = {}
        BY <1>0, <1>3, <2>3, NotStagedYet DEF Commits, StageBefore
      <3>2. QED
        BY <1>0, <2>1, <3>1 DEF JobAgrees
    <2>4. CASE HandleEnriched(w)
      BY <1>1, <2>4 DEF HandleEnriched
    <2>5. QED
      BY <1>0, <1>3, <2>2, <2>3, <2>4, CommitKinds
  <1>4. ASSUME NEW w \in Workers, Commits(w), DocIn(w) # d
        PROVE  jobs'[d] = jobs[d]
    BY <1>0, <1>4, CommitUpdates
  <1>5. ASSUME NEW w \in Workers, MarkFailed(w), jobs' # jobs
        PROVE  /\ jobs'[d] # NoJob
               /\ jobs'[d].result = jobs[d].result
    <2>1. pc[w] # "idle"
      BY <1>5 DEF MarkFailed, OnDlqReturns, Goto
    <2>2. DocIn(w) \in Docs /\ jobs[DocIn(w)] # NoJob
      BY <1>0, <2>1, HeldHasJob
    <2>3. /\ jobs'[DocIn(w)].result = jobs[DocIn(w)].result
          /\ \A e \in Docs \ {DocIn(w)} : jobs'[e] = jobs[e]
          /\ \A e \in Docs : jobs[e] # NoJob => jobs'[e] # NoJob
      BY <1>0, <1>5, <2>2, MarkFailedUpdates
    <2>4. QED
      BY <2>3
  <1>6. \/ jobs' = jobs
        \/ \E e \in Docs : CreateJob(e)
        \/ \E w \in Workers : Commits(w) \/ MarkFailed(w)
    BY <1>0, StepKinds DEF Quiet, serviceVars, SaveUpload, AbandonUpload,
       SaveText, UpsertBatch, SideEffect
  <1>7. QED
    BY <1>1, <1>2, <1>3, <1>4, <1>5, <1>6

LEMMA NextClaimsHaveRows ==
    ASSUME PartsInv, ClaimsHaveRows, [PipelineNext]_pipelineVars
    PROVE  ClaimsHaveRows'
  <1>1. ASSUME NEW c \in claims
        PROVE  c[2] \in RowIds' /\ outbox'[c[2]].topic = c[1]
    BY RowsStay DEF ClaimsHaveRows
  <1>2. ASSUME NEW w \in Workers, Commits(w)
        PROVE  /\ EventOf(w)[2] \in RowIds'
               /\ outbox'[EventOf(w)[2]].topic = EventOf(w)[1]
    BY <1>2, HeldHasRow, RowsStay DEF Commits, EventOf
  <1>3. QED
    BY <1>1, <1>2, ClaimStep DEF ClaimsHaveRows

(* What a handler that commits does is what its claim stands for. *)
LEMMA CommitTakesEffect ==
    ASSUME PipelineInv, [PipelineNext]_pipelineVars,
           NEW w \in Workers, Commits(w), NEW i \in RowIds, i = inflight[w].id
    PROVE  TookEffect(i)'
  <1>1. PICK d \in Docs : /\ d = DocIn(w) /\ outbox[i].doc = d
                         /\ outbox[i].topic = WorkerTopic[w]
    BY HeldHasRow DEF PipelineInv, Commits
  <1>2. outbox'[i].doc = d /\ outbox'[i].topic = WorkerTopic[w]
    BY <1>1, RowsStay DEF PipelineInv
  <1>3. {"ingested", "extracted", "enriched"} \subseteq Topics
        /\ NoResult \in Payloads /\ Results \subseteq Payloads
    BY PipelineAssumption
  <1> SUFFICES /\ WorkerTopic[w] = "ingested" => Rows("extracted", d)' # {}
               /\ WorkerTopic[w] = "extracted" => Rows("enriched", d)' # {}
               /\ WorkerTopic[w] = "enriched" => view'[d] # NoResult
    BY <1>1, <1>2 DEF TookEffect, Rows
  <1>4. CASE HandleIngested(w) /\ NewRow("extracted", DocIn(w), NoResult)
    BY <1>1, <1>3, <1>4, NewRowOfDoc DEF HandleIngested
  <1>5. CASE /\ WorkerTopic[w] = "extracted"
             /\ \E r \in Results : NewRow("enriched", DocIn(w), r)
    BY <1>1, <1>3, <1>5, NewRowOfDoc
  <1>6. CASE HandleEnriched(w)
    BY <1>1, <1>6, EnrichedShowsResult DEF HandleEnriched
  <1>7. QED
    BY <1>4, <1>5, <1>6, CommitKinds DEF PipelineInv

LEMMA NextClaimedTookEffect ==
    ASSUME PipelineInv, EffectsInv, [PipelineNext]_pipelineVars
    PROVE  ClaimedTookEffect'
  <1> SUFFICES ASSUME NEW i \in RowIds', <<outbox'[i].topic, i>> \in claims'
               PROVE  TookEffect(i)'
    BY DEF ClaimedTookEffect, ClaimedRows
  <1>1. CASE <<outbox'[i].topic, i>> \in claims
    <2>1. i \in RowIds /\ outbox[i].topic = outbox'[i].topic
      BY <1>1 DEF EffectsInv, ClaimsHaveRows
    <2>2. TookEffect(i)
      BY <1>1, <2>1 DEF EffectsInv, ClaimedTookEffect, ClaimedRows
    <2>3. outbox[i].doc \in Docs /\ outbox'[i].doc = outbox[i].doc
      BY <2>1, RowTyped, RowsStay DEF PipelineInv, PartsInv, OutboxInv
    <2>4. PICK d \in Docs : d = outbox[i].doc
      BY <2>3
    <2>5. /\ Rows("extracted", d) # {} => Rows("extracted", d)' # {}
          /\ Rows("enriched", d) # {} => Rows("enriched", d)' # {}
          /\ view[d] # NoResult => view'[d] # NoResult
      BY RowsStay, ViewStays, PipelineAssumption DEF PipelineInv
    <2>6. QED
      BY <2>1, <2>2, <2>3, <2>4, <2>5 DEF TookEffect, Rows
  <1>2. CASE <<outbox'[i].topic, i>> \notin claims
    <2>1. PICK w \in Workers : Commits(w) /\ <<outbox'[i].topic, i>> = EventOf(w)
      BY <1>2, ClaimStep
    <2>2. i = inflight[w].id /\ i \in RowIds
      BY <2>1, HeldHasRow DEF EventOf, Commits, PipelineInv
    <2>3. QED
      BY <2>1, <2>2, CommitTakesEffect
  <1>3. QED
    BY <1>1, <1>2

LEMMA NextJobHasEvent ==
    ASSUME PipelineInv, JobHasEvent, [PipelineNext]_pipelineVars
    PROVE  JobHasEvent'
  <1> SUFFICES ASSUME NEW d \in Docs, jobs'[d] # NoJob
               PROVE  Rows("ingested", d)' # {}
    BY DEF JobHasEvent
  <1>0. /\ PartsInv /\ StoreInv
        /\ jobs \in [Docs -> Job \cup {NoJob}]
        /\ "ingested" \in Topics /\ NoResult \in Payloads
    BY PipelineAssumption DEF PipelineInv, StoreInv, StoreTyped
  <1>1. CASE jobs[d] # NoJob
    BY <1>0, <1>1, RowsStay DEF JobHasEvent
  <1>2. CASE CreateJob(d)
    <2>1. NewRow("ingested", d, NoResult)
      BY <1>0, <1>2, EnqueueIsNewRow DEF CreateJob, PartsInv, OutboxInv
    <2>2. QED
      BY <1>0, <2>1, NewRowOfDoc
  <1>3. ASSUME jobs[d] = NoJob, ~CreateJob(d)
        PROVE  jobs'[d] = NoJob
    <2>1. ASSUME NEW e \in Docs, CreateJob(e)
          PROVE  jobs'[d] = jobs[d]
      BY <1>0, <1>3, <2>1 DEF CreateJob
    <2>2. ASSUME NEW w \in Workers, Commits(w)
          PROVE  jobs'[d] = jobs[d]
      BY <1>0, <1>3, <2>2, HeldHasJob, CommitUpdates DEF Commits
    <2>3. ASSUME NEW w \in Workers, MarkFailed(w), jobs' # jobs
          PROVE  jobs'[d] = jobs[d]
      <3>1. DocIn(w) \in Docs /\ jobs[DocIn(w)] # NoJob
        BY <1>0, <2>3, HeldHasJob DEF MarkFailed, OnDlqReturns, Goto
      <3>2. QED
        BY <1>0, <1>3, <2>3, <3>1, MarkFailedUpdates
    <2>4. \/ jobs' = jobs
          \/ \E e \in Docs : CreateJob(e)
          \/ \E w \in Workers : Commits(w) \/ MarkFailed(w)
      BY <1>0, StepKinds DEF Quiet, serviceVars, SaveUpload, AbandonUpload,
         SaveText, UpsertBatch, SideEffect
    <2>5. QED
      BY <1>3, <2>1, <2>2, <2>3, <2>4
  <1>4. QED
    BY <1>1, <1>2, <1>3

LEMMA PipelineEffects == PipelineSpec => []EffectsInv
  <1>1. PipelineInit => EffectsInv
    <2> SUFFICES ASSUME PipelineInit PROVE EffectsInv
      OBVIOUS
    <2>1. claims = {} /\ \A d \in Docs : jobs[d] = NoJob
      BY DEF PipelineInit, DeliveryInit
    <2>2. QED
      BY <2>1 DEF EffectsInv, ClaimsHaveRows, ClaimedTookEffect, ClaimedRows,
                  JobHasEvent
  <1>2. PipelineInv /\ EffectsInv /\ [PipelineNext]_pipelineVars => EffectsInv'
    BY NextClaimsHaveRows, NextClaimedTookEffect, NextJobHasEvent
    DEF PipelineInv, EffectsInv
  <1>3. QED
    BY <1>1, <1>2, PipelineInvariant, PTL DEF PipelineSpec

(* An event that is not settled is still to be consumed: the row waits for a
   relay, or its group has not committed past its last record. *)
LEMMA UnsettledIsPending ==
    ASSUME PartsInv, NEW i \in RowIds, ~Settled(outbox[i].topic, i)
    PROVE  Pending(i)
  <1>1. PICK s : s = StreamOf(outbox[i].topic, RecordOf(i))
    OBVIOUS
  <1>2. /\ s \in Streams /\ s[1] = outbox[i].topic
        /\ RecordOf(i).id = i
    BY <1>1, RowTyped, BrokerAssumption
    DEF PartsInv, OutboxInv, StreamOf, RecordOf, FirstAttempt, Streams
  <1>3. CASE ~outbox[i].published
    BY <1>3 DEF Pending
  <1>4. CASE outbox[i].published
    <2>1. PICK j \in 1 .. Len(log[s]) : log[s][j] = RecordOf(i)
      BY <1>1, <1>4 DEF PartsInv, OutboxInv, PublishedIsOnBus, PublicationsOf
    <2>2. CASE j > committed[s]
      BY <1>1, <1>2, <2>1, <2>2 DEF Pending
    <2>3. CASE ~(j > committed[s])
      <3>1. committed[s] \in Nat
        BY <1>2 DEF PartsInv, HeldInv, DeliveryTypeOK
      <3>2. j \in 1 .. committed[s]
        BY <2>1, <2>3, <3>1
      <3>3. Covered(s, i, committed[s])
        BY <1>2, <2>1, <3>2 DEF PartsInv, DeliveryInv, NoEventLost
      <3>4. QED
        BY <1>1, <1>2, <3>3 DEF Covered, Pending
    <2>4. QED
      BY <2>2, <2>3
  <1>5. QED
    BY <1>3, <1>4

LEMMA NoneStranded ==
    ASSUME PipelineInv, EffectsInv
    PROVE  NothingStranded
  <1> SUFFICES ASSUME NEW d \in Docs, jobs[d] # NoJob,
                      view[d] = NoResult, ~Parked(d)
               PROVE  \E i \in RowIds : outbox[i].doc = d /\ Pending(i)
    BY DEF NothingStranded
  <1>1. \A i \in RowIds : outbox[i].doc = d /\ i \in ClaimedRows => TookEffect(i)
    BY DEF EffectsInv, ClaimedTookEffect
  <1>2. PICK i \in RowIds : outbox[i].doc = d /\ i \notin ClaimedRows
    <2>1. CASE Rows("extracted", d) = {}
      <3>1. PICK i \in Rows("ingested", d) : TRUE
        BY DEF EffectsInv, JobHasEvent
      <3>2. QED
        BY <1>1, <2>1, <3>1 DEF Rows, TookEffect
    <2>2. CASE Rows("extracted", d) # {} /\ Rows("enriched", d) = {}
      BY <1>1, <2>2 DEF Rows, TookEffect
    <2>3. CASE Rows("enriched", d) # {}
      BY <1>1, <2>3 DEF Rows, TookEffect
    <2>4. QED
      BY <2>1, <2>2, <2>3
  <1>3. outbox[i].topic \in Topics
    BY RowTyped DEF PipelineInv, PartsInv, OutboxInv
  <1>4. ~Settled(outbox[i].topic, i)
    <2>1. <<outbox[i].topic, i>> \notin claims
      BY <1>2 DEF ClaimedRows
    <2>2. \A m \in dlq[outbox[i].topic] : m.id # i
      BY <1>2, <1>3, DlqHasRows DEF Parked, PipelineInv
    <2>3. QED
      BY <2>1, <2>2 DEF Settled
  <1>5. QED
    BY <1>2, <1>4, UnsettledIsPending DEF PipelineInv

(* A document that is neither shown nor parked has an event still to be
   consumed: no claim is spent without its effect, no row is marked without
   its record, no offset passes a record that does not come again
   (process_with_retry, mark_processed, drain_once). *)
THEOREM PipelineStrandsNothing == PipelineSpec => []NothingStranded
  <1>1. PipelineInv /\ EffectsInv => NothingStranded
    BY NoneStranded
  <1>2. QED
    BY <1>1, PipelineInvariant, PipelineEffects, PTL

(* A result is never withdrawn or replaced, by the LLM answering anew when an
   event is redelivered or by an attempt that fails after one that committed
   (handle_extracted, handle_enriched, _mark_failed). *)
THEOREM PipelineResultsAreFinal == PipelineSpec => ResultsAreFinal
  <1>1. PipelineInv /\ EffectsInv /\ [PipelineNext]_pipelineVars =>
            \A d \in Docs :
                /\ view[d] # NoResult => view'[d] = view[d]
                /\ jobs[d] # NoJob =>
                      /\ jobs'[d] # NoJob
                      /\ jobs[d].result # NoResult =>
                            jobs'[d].result = jobs[d].result
    BY ViewStays, JobStays DEF EffectsInv
  <1>2. QED
    BY <1>1, PipelineInvariant, PipelineEffects, PTL
    DEF PipelineSpec, ResultsAreFinal

-----------------------------------------------------------------------------
(* The pipeline implements the read side. *)
LEMMA UpToNumber ==
    ASSUME NEW j \in Nat
    PROVE  Cardinality(1 .. j) = j
  <1>1. CASE j = 0
    <2>1. 1 .. j = {}
      BY <1>1
    <2>2. QED
      BY <1>1, <2>1, FS_EmptySet
  <1>2. CASE j # 0
    <2>1. 1 \in Int /\ j \in Int /\ 1 <= j
      BY <1>2
    <2>2. Cardinality(1 .. j) = j - 1 + 1
      BY <2>1, FS_Interval
    <2>3. QED
      BY <2>2
  <1>3. QED
    BY <1>1, <1>2

(* An upsert goes on to the batch after those stored, or repeats one. *)
LEMMA UpsertIsStoreTo ==
    ASSUME PartsInv, StoreInv, NEW w \in Workers, UpsertBatch(w)
    PROVE  [Read!ReadSideNext]_(Read!readSideVars)
  <1>1. /\ WorkerTopic[w] = "extracted" /\ pc[w] \in AtWork
        /\ progress[w] < Batches[DocIn(w)]
        /\ points' = [points EXCEPT ![DocIn(w)] = @ \cup {progress[w] + 1}]
        /\ view' = view
    BY DEF UpsertBatch, SideEffect
  <1>2. PICK d \in Docs : d = DocIn(w)
    BY <1>1, HeldHasJob DEF AtWork
  <1>3. /\ points \in [Docs -> SUBSET Nat] /\ progress[w] \in Nat
        /\ Batches[d] \in Nat /\ 1 .. progress[w] \subseteq points[d]
    BY <1>1, <1>2, PipelineAssumption DEF StoreInv, StoreTyped, SideEffectsDone
  <1>4. PICK k \in Nat : k <= Batches[d] /\ points[d] = 1 .. k
    BY DEF StoreInv, PointsArePrefix
  <1>5. Cardinality(points[d]) = k
    BY <1>4, UpToNumber
  <1>6. \A e \in Docs \ {d} : points'[e] = points[e]
    BY <1>1, <1>2, <1>3
  <1>7. CASE progress[w] = k
    <2>1. points'[d] = 1 .. k + 1
      BY <1>1, <1>2, <1>3, <1>4, <1>7
    <2>2. Cardinality(points'[d]) = k + 1
      BY <1>4, <2>1, UpToNumber
    <2>3. k + 1 \in 1 .. Batches[d] /\ k + 1 \in k + 1 .. Batches[d]
      BY <1>1, <1>2, <1>3, <1>4, <1>7
    <2>4. Read!StoreTo(d, k + 1)
      <3>1. \A e \in Docs :
                Cardinality(points'[e]) =
                    IF e = d THEN k + 1 ELSE Cardinality(points[e])
        BY <1>6, <2>2
      <3>2. [e \in Docs |-> Cardinality(points'[e])] =
                [[e \in Docs |-> Cardinality(points[e])] EXCEPT ![d] = k + 1]
        BY <3>1, Zenon
      <3>3. {e \in Docs : view'[e] # NoResult} = {e \in Docs : view[e] # NoResult}
        BY <1>1
      <3>4. [e \in Docs |-> Cardinality(points[e])][d] = k
        BY <1>5
      <3>5. QED
        BY <2>3, <3>2, <3>3, <3>4 DEF Read!StoreTo
    <2>5. QED
      BY <2>3, <2>4 DEF Read!ReadSideNext
  <1>8. CASE progress[w] # k
    <2>1. progress[w] <= k
      BY <1>3, <1>4
    <2>2. progress[w] + 1 \in 1 .. k
      BY <1>3, <1>8, <2>1
    <2>3. points'[d] = points[d]
      BY <1>1, <1>2, <1>3, <1>4, <2>2
    <2>4. \A e \in Docs : Cardinality(points'[e]) = Cardinality(points[e])
      BY <1>6, <2>3
    <2>5. QED
      BY <1>1, <2>4 DEF Read!readSideVars
  <1>9. QED
    BY <1>7, <1>8

(* The projector shows a document with all its batches stored. *)
LEMMA EnrichedIsShow ==
    ASSUME PipelineInv, NEW w \in Workers, Commits(w), HandleEnriched(w)
    PROVE  [Read!ReadSideNext]_(Read!readSideVars)
  <1>1. PICK d \in Docs, i \in RowIds : d = DocIn(w) /\ i = inflight[w].id
    BY HeldHasRow DEF PipelineInv, Commits
  <1>2. /\ i \in Rows("enriched", d)
        /\ view' = [view EXCEPT ![d] = outbox[i].payload]
        /\ view \in [Docs -> Payloads]
        /\ points' = points
    BY <1>1, HeldHasRow
    DEF Commits, HandleEnriched, PipelineInv, StoreInv, StoreTyped, Rows
  <1>3. points[d] = 1 .. Batches[d] /\ Batches[d] \in Nat
    BY <1>2, PipelineAssumption
    DEF PipelineInv, StoreInv, AnnouncedIsStored, Rows
  <1>4. Cardinality(points[d]) = Batches[d]
    BY <1>3, UpToNumber
  <1>5. outbox[i].payload # NoResult
    BY <1>2, PipelineAssumption DEF PipelineInv, JobsInv, JobAgrees
  <1>6. {e \in Docs : view'[e] # NoResult} = {e \in Docs : view[e] # NoResult} \cup {d}
    BY <1>2, <1>5
  <1>7. Read!Show(d)
    BY <1>2, <1>4, <1>6 DEF Read!Show
  <1>8. QED
    BY <1>7 DEF Read!ReadSideNext

LEMMA ReadSideStep ==
    ASSUME PipelineInv, [PipelineNext]_pipelineVars
    PROVE  [Read!ReadSideNext]_(Read!readSideVars)
  <1>1. ASSUME UNCHANGED <<points, view>>
        PROVE  UNCHANGED Read!readSideVars
    BY <1>1 DEF Read!readSideVars
  <1>2. ASSUME NEW w \in Workers, Commits(w)
        PROVE  [Read!ReadSideNext]_(Read!readSideVars)
    <2>1. points' = points
      BY <1>2 DEF Commits
    <2>2. CASE HandleEnriched(w)
      BY <1>2, <2>2, EnrichedIsShow
    <2>3. CASE view' = view
      BY <1>1, <2>1, <2>3
    <2>4. QED
      BY <1>2, <2>2, <2>3, CommitKinds DEF PipelineInv, HandleIngested
  <1>3. UNCHANGED <<points, view>>
           \/ \E w \in Workers : UpsertBatch(w) \/ Commits(w)
    BY StepKinds DEF PipelineInv, Quiet, serviceVars, SaveUpload, AbandonUpload,
       CreateJob, GatewayFrame, SaveText, SideEffect, MarkFailed
  <1>4. QED
    BY <1>1, <1>2, <1>3, UpsertIsStoreTo DEF PipelineInv

(* To the query service the pipeline is the write side it relies on: batches
   of vectors come in and stay, and a document shows when all of them are in
   (upsert_chunks, handle_enriched). *)
THEOREM PipelineImplementsReadSide == PipelineSpec => ImplementsReadSide
  <1>1. PipelineInit => Read!ReadSideInit
    <2> SUFFICES ASSUME PipelineInit PROVE Read!ReadSideInit
      OBVIOUS
    <2>1. \A d \in Docs : points[d] = {} /\ view[d] = NoResult
      BY DEF PipelineInit
    <2>2. \A d \in Docs : Cardinality(points[d]) = 0
      BY <2>1, FS_EmptySet
    <2>3. QED
      BY <2>1, <2>2 DEF Read!ReadSideInit
  <1>2. PipelineInv /\ [PipelineNext]_pipelineVars
            => [Read!ReadSideNext]_(Read!readSideVars)
    BY ReadSideStep
  <1>3. QED
    BY <1>1, <1>2, PipelineInvariant, PTL
    DEF PipelineSpec, ImplementsReadSide, Read!ReadSideSpec

-----------------------------------------------------------------------------
(* The pipeline implements PipelineContract.

   A document has as many rows as stages that are through: each stage stages
   one (OneEventPerStage), after the stage before it (StagedByClaim). *)
Announced(d) == Cardinality(RowsOf(d))

Outcome(d) ==
    IF Rows("enriched", d) = {} THEN NoResult
    ELSE outbox[CHOOSE i \in Rows("enriched", d) : TRUE].payload

LEMMA OneOrNone ==
    ASSUME StagesInv, NEW t \in Topics, NEW d \in Docs, Rows(t, d) # {}
    PROVE  \E i \in RowIds : Rows(t, d) = {i}
  <1>1. PICK i \in Rows(t, d) : TRUE
    OBVIOUS
  <1>2. \A j \in Rows(t, d) : j = i
    BY <1>1 DEF StagesInv, OneEventPerStage, Rows
  <1>3. i \in RowIds /\ Rows(t, d) = {i}
    BY <1>1, <1>2 DEF Rows
  <1>4. QED
    BY <1>3

LEMMA RowsAreStages ==
    ASSUME PartsInv, StagesInv, NEW d \in Docs
    PROVE  /\ RowsOf(d) = Rows("ingested", d) \cup Rows("extracted", d)
                             \cup Rows("enriched", d)
           /\ IsFiniteSet(RowsOf(d))
           /\ Rows("ingested", d) = {} => Announced(d) = 0
           /\ Rows("ingested", d) # {} /\ Rows("extracted", d) = {}
                  => Announced(d) = 1
           /\ Rows("extracted", d) # {} /\ Rows("enriched", d) = {}
                  => Announced(d) = 2
           /\ Rows("enriched", d) # {} => Announced(d) = 3
  <1> DEFINE I == Rows("ingested", d)
             X == Rows("extracted", d)
             N == Rows("enriched", d)
  <1>0. Topics = {"ingested", "extracted", "enriched"}
    BY PipelineAssumption
  <1>1. RowsOf(d) = I \cup X \cup N
    BY <1>0, RowTyped DEF PartsInv, OutboxInv, RowsOf, Rows
  <1>2. /\ I = {} => X = {}
        /\ X = {} => N = {}
    BY NoneAfter
  <1>3. /\ I = {} \/ \E i \in RowIds : I = {i}
        /\ X = {} \/ \E i \in RowIds : X = {i}
        /\ N = {} \/ \E i \in RowIds : N = {i}
    BY <1>0, OneOrNone
  <1>4. I \cap X = {} /\ I \cap N = {} /\ X \cap N = {}
    BY DEF Rows
  <1> HIDE DEF I, X, N
  <1>5. CASE I = {}
    <2>1. RowsOf(d) = {} /\ X = {} /\ N = {}
      BY <1>1, <1>2, <1>5
    <2>2. IsFiniteSet(RowsOf(d)) /\ Cardinality(RowsOf(d)) = 0
      BY <2>1, FS_EmptySet
    <2>3. QED
      BY <1>1, <1>5, <2>1, <2>2 DEF Announced, I, X, N
  <1>6. CASE I # {}
    <2>1. PICK i \in RowIds : I = {i}
      BY <1>3, <1>6
    <2>2. IsFiniteSet(I) /\ Cardinality(I) = 1
      BY <2>1, FS_Singleton
    <2>3. CASE X = {}
      <3>1. RowsOf(d) = I /\ N = {}
        BY <1>1, <1>2, <2>3
      <3>2. QED
        BY <1>1, <1>6, <2>2, <2>3, <3>1 DEF Announced, I, X, N
    <2>4. CASE X # {}
      <3>1. PICK x \in RowIds : X = {x}
        BY <1>3, <2>4
      <3>2. x \notin I
        BY <1>4, <3>1
      <3>3. IsFiniteSet(I \cup {x}) /\ Cardinality(I \cup {x}) = 2
        BY <2>2, <3>2, FS_AddElement
      <3>4. CASE N = {}
        <4>1. RowsOf(d) = I \cup {x}
          BY <1>1, <3>1, <3>4
        <4>2. QED
          BY <1>1, <1>6, <2>4, <3>3, <3>4, <4>1 DEF Announced, I, X, N
      <3>5. CASE N # {}
        <4>1. PICK n \in RowIds : N = {n}
          BY <1>3, <3>5
        <4>2. n \notin I \cup {x}
          BY <1>4, <3>1, <4>1
        <4>3. IsFiniteSet((I \cup {x}) \cup {n})
              /\ Cardinality((I \cup {x}) \cup {n}) = 3
          BY <3>3, <4>2, FS_AddElement
        <4>4. RowsOf(d) = (I \cup {x}) \cup {n}
          BY <1>1, <3>1, <4>1
        <4>5. QED
          BY <1>1, <1>6, <2>4, <3>5, <4>3, <4>4 DEF Announced, I, X, N
      <3>6. QED
        BY <3>4, <3>5
    <2>5. QED
      BY <2>3, <2>4
  <1>7. QED
    BY <1>5, <1>6

LEMMA OutcomeIsResult ==
    ASSUME NEW d \in Docs, JobAgrees(d)
    PROVE  Rows("enriched", d) # {} =>
               Outcome(d) = jobs[d].result /\ Outcome(d) \in Results
  <1> SUFFICES ASSUME Rows("enriched", d) # {}
               PROVE  Outcome(d) = jobs[d].result /\ Outcome(d) \in Results
    OBVIOUS
  <1> DEFINE i == CHOOSE i \in Rows("enriched", d) : TRUE
  <1>1. i \in Rows("enriched", d)
    OBVIOUS
  <1>2. Outcome(d) = outbox[i].payload
    BY DEF Outcome
  <1> HIDE DEF i
  <1>3. QED
    BY <1>1, <1>2 DEF JobAgrees

(* A document a step leaves alone. *)
LEMMA SameForContract ==
    ASSUME SameRows, NEW d \in Docs
    PROVE  Announced(d)' = Announced(d) /\ Outcome(d)' = Outcome(d)
  <1>1. RowsOf(d)' = RowsOf(d) /\ Rows("enriched", d)' = Rows("enriched", d)
    BY DEF SameRows, RowsOf, Rows
  <1>2. \A i \in Rows("enriched", d) : outbox'[i].payload = outbox[i].payload
    BY DEF SameRows, Rows
  <1>3. QED
    BY <1>1, <1>2 DEF Announced, Outcome

(* A step that stages an event announces it. *)
LEMMA NewForContract ==
    ASSUME PartsInv, StagesInv,
           NEW t \in Topics, NEW d \in Docs, NEW p \in Payloads, NewRow(t, d, p)
    PROVE  /\ Announced(d)' = Announced(d) + 1
           /\ \A e \in Docs \ {d} : /\ Announced(e)' = Announced(e)
                                    /\ Outcome(e)' = Outcome(e)
           /\ t # "enriched" => Outcome(d)' = Outcome(d)
           /\ t = "enriched" /\ Rows("enriched", d) = {} => Outcome(d)' = p
  <1>1. PICK n \in Nat :
            /\ RowIds' = RowIds \cup {n} /\ n \notin RowIds
            /\ \A i \in RowIds : outbox'[i] = outbox[i]
            /\ outbox'[n].topic = t /\ outbox'[n].doc = d /\ outbox'[n].payload = p
    BY DEF NewRow
  <1>2. Announced(d)' = Announced(d) + 1
    <2>1. RowsOf(d)' = RowsOf(d) \cup {n} /\ n \notin RowsOf(d)
      BY <1>1 DEF RowsOf
    <2>2. IsFiniteSet(RowsOf(d))
      BY RowsAreStages
    <2>3. Cardinality(RowsOf(d) \cup {n}) = Cardinality(RowsOf(d)) + 1
      BY <2>1, <2>2, FS_AddElement
    <2>4. QED
      BY <2>1, <2>3 DEF Announced
  <1>3. ASSUME NEW e \in Docs, e # d
        PROVE  Announced(e)' = Announced(e)
    <2>1. RowsOf(e)' = RowsOf(e)
      BY <1>1, <1>3 DEF RowsOf
    <2>2. QED
      BY <2>1 DEF Announced
  <1>4. ASSUME NEW e \in Docs, <<"enriched", e>> # <<t, d>>
        PROVE  Outcome(e)' = Outcome(e)
    <2>1. Rows("enriched", e)' = Rows("enriched", e)
      BY <1>1, <1>4 DEF Rows
    <2>2. \A i \in Rows("enriched", e) : outbox'[i].payload = outbox[i].payload
      BY <1>1 DEF Rows
    <2>3. QED
      BY <2>1, <2>2 DEF Outcome
  <1>5. ASSUME t = "enriched", Rows("enriched", d) = {}
        PROVE  Outcome(d)' = p
    <2>1. Rows("enriched", d)' = {n}
      BY <1>1, <1>5 DEF Rows
    <2>2. QED
      BY <1>1, <2>1 DEF Outcome
  <1>6. QED
    BY <1>2, <1>3, <1>4, <1>5

LEMMA ContractStutters ==
    ASSUME UNCHANGED [d \in Docs |-> Announced(d)],
           UNCHANGED [d \in Docs |-> Outcome(d)],
           UNCHANGED [d \in Docs |-> Parked(d)],
           view' = view
    PROVE  UNCHANGED Contract!contractVars
  BY DEF Contract!contractVars, Announced, Outcome

LEMMA ContractAnnounces ==
    ASSUME NEW d \in Docs, NEW n \in {1, 2, 3},
           Announced(d) = n - 1, Announced(d)' = n,
           \A e \in Docs \ {d} : Announced(e)' = Announced(e),
           UNCHANGED <<view, dlq>>
    PROVE  Contract!Announce(d, n)
  <1>1. \A e \in Docs : Cardinality(RowsOf(e)) = Announced(e)
    BY DEF Announced
  <1>2. \A e \in Docs : Announced(e)' = IF e = d THEN n ELSE Announced(e)
    OBVIOUS
  <1>3. [e \in Docs |-> Announced(e)]' = [[e \in Docs |-> Announced(e)] EXCEPT ![d] = n]
    BY <1>2
  <1>4. [e \in Docs |-> Parked(e)]' = [e \in Docs |-> Parked(e)]
    BY DEF Parked
  <1>5. [e \in Docs |-> Announced(e)][d] = n - 1
    OBVIOUS
  <1>6. QED
    BY <1>3, <1>4, <1>5 DEF Contract!Announce, Announced

LEMMA SameOutcome ==
    ASSUME \A d \in Docs : Outcome(d)' = Outcome(d)
    PROVE  UNCHANGED [d \in Docs |->
                   IF Rows("enriched", d) = {} THEN NoResult
                   ELSE outbox[CHOOSE i \in Rows("enriched", d) : TRUE].payload]
  <1>1. [d \in Docs |-> Outcome(d)]' = [d \in Docs |-> Outcome(d)]
    OBVIOUS
  <1>2. QED
    BY <1>1 DEF Outcome

LEMMA CreateIsAccept ==
    ASSUME PipelineInv, NEW d \in Docs, CreateJob(d)
    PROVE  Contract!Accept(d)
  <1>1. /\ Enqueue("ingested", d, NoResult)
        /\ uploads[d] = "saved"
        /\ UNCHANGED <<view, dlq>>
    BY DEF CreateJob, GatewayFrame, workerVars
  <1>2. "ingested" \in Topics /\ NoResult \in Payloads
    BY PipelineAssumption
  <1>3. NewRow("ingested", d, NoResult)
    BY <1>1, <1>2, EnqueueIsNewRow DEF PipelineInv, PartsInv, OutboxInv
  <1>4. Rows("ingested", d) = {}
    BY <1>1 DEF PipelineInv, StagesInv, StagedIsAccepted, Rows
  <1>5. Announced(d) = 0
    BY <1>4, RowsAreStages DEF PipelineInv
  <1>6. /\ Announced(d)' = Announced(d) + 1
        /\ \A e \in Docs \ {d} : Announced(e)' = Announced(e)
        /\ \A e \in Docs : Outcome(e)' = Outcome(e)
    BY <1>2, <1>3, NewForContract DEF PipelineInv
  <1>7. Announced(d) = 1 - 1 /\ Announced(d)' = 1 /\ 1 \in {1, 2, 3}
    BY <1>5, <1>6
  <1>8. Contract!Announce(d, 1)
    BY <1>1, <1>6, <1>7, ContractAnnounces
  <1>9. QED
    BY <1>6, <1>8, SameOutcome DEF Contract!Accept

(* The handlers take their document one stage on. *)
LEMMA HeldIsStaged ==
    ASSUME PipelineInv, NEW w \in Workers, pc[w] # "idle"
    PROVE  Rows(WorkerTopic[w], DocIn(w)) # {} /\ DocIn(w) \in Docs
  BY HeldHasRow DEF PipelineInv, Rows

LEMMA IngestedIsExtract ==
    ASSUME PipelineInv, NEW w \in Workers, Commits(w),
           HandleIngested(w), NewRow("extracted", DocIn(w), NoResult)
    PROVE  \E d \in Docs : Contract!Extract(d)
  <1>0. PICK d \in Docs : d = DocIn(w)
    BY HeldIsStaged DEF Commits
  <1>1. "extracted" \in Topics /\ NoResult \in Payloads
    BY PipelineAssumption
  <1>2. Rows("ingested", d) # {} /\ Rows("extracted", d) = {}
    BY <1>0, HeldIsStaged, NotStagedYet
    DEF Commits, HandleIngested, StageBefore, PipelineInv
  <1>3. Announced(d) = 1
    BY <1>2, RowsAreStages DEF PipelineInv
  <1>4. /\ Announced(d)' = Announced(d) + 1
        /\ \A e \in Docs \ {d} : Announced(e)' = Announced(e)
        /\ \A e \in Docs : Outcome(e)' = Outcome(e)
    BY <1>0, <1>1, NewForContract DEF PipelineInv
  <1>5. Announced(d) = 2 - 1 /\ Announced(d)' = 2 /\ 2 \in {1, 2, 3}
    BY <1>3, <1>4
  <1>6. UNCHANGED <<view, dlq>>
    BY DEF Commits, HandleIngested
  <1>7. Contract!Announce(d, 2)
    BY <1>4, <1>5, <1>6, ContractAnnounces
  <1>8. Contract!Extract(d)
    BY <1>4, <1>7, SameOutcome DEF Contract!Extract
  <1>9. QED
    BY <1>8

LEMMA ExtractedIsEnrich ==
    ASSUME PipelineInv, NEW w \in Workers, Commits(w),
           WorkerTopic[w] = "extracted", view' = view,
           NEW r \in Results, NewRow("enriched", DocIn(w), r)
    PROVE  \E d \in Docs : Contract!Enrich(d)
  <1>0. PICK d \in Docs : d = DocIn(w)
    BY HeldIsStaged DEF Commits
  <1>1. "enriched" \in Topics /\ r \in Payloads
    BY PipelineAssumption
  <1>2. Rows("extracted", d) # {} /\ Rows("enriched", d) = {}
    BY <1>0, HeldIsStaged, NotStagedYet DEF Commits, StageBefore, PipelineInv
  <1>3. Announced(d) = 2
    BY <1>2, RowsAreStages DEF PipelineInv
  <1>4. /\ Announced(d)' = Announced(d) + 1
        /\ \A e \in Docs \ {d} : /\ Announced(e)' = Announced(e)
                                 /\ Outcome(e)' = Outcome(e)
        /\ Outcome(d)' = r
    BY <1>0, <1>1, <1>2, NewForContract DEF PipelineInv
  <1>5. Announced(d) = 3 - 1 /\ Announced(d)' = 3 /\ 3 \in {1, 2, 3}
    BY <1>3, <1>4
  <1>6. UNCHANGED <<view, dlq>>
    BY DEF Commits
  <1>7. Contract!Announce(d, 3)
    BY <1>4, <1>5, <1>6, ContractAnnounces
  <1>8. [e \in Docs |-> Outcome(e)]' = [[e \in Docs |-> Outcome(e)] EXCEPT ![d] = r]
    <2>1. \A e \in Docs : Outcome(e)' = IF e = d THEN r ELSE Outcome(e)
      BY <1>4
    <2>2. QED
      BY <2>1
  <1>9. Contract!Enrich(d)
    BY <1>7, <1>8 DEF Contract!Enrich, Outcome
  <1>10. QED
    BY <1>9

LEMMA EnrichedIsIndex ==
    ASSUME PipelineInv, NEW w \in Workers, Commits(w), HandleEnriched(w), SameRows
    PROVE  [Contract!ContractNext]_(Contract!contractVars)
  <1>1. PICK d \in Docs, i \in RowIds : d = DocIn(w) /\ i = inflight[w].id
    BY HeldHasRow DEF PipelineInv, Commits
  <1>2. /\ i \in Rows("enriched", d)
        /\ view' = [view EXCEPT ![d] = outbox[i].payload]
        /\ view \in [Docs -> Payloads]
        /\ dlq' = dlq
    BY <1>1, HeldHasRow
    DEF Commits, HandleEnriched, PipelineInv, StoreInv, StoreTyped, Rows
  <1>3. JobAgrees(d) /\ Rows("enriched", d) # {}
    BY <1>2 DEF PipelineInv, JobsInv
  <1>4. outbox[i].payload = Outcome(d)
    BY <1>2, <1>3, OutcomeIsResult DEF JobAgrees
  <1>5. Announced(d) = 3
    BY <1>3, RowsAreStages DEF PipelineInv
  <1>6. /\ \A e \in Docs : Announced(e)' = Announced(e) /\ Outcome(e)' = Outcome(e)
        /\ \A e \in Docs : Parked(e)' = Parked(e)
    BY <1>2, SameForContract DEF Parked
  <1>7. /\ UNCHANGED [e \in Docs |-> Announced(e)]
        /\ UNCHANGED [e \in Docs |-> Outcome(e)]
        /\ UNCHANGED [e \in Docs |-> Parked(e)]
    BY <1>6
  <1>8. CASE view[d] = NoResult
    <2>1. /\ [e \in Docs |-> Announced(e)][d] = 3
          /\ view' = [view EXCEPT ![d] = [e \in Docs |-> Outcome(e)][d]]
      BY <1>2, <1>4, <1>5
    <2>2. Contract!Index(d)
      BY <1>7, <1>8, <2>1 DEF Contract!Index, Announced, Outcome
    <2>3. QED
      BY <2>2 DEF Contract!ContractNext
  <1>9. CASE view[d] # NoResult
    <2>1. view[d] = outbox[i].payload
      BY <1>3, <1>4, <1>9, OutcomeIsResult DEF JobAgrees
    <2>2. view' = view
      BY <1>2, <2>1
    <2>3. QED
      BY <1>7, <2>2, ContractStutters
  <1>10. QED
    BY <1>8, <1>9

LEMMA DeadLetterIsPark ==
    ASSUME PipelineInv, NEW w \in Workers, DeadLetter(w),
           UNCHANGED <<outbox, view>>
    PROVE  [Contract!ContractNext]_(Contract!contractVars)
  <1>1. pc[w] # "idle"
    BY DEF DeadLetter, Goto
  <1>2. PICK d \in Docs : d = DocIn(w) /\ Rows(WorkerTopic[w], d) # {}
    BY <1>1, HeldIsStaged
  <1>3. WorkerTopic[w] \in {"ingested", "extracted", "enriched"}
        /\ WorkerTopic[w] \in Topics
    BY WorkerAssumption, PipelineAssumption
  <1>4. Announced(d) \in {1, 2, 3}
    <2>1. Rows("ingested", d) # {}
      BY <1>2, <1>3, NoneAfter DEF PipelineInv
    <2>2. QED
      BY <2>1, RowsAreStages DEF PipelineInv
  <1>5. \A e \in Docs : Announced(e)' = Announced(e) /\ Outcome(e)' = Outcome(e)
    BY UnchangedRows, SameForContract
  <1>6. \A e \in Docs : Parked(e)' = (Parked(e) \/ e = d)
    <2>1. /\ dlq \in [Topics -> SUBSET Message]
          /\ dlq' = [dlq EXCEPT ![WorkerTopic[w]] = @ \cup {inflight[w]}]
      BY DEF PipelineInv, PartsInv, HeldInv, DeliveryTypeOK, DeadLetter
    <2>2. \A t \in Topics : dlq'[t] = IF t = WorkerTopic[w]
                                      THEN dlq[t] \cup {inflight[w]} ELSE dlq[t]
      BY <2>1
    <2>3. inflight[w].doc = d
      BY <1>2 DEF DocIn
    <2>4. QED
      BY <1>3, <2>2, <2>3 DEF Parked
  <1>7. /\ UNCHANGED [e \in Docs |-> Announced(e)]
        /\ UNCHANGED [e \in Docs |-> Outcome(e)]
    BY <1>5
  <1>8. CASE Parked(d)
    <2>1. \A e \in Docs : Parked(e)' = Parked(e)
      BY <1>6, <1>8 DEF Parked
    <2>2. UNCHANGED [e \in Docs |-> Parked(e)]
      BY <2>1
    <2>3. QED
      BY <1>7, <2>2, ContractStutters
  <1>9. CASE ~Parked(d)
    <2>1. [e \in Docs |-> Parked(e)]' = [[e \in Docs |-> Parked(e)] EXCEPT ![d] = TRUE]
      <3>1. \A e \in Docs : Parked(e)' = IF e = d THEN TRUE ELSE Parked(e)
        BY <1>6 DEF Parked
      <3>2. QED
        BY <3>1, Zenon
    <2>2. ~[e \in Docs |-> Parked(e)][d] /\ [e \in Docs |-> Announced(e)][d] > 0
      BY <1>4, <1>9
    <2>3. Contract!Park(d)
      BY <1>7, <2>1, <2>2 DEF Contract!Park, Announced, Outcome
    <2>4. QED
      BY <2>3 DEF Contract!ContractNext
  <1>10. QED
    BY <1>8, <1>9

(* A dead-letter queue grows by DeadLetter. *)
LEMMA DlqStep ==
    ASSUME [PipelineNext]_pipelineVars
    PROVE  dlq' = dlq \/ \E w \in Workers : DeadLetter(w) /\ outbox' = outbox
  <1> USE DEF workerVars
  <1>1. ASSUME NEW d \in Docs, GatewayStep(d) \/ AbandonUpload(d)
        PROVE  dlq' = dlq
    BY <1>1 DEF GatewayStep, SaveUpload, CreateJob, AbandonUpload, GatewayFrame
  <1>2. ASSUME NEW r \in Relays, PublisherStep(r) \/ PublisherFault(r)
        PROVE  dlq' = dlq
    BY <1>2 DEF PublisherStep, PublisherFault
  <1>3. ASSUME NEW w \in Workers, HandlerStep(w)
        PROVE  dlq' = dlq \/ (DeadLetter(w) /\ outbox' = outbox)
    <2>1. CASE ConsumerStep(w)
      BY <2>1 DEF ConsumerStep, Fetch, Claim, SkipDuplicate, Requeue,
                  CommitOffset
    <2>2. CASE ~ConsumerStep(w)
      BY <1>3, <2>2 DEF HandlerStep, SaveText, UpsertBatch, SideEffect,
           HandlerCommits, WorkSucceeds, HandlerFails, WorkFails, MarkFailed,
           OnDlqReturns
    <2>3. QED
      BY <2>1, <2>2
  <1>4. ASSUME NEW w \in Workers,
               HandlerCommitsUnacked(w) \/ SessionLost(w) \/ WorkerCrash(w)
        PROVE  dlq' = dlq
    BY <1>4 DEF HandlerCommitsUnacked, WorkSucceedsUnacked, SessionLost,
                LoseSession, WorkerCrash, Crash
  <1>5. ASSUME \/ \E t \in Topics : GroupFault(t)
               \/ UNCHANGED pipelineVars
        PROVE  dlq' = dlq
    BY <1>5 DEF GroupFault, Rebalance, pipelineVars
  <1>6. QED
    BY <1>1, <1>2, <1>3, <1>4, <1>5 DEF PipelineNext

LEMMA ContractStep ==
    ASSUME PipelineInv, [PipelineNext]_pipelineVars
    PROVE  [Contract!ContractNext]_(Contract!contractVars)
  <1>1. ASSUME SameRows, UNCHANGED <<view, dlq>>
        PROVE  UNCHANGED Contract!contractVars
    <2>1. \A d \in Docs : /\ Announced(d)' = Announced(d)
                          /\ Outcome(d)' = Outcome(d)
                          /\ Parked(d)' = Parked(d)
      BY <1>1, SameForContract DEF Parked
    <2>2. /\ UNCHANGED [d \in Docs |-> Announced(d)]
          /\ UNCHANGED [d \in Docs |-> Outcome(d)]
          /\ UNCHANGED [d \in Docs |-> Parked(d)]
      BY <2>1
    <2>3. QED
      BY <1>1, <2>2, ContractStutters
  <1>2. ASSUME Quiet
        PROVE  [Contract!ContractNext]_(Contract!contractVars)
    <2>1. SameRows /\ view' = view
      BY <1>2 DEF Quiet, serviceVars
    <2>2. dlq' = dlq \/ \E w \in Workers : DeadLetter(w) /\ outbox' = outbox
      BY <1>2, DlqStep
    <2>3. QED
      BY <1>1, <2>1, <2>2, DeadLetterIsPark
  <1>3. ASSUME NEW d \in Docs, SaveUpload(d) \/ AbandonUpload(d)
        PROVE  UNCHANGED Contract!contractVars
    <2>1. UNCHANGED <<outbox, view, dlq>>
      BY <1>3 DEF SaveUpload, AbandonUpload, GatewayFrame, workerVars
    <2>2. QED
      BY <1>1, <2>1, UnchangedRows
  <1>4. ASSUME NEW d \in Docs, CreateJob(d)
        PROVE  Contract!ContractNext
    BY <1>4, CreateIsAccept DEF Contract!ContractNext
  <1>5. ASSUME NEW w \in Workers, SaveText(w) \/ UpsertBatch(w) \/ MarkFailed(w)
        PROVE  UNCHANGED Contract!contractVars
    <2>1. UNCHANGED <<outbox, view, dlq>>
      BY <1>5 DEF SaveText, UpsertBatch, SideEffect, MarkFailed, OnDlqReturns,
                  workerVars
    <2>2. QED
      BY <1>1, <2>1, UnchangedRows
  <1>6. ASSUME NEW w \in Workers, Commits(w)
        PROVE  [Contract!ContractNext]_(Contract!contractVars)
    <2>1. CASE HandleIngested(w) /\ NewRow("extracted", DocIn(w), NoResult)
      BY <1>6, <2>1, IngestedIsExtract DEF Contract!ContractNext
    <2>2. CASE /\ WorkerTopic[w] = "extracted"
               /\ view' = view
               /\ \E r \in Results : NewRow("enriched", DocIn(w), r)
      BY <1>6, <2>2, ExtractedIsEnrich DEF Contract!ContractNext
    <2>3. CASE HandleEnriched(w) /\ SameRows
      BY <1>6, <2>3, EnrichedIsIndex
    <2>4. QED
      BY <1>6, <2>1, <2>2, <2>3, CommitKinds DEF PipelineInv
  <1>7. QED
    BY <1>2, <1>3, <1>4, <1>5, <1>6, StepKinds DEF PipelineInv

(* Each stage takes effect at most once per document and in order, the
   enrichment has one outcome, and that is what the read side shows: every
   behaviour of the gateway, the relays, the workers and their faults is one
   of the contract. *)
THEOREM PipelineImplementsContract == PipelineSpec => ImplementsContract
  <1>1. PipelineInit => Contract!ContractInit
    <2> SUFFICES ASSUME PipelineInit PROVE Contract!ContractInit
      OBVIOUS
    <2>1. RowIds = {} /\ \A t \in Topics : dlq[t] = {}
      BY DEF PipelineInit, OutboxInit, RowIds, DeliveryInit
    <2>2. \A d \in Docs : /\ RowsOf(d) = {} /\ Rows("enriched", d) = {}
                          /\ ~Parked(d)
      BY <2>1 DEF RowsOf, Rows, Parked
    <2>3. \A d \in Docs : /\ Cardinality(RowsOf(d)) = 0
                          /\ Parked(d) = FALSE
      BY <2>2, FS_EmptySet DEF Parked
    <2>4. [d \in Docs |-> Cardinality(RowsOf(d))] = [d \in Docs |-> 0]
      BY <2>3
    <2>5. [d \in Docs |-> Parked(d)] = [d \in Docs |-> FALSE]
      BY <2>3, Zenon
    <2>6. view = [d \in Docs |-> NoResult]
      BY DEF PipelineInit
    <2>7. QED
      BY <2>2, <2>4, <2>5, <2>6 DEF Contract!ContractInit
  <1>2. PipelineInv /\ [PipelineNext]_pipelineVars
            => [Contract!ContractNext]_(Contract!contractVars)
    BY ContractStep
  <1>3. QED
    BY <1>1, <1>2, PipelineInvariant, PTL
    DEF PipelineSpec, ImplementsContract, Contract!ContractSpec

-----------------------------------------------------------------------------
(* What follows from the contract alone. *)

(* One document announced once more. *)
LEMMA AnnouncedOnce ==
    ASSUME NEW a, a \in [Docs -> 0 .. 3], NEW d \in Docs, NEW n \in 1 .. 3,
           a[d] = n - 1, NEW b, b = [a EXCEPT ![d] = n]
    PROVE  /\ b \in [Docs -> 0 .. 3]
           /\ \A e \in Docs : a[e] = 3 => b[e] = 3 /\ e # d
  OBVIOUS

LEMMA ContractKeepsShown ==
    ASSUME Contract!ShownIsAnnounced,
           [Contract!ContractNext]_(Contract!contractVars)
    PROVE  Contract!ShownIsAnnounced' /\ Contract!KeepsShown
  <1> USE DEF Contract!ShownIsAnnounced
  <1>a. PICK a, o, a1, o1 :
            /\ a = [d \in Docs |-> Announced(d)]
            /\ o = [d \in Docs |-> Outcome(d)]
            /\ a1 = [d \in Docs |-> Announced(d)]'
            /\ o1 = [d \in Docs |-> Outcome(d)]'
    OBVIOUS
  <1>0. /\ a \in [Docs -> 0 .. 3]
        /\ o \in [Docs -> Results \cup {NoResult}]
        /\ view \in [Docs -> Results \cup {NoResult}]
        /\ \A d \in Docs : view[d] # NoResult => a[d] = 3 /\ view[d] = o[d]
    BY <1>a DEF Announced, Outcome
  <1> SUFFICES /\ a1 \in [Docs -> 0 .. 3]
               /\ o1 \in [Docs -> Results \cup {NoResult}]
               /\ view' \in [Docs -> Results \cup {NoResult}]
               /\ \A d \in Docs : view'[d] # NoResult =>
                                     a1[d] = 3 /\ view'[d] = o1[d]
               /\ \A d \in Docs : view[d] # NoResult => view'[d] = view[d]
    BY <1>a DEF Announced, Outcome, Contract!KeepsShown
  <1>1. ASSUME NEW d \in Docs, Contract!Accept(d)
        PROVE  /\ a[d] = 0 /\ a1 = [a EXCEPT ![d] = 1]
               /\ view' = view /\ o1 = o
    BY <1>a, <1>1 DEF Contract!Accept, Contract!Announce, Announced, Outcome
  <1>2. ASSUME NEW d \in Docs, Contract!Extract(d)
        PROVE  /\ a[d] = 1 /\ a1 = [a EXCEPT ![d] = 2]
               /\ view' = view /\ o1 = o
    BY <1>a, <1>2 DEF Contract!Extract, Contract!Announce, Announced, Outcome
  <1>3. ASSUME NEW d \in Docs, Contract!Enrich(d)
        PROVE  /\ a[d] = 2 /\ a1 = [a EXCEPT ![d] = 3]
               /\ view' = view /\ \E r \in Results : o1 = [o EXCEPT ![d] = r]
    <2>1. a[d] = 2 /\ a1 = [a EXCEPT ![d] = 3] /\ view' = view
      BY <1>a, <1>3 DEF Contract!Enrich, Contract!Announce, Announced
    <2>2. \E r \in Results :
             [e \in Docs |-> Outcome(e)]'
                = [[e \in Docs |-> Outcome(e)] EXCEPT ![d] = r]
      BY <1>3 DEF Contract!Enrich, Outcome
    <2>3. QED
      BY <1>a, <2>1, <2>2
  <1>4. ASSUME NEW d \in Docs, Contract!Index(d)
        PROVE  /\ a[d] = 3 /\ a1 = a /\ o1 = o
               /\ view[d] = NoResult /\ view' = [view EXCEPT ![d] = o[d]]
    BY <1>a, <1>4 DEF Contract!Index, Announced, Outcome
  <1>5. ASSUME \/ \E d \in Docs : Contract!Park(d)
               \/ UNCHANGED Contract!contractVars
        PROVE  a1 = a /\ o1 = o /\ view' = view
    BY <1>a, <1>5 DEF Contract!Park, Contract!contractVars, Announced, Outcome
  <1> HIDE DEF Contract!ShownIsAnnounced
  <1>6. QED
    BY <1>0, <1>1, <1>2, <1>3, <1>4, <1>5, AnnouncedOnce DEF Contract!ContractNext

(* By the contract, what the read side shows of a document is what was
   announced, and it does not change its mind about it. *)
THEOREM ContractShowsForGood == ImplementsContract => Contract!ShownForGood
  <1>1. Contract!ContractInit => Contract!ShownIsAnnounced
    BY DEF Contract!ContractInit, Contract!ShownIsAnnounced
  <1>2. Contract!ShownIsAnnounced
        /\ [Contract!ContractNext]_(Contract!contractVars)
            => Contract!ShownIsAnnounced' /\ Contract!KeepsShown
    BY ContractKeepsShown
  <1>3. QED
    BY <1>1, <1>2, PTL
    DEF ImplementsContract, Contract!ContractSpec, Contract!ShownForGood
=============================================================================
