------------------------------ MODULE Pipeline ------------------------------
(***************************************************************************)
(* The document pipeline: the gateway, the extraction and enrichment       *)
(* workers and the projector, over the outbox and its relays (Outbox) and  *)
(* the consumer loop they share (Delivery).                                *)
(*                                                                         *)
(* One database transaction is one action: what a handler writes to        *)
(* Postgres appears when its work commits.  What it does outside of the    *)
(* transaction - the text it saves to object storage, the vectors it       *)
(* upserts into Qdrant - happens at once, in steps of its own, and stays   *)
(* when the transaction rolls back.                                        *)
(***************************************************************************)
EXTENDS Outbox, Delivery

CONSTANTS
    Batches,        \* [Docs -> Nat]: upsert batches of each document's chunks
    Results,        \* what the LLM may answer: classification and summary
    NoResult,       \* no answer yet
    NoJob,          \* no row in jobs
    ServiceFaults   \* which of "upload", "createUnacked", "markFailed" happen

JobStatus == {"pending", "extracting", "extracted", "enriching", "completed",
              "failed"}

Job == [status : JobStatus, error : BOOLEAN, result : Payloads]

ASSUME PipelineAssumption ==
    /\ Topics = {"ingested", "extracted", "enriched"}
    /\ Batches \in [Docs -> Nat]
    /\ NoResult \notin Results
    /\ NoJob \notin Job
    /\ Payloads = Results \cup {NoResult}

VARIABLES
    uploads,   \* [Docs -> UploadStates]: the POST /documents that mints d
    raws,      \* documents whose uploaded bytes are in object storage
    texts,     \* documents whose extracted text is in object storage
    points,    \* [Docs -> SUBSET Nat]: batches of d's chunks in Qdrant
    jobs,      \* [Docs -> Job or NoJob]: the write model
    view,      \* [Docs -> Payloads]: classification in document_view,
               \* NoResult where there is no row
    progress   \* [Workers -> Nat]: side effects of the open transaction

serviceVars == <<uploads, raws, texts, points, jobs, view>>
relayVars == <<batch, sent, rollbacks>>
workerVars == <<dlq, committed, position, owner, pc, inflight, claims, faults>>
pipelineVars == <<log, outbox, relayVars, workerVars, serviceVars, progress>>

UploadStates == {"new", "saved", "accepted", "failed"}

DocIn(w) == inflight[w].doc

PipelineInit ==
    /\ OutboxInit
    /\ DeliveryInit
    /\ uploads = [d \in Docs |-> "new"]
    /\ raws = {}
    /\ texts = {}
    /\ points = [d \in Docs |-> {}]
    /\ jobs = [d \in Docs |-> NoJob]
    /\ view = [d \in Docs |-> NoResult]
    /\ progress = [w \in Workers |-> 0]

-----------------------------------------------------------------------------
(* Gateway: ingest_document. *)

GatewayFrame == UNCHANGED <<log, relayVars, workerVars, texts, points, view,
                            progress>>

(* The bytes are saved first, under a provisional id. *)
SaveUpload(d) ==
    /\ uploads[d] = "new"
    /\ uploads' = [uploads EXCEPT ![d] = "saved"]
    /\ raws' = raws \cup {d}
    /\ UNCHANGED <<outbox, jobs>>
    /\ GatewayFrame

(* create_ingestion_job commits: the job and its event in one transaction.
   The client hears of it unless the acknowledgement of the commit is lost. *)
CreateJob(d) ==
    /\ uploads[d] = "saved"
    /\ \/ uploads' = [uploads EXCEPT ![d] = "accepted"]
       \/ /\ "createUnacked" \in ServiceFaults
          /\ uploads' = [uploads EXCEPT ![d] = "failed"]
    /\ jobs' = [jobs EXCEPT ![d] = [status |-> "pending", error |-> FALSE,
                                    result |-> NoResult]]
    /\ Enqueue("ingested", d, NoResult)
    /\ UNCHANGED raws
    /\ GatewayFrame

(* The gateway dies, or storage or the transaction fails: the client sees an
   error, and bytes saved stay without a job. *)
AbandonUpload(d) ==
    /\ "upload" \in ServiceFaults
    /\ uploads[d] \in {"new", "saved"}
    /\ uploads' = [uploads EXCEPT ![d] = "failed"]
    /\ UNCHANGED <<outbox, jobs, raws>>
    /\ GatewayFrame

-----------------------------------------------------------------------------
(* Handlers: the side effects of an open transaction, which go on when the
   database has ended its session meanwhile: nothing but the next statement
   would tell. *)

AtWork == {"working", "detached"}

SideEffect(w, topic) ==
    /\ pc[w] \in AtWork
    /\ WorkerTopic[w] = topic
    /\ progress' = [progress EXCEPT ![w] = @ + 1]
    /\ UNCHANGED <<log, outbox, relayVars, workerVars, uploads, raws, jobs,
                   view>>

(* handle_ingested reads the upload, extracts its text and saves it. *)
SaveText(w) ==
    /\ SideEffect(w, "ingested")
    /\ progress[w] = 0
    /\ DocIn(w) \in raws
    /\ texts' = texts \cup {DocIn(w)}
    /\ UNCHANGED points

(* handle_extracted reads the text, embeds its chunks and upserts them batch
   by batch, each point under its deterministic id. *)
UpsertBatch(w) ==
    /\ SideEffect(w, "extracted")
    /\ DocIn(w) \in texts
    /\ progress[w] < Batches[DocIn(w)]
    /\ points' = [points EXCEPT ![DocIn(w)] = @ \cup {progress[w] + 1}]
    /\ UNCHANGED texts

(* Handlers: what their transaction writes when it commits. *)

SetJob(d, status, result) ==
    jobs' = [jobs EXCEPT ![d].status = status, ![d].result = result]

(* Mutant of HandleIngested: the status changes, the event is forgotten. *)
HandleIngestedSilently(w) ==
    /\ WorkerTopic[w] = "ingested"
    /\ progress[w] = 1
    /\ SetJob(DocIn(w), "extracted", jobs[DocIn(w)].result)
    /\ UNCHANGED <<outbox, view>>

(* handle_ingested: EXTRACTED, with the event that says so. *)
HandleIngested(w) ==
    /\ WorkerTopic[w] = "ingested"
    /\ progress[w] = 1
    /\ SetJob(DocIn(w), "extracted", jobs[DocIn(w)].result)
    /\ Enqueue("extracted", DocIn(w), NoResult)
    /\ UNCHANGED view

(* Mutant of HandleExtracted: it does not wait for the last upsert. *)
HandleExtractedBeforeUpsert(w) ==
    /\ WorkerTopic[w] = "extracted"
    /\ DocIn(w) \in texts
    /\ \E r \in Results :
          /\ SetJob(DocIn(w), "completed", r)
          /\ Enqueue("enriched", DocIn(w), r)
    /\ UNCHANGED view

(* handle_extracted: the LLM answers after the vectors are in; COMPLETED,
   with its answer, and the event that carries it. *)
HandleExtracted(w) ==
    /\ WorkerTopic[w] = "extracted"
    /\ DocIn(w) \in texts
    /\ progress[w] = Batches[DocIn(w)]
    /\ \E r \in Results :
          /\ SetJob(DocIn(w), "completed", r)
          /\ Enqueue("enriched", DocIn(w), r)
    /\ UNCHANGED view

(* handle_enriched: the row of the read model, from the event alone. *)
HandleEnriched(w) ==
    /\ WorkerTopic[w] = "enriched"
    /\ view' = [view EXCEPT ![DocIn(w)] = outbox[inflight[w].id].payload]
    /\ UNCHANGED <<outbox, jobs>>

Handle(w) == HandleIngested(w) \/ HandleExtracted(w) \/ HandleEnriched(w)

(* The transaction ends, one way or the other. *)
EndWork(w) ==
    /\ progress' = [progress EXCEPT ![w] = 0]
    /\ UNCHANGED <<relayVars, uploads, raws, texts, points>>

(* work() returns. *)
HandlerCommits(w) == WorkSucceeds(w) /\ Handle(w) /\ EndWork(w)

(* work() has committed and raises all the same. *)
HandlerCommitsUnacked(w) == WorkSucceedsUnacked(w) /\ Handle(w) /\ EndWork(w)

(* Mutant of HandlerFails: the job fails with the first failed attempt. *)
HandlerFailsForGood(w) ==
    /\ WorkFails(w)
    /\ EndWork(w)
    /\ jobs' = [jobs EXCEPT ![DocIn(w)].status = "failed"]
    /\ UNCHANGED <<outbox, view>>

(* work() raises: unreadable upload, parser, embedder, Qdrant, LLM, database.
   The session forgets its writes. *)
HandlerFails(w) ==
    /\ WorkFails(w)
    /\ EndWork(w)
    /\ UNCHANGED <<outbox, jobs, view>>

(* _mark_failed, in a transaction of its own; best effort. *)
MarkFailed(w) ==
    /\ OnDlqReturns(w)
    /\ \/ jobs' = [jobs EXCEPT ![DocIn(w)].status = "failed",
                               ![DocIn(w)].error = TRUE]
       \/ "markFailed" \in ServiceFaults /\ UNCHANGED jobs
    /\ UNCHANGED <<outbox, relayVars, uploads, raws, texts, points, view,
                   progress>>

WorkerCrash(w) ==
    /\ Crash(w)
    /\ EndWork(w)
    /\ UNCHANGED <<outbox, jobs, view>>

(* The database drops the writes of a handler that has not noticed. *)
SessionLost(w) ==
    /\ LoseSession(w)
    /\ UNCHANGED <<outbox, relayVars, serviceVars, progress>>

(* The part of the loop that is the same for every worker. *)
ConsumerStep(w) ==
    /\ \/ \E p \in Partitions : Fetch(w, p)
       \/ Claim(w)
       \/ SkipDuplicate(w)
       \/ Requeue(w)
       \/ DeadLetter(w)
       \/ CommitOffset(w)
    /\ UNCHANGED <<outbox, relayVars, serviceVars, progress>>

-----------------------------------------------------------------------------
GatewayStep(d) == SaveUpload(d) \/ CreateJob(d)

HandlerStep(w) ==
    \/ ConsumerStep(w)
    \/ SaveText(w)
    \/ UpsertBatch(w)
    \/ HandlerCommits(w)
    \/ HandlerFails(w)
    \/ MarkFailed(w)

PublisherStep(r) ==
    /\ RelayStep(r)
    /\ UNCHANGED <<workerVars, serviceVars, progress>>

PublisherFault(r) ==
    /\ LoseBatch(r)
    /\ UNCHANGED <<workerVars, serviceVars, progress>>

GroupFault(t) ==
    /\ Rebalance(t)
    /\ UNCHANGED <<outbox, relayVars, serviceVars, progress>>

PipelineNext ==
    \/ \E d \in Docs : GatewayStep(d) \/ AbandonUpload(d)
    \/ \E r \in Relays : PublisherStep(r) \/ PublisherFault(r)
    \/ \E w \in Workers :
          \/ HandlerStep(w) \/ HandlerCommitsUnacked(w)
          \/ SessionLost(w) \/ WorkerCrash(w)
    \/ \E t \in Topics : GroupFault(t)

(* The relays keep polling and the workers keep consuming. *)
PipelineFairness ==
    /\ \A r \in Relays : WF_pipelineVars(PublisherStep(r))
    /\ \A w \in Workers : WF_pipelineVars(HandlerStep(w))

PipelineSpec == PipelineInit /\ [][PipelineNext]_pipelineVars
FairPipelineSpec == PipelineSpec /\ PipelineFairness

-----------------------------------------------------------------------------
(* Properties. *)

(* Every variable has its type. *)
PipelineTypeOK ==
    /\ OutboxTypeOK
    /\ DeliveryTypeOK
    /\ uploads \in [Docs -> UploadStates]
    /\ raws \subseteq Docs
    /\ texts \subseteq Docs
    /\ points \in [Docs -> SUBSET Nat]
    /\ jobs \in [Docs -> Job \cup {NoJob}]
    /\ view \in [Docs -> Payloads]
    /\ progress \in [Workers -> Nat]

Rows(t, d) == {i \in RowIds : outbox[i].topic = t /\ outbox[i].doc = d}

(* Exactly-once effects: however often the records of an event are delivered,
   each stage stages one event per document, so no document is enriched, or
   announced to the read side, twice (README, "Exactly-once effects"). *)
OneEventPerStage ==
    \A i, j \in RowIds :
        outbox[i].topic = outbox[j].topic /\ outbox[i].doc = outbox[j].doc
            => i = j

(* What an event or a status points to is there: the job and the upload when
   the ingested event is staged, the text with the extracted event, every
   vector with the enriched event, also when an attempt failed between its
   side effects and its commit. *)
AnnouncedIsStored ==
    \A i \in RowIds :
        LET d == outbox[i].doc IN
        /\ jobs[d] # NoJob
        /\ outbox[i].topic = "ingested" => d \in raws
        /\ outbox[i].topic = "extracted" => d \in texts
        /\ outbox[i].topic = "enriched" => points[d] = 1 .. Batches[d]

(* The read model never gets ahead of the write model and agrees with it: a
   document shown carries the result its job and its one enriched event have,
   although the LLM answers anew on every attempt. *)
ReadModelAgrees ==
    \A d \in Docs :
        /\ view[d] # NoResult => jobs[d].result = view[d]
        /\ jobs[d] # NoJob /\ jobs[d].result # NoResult =>
              \E i \in Rows("enriched", d) : outbox[i].payload = jobs[d].result

(* A job never claims work it has not committed: its status, unless FAILED, is
   that of the last event its document has staged, and it has a result exactly
   when it is enriched. *)
StatusMatchesEvents ==
    \A d \in Docs : jobs[d] # NoJob =>
        /\ jobs[d].status = "pending" => Rows("extracted", d) = {}
        /\ jobs[d].status = "extracted" =>
              Rows("extracted", d) # {} /\ Rows("enriched", d) = {}
        /\ jobs[d].status = "completed" => Rows("enriched", d) # {}
        /\ jobs[d].result # NoResult <=> Rows("enriched", d) # {}

(* A job says FAILED, or keeps an error, only when one of its events is in a
   dead-letter queue, for an operator to find (ConsumerSettings). *)
Parked(d) == \E t \in Topics : \E m \in dlq[t] : m.doc = d

FailedIsParked ==
    \A d \in Docs :
        jobs[d] # NoJob /\ (jobs[d].status = "failed" \/ jobs[d].error)
            => Parked(d)

(* Event i is still to be consumed: a relay has yet to publish it, or a record
   of it lies ahead of the offset its group has committed. *)
Pending(i) ==
    LET s == StreamOf(outbox[i].topic, RecordOf(i)) IN
    /\ ~Settled(outbox[i].topic, i)
    /\ \/ ~outbox[i].published
       \/ \E j \in 1 .. Len(log[s]) : j > committed[s] /\ log[s][j].id = i

(* In no state is a document stranded: if it is neither shown nor parked, one
   of its events is still to be consumed, whatever was rolled back, committed
   or redelivered around it.  So no claim is spent without its effect, and the
   outbox, the bus and the offsets leave no gap between them. *)
NothingStranded ==
    \A d \in Docs : jobs[d] # NoJob =>
        \/ view[d] # NoResult
        \/ Parked(d)
        \/ \E i \in RowIds : outbox[i].doc = d /\ Pending(i)

(* What a client has been told stays true: a result, once GET /jobs/{id} or
   the read model has it, is never withdrawn or replaced, although the LLM
   would answer a redelivered event anew. *)
ResultsAreFinal ==
    [][\A d \in Docs :
          /\ view[d] # NoResult => view'[d] = view[d]
          /\ jobs[d] # NoJob =>
                /\ jobs'[d] # NoJob
                /\ jobs[d].result # NoResult =>
                      jobs'[d].result = jobs[d].result]_pipelineVars

(* Every document with a job gets to the read side, unless one of its events
   is in a dead-letter queue for an operator to find: nothing between the
   upload and the projector loses it silently. *)
JobsSettle ==
    \A d \in Docs : jobs[d] # NoJob ~> (view[d] # NoResult \/ Parked(d))

-----------------------------------------------------------------------------
(* The pipeline implements PipelineContract: a document has announced as many
   events as it has rows in the outbox, its outcome is what its enriched
   event carries, and it is parked once a dead-letter queue has one of its
   events. *)

RowsOf(d) == {i \in RowIds : outbox[i].doc = d}

Contract == INSTANCE PipelineContract WITH
    announced <- [d \in Docs |-> Cardinality(RowsOf(d))],
    outcome <- [d \in Docs |->
                   IF Rows("enriched", d) = {} THEN NoResult
                   ELSE outbox[CHOOSE i \in Rows("enriched", d) : TRUE].payload],
    shown <- view,
    parked <- [d \in Docs |-> Parked(d)]

(* Each stage takes effect at most once per document and in order, and the
   read side shows the one outcome, in every behaviour of the pipeline. *)
ImplementsContract == Contract!ContractSpec

(* ... and with fair processes a document gets there or is parked. *)
ImplementsFairContract == Contract!FairContractSpec

(* What the query service may count on: the vectors of a document come in
   batch by batch and stay, and the read model shows it when they are all in,
   however attempts fail and are repeated between the two. *)
Read == INSTANCE ReadSide WITH
    Size <- Batches,
    stored <- [d \in Docs |-> Cardinality(points[d])],
    shown <- {d \in Docs : view[d] # NoResult}

ImplementsReadSide == Read!ReadSideSpec
=============================================================================
