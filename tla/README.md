# DocStream in TLA+

A verification project for DocStream (`src/`): a document goes from
`POST /documents` through extraction, enrichment and projection to a read
model and a vector store, which a query service searches; Kafka is between the
stages and Postgres under each of them. The modules here model how that is
made reliable: the transactional outbox, the at-least-once consumer loop with
idempotent handlers, retries and dead-letter queues, what the three handlers
and the gateway write inside and outside of their transactions, the embedding
and upserting of chunks in batches, what a query sees of all this while it goes
on, and how workers start, stall and are restarted. TLC checks them on small
instances; TLAPS proves the safety of the two protocols, of the pipeline
composed of them, of enrichment, of retrieval, of the query service, of the
start of workers and of pipeline and query service together for every value of
the constants.

Paths below are relative to `src/src/docstream/` unless they start with
`src/`.

## The system

| Component | State it keeps | Operations | Talks to |
|---|---|---|---|
| Gateway (`gateway/app.py`, `service.py`) | none of its own | `ingest_document`: save bytes, then job + outbox row in one transaction; `get_job` | storage, Postgres |
| Outbox (`db/outbox.py`, `db/models.py` `OutboxEvent`) | rows, `published_at` | `enqueue_event`, `fetch_unpublished` (row locks), `mark_published` | written by gateway and workers, read by the relay |
| Relay (`gateway/relay.py`) | open transaction of a replica | `drain_once`: fetch, publish each, mark, commit; `run_relay`: catch everything and go on | Postgres, Kafka |
| Topics (`common/topics.py`, `events.py`, `messaging.py`) | partitioned logs, group offsets | `publish`, iterate, `commit` | all workers, relay |
| Consumer loop (`run_worker` of each worker, `common/retry.py`, `db/idempotency.py`) | record in hand, `processed_events` | decode, `process_with_retry`, `mark_processed`, commit offset | Kafka, Postgres |
| Extraction worker (`extraction/worker.py`) | — | `handle_ingested`: claim, read upload, extract, save text, stage event, EXTRACTED; `_mark_failed` | storage, Postgres |
| Enrichment worker (`enrichment/worker.py`, `qdrant_store.py`) | — | `handle_extracted`: claim, chunk, embed, upsert batches, ask the LLM, stage event, COMPLETED; `_mark_failed` | storage, Qdrant, embedder, LLM, Postgres |
| Projector (`projection/worker.py`) | `document_view` | `handle_enriched`: claim, upsert the row | Postgres |
| Query service (`query/`, `db/base.py`) | open requests, the connections they hold | `list_documents`, `get_document`, `search_chunks`, `answer_question`; `retrieve` | `document_view`, Qdrant, embedder, LLM |
| Chunking, embedding, LLM clients (`enrichment/`) | none | `chunk_text`, `embed` in batches with one more try when throttled, `enrich` and the parsing of its reply | services |
| Object storage (`storage/`) | objects under keys | `save` returns a URI, `read` takes it; `ensure_bucket` | disk or S3 |
| Start and health server of a worker (`run_worker`, `common/health.py`, `src/deploy/helm`) | where the process stands | bucket, collection, loop; liveness probe and restart | Kubernetes |
| Metrics, config, migrations | counters, settings | — | — |

How they interact: a service changes its tables and stages an event in the
same transaction; a relay replica moves the event to the topic partition of
its document; a worker of the consumer group takes it, works in a transaction
that also inserts the claim `(event_id, group)`, and commits the Kafka offset
afterwards. A failed attempt is published again on the same topic with
`attempt + 1`, the last one on `<topic>.DLQ`. These publications do not go
through the outbox.

What is hard about it:

* nothing spans two systems: send and mark, work and offset, text or vectors
  and event, DLQ and job status are pairs of steps with a crash in between;
* a group may rebalance while a handler works, so one record is in two hands;
* a commit may succeed and its acknowledgement get lost;
* `consumer.commit()` commits whatever is assigned at that time;
* relays run as replicas and retry for ever, including what can never succeed;
* the LLM gives another answer on every attempt;
* vectors are searchable from the first upsert on, long before the row of the
  document shows, and stay if the attempt fails;
* the embedder may answer short or throttle, and the database may end a
  transaction whose handler goes on upserting;
* a filtered search filters after a top-k search of limited size;
* a request keeps its connection while the LLM answers;
* workers that start together race to create bucket and collection;
* the health server shares the event loop with the handler it is to watch.

What makes each part correct:

* outbox and relay: a row marked published is on the bus; nothing is on the
  bus without a row; replicas do not publish a row twice between them; every
  row gets out;
* consumer loop: no event is lost, the work of none is committed twice, tries
  are counted and redelivery adds no more of them than there were faults,
  offsets never move back, every event ends in `processed_events` or in the DLQ;
* handlers: one event per stage and document, an event or a status never
  announces what is not stored, the read model shows the answer the write
  model has and neither takes it back, FAILED means something is parked, and a
  document that is neither shown nor parked has an event on its way;
* enrichment: a point has the vector of its own text, and once the event is
  out the points are those it announces;
* query: what the read model shows is found and named, whatever is being
  indexed meanwhile; no connection is lost; every request ends;
* storage: what is saved can be read back from the URI on the event;
* workers: they consume only with their stores, and come back to their loop;
* the whole: accepted, extracted, enriched, shown, each at most once and in
  this order, and in the end shown or parked.

## Modules

| Module | Models | Extends |
|---|---|---|
| `Broker` | topic partitions, envelopes, `publish` | |
| `Delivery` | consumer loop, retry, DLQ, claims, offsets, rebalance, crash | `Broker` |
| `Outbox` | outbox table and relay replicas | `Broker` |
| `Pipeline` | gateway, three handlers, storage, Qdrant, jobs, read model, over the two protocols | `Outbox`, `Delivery` |
| `PipelineContract` | what the pipeline promises of a document (abstract) | |
| `ReadSide` | what the write side promises the query service (abstract) | |
| `Enrichment` | `handle_extracted` in detail: chunks, vectors, points, transactions that get lost | |
| `Retrieval` | `retrieve`: over-fetch, filter, cutoffs, limit, as operators | |
| `Query` | requests of the query service, the connection pool | `ReadSide`, `Retrieval` |
| `Supervision` | start of a worker, its event loop, probe and restart | |
| `Storage` | names, keys and URIs of the two backends | |
| `DocStream` | pipeline and query service together | `Pipeline`, an instance of `Query` |
| `MCDelivery`, `MCOutbox`, `MCPipeline`, `MCQuery`, `MCEnrichment`, `MCDocStream` | instances for TLC, fairness of the protocol modules | the module each is about |
| `BrokerProofs`, `DeliveryProofs`, `OutboxProofs`, `PipelineProofs` (with the contract), `QueryProofs` (with retrieval), `EnrichmentProofs`, `SupervisionProofs`, `DocStreamProofs` | theorems | the module each is about |

`ReadSide` is where the two halves meet. `Pipeline` and `Enrichment` implement
it, each under the refinement mapping `Read` (chunks stored: the batches done,
or the points there are; shown: the rows of `document_view`); `Query` has its
steps as environment. So what is shown of `Query` holds of the query service
over the pipeline, without the product of the two state spaces. `DocStream` says
so as a specification: the pipeline and the requests take turns, and `Service`
is `Query` with `stored` and `shown` computed from what the pipeline keeps, the
chunks being those its batches carry (`ChunksIn`).

### State and actions

`Broker`: `log` has the records of every topic partition. A record is the part
of `EventEnvelope` the protocol reads: `id` (the event id, here the position of
the outbox row), `doc` (the key) and `attempt`. `Produce` is `publish`: the
record is on the log when the call returns, in the partition of its key.

`Delivery`: `pc[w]` says where `run_worker` of `w` stands: `idle` in
`async for`, `received` before the claim, `working` in the handler's
transaction, `detached` in a handler whose session Postgres has ended,
`failed` in the `except` branch, `dead` between the DLQ publish
and `on_dlq`, `done` before `consumer.commit()`. `Claim` and `SkipDuplicate`
are the two results of `mark_processed`; a second insert of a pair waits for
the transaction that holds the first, which is the guard of `Claim`.
That transaction may end before its handler does: `LoseSession` frees the claim
while the handler goes on, to fail at its next statement or its commit, so two
handlers may well be at work on one event; only one of them gets to commit.
`WorkSucceeds`, `WorkFails`, `Requeue`, `DeadLetter` and `OnDlqReturns` are the
branches of `process_with_retry`, each external effect one step, so that
`Crash` and `Rebalance` fit between any two. `committed`, `position` and
`owner` are the group's offsets, how far the owner of a partition has read, and
who that is. `CommitOffset` commits the positions of all partitions assigned at
that moment, as aiokafka's `commit()` without arguments does. `Crash` also
stands for leaving the loop by an exception (a publish or a commit that fails,
an envelope that does not decode), as the process is started again. `Deliver`
is the environment: the relay publishes, as often as it likes.

`Outbox`: `outbox` is the table in `created_at` order, `batch[r]` the rows
replica `r` has locked, `sent[r]` those it has published in this transaction.
`FetchBatch`, `PublishRow`, `CommitBatch` are `drain_once`; `LoseBatch` is a
transaction that ends any other way, `RefuseRow` one whose publish raises every
time, because the envelope exceeds what the producer sends (`Oversized`); the
rows sent before it go back to unpublished with it. `rollbacks` counts the
transactions of either kind, the refused ones only if they had sent something.
`Redeliver` is the environment: workers put retries on the same topics.

`Pipeline`: one Postgres transaction is one action, except that the claim, the
side effects outside Postgres and the commit are separate: `SaveText` and
`UpsertBatch` happen while the handler is at work, with a session or without
(`SessionLost`), and stay when the transaction rolls back; `HandlerCommits` is the commit, with all that `handle_ingested`,
`handle_extracted` or `handle_enriched` writes. `MarkFailed` is `_mark_failed`,
which may fail silently. `SaveUpload`, `CreateJob` and `AbandonUpload` are
`ingest_document`; `CreateJob` may succeed without the client hearing of it.

`Enrichment`: one document and the workers that get a record of its event, as a
redelivery or a rebalance may put it in two hands. `Start` is the claim and the
chunking, with the configuration its process was started with; `EmbedBatch`,
`RateLimited` and `Embedded` are `embed` and the length check of
`upsert_chunks`; `UpsertBatch` and `Upserted` its loop; `AskLLM` is `enrich`
with `_parse`; `Commit` the end of the transaction. `Raise` leaves from
anywhere: storage, the embedder, Qdrant, the LLM or the commit raises.
`LoseTransaction` is what a failover or a dropped connection does: the claim is
gone at once, the handler finds out at its commit. `Redeploy` replaces the
process. A vector is modelled as the text it is the vector of, a short reply
leaves the first text of its batch out, so that mixing vectors up is visible.

`Retrieval`: a chunk is a pair of document and index, a question has a rank and
a score for each. `Top(q, S, n)` is both `query_points` with a limit and
`hits[:limit]`; `Retrieve` applies fetch, filter, floor, relative cutoff and
limit in the order of the code.

`Query`: `at[c]` says where the request of a client stands: `received` by the
endpoint, `found` after `retrieve`, `joined` after the rows are read,
`answered` by the LLM. A session takes a connection with its first statement,
which is `ReadRows`, and `get_session` gives it back when the request ends, in
`Respond` or `Fail`; a search without hits runs no statement. `free` is the
pool. `known[c]` is history: the documents shown when Qdrant was searched.

`Supervision`: `stage[w]` is where the process of a worker stands, from the
bucket check to the handler. `CheckBucket`/`CreateBucket` and
`CheckCollection`/`CreateCollection` are the two check-then-create pairs: the
loser of the first goes on, the loser of the second dies. `Block` is a handler
that computes in the event loop, `Hang` one that awaits for ever; only the
first keeps the health server from answering. `SettleRecord` is the return of
`process_with_retry`, with its publish, and `CommitOffset` the step after it.
`ProbeAnswered`, `ProbeMissed` and `Kill` are the kubelet. A container that has
missed its last probe is not killed at once: its loop may get free again, and
the kill hits it anywhere, between publish and commit as well. What that does
to the records is the `Crash` of `Delivery`.

`Storage`: a name is what precedes its first `#` or `?` and the rest; `Save` is
`save`, `PathOf` what `read` makes of the URI.

`PipelineContract`: per document the number of events announced, the outcome of
the enrichment, what is shown, and whether an event is parked.

### What is abstracted

* An event's payload is looked up in its outbox row by id. It never changes.
* Texts, chunks and vectors are there or not; `Batches[d]` is how many upserts
  a document's chunks take. The LLM's answer is a member of `Results`.
* `created_at` order is insertion order. The code orders by a clock; nothing
  checked depends on the order of rows of different documents.
* A DLQ is a set: nothing consumes it.
* The branch for a job that does not exist is left out: nothing deletes jobs
  and the event is staged with the job.
* `_mark_failed` is one step; backoff sleeps are left out (any delay is
  possible); an embedder or LLM that hangs is a worker that is slow, which
  the safety properties cover and the fairness excludes for liveness.
* `Enrichment` and `Pipeline` look at `handle_extracted` at two depths. They are
  not composed: both are shown to implement `ReadSide`, and the claim, commit
  and retry of `Pipeline` are the ones `Enrichment` takes for granted.
* Where `chunk_text` cuts is langchain's; a configuration is the sequence of
  texts it gives. What the LLM is asked and how its answer is worded is left
  out; that prose becomes `unknown` and other JSON raises is in `AskLLM`.
* Cosine scores are integers per question and chunk, ordered without ties as
  Qdrant's are by position. A question is blank or not.
* A document filter that is the empty string is a document nobody has: the code
  does not over-fetch for it, but no hit passes it however many it fetches.
* A request with an invalid `limit` is refused before any of the code runs.
* Pagination and `list_documents`'s filter on
  `classification` select among rows of the same table and are one set of rows.
* Local storage quotes names in its URIs and gets them back; the module models
  that, and the run looks at S3.
* The clean stop of a worker (`stop_event`) drops the record just fetched
  without a commit, as `Crash` does.

## What the runs check

| Run | Instance | Question |
|---|---|---|
| `delivery` | 2 extraction workers, 2 partitions, 2 events, 2 deliveries, 2 faults of any kind, fair | `NoEventLost`, `WorkedOnce`, `TriesCounted`, `RetriesBounded`, `NoProgressLost`, `EventuallySettled` |
| `outbox_replicas` | 2 relays, 3 rows, batches of 2, 1 rollback, 1 retry on the bus, fair | `PublishedIsOnBus`, `BusHasRows`, `RepublishedOnlyAfterRollback`, `StagedIsPublished` |
| `outbox_refused` | 2 relays, 3 rows, batches of 2, rows refused with others ahead of them, 1 rollback and 2 refusals that take sent rows back | `PublishedIsOnBus`, `RepublishedOnlyAfterRollback`: marks and sends still agree, and only these rounds publish a row again |
| `pipeline_faults` | 1 document, 2 upsert batches, 2 answers; 2 enrichment workers, 1 worker fault of any kind, 1 relay rollback, gateway and `_mark_failed` faults | `OneEventPerStage`, `AnnouncedIsStored`, `ReadModelAgrees`, `StatusMatchesEvents`, `FailedIsParked`, `NothingStranded`, `ResultsAreFinal`, `ImplementsContract`, `ImplementsReadSide` |
| `pipeline_liveness` | 1 document, fair, 2 worker faults | `ImplementsFairContract`, `JobsSettle` |
| `enrichment` | 2 workers, 5 chunks, embed batches of 2, upserts of 3 | `VectorsMatchTexts`, `AnnouncedIsSearchable`, `AnnouncedOnce`, `ImplementsReadSide` |
| `query_service` | 2 clients, 1 connection, documents of 2 and 4 chunks, 6 kinds of request, fair | `ShownIsFound`, `NamesAreCurrent`, `PoolBalanced`, `EveryRequestEnds` |
| `supervision` | 1 extraction and 2 enrichment workers, each blocked once at most, condemned after 2 missed probes, fair | `ConsumesWithStores`, `BackToWork` |

`DocStream` has no run in this list: its two halves have. `MCDocStream` is an
instance of it, of one document of three chunks in two batches, one client and
one fault of any kind (94 352 states, a quarter of a minute), on which
`FindsWhatIsShown`, `CitedIsExtracted` and `ImplementsQuery` hold and searches
find chunks before, between and after the two batches.

`NothingStranded` is the safety side of `JobsSettle`, and a stronger thing to
say of one state: whatever the outbox, the bus, the offsets, the claims and the
dead-letter queues look like after the last crash, together they still have the
event that takes a document on.

Each property of a passing run is also shown to depend on the code: for each
there is a mutant of a definition (the operators commented "Mutant of"), a
plausible bug such as auto-commit, a missing unique index, an offset by one in
the retry policy or a dual write, with which TLC finds it violated. No
specification uses the mutants.

Four runs show a statement of the documentation that the code does not keep:

* `outbox_blocked`: a row whose publish raises every time is fetched again and
  again as one of the oldest; the rows behind it are never published, although
  the relay is to turn "durably recorded intent" into "on the bus"
  (`gateway/relay.py`). The `attempts` column and `relay.max_attempts` look
  like the intended way out, but nothing reads them. With batches of more than
  one row the rows ahead of it in its batch are moreover published again on
  every round, for ever: `RepublishedOnlyAfterRollback` counts each of these
  rounds as the rollback it is (`outbox_refused`), and nothing bounds them.
* `enrichment_rechunked`: "Re-running with the same document_id overwrites the
  same points (idempotent)" (`enrichment/qdrant_store.py`) holds for one
  chunking. After a redeploy with a larger `embedding.chunk_size` a second
  attempt writes fewer points and announces fewer; those of the first attempt
  beyond them stay, and are found. With one configuration the property holds,
  which is the run `enrichment`.
* `worker_hung`: "a hung worker fails liveness instead of silently consuming
  nothing" (`enrichment/worker.py`), "wedged on a connection, not crashed"
  (`workers.yaml`), is not so when the handler awaits: its loop is free and
  every probe gets its 200. What the probe does catch is a loop kept busy,
  which `BackToWork` shows.
* `storage_names`: `save` is to return "a URI that `read` can resolve"
  (`storage/base.py`); with S3 a file name with a `#` or `?` gives a URI that
  leads to another key.

The models show three more things that contradict no more than a remark:

* "A failed attempt has already rolled back (including the idempotency claim)"
  (`common/retry.py`) is not so when only the acknowledgement of the commit is
  lost (`WorkSucceedsUnacked`). The effect is bounded: the retry is skipped as
  a duplicate; at the last attempt, however, the event is dead-lettered and the
  job marked FAILED although its work is done. `StatusMatchesEvents` therefore
  exempts FAILED.
* The statuses `extracting` and `enriching` are overwritten in the transaction
  that sets them, so no client ever sees them.
* Vectors are upserted before the LLM is asked; if the enrichment is then
  dead-lettered they stay searchable for a document without a row, and are
  cited without a filename. `ShownIsFound` and `NamesAreCurrent` speak of
  documents that have one.

### Bounds

Two of each actor are what it takes for one to interfere with another; a
property here relates at most two workers, two relays or two deliveries of one
event. `MaxAttempts = 2` has one retry and one exhaustion. Three outbox rows with batches
of two leave a backlog behind a full batch. Two faults allow a fault while
another is being recovered from, for instance a rebalance and then a crash of
the new owner. Five chunks in embed batches of two and upserts of three have full, partial
and differently aligned batches. Documents of two and four chunks and limits
of one, two and five put a filtered search on either side of its over-fetch of
four times the limit, and unfiltered ones on either side of the limit; one
connection for two clients is a pool at its limit. `MaxFaults`,
`MaxRollbacks`, `MaxRefusals`, `MaxEvents`, `MaxDeliveries`, `MaxRows`,
`MaxRetries` and `MaxBlocks` are the only bounds; `Enrichment` and `Query` have
none, as their histories do not grow. `MaxRefusals` cuts off only rounds that
take sent rows back: the blocked relay of `outbox_blocked`, with batches of one,
has none and goes on for ever. The proofs need none of the bounds.
Symmetry is used for the LLM's answers only, which no handler looks at.
Deadlock is not checked: an instance ends with all its records consumed, its
document shown, or its worker hung.

### Fairness

Weak fairness of each relay (`run_relay` polls for ever and survives every
exception) and of each worker (the event loop goes on; a dead worker is
restarted by its deployment). Faults are finite, each within its budget.
Nothing is assumed of the gateway's clients: a document is not bound to be
uploaded. Which way a worker's step goes is not fair either: a handler may
fail every time, and the event then has to end in the DLQ. A crash is not
counted as an attempt by the code, so a document that kills its worker every
time is redelivered for ever; the finite fault budget excludes that.

A request of the query service is served by an event loop that goes on (weak
fairness of `Serve`), and gets a connection if one is free again and again
(strong fairness of `ReadRows`): SQLAlchemy's pool hands connections to waiters
in the order they came. Without a step of the LLM being bound to succeed
(`Fail` is an alternative to it), `EveryRequestEnds` rests on the code only in
that no request waits for a connection with one in hand and each way out gives
it back.

In `Supervision` a container is restarted, a free loop goes on and probes are
periodic: weak fairness of `Boot`, `Handle` and `Probe`. There is none for
`Unblock`: a busy loop need not get free by itself, since `BackToWork` is to
follow from the probe; nor for the answer a hung handler waits for.
`Enrichment` has safety properties only; that each event is settled is a
property of the loop (`delivery`, `pipeline_liveness`).

## What is proved

All theorems hold for any number of documents, topics, partitions, workers,
relays, attempts and faults. They assume what the modules' `ASSUME`s state: the
partitioner is a function of the document, at least one attempt, at least one
worker per topic, batches of at least one row; for retrieval and queries, finitely many
documents and clients, a ranking without ties that agrees with the scores, a
pool of at least one connection; for enrichment, texts that are strings and a
mark for "no point" that is none; for the pipeline, a mark for "no job" that is
none; for the pods, thresholds of at least one. The theorems of
`DocStreamProofs` have as a hypothesis (`SystemAssumption`) what `Query` and
`Retrieval` assume of their constants, and that a document has as many batches
as its chunks need.

* `DeliveryProofs`. `DeliveryTypeCorrect`: type invariant.
  `DeliveryLosesNothing` (`NoEventLost`): not inductive by itself, since a
  commit takes the offset past the record in hand, and only what the worker did
  in earlier steps says why that is safe. `DeliveryInv` adds four facts: each
  record is in the partition its key selects; a position is ahead of the
  committed offset by no more than the one record its owner is busy with
  (`OneRecordAhead`); `on_dlq` runs after the event is parked; a worker that is
  done with the record it will commit has left its event settled or further
  down the same partition (`DoneIsCovered`). That this survives a rebalance
  rests on the new owner starting at the committed offset, and that it survives
  a retry on the retry going to the partition of the original.
  `DeliveryKeepsProgress` (`NoProgressLost`) follows from `OneRecordAhead`:
  a position is never behind the committed offset, so committing whatever is
  assigned cannot move it back. `DeliveryWorksOnce` (`WorkedOnce`): handlers
  that still have their session never work on one event at the same time
  (`ClaimExclusive`), and one that has lost it cannot commit.
  `DeliveryCountsTries` (`TriesCounted`), strengthened by: what a worker holds
  is still on the bus. `DeliveryBoundsRetries` (`RetriesBounded`): counting
  records is not inductive, as a retry is added for a record that is on the log
  already. `RetriesOwed` counts with the records at an attempt those at earlier
  attempts that the group has still to read or a worker has in hand, each of
  which may become one more; the sum grows only with a publication or with a
  fault, which puts at most one record that was consumed back.
* `OutboxProofs`. `OutboxTypeCorrect`; `OutboxMarksOnlySent`
  (`PublishedIsOnBus`), strengthened by: what a replica counts as sent is on
  the bus; `OutboxBacksTheBus` (`BusHasRows`), which has to account for retries
  as well. Both hold with refused rows and any number of rollbacks.
  `OutboxRepublishesOnlyAfterRollback` (`RepublishedOnlyAfterRollback`), for
  batches of any size and any rows refused. The invariant allows a publication less for a row that no open or committed transaction has sent
  (`PublicationsCounted`), and needs that two replicas never hold the same row
  (`LocksExclusive`).
* `PipelineProofs`. `PipelineImplementsDelivery` and
  `PipelineImplementsOutbox`: each step of the pipeline is a step or a stutter
  of the consumer loop, and of the outbox, so the two protocols keep their
  guarantees when each is the other's environment (`PipelineLosesNothing` is
  one of them, stated for the pipeline). The two simulations need each other's
  invariants (`PartsInv`): the relay delivers envelopes of known documents
  because rows are well-formed, and a retry is a redelivery in the sense of
  `Outbox` because what a worker holds is on the bus.
  `PipelineStagesOnce` (`OneEventPerStage`), the exactly-once effects: not
  inductive, since that a handler stages its event once rests on the claims.
  `StagedByClaim` ties the two: every event but the first has a row of the
  topic before it, for the same document, whose claim is committed. A handler
  at work holds an event that has a row (`HeldHasRow`, from what is proved of
  the bus) and no committed claim, so the event it is about to stage does not
  exist yet; afterwards its claim is the one that was wanted.

  The rest comes from `PipelineInv`, which adds two parts. `StoreInv`: storage
  and Qdrant only grow, what a session has done before its commit is counted by
  `progress` and is stored (`SideEffectsDone`), and the vectors of a document
  are a prefix of its batches (`PointsArePrefix`), so that an attempt that
  starts over takes nothing away; `PipelineStoresFirst` (`AnnouncedIsStored`)
  and `PipelineTypeCorrect` (`PipelineTypeOK`). `JobsInv`: job, events and read
  model of one document agree (`JobAgrees`), which each transaction changes
  together for one document; `PipelineStatusMatches` (`StatusMatchesEvents`),
  `PipelineReadModelAgrees` (`ReadModelAgrees`) and `PipelineFailedIsParked`
  (`FailedIsParked`), where `on_dlq` may mark the job because the worker that
  runs it has parked the event (`DeadDocIsParked`).

  `PipelineImplementsReadSide` and `PipelineImplementsContract`
  (`ImplementsReadSide`, `ImplementsContract`): each step of the pipeline is a
  step of the abstract specification or a stutter. The mappings count, points
  in the one and rows in the other; that the rows of a document are as many as
  the stages it went through (`RowsAreStages`) is `OneEventPerStage` again,
  with the fact that a stage is never staged before the one ahead of it
  (`NoneAfter`).

  `PipelineStrandsNothing` (`NothingStranded`) and `PipelineResultsAreFinal`
  (`ResultsAreFinal`) need to know what a claim is worth: `EffectsInv` says that
  every claim is of a row, and that a claimed event has had its effect, the
  next event or the row of the read model (`ClaimedTookEffect`). So a document
  that is not shown has an event nobody has claimed, and if it is not parked
  that event is not settled: its row is unmarked, or `PublishedIsOnBus` puts a
  record on the bus and `NoEventLost` one ahead of the committed offset
  (`UnsettledIsPending`). A result stays because only the handler of the
  extracted event sets one, it holds an event whose claim is not committed, and
  a result is there only together with the event staged under that claim; the
  projector, in turn, writes what the job has.

  `ContractShowsForGood`: from the contract alone, what is shown is what was
  announced and never changes (`ShownForGood`).
* `QueryProofs`. First retrieval, for all sets of chunks, rankings, limits and cutoffs.
  `RetrieveIsRelevant`: what `retrieve` returns is the best of the relevant
  chunks up to the limit, less those the search did not fetch. The point is
  that the relative cutoff, measured against the best hit *fetched*, agrees
  with the one measured against the best chunk there is: the hits fetched are
  an initial segment of the ranking, and so is what is above a cutoff.
  `UnfilteredIsExact`: without a filter fetching the limit loses nothing.
  `FilteredMissesTheCrowdedOut`: with one, exactly the chunks that have four
  times the limit ahead of them.

  Then requests: `QueryTypeCorrect`, `QueryBalancesPool` (`PoolBalanced`),
  `QueryFindsWhatIsShown` (`ShownIsFound`) and `QueryNamesAreCurrent`
  (`NamesAreCurrent`) from one invariant, `QueryInv`. `ShownIsFound` compares
  hits of an earlier search with what is in Qdrant now. It is inductive because
  more chunks can only add reasons for a chunk to be missing
  (`UnexpectedAmongMore`, from the monotonicity of the cutoff, the limit and
  the crowding out in the set searched), and it holds at the search because
  what is shown has all its chunks stored (`ShownIsStored`, from `ReadSide`)
  and `FilteredMissesTheCrowdedOut`. `NamesAreCurrent` needs that what was
  shown still is (`KnownIsShown`). `PoolBalanced` counts the requests that hold
  a connection, which each step changes by one client at most.
* `EnrichmentProofs`, for any number of workers, chunks and attempts and any
  two batch sizes. `EnrichmentInv` says how far a handler is at each stage
  (`StagesReached`), that at most one transaction has the claim and none once
  the event is out (`ClaimedByOne`), and `CompleteIsInOrder`: as many vectors
  as chunks sent means they are the vectors of these chunks. That is why the
  length check of `upsert_chunks` is enough against replies that leave a text
  out, and gives `EnrichmentMatchesVectors` (`VectorsMatchTexts`);
  `EnrichmentAnnouncesOnce` (`AnnouncedOnce`) follows from `ClaimedByOne`.
  `EnrichmentIsSearchable` (`AnnouncedIsSearchable`) and
  `EnrichmentImplementsReadSide` (`ImplementsReadSide`) assume that all
  configurations cut the document into the same number of chunks
  (`OneChunking`), which is what `enrichment_rechunked` lacks. Their invariant
  `SearchInv`: what an attempt has sent is stored, what is stored is a prefix
  of the chunks, and it is all of them once the event is out, since a handler
  commits with everything sent and no upsert, not even of a handler whose
  transaction is lost, takes a point away.

* `SupervisionProofs`, for any number of replicas and any thresholds.
  `WorkersConsumeWithStores` (`ConsumesWithStores`): where a process stands says
  which stores it has seen, and none is ever taken away (`StoresSeen`).
  `SupervisionTypeCorrect` (`SupervisionTypeOK`): above all, a container starts
  with no probe missed.
* `DocStreamProofs`. `SystemImplementsQuery`: each step of the system is a step
  or a stutter of the query service over `ReadSide` (that it is one of the
  pipeline is by definition). Between the two is arithmetic: a batch of a document is a
  step of at least one chunk, the last batch ends at its last chunk
  (`MoreChunks`). With them the theorems about the halves, cited from the
  instance, become theorems about the system: `SystemFindsWhatIsShown` and
  `SystemNamesAreCurrent`. `SystemCitesExtracted` (`CitedIsExtracted`) goes
  all the way through: hits are chunks that were in Qdrant and still are
  (`HitsAreStored`), chunks get there from a handler that holds the extracted
  event of their document (`PointsAreExtracted`), and that event announces a
  text that is stored for a job that exists.

Only model-checked are the liveness properties, which are out of the prover's
reach: `StagedIsPublished`, `EventuallySettled`, `JobsSettle`,
`EveryRequestEnds`, `BackToWork`, and that `Pipeline` implements the fair
contract. `SavedIsReadable` fails with S3; with local storage, or names without
`#` and `?`, it holds by the definitions and is not stated as a theorem.

## Plan

1. Done: `Broker`, `Delivery`, `Outbox`, `Pipeline`, `PipelineContract`, their
   instances and proofs.
2. Done: the query service (`Retrieval`, `Query`) over an abstract write side
   (`ReadSide`) with their proofs, enrichment in detail (`Enrichment`), worker
   start and supervision (`Supervision`), names and URIs (`Storage`).
3. Done: the safety properties of the composed pipeline, and that it implements
   `PipelineContract` and `ReadSide`; `RepublishedOnlyAfterRollback`.
4. Done: the start of workers for any number of replicas; that nothing is
   stranded and no result taken back; the composition of pipeline and query
   service (`DocStream`).
5. Next: that the loop of `Delivery` implements an abstract queue with
   exactly-once effects, which `Pipeline` could then be built on; that
   `Enrichment` implements the handler `Pipeline` has in its place.

## Not modelled

* Metrics (`common/metrics.py`, `http_metrics.py`): counters that nothing in
  the program reads. Configuration (`common/config.py`): read once; what
  matters of it is a CONSTANT. Migrations (`src/alembic`): run before any
  service starts.
* The broker's internals, which `acks=all` and idempotent producing hide;
  records that do not decode, as every record is written by this code.
* What libraries compute: text extraction, where the splitter cuts, embeddings
  and scores, prompts and prose. The fakes the tests use in their place.
* `GET /jobs/{id}`: reads one row.
* Images, secrets, ingress, autoscaling: no behaviour of this program. Replicas
  and restarts are constants and faults.
