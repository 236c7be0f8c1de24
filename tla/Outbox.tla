------------------------------- MODULE Outbox -------------------------------
(***************************************************************************)
(* The transactional outbox: rows staged by the services in the same       *)
(* transaction as the state change they announce, and the relay replicas   *)
(* that publish them (drain_once).  A replica keeps its rows locked from   *)
(* the fetch to the commit; the marks it sets in between are visible to    *)
(* nobody and are lost when the transaction fails, although what it has    *)
(* already sent stays on the bus.                                          *)
(***************************************************************************)
EXTENDS Broker

CONSTANTS
    Relays,     \* relay replicas
    BatchSize,  \* settings.relay.batch_size
    Payloads,   \* what an envelope carries besides its ids
    Oversized,  \* events whose envelope the producer refuses to send
                \* (max_request_size): a subset of Topics \X Docs
    MaxRollbacks   \* bound: batches lost to a transient failure

ASSUME OutboxAssumption ==
    /\ BatchSize \in Nat \ {0}
    /\ Oversized \subseteq Topics \X Docs
    /\ MaxRollbacks \in Nat

VARIABLES
    outbox,  \* the table, in created_at order: Seq(Row)
    batch,   \* [Relays -> SUBSET EventIds]: rows a replica has fetched, locked
    sent,    \* [Relays -> SUBSET EventIds]: those of them it has published
    rollbacks   \* transactions rolled back so far, with rows sent or by a fault

outboxVars == <<log, rollbacks, outbox, batch, sent>>

Row == [topic : Topics, doc : Docs, payload : Payloads, published : BOOLEAN]

RowIds == 1 .. Len(outbox)

(* The record the relay sends for row i. *)
RecordOf(i) == FirstAttempt(i, outbox[i].doc)

OutboxInit ==
    /\ BrokerInit
    /\ outbox = <<>>
    /\ batch = [r \in Relays |-> {}]
    /\ sent = [r \in Relays |-> {}]
    /\ rollbacks = 0

-----------------------------------------------------------------------------
(* enqueue_event: a row, part of the caller's transaction. *)
Enqueue(t, d, p) ==
    outbox' = Append(outbox, [topic |-> t, doc |-> d, payload |-> p,
                              published |-> FALSE])

(* Mutant of Fetchable: SELECT without FOR UPDATE SKIP LOCKED. *)
FetchableIgnoresLocks == {i \in RowIds : ~outbox[i].published}

(* Rows a replica may fetch: unpublished, and not locked by another one
   (FOR UPDATE SKIP LOCKED). *)
Fetchable ==
    {i \in RowIds : ~outbox[i].published /\ \A q \in Relays : i \notin batch[q]}

(* The first n rows of S. *)
Oldest(S, n) == {i \in S : Cardinality({j \in S : j < i}) < n}

(* Mutant of FetchBatch: the replica waits for a full batch. *)
FetchFullBatch(r) ==
    /\ batch[r] = {}
    /\ Cardinality(Fetchable) >= BatchSize
    /\ batch' = [batch EXCEPT ![r] = Oldest(Fetchable, BatchSize)]
    /\ UNCHANGED <<log, rollbacks, outbox, sent>>

(* fetch_unpublished: an idle replica locks the oldest rows it can get. *)
FetchBatch(r) ==
    /\ batch[r] = {}
    /\ Fetchable # {}
    /\ batch' = [batch EXCEPT ![r] = Oldest(Fetchable, BatchSize)]
    /\ UNCHANGED <<log, rollbacks, outbox, sent>>

(* The row r publishes next. *)
IsNext(r, i) ==
    /\ i \in batch[r] \ sent[r]
    /\ \A j \in batch[r] \ sent[r] : i <= j

Sendable(i) == <<outbox[i].topic, outbox[i].doc>> \notin Oversized

(* The producer has the record acknowledged; the row is marked in the
   replica's session only. *)
PublishRow(r) ==
    \E i \in RowIds :
        /\ IsNext(r, i)
        /\ Sendable(i)
        /\ Produce(outbox[i].topic, RecordOf(i))
        /\ sent' = [sent EXCEPT ![r] = @ \cup {i}]
        /\ UNCHANGED <<rollbacks, outbox, batch>>

(* Mutant of Release: what was sent is remembered across transactions. *)
ReleaseKeepsSent(r) ==
    /\ batch' = [batch EXCEPT ![r] = {}]
    /\ UNCHANGED sent

(* The transaction of r is over: its locks and its marks go. *)
Release(r) ==
    /\ batch' = [batch EXCEPT ![r] = {}]
    /\ sent' = [sent EXCEPT ![r] = {}]

(* Mutant of CommitBatch: the rows are marked before they are sent. *)
CommitUnsent(r) ==
    /\ batch[r] # {}
    /\ outbox' = [i \in RowIds |->
                     [outbox[i] EXCEPT !.published = (@ \/ i \in batch[r])]]
    /\ Release(r)
    /\ UNCHANGED <<log, rollbacks>>

(* The batch is through: the marks become visible, the locks go. *)
CommitBatch(r) ==
    /\ batch[r] # {}
    /\ sent[r] = batch[r]
    /\ outbox' = [i \in RowIds |->
                     [outbox[i] EXCEPT !.published = (@ \/ i \in batch[r])]]
    /\ Release(r)
    /\ UNCHANGED <<log, rollbacks>>

(* Mutant of RefuseRow: the refused batch is marked like one that is sent. *)
SkipRefused(r) ==
    /\ \E i \in RowIds : IsNext(r, i) /\ ~Sendable(i)
    /\ outbox' = [i \in RowIds |->
                     [outbox[i] EXCEPT !.published = (@ \/ i \in batch[r])]]
    /\ Release(r)
    /\ UNCHANGED <<log, rollbacks>>

(* publish raises on the next row, every time: run_relay logs the exception
   and the whole batch rolls back, the marks of the rows sent before it too. *)
RefuseRow(r) ==
    /\ \E i \in RowIds : IsNext(r, i) /\ ~Sendable(i)
    /\ rollbacks' = IF sent[r] = {} THEN rollbacks ELSE rollbacks + 1
    /\ Release(r)
    /\ UNCHANGED <<log, outbox>>

(* The relay dies, or a publish or the commit fails for once. *)
LoseBatch(r) ==
    /\ batch[r] # {}
    /\ rollbacks < MaxRollbacks
    /\ rollbacks' = rollbacks + 1
    /\ Release(r)
    /\ UNCHANGED <<log, outbox>>

(* What a replica does of itself. *)
RelayStep(r) ==
    \/ FetchBatch(r)
    \/ PublishRow(r)
    \/ CommitBatch(r)
    \/ RefuseRow(r)

(* Mutant of Stage: a dual write, on the bus although the transaction of the
   service rolls back. *)
StageDirectly(t, d, p) ==
    /\ Produce(t, FirstAttempt(Len(outbox) + 1, d))
    /\ UNCHANGED <<outbox, rollbacks, batch, sent>>

(* Some service stages an event. *)
Stage(t, d, p) ==
    /\ Enqueue(t, d, p)
    /\ UNCHANGED <<log, rollbacks, batch, sent>>

(* A worker puts a retry of an event on the bus, past the outbox. *)
Redeliver(t) ==
    \E p \in Partitions : \E i \in 1 .. Len(log[<<t, p>>]) :
        LET m == log[<<t, p>>][i] IN
        /\ m.attempt + 1 < MaxAttempts
        /\ Produce(t, NextAttempt(m))
        /\ UNCHANGED <<outbox, batch, sent, rollbacks>>

OutboxNext ==
    \/ \E t \in Topics, d \in Docs, p \in Payloads : Stage(t, d, p)
    \/ \E r \in Relays : RelayStep(r) \/ LoseBatch(r)
    \/ \E t \in Topics : Redeliver(t)

OutboxSpec == OutboxInit /\ [][OutboxNext]_outboxVars

-----------------------------------------------------------------------------
(* Properties. *)

(* Every variable has its type; a replica has sent only rows it has locked. *)
OutboxTypeOK ==
    /\ BrokerTypeOK
    /\ outbox \in Seq(Row)
    /\ batch \in [Relays -> SUBSET RowIds]
    /\ sent \in [Relays -> SUBSET RowIds]
    /\ \A r \in Relays : sent[r] \subseteq batch[r]
    /\ rollbacks \in Nat

(* Where the bus has event i as the relay publishes it. *)
PublicationsOf(i) ==
    LET s == StreamOf(outbox[i].topic, RecordOf(i)) IN
    {j \in 1 .. Len(log[s]) : log[s][j] = RecordOf(i)}

(* A row that says published is on the bus: the mark never commits before
   the send (drain_once, "a crash mid-batch re-delivers rather than
   dropping"). *)
PublishedIsOnBus ==
    \A i \in RowIds : outbox[i].published => PublicationsOf(i) # {}

(* Nothing is on the bus that the database does not have: each record belongs
   to a committed row of its topic and document. *)
BusHasRows ==
    \A s \in Streams : \A j \in 1 .. Len(log[s]) :
        LET m == log[s][j] IN
        /\ m.id \in RowIds
        /\ outbox[m.id].topic = s[1]
        /\ outbox[m.id].doc = m.doc
        /\ s = StreamOf(s[1], m)

(* Replicas do not publish a row twice between them: each publication beyond
   the first takes a transaction that was rolled back after it had sent rows,
   by a fault or because the producer refused a later row of the batch
   (fetch_unpublished, "so multiple relay replicas don't publish the same event
   twice"). *)
RepublishedOnlyAfterRollback ==
    \A i \in RowIds : Cardinality(PublicationsOf(i)) <= 1 + rollbacks
=============================================================================
