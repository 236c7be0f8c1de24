---------------------------- MODULE OutboxProofs ----------------------------
(***************************************************************************)
(* Proofs about Outbox, for any relay replicas, batch size, topics,        *)
(* documents and number of rollbacks, oversized events included.           *)
(***************************************************************************)
EXTENDS Outbox, BrokerProofs, SequenceTheorems, FiniteSetTheorems

-----------------------------------------------------------------------------
(* Types. *)

(* The two ways the table changes leave it a table: enqueue_event adds a row
   at the end, mark_published flips a column. *)
LEMMA EnqueueAppends ==
    ASSUME outbox \in Seq(Row), NEW t \in Topics, NEW d \in Docs,
           NEW p \in Payloads, Enqueue(t, d, p)
    PROVE  /\ outbox' \in Seq(Row)
           /\ Len(outbox') = Len(outbox) + 1
           /\ \A i \in RowIds : outbox'[i] = outbox[i]
           /\ outbox'[Len(outbox) + 1].topic = t
           /\ outbox'[Len(outbox) + 1].doc = d
           /\ outbox'[Len(outbox) + 1].payload = p
           /\ ~outbox'[Len(outbox) + 1].published
  <1> DEFINE row == [topic |-> t, doc |-> d, payload |-> p, published |-> FALSE]
  <1>1. row \in Row
    BY DEF Row
  <1>2. outbox' = Append(outbox, row)
    BY DEF Enqueue
  <1>3. row.topic = t /\ row.doc = d /\ row.payload = p /\ ~row.published
    OBVIOUS
  <1> HIDE DEF row
  <1>4. QED
    BY <1>1, <1>2, <1>3 DEF RowIds

LEMMA CommitMarks ==
    ASSUME outbox \in Seq(Row), NEW r \in Relays, CommitBatch(r)
    PROVE  /\ outbox' \in Seq(Row)
           /\ Len(outbox') = Len(outbox)
           /\ \A i \in RowIds :
                 /\ outbox'[i].topic = outbox[i].topic
                 /\ outbox'[i].doc = outbox[i].doc
                 /\ outbox'[i].payload = outbox[i].payload
                 /\ outbox'[i].published <=>
                       outbox[i].published \/ i \in batch[r]
  <1> DEFINE n == Len(outbox)
             marked(i) == [outbox[i] EXCEPT
                              !.published = (@ \/ i \in batch[r])]
  <1>1. n \in Nat
    OBVIOUS
  <1>2. ASSUME NEW i \in 1 .. n
        PROVE  /\ marked(i) \in Row
               /\ marked(i).topic = outbox[i].topic
               /\ marked(i).doc = outbox[i].doc
               /\ marked(i).payload = outbox[i].payload
               /\ marked(i).published <=> outbox[i].published \/ i \in batch[r]
    <2>1. outbox[i] \in Row
      OBVIOUS
    <2>2. (outbox[i].published \/ i \in batch[r]) \in BOOLEAN
      OBVIOUS
    <2>3. QED
      BY <2>1, <2>2, Zenon DEF Row
  <1>3. outbox' = [i \in 1 .. n |-> marked(i)]
    BY DEF CommitBatch, RowIds
  <1> HIDE DEF marked
  <1>4. outbox' \in [1 .. n -> Row]
    BY <1>2, <1>3
  <1>5. outbox' \in Seq(Row)
    BY <1>1, <1>4, SeqDef
  <1>6. Len(outbox') = n
    BY <1>1, <1>3, <1>5
  <1>7. QED
    BY <1>2, <1>3, <1>5, <1>6 DEF RowIds

LEMMA OutboxInitTypeOK == OutboxInit => OutboxTypeOK
  BY EmptySeq, OutboxAssumption
  DEF OutboxInit, OutboxTypeOK, BrokerInit, BrokerTypeOK, RowIds

LEMMA RecordOfType ==
    ASSUME OutboxTypeOK, NEW i \in RowIds
    PROVE  /\ outbox[i] \in Row
           /\ outbox[i].topic \in Topics /\ outbox[i].doc \in Docs
           /\ RecordOf(i) \in Message
           /\ RecordOf(i).id = i /\ RecordOf(i).doc = outbox[i].doc
           /\ RecordOf(i).attempt = 0
  <1>1. outbox[i] \in Row /\ i \in EventIds
    BY DEF OutboxTypeOK, RowIds, EventIds
  <1>2. QED
    BY <1>1, EnvelopeType DEF RecordOf, FirstAttempt, Row

(* A retry is a record that is on the bus, one attempt on. *)
LEMMA RedeliverRetries ==
    ASSUME OutboxTypeOK, NEW t \in Topics, Redeliver(t)
    PROVE  \E m \in Message :
              /\ \E p \in Partitions : \E i \in 1 .. Len(log[<<t, p>>]) :
                    log[<<t, p>>][i] = m
              /\ m.attempt + 1 < MaxAttempts
              /\ Produce(t, NextAttempt(m))
              /\ UNCHANGED <<outbox, batch, sent, rollbacks>>
  <1>1. PICK p \in Partitions : \E i \in 1 .. Len(log[<<t, p>>]) :
           /\ log[<<t, p>>][i].attempt + 1 < MaxAttempts
           /\ Produce(t, NextAttempt(log[<<t, p>>][i]))
           /\ UNCHANGED <<outbox, batch, sent, rollbacks>>
    BY DEF Redeliver
  <1>2. \A i \in 1 .. Len(log[<<t, p>>]) : log[<<t, p>>][i] \in Message
    BY DEF OutboxTypeOK, BrokerTypeOK, Streams
  <1>3. QED
    BY <1>1, <1>2

LEMMA OutboxNextTypeOK ==
    ASSUME OutboxTypeOK, [OutboxNext]_outboxVars
    PROVE  OutboxTypeOK'
  <1> USE DEF OutboxTypeOK
  <1>0. Len(outbox) \in Nat
    OBVIOUS
  <1>1. ASSUME NEW t \in Topics, NEW d \in Docs, NEW p \in Payloads,
               Stage(t, d, p)
        PROVE  OutboxTypeOK'
    <2>1. outbox' \in Seq(Row) /\ Len(outbox') = Len(outbox) + 1
      BY <1>1, EnqueueAppends DEF Stage
    <2>2. RowIds \subseteq RowIds'
      BY <1>0, <2>1 DEF RowIds
    <2>3. QED
      BY <1>1, <2>1, <2>2 DEF Stage, BrokerTypeOK
  <1>2. ASSUME NEW r \in Relays, FetchBatch(r)
        PROVE  OutboxTypeOK'
    <2>1. Oldest(Fetchable, BatchSize) \subseteq RowIds
      BY DEF Oldest, Fetchable
    <2>2. sent[r] = {}
      BY <1>2 DEF FetchBatch
    <2>3. QED
      BY <1>2, <2>1, <2>2 DEF FetchBatch, BrokerTypeOK, RowIds
  <1>3. ASSUME NEW r \in Relays, PublishRow(r)
        PROVE  OutboxTypeOK'
    <2>1. PICK i \in RowIds : /\ IsNext(r, i)
                              /\ Produce(outbox[i].topic, RecordOf(i))
                              /\ sent' = [sent EXCEPT ![r] = @ \cup {i}]
                              /\ UNCHANGED <<rollbacks, outbox, batch>>
      BY <1>3 DEF PublishRow
    <2>2. BrokerTypeOK'
      BY <2>1, RecordOfType, ProduceAppends
    <2>3. QED
      BY <2>1, <2>2 DEF IsNext, RowIds
  <1>4. ASSUME NEW r \in Relays, CommitBatch(r)
        PROVE  OutboxTypeOK'
    <2>1. outbox' \in Seq(Row) /\ Len(outbox') = Len(outbox)
      BY <1>4, CommitMarks
    <2>2. QED
      BY <1>4, <2>1 DEF CommitBatch, Release, RowIds, BrokerTypeOK
  <1>5. ASSUME NEW r \in Relays, RefuseRow(r) \/ LoseBatch(r)
        PROVE  OutboxTypeOK'
    <2>1. rollbacks' \in Nat
      BY <1>5 DEF RefuseRow, LoseBatch
    <2>2. QED
      BY <1>5, <2>1 DEF RefuseRow, LoseBatch, Release, RowIds, BrokerTypeOK
  <1>6. ASSUME NEW t \in Topics, Redeliver(t)
        PROVE  OutboxTypeOK'
    <2>1. PICK m \in Message : /\ m.attempt + 1 < MaxAttempts
                               /\ Produce(t, NextAttempt(m))
                               /\ UNCHANGED <<outbox, batch, sent, rollbacks>>
      BY <1>6, RedeliverRetries
    <2>2. BrokerTypeOK'
      BY <2>1, EnvelopeType, ProduceAppends
    <2>3. QED
      BY <2>1, <2>2 DEF RowIds
  <1>7. CASE UNCHANGED outboxVars
    BY <1>7 DEF outboxVars, RowIds, BrokerTypeOK
  <1>8. QED
    BY <1>1, <1>2, <1>3, <1>4, <1>5, <1>6, <1>7 DEF OutboxNext, RelayStep

(* Every variable of the outbox and its relays keeps its type. *)
THEOREM OutboxTypeCorrect == OutboxSpec => []OutboxTypeOK
  BY OutboxInitTypeOK, OutboxNextTypeOK, PTL DEF OutboxSpec

-----------------------------------------------------------------------------
(* What a row says of its event is final, and rows are never deleted. *)
RowsKept ==
    /\ Len(outbox) <= Len(outbox')
    /\ \A i \in RowIds : /\ outbox'[i].topic = outbox[i].topic
                         /\ outbox'[i].doc = outbox[i].doc
                         /\ outbox'[i].payload = outbox[i].payload

LEMMA NextRowsKept ==
    ASSUME OutboxTypeOK, [OutboxNext]_outboxVars
    PROVE  RowsKept
  <1> USE DEF RowsKept, RowIds
  <1>0. outbox \in Seq(Row) /\ Len(outbox) \in Nat
    BY DEF OutboxTypeOK
  <1>1. ASSUME NEW t \in Topics, NEW d \in Docs, NEW p \in Payloads,
               Stage(t, d, p)
        PROVE  RowsKept
    BY <1>0, <1>1, EnqueueAppends DEF Stage
  <1>2. ASSUME NEW r \in Relays, CommitBatch(r)
        PROVE  RowsKept
    BY <1>0, <1>2, CommitMarks
  <1>3. CASE UNCHANGED outbox
    BY <1>0, <1>3
  <1>4. ASSUME \/ \E r \in Relays : \/ FetchBatch(r) \/ PublishRow(r)
                                    \/ RefuseRow(r) \/ LoseBatch(r)
               \/ \E t \in Topics : Redeliver(t)
               \/ UNCHANGED outboxVars
        PROVE  UNCHANGED outbox
    BY <1>4 DEF FetchBatch, PublishRow, RefuseRow, LoseBatch, Redeliver,
                outboxVars
  <1>5. QED
    BY <1>1, <1>2, <1>3, <1>4 DEF OutboxNext, RelayStep

(* The bus only grows, by a publication or by a retry. *)
LEMMA OutboxNextLog ==
    ASSUME OutboxTypeOK, [OutboxNext]_outboxVars
    PROVE  \/ UNCHANGED log
           \/ \E r \in Relays : PublishRow(r)
           \/ \E t \in Topics : Redeliver(t)
  <1>1. ASSUME NEW r \in Relays,
               FetchBatch(r) \/ CommitBatch(r) \/ RefuseRow(r) \/ LoseBatch(r)
        PROVE  UNCHANGED log
    BY <1>1 DEF FetchBatch, CommitBatch, RefuseRow, LoseBatch
  <1>2. ASSUME NEW t \in Topics, NEW d \in Docs, NEW p \in Payloads,
               Stage(t, d, p)
        PROVE  UNCHANGED log
    BY <1>2 DEF Stage
  <1>3. QED
    BY <1>1, <1>2 DEF OutboxNext, RelayStep, outboxVars

(* A row's record and place on the bus are fixed by its topic and document. *)
LEMMA PublicationsGrow ==
    ASSUME OutboxTypeOK, [OutboxNext]_outboxVars, NEW i \in RowIds
    PROVE  /\ i \in RowIds'
           /\ RecordOf(i)' = RecordOf(i)
           /\ PublicationsOf(i) \subseteq PublicationsOf(i)'
  <1> DEFINE m == RecordOf(i)
             s == StreamOf(outbox[i].topic, m)
  <1>1. /\ m \in Message /\ s \in Streams
        /\ BrokerTypeOK
        /\ Len(log[s]) \in Nat /\ Len(outbox) \in Nat
    <2>1. m \in Message /\ outbox[i].topic \in Topics
      BY RecordOfType
    <2>2. s \in Streams
      BY <2>1, BrokerAssumption DEF StreamOf, Streams, Message
    <2> HIDE DEF m, s
    <2>3. QED
      BY <2>1, <2>2 DEF OutboxTypeOK, BrokerTypeOK
  <1>2. /\ i \in RowIds'
        /\ m' = m
        /\ StreamOf(outbox[i].topic, m)' = s
    <2>1. RowsKept /\ Len(outbox') \in Nat
      BY NextRowsKept, OutboxNextTypeOK DEF OutboxTypeOK
    <2>2. QED
      BY <1>1, <2>1 DEF RowsKept, RowIds, RecordOf, FirstAttempt, StreamOf
  <1>3. /\ Len(log[s]) <= Len(log'[s])
        /\ \A j \in 1 .. Len(log[s]) : log'[s][j] = log[s][j]
    <2> HIDE DEF s
    <2>1. ASSUME NEW t \in Topics, NEW n \in Message, Produce(t, n)
          PROVE  /\ Len(log[s]) <= Len(log'[s])
                 /\ \A j \in 1 .. Len(log[s]) : log'[s][j] = log[s][j]
      BY <1>1, <2>1, ProduceAppends
    <2>2. ASSUME NEW r \in Relays, PublishRow(r)
          PROVE  \E t \in Topics, n \in Message : Produce(t, n)
      BY <2>2, RecordOfType DEF PublishRow
    <2>3. ASSUME NEW t \in Topics, Redeliver(t)
          PROVE  \E n \in Message : Produce(t, n)
      BY <2>3, RedeliverRetries, EnvelopeType
    <2>4. QED
      BY <1>1, <2>1, <2>2, <2>3, OutboxNextLog
  <1>4. PublicationsOf(i) = {j \in 1 .. Len(log[s]) : log[s][j] = m}
    BY DEF PublicationsOf
  <1>5. PublicationsOf(i)' = {j \in 1 .. Len(log'[s]) : log'[s][j] = m}
    BY <1>2 DEF PublicationsOf
  <1> HIDE DEF m, s
  <1>6. PublicationsOf(i) \subseteq PublicationsOf(i)'
    <2> SUFFICES ASSUME NEW j \in PublicationsOf(i)
                 PROVE  j \in PublicationsOf(i)'
      OBVIOUS
    <2>1. j \in 1 .. Len(log[s]) /\ log[s][j] = m
      BY <1>4
    <2>2. Len(log'[s]) \in Nat
      BY <1>1, OutboxNextTypeOK DEF OutboxTypeOK, BrokerTypeOK
    <2>3. j \in 1 .. Len(log'[s]) /\ log'[s][j] = m
      BY <1>1, <1>3, <2>1, <2>2
    <2>4. QED
      BY <1>5, <2>3
  <1>7. QED
    BY <1>2, <1>6 DEF m

-----------------------------------------------------------------------------
(* The bus and the database agree. *)

(* A replica's session marks a row only after its send. *)
SentIsOnBus ==
    \A r \in Relays : \A i \in sent[r] : PublicationsOf(i) # {}

OutboxInv ==
    /\ OutboxTypeOK
    /\ BusHasRows
    /\ SentIsOnBus
    /\ PublishedIsOnBus

LEMMA NextBusHasRows ==
    ASSUME OutboxTypeOK, BusHasRows, [OutboxNext]_outboxVars
    PROVE  BusHasRows'
  <1>0. /\ BrokerTypeOK /\ RowsKept
        /\ Len(outbox) \in Nat /\ Len(outbox') \in Nat
        /\ \A s \in Streams : Len(log[s]) \in Nat
    BY NextRowsKept, OutboxNextTypeOK DEF OutboxTypeOK, BrokerTypeOK
  <1>1. CASE UNCHANGED log
    BY <1>0, <1>1 DEF BusHasRows, RowsKept, RowIds, StreamOf
  <1>2. ASSUME NEW t \in Topics, NEW m \in Message, Produce(t, m),
               m.id \in RowIds, outbox[m.id].topic = t, outbox[m.id].doc = m.doc
        PROVE  BusHasRows'
    <2> SUFFICES ASSUME NEW s \in Streams, NEW j \in 1 .. Len(log'[s]),
                        NEW n, n = log'[s][j]
                 PROVE  /\ n.id \in RowIds'
                        /\ outbox'[n.id].topic = s[1]
                        /\ outbox'[n.id].doc = n.doc
                        /\ s = StreamOf(s[1], n)
      BY DEF BusHasRows, StreamOf
    <2>1. CASE j \in 1 .. Len(log[s])
      <3>1. n = log[s][j]
        BY <1>0, <1>2, <2>1, ProduceAppends
      <3>2. /\ n.id \in RowIds
            /\ outbox[n.id].topic = s[1]
            /\ outbox[n.id].doc = n.doc
            /\ s = StreamOf(s[1], n)
        BY <2>1, <3>1 DEF BusHasRows
      <3>3. QED
        BY <1>0, <3>2 DEF RowsKept, RowIds
    <2>2. CASE j \notin 1 .. Len(log[s])
      <3>1. s = StreamOf(t, m) /\ n = m
        BY <1>0, <1>2, <2>2, ProduceAppends
      <3>2. s[1] = t
        BY <3>1 DEF StreamOf
      <3>3. QED
        BY <1>0, <1>2, <3>1, <3>2 DEF RowsKept, RowIds
    <2>3. QED
      BY <2>1, <2>2
  <1>3. ASSUME NEW r \in Relays, PublishRow(r)
        PROVE  BusHasRows'
    BY <1>2, <1>3, RecordOfType DEF PublishRow
  <1>4. ASSUME NEW t \in Topics, Redeliver(t)
        PROVE  BusHasRows'
    <2>1. PICK m \in Message :
             /\ \E p \in Partitions : \E i \in 1 .. Len(log[<<t, p>>]) :
                   log[<<t, p>>][i] = m
             /\ m.attempt + 1 < MaxAttempts
             /\ Produce(t, NextAttempt(m))
      BY <1>4, RedeliverRetries DEF OutboxTypeOK
    <2>2. /\ m.id \in RowIds
          /\ outbox[m.id].topic = t
          /\ outbox[m.id].doc = m.doc
      BY <2>1 DEF BusHasRows, Streams
    <2>3. QED
      BY <1>2, <2>1, <2>2, EnvelopeType
  <1>5. QED
    BY <1>1, <1>3, <1>4, OutboxNextLog

(* What one more record on the bus means for the publications of a row. *)
LEMMA ProducePublishes ==
    ASSUME OutboxTypeOK, UNCHANGED outbox, NEW t \in Topics,
           NEW m \in Message, Produce(t, m), NEW k \in RowIds
    PROVE  /\ m = RecordOf(k) /\ t = outbox[k].topic =>
                 \E j : /\ j \notin PublicationsOf(k)
                        /\ PublicationsOf(k)' = PublicationsOf(k) \cup {j}
           /\ m # RecordOf(k) => PublicationsOf(k)' = PublicationsOf(k)
  <1> DEFINE n == RecordOf(k)
             s == StreamOf(outbox[k].topic, n)
  <1>1. /\ n \in Message /\ outbox[k].topic \in Topics
        /\ n' = n /\ s' = s
    BY RecordOfType DEF RecordOf, FirstAttempt, StreamOf
  <1>2. s \in Streams
    BY <1>1, BrokerAssumption DEF StreamOf, Streams, Message
  <1>3. PublicationsOf(k) = {j \in 1 .. Len(log[s]) : log[s][j] = n}
    BY DEF PublicationsOf
  <1>4. PublicationsOf(k)' = {j \in 1 .. Len(log'[s]) : log'[s][j] = n}
    BY <1>1 DEF PublicationsOf
  <1>5. BrokerTypeOK /\ Len(log[s]) \in Nat
    BY <1>2 DEF OutboxTypeOK, BrokerTypeOK
  <1>6. m = n /\ t = outbox[k].topic => s = StreamOf(t, m)
    OBVIOUS
  <1> HIDE DEF n, s
  <1>7. /\ s # StreamOf(t, m) => log'[s] = log[s]
        /\ s = StreamOf(t, m) => /\ Len(log'[s]) = Len(log[s]) + 1
                                 /\ log'[s][Len(log[s]) + 1] = m
        /\ \A j \in 1 .. Len(log[s]) : log'[s][j] = log[s][j]
    BY <1>2, <1>5, ProduceAppends
  <1>8. CASE s # StreamOf(t, m)
    BY <1>3, <1>4, <1>6, <1>7, <1>8 DEF n
  <1>9. CASE s = StreamOf(t, m)
    <2>1. ASSUME NEW j
          PROVE  j \in PublicationsOf(k)' <=>
                    \/ j \in PublicationsOf(k)
                    \/ j = Len(log[s]) + 1 /\ m = n
      <3>1. /\ j \in PublicationsOf(k) <=>
                  j \in 1 .. Len(log[s]) /\ log[s][j] = n
            /\ j \in PublicationsOf(k)' <=>
                  j \in 1 .. Len(log'[s]) /\ log'[s][j] = n
        BY <1>3, <1>4
      <3>2. j \in 1 .. Len(log'[s]) <=>
               j \in 1 .. Len(log[s]) \/ j = Len(log[s]) + 1
        BY <1>5, <1>7, <1>9
      <3>3. CASE j = Len(log[s]) + 1
        <4>1. j \notin 1 .. Len(log[s])
          BY <1>5, <3>3
        <4>2. log'[s][j] = m
          BY <1>7, <1>9, <3>3
        <4>3. QED
          BY <3>1, <3>2, <3>3, <4>1, <4>2
      <3>4. CASE j # Len(log[s]) + 1
        <4>1. j \in 1 .. Len(log[s]) => log'[s][j] = log[s][j]
          BY <1>7
        <4>2. QED
          BY <3>1, <3>2, <3>4, <4>1
      <3>5. QED
        BY <3>3, <3>4
    <2>2. Len(log[s]) + 1 \notin PublicationsOf(k)
      BY <1>3, <1>5
    <2>3. m = n => PublicationsOf(k)' = PublicationsOf(k) \cup {Len(log[s]) + 1}
      BY <2>1
    <2>4. m # n => PublicationsOf(k)' = PublicationsOf(k)
      <3>1. ASSUME m # n, NEW j
            PROVE  j \in PublicationsOf(k)' <=> j \in PublicationsOf(k)
        BY <2>1, <3>1
      <3>2. QED
        BY <1>3, <1>4, <3>1
    <2>5. QED
      BY <2>2, <2>3, <2>4 DEF n
  <1>10. QED
    BY <1>8, <1>9

(* The relay publishes one row: that row gains one publication, others none. *)
LEMMA PublishRowPublishes ==
    ASSUME OutboxTypeOK, NEW r \in Relays, PublishRow(r)
    PROVE  \E i \in batch[r] \ sent[r] :
              /\ sent' = [sent EXCEPT ![r] = @ \cup {i}]
              /\ UNCHANGED <<rollbacks, outbox, batch>>
              /\ \E j : /\ j \notin PublicationsOf(i)
                        /\ PublicationsOf(i)' = PublicationsOf(i) \cup {j}
              /\ \A k \in RowIds \ {i} : PublicationsOf(k)' = PublicationsOf(k)
  <1>1. PICK i \in RowIds : /\ IsNext(r, i)
                            /\ Produce(outbox[i].topic, RecordOf(i))
                            /\ sent' = [sent EXCEPT ![r] = @ \cup {i}]
                            /\ UNCHANGED <<rollbacks, outbox, batch>>
    BY DEF PublishRow
  <1>2. /\ RecordOf(i) \in Message /\ outbox[i].topic \in Topics
        /\ \A k \in RowIds : RecordOf(k).id = k
    BY RecordOfType
  <1>3. \E j : /\ j \notin PublicationsOf(i)
               /\ PublicationsOf(i)' = PublicationsOf(i) \cup {j}
    BY <1>1, <1>2, ProducePublishes
  <1>4. \A k \in RowIds \ {i} : PublicationsOf(k)' = PublicationsOf(k)
    BY <1>1, <1>2, ProducePublishes
  <1>5. i \in batch[r] \ sent[r]
    BY <1>1 DEF IsNext
  <1>6. QED
    BY <1>1, <1>3, <1>4, <1>5

LEMMA NextSentIsOnBus ==
    ASSUME OutboxTypeOK, SentIsOnBus, [OutboxNext]_outboxVars
    PROVE  SentIsOnBus'
  <1> SUFFICES ASSUME NEW q \in Relays, NEW i \in sent'[q]
               PROVE  PublicationsOf(i)' # {}
    BY DEF SentIsOnBus
  <1>1. CASE i \in sent[q]
    <2>1. i \in RowIds /\ PublicationsOf(i) # {}
      BY <1>1 DEF SentIsOnBus, OutboxTypeOK
    <2>2. QED
      BY <2>1, PublicationsGrow
  <1>2. CASE i \notin sent[q]
    <2>1. ASSUME NEW r \in Relays, PublishRow(r)
          PROVE  PublicationsOf(i)' # {}
      <3>1. PICK k \in batch[r] \ sent[r] :
                /\ sent' = [sent EXCEPT ![r] = @ \cup {k}]
                /\ \E j : PublicationsOf(k)' = PublicationsOf(k) \cup {j}
        BY <2>1, PublishRowPublishes
      <3>2. i = k
        BY <1>2, <3>1 DEF OutboxTypeOK
      <3>3. QED
        BY <3>1, <3>2
    <2>2. ASSUME NEW r \in Relays, \/ FetchBatch(r) \/ CommitBatch(r)
                                   \/ RefuseRow(r) \/ LoseBatch(r)
          PROVE  sent'[q] \subseteq sent[q]
      BY <2>2 DEF FetchBatch, CommitBatch, RefuseRow, LoseBatch, Release,
                  OutboxTypeOK
    <2>3. ASSUME \/ \E t \in Topics, d \in Docs, p \in Payloads : Stage(t, d, p)
                 \/ \E t \in Topics : Redeliver(t)
                 \/ UNCHANGED outboxVars
          PROVE  sent' = sent
      BY <2>3 DEF Stage, Redeliver, outboxVars
    <2>4. QED
      BY <1>2, <2>1, <2>2, <2>3 DEF OutboxNext, RelayStep
  <1>3. QED
    BY <1>1, <1>2

LEMMA NextPublishedIsOnBus ==
    ASSUME OutboxTypeOK, SentIsOnBus, PublishedIsOnBus,
           [OutboxNext]_outboxVars
    PROVE  PublishedIsOnBus'
  <1> SUFFICES ASSUME NEW i \in RowIds', outbox'[i].published
               PROVE  PublicationsOf(i)' # {}
    BY DEF PublishedIsOnBus
  <1>0. outbox \in Seq(Row) /\ Len(outbox) \in Nat
    BY DEF OutboxTypeOK
  <1>1. ASSUME i \in RowIds, outbox[i].published
        PROVE  PublicationsOf(i)' # {}
    BY <1>1, PublicationsGrow DEF PublishedIsOnBus
  <1>2. ASSUME NEW r \in Relays, CommitBatch(r)
        PROVE  PublicationsOf(i)' # {}
    <2>1. i \in RowIds /\ (outbox[i].published \/ i \in batch[r])
      BY <1>0, <1>2, CommitMarks DEF RowIds
    <2>2. CASE i \in batch[r]
      <3>1. PublicationsOf(i) # {}
        BY <1>2, <2>2 DEF CommitBatch, SentIsOnBus
      <3>2. QED
        BY <2>1, <3>1, PublicationsGrow
    <2>3. QED
      BY <1>1, <2>1, <2>2
  <1>3. ASSUME NEW t \in Topics, NEW d \in Docs, NEW p \in Payloads,
               Stage(t, d, p)
        PROVE  PublicationsOf(i)' # {}
    <2>1. i \in RowIds /\ outbox'[i] = outbox[i]
      BY <1>0, <1>3, EnqueueAppends DEF Stage, RowIds
    <2>2. QED
      BY <1>1, <2>1
  <1>4. CASE UNCHANGED outbox
    BY <1>1, <1>4 DEF RowIds
  <1>5. ASSUME \/ \E r \in Relays : \/ FetchBatch(r) \/ PublishRow(r)
                                    \/ RefuseRow(r) \/ LoseBatch(r)
               \/ \E t \in Topics : Redeliver(t)
               \/ UNCHANGED outboxVars
        PROVE  UNCHANGED outbox
    BY <1>5 DEF FetchBatch, PublishRow, RefuseRow, LoseBatch, Redeliver,
                outboxVars
  <1>6. QED
    BY <1>2, <1>3, <1>4, <1>5 DEF OutboxNext, RelayStep

LEMMA OutboxInitInv == OutboxInit => OutboxInv
  <1> SUFFICES ASSUME OutboxInit PROVE OutboxInv
    OBVIOUS
  <1>1. /\ Len(outbox) = 0
        /\ \A s \in Streams : Len(log[s]) = 0
        /\ \A r \in Relays : sent[r] = {}
    BY DEF OutboxInit, BrokerInit
  <1>2. QED
    BY <1>1, OutboxInitTypeOK
    DEF OutboxInv, BusHasRows, SentIsOnBus, PublishedIsOnBus, RowIds

(* The invariant that ties the bus to the table holds of every behaviour, and
   with it: a published row is on the bus, and the bus has nothing the table
   does not have. *)
THEOREM OutboxInvariant == OutboxSpec => []OutboxInv
  <1>1. OutboxInv /\ [OutboxNext]_outboxVars => OutboxInv'
    BY OutboxNextTypeOK, NextBusHasRows, NextSentIsOnBus, NextPublishedIsOnBus
    DEF OutboxInv
  <1>2. QED
    BY <1>1, OutboxInitInv, PTL DEF OutboxSpec

(* No row is marked published before its event is on the bus. *)
THEOREM OutboxMarksOnlySent == OutboxSpec => []PublishedIsOnBus
  <1>1. OutboxInv => PublishedIsOnBus
    BY DEF OutboxInv
  <1>2. QED
    BY <1>1, OutboxInvariant, PTL

(* Every record on the bus, retries included, is of a row of the table. *)
THEOREM OutboxBacksTheBus == OutboxSpec => []BusHasRows
  <1>1. OutboxInv => BusHasRows
    BY DEF OutboxInv
  <1>2. QED
    BY <1>1, OutboxInvariant, PTL

-----------------------------------------------------------------------------
(* Replicas do not repeat each other.  A row that is refused takes down its
   batch, and what was sent of it, round after round: each round counts. *)

(* Two transactions never hold the same row, nor one that is marked. *)
LocksExclusive ==
    \A r \in Relays : \A i \in batch[r] :
        /\ i \in RowIds /\ ~outbox[i].published
        /\ \A q \in Relays : i \in batch[q] => q = r

(* Row i has been sent by a transaction that is still open or has committed. *)
SentForGood(i) == outbox[i].published \/ \E r \in Relays : i \in sent[r]

(* Any other row owes each of its publications to a rollback. *)
PublicationsCounted ==
    \A i \in RowIds :
        /\ IsFiniteSet(PublicationsOf(i))
        /\ Cardinality(PublicationsOf(i)) <= 1 + rollbacks
        /\ ~SentForGood(i) => Cardinality(PublicationsOf(i)) <= rollbacks

LEMMA NextLocksExclusive ==
    ASSUME OutboxTypeOK, LocksExclusive, [OutboxNext]_outboxVars
    PROVE  LocksExclusive'
  <1>0. outbox \in Seq(Row) /\ Len(outbox) \in Nat
    BY DEF OutboxTypeOK
  <1>1. ASSUME NEW r \in Relays, FetchBatch(r)
        PROVE  LocksExclusive'
    <2>1. /\ batch' = [batch EXCEPT ![r] = Oldest(Fetchable, BatchSize)]
          /\ UNCHANGED outbox
      BY <1>1 DEF FetchBatch
    <2>2. \A i \in Oldest(Fetchable, BatchSize) :
             /\ i \in RowIds /\ ~outbox[i].published
             /\ \A q \in Relays : i \notin batch[q]
      BY DEF Oldest, Fetchable
    <2>3. batch'[r] = Oldest(Fetchable, BatchSize)
          /\ \A q \in Relays \ {r} : batch'[q] = batch[q]
      BY <2>1 DEF OutboxTypeOK
    <2>4. QED
      BY <2>1, <2>2, <2>3 DEF LocksExclusive, RowIds
  <1>2. ASSUME NEW r \in Relays, CommitBatch(r)
        PROVE  LocksExclusive'
    <2>1. /\ Len(outbox') = Len(outbox)
          /\ \A i \in RowIds : outbox'[i].published <=>
                outbox[i].published \/ i \in batch[r]
      BY <1>0, <1>2, CommitMarks
    <2>2. batch'[r] = {} /\ \A q \in Relays \ {r} : batch'[q] = batch[q]
      BY <1>2 DEF CommitBatch, Release, OutboxTypeOK
    <2>3. QED
      BY <2>1, <2>2 DEF LocksExclusive, RowIds
  <1>3. ASSUME NEW r \in Relays, RefuseRow(r) \/ LoseBatch(r)
        PROVE  LocksExclusive'
    <2>1. /\ UNCHANGED outbox
          /\ batch'[r] = {} /\ \A q \in Relays \ {r} : batch'[q] = batch[q]
      BY <1>3 DEF RefuseRow, LoseBatch, Release, OutboxTypeOK
    <2>2. QED
      BY <2>1 DEF LocksExclusive, RowIds
  <1>4. ASSUME NEW t \in Topics, NEW d \in Docs, NEW p \in Payloads,
               Stage(t, d, p)
        PROVE  LocksExclusive'
    <2>1. /\ UNCHANGED batch
          /\ Len(outbox') = Len(outbox) + 1
          /\ \A i \in RowIds : outbox'[i] = outbox[i]
      BY <1>0, <1>4, EnqueueAppends DEF Stage
    <2>2. QED
      BY <1>0, <2>1 DEF LocksExclusive, RowIds
  <1>5. CASE UNCHANGED <<outbox, batch>>
    BY <1>5 DEF LocksExclusive, RowIds
  <1>6. ASSUME \/ \E r \in Relays : PublishRow(r)
               \/ \E t \in Topics : Redeliver(t)
               \/ UNCHANGED outboxVars
        PROVE  UNCHANGED <<outbox, batch>>
    BY <1>6 DEF PublishRow, Redeliver, outboxVars
  <1>7. QED
    BY <1>1, <1>2, <1>3, <1>4, <1>5, <1>6 DEF OutboxNext, RelayStep

(* Where a row's publications are looked for follows from its topic and its
   document. *)
LEMMA SamePublications ==
    ASSUME UNCHANGED log, NEW i,
           outbox'[i].topic = outbox[i].topic, outbox'[i].doc = outbox[i].doc
    PROVE  PublicationsOf(i)' = PublicationsOf(i)
  BY DEF PublicationsOf, RecordOf, FirstAttempt, StreamOf

(* An event that is staged has not been published. *)
LEMMA StagedIsNew ==
    ASSUME OutboxTypeOK, BusHasRows, NEW t \in Topics, NEW d \in Docs,
           NEW p \in Payloads, Stage(t, d, p),
           NEW i, i = Len(outbox) + 1
    PROVE  PublicationsOf(i)' = {}
  <1>1. /\ i \in EventIds /\ i \notin RowIds
        /\ outbox'[i].topic = t /\ outbox'[i].doc = d
        /\ UNCHANGED log
    BY EnqueueAppends DEF OutboxTypeOK, RowIds, EventIds, Stage
  <1>2. PICK m : m = FirstAttempt(i, d)
    OBVIOUS
  <1>3. m \in Message /\ m.id = i
    BY <1>1, <1>2, EnvelopeType DEF FirstAttempt
  <1>4. StreamOf(t, m) \in Streams
    BY <1>3, BrokerAssumption DEF StreamOf, Streams, Message
  <1>5. \A j \in 1 .. Len(log[StreamOf(t, m)]) : log[StreamOf(t, m)][j] # m
    BY <1>1, <1>3, <1>4 DEF BusHasRows
  <1>6. PublicationsOf(i)' = {j \in 1 .. Len(log[StreamOf(t, m)]) :
                                 log[StreamOf(t, m)][j] = m}
    BY <1>1, <1>2 DEF PublicationsOf, RecordOf, StreamOf, FirstAttempt
  <1>7. QED
    BY <1>5, <1>6

(* A step that puts no record of row i on the bus keeps its count. *)
LEMMA CountKept ==
    ASSUME OutboxTypeOK, PublicationsCounted, NEW i \in RowIds,
           PublicationsOf(i)' = PublicationsOf(i),
           \/ rollbacks' = rollbacks /\ (SentForGood(i) => SentForGood(i)')
           \/ rollbacks' = rollbacks + 1
    PROVE  /\ IsFiniteSet(PublicationsOf(i)')
           /\ Cardinality(PublicationsOf(i)') <= 1 + rollbacks'
           /\ ~SentForGood(i)' => Cardinality(PublicationsOf(i)') <= rollbacks'
  <1>1. /\ IsFiniteSet(PublicationsOf(i))
        /\ Cardinality(PublicationsOf(i)) <= 1 + rollbacks
        /\ ~SentForGood(i) => Cardinality(PublicationsOf(i)) <= rollbacks
    BY DEF PublicationsCounted
  <1>2. Cardinality(PublicationsOf(i)) \in Nat /\ rollbacks \in Nat
    BY <1>1, FS_CardinalityType DEF OutboxTypeOK
  <1>3. QED
    BY <1>1, <1>2

LEMMA NextPublicationsCounted ==
    ASSUME OutboxTypeOK, BusHasRows, LocksExclusive, PublicationsCounted,
           [OutboxNext]_outboxVars
    PROVE  PublicationsCounted'
  <1> SUFFICES ASSUME NEW i \in RowIds'
               PROVE  /\ IsFiniteSet(PublicationsOf(i)')
                      /\ Cardinality(PublicationsOf(i)') <= 1 + rollbacks'
                      /\ ~SentForGood(i)' =>
                            Cardinality(PublicationsOf(i)') <= rollbacks'
    BY DEF PublicationsCounted
  <1> DEFINE Goal == /\ IsFiniteSet(PublicationsOf(i)')
                     /\ Cardinality(PublicationsOf(i)') <= 1 + rollbacks'
                     /\ ~SentForGood(i)' =>
                           Cardinality(PublicationsOf(i)') <= rollbacks'
  <1> HIDE DEF Goal
  <1>0. outbox \in Seq(Row) /\ Len(outbox) \in Nat /\ rollbacks \in Nat
    BY DEF OutboxTypeOK
  <1>1. ASSUME NEW t \in Topics, NEW d \in Docs, NEW p \in Payloads,
               Stage(t, d, p)
        PROVE  Goal
    <2>1. /\ UNCHANGED <<log, rollbacks, sent>>
          /\ Len(outbox') = Len(outbox) + 1
          /\ \A k \in RowIds : outbox'[k] = outbox[k]
      BY <1>0, <1>1, EnqueueAppends DEF Stage
    <2>2. CASE i \in RowIds
      <3>1. PublicationsOf(i)' = PublicationsOf(i)
        BY <2>1, <2>2, SamePublications
      <3>2. SentForGood(i) => SentForGood(i)'
        BY <2>1, <2>2 DEF SentForGood
      <3>3. QED
        BY <2>1, <2>2, <3>1, <3>2, CountKept DEF Goal
    <2>3. CASE i \notin RowIds
      <3>1. i = Len(outbox) + 1
        BY <1>0, <2>1, <2>3 DEF RowIds
      <3>2. PublicationsOf(i)' = {}
        BY <1>1, <3>1, StagedIsNew
      <3>3. QED
        BY <1>0, <2>1, <3>2, FS_EmptySet DEF Goal
    <2>4. QED
      BY <2>2, <2>3
  <1>2. ASSUME NEW r \in Relays, PublishRow(r)
        PROVE  Goal
    <2>1. PICK k \in batch[r] \ sent[r] :
             /\ sent' = [sent EXCEPT ![r] = @ \cup {k}]
             /\ UNCHANGED <<rollbacks, outbox, batch>>
             /\ \E j : /\ j \notin PublicationsOf(k)
                       /\ PublicationsOf(k)' = PublicationsOf(k) \cup {j}
             /\ \A n \in RowIds \ {k} : PublicationsOf(n)' = PublicationsOf(n)
      BY <1>2, PublishRowPublishes
    <2>2. /\ \A q \in Relays \ {r} : sent'[q] = sent[q]
          /\ sent'[r] = sent[r] \cup {k}
          /\ i \in RowIds
      BY <2>1 DEF OutboxTypeOK, RowIds
    <2>3. CASE i = k
      <3>1. ~SentForGood(k)
        BY <2>1 DEF SentForGood, LocksExclusive, OutboxTypeOK
      <3>2. /\ IsFiniteSet(PublicationsOf(k))
            /\ Cardinality(PublicationsOf(k)) <= rollbacks
        BY <2>2, <2>3, <3>1 DEF PublicationsCounted
      <3>3. PICK j : /\ j \notin PublicationsOf(k)
                     /\ PublicationsOf(k)' = PublicationsOf(k) \cup {j}
        BY <2>1
      <3>4. /\ IsFiniteSet(PublicationsOf(k)')
            /\ Cardinality(PublicationsOf(k)') = Cardinality(PublicationsOf(k)) + 1
        BY <3>2, <3>3, FS_AddElement
      <3>5. Cardinality(PublicationsOf(k)) \in Nat
        BY <3>2, FS_CardinalityType
      <3>6. SentForGood(k)'
        BY <2>2 DEF SentForGood
      <3>7. Cardinality(PublicationsOf(k)') <= 1 + rollbacks'
        BY <1>0, <2>1, <3>2, <3>4, <3>5
      <3>8. QED
        BY <2>3, <3>4, <3>6, <3>7 DEF Goal
    <2>4. CASE i # k
      <3>1. SentForGood(i) => SentForGood(i)'
        BY <2>1, <2>2 DEF SentForGood
      <3>2. QED
        BY <2>1, <2>2, <2>4, <3>1, CountKept DEF Goal
    <2>5. QED
      BY <2>3, <2>4
  <1>3. ASSUME NEW r \in Relays, CommitBatch(r)
        PROVE  Goal
    <2>1. /\ UNCHANGED <<log, rollbacks>>
          /\ Len(outbox') = Len(outbox)
          /\ \A k \in RowIds :
                /\ outbox'[k].topic = outbox[k].topic
                /\ outbox'[k].doc = outbox[k].doc
                /\ outbox'[k].published <=>
                      outbox[k].published \/ k \in batch[r]
      BY <1>0, <1>3, CommitMarks DEF CommitBatch
    <2>2. i \in RowIds
      BY <2>1 DEF RowIds
    <2>3. PublicationsOf(i)' = PublicationsOf(i)
      BY <2>1, <2>2, SamePublications
    <2>4. /\ sent[r] = batch[r]
          /\ \A q \in Relays \ {r} : sent'[q] = sent[q]
      BY <1>3 DEF CommitBatch, Release, OutboxTypeOK
    <2>5. SentForGood(i) => SentForGood(i)'
      BY <2>1, <2>2, <2>4 DEF SentForGood
    <2>6. QED
      BY <2>1, <2>2, <2>3, <2>5, CountKept DEF Goal
  <1>4. ASSUME NEW r \in Relays, RefuseRow(r) \/ LoseBatch(r)
        PROVE  Goal
    <2>1. /\ UNCHANGED <<log, outbox>>
          /\ \/ UNCHANGED <<rollbacks, sent>>
             \/ rollbacks' = rollbacks + 1
      BY <1>4 DEF RefuseRow, LoseBatch, Release, OutboxTypeOK
    <2>2. i \in RowIds
      BY <2>1 DEF RowIds
    <2>3. PublicationsOf(i)' = PublicationsOf(i)
      BY <2>1, SamePublications
    <2>4. \/ rollbacks' = rollbacks /\ (SentForGood(i) => SentForGood(i)')
          \/ rollbacks' = rollbacks + 1
      BY <2>1 DEF SentForGood
    <2>5. QED
      BY <2>2, <2>3, <2>4, CountKept DEF Goal
  <1>5. ASSUME NEW t \in Topics, Redeliver(t)
        PROVE  Goal
    <2>1. PICK m \in Message :
             /\ m.attempt + 1 < MaxAttempts
             /\ Produce(t, NextAttempt(m))
             /\ UNCHANGED <<outbox, batch, sent, rollbacks>>
      BY <1>5, RedeliverRetries
    <2>2. i \in RowIds
      BY <2>1 DEF RowIds
    <2>3. /\ NextAttempt(m) \in Message
          /\ NextAttempt(m).attempt = m.attempt + 1
          /\ m.attempt \in Nat
      BY <2>1, EnvelopeType DEF Message
    <2>4. NextAttempt(m) # RecordOf(i)
      BY <2>2, <2>3, RecordOfType
    <2>5. PublicationsOf(i)' = PublicationsOf(i)
      BY <2>1, <2>2, <2>3, <2>4, ProducePublishes
    <2>6. SentForGood(i) => SentForGood(i)'
      BY <2>1 DEF SentForGood
    <2>7. QED
      BY <2>1, <2>2, <2>5, <2>6, CountKept DEF Goal
  <1>6. ASSUME \/ \E r \in Relays : FetchBatch(r)
               \/ UNCHANGED outboxVars
        PROVE  Goal
    <2>1. UNCHANGED <<log, rollbacks, outbox, sent>>
      BY <1>6 DEF FetchBatch, outboxVars
    <2>2. i \in RowIds
      BY <2>1 DEF RowIds
    <2>3. PublicationsOf(i)' = PublicationsOf(i)
      BY <2>1, SamePublications
    <2>4. SentForGood(i) => SentForGood(i)'
      BY <2>1 DEF SentForGood
    <2>5. QED
      BY <2>1, <2>2, <2>3, <2>4, CountKept DEF Goal
  <1>7. Goal
    BY <1>1, <1>2, <1>3, <1>4, <1>5, <1>6
    DEF OutboxNext, RelayStep
  <1>8. QED
    BY <1>7 DEF Goal

(* Replicas never publish a row twice between them: each publication beyond
   the first takes a rollback, whatever the batches and the events refused. *)
THEOREM OutboxRepublishesOnlyAfterRollback ==
    OutboxSpec => []RepublishedOnlyAfterRollback
  <1> DEFINE Counted == LocksExclusive /\ PublicationsCounted
  <1>1. OutboxInit => Counted
    BY DEF OutboxInit, LocksExclusive, PublicationsCounted, RowIds
  <1>2. OutboxInv /\ Counted /\ [OutboxNext]_outboxVars => Counted'
    BY NextLocksExclusive, NextPublicationsCounted DEF OutboxInv
  <1>3. Counted => RepublishedOnlyAfterRollback
    BY DEF PublicationsCounted, RepublishedOnlyAfterRollback
  <1> HIDE DEF Counted
  <1>4. QED
    BY <1>1, <1>2, <1>3, OutboxInvariant, PTL DEF OutboxSpec
=============================================================================
