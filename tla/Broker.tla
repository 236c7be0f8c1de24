------------------------------- MODULE Broker -------------------------------
(***************************************************************************)
(* The Kafka topics of DocStream as its services write them: split into    *)
(* partitions, the records keyed by the document they belong to, so that a *)
(* document's events of one topic share a partition and keep their order.  *)
(*                                                                         *)
(* An event is identified by `id`: the position of its row in the outbox,  *)
(* which stands for the envelope's event_id.  What the envelope carries    *)
(* besides is looked up in that row.                                       *)
(***************************************************************************)
EXTENDS Naturals, Sequences, FiniteSets

CONSTANTS
    Docs,         \* documents (document_id, the aggregate of every event)
    Topics,       \* the pipeline topics in use
    Partitions,   \* partitions of every topic
    PartitionOf,  \* the producer's partitioner: [Docs -> Partitions]
    MaxAttempts,  \* settings.consumer.max_attempts
    NoMessage     \* what a worker holds between two records

ASSUME BrokerAssumption ==
    /\ PartitionOf \in [Docs -> Partitions]
    /\ MaxAttempts \in Nat \ {0}

VARIABLE
    log     \* [Streams -> Seq(Message)]: records of each topic partition

EventIds == Nat \ {0}

(* The fields of EventEnvelope the delivery protocol reads. *)
Message == [id : EventIds, doc : Docs, attempt : 0 .. (MaxAttempts - 1)]

ASSUME NoMessageAssumption == NoMessage \notin Message

(* A stream is one partition of one topic. *)
Streams == Topics \X Partitions

StreamOf(t, m) == <<t, PartitionOf[m.doc]>>

(* make_event: a new envelope starts at attempt 0. *)
FirstAttempt(id, d) == [id |-> id, doc |-> d, attempt |-> 0]

(* EventEnvelope.next_attempt: a copy with the attempt counter incremented. *)
NextAttempt(m) == [m EXCEPT !.attempt = @ + 1]

(* KafkaProducer.publish: the record is on the partition's log when the call
   returns (acks=all, idempotent producer). *)
Produce(t, m) ==
    log' = [log EXCEPT ![StreamOf(t, m)] = Append(@, m)]

BrokerTypeOK == log \in [Streams -> Seq(Message)]

BrokerInit == log = [s \in Streams |-> <<>>]
=============================================================================
