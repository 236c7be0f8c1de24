---------------------------- MODULE BrokerProofs ----------------------------
(***************************************************************************)
(* What publishing a record does to the topics.                            *)
(***************************************************************************)
EXTENDS Broker, TLAPS

(* A new envelope, and the copy of one that has attempts left, are envelopes
   (make_event, EventEnvelope.next_attempt). *)
LEMMA EnvelopeType ==
    /\ \A id \in EventIds, d \in Docs : FirstAttempt(id, d) \in Message
    /\ \A m \in Message :
          m.attempt + 1 < MaxAttempts =>
              /\ NextAttempt(m) \in Message
              /\ NextAttempt(m).id = m.id
              /\ NextAttempt(m).doc = m.doc
              /\ NextAttempt(m).attempt = m.attempt + 1
  <1>1. \A id \in EventIds, d \in Docs : FirstAttempt(id, d) \in Message
    BY BrokerAssumption DEF FirstAttempt, Message
  <1>2. ASSUME NEW m \in Message, m.attempt + 1 < MaxAttempts
        PROVE  /\ NextAttempt(m) \in Message
               /\ NextAttempt(m).id = m.id
               /\ NextAttempt(m).doc = m.doc
               /\ NextAttempt(m).attempt = m.attempt + 1
    BY <1>2, BrokerAssumption DEF NextAttempt, Message
  <1>3. QED
    BY <1>1, <1>2

(* KafkaProducer.publish appends one record to the partition of its document
   and touches nothing that is on the bus already. *)
LEMMA ProduceAppends ==
    ASSUME BrokerTypeOK, NEW t \in Topics, NEW m \in Message, Produce(t, m)
    PROVE  /\ BrokerTypeOK'
           /\ StreamOf(t, m) \in Streams
           /\ \A s \in Streams :
                 /\ s # StreamOf(t, m) => log'[s] = log[s]
                 /\ s = StreamOf(t, m) =>
                       /\ Len(log'[s]) = Len(log[s]) + 1
                       /\ log'[s][Len(log[s]) + 1] = m
                 /\ \A i \in 1 .. Len(log[s]) : log'[s][i] = log[s][i]
  <1>1. StreamOf(t, m) \in Streams
    BY BrokerAssumption DEF StreamOf, Streams, Message
  <1>2. log \in [Streams -> Seq(Message)]
    BY DEF BrokerTypeOK
  <1>3. log' = [log EXCEPT ![StreamOf(t, m)] = Append(log[StreamOf(t, m)], m)]
    BY DEF Produce
  <1>4. log'[StreamOf(t, m)] = Append(log[StreamOf(t, m)], m)
    BY <1>1, <1>2, <1>3
  <1>5. \A s \in Streams : s # StreamOf(t, m) => log'[s] = log[s]
    BY <1>1, <1>2, <1>3
  <1>6. /\ Append(log[StreamOf(t, m)], m) \in Seq(Message)
        /\ Len(Append(log[StreamOf(t, m)], m)) = Len(log[StreamOf(t, m)]) + 1
        /\ Append(log[StreamOf(t, m)], m)[Len(log[StreamOf(t, m)]) + 1] = m
        /\ \A i \in 1 .. Len(log[StreamOf(t, m)]) :
              Append(log[StreamOf(t, m)], m)[i] = log[StreamOf(t, m)][i]
    BY <1>1, <1>2
  <1>7. BrokerTypeOK'
    BY <1>1, <1>2, <1>3, <1>6 DEF BrokerTypeOK
  <1>8. QED
    BY <1>1, <1>4, <1>5, <1>6, <1>7
=============================================================================
