----------------------------- MODULE MCDelivery -----------------------------
(***************************************************************************)
(* Instances of Delivery for TLC: the deliveries of the relay are bounded, *)
(* and the workers are fair.                                               *)
(***************************************************************************)
EXTENDS Delivery

CONSTANTS
    MaxEvents,      \* bound: events the relay publishes
    MaxDeliveries   \* bound: first-attempt records, re-publications included

(* Two extraction workers. *)
TwoExtractors == [w \in {"x1", "x2"} |-> "ingested"]

PartitionPerDoc == [d \in Docs |-> IF d = "d1" THEN 1 ELSE 2]

-----------------------------------------------------------------------------
(* Every record on the bus, by stream and offset. *)
Records == UNION {{<<s, i>> : i \in 1 .. Len(log[s])} : s \in Streams}
RecordAt(r) == log[r[1]][r[2]]

(* An event has one topic and one document for good.  Events are numbered in
   the order they get on the bus, which loses nothing: ids are interchangeable. *)
BoundedDeliver ==
    /\ Cardinality({r \in Records : RecordAt(r).attempt = 0}) < MaxDeliveries
    /\ \E t \in Topics, id \in 1 .. MaxEvents, d \in Docs :
          /\ id > 1 => \E r \in Records : RecordAt(r).id = id - 1
          /\ \A r \in Records : RecordAt(r).id = id =>
                                    r[1] = StreamOf(t, FirstAttempt(id, d))
                                    /\ RecordAt(r).doc = d
          /\ Deliver(t, id, d)

MCDeliveryNext ==
    \/ BoundedDeliver
    \/ \E w \in Workers : WorkerStep(w)
    \/ DeliveryFault

(* A worker process that can take a step of its own takes one: its event loop
   runs, it is restarted when it dies, and faults are finite. *)
FairWorkers == \A w \in Workers : WF_deliveryVars(WorkerStep(w))

MCDeliverySpec == DeliveryInit /\ [][MCDeliveryNext]_deliveryVars
FairDeliverySpec == MCDeliverySpec /\ FairWorkers

(* Every event on the bus is eventually worked off or parked in the DLQ,
   however often it is redelivered on the way (process_with_retry). *)
EventuallySettled ==
    \A t \in Topics, id \in 1 .. MaxEvents :
        (\E r \in Records : r[1][1] = t /\ RecordAt(r).id = id)
            ~> Settled(t, id)
=============================================================================
