------------------------------ MODULE MCOutbox ------------------------------
(***************************************************************************)
(* Instances of Outbox for TLC: the rows staged are bounded, and so are    *)
(* the records the workers put on the bus.                                 *)
(***************************************************************************)
EXTENDS Outbox

CONSTANTS
    MaxRows,    \* bound: rows staged
    MaxRetries, \* bound: records a worker may requeue
    MaxRefusals \* bound: refusals that take sent rows back

OnePartition == [d \in Docs |-> 1]

(* The enriched event of a long document: it lists every vector id, and the
   producer's max_request_size is 1 MB.  Here any event of d2. *)
SecondRefused == Topics \X {"d2"}

Retries ==
    UNION {{<<s, i>> : i \in {j \in 1 .. Len(log[s]) : log[s][j].attempt > 0}} :
              s \in Streams}

BoundedStage ==
    /\ Len(outbox) < MaxRows
    /\ \E t \in Topics, d \in Docs, p \in Payloads : Stage(t, d, p)

BoundedRedeliver ==
    /\ Cardinality(Retries) < MaxRetries
    /\ \E t \in Topics : Redeliver(t)

(* A refused batch is fetched, sent up to the refused row and rolled back for
   ever.  Only the rounds with rows ahead of it are bounded: the others change
   nothing but the locks. *)
BoundedRelayStep(r) ==
    /\ RelayStep(r)
    /\ rollbacks' <= MaxRollbacks + MaxRefusals

MCOutboxNext ==
    \/ BoundedStage
    \/ \E r \in Relays : BoundedRelayStep(r) \/ LoseBatch(r)
    \/ BoundedRedeliver

(* The polling loop of every replica goes on (run_relay). *)
FairRelays == \A r \in Relays : WF_outboxVars(RelayStep(r))

MCOutboxSpec == OutboxInit /\ [][MCOutboxNext]_outboxVars
FairOutboxSpec == MCOutboxSpec /\ FairRelays

(* Every staged event the producer would take is eventually published and
   marked so: the relay "turns durably recorded intent into on the bus"
   (relay.py). *)
StagedIsPublished ==
    \A i \in 1 .. MaxRows :
        (i \in RowIds /\ Sendable(i)) ~> (i \in RowIds /\ outbox[i].published)
=============================================================================
