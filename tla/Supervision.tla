---------------------------- MODULE Supervision -----------------------------
(***************************************************************************)
(* Worker pods under Kubernetes: what a worker does before it consumes     *)
(* (get_storage, ensure_collection), how it can stop making progress while *)
(* it handles a record, and the liveness probe that is to notice           *)
(* (common/health.py, templates/workers.yaml).                             *)
(*                                                                         *)
(* The health server runs in the event loop of the consumer: it is silent  *)
(* while a handler keeps the loop busy, and answers while a handler waits, *)
(* for however long.                                                       *)
(***************************************************************************)
EXTENDS Naturals

CONSTANTS
    Workers,           \* worker pods
    Enrichers,         \* those that need the Qdrant collection
    FailureThreshold,  \* failed probes in a row before a pod is killed
    MaxBlocks          \* bound: times a worker's event loop is kept busy

ASSUME SupervisionAssumption ==
    /\ Enrichers \subseteq Workers
    /\ FailureThreshold \in Nat \ {0}
    /\ MaxBlocks \in Nat

VARIABLES
    bucket,      \* the S3 bucket exists
    collection,  \* the Qdrant collection exists
    stage,       \* [Workers -> Stages]: where each process stands
    missed,      \* [Workers -> Nat]: probes failed in a row
    blocks       \* [Workers -> Nat]: times the loop was kept busy

storeVars == <<bucket, collection>>
supervisionVars == <<storeVars, stage, missed, blocks>>

(* down           the container is being (re)started
   noBucket       head_bucket has said there is none
   stored         get_storage has returned
   noCollection   collection_exists has said there is none
   polling        health server up, in "async for record in consumer"
   working        a handler is awaited
   blocked        a handler computes in the event loop (extract_text)
   settling       process_with_retry has returned, the record done, published
                  again or parked; consumer.commit() is awaited
   hung           an answer is awaited that does not come: the database
                  sessions, for one, have no timeout *)
Stages == {"down", "noBucket", "stored", "noCollection", "polling", "working",
           "blocked", "settling", "hung"}

SupervisionInit ==
    /\ bucket \in BOOLEAN
    /\ collection \in BOOLEAN
    /\ stage = [w \in Workers |-> "down"]
    /\ missed = [w \in Workers |-> 0]
    /\ blocks = [w \in Workers |-> 0]

Goto(w, from, to) ==
    /\ stage[w] = from
    /\ stage' = [stage EXCEPT ![w] = to]

-----------------------------------------------------------------------------
(* Start of a worker. *)

(* head_bucket. *)
CheckBucket(w) ==
    /\ Goto(w, "down", IF bucket THEN "stored" ELSE "noBucket")
    /\ UNCHANGED <<storeVars, missed, blocks>>

(* create_bucket; that another replica was first is no error. *)
CreateBucket(w) ==
    /\ Goto(w, "noBucket", "stored")
    /\ bucket' = TRUE
    /\ UNCHANGED <<collection, missed, blocks>>

(* Mutant of CheckCollection: the collection is left to whoever is first. *)
SkipCollection(w) ==
    /\ Goto(w, "stored", "polling")
    /\ UNCHANGED <<storeVars, missed, blocks>>

(* collection_exists; then Kafka and the health server are started. *)
CheckCollection(w) ==
    /\ Goto(w, "stored", IF w \in Enrichers /\ ~collection THEN "noCollection"
                         ELSE "polling")
    /\ UNCHANGED <<storeVars, missed, blocks>>

(* Mutant of CreateCollection: losing the race leaves the process waiting. *)
CreateCollectionOrWait(w) ==
    /\ ~collection
    /\ Goto(w, "noCollection", "polling")
    /\ collection' = TRUE
    /\ UNCHANGED <<bucket, missed, blocks>>

(* create_collection raises if another replica was first, which ends the
   process; it finds the collection when it is started again. *)
CreateCollection(w) ==
    /\ Goto(w, "noCollection", IF collection THEN "down" ELSE "polling")
    /\ collection' = TRUE
    /\ UNCHANGED <<bucket, missed, blocks>>

-----------------------------------------------------------------------------
(* Work. *)

TakeRecord(w) ==
    /\ Goto(w, "polling", "working")
    /\ UNCHANGED <<storeVars, missed, blocks>>

(* The handler returns or raises, and process_with_retry with it: what it
   publishes is out before the offset is committed. *)
SettleRecord(w) ==
    /\ Goto(w, "working", "settling")
    /\ UNCHANGED <<storeVars, missed, blocks>>

CommitOffset(w) ==
    /\ Goto(w, "settling", "polling")
    /\ UNCHANGED <<storeVars, missed, blocks>>

(* A large file keeps the loop busy. *)
Block(w) ==
    /\ blocks[w] < MaxBlocks
    /\ Goto(w, "working", "blocked")
    /\ blocks' = [blocks EXCEPT ![w] = @ + 1]
    /\ UNCHANGED <<storeVars, missed>>

Unblock(w) ==
    /\ Goto(w, "blocked", "working")
    /\ UNCHANGED <<storeVars, missed, blocks>>

Hang(w) ==
    /\ Goto(w, "working", "hung") \/ Goto(w, "settling", "hung")
    /\ UNCHANGED <<storeVars, missed, blocks>>

-----------------------------------------------------------------------------
(* The kubelet, once the initial delay is over: GET /healthz. *)

Probed(w) == stage[w] \in {"polling", "working", "blocked", "settling", "hung"}

(* As many probes in a row have failed as it takes. *)
Condemned(w) == missed[w] = FailureThreshold

(* _handle writes 200 whenever it runs. *)
ProbeAnswered(w) ==
    /\ Probed(w)
    /\ stage[w] # "blocked"
    /\ missed[w] > 0
    /\ ~Condemned(w)
    /\ missed' = [missed EXCEPT ![w] = 0]
    /\ UNCHANGED <<storeVars, stage, blocks>>

(* The loop does not get to accept the probe. *)
ProbeMissed(w) ==
    /\ stage[w] = "blocked"
    /\ ~Condemned(w)
    /\ missed' = [missed EXCEPT ![w] = @ + 1]
    /\ UNCHANGED <<storeVars, stage, blocks>>

(* Mutant of Kill: the restarted container inherits the probes missed. *)
KillKeepsCount(w) ==
    /\ Condemned(w)
    /\ stage' = [stage EXCEPT ![w] = "down"]
    /\ UNCHANGED <<storeVars, missed, blocks>>

(* The container is killed, which takes a while: the process may be anywhere
   in its loop by then, with a retry published whose offset is not committed. *)
Kill(w) ==
    /\ Condemned(w)
    /\ stage' = [stage EXCEPT ![w] = "down"]
    /\ missed' = [missed EXCEPT ![w] = 0]
    /\ UNCHANGED <<storeVars, blocks>>

-----------------------------------------------------------------------------
Boot(w) ==
    CheckBucket(w) \/ CreateBucket(w) \/ CheckCollection(w) \/ CreateCollection(w)

Handle(w) == TakeRecord(w) \/ SettleRecord(w) \/ CommitOffset(w)

Probe(w) == ProbeAnswered(w) \/ ProbeMissed(w) \/ Kill(w)

SupervisionNext ==
    \E w \in Workers :
        Boot(w) \/ Handle(w) \/ Block(w) \/ Unblock(w) \/ Hang(w) \/ Probe(w)

SupervisionSpec == SupervisionInit /\ [][SupervisionNext]_supervisionVars

(* A container is restarted, a loop that is not kept busy goes on, and probes
   are periodic.  Nothing says that a busy loop gets free, or that what a
   handler awaits comes. *)
FairSupervisionSpec ==
    /\ SupervisionSpec
    /\ \A w \in Workers :
          /\ WF_supervisionVars(Boot(w))
          /\ WF_supervisionVars(Handle(w))
          /\ WF_supervisionVars(Probe(w))

-----------------------------------------------------------------------------
(* Properties. *)

(* Every variable has its type, and a container starts with no probe missed,
   however the one before it ended. *)
SupervisionTypeOK ==
    /\ bucket \in BOOLEAN
    /\ collection \in BOOLEAN
    /\ stage \in [Workers -> Stages]
    /\ missed \in [Workers -> 0 .. FailureThreshold]
    /\ blocks \in [Workers -> 0 .. MaxBlocks]
    /\ \A w \in Workers : missed[w] > 0 => Probed(w)

(* A worker consumes only when the stores its handler writes to are there,
   whichever replicas start at once and whoever of them creates what
   (ensure_bucket, ensure_collection). *)
ConsumesWithStores ==
    \A w \in Workers : Probed(w) => bucket /\ (w \in Enrichers => collection)

(* Every worker that starts, lost a race at it or is kept busy gets back to
   its consumer loop, if need be by a restart, unless an answer it awaits does
   not come (run_worker, start_health_server, livenessProbe). *)
BackToWork ==
    \A w \in Workers :
        stage[w] \notin {"polling", "hung"} ~> stage[w] \in {"polling", "hung"}

(* What the probe is there for: "a hung worker fails liveness instead of
   silently consuming nothing" (run_worker). *)
HungIsRestarted ==
    \A w \in Workers : stage[w] = "hung" ~> stage[w] # "hung"
=============================================================================
