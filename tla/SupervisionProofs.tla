------------------------- MODULE SupervisionProofs --------------------------
(***************************************************************************)
(* Proofs about the worker pods, for any number of replicas that start at  *)
(* once and any thresholds.                                                *)
(***************************************************************************)
EXTENDS Supervision, TLAPS

(* Once created, a bucket and a collection stay: where a process stands says
   which of them it has seen. *)
StoresSeen ==
    \A w \in Workers :
        /\ stage[w] \in {"stored", "noCollection"} \/ Probed(w) => bucket
        /\ Probed(w) /\ w \in Enrichers => collection

SupervisionInv == SupervisionTypeOK /\ StoresSeen

USE SupervisionAssumption

LEMMA SupervisionInitial == SupervisionInit => SupervisionInv
  BY DEF SupervisionInit, SupervisionInv, SupervisionTypeOK, StoresSeen, Stages,
         Probed

(* Start of a worker: a step of one makes stores, and takes none away; no probe
   has been missed by a container that does not listen yet. *)
LEMMA BootKeeps ==
    ASSUME SupervisionInv, NEW w \in Workers, Boot(w)
    PROVE  SupervisionInv'
  <1> USE DEF SupervisionInv, SupervisionTypeOK, Goto, storeVars, Boot,
              CheckBucket, CreateBucket, CheckCollection, CreateCollection, Probed
  <1>1. SupervisionTypeOK'
    BY DEF Stages
  <1>2. StoresSeen'
    BY DEF StoresSeen
  <1>3. QED
    BY <1>1, <1>2

(* Work: a record is taken, its handler ends, waits or keeps the loop: the
   process stays one that is probed. *)
LEMMA WorkKeeps ==
    ASSUME SupervisionInv, NEW w \in Workers,
           Handle(w) \/ Block(w) \/ Unblock(w) \/ Hang(w)
    PROVE  SupervisionInv'
  <1> USE DEF SupervisionInv, SupervisionTypeOK, Goto, storeVars, Handle,
              TakeRecord, SettleRecord, CommitOffset, Block, Unblock, Hang, Probed
  <1>1. SupervisionTypeOK'
    BY DEF Stages
  <1>2. StoresSeen'
    BY DEF StoresSeen
  <1>3. QED
    BY <1>1, <1>2

(* The kubelet: only a busy loop misses probes, and a kill forgets them. *)
LEMMA ProbeKeeps ==
    ASSUME SupervisionInv, NEW w \in Workers, Probe(w)
    PROVE  SupervisionInv'
  <1> USE DEF SupervisionInv, SupervisionTypeOK, storeVars, Probe, ProbeAnswered,
              ProbeMissed, Kill, Condemned, Probed
  <1>1. SupervisionTypeOK'
    BY DEF Stages
  <1>2. StoresSeen'
    BY DEF StoresSeen
  <1>3. QED
    BY <1>1, <1>2

LEMMA SupervisionInvariant == SupervisionSpec => []SupervisionInv
  <1>1. SupervisionInv /\ [SupervisionNext]_supervisionVars => SupervisionInv'
    <2>1. CASE SupervisionNext
      BY <2>1, BootKeeps, WorkKeeps, ProbeKeeps DEF SupervisionNext
    <2>2. CASE UNCHANGED supervisionVars
      BY <2>2
      DEF SupervisionInv, SupervisionTypeOK, StoresSeen, Probed,
          supervisionVars, storeVars
    <2>3. QED
      BY <2>1, <2>2
  <1>2. QED
    BY SupervisionInitial, <1>1, PTL DEF SupervisionSpec

-----------------------------------------------------------------------------
(* The results. *)

(* The variables of the pods have their types, and a container starts with no
   probe missed, however the one before it ended (livenessProbe). *)
THEOREM SupervisionTypeCorrect == SupervisionSpec => []SupervisionTypeOK
  BY SupervisionInvariant, PTL DEF SupervisionInv

(* A worker consumes only when the stores it writes to are there, however many
   replicas start at once and whoever of them creates what. *)
THEOREM WorkersConsumeWithStores == SupervisionSpec => []ConsumesWithStores
  <1>1. SupervisionInv => ConsumesWithStores
    BY DEF SupervisionInv, StoresSeen, ConsumesWithStores
  <1>2. QED
    BY <1>1, SupervisionInvariant, PTL
=============================================================================
