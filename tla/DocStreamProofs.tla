--------------------------- MODULE DocStreamProofs --------------------------
(***************************************************************************)
(* Proofs about the whole system, for any number of documents, chunks,     *)
(* workers, relays, clients, connections and faults: what is proved of the *)
(* pipeline and of the query service holds when each is the environment of *)
(* the other.                                                              *)
(***************************************************************************)
EXTENDS DocStream, PipelineProofs

-----------------------------------------------------------------------------
(* From batches to chunks. *)

LEMMA MoreBatches ==
    ASSUME NEW u \in Nat \ {0}, NEW j \in Nat, NEW k \in Nat, j < k
    PROVE  j * u \in Nat /\ k * u \in Nat /\ j * u < k * u
  <1>1. PICK n \in Nat : k = j + n + 1
    <2>1. k - j - 1 \in Nat /\ k = j + (k - j - 1) + 1
      OBVIOUS
    <2>2. QED
      BY <2>1
  <1>2. j * u \in Nat /\ n * u \in Nat
    OBVIOUS
  <1>3. (j + n + 1) * u = j * u + n * u + u
    OBVIOUS
  <1>4. QED
    BY <1>1, <1>2, <1>3

LEMMA MoreChunks ==
    ASSUME Batched, NEW d \in Docs, NEW j \in Nat, NEW k \in 1 .. Batches[d],
           j < k
    PROVE  /\ ChunksIn(d, j) \in Nat
           /\ ChunksIn(d, k) \in ChunksIn(d, j) + 1 .. Chunks[d]
  <1>1. /\ Batches[d] \in Nat /\ Chunks[d] \in Nat /\ UpsertSize \in Nat \ {0}
        /\ k \in Nat /\ k <= Batches[d] /\ j < Batches[d]
        /\ (Batches[d] - 1) * UpsertSize < Chunks[d]
    BY PipelineAssumption DEF Batched
  <1>2. ChunksIn(d, j) = j * UpsertSize /\ j * UpsertSize \in Nat
    BY <1>1, MoreBatches DEF ChunksIn
  <1>3. \A n \in Nat : n < Batches[d] => n * UpsertSize < Chunks[d]
    <2>1. ASSUME NEW n \in Nat, n < Batches[d]
          PROVE  n * UpsertSize < Chunks[d]
      <3>1. CASE n = Batches[d] - 1
        BY <1>1, <3>1
      <3>2. CASE n < Batches[d] - 1
        <4>1. Batches[d] - 1 \in Nat
          BY <1>1, <2>1
        <4>2. /\ n * UpsertSize \in Nat /\ (Batches[d] - 1) * UpsertSize \in Nat
              /\ n * UpsertSize < (Batches[d] - 1) * UpsertSize
          BY <1>1, <3>2, <4>1, MoreBatches
        <4>3. QED
          BY <1>1, <4>2
      <3>3. QED
        BY <1>1, <2>1, <3>1, <3>2
    <2>2. QED
      BY <2>1
  <1>4. CASE k = Batches[d]
    <2>1. ChunksIn(d, k) = Chunks[d] /\ j * UpsertSize < Chunks[d]
      BY <1>1, <1>3, <1>4 DEF ChunksIn
    <2>2. QED
      BY <1>1, <1>2, <2>1
  <1>5. CASE k # Batches[d]
    <2>1. /\ ChunksIn(d, k) = k * UpsertSize /\ k * UpsertSize \in Nat
          /\ j * UpsertSize < k * UpsertSize
      BY <1>1, <1>5, MoreBatches DEF ChunksIn
    <2>2. k * UpsertSize < Chunks[d]
      BY <1>1, <1>3, <1>5
    <2>3. QED
      BY <1>1, <1>2, <2>1, <2>2
  <1>6. QED
    BY <1>4, <1>5

(* No batch carries no chunk. *)
LEMMA NoBatches ==
    ASSUME Batched, NEW d \in Docs
    PROVE  ChunksIn(d, 0) = 0
  <1>1. /\ Chunks[d] \in Nat /\ UpsertSize \in Nat
        /\ Chunks[d] <= Batches[d] * UpsertSize
    BY DEF Batched
  <1>2. 0 * UpsertSize = 0
    BY <1>1
  <1>3. QED
    BY <1>1, <1>2 DEF ChunksIn

-----------------------------------------------------------------------------
(* The pipeline, batch by batch, is the write side the service relies on,
   chunk by chunk. *)

LEMMA BatchIsChunks ==
    ASSUME Batched, Read!ReadSideNext, PointsArePrefix
    PROVE  Service!ReadSideNext
  <1>1. ASSUME NEW d \in Docs, Read!Show(d)
        PROVE  Service!ReadSideNext
    <2>1. Cardinality(points[d]) = Batches[d]
      BY <1>1 DEF Read!Show
    <2>2. [e \in Docs |-> ChunksIn(e, Cardinality(points[e]))][d] = Chunks[d]
      BY <2>1 DEF ChunksIn
    <2>3. \A e \in Docs : Cardinality(points'[e]) = Cardinality(points[e])
      BY <1>1 DEF Read!Show
    <2>4. Service!Show(d)
      BY <1>1, <2>2, <2>3 DEF Read!Show, Service!Show
    <2>5. QED
      BY <2>4 DEF Service!ReadSideNext
  <1>2. ASSUME NEW d \in Docs, NEW k \in 1 .. Batches[d], Read!StoreTo(d, k)
        PROVE  Service!ReadSideNext
    <2>1. PICK j \in Nat : j = Cardinality(points[d])
      BY UpToNumber DEF PointsArePrefix
    <2>2. k \in j + 1 .. Batches[d] /\ j < k
      BY <1>2, <2>1 DEF Read!StoreTo
    <2>3. \A e \in Docs :
              Cardinality(points'[e]) =
                  IF e = d THEN k ELSE Cardinality(points[e])
      BY <1>2 DEF Read!StoreTo
    <2>4. /\ ChunksIn(d, j) \in Nat
          /\ ChunksIn(d, k) \in ChunksIn(d, j) + 1 .. Chunks[d]
      BY <2>2, MoreChunks
    <2>5. \A e \in Docs :
              ChunksIn(e, Cardinality(points'[e])) =
                  IF e = d THEN ChunksIn(d, k)
                  ELSE ChunksIn(e, Cardinality(points[e]))
      BY <2>3
    <2>6. [e \in Docs |-> ChunksIn(e, Cardinality(points'[e]))] =
              [[e \in Docs |-> ChunksIn(e, Cardinality(points[e]))]
                  EXCEPT ![d] = ChunksIn(d, k)]
      BY <2>5, Zenon
    <2>7. Service!StoreTo(d, ChunksIn(d, k))
      BY <1>2, <2>1, <2>4, <2>6 DEF Read!StoreTo, Service!StoreTo
    <2>8. ChunksIn(d, k) \in 1 .. Chunks[d]
      BY <2>4 DEF Batched
    <2>9. QED
      BY <2>7, <2>8 DEF Service!ReadSideNext
  <1>3. QED
    BY <1>1, <1>2 DEF Read!ReadSideNext

LEMMA SystemStep ==
    ASSUME Batched, PipelineInv, [SystemNext]_systemVars
    PROVE  /\ [PipelineNext]_pipelineVars
           /\ [Service!QueryNext]_(Service!queryVars)
  <1>1. CASE PipelineNext /\ UNCHANGED requestVars
    <2>1. [Read!ReadSideNext]_(Read!readSideVars)
      BY <1>1, ReadSideStep
    <2>2. [Service!ReadSideNext]_(Service!readSideVars)
      <3>1. CASE Read!ReadSideNext
        BY <3>1, BatchIsChunks DEF PipelineInv, StoreInv
      <3>2. CASE UNCHANGED Read!readSideVars
        <4>1. \A e \in Docs : Cardinality(points'[e]) = Cardinality(points[e])
          BY <3>2 DEF Read!readSideVars
        <4>2. QED
          BY <3>2, <4>1 DEF Read!readSideVars, Service!readSideVars
      <3>3. QED
        BY <2>1, <3>1, <3>2
    <2>3. QED
      BY <1>1, <2>2
      DEF Service!QueryNext, Service!queryVars, Service!requestVars, requestVars
  <1>2. CASE Service!RequestNext /\ UNCHANGED pipelineVars
    BY <1>2 DEF Service!QueryNext
  <1>3. CASE UNCHANGED systemVars
    <2>1. UNCHANGED <<points, view>>
      BY <1>3 DEF systemVars, pipelineVars, serviceVars
    <2>2. UNCHANGED Service!readSideVars
      BY <2>1 DEF Service!readSideVars
    <2>3. QED
      BY <1>3, <2>2
      DEF systemVars, Service!queryVars, Service!requestVars, requestVars
  <1>4. QED
    BY <1>1, <1>2, <1>3 DEF SystemNext

-----------------------------------------------------------------------------
(* A request leaves the pipeline's variables alone, so what is proved of the
   pipeline can be used of the system. *)
LEMMA SystemRunsPipeline == SystemSpec => PipelineSpec
  <1>1. SystemInit => PipelineInit
    BY DEF SystemInit
  <1>2. [SystemNext]_systemVars => [PipelineNext]_pipelineVars
    BY DEF SystemNext, systemVars
  <1>3. QED
    BY <1>1, <1>2, PTL DEF SystemSpec, PipelineSpec

(* The query service over the pipeline is the query service over the write side
   it relies on (upsert_chunks, handle_enriched, retrieve). *)
THEOREM SystemImplementsQuery ==
    ASSUME SystemAssumption
    PROVE  SystemSpec => ImplementsQuery
  <1>1. SystemInit => Service!QueryInit
    <2> SUFFICES ASSUME SystemInit PROVE Service!QueryInit
      OBVIOUS
    <2>1. \A d \in Docs : points[d] = {} /\ view[d] = NoResult
      BY DEF SystemInit, PipelineInit
    <2>2. \A d \in Docs : ChunksIn(d, Cardinality(points[d])) = 0
      BY <2>1, NoBatches, FS_EmptySet DEF SystemAssumption
    <2>3. Service!ReadSideInit
      BY <2>1, <2>2 DEF Service!ReadSideInit
    <2>4. QED
      BY <2>3 DEF SystemInit, Service!QueryInit
  <1>2. PipelineInv /\ [SystemNext]_systemVars
            => [Service!QueryNext]_(Service!queryVars)
    BY SystemStep DEF SystemAssumption
  <1>3. SystemSpec => []PipelineInv
    BY SystemRunsPipeline, PipelineInvariant, PTL
  <1>4. QED
    BY <1>1, <1>2, <1>3, PTL DEF SystemSpec, ImplementsQuery, Service!QuerySpec

(* What the read model shows can be found, from the upload on: in the composed
   system too a search misses no relevant chunk of a document shown, whatever
   handlers fail, repeat and overlap while it runs, but for those the limit or
   a filtered search cuts off. *)
THEOREM SystemFindsWhatIsShown ==
    ASSUME SystemAssumption
    PROVE  SystemSpec => []FindsWhatIsShown
  <1>1. Service!QueryAssumption /\ Service!RetrievalAssumption
    BY DEF SystemAssumption
  <1>2. Service!QuerySpec => []Service!ShownIsFound
    BY <1>1, Service!QueryFindsWhatIsShown
  <1>3. QED
    BY <1>2, SystemImplementsQuery, PTL
    DEF ImplementsQuery, FindsWhatIsShown

(* A source that showed when the search ran is cited by its filename in the
   composed system, although the projector goes on between search and lookup
   (_attach_filenames, handle_enriched). *)
THEOREM SystemNamesAreCurrent ==
    ASSUME SystemAssumption
    PROVE  SystemSpec => []NamesWhatIsShown
  <1>1. Service!QueryAssumption /\ Service!RetrievalAssumption
    BY DEF SystemAssumption
  <1>2. Service!QuerySpec => []Service!NamesAreCurrent
    BY <1>1, Service!QueryNamesAreCurrent
  <1>3. QED
    BY <1>2, SystemImplementsQuery, PTL
    DEF ImplementsQuery, NamesWhatIsShown

-----------------------------------------------------------------------------
(* What is cited, traced back to the gateway. *)

PointsAreExtracted ==
    \A d \in Docs : points[d] # {} => Rows("extracted", d) # {}

(* Vectors come from a handler that holds the extracted event. *)
LEMMA NextPointsAreExtracted ==
    ASSUME PipelineInv, PointsAreExtracted, [PipelineNext]_pipelineVars
    PROVE  PointsAreExtracted'
  <1>1. \A d \in Docs : Rows("extracted", d) \subseteq Rows("extracted", d)'
    BY RowsStay, PipelineAssumption DEF PipelineInv
  <1>2. ASSUME NEW w \in Workers, UpsertBatch(w)
        PROVE  PointsAreExtracted'
    <2>1. PICK d \in Docs : d = DocIn(w) /\ Rows("extracted", d) # {}
      BY <1>2, HeldHasRow DEF PipelineInv, UpsertBatch, SideEffect, AtWork, Rows
    <2>2. \A e \in Docs \ {d} : points'[e] = points[e]
      BY <1>2, <2>1 DEF UpsertBatch, PipelineInv, StoreInv, StoreTyped
    <2>3. QED
      BY <1>1, <2>1, <2>2 DEF PointsAreExtracted
  <1>3. ASSUME points' = points
        PROVE  PointsAreExtracted'
    BY <1>1, <1>3 DEF PointsAreExtracted
  <1>4. points' = points \/ \E w \in Workers : UpsertBatch(w)
    BY StepKinds DEF PipelineInv, Quiet, serviceVars, SaveUpload, AbandonUpload,
       CreateJob, GatewayFrame, SaveText, Commits, MarkFailed
  <1>5. QED
    BY <1>2, <1>3, <1>4

LEMMA PipelineExtractsFirst == PipelineSpec => []PointsAreExtracted
  <1>1. PipelineInit => PointsAreExtracted
    BY DEF PipelineInit, PointsAreExtracted
  <1>2. QED
    BY <1>1, NextPointsAreExtracted, PipelineInvariant, PTL DEF PipelineSpec

LEMMA StoredIsExtracted ==
    ASSUME Batched, PipelineInv, PointsAreExtracted, NEW x \in Service!InQdrant
    PROVE  /\ x[1] \in Docs /\ x[2] \in 1 .. Chunks[x[1]]
           /\ jobs[x[1]] # NoJob
           /\ x[1] \in texts
           /\ Rows("extracted", x[1]) # {}
  <1>1. PICK d \in Docs, j \in Nat :
            /\ j = Cardinality(points[d]) /\ j <= Batches[d]
            /\ x[1] = d /\ x[2] \in 1 .. ChunksIn(d, j)
    <2>1. PICK d \in Docs : x \in {d} \X (1 .. ChunksIn(d, Cardinality(points[d])))
      BY DEF Service!InQdrant, Service!ChunksUpTo
    <2>2. PICK j \in Nat : j <= Batches[d] /\ points[d] = 1 .. j
      BY DEF PipelineInv, StoreInv, PointsArePrefix
    <2>3. Cardinality(points[d]) = j
      BY <2>2, UpToNumber
    <2>4. QED
      BY <2>1, <2>2, <2>3
  <1>2. j # 0
    BY <1>1, NoBatches
  <1>3. points[d] # {}
    BY <1>1, <1>2, FS_EmptySet
  <1>4. PICK i \in Rows("extracted", d) : TRUE
    BY <1>3 DEF PointsAreExtracted
  <1>5. jobs[d] # NoJob /\ d \in texts
    BY <1>4 DEF Rows, PipelineInv, StoreInv, AnnouncedIsStored
  <1>6. ChunksIn(d, j) \in Nat /\ ChunksIn(d, j) <= Chunks[d]
    <2>1. CASE j = Batches[d]
      BY <2>1 DEF ChunksIn, Batched
    <2>2. CASE j # Batches[d]
      <3>1. Batches[d] \in 1 .. Batches[d] /\ j < Batches[d]
        BY <1>1, <2>2, PipelineAssumption
      <3>2. /\ ChunksIn(d, j) \in Nat
            /\ ChunksIn(d, Batches[d]) \in ChunksIn(d, j) + 1 .. Chunks[d]
        BY <3>1, MoreChunks
      <3>3. ChunksIn(d, Batches[d]) = Chunks[d] /\ Chunks[d] \in Nat
        BY DEF ChunksIn, Batched
      <3>4. QED
        BY <3>2, <3>3
    <2>3. QED
      BY <2>1, <2>2
  <1>7. x[2] \in 1 .. Chunks[d]
    BY <1>1, <1>6 DEF Batched
  <1>8. QED
    BY <1>1, <1>4, <1>5, <1>7

(* No answer cites a document that was never accepted, or one whose extraction
   was rolled back: from GET /search back to the gateway, through every retry,
   crash and redelivery in between (retrieve, handle_extracted). *)
THEOREM SystemCitesExtracted ==
    ASSUME SystemAssumption
    PROVE  SystemSpec => []CitedIsExtracted
  <1>1. Service!QueryAssumption /\ Service!RetrievalAssumption /\ Batched
    BY DEF SystemAssumption
  <1>2. Service!QuerySpec => []Service!HitsAreStored
    BY <1>1, Service!QueryCitesStored
  <1>3. PipelineInv /\ PointsAreExtracted /\ Service!HitsAreStored
            => CitedIsExtracted
    BY <1>1, StoredIsExtracted DEF Service!HitsAreStored, CitedIsExtracted
  <1>4. QED
    BY <1>2, <1>3, SystemImplementsQuery, SystemRunsPipeline, PipelineInvariant,
       PipelineExtractsFirst, PTL
    DEF ImplementsQuery
=============================================================================
