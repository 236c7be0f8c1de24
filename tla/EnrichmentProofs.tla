-------------------------- MODULE EnrichmentProofs --------------------------
(***************************************************************************)
(* What one enriched event announces, for any number of workers, chunks    *)
(* and attempts, and any sizes of the two kinds of batches.                *)
(***************************************************************************)
EXTENDS Enrichment, SequenceTheorems, FiniteSetTheorems, TLAPS

(* How far a handler has to be for each stage. *)
StagesReached ==
    \A w \in Workers :
        /\ at[w] \in {"upserting", "asking", "committing"} =>
              Len(vectors[w]) = Len(Chunks(w))
        /\ at[w] \in {"asking", "committing"} => upserted[w] = Len(Chunks(w))
        /\ at[w] \in {"idle", "embedding", "cooling"} => upserted[w] = 0
        /\ at[w] = "idle" => asked[w] = 0
        /\ at[w] = "committing" => answer[w] \in Answers

(* Vectors of another text come only with a vector missing. *)
CompleteIsInOrder ==
    \A w \in Workers : Len(vectors[w]) = asked[w] =>
        \A i \in 1 .. asked[w] : vectors[w][i] = Chunks(w)[i]

(* At most one worker has the claim, and none once the event is committed. *)
ClaimedByOne ==
    /\ \A v, w \in Workers : txn[v] = "open" /\ txn[w] = "open" => v = w
    /\ \A w \in Workers : txn[w] = "open" => announced = Unannounced

TypeInv ==
    /\ EnrichmentTypeOK
    /\ StagesReached

-----------------------------------------------------------------------------
LEMMA ChunksTyped ==
    ASSUME NEW c \in Configs
    PROVE  /\ Chunking[c] \in Seq(STRING)
           /\ Len(Chunking[c]) \in Nat
           /\ \A i \in 1 .. Len(Chunking[c]) : i \in Indices
  BY EnrichmentAssumption DEF Indices

(* A batch is a stretch of the chunks not sent yet. *)
LEMMA BatchIsNext ==
    ASSUME NEW n \in Int, NEW m \in Int, n < m, NEW size \in Int, size > 0
    PROVE  \E k \in Int : /\ k \in 1 .. m - n
                          /\ Batch(n, m, size) = n + 1 .. n + k
                          /\ Cardinality(Batch(n, m, size)) = k
  <1> DEFINE last == IF n + size < m THEN n + size ELSE m
  <1>1. last \in n + 1 .. m
    OBVIOUS
  <1>2. Batch(n, m, size) = n + 1 .. last
    BY DEF Batch
  <1> HIDE DEF last
  <1>3. last - n \in 1 .. m - n /\ last = n + (last - n)
    BY <1>1
  <1>4. Cardinality(n + 1 .. last) = last - n
    <2>1. n + 1 \in Int /\ last \in Int /\ n + 1 <= last
      BY <1>1
    <2>2. Cardinality(n + 1 .. last) = last - (n + 1) + 1
      BY <2>1, FS_Interval
    <2>3. QED
      BY <2>1, <2>2
  <1>5. last - n \in Int
    BY <1>3
  <1>6. QED
    BY <1>2, <1>3, <1>4, <1>5

(* What one call of the embedder adds: as many vectors as it was sent texts,
   and then in order, or one less. *)
LEMMA EmbedAdds ==
    ASSUME EnrichmentTypeOK, NEW w \in Workers, EmbedBatch(w)
    PROVE  /\ Chunks(w) \in Seq(STRING)
           /\ \E k \in 1 .. Len(Chunks(w)) - asked[w] :
              /\ asked' = [asked EXCEPT ![w] = @ + k]
              /\ \E reply \in Seq(STRING) :
                    /\ vectors' = [vectors EXCEPT ![w] = @ \o reply]
                    /\ \/ /\ Len(reply) = k
                          /\ \A i \in 1 .. k :
                                reply[i] = Chunks(w)[asked[w] + i]
                       \/ Len(reply) = k - 1
  <1> DEFINE batch == Batch(asked[w], Len(Chunks(w)), EmbedSize)
             reply == [k \in 1 .. Cardinality(batch) |-> Chunks(w)[asked[w] + k]]
  <1>1. Chunks(w) \in Seq(STRING) /\ Len(Chunks(w)) \in Nat
    BY ChunksTyped DEF EnrichmentTypeOK, Chunks
  <1>2. asked[w] \in Nat /\ asked[w] < Len(Chunks(w))
    BY DEF EmbedBatch, EnrichmentTypeOK
  <1>3. PICK k \in 1 .. Len(Chunks(w)) - asked[w] : Cardinality(batch) = k
    <2> DEFINE n == asked[w]
               m == Len(Chunks(w))
    <2>1. n \in Nat /\ m \in Nat /\ n < m
      BY <1>1, <1>2
    <2>2. EmbedSize \in Int /\ EmbedSize > 0
      BY EnrichmentAssumption
    <2>3. \E k \in 1 .. m - n : Cardinality(Batch(n, m, EmbedSize)) = k
      <3> HIDE DEF n, m, batch, reply
      <3> QED
        BY <2>1, <2>2, BatchIsNext
    <2>4. QED
      BY <2>3
  <1>4. reply = [i \in 1 .. k |-> Chunks(w)[asked[w] + i]]
    BY <1>3
  <1>5. \A i \in 1 .. k : asked[w] + i \in 1 .. Len(Chunks(w))
    BY <1>1, <1>2
  <1>6. \A i \in 1 .. k : Chunks(w)[asked[w] + i] \in STRING
    BY <1>1, <1>5
  <1>7. /\ asked' = [asked EXCEPT ![w] = @ + Len(reply)]
        /\ \/ vectors' = [vectors EXCEPT ![w] = @ \o reply]
           \/ vectors' = [vectors EXCEPT ![w] = @ \o Tail(reply)]
    BY DEF EmbedBatch
  <1> HIDE DEF reply, batch
  <1>8. k \in Nat \ {0}
    BY <1>1, <1>2
  <1>9. reply \in Seq(STRING) /\ Len(reply) = k
    BY <1>4, <1>6, <1>8
  <1>10. Tail(reply) \in Seq(STRING) /\ Len(Tail(reply)) = k - 1
    BY <1>8, <1>9
  <1>11. asked' = [asked EXCEPT ![w] = @ + k]
    BY <1>7, <1>9
  <1>12. \A i \in 1 .. k : reply[i] = Chunks(w)[asked[w] + i]
    BY <1>4
  <1>13. QED
    BY <1>1, <1>7, <1>9, <1>10, <1>11, <1>12

-----------------------------------------------------------------------------
(* Types, and what each stage means. *)

(* A handler that ends, whichever way. *)
LEMMA LeaveTypes ==
    ASSUME TypeInv, NEW w \in Workers, Leave(w),
           config' \in [Workers -> Configs],
           \A v \in Workers \ {w} : config'[v] = config[v],
           announced' = Unannounced \/ announced' \in [chunks : Nat, answer : Answers]
    PROVE  TypeInv'
  <1>1. Len(<<>>) = 0 /\ <<>> \in Seq(STRING)
    OBVIOUS
  <1>2. /\ at' \in [Workers -> Stages]
        /\ txn' \in [Workers -> {"none", "open", "lost"}]
        /\ asked' \in [Workers -> Nat]
        /\ vectors' \in [Workers -> Seq(STRING)]
        /\ upserted' \in [Workers -> Nat]
        /\ answer' \in [Workers -> Answers \cup {Unannounced}]
        /\ points' \in [Indices -> Points \cup {NoPoint}]
        /\ shown' \in BOOLEAN
    BY <1>1 DEF TypeInv, EnrichmentTypeOK, Leave, Stages
  <1>3. /\ at'[w] = "idle" /\ txn'[w] = "none"
        /\ asked'[w] = 0 /\ Len(vectors'[w]) = 0 /\ upserted'[w] = 0
    BY <1>1 DEF TypeInv, EnrichmentTypeOK, Leave
  <1>4. ASSUME NEW v \in Workers, v # w
        PROVE  /\ at'[v] = at[v] /\ txn'[v] = txn[v]
               /\ asked'[v] = asked[v] /\ vectors'[v] = vectors[v]
               /\ upserted'[v] = upserted[v] /\ answer'[v] = answer[v]
               /\ Chunks(v)' = Chunks(v)
    BY <1>4 DEF TypeInv, EnrichmentTypeOK, Leave, Chunks
  <1>5. Chunks(w)' \in Seq(STRING) /\ Len(Chunks(w)') \in Nat
    BY ChunksTyped DEF Chunks
  <1>6. EnrichmentTypeOK'
    <2>1. ASSUME NEW v \in Workers
          PROVE  /\ at'[v] = "idle" <=> txn'[v] = "none"
                 /\ Len(vectors'[v]) <= asked'[v]
                 /\ upserted'[v] <= asked'[v]
                 /\ asked'[v] <= Len(Chunks(v)')
      <3>1. CASE v = w
        BY <1>3, <1>5, <3>1
      <3>2. CASE v # w
        BY <1>4, <3>2 DEF TypeInv, EnrichmentTypeOK
      <3>3. QED
        BY <3>1, <3>2
    <2>2. QED
      BY <1>2, <2>1 DEF EnrichmentTypeOK, Points
  <1>7. StagesReached'
    BY <1>3, <1>4 DEF TypeInv, StagesReached
  <1>8. QED
    BY <1>6, <1>7 DEF TypeInv

LEMMA EmbedTypes ==
    ASSUME TypeInv, NEW w \in Workers, EmbedBatch(w)
    PROVE  TypeInv'
  <1>1. Chunks(w) \in Seq(STRING) /\ Len(Chunks(w)) \in Nat
    BY ChunksTyped DEF TypeInv, EnrichmentTypeOK, Chunks
  <1>2. PICK k \in 1 .. Len(Chunks(w)) - asked[w] :
            /\ asked' = [asked EXCEPT ![w] = @ + k]
            /\ \E reply \in Seq(STRING) :
                  /\ vectors' = [vectors EXCEPT ![w] = @ \o reply]
                  /\ Len(reply) \in {k, k - 1}
    BY EmbedAdds DEF TypeInv
  <1>3. PICK reply \in Seq(STRING) :
            /\ vectors' = [vectors EXCEPT ![w] = @ \o reply]
            /\ Len(reply) \in {k, k - 1}
    BY <1>2
  <1>4. vectors[w] \in Seq(STRING) /\ asked[w] \in Nat /\ upserted[w] \in Nat
    BY DEF TypeInv, EnrichmentTypeOK
  <1>5. /\ vectors[w] \o reply \in Seq(STRING)
        /\ Len(vectors[w] \o reply) = Len(vectors[w]) + Len(reply)
        /\ Len(vectors[w]) \in Nat /\ Len(reply) \in Nat
    BY <1>4
  <1>6. /\ asked'[w] = asked[w] + k /\ vectors'[w] = vectors[w] \o reply
        /\ at'[w] = "embedding" /\ at[w] \in {"embedding", "cooling"}
        /\ \A v \in Workers \ {w} : /\ asked'[v] = asked[v]
                                    /\ vectors'[v] = vectors[v]
                                    /\ at'[v] = at[v]
    BY <1>2, <1>3 DEF TypeInv, EnrichmentTypeOK, EmbedBatch
  <1>7. UNCHANGED <<config, txn, upserted, answer, points, announced, shown>>
    BY DEF EmbedBatch
  <1>8. \A v \in Workers : Chunks(v)' = Chunks(v)
    BY <1>7 DEF Chunks
  <1>9. /\ at' \in [Workers -> Stages]
        /\ asked' \in [Workers -> Nat]
        /\ vectors' \in [Workers -> Seq(STRING)]
    <2>1. at' \in [Workers -> Stages]
      BY DEF EmbedBatch, TypeInv, EnrichmentTypeOK, Stages
    <2>2. asked[w] + k \in Nat
      BY <1>1, <1>4
    <2>3. asked' \in [Workers -> Nat]
      BY <1>2, <2>2 DEF TypeInv, EnrichmentTypeOK
    <2>4. vectors' \in [Workers -> Seq(STRING)]
      BY <1>3, <1>5 DEF TypeInv, EnrichmentTypeOK
    <2>5. QED
      BY <2>1, <2>3, <2>4
  <1>10. ASSUME NEW v \in Workers
         PROVE  /\ at'[v] = "idle" <=> txn'[v] = "none"
                /\ Len(vectors'[v]) <= asked'[v]
                /\ upserted'[v] <= asked'[v]
                /\ asked'[v] <= Len(Chunks(v)')
    <2>1. CASE v = w
      BY <1>1, <1>3, <1>4, <1>5, <1>6, <1>7, <1>8, <2>1
      DEF TypeInv, EnrichmentTypeOK
    <2>2. CASE v # w
      BY <1>6, <1>7, <1>8, <2>2 DEF TypeInv, EnrichmentTypeOK
    <2>3. QED
      BY <2>1, <2>2
  <1>11. EnrichmentTypeOK'
    BY <1>7, <1>9, <1>10 DEF TypeInv, EnrichmentTypeOK, Points
  <1>12. StagesReached'
    BY <1>6, <1>7, <1>8 DEF TypeInv, StagesReached
  <1>13. QED
    BY <1>11, <1>12 DEF TypeInv

(* What one upsert adds: the next points, each with the vector and the text of
   its chunk. *)
LEMMA UpsertAdds ==
    ASSUME TypeInv, NEW w \in Workers, UpsertBatch(w)
    PROVE  /\ Len(vectors[w]) = Len(Chunks(w)) /\ asked[w] = Len(Chunks(w))
           /\ \E k \in Int :
                 /\ k \in 1 .. Len(Chunks(w)) - upserted[w]
                 /\ upserted' = [upserted EXCEPT ![w] = @ + k]
                 /\ points' = [i \in Indices |->
                                  IF i \in upserted[w] + 1 .. upserted[w] + k
                                  THEN [vector |-> vectors[w][i],
                                        text |-> Chunks(w)[i]]
                                  ELSE points[i]]
  <1> DEFINE n == upserted[w]
             m == Len(Chunks(w))
             batch == Batch(n, m, UpsertSize)
  <1>1. Chunks(w) \in Seq(STRING) /\ m \in Nat
    BY ChunksTyped DEF TypeInv, EnrichmentTypeOK, Chunks
  <1>2. n \in Nat /\ asked[w] \in Nat /\ n <= asked[w] /\ asked[w] <= m
    BY DEF TypeInv, EnrichmentTypeOK
  <1>3. Len(vectors[w]) = m /\ Len(vectors[w]) <= asked[w]
    BY DEF TypeInv, EnrichmentTypeOK, StagesReached, UpsertBatch, StepTo
  <1>4. asked[w] = m
    BY <1>1, <1>2, <1>3
  <1>5. UpsertSize \in Int /\ UpsertSize > 0
    BY EnrichmentAssumption
  <1>6. batch # {}
    BY DEF UpsertBatch
  <1>7. n < m
    <2> HIDE DEF n, m
    <2> QED
      BY <1>1, <1>2, <1>5, <1>6 DEF Batch
  <1>8. PICK k \in Int : /\ k \in 1 .. m - n
                         /\ batch = n + 1 .. n + k
                         /\ Cardinality(batch) = k
    <2> HIDE DEF n, m
    <2>1. n \in Int /\ m \in Int
      BY <1>1, <1>2
    <2>2. QED
      BY <1>5, <1>7, <2>1, BatchIsNext, Zenon
  <1>9. /\ points' = [i \in Indices |->
                         IF i \in batch
                         THEN [vector |-> vectors[w][i], text |-> Chunks(w)[i]]
                         ELSE points[i]]
        /\ upserted' = [upserted EXCEPT ![w] = @ + Cardinality(batch)]
    BY DEF UpsertBatch
  <1> HIDE DEF batch
  <1>10. QED
    BY <1>3, <1>4, <1>8, <1>9

LEMMA UpsertTypes ==
    ASSUME TypeInv, NEW w \in Workers, UpsertBatch(w)
    PROVE  TypeInv'
  <1> DEFINE n == upserted[w]
  <1>1. Chunks(w) \in Seq(STRING) /\ Len(Chunks(w)) \in Nat
    BY ChunksTyped DEF TypeInv, EnrichmentTypeOK, Chunks
  <1>2. PICK k \in Int :
            /\ k \in 1 .. Len(Chunks(w)) - n
            /\ upserted' = [upserted EXCEPT ![w] = @ + k]
            /\ points' = [i \in Indices |->
                             IF i \in n + 1 .. n + k
                             THEN [vector |-> vectors[w][i], text |-> Chunks(w)[i]]
                             ELSE points[i]]
    BY UpsertAdds
  <1>3. asked[w] = Len(Chunks(w)) /\ Len(vectors[w]) = Len(Chunks(w))
    BY UpsertAdds
  <1>4. /\ at' = at /\ at[w] = "upserting"
        /\ UNCHANGED <<config, txn, asked, vectors, answer, announced, shown>>
    BY DEF UpsertBatch, StepTo, TypeInv, EnrichmentTypeOK
  <1>5. n \in Nat /\ vectors[w] \in Seq(STRING)
    BY DEF TypeInv, EnrichmentTypeOK
  <1>6. n + k \in Nat /\ n + k <= Len(Chunks(w))
    BY <1>1, <1>2, <1>5
  <1>7. \A i \in n + 1 .. n + k : vectors[w][i] \in STRING /\ Chunks(w)[i] \in STRING
    <2>1. \A i \in n + 1 .. n + k : i \in 1 .. Len(Chunks(w))
      BY <1>1, <1>5, <1>6
    <2>2. QED
      BY <1>1, <1>3, <1>5, <2>1
  <1>8. points' \in [Indices -> Points \cup {NoPoint}]
    BY <1>2, <1>7 DEF TypeInv, EnrichmentTypeOK, Points
  <1>9. upserted' \in [Workers -> Nat] /\ upserted'[w] = n + k
        /\ \A v \in Workers \ {w} : upserted'[v] = upserted[v]
    BY <1>2, <1>6 DEF TypeInv, EnrichmentTypeOK
  <1>10. \A v \in Workers : Chunks(v)' = Chunks(v)
    BY <1>4 DEF Chunks
  <1> HIDE DEF n
  <1>11. \A v \in Workers : upserted'[v] <= asked'[v]
    BY <1>3, <1>4, <1>6, <1>9 DEF TypeInv, EnrichmentTypeOK
  <1>12. EnrichmentTypeOK'
    BY <1>4, <1>8, <1>9, <1>10, <1>11 DEF TypeInv, EnrichmentTypeOK, Points
  <1>13. StagesReached'
    BY <1>4, <1>9, <1>10 DEF TypeInv, StagesReached
  <1>14. QED
    BY <1>12, <1>13 DEF TypeInv

(* The other steps move a handler on, or do not touch one. *)
LEMMA TypeStep ==
    ASSUME TypeInv, [EnrichmentNext]_enrichmentVars
    PROVE  TypeInv'
  <1>1. ASSUME UNCHANGED <<config, handlerVars, points>>,
               at' \in [Workers -> Stages],
               txn' \in [Workers -> {"none", "open", "lost"}],
               \A v \in Workers : at'[v] = "idle" <=> txn'[v] = "none",
               announced' = announced, shown' \in BOOLEAN
        PROVE  EnrichmentTypeOK'
    BY <1>1 DEF TypeInv, EnrichmentTypeOK, handlerVars, Chunks, Points
  <1>2. ASSUME NEW w \in Workers, Start(w) \/ RateLimited(w) \/ Embedded(w)
                                      \/ Upserted(w) \/ LoseTransaction(w)
        PROVE  TypeInv'
    <2>1. EnrichmentTypeOK'
      BY <1>1, <1>2 DEF Start, RateLimited, Embedded, Upserted, LoseTransaction,
                        StepTo, TypeInv, EnrichmentTypeOK, Stages
    <2>2. \A v \in Workers : Chunks(v)' = Chunks(v)
      BY <1>2 DEF Start, RateLimited, Embedded, Upserted, LoseTransaction, Chunks
    <2>3. StagesReached'
      BY <1>2, <2>2 DEF Start, RateLimited, Embedded, Upserted, LoseTransaction,
                        StepTo, TypeInv, EnrichmentTypeOK, StagesReached,
                        handlerVars
    <2>4. QED
      BY <2>1, <2>3 DEF TypeInv
  <1>3. ASSUME NEW w \in Workers, AskLLM(w)
        PROVE  TypeInv'
    BY <1>3 DEF AskLLM, StepTo, TypeInv, EnrichmentTypeOK, StagesReached, Stages,
                Chunks, Points
  <1>4. ASSUME NEW w \in Workers, Commit(w) \/ Raise(w) \/ Redeploy(w)
        PROVE  TypeInv'
    <2>1. Leave(w) /\ config' \in [Workers -> Configs]
          /\ \A v \in Workers \ {w} : config'[v] = config[v]
      BY <1>4 DEF Commit, Raise, Redeploy, TypeInv, EnrichmentTypeOK
    <2>2. announced' = Unannounced \/ announced' \in [chunks : Nat, answer : Answers]
      BY <1>4, ChunksTyped DEF Commit, Raise, Redeploy, TypeInv, EnrichmentTypeOK,
                               StagesReached, Chunks
    <2>3. QED
      BY <2>1, <2>2, LeaveTypes
  <1>5. CASE Project
    BY <1>1, <1>5 DEF Project, TypeInv, EnrichmentTypeOK, StagesReached,
                      handlerVars, Chunks
  <1>6. CASE UNCHANGED enrichmentVars
    BY <1>1, <1>6 DEF enrichmentVars, TypeInv, EnrichmentTypeOK, StagesReached,
                      handlerVars, Chunks
  <1>7. QED
    BY <1>2, <1>3, <1>4, <1>5, <1>6, EmbedTypes, UpsertTypes
    DEF EnrichmentNext, HandleExtractedStep

-----------------------------------------------------------------------------
(* Vectors and texts. *)

LEMMA OrderStep ==
    ASSUME TypeInv, CompleteIsInOrder, [EnrichmentNext]_enrichmentVars
    PROVE  CompleteIsInOrder'
  <1>1. ASSUME NEW w \in Workers, EmbedBatch(w)
        PROVE  CompleteIsInOrder'
    <2>1. PICK k \in 1 .. Len(Chunks(w)) - asked[w] :
              /\ asked' = [asked EXCEPT ![w] = @ + k]
              /\ \E reply \in Seq(STRING) :
                    /\ vectors' = [vectors EXCEPT ![w] = @ \o reply]
                    /\ \/ /\ Len(reply) = k
                          /\ \A i \in 1 .. k : reply[i] = Chunks(w)[asked[w] + i]
                       \/ Len(reply) = k - 1
      BY <1>1, EmbedAdds DEF TypeInv
    <2>2. PICK reply \in Seq(STRING) :
              /\ vectors' = [vectors EXCEPT ![w] = @ \o reply]
              /\ \/ /\ Len(reply) = k
                    /\ \A i \in 1 .. k : reply[i] = Chunks(w)[asked[w] + i]
                 \/ Len(reply) = k - 1
      BY <2>1
    <2>3. /\ vectors[w] \in Seq(STRING) /\ Len(vectors[w]) \in Nat
          /\ asked[w] \in Nat /\ Len(vectors[w]) <= asked[w]
          /\ Len(Chunks(w)) \in Nat
      BY ChunksTyped DEF TypeInv, EnrichmentTypeOK, Chunks
    <2>4. /\ asked'[w] = asked[w] + k /\ vectors'[w] = vectors[w] \o reply
          /\ \A v \in Workers \ {w} : /\ asked'[v] = asked[v]
                                      /\ vectors'[v] = vectors[v]
      BY <2>1, <2>2 DEF TypeInv, EnrichmentTypeOK
    <2>5. \A v \in Workers : Chunks(v)' = Chunks(v)
      BY <1>1 DEF EmbedBatch, Chunks
    <2>6. ASSUME Len(vectors[w] \o reply) = asked[w] + k,
                 NEW i \in 1 .. asked[w] + k
          PROVE  (vectors[w] \o reply)[i] = Chunks(w)[i]
      <3>1. k \in Nat /\ Len(reply) \in Nat
        BY <2>3
      <3>2. Len(vectors[w]) + Len(reply) = asked[w] + k
        BY <2>3, <2>6
      <3>3. Len(reply) = k /\ Len(vectors[w]) = asked[w]
        BY <2>2, <2>3, <3>1, <3>2
      <3>4. i \in 1 .. Len(vectors[w]) + Len(reply) /\ i \in Int
        BY <2>3, <3>1, <3>2
      <3>5. (vectors[w] \o reply)[i] = IF i <= asked[w] THEN vectors[w][i]
                                       ELSE reply[i - asked[w]]
        <4>1. vectors[w] \in Seq(STRING) /\ reply \in Seq(STRING)
          BY <2>3
        <4>2. \A x \in 1 .. Len(vectors[w]) + Len(reply) :
                  (vectors[w] \o reply)[x] = IF x <= Len(vectors[w])
                                             THEN vectors[w][x]
                                             ELSE reply[x - Len(vectors[w])]
          BY <4>1, ConcatProperties, Zenon
        <4>3. QED
          BY <3>3, <3>4, <4>2
      <3>6. CASE i <= asked[w]
        <4>1. i \in 1 .. asked[w]
          BY <2>3, <3>4, <3>6
        <4>2. vectors[w][i] = Chunks(w)[i]
          BY <3>3, <4>1 DEF CompleteIsInOrder
        <4>3. QED
          BY <3>5, <3>6, <4>2
      <3>7. CASE ~(i <= asked[w])
        <4> DEFINE j == i - asked[w]
        <4>1. j \in 1 .. k /\ asked[w] + j = i
          BY <2>3, <3>1, <3>3, <3>4, <3>7
        <4>2. reply[j] = Chunks(w)[asked[w] + j]
          BY <2>2, <3>1, <3>3, <4>1
        <4>3. QED
          BY <3>5, <3>7, <4>1, <4>2
      <3>8. QED
        BY <3>6, <3>7
    <2>7. ASSUME NEW v \in Workers, Len(vectors'[v]) = asked'[v],
                 NEW i \in 1 .. asked'[v]
          PROVE  vectors'[v][i] = Chunks(v)'[i]
      <3>1. CASE v = w
        BY <2>4, <2>5, <2>6, <2>7, <3>1
      <3>2. CASE v # w
        BY <2>4, <2>5, <2>7, <3>2 DEF CompleteIsInOrder
      <3>3. QED
        BY <3>1, <3>2
    <2>8. QED
      BY <2>7 DEF CompleteIsInOrder
  <1>2. ASSUME NEW w \in Workers, Commit(w) \/ Raise(w) \/ Redeploy(w)
        PROVE  CompleteIsInOrder'
    <2>1. asked'[w] = 0
      BY <1>2 DEF Commit, Raise, Redeploy, Leave, TypeInv, EnrichmentTypeOK
    <2>2. \A v \in Workers \ {w} : /\ asked'[v] = asked[v]
                                  /\ vectors'[v] = vectors[v]
                                  /\ Chunks(v)' = Chunks(v)
      BY <1>2 DEF Commit, Raise, Redeploy, Leave, TypeInv, EnrichmentTypeOK,
                  Chunks
    <2>3. QED
      BY <2>1, <2>2 DEF CompleteIsInOrder
  <1>3. ASSUME UNCHANGED <<config, asked, vectors>>
        PROVE  CompleteIsInOrder'
    BY <1>3 DEF CompleteIsInOrder, Chunks
  <1>4. QED
    BY <1>1, <1>2, <1>3
    DEF EnrichmentNext, HandleExtractedStep, Start, RateLimited, Embedded,
        UpsertBatch, Upserted, AskLLM, LoseTransaction, Project, handlerVars,
        enrichmentVars

LEMMA MatchStep ==
    ASSUME TypeInv, CompleteIsInOrder, VectorsMatchTexts,
           [EnrichmentNext]_enrichmentVars
    PROVE  VectorsMatchTexts'
  <1>1. ASSUME NEW w \in Workers, UpsertBatch(w)
        PROVE  VectorsMatchTexts'
    <2>1. PICK k \in Int :
              /\ k \in 1 .. Len(Chunks(w)) - upserted[w]
              /\ points' = [i \in Indices |->
                               IF i \in upserted[w] + 1 .. upserted[w] + k
                               THEN [vector |-> vectors[w][i],
                                     text |-> Chunks(w)[i]]
                               ELSE points[i]]
      BY <1>1, UpsertAdds
    <2>2. Len(vectors[w]) = asked[w] /\ asked[w] = Len(Chunks(w))
      BY <1>1, UpsertAdds
    <2>3. upserted[w] \in Nat /\ asked[w] \in Nat
      BY DEF TypeInv, EnrichmentTypeOK
    <2>4. \A i \in upserted[w] + 1 .. upserted[w] + k :
              vectors[w][i] = Chunks(w)[i]
      <3>1. \A i \in upserted[w] + 1 .. upserted[w] + k : i \in 1 .. asked[w]
        BY <2>1, <2>2, <2>3
      <3>2. QED
        BY <2>2, <3>1 DEF CompleteIsInOrder
    <2>5. ASSUME NEW i \in Indices, points'[i] # NoPoint
          PROVE  points'[i].vector = points'[i].text
      BY <2>1, <2>4, <2>5 DEF VectorsMatchTexts, Stored
    <2>6. QED
      BY <2>5 DEF VectorsMatchTexts, Stored
  <1>2. ASSUME points' = points
        PROVE  VectorsMatchTexts'
    BY <1>2 DEF VectorsMatchTexts, Stored
  <1>3. QED
    BY <1>1, <1>2
    DEF EnrichmentNext, HandleExtractedStep, Start, EmbedBatch, RateLimited,
        Embedded, Upserted, AskLLM, Commit, Raise, Redeploy, Leave,
        LoseTransaction, Project, enrichmentVars

-----------------------------------------------------------------------------
(* The claim. *)
LEMMA ClaimStep ==
    ASSUME TypeInv, ClaimedByOne, [EnrichmentNext]_enrichmentVars
    PROVE  /\ ClaimedByOne'
           /\ announced # Unannounced => announced' = announced
  <1>1. ASSUME NEW w \in Workers, Start(w)
        PROVE  ClaimedByOne' /\ announced' = announced
    BY <1>1 DEF Start, ClaimedByOne, TypeInv, EnrichmentTypeOK
  <1>2. ASSUME NEW w \in Workers, Commit(w)
        PROVE  ClaimedByOne' /\ announced = Unannounced
    <2>1. \A v \in Workers : txn'[v] # "open"
      BY <1>2 DEF Commit, Leave, ClaimedByOne, TypeInv, EnrichmentTypeOK
    <2>2. QED
      BY <1>2, <2>1 DEF Commit, ClaimedByOne
  <1>3. ASSUME NEW w \in Workers, Raise(w) \/ Redeploy(w) \/ LoseTransaction(w)
        PROVE  ClaimedByOne' /\ announced' = announced
    BY <1>3 DEF Raise, Redeploy, LoseTransaction, Leave, ClaimedByOne, TypeInv,
                EnrichmentTypeOK
  <1>4. ASSUME UNCHANGED <<txn, announced>>
        PROVE  ClaimedByOne' /\ announced' = announced
    BY <1>4 DEF ClaimedByOne
  <1>5. QED
    BY <1>1, <1>2, <1>3, <1>4
    DEF EnrichmentNext, HandleExtractedStep, EmbedBatch, RateLimited, Embedded,
        UpsertBatch, Upserted, AskLLM, Project, enrichmentVars

-----------------------------------------------------------------------------
(* What is in Qdrant.  The number of chunks has to be the same with each
   configuration that is ever used; the texts need not be. *)
OneChunking == \A c, d \in Configs : Len(Chunking[c]) = Len(Chunking[d])

(* Points are upserted from the first one on, and none is deleted. *)
SentIsStored == \A w \in Workers : 1 .. upserted[w] \subseteq Stored

StoredIsPrefix == \E k \in Nat : Stored = 1 .. k

(* When the event is out, every point is in. *)
AnnouncedIsAll ==
    announced # Unannounced =>
        /\ Stored = Indices
        /\ \E c \in Configs : announced.chunks = Len(Chunking[c])

SearchInv ==
    /\ SentIsStored
    /\ StoredIsPrefix
    /\ AnnouncedIsAll

LEMMA IndicesOfAny ==
    ASSUME OneChunking, NEW c \in Configs
    PROVE  Indices = 1 .. Len(Chunking[c])
  BY DEF OneChunking, Indices

LEMMA UpsertStores ==
    ASSUME OneChunking, TypeInv, SentIsStored, StoredIsPrefix,
           NEW w \in Workers, UpsertBatch(w)
    PROVE  /\ Stored \subseteq Stored'
           /\ SentIsStored'
           /\ StoredIsPrefix'
  <1> DEFINE n == upserted[w]
             m == Len(Chunks(w))
  <1>1. PICK k \in Int :
            /\ k \in 1 .. m - n
            /\ upserted' = [upserted EXCEPT ![w] = @ + k]
            /\ points' = [i \in Indices |->
                             IF i \in n + 1 .. n + k
                             THEN [vector |-> vectors[w][i], text |-> Chunks(w)[i]]
                             ELSE points[i]]
    BY UpsertAdds
  <1>2. Chunks(w) \in Seq(STRING) /\ m \in Nat /\ n \in Nat
        /\ Len(vectors[w]) = m /\ vectors[w] \in Seq(STRING)
    BY ChunksTyped, UpsertAdds DEF TypeInv, EnrichmentTypeOK, Chunks
  <1>3. Indices = 1 .. m
    BY IndicesOfAny DEF TypeInv, EnrichmentTypeOK, Chunks
  <1>4. n + 1 .. n + k \subseteq 1 .. m
    BY <1>1, <1>2
  <1>5. \A i \in n + 1 .. n + k :
            [vector |-> vectors[w][i], text |-> Chunks(w)[i]] # NoPoint
    BY <1>2, <1>4, EnrichmentAssumption DEF Points
  <1>6. Stored' = Stored \cup (n + 1 .. n + k)
    <2>1. \A i \in Indices : points'[i] # NoPoint
                                <=> i \in n + 1 .. n + k \/ points[i] # NoPoint
      BY <1>1, <1>5
    <2>2. QED
      BY <1>3, <1>4, <2>1 DEF Stored
  <1>7. upserted'[w] = n + k
        /\ \A v \in Workers \ {w} : upserted'[v] = upserted[v]
    BY <1>1 DEF TypeInv, EnrichmentTypeOK
  <1>8. 1 .. n \subseteq Stored
    BY DEF SentIsStored
  <1> HIDE DEF n, m
  <1>9. 1 .. n + k \subseteq Stored'
    <2>1. \A i \in 1 .. n + k : i \in 1 .. n \/ i \in n + 1 .. n + k
      BY <1>1, <1>2
    <2>2. QED
      BY <1>6, <1>8, <2>1
  <1>10. SentIsStored'
    BY <1>6, <1>7, <1>9 DEF SentIsStored
  <1>11. StoredIsPrefix'
    <2>1. PICK j \in Nat : Stored = 1 .. j
      BY DEF StoredIsPrefix
    <2>2. CASE j <= n + k
      <3>1. Stored' = 1 .. n + k
        <4>1. 1 .. j \subseteq 1 .. n + k /\ n + 1 .. n + k \subseteq 1 .. n + k
          BY <1>1, <1>2, <2>2
        <4>2. QED
          BY <1>6, <1>9, <2>1, <4>1
      <3>2. n + k \in Nat
        BY <1>1, <1>2
      <3>3. QED
        BY <3>1, <3>2 DEF StoredIsPrefix
    <2>3. CASE ~(j <= n + k)
      <3>1. n + 1 .. n + k \subseteq 1 .. j
        BY <1>1, <1>2, <2>3
      <3>2. Stored' = 1 .. j
        BY <1>6, <2>1, <3>1
      <3>3. QED
        BY <3>2 DEF StoredIsPrefix
    <2>4. QED
      BY <2>2, <2>3
  <1>12. QED
    BY <1>6, <1>10, <1>11

LEMMA SearchStep ==
    ASSUME OneChunking, TypeInv, SearchInv, [EnrichmentNext]_enrichmentVars
    PROVE  SearchInv'
  <1>1. ASSUME NEW w \in Workers, UpsertBatch(w)
        PROVE  SearchInv'
    <2>1. Stored \subseteq Stored' /\ SentIsStored' /\ StoredIsPrefix'
      BY <1>1, UpsertStores DEF SearchInv
    <2>2. Stored' \subseteq Indices
      BY DEF Stored
    <2>3. announced' = announced
      BY <1>1 DEF UpsertBatch
    <2>4. AnnouncedIsAll'
      BY <2>1, <2>2, <2>3 DEF SearchInv, AnnouncedIsAll
    <2>5. QED
      BY <2>1, <2>4 DEF SearchInv
  <1>2. ASSUME points' = points
        PROVE  Stored' = Stored /\ StoredIsPrefix'
    BY <1>2 DEF Stored, SearchInv, StoredIsPrefix
  <1>3. ASSUME NEW w \in Workers, Leave(w)
        PROVE  SentIsStored' /\ points' = points
    <2>1. /\ points' = points /\ upserted'[w] = 0
          /\ \A v \in Workers \ {w} : upserted'[v] = upserted[v]
      BY <1>3 DEF Leave, TypeInv, EnrichmentTypeOK
    <2>2. 1 .. 0 = {}
      OBVIOUS
    <2>3. QED
      BY <1>2, <2>1, <2>2 DEF SentIsStored, SearchInv
  <1>4. ASSUME NEW w \in Workers, Commit(w)
        PROVE  SearchInv'
    <2>1. SentIsStored' /\ Stored' = Stored /\ StoredIsPrefix'
      BY <1>2, <1>3, <1>4 DEF Commit
    <2>2. config[w] \in Configs /\ upserted[w] = Len(Chunks(w))
      BY <1>4 DEF Commit, TypeInv, EnrichmentTypeOK, StagesReached
    <2>3. Indices = 1 .. upserted[w]
      BY <2>2, IndicesOfAny DEF Chunks
    <2>4. Stored = Indices
      BY <2>3 DEF SearchInv, SentIsStored, Stored
    <2>5. announced'.chunks = Len(Chunks(w))
      BY <1>4 DEF Commit
    <2>6. AnnouncedIsAll'
      BY <2>1, <2>2, <2>4, <2>5 DEF AnnouncedIsAll, Chunks
    <2>7. QED
      BY <2>1, <2>6 DEF SearchInv
  <1>5. ASSUME NEW w \in Workers, Raise(w) \/ Redeploy(w)
        PROVE  SearchInv'
    <2>1. SentIsStored' /\ Stored' = Stored /\ StoredIsPrefix'
      BY <1>2, <1>3, <1>5 DEF Raise, Redeploy
    <2>2. QED
      BY <1>5, <2>1 DEF Raise, Redeploy, SearchInv, AnnouncedIsAll
  <1>6. ASSUME UNCHANGED <<points, upserted, announced>>
        PROVE  SearchInv'
    BY <1>2, <1>6 DEF SearchInv, SentIsStored, AnnouncedIsAll
  <1>7. QED
    BY <1>1, <1>4, <1>5, <1>6
    DEF EnrichmentNext, HandleExtractedStep, Start, EmbedBatch, RateLimited,
        Embedded, Upserted, AskLLM, LoseTransaction, Project, handlerVars,
        enrichmentVars

LEMMA AllIsSearchable ==
    ASSUME OneChunking, SearchInv
    PROVE  AnnouncedIsSearchable
  BY IndicesOfAny DEF SearchInv, AnnouncedIsAll, AnnouncedIsSearchable

-----------------------------------------------------------------------------
(* The invariant, and what follows. *)
EnrichmentInv ==
    /\ TypeInv
    /\ CompleteIsInOrder
    /\ VectorsMatchTexts
    /\ ClaimedByOne

LEMMA EnrichmentInvInit == EnrichmentInit => EnrichmentInv
  <1> SUFFICES ASSUME EnrichmentInit PROVE EnrichmentInv
    OBVIOUS
  <1>1. Len(<<>>) = 0 /\ <<>> \in Seq(STRING)
    OBVIOUS
  <1>2. \A w \in Workers : config[w] \in Configs
    BY DEF EnrichmentInit
  <1>3. EnrichmentTypeOK
    <2>1. /\ config \in [Workers -> Configs]
          /\ at \in [Workers -> Stages]
          /\ txn \in [Workers -> {"none", "open", "lost"}]
          /\ asked \in [Workers -> Nat]
          /\ upserted \in [Workers -> Nat]
          /\ answer \in [Workers -> Answers \cup {Unannounced}]
      BY DEF EnrichmentInit, Stages
    <2>2. vectors \in [Workers -> Seq(STRING)]
      BY <1>1, Zenon DEF EnrichmentInit
    <2>3. points \in [Indices -> Points \cup {NoPoint}]
      <3>1. NoPoint \in Points \cup {NoPoint}
        OBVIOUS
      <3>2. QED
        BY <3>1, Zenon DEF EnrichmentInit
    <2>4. ASSUME NEW w \in Workers
          PROVE  /\ at[w] = "idle" <=> txn[w] = "none"
                 /\ Len(vectors[w]) <= asked[w]
                 /\ upserted[w] <= asked[w]
                 /\ asked[w] <= Len(Chunks(w))
      <3>1. /\ at[w] = "idle" /\ txn[w] = "none"
            /\ asked[w] = 0 /\ upserted[w] = 0 /\ vectors[w] = <<>>
        BY DEF EnrichmentInit
      <3>2. Len(Chunks(w)) \in Nat
        BY <1>2, ChunksTyped DEF Chunks
      <3>3. QED
        BY <1>1, <3>1, <3>2
    <2>5. announced = Unannounced /\ shown \in BOOLEAN
      BY DEF EnrichmentInit
    <2>6. QED
      BY <2>1, <2>2, <2>3, <2>4, <2>5 DEF EnrichmentTypeOK
  <1>4. StagesReached
    BY DEF EnrichmentInit, StagesReached
  <1>5. CompleteIsInOrder /\ VectorsMatchTexts /\ ClaimedByOne
    BY DEF EnrichmentInit, CompleteIsInOrder, VectorsMatchTexts, Stored,
           ClaimedByOne
  <1>6. QED
    BY <1>3, <1>4, <1>5 DEF EnrichmentInv, TypeInv

LEMMA EnrichmentInvariant == EnrichmentSpec => []EnrichmentInv
  <1>1. EnrichmentInv /\ [EnrichmentNext]_enrichmentVars => EnrichmentInv'
    BY TypeStep, OrderStep, MatchStep, ClaimStep DEF EnrichmentInv
  <1>2. QED
    BY <1>1, EnrichmentInvInit, PTL DEF EnrichmentSpec

LEMMA SearchInvariant ==
    ASSUME OneChunking
    PROVE  EnrichmentSpec => []SearchInv
  <1>1. EnrichmentInit => SearchInv
    <2> SUFFICES ASSUME EnrichmentInit PROVE SearchInv
      OBVIOUS
    <2>1. Stored = {}
      BY DEF EnrichmentInit, Stored
    <2>2. 1 .. 0 = {}
      OBVIOUS
    <2>3. QED
      BY <2>1, <2>2 DEF EnrichmentInit, SearchInv, SentIsStored, StoredIsPrefix,
                        AnnouncedIsAll
  <1>2. EnrichmentInv /\ SearchInv /\ [EnrichmentNext]_enrichmentVars => SearchInv'
    BY SearchStep DEF EnrichmentInv
  <1>3. QED
    BY <1>1, <1>2, EnrichmentInvariant, PTL DEF EnrichmentSpec

(* Types, for any number of workers, chunks and batch sizes. *)
THEOREM EnrichmentTypeCorrect == EnrichmentSpec => []EnrichmentTypeOK
  <1>1. EnrichmentInv => EnrichmentTypeOK
    BY DEF EnrichmentInv, TypeInv
  <1>2. QED
    BY <1>1, EnrichmentInvariant, PTL

(* No point ever has the vector of another chunk: whatever replies come back
   short, a complete set of vectors is in order (embed, upsert_chunks). *)
THEOREM EnrichmentMatchesVectors == EnrichmentSpec => []VectorsMatchTexts
  <1>1. EnrichmentInv => VectorsMatchTexts
    BY DEF EnrichmentInv
  <1>2. QED
    BY <1>1, EnrichmentInvariant, PTL

(* The enriched event is committed once and never changed, although lost
   transactions let any number of handlers be at work (mark_processed). *)
THEOREM EnrichmentAnnouncesOnce == EnrichmentSpec => AnnouncedOnce
  <1>1. EnrichmentInv /\ [EnrichmentNext]_enrichmentVars
            => [announced # Unannounced => announced' = announced]_enrichmentVars
    BY ClaimStep DEF EnrichmentInv
  <1>2. QED
    BY <1>1, EnrichmentInvariant, PTL DEF EnrichmentSpec, AnnouncedOnce

(* What the event announces is what Qdrant has, if the chunking is not changed
   while documents are enriched (upsert_chunks). *)
THEOREM EnrichmentIsSearchable ==
    ASSUME OneChunking
    PROVE  EnrichmentSpec => []AnnouncedIsSearchable
  <1>1. SearchInv => AnnouncedIsSearchable
    BY AllIsSearchable
  <1>2. QED
    BY <1>1, SearchInvariant, PTL
-----------------------------------------------------------------------------
(* The read side (ReadSide) as this detailed handler implements it. *)
LEMMA UpToNumber ==
    ASSUME NEW j \in Nat
    PROVE  Cardinality(1 .. j) = j
  <1>1. CASE j = 0
    <2>1. 1 .. j = {}
      BY <1>1
    <2>2. QED
      BY <1>1, <2>1, FS_EmptySet
  <1>2. CASE j # 0
    <2>1. 1 \in Int /\ j \in Int /\ 1 <= j
      BY <1>2
    <2>2. Cardinality(1 .. j) = j - 1 + 1
      BY <2>1, FS_Interval
    <2>3. QED
      BY <2>2
  <1>3. QED
    BY <1>1, <1>2

(* Upserts go on to some chunk, or repeat chunks that are there. *)
LEMMA UpsertIsStoreTo ==
    ASSUME OneChunking, TypeInv, SearchInv, NEW w \in Workers, UpsertBatch(w)
    PROVE  [Read!ReadSideNext]_(Read!readSideVars)
  <1>1. Stored \subseteq Stored' /\ StoredIsPrefix' /\ StoredIsPrefix
    BY UpsertStores DEF SearchInv
  <1>2. PICK a \in Nat, b \in Nat : Stored = 1 .. a /\ Stored' = 1 .. b
    BY <1>1 DEF StoredIsPrefix
  <1>3. Cardinality(Stored) = a /\ Cardinality(Stored)' = b
    BY <1>2, UpToNumber
  <1>4. config[w] \in Configs
    BY DEF TypeInv, EnrichmentTypeOK
  <1>5. PICK m \in Nat : Indices = 1 .. m
    BY <1>4, IndicesOfAny, ChunksTyped
  <1>6. Cardinality(Indices) = m
    BY <1>5, UpToNumber
  <1>7. Stored' \subseteq Indices
    BY DEF Stored
  <1>8. 1 .. a \subseteq 1 .. b /\ 1 .. b \subseteq 1 .. m
    BY <1>1, <1>2, <1>5, <1>7
  <1>9. a <= b /\ b <= m
    <2>1. a = 0 \/ a \in 1 .. a
      OBVIOUS
    <2>2. b = 0 \/ b \in 1 .. b
      OBVIOUS
    <2>3. QED
      BY <1>8, <2>1, <2>2
  <1>10. shown' = shown
    BY DEF UpsertBatch
  <1>11. CASE a = b
    BY <1>3, <1>10, <1>11 DEF Read!readSideVars
  <1>12. CASE a # b
    <2>1. b \in a + 1 .. m /\ b \in 1 .. m
      BY <1>9, <1>12
    <2>2. Read!StoreTo("document", b)
      BY <1>3, <1>6, <1>10, <2>1 DEF Read!StoreTo
    <2>3. b \in 1 .. [d \in {"document"} |-> Cardinality(Indices)]["document"]
      BY <1>6, <2>1
    <2>4. QED
      BY <2>2, <2>3 DEF Read!ReadSideNext
  <1>13. QED
    BY <1>11, <1>12

LEMMA ReadSideStep ==
    ASSUME OneChunking, TypeInv, SearchInv, [EnrichmentNext]_enrichmentVars
    PROVE  [Read!ReadSideNext]_(Read!readSideVars)
  <1>1. CASE \E w \in Workers : UpsertBatch(w)
    BY <1>1, UpsertIsStoreTo
  <1>2. CASE Project
    <2>1. Stored = Indices /\ UNCHANGED points /\ shown' = TRUE
      BY <1>2 DEF Project, SearchInv, AnnouncedIsAll
    <2>2. Cardinality(Stored)' = Cardinality(Stored)
      BY <2>1 DEF Stored
    <2>3. Read!Show("document")
      BY <2>1, <2>2 DEF Read!Show
    <2>4. QED
      BY <2>3 DEF Read!ReadSideNext
  <1>3. ASSUME UNCHANGED <<points, shown>>
        PROVE  UNCHANGED Read!readSideVars
    <2>1. Cardinality(Stored)' = Cardinality(Stored)
      BY <1>3 DEF Stored
    <2>2. QED
      BY <1>3, <2>1 DEF Read!readSideVars
  <1>4. (\E w \in Workers : UpsertBatch(w)) \/ Project
           \/ UNCHANGED <<points, shown>>
    BY DEF EnrichmentNext, HandleExtractedStep, Start, EmbedBatch, RateLimited,
           Embedded, Upserted, AskLLM, Commit, Raise, Redeploy, Leave,
           LoseTransaction, handlerVars, enrichmentVars
  <1>5. QED
    BY <1>1, <1>2, <1>3, <1>4

(* To the query service the detailed handler is the write side it relies on:
   chunks from the first one on, and the document shown when all are there
   (upsert_chunks, mark_processed, the projector), if the chunking is not
   changed. *)
THEOREM EnrichmentImplementsReadSide ==
    ASSUME OneChunking
    PROVE  EnrichmentSpec => ImplementsReadSide
  <1>1. EnrichmentInit => Read!ReadSideInit
    <2> SUFFICES ASSUME EnrichmentInit PROVE Read!ReadSideInit
      OBVIOUS
    <2>1. Stored = {} /\ ~shown
      BY DEF EnrichmentInit, Stored
    <2>2. Cardinality(Stored) = 0
      BY <2>1, FS_EmptySet
    <2>3. QED
      BY <2>1, <2>2 DEF Read!ReadSideInit
  <1>2. EnrichmentInv /\ SearchInv /\ [EnrichmentNext]_enrichmentVars
            => [Read!ReadSideNext]_(Read!readSideVars)
    BY ReadSideStep DEF EnrichmentInv
  <1>3. QED
    BY <1>1, <1>2, EnrichmentInvariant, SearchInvariant, PTL
    DEF EnrichmentSpec, ImplementsReadSide, Read!ReadSideSpec
=============================================================================
