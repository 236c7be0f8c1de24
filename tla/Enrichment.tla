----------------------------- MODULE Enrichment -----------------------------
(***************************************************************************)
(* handle_extracted (enrichment/) in detail, for one document: chunks are  *)
(* embedded in batches, upserted in batches and then summarised, each call *)
(* to another service a step of its own, all in one database transaction.  *)
(*                                                                         *)
(* The database may end the transaction (a lost connection, a failover)    *)
(* while the handler waits for a service.  The handler finds out when it   *)
(* commits; another worker may have its claim by then, and both write to   *)
(* Qdrant.                                                                 *)
(***************************************************************************)
EXTENDS Naturals, Sequences, FiniteSets

CONSTANTS
    Workers,      \* enrichment workers that get a record of the event
    Configs,      \* values of embedding.chunk_size a deployment may have
    Chunking,     \* [Configs -> Seq(texts)]: chunk_text of the document
    EmbedSize,    \* texts in one call of the embedder
    UpsertSize,   \* points in one upsert
    Answers,      \* what _parse may make of the reply of the LLM
    Unannounced,  \* no enriched event yet
    NoPoint       \* no point of this id

(* A point has the vector of a text, and the text of its payload. *)
Points == [vector : STRING, text : STRING]

ASSUME EnrichmentAssumption ==
    /\ \A c \in Configs : Chunking[c] \in Seq(STRING)
    /\ NoPoint \notin Points
    /\ EmbedSize \in Nat \ {0}
    /\ UpsertSize \in Nat \ {0}

VARIABLES
    config,     \* [Workers -> Configs]: what the process was started with
    at,         \* [Workers -> Stages]: where its handler stands
    txn,        \* [Workers -> {"none", "open", "lost"}]: its transaction
    asked,      \* [Workers -> Nat]: chunks sent to the embedder
    vectors,    \* [Workers -> Seq]: vectors received; that of a text is the text
    upserted,   \* [Workers -> Nat]: points sent to Qdrant
    answer,     \* [Workers -> Answers or Unannounced]
    points,     \* [1 .. MaxChunks -> points]: what Qdrant has, by chunk index
    announced,  \* the enriched event, committed with claim and job
    shown       \* the projector has worked it off

handlerVars == <<asked, vectors, upserted, answer>>
enrichmentVars == <<config, at, txn, handlerVars, points, announced, shown>>

Stages == {"idle", "embedding", "cooling", "upserting", "asking", "committing"}

Chunks(w) == Chunking[config[w]]

(* A batch that starts after the first n of m. *)
Batch(n, m, size) == n + 1 .. IF n + size < m THEN n + size ELSE m

Indices == UNION {1 .. Len(Chunking[c]) : c \in Configs}

(* One id per chunk index, whatever the text (point_id). *)
Stored == {i \in Indices : points[i] # NoPoint}

EnrichmentInit ==
    /\ config \in [Workers -> Configs]
    /\ at = [w \in Workers |-> "idle"]
    /\ txn = [w \in Workers |-> "none"]
    /\ asked = [w \in Workers |-> 0]
    /\ vectors = [w \in Workers |-> <<>>]
    /\ upserted = [w \in Workers |-> 0]
    /\ answer = [w \in Workers |-> Unannounced]
    /\ points = [i \in Indices |-> NoPoint]
    /\ announced = Unannounced
    /\ shown = FALSE

-----------------------------------------------------------------------------
StepTo(w, from, to) ==
    /\ at[w] = from
    /\ at' = [at EXCEPT ![w] = to]

(* Mutant of Start: a look at processed_events, no unique index. *)
StartUnclaimed(w) ==
    /\ StepTo(w, "idle", "embedding")
    /\ announced = Unannounced
    /\ txn' = [txn EXCEPT ![w] = "open"]
    /\ UNCHANGED <<config, handlerVars, points, announced, shown>>

(* The claim is inserted, which waits for any transaction that has it, and the
   text is read and cut into chunks. *)
Start(w) ==
    /\ StepTo(w, "idle", "embedding")
    /\ announced = Unannounced
    /\ \A v \in Workers : txn[v] # "open"
    /\ txn' = [txn EXCEPT ![w] = "open"]
    /\ UNCHANGED <<config, handlerVars, points, announced, shown>>

(* One batch is embedded.  The reply has a vector for each text, in order, or
   leaves one out. *)
EmbedBatch(w) ==
    LET batch == Batch(asked[w], Len(Chunks(w)), EmbedSize)
        reply == [k \in 1 .. Cardinality(batch) |-> Chunks(w)[asked[w] + k]]
    IN
    /\ at[w] \in {"embedding", "cooling"}
    /\ asked[w] < Len(Chunks(w))
    /\ at' = [at EXCEPT ![w] = "embedding"]
    /\ asked' = [asked EXCEPT ![w] = @ + Len(reply)]
    /\ \/ vectors' = [vectors EXCEPT ![w] = @ \o reply]
       \/ vectors' = [vectors EXCEPT ![w] = @ \o Tail(reply)]
    /\ UNCHANGED <<config, txn, upserted, answer, points, announced, shown>>

(* A 429: the worker sleeps and tries once more; the next one is raised. *)
RateLimited(w) ==
    /\ StepTo(w, "embedding", "cooling")
    /\ asked[w] < Len(Chunks(w))
    /\ UNCHANGED <<config, txn, handlerVars, points, announced, shown>>

(* Mutant of Embedded: what came back is upserted, unchecked. *)
EmbeddedUnchecked(w) ==
    /\ StepTo(w, "embedding", "upserting")
    /\ asked[w] = Len(Chunks(w))
    /\ UNCHANGED <<config, txn, handlerVars, points, announced, shown>>

(* upsert_chunks raises unless there is a vector for each chunk. *)
Embedded(w) ==
    /\ StepTo(w, "embedding", "upserting")
    /\ asked[w] = Len(Chunks(w))
    /\ Len(vectors[w]) = Len(Chunks(w))
    /\ UNCHANGED <<config, txn, handlerVars, points, announced, shown>>

(* One batch of points, each under the id of its index. *)
UpsertBatch(w) ==
    LET batch == Batch(upserted[w], Len(Chunks(w)), UpsertSize) IN
    /\ StepTo(w, "upserting", "upserting")
    /\ batch # {}
    /\ points' = [i \in Indices |->
                     IF i \in batch
                     THEN [vector |-> vectors[w][i], text |-> Chunks(w)[i]]
                     ELSE points[i]]
    /\ upserted' = [upserted EXCEPT ![w] = @ + Cardinality(batch)]
    /\ UNCHANGED <<config, txn, asked, vectors, answer, announced, shown>>

(* Mutant of Upserted: only full batches go out. *)
UpsertedFullBatches(w) ==
    /\ StepTo(w, "upserting", "asking")
    /\ upserted[w] + UpsertSize > Len(Chunks(w))
    /\ UNCHANGED <<config, txn, handlerVars, points, announced, shown>>

Upserted(w) ==
    /\ StepTo(w, "upserting", "asking")
    /\ upserted[w] = Len(Chunks(w))
    /\ UNCHANGED <<config, txn, handlerVars, points, announced, shown>>

(* The LLM replies, with an object or with prose (_parse: "unknown"); any other
   JSON value raises. *)
AskLLM(w) ==
    /\ StepTo(w, "asking", "committing")
    /\ \E a \in Answers : answer' = [answer EXCEPT ![w] = a]
    /\ UNCHANGED <<config, txn, asked, vectors, upserted, points, announced,
                   shown>>

(* Mutant of Leave: the next attempt goes on with the vectors of this one. *)
LeaveKeepsVectors(w) ==
    /\ at' = [at EXCEPT ![w] = "idle"]
    /\ txn' = [txn EXCEPT ![w] = "none"]
    /\ asked' = [asked EXCEPT ![w] = 0]
    /\ upserted' = [upserted EXCEPT ![w] = 0]
    /\ answer' = [answer EXCEPT ![w] = Unannounced]
    /\ UNCHANGED <<points, shown, vectors>>

(* The handler is over, and forgets. *)
Leave(w) ==
    /\ at' = [at EXCEPT ![w] = "idle"]
    /\ txn' = [txn EXCEPT ![w] = "none"]
    /\ asked' = [asked EXCEPT ![w] = 0]
    /\ vectors' = [vectors EXCEPT ![w] = <<>>]
    /\ upserted' = [upserted EXCEPT ![w] = 0]
    /\ answer' = [answer EXCEPT ![w] = Unannounced]
    /\ UNCHANGED <<points, shown>>

(* Claim, job and event commit, if the transaction still is. *)
Commit(w) ==
    /\ at[w] = "committing"
    /\ txn[w] = "open"
    /\ announced' = [chunks |-> Len(Chunks(w)), answer |-> answer[w]]
    /\ Leave(w)
    /\ UNCHANGED config

(* The handler or its commit raises: storage, a second 429, too few vectors,
   Qdrant, the LLM or its reply, a lost transaction. *)
Raise(w) ==
    /\ at[w] # "idle"
    /\ Leave(w)
    /\ UNCHANGED <<config, announced>>

(* The process is replaced, by one that may have another configuration. *)
Redeploy(w) ==
    /\ \E c \in Configs : config' = [config EXCEPT ![w] = c]
    /\ Leave(w)
    /\ UNCHANGED announced

(* The database rolls the transaction back; the handler goes on. *)
LoseTransaction(w) ==
    /\ txn[w] = "open"
    /\ txn' = [txn EXCEPT ![w] = "lost"]
    /\ UNCHANGED <<config, at, handlerVars, points, announced, shown>>

(* The projector gets the event. *)
Project ==
    /\ announced # Unannounced
    /\ ~shown
    /\ shown' = TRUE
    /\ UNCHANGED <<config, at, txn, handlerVars, points, announced>>

HandleExtractedStep(w) ==
    \/ Start(w) \/ EmbedBatch(w) \/ RateLimited(w) \/ Embedded(w)
    \/ UpsertBatch(w) \/ Upserted(w) \/ AskLLM(w) \/ Commit(w) \/ Raise(w)

EnrichmentNext ==
    \/ \E w \in Workers :
          HandleExtractedStep(w) \/ Redeploy(w) \/ LoseTransaction(w)
    \/ Project

EnrichmentSpec == EnrichmentInit /\ [][EnrichmentNext]_enrichmentVars

-----------------------------------------------------------------------------
(* Properties. *)

(* Every variable has its type; no handler has more vectors or points than
   chunks. *)
EnrichmentTypeOK ==
    /\ config \in [Workers -> Configs]
    /\ at \in [Workers -> Stages]
    /\ txn \in [Workers -> {"none", "open", "lost"}]
    /\ asked \in [Workers -> Nat]
    /\ vectors \in [Workers -> Seq(STRING)]
    /\ upserted \in [Workers -> Nat]
    /\ answer \in [Workers -> Answers \cup {Unannounced}]
    /\ points \in [Indices -> Points \cup {NoPoint}]
    /\ \A w \in Workers :
          /\ at[w] = "idle" <=> txn[w] = "none"
          /\ Len(vectors[w]) <= asked[w]
          /\ upserted[w] <= asked[w]
          /\ asked[w] <= Len(Chunks(w))
    /\ announced = Unannounced \/ announced \in [chunks : Nat, answer : Answers]
    /\ shown \in BOOLEAN

(* A point never has the vector of another chunk, whatever batches come back
   short, throttled or twice (embed, upsert_chunks). *)
VectorsMatchTexts ==
    \A i \in Stored : points[i].vector = points[i].text

(* Once the enriched event is committed, the document has exactly the points
   the event says, though attempts that failed and a worker whose transaction
   was lost wrote theirs as well: "re-running with the same document_id
   overwrites the same points" (upsert_chunks). *)
AnnouncedIsSearchable ==
    announced # Unannounced => Stored = 1 .. announced.chunks

(* The event is committed once: of two workers at it, one at most gets its
   transaction through (mark_processed). *)
AnnouncedOnce ==
    [][announced # Unannounced => announced' = announced]_enrichmentVars

(* To the query service this is the write side it relies on: chunks come in
   from the first one on, in batches, and the document is shown afterwards. *)
Read == INSTANCE ReadSide WITH
    Docs <- {"document"},
    Size <- [d \in {"document"} |-> Cardinality(Indices)],
    stored <- [d \in {"document"} |-> Cardinality(Stored)],
    shown <- IF shown THEN {"document"} ELSE {}

ImplementsReadSide == Read!ReadSideSpec
=============================================================================
