----------------------------- MODULE DocStream ------------------------------
(***************************************************************************)
(* The whole system: clients ask the query service while the pipeline      *)
(* works.  They meet in Qdrant and in document_view only: the service      *)
(* reads what the handlers write, in steps of its own.                     *)
(*                                                                         *)
(* Query is proved against an abstract write side (ReadSide), Pipeline to  *)
(* implement it batch by batch.  Here chunks are counted, as Query counts  *)
(* them, and what is proved of either half holds of the system.            *)
(***************************************************************************)
EXTENDS Pipeline

CONSTANTS
    Chunks,      \* [Docs -> Nat]: chunks chunk_text makes of each document
    UpsertSize,  \* batch_size of upsert_chunks
    Questions, Blank, NoFilter, Rank, Score, MinScore, RelativeCutoff,
    Clients, Requests, NoRequest, PoolSize

VARIABLES request, at, hits, named, free, known

requestVars == <<request, at, hits, named, free, known>>

(* range(0, len(points), batch_size) has as many members as batches go out. *)
Batched ==
    /\ UpsertSize \in Nat \ {0}
    /\ Chunks \in [Docs -> Nat]
    /\ \A d \in Docs :
          /\ Chunks[d] <= Batches[d] * UpsertSize
          /\ Batches[d] > 0 => (Batches[d] - 1) * UpsertSize < Chunks[d]

(* The chunks k batches of d carry: the last one may be short. *)
ChunksIn(d, k) == IF k = Batches[d] THEN Chunks[d] ELSE k * UpsertSize

(* The query service, with what is proved of it. *)
Service == INSTANCE QueryProofs WITH
    Size <- Chunks,
    stored <- [d \in Docs |-> ChunksIn(d, Cardinality(points[d]))],
    shown <- {d \in Docs : view[d] # NoResult}

-----------------------------------------------------------------------------
systemVars == <<pipelineVars, requestVars>>

SystemInit == PipelineInit /\ Service!RequestInit

SystemNext ==
    \/ PipelineNext /\ UNCHANGED requestVars
    \/ UNCHANGED pipelineVars /\ Service!RequestNext

SystemSpec == SystemInit /\ [][SystemNext]_systemVars

(* What the theorems assume of the constants of the two halves together. *)
SystemAssumption ==
    Batched /\ Service!QueryAssumption /\ Service!RetrievalAssumption

-----------------------------------------------------------------------------
(* Properties. *)

(* The query service over the pipeline is the one over the abstract write side
   (upsert_chunks, handle_enriched, retrieve). *)
ImplementsQuery == Service!QuerySpec

(* ... so that it finds and names what the read model shows. *)
FindsWhatIsShown == Service!ShownIsFound
NamesWhatIsShown == Service!NamesAreCurrent

(* Every chunk a request works with is of a document that was accepted, whose
   text is stored and whose extraction is committed (retrieve,
   handle_extracted). *)
CitedIsExtracted ==
    \A c \in Clients : \A x \in hits[c] :
        /\ x[1] \in Docs /\ x[2] \in 1 .. Chunks[x[1]]
        /\ jobs[x[1]] # NoJob
        /\ x[1] \in texts
        /\ Rows("extracted", x[1]) # {}
=============================================================================
