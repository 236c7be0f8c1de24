----------------------------- MODULE MCPipeline -----------------------------
(***************************************************************************)
(* Instances of Pipeline for TLC.                                          *)
(***************************************************************************)
EXTENDS Pipeline, TLC

(* One worker for each topic. *)
WorkerPerTopic ==
    [w \in {"x", "e", "p"} |->
        CASE w = "x" -> "ingested" [] w = "e" -> "extracted"
          [] w = "p" -> "enriched"]

(* A second enrichment worker. *)
TwoEnrichers ==
    [w \in {"x", "e", "e2", "p"} |->
        CASE w = "x" -> "ingested" [] w \in {"e", "e2"} -> "extracted"
          [] w = "p" -> "enriched"]

OnePartition == [d \in Docs |-> 1]

(* Upserts the chunks of a document take. *)
TwoBatches == [d \in Docs |-> 2]
OneBatch == [d \in Docs |-> 1]

(* What the LLM answers is interchangeable, as no handler looks at it. *)
ResultSymmetry == Permutations(Results)

AnyPayload == Results \cup {NoResult}
=============================================================================
