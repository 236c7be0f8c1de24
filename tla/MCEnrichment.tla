---------------------------- MODULE MCEnrichment ----------------------------
(***************************************************************************)
(* Instances of Enrichment for TLC: a document of five chunks, which fill  *)
(* neither the last call of the embedder nor the last upsert, or of one    *)
(* chunk when chunk_size is large.                                         *)
(***************************************************************************)
EXTENDS Enrichment

FiveOrOne ==
    [c \in Configs |-> IF c = "large" THEN <<"t">>
                       ELSE <<"t1", "t2", "t3", "t4", "t5">>]
=============================================================================
