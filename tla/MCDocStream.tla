---------------------------- MODULE MCDocStream -----------------------------
(***************************************************************************)
(* An instance of DocStream for TLC: a document of three chunks, upserted  *)
(* in two batches, and a client that searches for the best two.            *)
(***************************************************************************)
EXTENDS DocStream, MCPipeline

ThreeChunks == [d \in Docs |-> 3]

(* The second chunk is ahead, and the third far behind. *)
SecondFirst ==
    [q \in Questions |->
        <<"d1", 1>> :> 2 @@ <<"d1", 2>> :> 1 @@ <<"d1", 3>> :> 3]
SecondFirstScores ==
    [q \in Questions |->
        <<"d1", 1>> :> 80 @@ <<"d1", 2>> :> 90 @@ <<"d1", 3>> :> 30]

OneSearch ==
    {[kind |-> "search", question |-> "q", filter |-> NoFilter, limit |-> 2]}
=============================================================================
