------------------------------ MODULE MCQuery -------------------------------
(***************************************************************************)
(* An instance of Query for TLC: a document of two chunks and one of four, *)
(* and a question both are relevant to.                                    *)
(***************************************************************************)
EXTENDS Query, TLC

TwoAndFour == [d \in Docs |-> IF d = "a" THEN 2 ELSE 4]

(* The chunks as each question ranks them, with their scores.  The fourth
   chunk of b is what crowds a search for the first of a out, or does not; the
   second of a is far behind the best. *)
AboutBoth ==
    [q \in Questions |->
        <<"b", 1>> :> 1 @@ <<"b", 2>> :> 2 @@ <<"b", 3>> :> 3 @@
        <<"b", 4>> :> (IF q = "crowded" THEN 4 ELSE 5) @@
        <<"a", 1>> :> (IF q = "crowded" THEN 5 ELSE 4) @@
        <<"a", 2>> :> 6]
AboutBothScores ==
    [q \in Questions |->
        <<"b", 1>> :> 90 @@ <<"b", 2>> :> 80 @@ <<"b", 3>> :> 60 @@
        <<"b", 4>> :> 44 @@ <<"a", 2>> :> 15 @@
        <<"a", 1>> :> (IF q = "crowded" THEN 44 ELSE 46)]

Asked(kind, question, filter, limit) ==
    [kind |-> kind, question |-> question, filter |-> filter, limit |-> limit]

SomeRequests ==
    {[kind |-> "browse", docs |-> Docs],
     Asked("search", "q", NoFilter, 2),
     Asked("search", "q", "a", 1),
     Asked("search", "crowded", "a", 1),
     Asked("ask", "q", NoFilter, 5),
     Asked("ask", Blank, NoFilter, 1)}
=============================================================================
