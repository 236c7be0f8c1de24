----------------------------- MODULE Retrieval ------------------------------
(***************************************************************************)
(* Retrieval (query/retrieval.py): from a question to the chunks it is     *)
(* answered with.  A chunk is a pair of document and index.  A ranked list *)
(* of hits is the set of its chunks, as the question ranks them; hits[:n]  *)
(* is Top.                                                                 *)
(***************************************************************************)
EXTENDS Integers, FiniteSets

CONSTANTS
    Questions,       \* questions that are not blank
    Blank,           \* a question of white space only
    NoFilter,        \* document_id is None
    Rank,            \* [Questions -> [chunks -> Nat]]: place of a chunk
                     \* among all chunks, nearest first, ties as Qdrant breaks
                     \* them
    Score,           \* [Questions -> [chunks -> Int]]: hundredths
    MinScore,        \* query.min_score, in hundredths
    RelativeCutoff   \* query.relative_cutoff, in hundredths

(* Qdrant answers "sorted by score descending", no two hits in one place. *)
Sorted(q, S) ==
    \A x, y \in S :
        /\ Rank[q][x] \in Nat
        /\ Score[q][x] \in Int
        /\ Rank[q][x] = Rank[q][y] => x = y
        /\ Rank[q][x] < Rank[q][y] => Score[q][x] >= Score[q][y]

ASSUME RetrievalAssumption ==
    /\ MinScore \in Nat
    /\ RelativeCutoff \in 0 .. 100
    /\ Blank \notin Questions

(* The hits of S ahead of x. *)
Ahead(q, S, x) == {y \in S : Rank[q][y] < Rank[q][x]}

(* The first n hits: query_points with this limit, and hits[:n]. *)
Top(q, S, n) == {x \in S : Cardinality(Ahead(q, S, x)) < n}

(* Mutant of Fetch: no over-fetch. *)
FetchLimit(filter, limit) == limit

(* How many hits are asked for: more when only some of them will be kept.  The
   filter "", which retrieve does not over-fetch for, is a document nobody has:
   no hit passes it, however many are asked for. *)
Fetch(filter, limit) == IF filter = NoFilter THEN limit ELSE 4 * limit

(* The client-side filter by document. *)
OfDocument(filter, S) ==
    {x \in S : filter = NoFilter \/ x[1] = filter}

(* The floor. *)
Kept(q, S) == {x \in S : Score[q][x] >= MinScore}

(* kept[0]. *)
Best(q, S) == {x \in S : Ahead(q, S, x) = {}}

(* filter_by_relevance: the floor, then the cutoff relative to the best of
   what is above the floor. *)
FilterByRelevance(q, S) ==
    {x \in Kept(q, S) :
        \A b \in Best(q, Kept(q, S)) :
            100 * Score[q][x] >= RelativeCutoff * Score[q][b]}

(* retrieve, over the chunks S that are in Qdrant. *)
Retrieve(q, filter, limit, S) ==
    IF q = Blank THEN {}
    ELSE LET hits == Top(q, S, Fetch(filter, limit))
         IN Top(q, FilterByRelevance(q, OfDocument(filter, hits)), limit)

-----------------------------------------------------------------------------
(* What a client may expect: the best `limit' of all chunks of the documents
   asked about that are above the floor and not far behind the best of them. *)
Relevant(q, filter, S) == FilterByRelevance(q, OfDocument(filter, S))

(* Chunks of other documents may crowd a filtered search out. *)
CrowdedOut(q, filter, limit, S, x) ==
    filter # NoFilter /\ Cardinality(Ahead(q, S, x)) >= 4 * limit
=============================================================================
