---------------------------- MODULE QueryProofs -----------------------------
(***************************************************************************)
(* What a request of the query service is answered with, for any number of *)
(* documents, chunks, clients and connections, and any questions.          *)
(***************************************************************************)
EXTENDS Query, FiniteSetTheorems, WellFoundedInduction, TLAPS

-----------------------------------------------------------------------------
(* What retrieve returns, for any hits, ranks, scores, cutoffs and limits. *)

(* T is a ranked list cut off somewhere. *)
Initial(q, T, S) ==
    T \subseteq S /\ \A x \in T, y \in S : Rank[q][y] < Rank[q][x] => y \in T

LEMMA AheadOfInitial ==
    ASSUME NEW q, NEW S, NEW T, Initial(q, T, S), NEW x \in T, NEW R,
           R \subseteq S
    PROVE  Ahead(q, R \cap T, x) = Ahead(q, R, x)
  BY DEF Initial, Ahead

(* hits[:n] is initial. *)
LEMMA TopIsInitial ==
    ASSUME NEW q, NEW S, IsFiniteSet(S), Sorted(q, S), NEW n \in Int
    PROVE  Initial(q, Top(q, S, n), S)
<1>1. SUFFICES ASSUME NEW x \in Top(q, S, n), NEW y \in S,
                      Rank[q][y] < Rank[q][x]
               PROVE  y \in Top(q, S, n)
  BY DEF Initial, Top
<1>2. x \in S /\ Cardinality(Ahead(q, S, x)) < n
  BY DEF Top
<1>3. Ahead(q, S, y) \subseteq Ahead(q, S, x)
  BY <1>1, <1>2 DEF Ahead, Sorted
<1>4. IsFiniteSet(Ahead(q, S, x))
  BY FS_Subset DEF Ahead
<1>5. /\ Cardinality(Ahead(q, S, y)) \in Nat
      /\ Cardinality(Ahead(q, S, x)) \in Nat
      /\ Cardinality(Ahead(q, S, y)) <= Cardinality(Ahead(q, S, x))
  BY <1>3, <1>4, FS_Subset, FS_CardinalityType
<1> QED
  BY <1>2, <1>5 DEF Top

(* Cutting a list off before or after it is cut down makes no difference to
   what is in both. *)
LEMMA TopOfInitial ==
    ASSUME NEW q, NEW S, NEW T, Initial(q, T, S), NEW R, R \subseteq S,
           NEW n \in Int
    PROVE  Top(q, R \cap T, n) = Top(q, R, n) \cap T
<1>1. ASSUME NEW x \in R \cap T
      PROVE  Ahead(q, R \cap T, x) = Ahead(q, R, x)
  BY AheadOfInitial
<1> QED
  BY <1>1 DEF Top

(* Cutoffs look at the best hit only, which is in every initial part that is
   not empty. *)
LEMMA FilterOfInitial ==
    ASSUME NEW q, NEW S, NEW T, Initial(q, T, S), Sorted(q, S),
           NEW R, R \subseteq S
    PROVE  FilterByRelevance(q, R \cap T) = FilterByRelevance(q, R) \cap T
<1>1. Kept(q, R \cap T) = Kept(q, R) \cap T
  BY DEF Kept
<1>2. Kept(q, R) \subseteq S
  BY DEF Kept
<1>3. ASSUME NEW x \in Kept(q, R) \cap T
      PROVE  Best(q, Kept(q, R) \cap T) = Best(q, Kept(q, R))
  <2>1. Best(q, Kept(q, R)) \subseteq T
    <3>1. ASSUME NEW b \in Best(q, Kept(q, R))
          PROVE  b \in T
      <4>1. b \in S /\ x \in S /\ x \notin Ahead(q, Kept(q, R), b)
        BY <1>2, <3>1 DEF Best
      <4>2. /\ Rank[q][b] \in Nat
            /\ Rank[q][x] \in Nat
            /\ Rank[q][b] = Rank[q][x] => b = x
        BY <4>1 DEF Sorted
      <4>3. ~(Rank[q][x] < Rank[q][b])
        BY <4>1, <1>3 DEF Ahead
      <4> QED
        BY <4>1, <4>2, <4>3, <1>3 DEF Initial
    <3> QED
      BY <3>1
  <2>2. ASSUME NEW b \in Kept(q, R) \cap T
        PROVE  Ahead(q, Kept(q, R) \cap T, b) = Ahead(q, Kept(q, R), b)
    BY <1>2, AheadOfInitial
  <2> QED
    BY <2>1, <2>2 DEF Best
<1> QED
  BY <1>1, <1>3 DEF FilterByRelevance

(* What retrieve loses of what a client may expect is what the top-k search,
   over-fetched or not, did not reach: nothing else, and it adds nothing. *)
THEOREM RetrieveIsRelevant ==
    ASSUME NEW q \in Questions, NEW S, IsFiniteSet(S), Sorted(q, S),
           NEW filter, NEW limit \in Nat
    PROVE  Retrieve(q, filter, limit, S) =
               Top(q, Relevant(q, filter, S), limit)
                   \cap Top(q, S, Fetch(filter, limit))
<1> DEFINE T == Top(q, S, Fetch(filter, limit))
           R == OfDocument(filter, S)
<1>1. Initial(q, T, S)
  <2>1. Fetch(filter, limit) \in Int
    BY DEF Fetch
  <2> QED
    BY <2>1, TopIsInitial
<1>2. R \subseteq S /\ OfDocument(filter, T) = R \cap T
  BY DEF OfDocument, Top
<1>3. FilterByRelevance(q, R \cap T) = FilterByRelevance(q, R) \cap T
  BY <1>1, <1>2, FilterOfInitial
<1>4. FilterByRelevance(q, R) \subseteq S
  BY <1>2 DEF FilterByRelevance, Kept
<1>5. Top(q, FilterByRelevance(q, R) \cap T, limit)
          = Top(q, FilterByRelevance(q, R), limit) \cap T
  BY <1>1, <1>4, TopOfInitial
<1>6. q # Blank
  BY RetrievalAssumption
<1> QED
  BY <1>2, <1>3, <1>5, <1>6 DEF Retrieve, Relevant

(* Cutoffs that are monotone in the score keep an initial part. *)
LEMMA RelevantIsInitial ==
    ASSUME NEW q, NEW S, Sorted(q, S)
    PROVE  Initial(q, FilterByRelevance(q, S), S)
<1>1. SUFFICES ASSUME NEW x \in FilterByRelevance(q, S), NEW y \in S,
                      Rank[q][y] < Rank[q][x]
               PROVE  y \in FilterByRelevance(q, S)
  BY DEF Initial, FilterByRelevance, Kept
<1>2. /\ x \in S
      /\ Score[q][x] \in Int
      /\ Score[q][y] \in Int
      /\ Score[q][y] >= Score[q][x]
  BY <1>1 DEF FilterByRelevance, Kept, Sorted
<1>3. y \in Kept(q, S)
  BY <1>1, <1>2, RetrievalAssumption DEF FilterByRelevance, Kept
<1>4. ASSUME NEW b \in Best(q, Kept(q, S))
      PROVE  100 * Score[q][y] >= RelativeCutoff * Score[q][b]
  <2>1. Score[q][b] \in Int
    BY DEF Best, Kept, Sorted
  <2>2. RelativeCutoff * Score[q][b] \in Int
    BY <2>1, RetrievalAssumption
  <2>3. 100 * Score[q][x] >= RelativeCutoff * Score[q][b]
    BY <1>1, <1>4 DEF FilterByRelevance
  <2> QED
    BY <1>2, <2>2, <2>3
<1> QED
  BY <1>3, <1>4 DEF FilterByRelevance

(* Without a document filter a client gets exactly what it may expect: the
   search need not fetch more than the limit, although the cutoffs come after
   it. *)
THEOREM UnfilteredIsExact ==
    ASSUME NEW q \in Questions, NEW S, IsFiniteSet(S), Sorted(q, S),
           NEW limit \in Nat
    PROVE  Retrieve(q, NoFilter, limit, S) =
               Top(q, Relevant(q, NoFilter, S), limit)
<1> DEFINE R == Relevant(q, NoFilter, S)
<1>1. R = FilterByRelevance(q, S)
  BY DEF Relevant, OfDocument
<1>2. Initial(q, R, S)
  BY <1>1, RelevantIsInitial
<1>3. ASSUME NEW x \in Top(q, R, limit)
      PROVE  x \in Top(q, S, limit)
  <2>1. x \in R /\ x \in S
    BY <1>2 DEF Top, Initial
  <2>2. Ahead(q, S \cap R, x) = Ahead(q, S, x)
    BY <1>2, <2>1, AheadOfInitial
  <2>3. S \cap R = R
    BY <1>2 DEF Initial
  <2> QED
    BY <1>3, <2>1, <2>2, <2>3 DEF Top
<1>4. Retrieve(q, NoFilter, limit, S) = Top(q, R, limit) \cap Top(q, S, limit)
  BY RetrieveIsRelevant DEF Fetch
<1> QED
  BY <1>3, <1>4

(* With one, it misses what at least four times the limit of better chunks of
   other documents crowd out, and nothing else. *)
THEOREM FilteredMissesTheCrowdedOut ==
    ASSUME NEW q \in Questions, NEW S, IsFiniteSet(S), Sorted(q, S),
           NEW filter, filter # NoFilter, NEW limit \in Nat
    PROVE  Retrieve(q, filter, limit, S) =
               {x \in Top(q, Relevant(q, filter, S), limit) :
                   ~CrowdedOut(q, filter, limit, S, x)}
<1> DEFINE R == Relevant(q, filter, S)
<1>1. Retrieve(q, filter, limit, S)
          = Top(q, R, limit) \cap Top(q, S, 4 * limit)
  BY RetrieveIsRelevant DEF Fetch
<1>2. Top(q, R, limit) \subseteq S
  BY DEF Relevant, FilterByRelevance, Kept, OfDocument, Top
<1>3. ASSUME NEW x \in S
      PROVE  Cardinality(Ahead(q, S, x)) \in Nat
  BY FS_Subset, FS_CardinalityType DEF Ahead
<1>4. ASSUME NEW x \in S
      PROVE  x \in Top(q, S, 4 * limit) <=> ~CrowdedOut(q, filter, limit, S, x)
  BY <1>3 DEF Top, CrowdedOut
<1> QED
  BY <1>1, <1>2, <1>4

-----------------------------------------------------------------------------
(* What becomes of a search when chunks come in after it. *)

(* A list that is not empty has a first hit. *)
LEMMA BestExists ==
    ASSUME NEW q, NEW S, IsFiniteSet(S), Sorted(q, S), S # {}
    PROVE  Best(q, S) # {}
<1> DEFINE A == {Ahead(q, S, x) : x \in S}
           R == StrictSubsetOrdering(S)
<1>1. IsWellFoundedOn(R, FiniteSubsetsOf(S))
  BY FS_StrictSubsetOrderingWellFounded
<1>2. A \subseteq FiniteSubsetsOf(S)
  BY FS_Subset DEF FiniteSubsetsOf, Ahead
<1>3. A # {}
  OBVIOUS
<1> HIDE DEF A, R
<1>4. PICK T \in A : \A U \in A : ~(<<U, T>> \in R)
  BY <1>1, <1>2, <1>3, WFMin
<1>5. PICK x \in S : T = Ahead(q, S, x)
  BY <1>4 DEF A
<1>6. ASSUME NEW y \in Ahead(q, S, x)
      PROVE  FALSE
  <2>1. y \in S /\ Ahead(q, S, y) \in A
    BY <1>6 DEF Ahead, A
  <2>2. /\ Ahead(q, S, y) \subseteq Ahead(q, S, x)
        /\ y \notin Ahead(q, S, y)
    BY <1>6, <2>1 DEF Ahead, Sorted
  <2>3. <<Ahead(q, S, y), T>> \in R
    BY <1>5, <1>6, <2>2 DEF R, StrictSubsetOrdering, Ahead
  <2> QED
    BY <1>4, <2>1, <2>3
<1> QED
  BY <1>5, <1>6 DEF Best

LEMMA CutoffMonotone ==
    ASSUME NEW r \in Nat, NEW a \in Int, NEW b \in Int, a <= b
    PROVE  r * a <= r * b
<1>1. PICK c \in Nat : b = a + c
  <2>1. b - a \in Nat /\ b = a + (b - a)
    OBVIOUS
  <2> QED
    BY <2>1
<1>2. r * c \in Nat /\ r * a \in Int
  OBVIOUS
<1>3. r * b = r * a + r * c
  BY <1>1
<1> QED
  BY <1>2, <1>3

(* A chunk that is relevant among more chunks was relevant among fewer: the
   best of them cannot have been better. *)
LEMMA RelevantAmongFewer ==
    ASSUME NEW q, NEW S, IsFiniteSet(S), Sorted(q, S), NEW R, R \subseteq S,
           NEW x \in R, x \in FilterByRelevance(q, S)
    PROVE  x \in FilterByRelevance(q, R)
<1>1. x \in Kept(q, R)
  BY DEF FilterByRelevance, Kept
<1>2. ASSUME NEW b \in Best(q, Kept(q, R))
      PROVE  100 * Score[q][x] >= RelativeCutoff * Score[q][b]
  <2>1. b \in Kept(q, S) /\ Kept(q, S) \subseteq S
    BY DEF Best, Kept
  <2>2. IsFiniteSet(Kept(q, S)) /\ Sorted(q, Kept(q, S))
    BY <2>1, FS_Subset DEF Sorted
  <2>3. PICK first : first \in Best(q, Kept(q, S))
    BY <2>1, <2>2, BestExists
  <2>4. /\ first \in S /\ b \in S /\ x \in S
        /\ ~(Rank[q][b] < Rank[q][first])
    BY <2>1, <2>3 DEF Best, Ahead
  <2>5. /\ Score[q][first] \in Int
        /\ Score[q][b] \in Int
        /\ Score[q][x] \in Int
        /\ Score[q][b] <= Score[q][first]
    BY <2>4 DEF Sorted
  <2>6. /\ RelativeCutoff * Score[q][b] \in Int
        /\ RelativeCutoff * Score[q][first] \in Int
        /\ RelativeCutoff * Score[q][b] <= RelativeCutoff * Score[q][first]
    <3>1. RelativeCutoff \in Nat
      BY RetrievalAssumption
    <3> QED
      BY <2>5, <3>1, CutoffMonotone
  <2>7. 100 * Score[q][x] >= RelativeCutoff * Score[q][first]
    BY <2>3 DEF FilterByRelevance
  <2> QED
    BY <2>5, <2>6, <2>7
<1> QED
  BY <1>1, <1>2 DEF FilterByRelevance

(* And if it is among the first n of them now, it was so before. *)
LEMMA ExpectedAmongFewer ==
    ASSUME NEW q, NEW filter, NEW S, IsFiniteSet(S), Sorted(q, S),
           NEW R, R \subseteq S, NEW n \in Nat,
           NEW x \in R, x \in Top(q, Relevant(q, filter, S), n)
    PROVE  x \in Top(q, Relevant(q, filter, R), n)
<1> DEFINE S1 == OfDocument(filter, S)
           R1 == OfDocument(filter, R)
<1>1. R1 \subseteq S1 /\ S1 \subseteq S
  BY DEF OfDocument
<1>2. IsFiniteSet(S1) /\ Sorted(q, S1)
  BY <1>1, FS_Subset DEF Sorted
<1>3. x \in FilterByRelevance(q, S1) /\ x \in R1
  BY DEF Top, Relevant, FilterByRelevance, Kept, OfDocument
<1>4. x \in FilterByRelevance(q, R1)
  <2> HIDE DEF S1, R1
  <2> QED
    BY <1>1, <1>2, <1>3, RelevantAmongFewer
<1>5. Ahead(q, FilterByRelevance(q, R1), x)
          \subseteq Ahead(q, FilterByRelevance(q, S1), x)
  <2>1. Initial(q, FilterByRelevance(q, S1), S1)
    BY <1>2, RelevantIsInitial
  <2> QED
    BY <1>1, <1>3, <2>1 DEF Initial, Ahead, FilterByRelevance, Kept
<1>6. IsFiniteSet(Ahead(q, FilterByRelevance(q, S1), x))
  <2>1. Ahead(q, FilterByRelevance(q, S1), x) \subseteq S1
    BY DEF Ahead, FilterByRelevance, Kept
  <2> QED
    BY <1>2, <2>1, FS_Subset
<1>7. Cardinality(Ahead(q, FilterByRelevance(q, R1), x))
          <= Cardinality(Ahead(q, FilterByRelevance(q, S1), x))
  BY <1>5, <1>6, FS_Subset
<1>8. /\ Cardinality(Ahead(q, FilterByRelevance(q, R1), x)) \in Nat
      /\ Cardinality(Ahead(q, FilterByRelevance(q, S1), x)) \in Nat
  BY <1>5, <1>6, FS_Subset, FS_CardinalityType
<1>9. Cardinality(Ahead(q, FilterByRelevance(q, S1), x)) < n
  BY DEF Top, Relevant
<1> QED
  BY <1>4, <1>7, <1>8, <1>9 DEF Top, Relevant

(* Once crowded out, crowded out for good. *)
LEMMA CrowdedOutAmongMore ==
    ASSUME NEW q, NEW filter, NEW S, IsFiniteSet(S), NEW R, R \subseteq S,
           NEW n \in Nat, NEW x, CrowdedOut(q, filter, n, R, x)
    PROVE  CrowdedOut(q, filter, n, S, x)
<1>1. Ahead(q, R, x) \subseteq Ahead(q, S, x) /\ Ahead(q, S, x) \subseteq S
  BY DEF Ahead
<1>2. /\ Cardinality(Ahead(q, R, x)) \in Nat
      /\ Cardinality(Ahead(q, S, x)) \in Nat
      /\ Cardinality(Ahead(q, R, x)) <= Cardinality(Ahead(q, S, x))
  BY <1>1, FS_Subset, FS_CardinalityType
<1> QED
  BY <1>2 DEF CrowdedOut

-----------------------------------------------------------------------------
(* What a request is answered with. *)

(* The read model never shows a document whose chunks are not all there. *)
ShownIsStored == \A d \in shown : stored[d] = Size[d]

(* What was known when Qdrant was searched is still shown, and nothing is
   known before. *)
KnownIsShown ==
    \A c \in Clients :
        /\ known[c] \subseteq shown
        /\ at[c] \in {"idle", "received"} => known[c] = {}

(* Only questions are searched for. *)
FoundByQuestion ==
    \A c \in Clients : at[c] = "found" => request[c].kind # "browse"

QueryInv ==
    /\ QueryTypeOK
    /\ PoolBalanced
    /\ FoundByQuestion
    /\ ShownIsStored
    /\ KnownIsShown
    /\ ShownIsFound
    /\ NamesAreCurrent

-----------------------------------------------------------------------------
(* What is in Qdrant, at any time, is finite and ranked. *)
LEMMA ChunksAreRanked ==
    ASSUME NEW n \in [Docs -> Nat], \A d \in Docs : n[d] <= Size[d]
    PROVE  /\ IsFiniteSet(ChunksUpTo(n))
           /\ ChunksUpTo(n) \subseteq Docs \X Nat
           /\ \A q \in Questions : Sorted(q, ChunksUpTo(n))
<1>1. IsFiniteSet(ChunksUpTo(n))
  <2> DEFINE f == [d \in Docs |-> {d} \X (1 .. n[d])]
             T == {{d} \X (1 .. n[d]) : d \in Docs}
  <2>1. f \in Surjection(Docs, T)
    <3>1. f \in [Docs -> T]
      OBVIOUS
    <3>2. \A t \in T : \E d \in Docs : f[d] = t
      OBVIOUS
    <3> HIDE DEF f, T
    <3> QED
      BY <3>1, <3>2 DEF Surjection
  <2>2. IsFiniteSet(T)
    <3> HIDE DEF f, T
    <3> QED
      BY <2>1, FS_Surjection, QueryAssumption
  <2>3. ASSUME NEW d \in Docs
        PROVE  IsFiniteSet({d} \X (1 .. n[d]))
    <3>1. IsFiniteSet({d})
      BY FS_Singleton
    <3>2. 1 \in Int /\ n[d] \in Int
      OBVIOUS
    <3>3. IsFiniteSet(1 .. n[d])
      BY <3>2, FS_Interval
    <3> HIDE DEF f, T
    <3> QED
      BY <3>1, <3>3, FS_Product
  <2>4. \A U \in T : IsFiniteSet(U)
    BY <2>3
  <2> QED
    <3> HIDE DEF T
    <3>1. IsFiniteSet(UNION T)
      BY <2>2, <2>4, FS_UNION
    <3> QED
      BY <3>1 DEF ChunksUpTo, T
<1>2. ChunksUpTo(n) \subseteq Docs \X Nat
  BY DEF ChunksUpTo
<1>3. ChunksUpTo(n) \subseteq ChunksUpTo(Size)
  <2>1. ASSUME NEW d \in Docs
        PROVE  1 .. n[d] \subseteq 1 .. Size[d]
    BY QueryAssumption
  <2> QED
    BY <2>1 DEF ChunksUpTo
<1>4. \A q \in Questions : Sorted(q, ChunksUpTo(n))
  BY <1>3, QueryAssumption DEF Sorted
<1> QED
  BY <1>1, <1>2, <1>4

LEMMA InQdrantIsRanked ==
    ASSUME QueryTypeOK
    PROVE  /\ IsFiniteSet(InQdrant)
           /\ InQdrant \subseteq Docs \X Nat
           /\ \A q \in Questions : Sorted(q, InQdrant)
BY ChunksAreRanked DEF QueryTypeOK, InQdrant

(* A document that is stored whole has each of its chunks in Qdrant. *)
LEMMA StoredChunk ==
    ASSUME NEW d \in Docs, stored[d] = Size[d], NEW i \in 1 .. Size[d]
    PROVE  <<d, i>> \in InQdrant
BY DEF InQdrant, ChunksUpTo

(* An open request is one of those there are. *)
LEMMA OpenRequest ==
    ASSUME QueryTypeOK, NEW c \in Clients, at[c] # "idle"
    PROVE  /\ request[c] \in Requests
           /\ request[c].kind # "browse" =>
                 /\ request[c].question \in Questions \cup {Blank}
                 /\ request[c].filter \in Docs \cup {NoFilter}
                 /\ request[c].limit \in Nat \ {0}
BY QueryAssumption DEF QueryTypeOK, Browse, Questioning

(* Retrieval adds nothing to what is in Qdrant. *)
LEMMA RetrieveSubset ==
    ASSUME NEW q, NEW filter, NEW limit, NEW S
    PROVE  Retrieve(q, filter, limit, S) \subseteq S
BY DEF Retrieve, Top, FilterByRelevance, Kept, OfDocument

-----------------------------------------------------------------------------
(* Types and the pool. *)

Holders == {c \in Clients : HoldsConnection(c)}

(* The pool stays balanced if it is for the one client a step is about. *)
LEMMA PoolStep ==
    ASSUME QueryTypeOK, PoolBalanced, NEW c \in Clients,
           \A v \in Clients \ {c} : HoldsConnection(v)' <=> HoldsConnection(v),
           \/ /\ HoldsConnection(c)' <=> HoldsConnection(c)
              /\ free' = free
           \/ /\ HoldsConnection(c) /\ ~HoldsConnection(c)'
              /\ free' = free + 1
           \/ /\ ~HoldsConnection(c) /\ HoldsConnection(c)'
              /\ free > 0
              /\ free' = free - 1
    PROVE  PoolBalanced' /\ free' \in 0 .. PoolSize
<1>1. /\ free \in Nat
      /\ PoolSize \in Nat
      /\ free + Cardinality(Holders) = PoolSize
  BY QueryAssumption DEF QueryTypeOK, PoolBalanced, Holders
<1>2. IsFiniteSet(Holders) /\ IsFiniteSet(Holders')
  BY QueryAssumption, FS_Subset DEF Holders
<1>3. Cardinality(Holders) \in Nat /\ Cardinality(Holders') \in Nat
  BY <1>2, FS_CardinalityType
<1>4. free' + Cardinality(Holders') = PoolSize /\ free' \in Int
  <2>1. CASE (HoldsConnection(c)' <=> HoldsConnection(c)) /\ free' = free
    <3>1. Holders' = Holders
      BY <2>1 DEF Holders
    <3> QED
      BY <1>1, <2>1, <3>1
  <2>2. CASE HoldsConnection(c) /\ ~HoldsConnection(c)' /\ free' = free + 1
    <3>1. Holders' = Holders \ {c} /\ c \in Holders
      BY <2>2 DEF Holders
    <3>2. Cardinality(Holders') = Cardinality(Holders) - 1
      BY <1>2, <3>1, FS_RemoveElement
    <3> QED
      BY <1>1, <1>3, <2>2, <3>2
  <2>3. CASE ~HoldsConnection(c) /\ HoldsConnection(c)' /\ free' = free - 1
    <3>1. Holders' = Holders \cup {c} /\ c \notin Holders
      BY <2>3 DEF Holders
    <3>2. Cardinality(Holders') = Cardinality(Holders) + 1
      BY <1>2, <3>1, FS_AddElement
    <3> QED
      BY <1>1, <1>3, <2>3, <3>2
  <2> QED
    BY <2>1, <2>2, <2>3
<1>5. free' \in Nat
  BY <1>1
<1>6. free' \in 0 .. PoolSize
  BY <1>1, <1>3, <1>4, <1>5
<1> QED
  BY <1>4, <1>6 DEF PoolBalanced, Holders

LEMMA TypeAndPoolStep ==
    ASSUME QueryTypeOK, PoolBalanced, FoundByQuestion, [QueryNext]_queryVars
    PROVE  QueryTypeOK' /\ PoolBalanced'
<1> USE DEF readSideVars, requestVars, queryVars
<1>1. CASE UNCHANGED queryVars
  BY <1>1 DEF QueryTypeOK, PoolBalanced, HoldsConnection
<1>2. CASE ReadSideNext /\ UNCHANGED requestVars
  <2>1. PoolBalanced'
    BY <1>2 DEF PoolBalanced, HoldsConnection
  <2>2. ASSUME NEW d \in Docs, Show(d)
        PROVE  QueryTypeOK'
    BY <1>2, <2>2 DEF Show, QueryTypeOK
  <2>3. ASSUME NEW d \in Docs, NEW k \in 1 .. Size[d], StoreTo(d, k)
        PROVE  QueryTypeOK'
    <3>1. stored' \in [Docs -> Nat] /\ \A e \in Docs : stored'[e] <= Size[e]
      BY <2>3, QueryAssumption DEF StoreTo, QueryTypeOK
    <3> QED
      BY <1>2, <2>3, <3>1 DEF StoreTo, QueryTypeOK
  <2> QED
    BY <1>2, <2>1, <2>2, <2>3 DEF ReadSideNext
<1>3. ASSUME NEW c \in Clients, Receive(c)
      PROVE  QueryTypeOK' /\ PoolBalanced'
  <2>1. \A v \in Clients \ {c} : HoldsConnection(v)' <=> HoldsConnection(v)
    BY <1>3 DEF Receive, HoldsConnection, QueryTypeOK
  <2>2. /\ HoldsConnection(c)' <=> HoldsConnection(c)
        /\ free' = free
    BY <1>3 DEF Receive, HoldsConnection, QueryTypeOK
  <2>3. PoolBalanced'
    BY <2>1, <2>2, PoolStep
  <2>4. QueryTypeOK'
    BY <1>3, QueryAssumption DEF Receive, QueryTypeOK, Stages
  <2> QED
    BY <2>3, <2>4
<1>4. ASSUME NEW c \in Clients, SearchQdrant(c)
      PROVE  QueryTypeOK' /\ PoolBalanced'
  <2>1. \A v \in Clients \ {c} : HoldsConnection(v)' <=> HoldsConnection(v)
    BY <1>4 DEF SearchQdrant, HoldsConnection, QueryTypeOK
  <2>2. /\ HoldsConnection(c)' <=> HoldsConnection(c)
        /\ free' = free
    BY <1>4 DEF SearchQdrant, HoldsConnection, QueryTypeOK
  <2>3. PoolBalanced'
    BY <2>1, <2>2, PoolStep
  <2>4. Retrieve(request[c].question, request[c].filter, request[c].limit,
                 InQdrant) \in SUBSET (Docs \X Nat)
    BY InQdrantIsRanked, RetrieveSubset
  <2>5. QueryTypeOK'
    BY <1>4, <2>4 DEF SearchQdrant, QueryTypeOK, Stages
  <2> QED
    BY <2>3, <2>5
<1>5. ASSUME NEW c \in Clients, NotEmbedded(c)
      PROVE  QueryTypeOK' /\ PoolBalanced'
  <2>1. \A v \in Clients : HoldsConnection(v)' <=> HoldsConnection(v)
    BY <1>5 DEF NotEmbedded, HoldsConnection, QueryTypeOK
  <2>2. PoolBalanced'
    BY <1>5, <2>1 DEF NotEmbedded, PoolBalanced
  <2>3. QueryTypeOK'
    BY <1>5 DEF NotEmbedded, QueryTypeOK, Stages
  <2> QED
    BY <2>2, <2>3
<1>6. ASSUME NEW c \in Clients, ReadRows(c)
      PROVE  QueryTypeOK' /\ PoolBalanced'
  <2>1. \A v \in Clients \ {c} : HoldsConnection(v)' <=> HoldsConnection(v)
    BY <1>6 DEF ReadRows, HoldsConnection, QueryTypeOK
  <2>2. /\ ~HoldsConnection(c)
        /\ HoldsConnection(c)'
        /\ free > 0
        /\ free' = free - 1
    BY <1>6 DEF ReadRows, NeedsRows, HoldsConnection, QueryTypeOK
  <2>3. PoolBalanced' /\ free' \in 0 .. PoolSize
    BY <2>1, <2>2, PoolStep
  <2>4. named' \in [Clients -> SUBSET Docs]
    BY <1>6 DEF ReadRows, QueryTypeOK
  <2>5. QueryTypeOK'
    BY <1>6, <2>3, <2>4 DEF ReadRows, NeedsRows, QueryTypeOK, Stages
  <2> QED
    BY <2>3, <2>5
<1>7. ASSUME NEW c \in Clients, NothingToName(c)
      PROVE  QueryTypeOK' /\ PoolBalanced'
  <2>1. \A v \in Clients : HoldsConnection(v)' <=> HoldsConnection(v)
    BY <1>7 DEF NothingToName, FoundByQuestion, HoldsConnection, QueryTypeOK
  <2>2. PoolBalanced'
    BY <1>7, <2>1 DEF NothingToName, PoolBalanced
  <2>3. QueryTypeOK'
    BY <1>7 DEF NothingToName, QueryTypeOK, Stages
  <2> QED
    BY <2>2, <2>3
<1>8. ASSUME NEW c \in Clients, Generate(c)
      PROVE  QueryTypeOK' /\ PoolBalanced'
  <2>1. \A v \in Clients : HoldsConnection(v)' <=> HoldsConnection(v)
    BY <1>8 DEF Generate, HoldsConnection, QueryTypeOK
  <2>2. PoolBalanced'
    BY <1>8, <2>1 DEF Generate, PoolBalanced
  <2>3. QueryTypeOK'
    BY <1>8 DEF Generate, QueryTypeOK, Stages
  <2> QED
    BY <2>2, <2>3
<1>9. ASSUME NEW c \in Clients, at[c] # "idle", End(c)
      PROVE  QueryTypeOK' /\ PoolBalanced'
  <2>1. \A v \in Clients \ {c} : HoldsConnection(v)' <=> HoldsConnection(v)
    BY <1>9 DEF End, HoldsConnection, QueryTypeOK
  <2>2. ~HoldsConnection(c)'
    BY <1>9 DEF End, HoldsConnection, QueryTypeOK
  <2>3. free' = IF HoldsConnection(c) THEN free + 1 ELSE free
    BY <1>9 DEF End
  <2>4. PoolBalanced' /\ free' \in 0 .. PoolSize
    BY <2>1, <2>2, <2>3, PoolStep
  <2>5. QueryTypeOK'
    BY <1>9, <2>4, QueryAssumption DEF End, QueryTypeOK, Stages
  <2> QED
    BY <2>4, <2>5
<1>10. ASSUME NEW c \in Clients, Respond(c) \/ Fail(c)
       PROVE  at[c] # "idle" /\ End(c)
  BY <1>10 DEF Respond, Fail
<1> QED
  BY <1>1, <1>2, <1>3, <1>4, <1>5, <1>6, <1>7, <1>8, <1>9, <1>10
  DEF QueryNext, RequestNext, Serve

-----------------------------------------------------------------------------
(* What is shown, found and named. *)

LEMMA ShownStep ==
    ASSUME QueryTypeOK, ShownIsStored, KnownIsShown, FoundByQuestion,
           [QueryNext]_queryVars
    PROVE  ShownIsStored' /\ KnownIsShown' /\ FoundByQuestion'
<1> USE DEF readSideVars, requestVars, queryVars, ShownIsStored, KnownIsShown,
            FoundByQuestion
<1>1. CASE UNCHANGED queryVars
  BY <1>1
<1>2. CASE ReadSideNext /\ UNCHANGED requestVars
  <2>1. ASSUME NEW d \in Docs, Show(d)
        PROVE  ShownIsStored' /\ KnownIsShown' /\ FoundByQuestion'
    BY <1>2, <2>1 DEF Show
  <2>2. ASSUME NEW d \in Docs, NEW k \in 1 .. Size[d], StoreTo(d, k)
        PROVE  ShownIsStored' /\ KnownIsShown' /\ FoundByQuestion'
    <3>1. d \notin shown
      BY <2>2, QueryAssumption DEF StoreTo, QueryTypeOK
    <3> QED
      BY <1>2, <2>2, <3>1 DEF StoreTo, QueryTypeOK
  <2> QED
    BY <1>2, <2>1, <2>2 DEF ReadSideNext
<1>3. ASSUME NEW c \in Clients, Receive(c)
      PROVE  ShownIsStored' /\ KnownIsShown' /\ FoundByQuestion'
  BY <1>3 DEF Receive, QueryTypeOK
<1>4. ASSUME NEW c \in Clients, SearchQdrant(c)
      PROVE  ShownIsStored' /\ KnownIsShown' /\ FoundByQuestion'
  BY <1>4 DEF SearchQdrant, QueryTypeOK
<1>5. ASSUME NEW c \in Clients, NotEmbedded(c)
      PROVE  ShownIsStored' /\ KnownIsShown' /\ FoundByQuestion'
  BY <1>5 DEF NotEmbedded, QueryTypeOK
<1>6. ASSUME NEW c \in Clients, ReadRows(c)
      PROVE  ShownIsStored' /\ KnownIsShown' /\ FoundByQuestion'
  BY <1>6 DEF ReadRows, QueryTypeOK
<1>7. ASSUME NEW c \in Clients, NothingToName(c)
      PROVE  ShownIsStored' /\ KnownIsShown' /\ FoundByQuestion'
  BY <1>7 DEF NothingToName, QueryTypeOK
<1>8. ASSUME NEW c \in Clients, Generate(c)
      PROVE  ShownIsStored' /\ KnownIsShown' /\ FoundByQuestion'
  BY <1>8 DEF Generate, QueryTypeOK
<1>9. ASSUME NEW c \in Clients, End(c)
      PROVE  ShownIsStored' /\ KnownIsShown' /\ FoundByQuestion'
  BY <1>9 DEF End, QueryTypeOK
<1> QED
  BY <1>1, <1>2, <1>3, <1>4, <1>5, <1>6, <1>7, <1>8, <1>9
  DEF QueryNext, RequestNext, Serve, Respond, Fail

(* What a search does not miss it does not miss when more chunks come in. *)
LEMMA UnexpectedAmongMore ==
    ASSUME QueryTypeOK, NEW c \in Clients, Questioned(c),
           request[c].question # Blank,
           NEW S, IsFiniteSet(S), Sorted(request[c].question, S),
           NEW R, R \subseteq S, NEW x \in R, Unexpected(c, R, x)
    PROVE  Unexpected(c, S, x)
<1>1. request[c].limit \in Nat
  BY OpenRequest DEF Questioned
<1> QED
  BY <1>1, ExpectedAmongFewer, CrowdedOutAmongMore DEF Unexpected

(* A search finds what is shown. *)
LEMMA SearchFinds ==
    ASSUME QueryTypeOK, ShownIsStored, NEW q \in Questions,
           NEW filter \in Docs \cup {NoFilter}, NEW limit \in Nat,
           NEW d \in shown, NEW i \in 1 .. Size[d]
    PROVE  \/ <<d, i>> \in Retrieve(q, filter, limit, InQdrant)
           \/ <<d, i>> \notin Top(q, Relevant(q, filter, InQdrant), limit)
           \/ CrowdedOut(q, filter, limit, InQdrant, <<d, i>>)
<1>1. IsFiniteSet(InQdrant) /\ Sorted(q, InQdrant)
  BY InQdrantIsRanked
<1>2. CASE filter = NoFilter
  BY <1>1, <1>2, UnfilteredIsExact
<1>3. CASE filter # NoFilter
  BY <1>1, <1>3, FilteredMissesTheCrowdedOut
<1> QED
  BY <1>2, <1>3

LEMMA FoundStep ==
    ASSUME QueryInv, [QueryNext]_queryVars, QueryTypeOK'
    PROVE  ShownIsFound'
<1> USE DEF readSideVars, requestVars, queryVars
<1> USE DEF QueryInv
<1>1. SUFFICES ASSUME NEW c \in Clients, Searched(c)',
                      request'[c].question # Blank,
                      NEW d \in known'[c], NEW i \in 1 .. Size[d]
               PROVE  <<d, i>> \in hits'[c] \/ Unexpected(c, InQdrant, <<d, i>>)'
  BY DEF ShownIsFound
(* A request that was searched for before, while Qdrant is as it was. *)
<1>2. ASSUME request'[c] = request[c], hits'[c] = hits[c], known'[c] = known[c],
             stored' = stored, Searched(c)
      PROVE  <<d, i>> \in hits'[c] \/ Unexpected(c, InQdrant, <<d, i>>)'
  <2>1. <<d, i>> \in hits[c] \/ Unexpected(c, InQdrant, <<d, i>>)
    BY <1>1, <1>2 DEF ShownIsFound
  <2> QED
    BY <1>2, <2>1 DEF Unexpected, InQdrant, ChunksUpTo
<1>3. CASE UNCHANGED queryVars
  BY <1>1, <1>2, <1>3 DEF Searched, Questioned
<1>4. CASE ReadSideNext /\ UNCHANGED requestVars
  <2>1. Searched(c) /\ request[c].question # Blank /\ d \in known[c]
    BY <1>1, <1>4 DEF Searched, Questioned
  <2>2. ASSUME NEW e \in Docs, Show(e)
        PROVE  <<d, i>> \in hits'[c] \/ Unexpected(c, InQdrant, <<d, i>>)'
    BY <1>2, <1>4, <2>1, <2>2 DEF Show
  <2>3. ASSUME NEW e \in Docs, NEW k \in 1 .. Size[e], StoreTo(e, k)
        PROVE  <<d, i>> \in hits'[c] \/ Unexpected(c, InQdrant, <<d, i>>)'
    <3>1. CASE <<d, i>> \in hits[c]
      BY <1>4, <3>1
    <3>2. CASE Unexpected(c, InQdrant, <<d, i>>)
      <4>1. d \in Docs /\ stored[d] = Size[d]
        BY <2>1 DEF KnownIsShown, ShownIsStored, QueryTypeOK
      <4>2. <<d, i>> \in InQdrant
        BY <4>1, StoredChunk
      <4>3. InQdrant \subseteq InQdrant'
        <5>1. \A f \in Docs : 1 .. stored[f] \subseteq 1 .. stored'[f]
          BY <2>3, QueryAssumption DEF StoreTo, QueryTypeOK
        <5> QED
          BY <5>1 DEF InQdrant, ChunksUpTo
      <4>4. request[c].question \in Questions /\ Questioned(c)
        BY <2>1, OpenRequest DEF Searched, Questioned
      <4>5. IsFiniteSet(InQdrant') /\ Sorted(request[c].question, InQdrant')
        BY <4>4, ChunksAreRanked DEF QueryTypeOK, InQdrant
      <4>6. Unexpected(c, InQdrant', <<d, i>>)
        BY <2>1, <3>2, <4>2, <4>3, <4>4, <4>5, UnexpectedAmongMore
      <4> QED
        BY <1>4, <4>6 DEF Unexpected
    <3> QED
      BY <2>1, <3>1, <3>2 DEF ShownIsFound
  <2> QED
    BY <1>4, <2>2, <2>3 DEF ReadSideNext
(* The search itself. *)
<1>5. CASE SearchQdrant(c)
  <2>1. /\ request' = request /\ stored' = stored
        /\ known'[c] = shown
        /\ hits'[c] = Retrieve(request[c].question, request[c].filter,
                               request[c].limit, InQdrant)
        /\ at[c] # "idle" /\ request[c].kind # "browse"
    BY <1>5 DEF SearchQdrant, QueryTypeOK
  <2>2. /\ request[c].question \in Questions
        /\ request[c].filter \in Docs \cup {NoFilter}
        /\ request[c].limit \in Nat
    BY <1>1, <2>1, OpenRequest
  <2>3. d \in shown
    BY <2>1
  <2>4. <<d, i>> \in hits'[c] \/ Unexpected(c, InQdrant, <<d, i>>)
    BY <2>1, <2>2, <2>3, SearchFinds DEF Unexpected
  <2> QED
    BY <2>1, <2>4 DEF Unexpected, InQdrant, ChunksUpTo
<1>6. CASE NotEmbedded(c)
  BY <1>6 DEF NotEmbedded, KnownIsShown
(* A later step of the same request. *)
<1>7. CASE ReadRows(c) \/ NothingToName(c) \/ Generate(c)
  <2>1. Searched(c)
    BY <1>1, <1>7
    DEF ReadRows, NeedsRows, NothingToName, Generate, Searched, Questioned,
        Stages, QueryTypeOK
  <2> QED
    BY <1>2, <1>7, <2>1 DEF ReadRows, NothingToName, Generate
(* No request, or one that was not searched for yet. *)
<1>8. CASE Receive(c) \/ End(c)
  <2>1. at'[c] \in {"idle", "received"}
    BY <1>8 DEF Receive, End, QueryTypeOK
  <2> QED
    BY <1>1, <2>1 DEF Searched
(* A step of another client. *)
<1>9. ASSUME NEW v \in Clients, v # c,
             \/ Receive(v) \/ SearchQdrant(v) \/ NotEmbedded(v) \/ ReadRows(v)
             \/ NothingToName(v) \/ Generate(v) \/ End(v)
      PROVE  <<d, i>> \in hits'[c] \/ Unexpected(c, InQdrant, <<d, i>>)'
  <2>1. /\ at'[c] = at[c] /\ request'[c] = request[c] /\ hits'[c] = hits[c]
        /\ known'[c] = known[c] /\ stored' = stored
    BY <1>9
    DEF Receive, SearchQdrant, NotEmbedded, ReadRows, NothingToName, Generate,
        End, QueryTypeOK
  <2> QED
    BY <1>1, <1>2, <2>1 DEF Searched, Questioned
<1> QED
  BY <1>3, <1>4, <1>5, <1>6, <1>7, <1>8, <1>9
  DEF QueryNext, RequestNext, Serve, Respond, Fail

LEMMA NamesStep ==
    ASSUME QueryInv, [QueryNext]_queryVars
    PROVE  NamesAreCurrent'
<1> USE DEF readSideVars, requestVars, queryVars
<1> USE DEF QueryInv
<1>1. SUFFICES ASSUME NEW c \in Clients, Searched(c)', at'[c] # "found",
                      NEW x \in hits'[c], x[1] \in known'[c]
               PROVE  x[1] \in named'[c]
  BY DEF NamesAreCurrent
(* A request whose names were read before. *)
<1>2. ASSUME request'[c] = request[c], hits'[c] = hits[c], known'[c] = known[c],
             named'[c] = named[c], Searched(c), at[c] # "found"
      PROVE  x[1] \in named'[c]
  BY <1>1, <1>2 DEF NamesAreCurrent
<1>3. CASE UNCHANGED requestVars
  BY <1>1, <1>2, <1>3 DEF Searched, Questioned
(* The lookup. *)
<1>4. CASE ReadRows(c)
  <2>1. /\ at[c] = "found" /\ request[c].kind # "browse"
        /\ hits'[c] = hits[c] /\ known'[c] = known[c]
        /\ named'[c] = shown \cap {y[1] : y \in hits[c]}
    BY <1>1, <1>4
    DEF ReadRows, NeedsRows, Wanted, Searched, Questioned, QueryTypeOK
  <2> QED
    BY <1>1, <2>1 DEF KnownIsShown
<1>5. CASE NothingToName(c)
  BY <1>1, <1>5 DEF NothingToName
<1>6. CASE Generate(c)
  <2>1. at[c] = "joined" /\ Searched(c)
    BY <1>1, <1>6 DEF Generate, Searched, Questioned, Stages
  <2> QED
    BY <1>2, <1>6, <2>1 DEF Generate
<1>7. CASE Receive(c) \/ End(c)
  <2>1. at'[c] \in {"idle", "received"}
    BY <1>7 DEF Receive, End, QueryTypeOK
  <2> QED
    BY <1>1, <2>1 DEF Searched
<1>8. CASE SearchQdrant(c) \/ NotEmbedded(c)
  BY <1>1, <1>8 DEF SearchQdrant, NotEmbedded, QueryTypeOK
(* A step of another client. *)
<1>9. ASSUME NEW v \in Clients, v # c,
             \/ Receive(v) \/ SearchQdrant(v) \/ NotEmbedded(v) \/ ReadRows(v)
             \/ NothingToName(v) \/ Generate(v) \/ End(v)
      PROVE  x[1] \in named'[c]
  <2>1. /\ at'[c] = at[c] /\ request'[c] = request[c] /\ hits'[c] = hits[c]
        /\ known'[c] = known[c] /\ named'[c] = named[c]
    BY <1>9
    DEF Receive, SearchQdrant, NotEmbedded, ReadRows, NothingToName, Generate,
        End, QueryTypeOK
  <2> QED
    BY <1>1, <1>2, <2>1 DEF Searched, Questioned
<1> QED
  BY <1>3, <1>4, <1>5, <1>6, <1>7, <1>8, <1>9
  DEF QueryNext, RequestNext, Serve, Respond, Fail

-----------------------------------------------------------------------------
LEMMA QueryInvInit == QueryInit => QueryInv
<1> SUFFICES ASSUME QueryInit PROVE QueryInv
  OBVIOUS
<1> USE DEF QueryInit, RequestInit, ReadSideInit
<1>1. QueryTypeOK
  BY QueryAssumption DEF QueryTypeOK, Stages
<1>2. PoolBalanced
  <2>1. {c \in Clients : HoldsConnection(c)} = {}
    BY DEF HoldsConnection
  <2> QED
    BY <2>1, FS_EmptySet, QueryAssumption DEF PoolBalanced
<1>3. ShownIsStored /\ KnownIsShown /\ FoundByQuestion
  BY DEF ShownIsStored, KnownIsShown, FoundByQuestion
<1>4. ShownIsFound /\ NamesAreCurrent
  BY DEF ShownIsFound, NamesAreCurrent, Searched, Questioned
<1> QED
  BY <1>1, <1>2, <1>3, <1>4 DEF QueryInv

LEMMA QueryInvariant == QuerySpec => []QueryInv
<1>1. QueryInv /\ [QueryNext]_queryVars => QueryInv'
  BY TypeAndPoolStep, ShownStep, FoundStep, NamesStep DEF QueryInv
<1> QED
  BY <1>1, QueryInvInit, PTL DEF QuerySpec

(* The query service keeps its types (query/). *)
THEOREM QueryTypeCorrect == QuerySpec => []QueryTypeOK
<1>1. QueryInv => QueryTypeOK
  BY DEF QueryInv
<1> QED
  BY <1>1, QueryInvariant, PTL

(* However many chunks come in during and after a search, it has found all
   that the read model showed, but for what is not relevant, beyond the limit,
   or crowded out of a filtered search (retrieve). *)
THEOREM QueryFindsWhatIsShown == QuerySpec => []ShownIsFound
<1>1. QueryInv => ShownIsFound
  BY DEF QueryInv
<1> QED
  BY <1>1, QueryInvariant, PTL

(* A source is cited by its filename if its document was shown when the search
   ran, though the lookup comes later (_attach_filenames). *)
THEOREM QueryNamesAreCurrent == QuerySpec => []NamesAreCurrent
<1>1. QueryInv => NamesAreCurrent
  BY DEF QueryInv
<1> QED
  BY <1>1, QueryInvariant, PTL

(* Every connection is in the pool or with one request (get_session). *)
THEOREM QueryBalancesPool == QuerySpec => []PoolBalanced
<1>1. QueryInv => PoolBalanced
  BY DEF QueryInv
<1> QED
  BY <1>1, QueryInvariant, PTL

(* What a request cites is in Qdrant, and stays there: no chunk is made up on
   the way, and the write side takes none back (retrieve, upsert_chunks). *)
HitsAreStored == \A c \in Clients : hits[c] \subseteq InQdrant

LEMMA HitsStep ==
    ASSUME QueryTypeOK, HitsAreStored, [QueryNext]_queryVars
    PROVE  HitsAreStored'
<1> USE DEF readSideVars, requestVars, queryVars, HitsAreStored
<1>1. InQdrant \subseteq InQdrant'
  <2>1. \A d \in Docs : stored[d] \in Nat /\ stored'[d] \in Nat
                        /\ stored[d] <= stored'[d]
    BY QueryAssumption
    DEF QueryTypeOK, QueryNext, RequestNext, ReadSideNext, Show, StoreTo,
        Receive, Serve, SearchQdrant, NotEmbedded, NothingToName, Generate,
        Respond, ReadRows, Fail, End
  <2> QED
    BY <2>1 DEF InQdrant, ChunksUpTo
<1>2. ASSUME NEW c \in Clients
      PROVE  \/ hits'[c] = hits[c] \/ hits'[c] = {}
             \/ \E q, f, l : hits'[c] = Retrieve(q, f, l, InQdrant)
  BY <1>2
  DEF QueryTypeOK, QueryNext, RequestNext, Receive, Serve, SearchQdrant,
      NotEmbedded, NothingToName, Generate, Respond, ReadRows, Fail, End
<1> QED
  BY <1>1, <1>2, RetrieveSubset

LEMMA QueryCitesStored == QuerySpec => []HitsAreStored
<1>1. QueryInit => HitsAreStored
  BY DEF QueryInit, RequestInit, HitsAreStored
<1>2. QueryInv => QueryTypeOK
  BY DEF QueryInv
<1> QED
  BY <1>1, <1>2, HitsStep, QueryInvariant, PTL DEF QuerySpec
=============================================================================
