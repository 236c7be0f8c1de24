------------------------------- MODULE Query --------------------------------
(***************************************************************************)
(* The query service (query/): requests in several steps, each against     *)
(* what Qdrant and document_view hold at that moment, while the write side *)
(* goes on (ReadSide).  A request uses at most one connection of the       *)
(* database pool, from its first statement to its end: for POST /ask that  *)
(* is the time the LLM takes.                                              *)
(***************************************************************************)
EXTENDS ReadSide, Retrieval

CONSTANTS
    Clients,    \* each with at most one request at a time
    Requests,   \* what they ask
    NoRequest,  \* no request open
    PoolSize    \* connections: pool_size + max_overflow

VARIABLES
    request,  \* [Clients -> Requests or NoRequest]
    at,       \* [Clients -> Stages]: where the request stands
    hits,     \* [Clients -> sets of chunks]: what was retrieved
    named,    \* [Clients -> SUBSET Docs]: rows read from document_view
    free,     \* connections in the pool
    known     \* history, [Clients -> SUBSET Docs]: shown when Qdrant was searched

requestVars == <<request, at, hits, named, free, known>>
queryVars == <<readSideVars, requestVars>>

Stages == {"idle", "received", "found", "joined", "answered"}

(* GET /documents and /documents/{id} read rows; GET /search and POST /ask
   take a question.  A limit that FastAPI's validation refuses never becomes a
   request. *)
Browse == [kind : {"browse"}, docs : SUBSET Docs]
Questioning == [kind : {"search", "ask"}, question : Questions \cup {Blank},
                filter : Docs \cup {NoFilter}, limit : Nat \ {0}]

(* The first n[d] chunks of each document d. *)
ChunksUpTo(n) == UNION {{d} \X (1 .. n[d]) : d \in Docs}

ASSUME QueryAssumption ==
    /\ IsFiniteSet(Docs)
    /\ IsFiniteSet(Clients)
    /\ Size \in [Docs -> Nat]
    /\ Requests \subseteq Browse \cup Questioning
    /\ NoFilter \notin Docs
    /\ NoRequest \notin Requests
    /\ PoolSize \in Nat \ {0}
    /\ \A q \in Questions : Sorted(q, ChunksUpTo(Size))

InQdrant == ChunksUpTo(stored)

(* The documents whose rows a request reads. *)
Wanted(c) ==
    IF request[c].kind = "browse" THEN request[c].docs
    ELSE {x[1] : x \in hits[c]}

(* A session checks a connection out for its first statement and keeps it. *)
HoldsConnection(c) ==
    at[c] \in {"joined", "answered"}
    /\ (request[c].kind = "browse" \/ hits[c] # {})

RequestInit ==
    /\ request = [c \in Clients |-> NoRequest]
    /\ at = [c \in Clients |-> "idle"]
    /\ hits = [c \in Clients |-> {}]
    /\ named = [c \in Clients |-> {}]
    /\ free = PoolSize
    /\ known = [c \in Clients |-> {}]

QueryInit == ReadSideInit /\ RequestInit

-----------------------------------------------------------------------------
Receive(c) ==
    /\ at[c] = "idle"
    /\ at' = [at EXCEPT ![c] = "received"]
    /\ \E r \in Requests : request' = [request EXCEPT ![c] = r]
    /\ UNCHANGED <<readSideVars, hits, named, free, known>>

(* retrieve: the question is embedded, Qdrant searched, the hits filtered. *)
SearchQdrant(c) ==
    /\ at[c] = "received"
    /\ request[c].kind # "browse"
    /\ at' = [at EXCEPT ![c] = "found"]
    /\ hits' = [hits EXCEPT ![c] =
                   Retrieve(request[c].question, request[c].filter,
                            request[c].limit, InQdrant)]
    /\ known' = [known EXCEPT ![c] = shown]
    /\ UNCHANGED <<readSideVars, request, named, free>>

(* retrieve returns no hits, and does not search, if the embedder returns no
   vector. *)
NotEmbedded(c) ==
    /\ at[c] = "received"
    /\ request[c].kind # "browse"
    /\ request[c].question # Blank
    /\ at' = [at EXCEPT ![c] = "found"]
    /\ UNCHANGED <<readSideVars, request, hits, named, free, known>>

NeedsRows(c) ==
    \/ at[c] = "received" /\ request[c].kind = "browse"
    \/ at[c] = "found" /\ hits[c] # {}

(* Mutant of ReadRows: one lookup, for the document of the best hit. *)
ReadRowsOfBest(c) ==
    /\ NeedsRows(c)
    /\ free > 0
    /\ free' = free - 1
    /\ named' = [named EXCEPT ![c] =
                    shown \cap
                    IF request[c].kind = "browse" THEN request[c].docs
                    ELSE {x[1] : x \in Best(request[c].question, hits[c])}]
    /\ at' = [at EXCEPT ![c] = "joined"]
    /\ UNCHANGED <<readSideVars, request, hits, known>>

(* list_documents, get_document, _attach_filenames: one statement, on a
   connection of the pool. *)
ReadRows(c) ==
    /\ NeedsRows(c)
    /\ free > 0
    /\ free' = free - 1
    /\ named' = [named EXCEPT ![c] = shown \cap Wanted(c)]
    /\ at' = [at EXCEPT ![c] = "joined"]
    /\ UNCHANGED <<readSideVars, request, hits, known>>

(* _attach_filenames of no hits asks the database nothing. *)
NothingToName(c) ==
    /\ at[c] = "found"
    /\ hits[c] = {}
    /\ at' = [at EXCEPT ![c] = "joined"]
    /\ UNCHANGED <<readSideVars, request, hits, named, free, known>>

(* The LLM answers an /ask from the hits, or from none. *)
Generate(c) ==
    /\ at[c] = "joined"
    /\ request[c].kind = "ask"
    /\ at' = [at EXCEPT ![c] = "answered"]
    /\ UNCHANGED <<readSideVars, request, hits, named, free, known>>

(* Mutant of End: a connection goes back whether or not one was taken. *)
EndReturnsAlways(c) ==
    /\ free' = free + 1
    /\ at' = [at EXCEPT ![c] = "idle"]
    /\ request' = [request EXCEPT ![c] = NoRequest]
    /\ hits' = [hits EXCEPT ![c] = {}]
    /\ named' = [named EXCEPT ![c] = {}]
    /\ known' = [known EXCEPT ![c] = {}]
    /\ UNCHANGED readSideVars

(* The request is over and get_session closes the session, which gives its
   connection back. *)
End(c) ==
    /\ free' = IF HoldsConnection(c) THEN free + 1 ELSE free
    /\ at' = [at EXCEPT ![c] = "idle"]
    /\ request' = [request EXCEPT ![c] = NoRequest]
    /\ hits' = [hits EXCEPT ![c] = {}]
    /\ named' = [named EXCEPT ![c] = {}]
    /\ known' = [known EXCEPT ![c] = {}]
    /\ UNCHANGED readSideVars

(* 200, or 404 for a document without a row. *)
Respond(c) ==
    /\ \/ at[c] = "joined" /\ request[c].kind # "ask"
       \/ at[c] = "answered"
    /\ End(c)

(* Mutant of Fail: the session is not closed when the handler raises. *)
FailKeepsConnection(c) ==
    /\ at[c] \notin {"idle", "answered"}
    /\ at' = [at EXCEPT ![c] = "idle"]
    /\ request' = [request EXCEPT ![c] = NoRequest]
    /\ hits' = [hits EXCEPT ![c] = {}]
    /\ named' = [named EXCEPT ![c] = {}]
    /\ known' = [known EXCEPT ![c] = {}]
    /\ UNCHANGED <<readSideVars, free>>

(* 500: the embedder, Qdrant, the database or the LLM raises, or no connection
   comes free within the pool's timeout. *)
Fail(c) ==
    /\ at[c] \notin {"idle", "answered"}
    /\ End(c)

Serve(c) ==
    \/ SearchQdrant(c) \/ NotEmbedded(c) \/ NothingToName(c)
    \/ Generate(c) \/ Respond(c)

RequestNext ==
    \E c \in Clients : Receive(c) \/ Serve(c) \/ ReadRows(c) \/ Fail(c)

QueryNext == (ReadSideNext /\ UNCHANGED requestVars) \/ RequestNext

QuerySpec == QueryInit /\ [][QueryNext]_queryVars

(* The event loop goes on, and connections are handed out in the order they
   are asked for. *)
FairQuerySpec ==
    /\ QuerySpec
    /\ \A c \in Clients : WF_queryVars(Serve(c)) /\ SF_queryVars(ReadRows(c))

-----------------------------------------------------------------------------
(* Properties. *)

(* Every variable has its type. *)
QueryTypeOK ==
    /\ stored \in [Docs -> Nat] /\ \A d \in Docs : stored[d] <= Size[d]
    /\ shown \subseteq Docs
    /\ request \in [Clients -> Requests \cup {NoRequest}]
    /\ at \in [Clients -> Stages]
    /\ \A c \in Clients : at[c] = "idle" <=> request[c] = NoRequest
    /\ hits \in [Clients -> SUBSET (Docs \X Nat)]
    /\ named \in [Clients -> SUBSET Docs]
    /\ free \in 0 .. PoolSize
    /\ known \in [Clients -> SUBSET Docs]

Questioned(c) == at[c] # "idle" /\ request[c].kind # "browse"
Searched(c) == at[c] \in Stages \ {"idle", "received"} /\ Questioned(c)

(* What may keep a chunk out of what a request of c is answered with, S being
   in Qdrant. *)
Unexpected(c, S, x) ==
    LET r == request[c] IN
    \/ x \notin Top(r.question, Relevant(r.question, r.filter, S), r.limit)
    \/ CrowdedOut(r.question, r.filter, r.limit, S, x)

(* What the read model shows can be found: every chunk of a document shown
   when the search ran is among the hits, unless it is not relevant, better
   chunks fill the limit, or a filtered search is crowded out by chunks of
   other documents (retrieve, handle_enriched). *)
ShownIsFound ==
    \A c \in Clients : Searched(c) /\ request[c].question # Blank =>
        \A d \in known[c] : \A i \in 1 .. Size[d] :
            <<d, i>> \in hits[c] \/ Unexpected(c, InQdrant, <<d, i>>)

(* A hit is cited without a filename only if its document was not in the read
   model when the search ran (_attach_filenames). *)
NamesAreCurrent ==
    \A c \in Clients : Searched(c) /\ at[c] # "found" =>
        \A x \in hits[c] : x[1] \in known[c] => x[1] \in named[c]

(* However requests end, and whatever the LLM does meanwhile, no connection is
   lost and none is given back twice (get_session). *)
PoolBalanced ==
    free + Cardinality({c \in Clients : HoldsConnection(c)}) = PoolSize

(* No request holds a connection while it waits for another, so one that waits
   for the pool gets through, and every request ends. *)
EveryRequestEnds ==
    \A c \in Clients : at[c] # "idle" ~> at[c] = "idle"
=============================================================================
