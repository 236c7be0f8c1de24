------------------------------ MODULE Storage -------------------------------
(***************************************************************************)
(* Object storage (storage/): save returns a URI that travels on an event, *)
(* read takes it back in another service.  A file name is looked at as far *)
(* as URIs are: what comes before its first '#' or '?', and the rest.      *)
(***************************************************************************)
CONSTANTS
    Docs,      \* documents
    Stems,     \* what comes before the first '#' or '?' of a name
    Rests,     \* the rest of a name that has one
    NoRest,    \* a name without '#' and '?'
    Backend,   \* "local" or "s3"
    NoUri      \* nothing saved yet

VARIABLES
    objects,  \* keys that have bytes
    uris      \* [Docs -> URIs or NoUri]: what save has returned

storageVars == <<objects, uris>>

(* Path(filename).name. *)
Names == [stem : Stems, rest : Rests \cup {NoRest}]

(* A path or a key has a directory per document. *)
KeyFor(d, name) == [doc |-> d, name |-> name]

(* as_uri quotes every character a URI gives a meaning to; the s3:// URI is put
   together as it is. *)
UriOf(key) == [quoted |-> Backend = "local", key |-> key]

(* urlparse ends the path at the first '#' or '?' it sees. *)
PathOf(uri) ==
    IF uri.quoted THEN uri.key
    ELSE [uri.key EXCEPT !.name.rest = NoRest]

StorageInit ==
    /\ objects = {}
    /\ uris = [d \in Docs |-> NoUri]

(* save; a document is saved under one name. *)
Save(d, name) ==
    /\ uris[d] = NoUri
    /\ objects' = objects \cup {KeyFor(d, name)}
    /\ uris' = [uris EXCEPT ![d] = UriOf(KeyFor(d, name))]

StorageNext == \E d \in Docs, name \in Names : Save(d, name)

StorageSpec == StorageInit /\ [][StorageNext]_storageVars

-----------------------------------------------------------------------------
(* What is saved can be read: save returns "a URI that read can resolve"
   (Storage.save). *)
SavedIsReadable ==
    \A d \in Docs : uris[d] # NoUri => PathOf(uris[d]) \in objects
=============================================================================
