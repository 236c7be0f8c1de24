------------------------------ MODULE ReadSide ------------------------------
(***************************************************************************)
(* What the write side does to the two stores the query service reads: the *)
(* chunks of a document appear in Qdrant from the first one on, and the    *)
(* document appears in document_view when all of them are there.  Neither  *)
(* is taken back.                                                          *)
(*                                                                         *)
(* The pipeline implements this specification; the query service is        *)
(* modelled against it.                                                    *)
(***************************************************************************)
EXTENDS Naturals

CONSTANTS
    Docs,   \* documents
    Size    \* [Docs -> Nat]: how many chunks each document has

VARIABLES
    stored,  \* [Docs -> Nat]: chunks 1 .. stored[d] of d are in Qdrant
    shown    \* documents with a row in document_view

readSideVars == <<stored, shown>>

ReadSideInit ==
    /\ stored = [d \in Docs |-> 0]
    /\ shown = {}

(* Upserts go on to the k-th chunk. *)
StoreTo(d, k) ==
    /\ k \in stored[d] + 1 .. Size[d]
    /\ stored' = [stored EXCEPT ![d] = k]
    /\ UNCHANGED shown

(* Mutant of Show: the row does not wait for the vectors. *)
ShowEarly(d) ==
    /\ shown' = shown \cup {d}
    /\ UNCHANGED stored

(* The row of the read model. *)
Show(d) ==
    /\ stored[d] = Size[d]
    /\ shown' = shown \cup {d}
    /\ UNCHANGED stored

ReadSideNext ==
    \E d \in Docs : Show(d) \/ \E k \in 1 .. Size[d] : StoreTo(d, k)

ReadSideSpec == ReadSideInit /\ [][ReadSideNext]_readSideVars
=============================================================================
