-------------------------- MODULE PipelineContract --------------------------
(***************************************************************************)
(* What DocStream promises of a document, whatever the machinery behind it *)
(* does: it is accepted, extracted, enriched and indexed, each at most     *)
(* once and in this order; the enrichment has one outcome and that outcome *)
(* is what the read side shows; and it gets there, unless one of its       *)
(* events is parked in a dead-letter queue (README, "Exactly-once effects" *)
(* and "Retry + dead-letter queue").                                       *)
(***************************************************************************)
EXTENDS Naturals

CONSTANTS
    Docs,      \* documents
    Results,   \* outcomes of an enrichment
    NoResult   \* no outcome yet

VARIABLES
    announced,  \* [Docs -> 0..3]: events the document has had so far:
                \* accepted, extracted, enriched
    outcome,    \* [Docs -> Results or NoResult]: what was announced last
    shown,      \* [Docs -> Results or NoResult]: what the read side shows
    parked      \* [Docs -> BOOLEAN]: one of its events was dead-lettered

contractVars == <<announced, outcome, shown, parked>>

ContractInit ==
    /\ announced = [d \in Docs |-> 0]
    /\ outcome = [d \in Docs |-> NoResult]
    /\ shown = [d \in Docs |-> NoResult]
    /\ parked = [d \in Docs |-> FALSE]

(* The n-th event of d, in its turn. *)
Announce(d, n) ==
    /\ announced[d] = n - 1
    /\ announced' = [announced EXCEPT ![d] = n]
    /\ UNCHANGED <<shown, parked>>

Accept(d) == Announce(d, 1) /\ UNCHANGED outcome
Extract(d) == Announce(d, 2) /\ UNCHANGED outcome
Enrich(d) ==
    /\ Announce(d, 3)
    /\ \E r \in Results : outcome' = [outcome EXCEPT ![d] = r]

Index(d) ==
    /\ announced[d] = 3
    /\ shown[d] = NoResult
    /\ shown' = [shown EXCEPT ![d] = outcome[d]]
    /\ UNCHANGED <<announced, outcome, parked>>

Park(d) ==
    /\ announced[d] > 0
    /\ ~parked[d]
    /\ parked' = [parked EXCEPT ![d] = TRUE]
    /\ UNCHANGED <<announced, outcome, shown>>

(* The pipeline moves an unparked document on, or gives it up. *)
Advance(d) ==
    /\ ~parked[d]
    /\ shown[d] = NoResult
    /\ Extract(d) \/ Enrich(d) \/ Index(d) \/ Park(d)

ContractNext ==
    \E d \in Docs : Accept(d) \/ Extract(d) \/ Enrich(d) \/ Index(d) \/ Park(d)

ContractSpec == ContractInit /\ [][ContractNext]_contractVars
FairContractSpec ==
    ContractSpec /\ \A d \in Docs : WF_contractVars(Advance(d))

-----------------------------------------------------------------------------
(* What is shown is what was announced, and nothing is announced after it. *)
ShownIsAnnounced ==
    /\ shown \in [Docs -> Results \cup {NoResult}]
    /\ outcome \in [Docs -> Results \cup {NoResult}]
    /\ announced \in [Docs -> 0 .. 3]
    /\ \A d \in Docs :
          shown[d] # NoResult => announced[d] = 3 /\ shown[d] = outcome[d]

(* What the read side shows never changes, and is the outcome announced. *)
KeepsShown ==
    \A d \in Docs :
        /\ shown[d] # NoResult => shown'[d] = shown[d]
        /\ shown'[d] # NoResult => shown'[d] = outcome'[d]

ShownForGood == [][KeepsShown]_contractVars
=============================================================================
