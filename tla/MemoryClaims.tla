------------------------------ MODULE MemoryClaims ------------------------------
(* What PROJECT.md says of the memory life cycle and the code does not keep. *)
EXTENDS Memory

Decisions == {"candidate_accepted", "candidate_rejected", "candidate_archived"}

\* PROJECT.md:758: "rejected and archived candidates are terminal, and lifecycle
\* retries do not duplicate audit events".
DecidedOnce ==
  \A p \in Proposals :
    BagCardinality([e \in {x \in BagToSet(trail) : x.event \in Decisions /\ x.candidate = p}
                      |-> trail[e]]) <= 1
=============================================================================
