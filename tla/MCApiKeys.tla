----------------------------- MODULE MCApiKeys -----------------------------
(* ApiKeys on small instances. *)
EXTENDS ApiKeysInductive, TLC

\* Requests, ids and random keys are interchangeable.
Symmetry == Permutations(Requests) \cup Permutations(KeyIds)
              \cup Permutations(TenantIds) \cup Permutations(RawKeys)
              \cup Permutations(Emails)
=============================================================================
