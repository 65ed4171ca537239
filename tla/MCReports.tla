----------------------------- MODULE MCReports -----------------------------
(* Reports on small instances. *)
EXTENDS Reports, TLC

\* Reports, ids and random keys are interchangeable.
Symmetry == Permutations(Readers) \cup Permutations(KeyIds)
              \cup Permutations(TenantIds) \cup Permutations(RawKeys)
              \cup Permutations(Emails)
=============================================================================
