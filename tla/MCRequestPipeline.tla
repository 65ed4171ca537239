-------------------------- MODULE MCRequestPipeline --------------------------
(* RequestPipeline on small instances. *)
EXTENDS RequestPipeline, TLC

\* An administrator's key, one of its tenant that may only read, and one of another
\* tenant as it registers.
MCKeys == {[id |-> "k1", tenant |-> "ops", scopes |-> {"admin"}],
           [id |-> "k2", tenant |-> "ops", scopes |-> {"read"}],
           [id |-> "k3", tenant |-> "acme", scopes |-> {"read", "write"}]}

Symmetry == Permutations(Requests) \cup Permutations(Addresses)
=============================================================================
