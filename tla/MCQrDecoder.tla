----------------------------- MODULE MCQrDecoder -----------------------------
(* QrDecoder on small instances. *)
EXTENDS QrDecoder, TLC

Symmetry == Permutations(Threads)
=============================================================================
