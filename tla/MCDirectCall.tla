---------------------------- MODULE MCDirectCall ----------------------------
(* One caller device and a small set of callee devices. *)
EXTENDS DirectCall, TLC

Symmetry == Permutations(CalleeDevs)
=============================================================================
