----------------------------- MODULE MCGroupCall -----------------------------
(* Instances of GroupCall for TLC: a1 is a device of ua, all others of ub.  *)
EXTENDS GroupCall, TLC

CONSTANTS a1, ua, ub

Owners == [d \in Devices |-> IF d = a1 THEN ua ELSE ub]

\* The devices of ub are alike, and so are the calls.
Symmetry == Permutations(Devices \ {a1}) \cup Permutations(Calls)

=============================================================================
