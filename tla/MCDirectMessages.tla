-------------------------- MODULE MCDirectMessages --------------------------
(* Two devices with a few messages each.                                   *)
EXTENDS DirectMessages

CONSTANTS a, b, SendsA, SendsB

BothDevs == {a, b}
SendCounts == [d \in {a, b} |-> IF d = a THEN SendsA ELSE SendsB]
=============================================================================
