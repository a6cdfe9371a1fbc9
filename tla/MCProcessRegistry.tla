------------------------- MODULE MCProcessRegistry -------------------------
(* Three calls of acquire(): all with one spec, or one with another spec.  *)
(* Calls and specs are interchangeable, so these are all the cases.        *)
EXTENDS ProcessRegistry

CONSTANTS c1, c2, c3, a, b

MCInputs == {[c \in Calls |-> a], [c \in Calls |-> IF c = c3 THEN b ELSE a]}
=============================================================================
