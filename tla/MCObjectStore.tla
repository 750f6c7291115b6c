----------------------------- MODULE MCObjectStore ----------------------------
(* Constants for model checking ObjectStore and its inductive invariant. *)
EXTENDS ObjectStoreInv

CONSTANTS v1, v2

\* v1 fills one sector with its header, v2 needs two.
MCPayloadSize == [v \in Values |-> IF v = v1 THEN 100 ELSE 400]
===============================================================================
