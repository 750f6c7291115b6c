------------------------------ MODULE MCStoreBoot -----------------------------
(* Constants for model checking StoreBoot. *)
EXTENDS StoreBoot

CONSTANTS v1, v2

MCPayloadSize == [v \in Values |-> IF v = v1 THEN 100 ELSE 400]
===============================================================================
