------------------------------ MODULE MCCircuit -----------------------------
(* Three threads on one specialist: a probe, a late call from before the trip, and *)
(* one more to be let in by mistake. *)
EXTENDS Circuit

CONSTANTS t1, t2, t3
=============================================================================
