------------------------------ MODULE MCDigest ------------------------------
(* A small instance of Digest for TLC. *)
EXTENDS Digest

CONSTANTS i1, i2
=============================================================================
