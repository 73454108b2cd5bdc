------------------------------- MODULE MCJobs -------------------------------
(* A small instance of Jobs for TLC: one job more than the directory keeps. *)
EXTENDS Jobs

CONSTANTS j1, j2, j3, client
=============================================================================
