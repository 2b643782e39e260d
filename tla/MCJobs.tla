------------------------------- MODULE MCJobs -------------------------------
(* Instances of Jobs for TLC.                                              *)
EXTENDS Jobs, TLC

Symmetry == Permutations(Workers)

============================================================================
