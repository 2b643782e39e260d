--------------------------- MODULE MCFileStorage ---------------------------
(* Instances of FileStorage for TLC.                                       *)
EXTENDS FileStorage, TLC

\* Files and requests are interchangeable; the profiles are not (one is local).
Symmetry == Permutations(Files) \cup Permutations(Requests)

============================================================================
