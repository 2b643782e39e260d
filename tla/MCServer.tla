------------------------------ MODULE MCServer ------------------------------
\* Server for TLC: the workers of the queue are alike.
EXTENDS Server, TLC

Symmetry == Permutations(Workers)

=============================================================================
