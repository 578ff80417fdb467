--------------------------- MODULE MCDeleteReconcile ---------------------------
EXTENDS DeleteReconcile, TLC

MCSymmetry == Permutations(Keeps)

=============================================================================
