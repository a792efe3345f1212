------------------------------- MODULE MCMmr -------------------------------
EXTENDS Mmr, TLC

\* The contents of leaves are interchangeable.
Symmetry == Permutations(Data)

\* A file something went wrong with is followed only while it is short.
ShortAfterLapse == lapse = {} \/ Len(leaves) <= 3
=============================================================================
