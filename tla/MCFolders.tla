------------------------------ MODULE MCFolders ------------------------------
\* Folders for TLC: addresses are interchangeable.
EXTENDS Folders, TLC

Symmetric == Permutations(Impls)
=============================================================================
