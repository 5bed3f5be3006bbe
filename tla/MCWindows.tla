------------------------------ MODULE MCWindows ------------------------------
\* Windows for TLC: windows and documents are interchangeable.  Those that
\* are chosen for a new one are alike to every handler (FreeDocs, FreeWins).
EXTENDS Windows, TLC

Symmetric == Permutations(Wins) \cup Permutations(Docs) \cup Permutations(Files)
=============================================================================
