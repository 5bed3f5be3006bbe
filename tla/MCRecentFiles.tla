--------------------------- MODULE MCRecentFiles ----------------------------
\* RecentFiles for TLC: instances and uris are interchangeable.
EXTENDS RecentFiles, TLC

\* No file, and full ones.
Initial ==
  {<<>>} \cup {[i \in 1..2 |-> [uri |-> u[i], line |-> 0]] :
                 u \in {v \in [1..2 -> Uris] : v[1] # v[2]}}

Symmetric == Permutations(Procs) \cup Permutations(Uris)
=============================================================================
