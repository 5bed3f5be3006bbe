CONSTANTS
  Wins = {w1, w2}
  Docs = {d1, d2, d3}
  Files = {f1}
  NoWin = NoWin
  Untitled = Untitled
  Closed = Closed
  NoSession = NoSession
  MaxDocs = 2
  MaxNesting = 3
SPECIFICATION Spec
SYMMETRY Symmetric
INVARIANT FlagsTruthful
PROPERTIES AskedFirst NeverEmptied SessionKept
