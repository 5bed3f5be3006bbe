CONSTANTS
  Marks = {m1, m2}
  MinCapacity = 2
  MaxLines = 10
  MaxInsert = 2
  MaxDelete = 2
SPECIFICATION Spec
INVARIANTS TreeSound LineNumbersTrue BookmarksOwned SortedUnlessPending
PROPERTY KeepsMarks
SYMMETRY MarkSymmetry
