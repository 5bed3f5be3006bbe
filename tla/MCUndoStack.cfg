CONSTANTS
  Char = {"a", " "}
  Blanks = {" "}
  Newlines = {}
  ActionIds = {1, 2}
  MaxLength = 2
  MaxNesting = 1
  Lost = Lost
SPECIFICATION Spec
INVARIANTS TypeOK Chained ModifiedTruthful ModifyingActionLive GroupsWhole
PROPERTY ImplementsHistory
