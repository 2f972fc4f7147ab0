CONSTANTS
  Admin = {a1}
  File <- Templates
  Entry = {e1}
  None = None
  Ops = {"edit"}
  Failing = {"call"}
  Overlapping = FALSE
  Word = 4
  FirstVersion <- Brink
  MaxSaves = 2
SPECIFICATION Spec
INVARIANTS RepeatedIsFetched
