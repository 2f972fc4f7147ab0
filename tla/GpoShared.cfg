CONSTANTS
  Admin = {a1, a2}
  File <- Shared
  Entry = {e1}
  None = None
  Ops = {"edit", "rename", "reconcile"}
  Failing = {}
  Overlapping = FALSE
  Word = 4
  FirstVersion <- Brink
  MaxSaves = 2
SPECIFICATION LiveSpec
INVARIANTS EditorSawIt
PROPERTIES OnlyItsOwn ClientsCatchUp
