CONSTANTS
  Admin = {a1, a2}
  File <- Shared
  Entry = {e1}
  None = None
  Ops = {"edit"}
  Failing = {}
  Overlapping = TRUE
  Word = 4
  FirstVersion <- Brink
  MaxSaves = 2
SPECIFICATION Spec
INVARIANTS EditorSawIt
