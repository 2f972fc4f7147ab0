CONSTANTS
  Admin = {a1}
  File <- Mixed
  Entry = {e1}
  None = None
  Ops = {"edit", "rename", "reconcile"}
  Failing = {"call", "file"}
  Overlapping = FALSE
  Word = 4
  FirstVersion <- Brink
  MaxSaves = 2
SPECIFICATION Spec
INVARIANTS TypeOK HalvesAgree RegistrationFollows ChangedIsFetched
PROPERTIES InUseKept
