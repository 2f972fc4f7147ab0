SPECIFICATION TemplatesSpec
CONSTANTS
  Shape <- KeyedShapes
  Fold <- Folds
  FoundFile <- FoundPol
  Wishes <- KeyedWishes
  MaxWishes = 3
INVARIANT SaysExactly
CHECK_DEADLOCK FALSE
