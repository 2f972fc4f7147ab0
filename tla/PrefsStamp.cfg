SPECIFICATION PreferencesSpec
CONSTANTS
  Starts <- Unchanged
  Foreign <- SomeForeign
  Typed <- SomeTyped
  Lists <- SomeLists
  InnerLists <- SomeInner
  Directory <- SomeDirectory
  MaxVersion = 3
PROPERTIES StampHonest
CHECK_DEADLOCK FALSE
