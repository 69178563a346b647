SPECIFICATION Spec
CONSTANTS
  Values <- Typed
  SimValues <- TypedSim
  NumberOf <- Numerals
  ValidNames = {"n1"}
  Premium = TRUE
  MaxClicks = 2
  MaxEdits = 3
  MaxFaults = 1
  MaxVisits = 2
CHECK_DEADLOCK FALSE
INVARIANTS TypeOK CreatedAsSubmitted ToldTruth PreviewIsLatest
PROPERTIES OutcomeTold
