\* Three runs, files of three lines, two lines that lose bytes.
CONSTANTS
  NLines = 3
  MaxRuns = 3
  MaxLost = 2
SPECIFICATION Spec
INVARIANTS BoardInv SuccessVerified CleanRunInstalls
CHECK_DEADLOCK FALSE
