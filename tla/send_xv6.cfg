\* xv6 is running and does not get the ^C.
CONSTANTS
  NLines = 1
  MaxRuns = 1
  MaxLost = 1
SPECIFICATION Spec
INVARIANTS PreflightAtLinux
CHECK_DEADLOCK FALSE
