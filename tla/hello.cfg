\* Every outcome of the test's two checks, a PL that is dead or alive, and a probe
\* that runs once, at any speed.  The run and the probe both end.
CONSTANTS
  Faults = {"none", "sum", "shift"}
SPECIFICATION ProbedSpec
INVARIANTS Handshake OutputRight VerdictRight
PROPERTIES RunEnds
CHECK_DEADLOCK FALSE
