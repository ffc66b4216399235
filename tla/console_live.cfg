\* Liveness under FairSpec, no symmetry.
CONSTANTS
  Procs = {p1, p2}
  Unlocked = {p1}
  Chars = {a}
  MaxCalls = 2
  Buffers <- Single
  MaxTyped = 2
SPECIFICATION FairSpec
PROPERTIES SendsReturn KeysReceived
