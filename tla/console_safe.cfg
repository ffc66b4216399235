\* Two output calls of up to two characters, by one process or by two; p1 may
\* print with interrupts enabled, so a tick can re-enter its htif_send.
CONSTANTS
  Procs = {p1, p2}
  Unlocked = {p1}
  Chars = {a, b}
  MaxCalls = 2
  Buffers <- Pairs
  MaxTyped = 2
SPECIFICATION Spec
INVARIANTS TypeOK OneReadOutstanding
PROPERTIES ServiceImplemented CommandsSurvive BufferUnbroken
SYMMETRY Symmetry
