\* A request in flight when fesvr is killed may complete after the drain.
CONSTANTS
  Procs = {p1, p2}
  NBUF = 2
  Tags = {t1, t2}
  Blocks = {0, 1, 2, 7}
  NSectors = 5
  WordSize = 16
  Data = {zero, one}
  Zero = zero
  Torn = torn
  MaxKills = 2
  Settled = FALSE
SPECIFICATION Spec
INVARIANTS TransferDone
