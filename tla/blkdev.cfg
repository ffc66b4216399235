\* Two processes, two buffers and two trackers.  Two blocks are stored, of a third
\* only the first sector is, and the end of the fourth wraps to 0, which passes
\* the range check.  fesvr is killed at any point up to two times.
CONSTANTS
  Procs = {p1, p2}
  NBUF = 2
  Tags = {t1, t2}
  Blocks = {0, 1, 2, 7}
  NSectors = 5
  WordSize = 16
  Data = {zero, one}
  Zero = zero
  Torn = torn
  MaxKills = 2
  Settled = TRUE
SPECIFICATION FairSpec
INVARIANTS TypeOK DmaSafe
PROPERTIES CallsReturn DiskImplemented
