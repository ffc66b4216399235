\* A memory of four words, every dst, src and n.
CONSTANTS
  Size = 32
  Fills <- Signed
  Contents <- Distinct
SPECIFICATION Spec
INVARIANTS TypeOK MemsetResult MemmoveResult RomCopies NeverTrapped
CHECK_DEADLOCK FALSE
