\* Every boot mode and silicon version, a flash of three slots, two faults; the
\* MULTIBOOT field does not wrap within the flash and the faults together.
CONSTANTS
  Modes = {"qspi", "nand", "nor", "sd", "mmc", "jtag", "illegal"}
  Versions = {0, 1}
  FlashSlots = 3
  MBootSlots = 8
  MaxFaults = 2
  MaxDepth = 7
SPECIFICATION FairSpec
INVARIANTS TypeOK HandoffClean HookClean FallbackResets SearchBounded StatusSent
PROPERTIES DevcfgReady AesNoReset BootEnds
CHECK_DEADLOCK FALSE
