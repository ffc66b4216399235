\* Two names, nodes made three times; no more than two threads are alive.
CONSTANTS
  Paths = {usb1, usb3}
  Threads = {1, 2, 3}
  MaxPlugs = 3
  GoneInOpen = FALSE
SPECIFICATION FairSpec
INVARIANTS WatchInv
PROPERTIES NodeAdopted Finishes
CHECK_DEADLOCK FALSE
