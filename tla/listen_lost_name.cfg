\* The node goes away while a thread opens it.
CONSTANTS
  Paths = {usb1}
  Threads = {1, 2}
  MaxPlugs = 2
  GoneInOpen = TRUE
SPECIFICATION FairSpec
PROPERTIES NodeAdopted
CHECK_DEADLOCK FALSE
