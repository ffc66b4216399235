\* Ticks two units apart, up to one unit of which passes inside the handler.
CONSTANTS
  Interval = 2
  HandlerTime = 1
  MaxTime = 7
  Causes <- NonDelegable
SPECIFICATION FairSpec
INVARIANTS TrapInv NoRefire TickNotLost
PROPERTIES HandlerTransparent TickServed
