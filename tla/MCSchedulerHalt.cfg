SPECIFICATION Spec
CONSTANTS
  MaxPid = 3
  MaxSleep = 1
INVARIANTS
  HaltMeansNoThread
\* The machine really stops: the kill path halts with interrupts off.
CHECK_DEADLOCK FALSE
