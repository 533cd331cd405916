SPECIFICATION Spec
CONSTANTS
  MaxPid = 2
  MaxSleep = 2
PROPERTIES
  SleepSleeps
\* The machine really stops: the kill path halts with interrupts off.
CHECK_DEADLOCK FALSE
