SPECIFICATION FairSpec
CONSTANTS
  MaxPid = 4
  MaxSleep = 1
INVARIANTS
  TypeOK
  LinearChain
  NoUseAfterFree
PROPERTIES
  TickNeverSwitches
  HaltLeavesNobody
  ExecReturns
  JobStackSpec
\* The machine really stops: the kill path halts with interrupts off.
CHECK_DEADLOCK FALSE
