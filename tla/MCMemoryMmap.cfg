CONSTANTS
  Highest = 25
  Boot = {0}
  Pinned = {0}
  Identity = {1, 40}
  Image = {17, 18}
  NoExec = {17}
  Stack = {20}
  StackPages = 1
  Heap = {19, 20}
  HeapBase = 19
  KStackPages = 2
  GrowPages = 2
  MaxKernel = 3
  FbBase = 40
  FbPages = 1
  DmaMin = 20
  DmaTries = 2
  MaxAsk = 2
  MaxPid = 3
  PageSet = {1, 17, 18, 19, 20, 40}
  Index <- MCIndex
SPECIFICATION Spec
PROPERTY MmapDelivers
CHECK_DEADLOCK FALSE
