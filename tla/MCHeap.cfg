SPECIFICATION Spec
CONSTANTS
    Header = 2
    HEAP_MIN_BLOCK = 1
    PAGE_SIZE = 4
    InitPages = 2
    MaxAddr = 24
    Sizes = {1, 3, 6}
INVARIANTS
    MemoryGivenOnce BlocksTile GrowsOnce
\* The kernel panics when memory has run out.
CHECK_DEADLOCK FALSE
