SPECIFICATION Spec
CONSTANTS
    Sizes = {2, 5}
    Rate = 3
    MaxTime = 18
    Pages = {1, 2, 3}
    SqSize = 2
    CqSize = 3
    MaxId = 3
    Names = {"a.org", "b.org"}
    Server = 1
    Others = {2}
    CacheSize = 1
    RingSize = 3
    MaxCalls = 2
    MaxPackets = 3
INVARIANTS
    RunIsWatched PlaysToTheEnd SuccessIsDone PagesAreOwn
    FramesGoOut QueryGoesToServer AnswerIsOwn
CHECK_DEADLOCK FALSE
