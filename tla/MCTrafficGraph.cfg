SPECIFICATION FairSpec
CONSTANTS
    DESIRED_SAMPLES = 2
    XMARGIN = 1
    YMARGIN = 1
    Width = 6
    Height = 6
    MSECS_PER_MIN = 2
    GraphRanges <- MCGraphRanges
    MaxBytes = 2
    MaxElapsed = 0
    NoModel = NoModel
    Model = Model
INVARIANTS
    TypeOK
    FMaxIsLargestSample
    SamplesShareTimerInterval
    CountedBytesWereReceived
    PathStaysInGraph
PROPERTY
    ScreenFollowsState
