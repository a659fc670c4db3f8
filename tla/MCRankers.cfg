SPECIFICATION OneSpec
CONSTANTS
    Sources = {"arxiv", "news", "web"}
    Answers <- UpToTwo
    Bands = 2
    Rows = 2
    Signature <- TwoByTwo
    Threshold = 3
    Queries <- SomeQueries
    K = 60
    Unit = 3782
    MaxRank = 2
    Missing = Missing
    Candidates = {1, 2, 3, 4}
    Feeds <- SomeFeeds
    Engines <- SomeEngines
    Axes = {1, 2}
    Scale = 60
    RrfK = 1
    TopicWeight = 60
    Lowest <- NegativeInfinity
    None = None
    NaN = NaN
INVARIANTS
    FusedIsRRF GroupsAreComponents UniqueIdentity
    SlabSound PoolIsBest Complete BoundsHold PromiseHolds NothingFits MarginIsLead
