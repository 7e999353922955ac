CONSTANTS
    c1 = c1
    c2 = c2
    Client = {c1, c2}
    None = None
    NumTxs = 2
    Draws <- MCDraws
    Files <- MCFiles
    Bodies <- MCBodies
    Queries <- MCQueries
    USIZE = 8
    MaxRequests = 3
    MaxStarts = 2
    MaxFaults = 1
SPECIFICATION Spec
INVARIANTS TypeOK VoteForEachTransaction LateVoteRefused RecordedVote LatestConfigServed PagesPartition
SYMMETRY Symmetry
CHECK_DEADLOCK FALSE
