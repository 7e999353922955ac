\* Two calls, each on its own connection; at most one connection breaks.
CONSTANTS
    NumConn = 2
    Id = {"a"}
    NoId = "none"
    Symbol = {"CR", "LF", ":"}
    Content <- ConstContent
    MaxLength = 4
    MaxCuts = 1
SPECIFICATION FairSpec
INVARIANT TypeOK
INVARIANT WireIsTransparent
INVARIANT FailsOnlyIfCut
PROPERTY CallsReturn
CHECK_DEADLOCK FALSE
