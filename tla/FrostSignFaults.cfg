CONSTANTS
    s1 = s1
    s2 = s2
    s3 = s3
    k1 = k1
    k2 = k2
    k3 = k3
    Signer = {s1, s2}
    Key = {k1, k2}
    KeyIds <- OneKeyEach
    COORDINATOR = COORDINATOR
    Payload = {a, b}
    NoPayload = NoPayload
    Limit <- Limits
    MaxDkg = 0
    MaxSign = 2
    MaxOdd = 0
    MaxDup = 1
    MaxLost = 1
    MaxTimeout = 1
    MaxGiveUp = 1
    MaxRestart = 1
    FaultMix = {{"dup", "lost"}, {"timeout", "giveup"}, {"restart"}}
SPECIFICATION KeyedSpec
SYMMETRY Symmetry
INVARIANTS NonceFreshness
CHECK_DEADLOCK FALSE
