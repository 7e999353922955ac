CONSTANTS
    s1 = s1
    s2 = s2
    s3 = s3
    k1 = k1
    k2 = k2
    k3 = k3
    Signer = {s1, s2, s3}
    Key = {k1, k2, k3}
    KeyIds <- ThreeSigners
    COORDINATOR = COORDINATOR
    Payload = {a, b}
    NoPayload = NoPayload
    Limit <- Limits
    Threshold = 2
    MaxDkg = 0
    MaxSign = 1
    MaxOdd = 0
    MaxDup = 0
    MaxLost = 0
    MaxTimeout = 1
    MaxGiveUp = 1
    MaxRestart = 0
    FaultMix = {{"dup", "lost"}, {"timeout", "giveup", "restart"}}
SPECIFICATION KeyedSpec
PROPERTY ThresholdSuffices
CHECK_DEADLOCK FALSE
