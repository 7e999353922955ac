CONSTANTS
    s1 = s1
    s2 = s2
    s3 = s3
    k1 = k1
    k2 = k2
    k3 = k3
    Signer = {s1, s2}
    Key = {k1, k2, k3}
    KeyIds <- TwoAndOne
    COORDINATOR = COORDINATOR
    Payload = {a}
    NoPayload = NoPayload
    Limit <- Limits
    MaxDkg = 1
    MaxSign = 1
    MaxOdd = 1
    MaxDup = 0
    MaxLost = 0
    MaxTimeout = 0
    MaxGiveUp = 0
    MaxRestart = 0
    FaultMix = {{"dup", "lost"}, {"timeout", "giveup", "restart"}}
SPECIFICATION FairSpec
PROPERTY CommandsReturn
INVARIANTS TypeOK KeyAgreement PostsVerify SigningSucceeds
CHECK_DEADLOCK FALSE
