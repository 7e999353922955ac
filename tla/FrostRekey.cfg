CONSTANTS
    s1 = s1
    s2 = s2
    s3 = s3
    k1 = k1
    k2 = k2
    k3 = k3
    Signer = {s1, s2}
    Key = {k1, k2}
    KeyIds <- OneKeyEach
    COORDINATOR = COORDINATOR
    Payload = {a, b}
    NoPayload = NoPayload
    Limit <- Limits
    MaxDkg = 2
    MaxSign = 1
    MaxOdd = 1
    MaxDup = 0
    MaxLost = 0
    MaxTimeout = 0
    MaxGiveUp = 0
    MaxRestart = 0
    FaultMix = {{"dup", "lost"}, {"timeout", "giveup", "restart"}}
SPECIFICATION Spec
SYMMETRY Symmetry
INVARIANTS KeyAgreement SignerStaysUp SigningSucceeds
CHECK_DEADLOCK FALSE
