CONSTANTS
    ADDRESS = ADDRESS
    STRANGER = STRANGER
    None = None
    in1 = in1
    out1 = out1
    out2 = out2
    bad1 = bad1
    bad2 = bad2
    Op = {in1, out1, out2, bad1, bad2}
    Detail <- MCDetail
    World <- MCWorld
    Signers <- MCSigners
    DUST = 2
    JsonSize = {1, 2}
    MAX_NONCE_RETRIES = 1
    MAX_FEE_RETRIES = 2
    MaxFee = 2
    MaxNonce = 12
    MaxDkg = 4
    MaxStarts = 2
    MaxFaults = 1
SPECIFICATION FairSpec
PROPERTIES  EverythingSettles
INVARIANTS TypeOK NoNonceGap NoRepeatedTransaction HandledInFull UnbuildableIsNotBroadcast FulfilmentBalanced OrderIrrelevant KeyRecoverable
CHECK_DEADLOCK FALSE
