CONSTANTS
    in1 = in1
    out1 = out1
    in2 = in2
    out2 = out2
    in2b = in2b
    Op = {in1, out1, in2, in2b}
    block_height <- Height
    kind <- OpKind
    txid <- Tx
    StartHeights = {}
    Persistent = TRUE
    NoOp = NoOp
    MaxHeight = 2
    MaxStops = 2
    MaxUnknown = 1
    MaxReorgs = 1
SPECIFICATION FairSpec
INVARIANTS TypeOK AtMostOnce NothingMissed
PROPERTIES HandedInOrder EventuallyHanded
