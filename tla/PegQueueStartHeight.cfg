CONSTANTS
    in1 = in1
    out1 = out1
    in2 = in2
    out2 = out2
    in2b = in2b
    Op = {in1, out1, in2}
    block_height <- Height
    kind <- OpKind
    txid <- Tx
    StartHeights = {1}
    Persistent = TRUE
    NoOp = NoOp
    MaxHeight = 2
    MaxStops = 1
    MaxUnknown = 0
    MaxReorgs = 0
SPECIFICATION Spec
INVARIANT AtMostOnce

