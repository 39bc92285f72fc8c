CONSTANTS
    Hdr = 2
    SendCap = 8
    Trans = 5
    NSend = 2
    PkgLens = {0, 1, 2, 5, 15}
    MaxPkgs = 4
    RecvCap = 12
    NRecv = 3
    Streams <- MCStreams
SPECIFICATION MCSpec
CHECK_DEADLOCK FALSE
INVARIANTS SessionTypeOK  InOrder Listening
 
