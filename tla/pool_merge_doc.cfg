CONSTANTS
    rd = rd
    wr1 = wr1
    wr2 = wr2
    Read = Read
    Write = Write
    NoType = NoType
    NoTask = NoTask
    Free = Free
    Workers = {w1}
    Clients = {c1, c2}
    Tasks = {rd, wr1, wr2}
    Types = {Read, Write}
    TypeOf <- MCTypeOf
    KeyOf <- MCKeyOf
    Sync = {rd}
    ThreadSum = 1
    MaxStops = 0
    Restart = FALSE
SPECIFICATION MCSpec
CHECK_DEADLOCK FALSE
SYMMETRY MCSymmetry
INVARIANTS MergeSameType
