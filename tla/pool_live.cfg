CONSTANTS
    rd = rd
    wr1 = wr1
    wr2 = wr2
    Read = Read
    Write = Write
    NoType = NoType
    NoTask = NoTask
    Free = Free
    Workers = {w1, w2}
    Clients = {c1}
    Tasks = {wr1, wr2}
    Types = {Write}
    TypeOf <- MCTypeOf
    KeyOf <- MCKeyOf
    Sync = {wr1}
    ThreadSum = 2
    MaxStops = 1
    Restart = FALSE
SPECIFICATION MCFairSpec
CHECK_DEADLOCK FALSE
PROPERTIES RequestsServed WorkersEnd
