CONSTANTS
    Threads = {t1, t2}
    InitSize = 2
    MaxN = 1
    MaxCap = 4
    MaxResets = 0
    UseLock = TRUE
    Width = 65536
    Nobody = Nobody
SPECIFICATION Spec
CHECK_DEADLOCK FALSE
INVARIANTS NoSharing
