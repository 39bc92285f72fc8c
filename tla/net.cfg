CONSTANTS
    IoThreads = {t1}
    WinThreads = {t1, t2}
    Monitor = Monitor
    NoThread = NoThread
    ThreadCount = 2
    Socks = {s1, s2}
    MaxSessions = 2
    MaxLost = 1
    IocpThreads = {i1, i2}
    AcceptNodes = {1, 2}
    MaxSock = 3
    MaxPort = 2
    MaxQuits = 2
    AsFds = {f1}
    AsPool = {w1, w2}
    AsThreads = {c1}
    Cap = 2
    MaxConn = 2
    MaxReq = 2
    MaxTasks = 2
    MaxOut = 2
    MaxTcPort = 3
SPECIFICATION MCSpec
SYMMETRY MCSymmetry
CHECK_DEADLOCK FALSE
INVARIANTS NetTypeOK ClientsCovered SleeperHasNoClient DeadUseKnown RequestOnce 
