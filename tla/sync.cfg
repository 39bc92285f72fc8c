CONSTANTS
    Threads = {t1, t2, t3, t4}
    NCount = 1
    NWait = 2
    NPost = 1
    SignalArgs <- MCDefault
    WaitArgs <- MCDefault
    Width = 256
    MaxPosts = 6
    Callers = {w1, w2, w3}
    Params = {w1, w2, w3}
    Workers = {w1, w2, w3}
    Main = main
    N = 3
    MaxRounds = 3
    MaxSignals = 3
    Leaving = {w3}
    Stations = {s1, s2}
    Boss = boss
    Loops = 4
SPECIFICATION MCSpec
CHECK_DEADLOCK FALSE
INVARIANTS UnitsSound OncePerSignal NoSleeperAtOpenGate
PROPERTIES ImplementsBarrier AllProceed
