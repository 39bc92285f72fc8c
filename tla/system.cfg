CONSTANTS
    MaxText = 3
    MaxArgs = 3
    DestLen = 4
    MaxRows = 2
    ConnSlots = {1, 2}
    ConnSize = 1
    MaxConnOps = 3
    TreeRoot = "base"
    StParent <- MCParents
    MaxTreeOps = 2
    MsApps = {a1}
    MaxMsTicks = 2
    MaxMsAdds = 3
    TimerNames = {n1, n2}
    MaxWinTimers = 3
    WinClients = {c1, c2}
    WinWorkers = {w1, w2}
    SemLimit = 1
    MaxWinJobs = 3
    CtrlWorkers = {b1, b2, b3}
    UnitLimit = 2
    MaxWinRounds = 3
    ClockStarts <- MCStarts
    ClockTexts <- MCTexts
    ClockSeconds <- MCSeconds
    ClockDays <- MCDays
    ClockMonths <- MCMonths
    ClockYears <- MCYears
    MaxClockOps = 2
    SvNames = {n1, n2}
    MaxService = 4
    MaxSvCalls = 6
    MaxSvControls = 2
SPECIFICATION MCSpec
SYMMETRY MCSymmetry
CHECK_DEADLOCK FALSE
INVARIANTS SystemTypeOK  DatabaseClosed   WinSound
