SPECIFICATION FairSpec
CONSTANTS
    l1 = l1
    x = x
    y = y
    Tids = {x, y}
    Loops = {l1, l2}
    Runners = {r1}
    Commanders = {bot}
    Interval = 3
    Ttl = 1
    Pause = 1
    ErrorPause = 2
    Settings <- Cases
    None = None
INVARIANTS TypeOK ConfirmedIsKept
PROPERTIES NotTooSoon RunsAgain StopEndsLoops
