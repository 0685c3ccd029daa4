\* Three processes open at once, none of which dies.
SPECIFICATION LockSpec
CONSTANTS
    Procs = {p1, p2, p3}
    Ghost = Ghost
    NoFile = NoFile
    Garbage = Garbage
    MaxAttempts = 3
    MaxAlive = 3
    InitialLocks <- MCAnyLock
    CrashSteps = {}
    MayAge = FALSE
INVARIANTS SingleWriter
CHECK_DEADLOCK FALSE
