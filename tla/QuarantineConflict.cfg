\* One run that verifies twice; a test is written while its older version is away.
SPECIFICATION QuarantineSpec
CONSTANTS
    Files = {f1, f2}
    Runs = {r1}
    CrossDevice = FALSE
    MayRefill = TRUE
    MaxVerifies = 2
    MaxCrashes = 1
    MaxFaults = 0
INVARIANTS ConflictsAreKept
CHECK_DEADLOCK FALSE
