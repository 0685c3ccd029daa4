SPECIFICATION HoldersSpec
CONSTANTS
    \* One run after the other, with two kills and an aborted turn anywhere.
    Runs <- TwoRuns
    ReviewRounds = 1
    Planned = {1}
    OverrideCap = 1
    MaxAborts = 1
    MaxKills = 2
    \* Three processes, at most two of them open at a time, dying at any step but
    \* those between the rename of a lock and its put-back; locks may outlive their day.
    Procs = {p1, p2, p3}
    Ghost = Ghost
    NoFile = NoFile
    Garbage = Garbage
    MaxAttempts = 3
    MaxAlive = 2
    InitialLocks <- MCInitialLocks
    CrashSteps <- MCCrashSteps
    MayAge = TRUE
    \* One model with one slot and a queue of three: the order of the grants.
    Threads = {t1, t2, t3, t4}
    Models = {a}
    NoModel = NoModel
    NoPolicy = NoPolicy
    NoBurst = NoBurst
    NoGroup = NoGroup
    Groups = {g}
    Priorities <- TwoClasses
    ContiguousDequeue = TRUE
    MaxInflightPerModel = 1
    MaxQueued = 3
    TaskQueueThreadMargin = 2
    MaxArrivals = 4
    \* Two items with a worktree each, two kills and a directory that vanishes.
    Members = {"i1", "i2"}
    MaxWork = 2
    MaxTreeKills = 2
    MaxLosses = 1
    \* A cell of either arm, two trials, and a death of the driver.
    Arms <- MCArms
    Reps = 1
    MaxTrials = 2
    MaxDeaths = 1
    \* Three files of two ranges, three commands, three kills and a bad answer.
    Parts <- MCParts
    Chunks = {1, 2}
    Weights = {"first", "second"}
    Digested = {"second"}
    MaxCommands = 3
    MaxInterrupts = 3
    MaxBadAnswers = 1
SYMMETRY MCSymmetry
INVARIANTS ItemsPrecedeTheState SingleWriter SomebodyWins
     CountedRowsAreOfTheirRun FilesAreWhole
PROPERTIES OvertakingIsBurstBounded CommitsSurvive
\* Runs and campaigns end, every process opens once, arrivals and commands run out.
CHECK_DEADLOCK FALSE
