\* Two listener threads, two models over a budget of one, one slot and a queue of one: a relay whose
\* client leaves, a POST that waits for its slot, and requests that pass no admission.
SPECIFICATION BothSpec
CONSTANTS
    Threads = {t1, t2}
    Models = {a, b}
    NoModel = NoModel
    NoPolicy = NoPolicy
    NoBurst = NoBurst
    NoGroup = NoGroup
    Groups = {}
    Priorities <- MCOnePriority
    ContiguousDequeue = TRUE
    MaxInflightPerModel = 1
    MaxQueued = 1
    TaskQueueThreadMargin = 1
    MaxArrivals = 2
    HighWater = 0
    MaxChunks = 2
    RejectOnMissing = TRUE
    \* Three ledger lines, short or above the viewer's ceiling, two files and a kill.
    Sizes = {2, 4}
    CarryCeiling = 2
    MaxRecords = 3
    MaxFiles = 2
    MaxKills = 1
INVARIANTS CleanEndIsTheWholeAnswer UpstreamWorkIsAdmitted OneLineWhenTheAnswerEnds
    EveryLineIsCounted
PROPERTIES EveryThreadComesBack
