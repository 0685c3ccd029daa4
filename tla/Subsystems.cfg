\* The parts that share no state, each on its own small instance.
SPECIFICATION Spec
CONSTANTS
    \* Processes that open one after the other, each dying at any step it likes.
    Procs = {p1, p2, p3}
    Ghost = Ghost
    NoFile = NoFile
    Garbage = Garbage
    MaxAttempts = 3
    MaxAlive = 1
    InitialLocks <- MCInitialLocks
    CrashSteps = {"claim", "verify", "read", "mint", "orphan", "clear", "reread", "exists",
                  "rename", "inspect", "putback", "discard", "drop", "held", "check", "delete"}
    MayAge = FALSE
    \* Three jobs of two models over two trees, one at a time; markers come and go.
    Jobs = {1, 2, 3}
    ModelOf <- MCModels
    TreeOf <- MCTrees
    WriteCapable = {1, 3}
    MaxReaders = 1
    MaxPrompts = 2
    MaxProvider = 1
    MaxMarkers = 2
    MarkersOutliveAPoll = FALSE
    \* Two runs that verify over two foreign files, a kill and two failing calls.
    Files = {f1, f2}
    Runs = {r1, r2}
    CrossDevice = TRUE
    MayRefill = TRUE
    MaxVerifies = 2
    MaxCrashes = 1
    MaxFaults = 2
    \* A user's session and one of the fan-out's about one item, and a restart.
    Sessions = {s1, s2}
    Prompted = {s1}
    Items = {"i1"}
    NoItem = "none"
    Behavioral = {"i1"}
    Housed = {}
    BranchPolicy = "pin"
    MaxOverridesPerItem = 1
    MaxOverridesPerRun = 2
    MaxRestarts = 1
    \* One start of the model's processes; the router crashes twice.
    MaxRelayExits = 2
    \* Four positions of a run; four events of any kind: moves, asks, turns, restarts.
    Signatures = {"start", "asks", "waits", "stuck"}
    Start = "start"
    Actionable = {"start", "asks"}
    Waits = {"waits"}
    Stuck = {"stuck"}
    Asking = {"asks", "waits"}
    FutileLimit = 2
    TurnLimit = 2
    SendLimit = 2
    TurnMemory = 2
    Asks = {"a1"}
    MaxEvents = 4
    \* Two processes, the second by the other's over-age lock or after its death; two test runs.
    Writers = {w1, w2}
    LatchTries = 2
    MaxRuns = 2
    MaxWriterKills = 1
    \* Queues of two and three items, two amendments of an accepted one, and a kill.
    Names <- MCNames
    Proposals <- MCProposals
    BehavioralSets <- MCBehavioralSets
    Tree <- MCTree
    ItemMaxFiles = 2
    OpLists <- MCOpLists
    Findings <- MCFindings
    MaxAmends = 2
    MaxKills = 1
    \* Three criteria of one item.
    WordKind <- MCWordKind
    Declared <- MCDeclared
    FileScope <- MCFileScope
    Criteria <- MCCriteria
    MaxCriteria = 3
    \* A chain of three items and a chain of two, both against the order of the ids.
    Accepted <- MCAccepted
    MaxQuestions = 2
    MaxLoad = 4
    NoOne = NoOne
    Nil = Nil
    \* A first setup with two readers, over two checkouts, three answers and three model servers.
    Ecosystems = {"node", "python"}
    FileKinds = {"node", "python", "doc", "meta"}
    Unmatchable = {"meta"}
    Checkouts <- MCCheckouts
    Answers <- MCAnswers
    Upstreams <- MCUpstreams
    WantedModels = {Nil}
    Readers = 2
    Absent = Absent
    Corrupt = Corrupt
    \* Five findings, two rounds of two skeptics, three kinds of diff, and a stash of the user's.
    Raisable <- MCRaisable
    Skeptics = 2
    ReviewMaxRounds = 2
    Changes <- MCChanges
    Stashes <- MCStashes
    MaxRaised = 2
    MaxReviews = 2
INVARIANTS LoneOpenerGetsIn SessionsInOrder FilesSurviveVerifies
    StraysAreOnRecord
    NothingIsLeftRunning RouterKnowsItsServer
    StopsOnlyAWedgedRun RefusalsAreAccountedFor
    NumbersAreIssuedOnce CriticsSeeTheLastRed
    QueuesAreExecutable AmendedItemsAreWhole FindingsReachTheirItems
    CountsTheThings
    NothingIsStranded DoneIsDone
    OutageFailsNoSetup TheConfigIsVouchedFor
    ApprovalIsOfTheTree DemandsCanBeMet
PROPERTY WaveEndsUnlessHeld
\* A wave, a run and an opener end, and nothing follows.
CHECK_DEADLOCK FALSE
