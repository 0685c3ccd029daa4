SPECIFICATION SetupSpec
\* The smallest place where a process keeps what it read before setup wrote.
CONSTANTS
    Ecosystems <- MCEcosystems
    FileKinds <- MCFileKinds
    Unmatchable <- MCUnmatchable
    Checkouts <- MCOneCheckout
    Answers <- MCAnswers
    Upstreams <- MCUpstreams
    WantedModels <- MCWantedModels
    Readers = 2
    Absent = Absent
    Corrupt = Corrupt
    Nil = Nil
INVARIANTS GateAndSetupAgree
CHECK_DEADLOCK FALSE
