\* One item, two asks and one cut, under the fairness of the process.
SPECIFICATION FairSpec
CONSTANTS
    Items = {i1}
    StageOrigins <- OneOrigin
    HumanChoices <- Machine
    MaxAsks = 2
    MaxCuts = 1
    MayFutile = TRUE
    OperatorAnswers = TRUE
INVARIANTS AnsweredRunIsRevived
PROPERTIES PassesCatchUp
CHECK_DEADLOCK FALSE
