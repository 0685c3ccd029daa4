\* Two items, one of them with a test, worked on alone or in one wave; sub-sessions,
\* the operator and a kill may change the tree or the blocks at any moment.
SPECIFICATION FairSpec
CONSTANTS
    Items <- TwoItems
    Behavioral = {1}
    DependsOn <- Independent
    Overlaps = {}
    MaxImplementers = 2
    RepairCap = 1
    VetCap = 2
    AttemptBudget = 1
    DebugCap = 1
    ReviewCap = 2
    CommitChoices <- Either
    OperatorEdits = TRUE
PROPERTIES EveryCallReturns
