\* Two models of two slots over a budget of one, a queue of two, two classes, a prefix
\* group beside untagged requests, and arrivals that never stop.  Five threads are the
\* task queue of this instance: 2 + 2 + 1.
SPECIFICATION EndlessSpec
CONSTANTS
    Threads = {t1, t2, t3, t4, t5}
    Models = {a, b}
    NoModel = NoModel
    NoPolicy = NoPolicy
    NoBurst = NoBurst
    NoGroup = NoGroup
    Groups = {g}
    Priorities <- MCTwoClasses
    ContiguousDequeue = TRUE
    MaxInflightPerModel = 2
    MaxQueued = 2
    TaskQueueThreadMargin = 1
    MaxArrivals = 4
INVARIANTS ThreadBudget
PROPERTIES PoolSpec NoWaiterIsForgotten
