---------------------------- MODULE MCSubsystems ----------------------------
(* The parts of the system that share no state with each other, in one run:   *)
(* a behaviour explores one of them (`part`) and leaves the others as they    *)
(* started.  Each part is a module of its own, which holds its properties;    *)
(* only the values TLC takes for its constants are here.                      *)
EXTENDS WorkspaceLock, Fanout, Decompose, Gates, Quarantine, Serving, Idle, Evidence,
        Setup, ItemReview, Legality, Clusters, MCDecompose, MCClusters

VARIABLE part

\* What the modules assume of their constants.
ASSUME InstanceAssumptions == QuarantineAssumption /\ ServingAssumption

amendVars ==
    <<behavioralPaths, tries, candidate, queued, files, proven, applied, writing, orphans,
      amends, kills>>
sizeVars == <<acceptance>>
allVars ==
    <<part, lockVars, fanoutVars, quarantineVars, gateVars, servingVars,
      idleVars, evidenceVars, amendVars, sizeVars, legalityVars, setupVars, reviewVars>>

Init ==
    /\ part \in {"lock", "wave", "verifies", "gates", "keepers",
                "idle", "ledger", "queue", "size", "tools", "setup", "review"}
    /\ LockInit /\ FanoutInit /\ QuarantineInit
    /\ GatesInit
    /\ ServingInit /\ IdleInit
    /\ EvidenceInit
    /\ DecomposeInit
    /\ ClustersInit
    /\ LegalityInit
    /\ SetupInit
    /\ ItemReviewInit
    /\ lock # NoFile => part = "lock"
    /\ part # "keepers" => mode = "session"
    /\ part # "keepers" => mine /\ plan = "direct" /\ conf = NoConf
    /\ part # "queue" => behavioralPaths = CHOOSE b \in BehavioralSets : TRUE
    /\ part # "tools" => publishEnabled
    /\ part # "setup" => versioned /\ liveRun = "none" /\ checkout = CHOOSE c \in Checkouts : TRUE
    /\ part # "setup" => upstream = CHOOSE u \in Upstreams : u.up
    /\ part # "review" => change = {"created"}

\* Every part but p.
Rest(p) ==
    /\ IF p = "lock" THEN TRUE ELSE UNCHANGED lockVars
    /\ IF p = "wave" THEN TRUE ELSE UNCHANGED fanoutVars
    /\ IF p = "verifies" THEN TRUE ELSE UNCHANGED quarantineVars
    /\ IF p = "gates" THEN TRUE ELSE UNCHANGED gateVars
    /\ IF p = "keepers" THEN TRUE ELSE UNCHANGED servingVars
    /\ IF p = "idle" THEN TRUE ELSE UNCHANGED idleVars
    /\ IF p = "ledger" THEN TRUE ELSE UNCHANGED evidenceVars
    /\ IF p = "queue" THEN TRUE ELSE UNCHANGED amendVars
    /\ IF p = "size" THEN TRUE ELSE UNCHANGED sizeVars
    /\ IF p = "tools" THEN TRUE ELSE UNCHANGED legalityVars
    /\ IF p = "setup" THEN TRUE ELSE UNCHANGED setupVars
    /\ IF p = "review" THEN TRUE ELSE UNCHANGED reviewVars

Next ==
    /\ UNCHANGED part
    /\ \/ part = "lock" /\ LockNext /\ Rest("lock")
       \/ part = "wave" /\ FanoutNext /\ Rest("wave")
       \/ part = "verifies" /\ QuarantineNext /\ Rest("verifies")
       \/ part = "gates" /\ GatesNext /\ Rest("gates")
       \/ part = "keepers" /\ ServingNext /\ Rest("keepers")
       \/ part = "idle" /\ IdleNext /\ Rest("idle")
       \/ part = "ledger" /\ EvidenceNext /\ Rest("ledger")
       \/ part = "queue" /\ DecomposeNext /\ Rest("queue")
       \/ part = "size" /\ ClustersNext /\ Rest("size")
       \/ part = "tools" /\ LegalityNext /\ Rest("tools")
       \/ part = "setup" /\ SetupNext /\ Rest("setup")
       \/ part = "review" /\ ItemReviewNext /\ Rest("review")

\* Values for TLC.
\* The lock before the openers: none, an unreadable one, or that of a dead process.
MCInitialLocks == {NoFile, Garbage, GhostToken}
MCModels == <<"a", "b", "a">>
MCTrees == <<"main", "main", "item">>
MCAccepted ==
    {[dependsOn |-> <<{3}, {}, {2}>>, behavioral |-> {2}],
     [dependsOn |-> <<{2}, {}>>, behavioral |-> {}]}
\* A checkout of one ecosystem, and one of two with files that belong to neither.
MCCheckouts ==
    {[markers |-> {"node"}, missing |-> {"python"}, files |-> {"node", "doc", "meta"}],
     [markers |-> {"node", "python"}, missing |-> {}, files |-> {"python", "doc", "meta"}]}
MCAnswers ==
    {[mode |-> "commit", paths |-> {"node", "python"}, init |-> Nil, acknowledges |-> FALSE],
     [mode |-> "commit", paths |-> {"doc"}, init |-> "initialize", acknowledges |-> FALSE],
     [mode |-> Nil, paths |-> {}, init |-> "decline", acknowledges |-> TRUE]}
MCUpstreams ==
    {[up |-> TRUE, honours |-> TRUE, models |-> {"weights"}, slots |-> 2],
     [up |-> TRUE, honours |-> FALSE, models |-> {"weights", "others"}, slots |-> 1],
     [up |-> FALSE, honours |-> FALSE, models |-> {}, slots |-> 0]}
Raised(lens, severity, fix) == [lens |-> lens, severity |-> severity, fix |-> fix, prose |-> {}]
MCRaisable ==
    {Raised("spec/contract", "major", {"file"}), Raised("test-adequacy", "minor", {"file"}),
     Raised("minimality", "major", {}), Raised("correctness", "minor", {"file", "test"}),
     Raised("perf", "nit", {"file"})}
MCChanges == {{"edited", "blank", "removed", "binary"}, {"created"}, {"emptied", "edited"}}
MCStashes == {<<"user">>}

Spec ==
    /\ Init /\ [][Next]_allVars
    /\ WF_fanoutVars(part = "wave" /\ DispatchWave) /\ WF_fanoutVars(part = "wave" /\ Poll)
    /\ \A j \in Jobs : WF_fanoutVars(part = "wave" /\ Watchdog(j))
    /\ \A t \in Trees : SF_fanoutVars(part = "wave" /\ Thaw(t))
=============================================================================
