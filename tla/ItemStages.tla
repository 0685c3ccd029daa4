----------------------------- MODULE ItemStages -----------------------------
(***************************************************************************)
(* The item pipeline of a run at EXECUTING, with parallel.writes "off":    *)
(* every item is worked on in the one workspace tree.  The orchestrator    *)
(* calls one stage tool, or conductor_dispatch_wave, which takes several   *)
(* items through stage after stage.  A stage handler runs to its next      *)
(* await and goes on when the sub-session it dispatched replies; the       *)
(* handlers of one wave interleave there and nowhere else.                 *)
(*                                                                         *)
(* What a writer's test or a verify does is an input.  Of the tree only    *)
(* this is kept: which test files exist, and whether what an item's        *)
(* evidence was produced on is still what is there.                        *)
(***************************************************************************)
EXTENDS Integers, FiniteSets

CONSTANTS
  Items,            \* the queue, numbered in wave order: DAG depth, then id
  Behavioral,       \* the items that owe a proven red first
  DependsOn,        \* item -> the items it depends on
  Overlaps,         \* pairs {i, j} whose file scopes may intersect
  MaxImplementers,  \* parallel.maxImplementers
  RepairCap,        \* workflow.testRepairAttempts
  VetCap,           \* workflow.vetMaxRounds
  AttemptBudget,    \* workflow.implementerAttempts
  DebugCap,         \* workflow.debugFixCap
  ReviewCap,        \* workflow.reviewMaxRounds
  CommitChoices,    \* may publish commit?  {FALSE} is git.mode "read-only"
  OperatorEdits     \* does a human, or an override, edit the tree meanwhile?

ASSUME ItemsAssumption ==
  /\ Items \subseteq Nat
  /\ IsFiniteSet(Items)
  /\ Behavioral \subseteq Items
  /\ DependsOn \in [Items -> SUBSET Items]
  /\ {MaxImplementers, VetCap, ReviewCap, AttemptBudget} \subseteq Nat \ {0}
  /\ {RepairCap, DebugCap} \subseteq Nat
  /\ CommitChoices \subseteq BOOLEAN
  /\ OperatorEdits \in BOOLEAN

VARIABLES
  state,     \* item.state
  blocked,   \* items with item.blocked # null
  attempts,  \* item.attempts.green
  tests,     \* items whose test file is in the tree
  drifted,   \* items whose test is not the one item.vettedTests records
  proof,     \* what item.evidence.validated describes: nothing, the tree, or a
             \* tree with other files in the item's scope, or another HEAD
  job,       \* the sub-session an item's running handler awaits
  call,      \* the tool call in progress
  measured,  \* history: items whose scope and HEAD are as a green verify had them
  fouled,    \* history: items whose last verify ran a red test of another item
  implemented \* history: implementer dispatches conductor_mark_green made

files == <<tests, drifted>>
history == <<measured, fouled, implemented>>
vars == <<state, blocked, attempts, files, proof, job, call, history>>

ItemStates == {"PENDING", "RED", "TEST_VETTED", "GREEN", "VALIDATED", "REVIEWED",
               "PUBLISHED"}
BelowGreen == {"PENDING", "RED", "TEST_VETTED"}
Tools == {"submit_test", "vet_test", "mark_green", "validate", "item_review", "publish"}
SerialStages == {"submit_test", "mark_green", "publish"}

\* Sub-sessions a handler may await; those of Writers edit the tree.
Writers == {"writer", "vetWriter", "implementer", "fixer", "reviewWriter", "reviewImplementer"}
Readers == {"critics", "panel", "revet"}
Proofs == {"none", "current", "edited", "moved"}

Jobs == [awaits : {"nobody"} \cup Writers \cup Readers, round : Nat,
         excluded : SUBSET Items]
Calls == [wave : BOOLEAN, active : SUBSET Items, entered : SUBSET Tools, todo : SUBSET Items]

Idle == [awaits |-> "nobody", round |-> 0, excluded |-> {}]
NoCall == [wave |-> FALSE, active |-> {}, entered |-> {}, todo |-> {}]

Init ==
  /\ state = [i \in Items |-> "PENDING"]
  /\ blocked = {}
  /\ attempts = [i \in Items |-> 0]
  /\ tests = {}
  /\ drifted = {}
  /\ proof = [i \in Items |-> "none"]
  /\ job = [i \in Items |-> Idle]
  /\ call = NoCall
  /\ measured = {}
  /\ fouled = {}
  /\ implemented = [i \in Items |-> 0]

----------------------------------------------------------------------------
(* What the phase gate offers. *)

NextStageTool(i) ==
  CASE state[i] = "PENDING" /\ i \in Behavioral    -> "submit_test"
    [] state[i] = "PENDING" /\ i \notin Behavioral -> "mark_green"
    [] state[i] = "RED"                            -> "vet_test"
    [] state[i] = "TEST_VETTED"                    -> "mark_green"
    [] state[i] = "GREEN"                          -> "validate"
    [] state[i] = "VALIDATED"                      -> "item_review"
    [] OTHER                                       -> "publish"

DepsReady(i) == \A j \in DependsOn[i] : state[j] = "PUBLISHED"
Offered(i) == state[i] # "PUBLISHED" /\ i \notin blocked /\ DepsReady(i)
Candidates == {i \in Items : Offered(i)}

\* The greedy choice in wave order: a candidate joins iff there is room and its
\* scope meets no earlier member's.
IsWave(W) ==
  /\ W \subseteq Candidates
  /\ \A i \in Candidates :
       LET earlier == {j \in W : j < i}
       IN  i \in W <=> /\ Cardinality(earlier) < MaxImplementers
                       /\ \A j \in earlier : {i, j} \notin Overlaps

\* The test files of other items below GREEN that are in the tree.
ForeignRedSet(i) == {j \in tests \ {i} : state[j] \in BelowGreen}

----------------------------------------------------------------------------
(* The tool call: one stage, or a wave that goes from group to group. *)

CallStage(i) ==
  /\ call = NoCall
  /\ Offered(i)
  /\ call' = [NoCall EXCEPT !.todo = {i}]
  /\ UNCHANGED <<state, blocked, attempts, files, proof, job, history>>

DispatchWave ==
  /\ call = NoCall
  /\ Candidates # {}
  /\ \E W \in SUBSET Candidates :
       /\ IsWave(W)
       /\ call' = [NoCall EXCEPT !.wave = TRUE, !.active = W]
  /\ UNCHANGED <<state, blocked, attempts, files, proof, job, history>>

\* A member goes on while the gate offers it a tool that no earlier group had.
GoesOn(i) == Offered(i) /\ NextStageTool(i) \notin call.entered

NextGroup ==
  /\ call.wave
  /\ call.todo = {}
  /\ LET next == {i \in call.active : GoesOn(i)}
     IN  call' = IF next = {} THEN NoCall
                 ELSE [call EXCEPT !.active = next, !.todo = next,
                                   !.entered = @ \cup {NextStageTool(i) : i \in next}]
  /\ UNCHANGED <<state, blocked, attempts, files, proof, job, history>>

AfterEveryMember(i) ==
  NextStageTool(i) \in SerialStages =>
    \A j \in call.active : j < i => NextStageTool(j) \notin SerialStages

\* Serial stages of a group are chained; the others start with the group.
TurnHasCome(i) ==
  NextStageTool(i) \in SerialStages =>
    \A j \in call.todo : j < i => NextStageTool(j) \notin SerialStages

Due(i) == i \in call.todo /\ job[i] = Idle /\ TurnHasCome(i)

\* Stages start without an await between them, so nothing else runs meanwhile.
Starting == \E i \in call.todo : Due(i)
Starts(i, tool) ==
  /\ Due(i)
  /\ \A j \in call.todo : Due(j) => i <= j
  /\ Offered(i)
  /\ NextStageTool(i) = tool

Replied(i, role) == job[i].awaits = role /\ ~Starting

Await(i, role, round, excluded) ==
  /\ job' = [job EXCEPT ![i] = [awaits |-> role, round |-> round, excluded |-> excluded]]
  /\ UNCHANGED call

\* The handler returns or throws; a wave drops the member unless it returned ok.
Settle(i, ok) ==
  /\ job' = [job EXCEPT ![i] = Idle]
  /\ call' = IF ~call.wave THEN NoCall
             ELSE [call EXCEPT !.todo = @ \ {i}, !.active = IF ok THEN @ ELSE @ \ {i}]

Return(i, ok) == Settle(i, ok) /\ UNCHANGED <<state, blocked>>
Advance(i, to) == Settle(i, TRUE) /\ state' = [state EXCEPT ![i] = to] /\ UNCHANGED blocked
AskAndBlock(i) == Settle(i, FALSE) /\ blocked' = blocked \cup {i} /\ UNCHANGED state

\* The FSM re-reads item.blocked and makes the handler throw if it is set.
AdvanceUnlessBlocked(i, to) ==
  IF i \in blocked THEN Return(i, FALSE) ELSE Advance(i, to)

----------------------------------------------------------------------------
(* conductor_submit_test: PENDING -> RED. *)

StartSubmitTest(i) ==
  /\ Starts(i, "submit_test")
  /\ Await(i, "writer", 0, {})
  /\ UNCHANGED <<state, blocked, attempts, files, proof, history>>

\* A test that passes is refused, a legal red is recorded whether or not the item
\* is blocked by now, a broken test is repaired while the budget lasts.
SubmittedTest(i) ==
  /\ Replied(i, "writer")
  /\ \/ AskAndBlock(i)
     \/ Return(i, FALSE)
     \/ i \in tests /\ Advance(i, "RED")
     \/ /\ job[i].round < RepairCap
        /\ Await(i, "writer", job[i].round + 1, {})
        /\ UNCHANGED <<state, blocked>>
  /\ UNCHANGED <<attempts, files, proof, history>>

(* conductor_vet_test: RED -> TEST_VETTED. *)

\* A red that is no longer the item's last record is run again; it may be gone.
StartVetTest(i) ==
  /\ Starts(i, "vet_test")
  /\ \/ Await(i, "critics", 1, {}) /\ UNCHANGED <<state, blocked>>
     \/ AskAndBlock(i)
  /\ UNCHANGED <<attempts, files, proof, history>>

CriticsReplied(i) ==
  /\ Replied(i, "critics")
  /\ \/ AdvanceUnlessBlocked(i, "TEST_VETTED") /\ drifted' = drifted \ {i}
     \/ /\ IF job[i].round >= VetCap THEN AskAndBlock(i)
           ELSE Await(i, "vetWriter", job[i].round, {}) /\ UNCHANGED <<state, blocked>>
        /\ UNCHANGED drifted
  /\ UNCHANGED <<attempts, tests, proof, history>>

RepairedTest(i) ==
  /\ Replied(i, "vetWriter")
  /\ \/ AskAndBlock(i)
     \/ Await(i, "critics", job[i].round + 1, {}) /\ UNCHANGED <<state, blocked>>
  /\ UNCHANGED <<attempts, files, proof, history>>

(* conductor_mark_green: TEST_VETTED -> GREEN, or PENDING -> GREEN when the item
   is not behavioral.  The attempt is saved before the dispatch it pays for. *)

BudgetSpent(i) == attempts[i] >= AttemptBudget
CountedBeforeDispatch(i) == [attempts EXCEPT ![i] = @ + 1]

StartMarkGreen(i) ==
  /\ Starts(i, "mark_green")
  /\ IF BudgetSpent(i)
     THEN AskAndBlock(i) /\ UNCHANGED <<attempts, implemented>>
     ELSE /\ attempts' = CountedBeforeDispatch(i)
          /\ implemented' = [implemented EXCEPT ![i] = @ + 1]
          /\ Await(i, "implementer", 0, {})
          /\ UNCHANGED <<state, blocked>>
  /\ UNCHANGED <<files, proof, measured, fouled>>

\* A mutant of VettedTestStands: some test of the item is there.
SomeTestStands(i) == i \in tests

VettedTestStands(i) == i \notin drifted

\* The vetted test must be the one that is there, and pass.
Implemented(i) ==
  /\ Replied(i, "implementer")
  /\ \/ AskAndBlock(i)
     \/ i \notin Behavioral /\ AdvanceUnlessBlocked(i, "GREEN")
     \/ i \in Behavioral /\ VettedTestStands(i) /\ AdvanceUnlessBlocked(i, "GREEN")
     \/ i \in Behavioral /\ VettedTestStands(i) /\ Return(i, FALSE)
  /\ UNCHANGED <<attempts, files, proof, history>>

----------------------------------------------------------------------------
(* conductor_validate: GREEN -> VALIDATED.  The tests to exclude are computed
   once, when the stage starts, and serve every verify of the call. *)

\* A verify of i's scopes with the tests of excluded out of the way.
Verify(i, excluded, green) ==
  /\ measured' = IF green THEN measured \cup {i} ELSE measured
  /\ fouled' = IF ForeignRedSet(i) \subseteq excluded THEN fouled \ {i} ELSE fouled \cup {i}

VerifyAndValidate(i, excluded, fixes) ==
  \E green \in BOOLEAN :
    /\ Verify(i, excluded, green)
    /\ \/ /\ green
          /\ AdvanceUnlessBlocked(i, "VALIDATED")
          /\ proof' = [proof EXCEPT ![i] = IF i \in blocked THEN @ ELSE "current"]
       \/ /\ ~green /\ fixes >= DebugCap
          /\ AskAndBlock(i)
          /\ UNCHANGED proof
       \/ /\ ~green /\ fixes < DebugCap
          /\ Await(i, "fixer", fixes + 1, excluded)
          /\ UNCHANGED <<state, blocked, proof>>
    /\ UNCHANGED <<attempts, files, implemented>>

StartValidate(i) ==
  /\ Starts(i, "validate")
  /\ VerifyAndValidate(i, ForeignRedSet(i), 0)

FixerReplied(i) ==
  /\ Replied(i, "fixer")
  /\ VerifyAndValidate(i, job[i].excluded, job[i].round)

(* conductor_item_review: VALIDATED -> REVIEWED.  A fix pass may dispatch its
   sub-session up to three times; what a repeat can do, a longer one can. *)

StartItemReview(i) ==
  /\ Starts(i, "item_review")
  /\ Await(i, "panel", 1, ForeignRedSet(i))
  /\ UNCHANGED <<state, blocked, attempts, files, proof, history>>

GoOn(i, role) ==
  /\ Await(i, role, job[i].round, job[i].excluded)
  /\ UNCHANGED <<state, blocked>>

PanelReplied(i) ==
  /\ Replied(i, "panel")
  /\ \/ AdvanceUnlessBlocked(i, "REVIEWED")
     \/ \E role \in {"reviewWriter", "reviewImplementer"} : GoOn(i, role)
  /\ UNCHANGED <<attempts, files, proof, history>>

\* A changed test must still fail without the implementation.
ReviewWriterReplied(i) ==
  /\ Replied(i, "reviewWriter")
  /\ AskAndBlock(i) \/ GoOn(i, "revet")
  /\ UNCHANGED <<attempts, files, proof, history>>

\* Every finding fixed or refuted is verified again before the next panel; at the
\* cap the item advances only if none survives.  The record of validate stays.
Revalidate(i) ==
  /\ \E green \in BOOLEAN :
       /\ Verify(i, job[i].excluded, green)
       /\ \/ ~green /\ Return(i, FALSE)
          \/ /\ green /\ job[i].round < ReviewCap
             /\ Await(i, "panel", job[i].round + 1, job[i].excluded)
             /\ UNCHANGED <<state, blocked>>
          \/ green /\ job[i].round >= ReviewCap /\ AdvanceUnlessBlocked(i, "REVIEWED")
          \/ green /\ job[i].round >= ReviewCap /\ AskAndBlock(i)
  /\ UNCHANGED implemented

RevetReplied(i) ==
  /\ Replied(i, "revet")
  /\ \/ AskAndBlock(i) /\ UNCHANGED history
     \/ GoOn(i, "reviewImplementer") /\ UNCHANGED history
     \/ Revalidate(i)
  /\ UNCHANGED <<attempts, files, proof>>

ReviewImplementerReplied(i) ==
  /\ Replied(i, "reviewImplementer")
  /\ \/ AskAndBlock(i) /\ UNCHANGED history
     \/ Revalidate(i)
  /\ UNCHANGED <<attempts, files, proof>>

----------------------------------------------------------------------------
(* conductor_publish: REVIEWED -> PUBLISHED, or back to GREEN.  No await. *)

\* Nothing is published over another HEAD, nor over the human's uncommitted work.
RefusePublish(i) ==
  /\ Starts(i, "publish")
  /\ \/ proof[i] \in {"none", "moved"} /\ Return(i, FALSE)
     \/ proof[i] \in {"current", "edited"} /\ AskAndBlock(i)
  /\ UNCHANGED <<attempts, files, proof, history>>

\* i's scope no longer holds what its evidence was produced on.
ProofEdited(i) == [proof EXCEPT ![i] = IF @ = "current" THEN "edited" ELSE @]

\* A commit moves HEAD under every other item's evidence.
HeadMoved(keep) ==
  [j \in Items |-> IF j \in keep \/ proof[j] = "none" THEN proof[j] ELSE "moved"]

\* A mutant of Fresh: judged before the format rules touched the files.
FreshBeforeFormat(i, formatted) == proof[i] = "current"

\* Is the evidence about the files that are about to be committed?
Fresh(i, formatted) == proof[i] = "current" /\ ~formatted

\* What the format rules leave of the evidence and of what was measured.
Still(i, formatted) == IF formatted THEN ProofEdited(i) ELSE proof
Held(i, formatted) == IF formatted THEN measured \ {i} ELSE measured

\* Fresh evidence, or a green re-verify.
Remeasured(i, formatted, fresh) ==
  IF fresh THEN Held(i, formatted) ELSE Held(i, formatted) \cup {i}

\* A rule, git add or git commit fails, before or after a re-verify.
PublishFails(i, formatted, fresh, green) ==
  /\ Return(i, FALSE)
  /\ proof' = Still(i, formatted)
  /\ measured' = IF green THEN Remeasured(i, formatted, fresh) ELSE Held(i, formatted)
  /\ UNCHANGED fouled

\* demoteReviewedToGreen(): a red re-verify takes the item back to validate.
PublishDemotes(i, formatted) ==
  /\ Settle(i, FALSE)
  /\ state' = [state EXCEPT ![i] = "GREEN"]
  /\ proof' = Still(i, formatted)
  /\ measured' = Held(i, formatted)
  /\ fouled' = fouled \ {i}
  /\ UNCHANGED blocked

PublishAdvances(i, formatted, fresh, commits) ==
  /\ commits \in CommitChoices
  /\ Advance(i, "PUBLISHED")
  /\ proof' = IF commits THEN HeadMoved({i}) ELSE Still(i, formatted)
  /\ measured' = IF commits THEN Remeasured(i, formatted, fresh) \cap {i}
                            ELSE Remeasured(i, formatted, fresh)
  /\ fouled' = IF fresh THEN fouled ELSE fouled \ {i}

\* The format rules run first and may change the files; then freshness is judged,
\* and stamps too coarse or a staged deletion may call fresh evidence stale.
Publish(i) ==
  /\ Starts(i, "publish")
  /\ proof[i] \in {"current", "edited"}
  /\ \E formatted, doubt, green, commits \in BOOLEAN :
       LET fresh == Fresh(i, formatted) /\ ~doubt
       IN  \/ PublishFails(i, formatted, fresh, green)
           \/ ~fresh /\ ~green /\ PublishDemotes(i, formatted)
           \/ (fresh \/ green) /\ PublishAdvances(i, formatted, fresh, commits)
  /\ UNCHANGED <<attempts, files, implemented>>

----------------------------------------------------------------------------
(* What goes on around the handlers. *)

\* The gate offers the tool no more when the stage's turn comes.
StageRefused(i) ==
  /\ Due(i)
  /\ \A j \in call.todo : Due(j) => i <= j
  /\ ~Offered(i)
  /\ Return(i, FALSE)
  /\ UNCHANGED <<attempts, files, proof, history>>

\* A sub-session of i at work: a writer's test appears, or files of the scope change.
SubSessionEdits(i) ==
  /\ job[i].awaits \in Writers
  /\ ~Starting
  /\ tests' = IF job[i].awaits \in {"writer", "vetWriter"} THEN tests \cup {i} ELSE tests
  /\ proof' = ProofEdited(i)
  /\ measured' = measured \ {i}
  /\ UNCHANGED <<state, blocked, attempts, drifted, job, call, fouled, implemented>>

\* A sub-session asks with conductor_surface, naming an item.
SubSessionSurfaces(i) ==
  /\ \E j \in Items : job[j].awaits # "nobody"
  /\ ~Starting
  /\ blocked' = blocked \cup {i}
  /\ UNCHANGED <<state, attempts, files, proof, job, call, history>>

\* The environment fails the sub-session, or its watchdog does; the handler throws.
SubSessionFails(i) ==
  /\ job[i].awaits # "nobody"
  /\ ~Starting
  /\ Return(i, FALSE)
  /\ UNCHANGED <<attempts, files, proof, history>>

\* The question that blocks i is answered, between two calls.
Answer(i) ==
  /\ call = NoCall
  /\ i \in blocked
  /\ blocked' = blocked \ {i}
  /\ UNCHANGED <<state, attempts, files, proof, job, call, history>>

\* A human, or a run override, changes the files of i's scopes, its test included.
OperatorEdit(i) ==
  /\ OperatorEdits
  /\ drifted' = IF state[i] = "TEST_VETTED" THEN drifted \cup {i} ELSE drifted
  /\ proof' = ProofEdited(i)
  /\ measured' = measured \ {i}
  /\ UNCHANGED <<state, blocked, attempts, tests, job, call, fouled, implemented>>

\* Files survive a kill; a kill inside publish may leave the commit without the
\* state it was to be followed by.
Crash ==
  /\ call # NoCall
  /\ job' = [i \in Items |-> Idle]
  /\ call' = NoCall
  /\ \/ UNCHANGED <<proof, measured>>
     \/ /\ TRUE \in CommitChoices
        /\ \E i \in call.todo : Due(i) /\ NextStageTool(i) = "publish" /\ Offered(i)
        /\ proof' = HeadMoved({})
        /\ measured' = {}
  /\ UNCHANGED <<state, blocked, attempts, files, fouled, implemented>>

----------------------------------------------------------------------------
Starter(i) ==
  \/ StartSubmitTest(i) \/ StartVetTest(i) \/ StartMarkGreen(i) \/ StartValidate(i)
  \/ StartItemReview(i) \/ RefusePublish(i) \/ Publish(i) \/ StageRefused(i)

Reply(i) ==
  \/ SubmittedTest(i) \/ CriticsReplied(i) \/ RepairedTest(i) \/ Implemented(i)
  \/ FixerReplied(i) \/ PanelReplied(i) \/ ReviewWriterReplied(i) \/ RevetReplied(i)
  \/ ReviewImplementerReplied(i) \/ SubSessionFails(i)

Next ==
  \/ \E i \in Items : CallStage(i) \/ Starter(i) \/ Reply(i)
  \/ DispatchWave \/ NextGroup
  \/ \E i \in Items : SubSessionEdits(i) \/ SubSessionSurfaces(i)
  \/ \E i \in Items : Answer(i) \/ OperatorEdit(i)
  \/ Crash

\* A dispatched sub-session replies or its watchdog ends it; the code between two
\* awaits runs on.
Fairness == WF_vars(NextGroup) /\ \A i \in Items : WF_vars(Starter(i)) /\ WF_vars(Reply(i))

Spec == Init /\ [][Next]_vars
FairSpec == Spec /\ Fairness

----------------------------------------------------------------------------
TypeOK ==
  /\ state \in [Items -> ItemStates]
  /\ blocked \subseteq Items
  /\ attempts \in [Items -> 0..AttemptBudget]
  /\ tests \subseteq Items
  /\ drifted \subseteq Items
  /\ proof \in [Items -> Proofs]
  /\ job \in [Items -> Jobs]
  /\ call \in Calls
  /\ measured \subseteq Items
  /\ fouled \subseteq Items
  /\ implemented \in [Items -> Nat]

\* A blocked item makes no transition, whatever blocked it while a handler was
\* waiting for a sub-session, except that submit_test records the red it got.
BlockedStandsStill ==
  [][\A i \in Items :
       i \in blocked /\ state'[i] # state[i] => state[i] = "PENDING" /\ state'[i] = "RED"]_vars

\* What is published is what a green verify ran on: no edit, format rule or
\* foreign commit came in between, in whichever handler or call that verify was.
PublishedAsMeasured ==
  [][\A i \in Items :
       state[i] # "PUBLISHED" /\ state'[i] = "PUBLISHED" => i \in measured']_vars

\* A behavioral item is green on the test its critics approved, however the test was
\* changed since, in the implementer's await or between two calls.
GreenOnTheVettedTest ==
  [][\A i \in Behavioral :
       state[i] = "TEST_VETTED" /\ state'[i] = "GREEN" => i \notin drifted]_vars

\* Kills do not give attempts back: the implementer is dispatched within the budget.
AttemptsWithinBudget == \A i \in Items : implemented[i] <= AttemptBudget

\* The test-writer of a submit_test and the implementer of a mark_green never work on
\* the tree at the same time.
OneSerialWriter ==
  \A i, j \in Items :
    {job[i].awaits, job[j].awaits} \subseteq {"writer", "implementer"} => i = j

\* A tool call returns: a wave runs out of stages to offer, and no member of a serial
\* chain waits for a stage that has ended, however that stage ended.
EveryCallReturns == call # NoCall ~> call = NoCall

\* The plan's quarantine rule: the deliberately red test of another item does not
\* poison a verify.
NoForeignRedInVerify == fouled = {}

----------------------------------------------------------------------------
\* The state machine of an item, seen without tools, sub-sessions and evidence.
Fsm == INSTANCE ItemFsm

\* The handlers implement it: however the members of a wave interleave, every step is
\* one item's step along its chain, a demotion, a late red, a block or an answer.
ItemFsmSpec == Fsm!ItemsSpec

\* No item is worked on, or past PENDING, before all it depends on is published.
DependenciesFirst == Fsm!DependenciesFirst
=============================================================================
