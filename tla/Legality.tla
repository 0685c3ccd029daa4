------------------------------ MODULE Legality ------------------------------
(* What a run may do next.  The phase gate (core/gates-phase) derives from    *)
(* run.json, the item files and the question ledger which tools are legal and *)
(* which one it recommends; core/disposition derives what each item still     *)
(* waits for and how a run closes; the idle engine reads both and either      *)
(* prompts the orchestrator, stops the run, or says nothing.  Several         *)
(* derivations from one state: the module is about their agreement.           *)
(* A question is its place in the ledger, an item its id.                     *)
EXTENDS Naturals, Sequences, FiniteSets, FiniteSetsExt

CONSTANTS
    Accepted,       \* the queues a planner may have accepted
    MaxQuestions,   \* questions asked in a run
    MaxLoad,        \* a run with this many items and questions asks no more
    NoOne           \* what the item of a meta tool is, and of an unblocked item the question

\* A queue names its items, one at least, what each depends on, and which of them owe a
\* test; along the dependencies there is no cycle.
ASSUME LegalityAssumption ==
    /\ MaxQuestions \in Nat /\ MaxLoad \in Nat
    /\ NoOne \notin Nat
    /\ \A q \in Accepted :
          /\ DOMAIN q.dependsOn \subseteq Nat /\ IsFiniteSet(DOMAIN q.dependsOn)
          /\ DOMAIN q.dependsOn # {} /\ q.behavioral \subseteq DOMAIN q.dependsOn
          /\ \A i \in DOMAIN q.dependsOn : q.dependsOn[i] \subseteq DOMAIN q.dependsOn
          /\ \E rank \in [DOMAIN q.dependsOn -> 0..Cardinality(DOMAIN q.dependsOn)] :
                \A i \in DOMAIN q.dependsOn : \A d \in q.dependsOn[i] : rank[d] < rank[i]

Fields == {"INTAKE", "DECOMPOSED", "PLANNED", "PLAN_REVIEWED", "EXECUTING",
           "REPORTED", "TRIVIAL_DONE", "ANSWERED"}
Terminals == {"REPORTED", "TRIVIAL_DONE", "ANSWERED"}
Running == "none"
EmptyQueue == [dependsOn |-> <<>>, behavioral |-> {}]
\* classify's synthesized queue: one item, which may owe a test.
TrivialQueue(behavioral) == [dependsOn |-> <<{}>>, behavioral |-> behavioral]

VARIABLES
    position,        \* run.state
    classification,  \* run.classification.kind
    classified,      \* run.classified, the receipt
    closing,         \* run.stop.kind, or Running
    pointed,         \* the workspace's pointer names the run
    plannedQueue,    \* queue.json
    stateOf,         \* each item's state
    blockedOn,       \* the question each item is blocked on
    deferred,        \* the items put aside
    questions,       \* the ledger: what each question blocks, and whether it is open
    publishEnabled   \* the workspace is a git repository

legalityVars == <<position, classification, classified, closing, pointed, plannedQueue, stateOf,
                  blockedOn, deferred, questions, publishEnabled>>

ItemIds == DOMAIN plannedQueue.dependsOn
DependsOn(i) == plannedQueue.dependsOn[i]
Open == {q \in DOMAIN questions : questions[q].open}
IsTerminal == closing # Running \/ position \in Terminals
Blocked(i) == blockedOn[i] # NoOne

LegalityTypes ==
    /\ position \in Fields /\ classification \in {"work", "trivial", "question"}
    /\ classified \in BOOLEAN /\ pointed \in BOOLEAN /\ publishEnabled \in BOOLEAN
    /\ closing \in {Running, "done", "noop", "blocked", "surfaced", "env", "interrupt"}
    /\ plannedQueue \in Accepted \cup {EmptyQueue, TrivialQueue({}), TrivialQueue({1})}
    /\ DOMAIN stateOf = ItemIds /\ DOMAIN blockedOn = ItemIds /\ deferred \subseteq ItemIds
    /\ \A i \in ItemIds : Blocked(i) => blockedOn[i] \in DOMAIN questions
    /\ Len(questions) <= MaxQuestions
-----------------------------------------------------------------------------
(* core/disposition.ts.  `live` are the questions whose answer would release  *)
(* an item; the phase gate takes every question for live.                     *)

Settles(i, publish) ==
    \/ stateOf[i] = "PUBLISHED"
    \/ i \in deferred
    \/ ~publish /\ stateOf[i] = "REVIEWED"

\* What an item's own file says, before its dependencies are looked at.
Seed(i, publish, live) ==
    IF Settles(i, publish) THEN "settled"
    ELSE IF ~Blocked(i) THEN "actionable"
    ELSE IF blockedOn[i] \in live THEN "waiting-human" ELSE "stuck"

\* A slip: an item that is stuck itself holds nobody up.
StopsAtTheDeferred(i, disposition) == stateOf[i] # "PUBLISHED" /\ i \in deferred

NeverPublishes(i, disposition) ==
    disposition = "stuck" \/ (stateOf[i] # "PUBLISHED" /\ i \in deferred)

\* The fixpoint over a queue without cycles: an item that waits for one that
\* never publishes is stuck.
DispositionsOf(publish, live) ==
    LET of[i \in ItemIds] ==
          IF /\ Seed(i, publish, live) = "actionable"
             /\ \E d \in DependsOn(i) : NeverPublishes(d, of[d])
          THEN "stuck" ELSE Seed(i, publish, live)
    IN  of

RunDispositionOf(dispositions, open) ==
    IF "actionable" \in dispositions THEN "actionable"
    ELSE IF "waiting-human" \in dispositions \/ open > 0 THEN "waiting-human"
    ELSE IF "stuck" \in dispositions THEN "stuck" ELSE "settled"

\* What handleReport and the idle engine hand the closer.
Closure(publish, dispositions) ==
    [disposition |-> RunDispositionOf({dispositions[i] : i \in ItemIds}, Cardinality(Open)),
     blockedItems |-> Cardinality({i \in ItemIds : Blocked(i)}),
     openQuestions |-> Cardinality(Open),
     advancedItems |-> Cardinality({i \in ItemIds : \/ stateOf[i] = "PUBLISHED"
                                                    \/ ~publish /\ stateOf[i] = "REVIEWED"})]

\* stopKindOf, the causes a run meets here: the closing verify's colour, and a
\* settle.
StopKindOf(run, verify) ==
    IF verify = "error" THEN "env"
    ELSE IF verify = "assertion" THEN "blocked"
    ELSE IF run.blockedItems > 0 \/ run.disposition = "stuck" THEN "blocked"
    ELSE IF run.openQuestions > 0 THEN "surfaced"
    ELSE IF run.disposition \in {"actionable", "waiting-human"} THEN "blocked"
    ELSE IF run.advancedItems = 0 THEN "noop" ELSE "done"

-----------------------------------------------------------------------------
(* core/schedule.ts and core/gates-phase.ts.                                  *)

\* nextStageTool() and the item state its success leads to.
StageTool(i) ==
    CASE stateOf[i] = "PENDING" ->
           IF i \in plannedQueue.behavioral THEN "submit_test" ELSE "mark_green"
      [] stateOf[i] = "RED" -> "vet_test"
      [] stateOf[i] = "TEST_VETTED" -> "mark_green"
      [] stateOf[i] = "GREEN" -> "validate"
      [] stateOf[i] = "VALIDATED" -> "item_review"
      [] stateOf[i] = "REVIEWED" -> "publish"
      [] OTHER -> "none"
StageTools == {"submit_test", "vet_test", "mark_green", "validate", "item_review", "publish"}
Reached(tool) ==
    CASE tool = "submit_test" -> "RED" [] tool = "vet_test" -> "TEST_VETTED"
      [] tool = "mark_green" -> "GREEN" [] tool = "validate" -> "VALIDATED"
      [] tool = "item_review" -> "REVIEWED" [] tool = "publish" -> "PUBLISHED"

\* One rule for the gate and for the scheduler: nothing below PUBLISHED unlocks.
DepsPublished(i) == \A d \in DependsOn(i) : stateOf[d] = "PUBLISHED"
Candidates ==
    {i \in ItemIds :
       stateOf[i] # "PUBLISHED" /\ ~Blocked(i) /\ i \notin deferred /\ DepsPublished(i)}

\* An item lies one below the deepest it depends on.
DepthOver(of, i) == IF DependsOn(i) = {} THEN 0 ELSE 1 + Max({of[d] : d \in DependsOn(i)})
Depth == LET of[i \in ItemIds] == DepthOver(of, i) IN of
\* nextWave's first member: the shallowest candidate, then the smallest id.
WaveFirst ==
    CHOOSE i \in Candidates :
       \A j \in Candidates : Depth[i] < Depth[j] \/ (Depth[i] = Depth[j] /\ i <= j)

AllSettled ==
    /\ ItemIds # {}
    /\ \A i \in ItemIds : DispositionsOf(publishEnabled, DOMAIN questions)[i] # "actionable"

Offer(tool, i) == [tool |-> tool, item |-> i]
Meta(tools) == {Offer(t, NoOne) : t \in tools}

PipelineTool ==
    CASE position = "INTAKE" /\ ~classified -> {"classify"}
      [] position = "INTAKE" /\ classification = "work" -> {"decompose"}
      [] position = "DECOMPOSED" -> {"plan"}
      [] position = "PLANNED" -> {"plan_review"}
      [] position = "PLAN_REVIEWED" -> {"dispatch_wave"}
      [] OTHER -> {}

\* The stage tool of every item that can move, but no publish without git.
StageOffers ==
    {Offer(StageTool(i), i) : i \in {c \in Candidates : publishEnabled \/ stateOf[c] # "REVIEWED"}}

Legal ==
    Meta({"status"}) \cup (IF Open # {} THEN Meta({"answer"}) ELSE {}) \cup
    IF IsTerminal THEN {}
    ELSE Meta({"decide", "surface", "defer"}) \cup Meta(PipelineTool) \cup
         IF position # "EXECUTING" THEN {}
         ELSE StageOffers \cup (IF AllSettled THEN Meta({"report"}) ELSE {})
                          \cup (IF Candidates # {} THEN Meta({"dispatch_wave"}) ELSE {})

\* The one next step the gate names: in EXECUTING the first item of the wave.
NoOffer == Offer("none", NoOne)
FirstOffer ==
    IF Candidates = {} \/ (~publishEnabled /\ stateOf[WaveFirst] = "REVIEWED") THEN NoOffer
    ELSE Offer(StageTool(WaveFirst), WaveFirst)
Recommended ==
    IF IsTerminal THEN NoOffer
    ELSE IF position # "EXECUTING" THEN
        IF PipelineTool = {} THEN NoOffer ELSE Offer(CHOOSE t \in PipelineTool : TRUE, NoOne)
    ELSE IF FirstOffer # NoOffer THEN FirstOffer
    ELSE IF AllSettled THEN Offer("report", NoOne) ELSE NoOffer
-----------------------------------------------------------------------------
(* core/tool-legality.ts: where a tool may be called, and by whom.            *)

Orchestrator == "orchestrator"
SubSession == "sub-session"
PhaseRule(tool) ==
    CASE tool = "classify" -> "once-at-intake"
      [] tool \in {"report", "surface", "answer", "defer", "decide"} -> "verdict"
      [] OTHER -> "stage"
Callers(tool) ==
    IF tool = "surface" THEN {Orchestrator, SubSession} ELSE {Orchestrator}

Offered(tool) == \E o \in Legal : o.tool = tool

\* A slip: who calls is asked, where the run stands is not.
AsksOnlyWho(tool, caller) ==
    /\ pointed /\ caller \in Callers(tool)
    /\ PhaseRule(tool) = "once-at-intake" => position = "INTAKE" /\ ~classified

\* requireToolLegal(); a stage tool's position is its handler's own question.
MayCall(tool, caller) ==
    /\ pointed /\ caller \in Callers(tool)
    /\ PhaseRule(tool) = "verdict" => Offered(tool)
    /\ PhaseRule(tool) = "once-at-intake" => position = "INTAKE" /\ ~classified
-----------------------------------------------------------------------------
LegalityInit ==
    /\ position = "INTAKE" /\ classification = "work" /\ classified = FALSE
    /\ closing = Running /\ pointed = TRUE
    /\ plannedQueue = EmptyQueue /\ stateOf = <<>> /\ blockedOn = <<>> /\ deferred = {}
    /\ questions = <<>>
    /\ publishEnabled \in BOOLEAN

\* queue.json and one PENDING file per item.
Enqueue(q) ==
    /\ plannedQueue' = q
    /\ stateOf' = [i \in DOMAIN q.dependsOn |-> "PENDING"]
    /\ blockedOn' = [i \in DOMAIN q.dependsOn |-> NoOne]

\* handleClassify(): the kind the classifier and its skeptic settled on.  Neither
\* it nor the planning handlers ask whether the run has stopped.
Classify(kind) ==
    /\ MayCall("classify", Orchestrator)
    /\ classification' = kind /\ classified' = TRUE
    /\ position' = CASE kind = "trivial" -> "EXECUTING" [] kind = "question" -> "ANSWERED"
                     [] OTHER -> "INTAKE"
    /\ IF kind = "trivial" THEN \E behavioral \in SUBSET {1} : Enqueue(TrivialQueue(behavioral))
       ELSE UNCHANGED <<plannedQueue, stateOf, blockedOn>>
    /\ UNCHANGED <<closing, pointed, deferred, questions, publishEnabled>>

\* handleDecompose().
Decompose(q) ==
    /\ MayCall("decompose", Orchestrator)
    /\ position = "INTAKE" /\ classified /\ classification = "work"
    /\ position' = "DECOMPOSED" /\ Enqueue(q)
    /\ UNCHANGED <<classification, classified, closing, pointed, deferred, questions,
                   publishEnabled>>

\* A question enters the ledger and blocks the items it names that no earlier
\* one holds.
AskHuman(blocks) ==
    /\ Len(questions) < MaxQuestions /\ Len(questions) + Cardinality(ItemIds) < MaxLoad
    /\ questions' = Append(questions, [blocks |-> blocks, open |-> TRUE])
    /\ blockedOn' = [i \in ItemIds |-> IF i \in blocks /\ ~Blocked(i) THEN Len(questions) + 1
                                       ELSE blockedOn[i]]

\* handlePlan(), handlePlanReview() and the first handleDispatchWave(); a review
\* that gives up at its last round leaves a question behind.
PlanOn ==
    /\ pointed
    /\ position = "PLAN_REVIEWED" => Offered("dispatch_wave")
    /\ \E hop \in {<<"DECOMPOSED", "PLANNED">>, <<"PLANNED", "PLAN_REVIEWED">>,
                   <<"PLAN_REVIEWED", "EXECUTING">>} :
          position = hop[1] /\ position' = hop[2]
    /\ IF position = "PLANNED" THEN AskHuman({}) \/ UNCHANGED <<questions, blockedOn>>
       ELSE UNCHANGED <<questions, blockedOn>>
    /\ UNCHANGED <<classification, classified, closing, pointed, plannedQueue, stateOf, deferred,
                   publishEnabled>>

\* A stage tool, called alone or by the wave, on an item the gate offers it for:
\* the item moves on, goes back to GREEN on a red re-verify, or asks.
Stage(i) ==
    /\ pointed /\ \E o \in Legal : o = Offer(StageTool(i), i)
    /\ \/ /\ stateOf' = [stateOf EXCEPT ![i] = Reached(StageTool(i))]
          /\ UNCHANGED <<blockedOn, questions>>
       \/ /\ stateOf[i] = "REVIEWED" /\ stateOf' = [stateOf EXCEPT ![i] = "GREEN"]
          /\ UNCHANGED <<blockedOn, questions>>
       \/ AskHuman({i}) /\ UNCHANGED stateOf
    /\ UNCHANGED <<position, classification, classified, closing, pointed, plannedQueue, deferred,
                   publishEnabled>>

\* handleSurface(), by either kind of caller, and handleDecide() when it refuses
\* to decide what is a human's.
Surface ==
    /\ \/ \E caller \in {Orchestrator, SubSession}, blocks \in SUBSET ItemIds :
             MayCall("surface", caller) /\ AskHuman(blocks)
       \/ MayCall("decide", Orchestrator) /\ AskHuman({})
    /\ UNCHANGED <<position, classification, classified, closing, pointed, plannedQueue, stateOf,
                   deferred, publishEnabled>>

\* handleAnswer(), by the tool or for a file the idle pass took in: an item named
\* by another open question is handed to it, and a run that waits is revived
\* unless the operator has yet to confirm.
AnswerQuestion(q, confirms) ==
    /\ MayCall("answer", Orchestrator) /\ q \in Open
    /\ questions' = [questions EXCEPT ![q].open = FALSE]
    /\ blockedOn' =
          [i \in ItemIds |->
             IF blockedOn[i] # q THEN blockedOn[i]
             ELSE IF \E s \in Open \ {q} : i \in questions[s].blocks
             THEN Min({s \in Open \ {q} : i \in questions[s].blocks}) ELSE NoOne]
    /\ closing' = IF ~confirms /\ closing \in {"blocked", "surfaced", "noop"}
                     /\ position \notin Terminals
                  THEN Running ELSE closing
    /\ UNCHANGED <<position, classification, classified, pointed, plannedQueue, stateOf, deferred,
                   publishEnabled>>

\* handleDefer(): whatever state the item is in.
Defer(i) ==
    /\ MayCall("defer", Orchestrator)
    /\ deferred' = deferred \cup {i}
    /\ UNCHANGED <<position, classification, classified, closing, pointed, plannedQueue, stateOf,
                   blockedOn, questions, publishEnabled>>

\* handleReport(): refused over work that can still move, closed as the closing
\* verify and the dispositions say.
ReportRun(verify) ==
    /\ MayCall("report", Orchestrator) /\ AllSettled
    /\ closing' = StopKindOf(Closure(publishEnabled, DispositionsOf(publishEnabled, Open)), verify)
    /\ position' = IF classification = "trivial" THEN "TRIVIAL_DONE" ELSE "REPORTED"
    /\ UNCHANGED <<classification, classified, pointed, plannedQueue, stateOf, blockedOn, deferred,
                   questions, publishEnabled>>
-----------------------------------------------------------------------------
(* handleSessionIdle() in adapter/continuation.ts.                            *)

OpenItems == {i \in ItemIds : stateOf[i] # "PUBLISHED" /\ ~Blocked(i) /\ i \notin deferred}
BlockedItems == {i \in ItemIds : Blocked(i)}

\* A stopped run whose pointer is kept, for an answer will revive it.
KeptWaiting ==
    closing \in {"blocked", "surfaced", "noop"} /\ position \notin Terminals /\ Open # {}

\* What the gate offers here and does not offer everywhere.
Levers == {o \in Legal : o.item = NoOne} \ Meta({"status", "decide", "surface", "defer"})

\* runClosureOf(): git is taken for granted.
IdleClosure == Closure(TRUE, DispositionsOf(TRUE, Open))

\* What a pass over a live run comes to.
Outcome ==
    IF OpenItems = {} /\ (BlockedItems # {} \/ Open # {}) THEN "waits"
    ELSE IF Recommended # NoOffer \/ (OpenItems # {} /\ Levers # {}) THEN "prompts"
    ELSE IF IdleClosure.disposition = "stuck" THEN "gives up" ELSE "says nothing"

KeepPointer(kept) == pointed' = kept

IdleStops ==
    /\ Outcome \in {"waits", "gives up"}
    /\ closing' = IF Outcome = "gives up" THEN StopKindOf(IdleClosure, "green")
                  ELSE IF BlockedItems # {} THEN "blocked" ELSE "surfaced"
    /\ KeepPointer(Outcome = "waits" /\ Open # {})

\* The third prompt in a row that moved nothing.
IdleDisengages == Outcome = "prompts" /\ closing' = "noop" /\ KeepPointer(FALSE)

IdleTick ==
    /\ pointed
    /\ \/ ~IsTerminal /\ (IdleStops \/ IdleDisengages)
       \/ IsTerminal /\ ~KeptWaiting /\ KeepPointer(FALSE) /\ UNCHANGED closing
    /\ UNCHANGED <<position, classification, classified, plannedQueue, stateOf, blockedOn,
                   deferred, questions, publishEnabled>>

LegalityNext ==
    \/ \E kind \in {"work", "trivial", "question"} : Classify(kind)
    \/ \E q \in Accepted : Decompose(q)
    \/ PlanOn \/ Surface \/ IdleTick
    \/ \E i \in ItemIds : Stage(i) \/ Defer(i)
    \/ \E q \in Open, confirms \in BOOLEAN : AnswerQuestion(q, confirms)
    \/ \E verify \in {"green", "assertion", "error"} : ReportRun(verify)

LegalitySpec == LegalityInit /\ [][LegalityNext]_legalityVars
-----------------------------------------------------------------------------
\* Without git an item that others depend on ends at REVIEWED, which unlocks
\* nothing: its dependents are neither ready nor stuck.
HeldByReviewed ==
    ~publishEnabled /\ \E i \in OpenItems : \E d \in DependsOn(i) : stateOf[d] = "REVIEWED"

\* What the gate recommends it also allows, an idle pass never leaves a live run
\* without a prompt or a stop, and a run at work always has a move of its own:
\* a stage tool, the report or an answer.  The dispositions, the wave and the
\* legal set are separate derivations over chains of dependencies, blocks and
\* deferrals, and a run in which they disagree stands still for ever.
NothingIsStranded ==
    pointed /\ ~IsTerminal =>
       /\ Recommended # NoOffer => Recommended \in Legal
       /\ Outcome # "says nothing"
       /\ position = "EXECUTING" =>
             StageOffers # {} \/ Offered("report") \/ Offered("answer") \/ HeldByReviewed

\* A run that is closed as done is done and stays so: every item is published,
\* reviewed as far as the mode goes, or put aside, one at least got there, and no
\* question is open, whatever was surfaced, deferred or answered on the way.
DoneIsDone ==
    closing = "done" =>
       /\ Open = {} /\ BlockedItems = {}
       /\ \A i \in ItemIds : Settles(i, publishEnabled)
       /\ \E i \in ItemIds : stateOf[i] = (IF publishEnabled THEN "PUBLISHED" ELSE "REVIEWED")
=============================================================================
