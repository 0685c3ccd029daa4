---------------------------- MODULE RunLifecycle ----------------------------
(***************************************************************************)
(* A run from the prompt that creates it to the report that closes it: the *)
(* planning tools, the engine that stops it, the answer that revives it,   *)
(* and what a kill leaves on disk.                                         *)
(*                                                                         *)
(* The plugin is one thread.  A planning tool awaits sub-sessions and then *)
(* saves the run.json it loaded before; everything else is synchronous, so *)
(* one action, with the places where a kill cuts its writes short.  The    *)
(* items of a run are a summary here (ItemStages has the stages), and a    *)
(* run asks at most one question, one that its answer releases (Questions  *)
(* has the ledger).  Whether a counter of the engine has reached its limit *)
(* and whether the halt file is there are inputs of its passes.            *)
(***************************************************************************)
EXTENDS Naturals, FiniteSets

CONSTANTS
  Runs,          \* the runs that may be created, numbered in that order
  ReviewRounds,  \* workflow.planReviewMaxRounds
  OverrideCap,   \* workflow.maxOverridesPerRun
  Planned,       \* bound: the runs whose planning tools are called
  MaxAborts,     \* bound: how often a human aborts a call of the orchestrator
  MaxKills       \* bound: how often the process is killed

ASSUME LifecycleAssumption ==
  /\ Runs \subseteq Nat \ {0} /\ Planned \subseteq Runs
  /\ {ReviewRounds, OverrideCap, MaxAborts, MaxKills} \subseteq Nat

VARIABLES
  run,       \* run.json of every run
  work,      \* what the item files and the question ledger of a run add up to
  report,    \* report.md: none, of the stop the run carries, or of another moment
  pointer,   \* the current-run pointer, NoRun when it is cleared
  up,        \* does a process hold the workspace?
  calls,     \* planning tools that await a sub-session
  kills, aborts,
  strays     \* history: runs whose creation was cut, or that a stale copy overwrote

disk == <<run, work, report, pointer>>
runVars == <<disk, up, calls, kills, aborts, strays>>

NoRun == 0
TerminalStates == {"ANSWERED", "REPORTED", "TRIVIAL_DONE"}
RunStates == {"unborn", "INTAKE", "DECOMPOSED", "PLANNED", "PLAN_REVIEWED", "EXECUTING"}
             \cup TerminalStates
Kinds == {"work", "trivial", "question"}
ResumableStops == {"blocked", "surfaced", "noop"}
StopKinds == ResumableStops \cup {"done", "env", "interrupt"}

RunRecord == [state : RunStates, kind : Kinds, classified : BOOLEAN,
              stop : StopKinds \cup {"none"}, rounds : 0..ReviewRounds,
              overrides : 0..OverrideCap]

\* items: no queue; one can be scheduled; the open ones depend on a blocked one;
\* all that is left is blocked; nothing is left.
WorkRecord == [items : {"none", "open", "stalled", "waiting", "settled"},
               question : {"none", "open", "answered"}]

Tools == {"classify", "decompose", "plan", "plan_review"}
Call == [tool : Tools, run : Runs, copy : RunRecord, left : BOOLEAN]

Unborn == [state |-> "unborn", kind |-> "work", classified |-> FALSE, stop |-> "none",
           rounds |-> 0, overrides |-> 0]
NoWork == [items |-> "none", question |-> "none"]

RunInit ==
  /\ run = [r \in Runs |-> Unborn] /\ work = [r \in Runs |-> NoWork]
  /\ report = [r \in Runs |-> "none"] /\ pointer = NoRun
  /\ up = TRUE /\ calls = {} /\ kills = 0 /\ aborts = 0 /\ strays = {}
-----------------------------------------------------------------------------
(* core/stops.ts isTerminal *)
Terminal(rec) == rec.stop # "none" \/ rec.state \in TerminalStates
Live(r) == run[r].state # "unborn" /\ ~Terminal(run[r])

QuestionOpen(w) == w.question = "open"
OpenItems(w) == w.items \in {"open", "stalled"}
BlockedItems(w) == w.items \in {"stalled", "waiting"}
\* settledForReport()
ReportLegal(rec, w) == rec.state = "EXECUTING" /\ w.items \in {"waiting", "settled"}

(* core/disposition.ts stopKindOf(), cause "settle".  A run that published nothing
   closes as noop; the summary does not say which. *)
SettleKinds(w) ==
  IF BlockedItems(w) THEN {"blocked"}
  ELSE IF QuestionOpen(w) THEN {"surfaced"} ELSE {"done", "noop"}

(* core/stops.ts shouldTerminate(): the counters outrank the items. *)
Verdict(rec, w, futile) ==
  IF futile THEN "noop"
  ELSE IF rec.overrides > 0 /\ rec.overrides >= OverrideCap THEN "env"
  ELSE IF OpenItems(w) \/ ~(BlockedItems(w) \/ QuestionOpen(w)) THEN "none"
  ELSE IF BlockedItems(w) THEN "blocked" ELSE "surfaced"

(* waitingForAnAnswer() *)
WaitingForAnAnswer(rec, w) ==
  rec.stop \in ResumableStops /\ rec.state \notin TerminalStates /\ QuestionOpen(w)

\* The call of the turn under way, if there is one.
Calling == \E c \in calls : ~c.left
\* May the orchestrator call a tool, which acts on the current run?
AtWork(r) == up /\ ~Calling /\ pointer = r
\* A dispatched session may, too.
AnySession(r) == pointer = r /\ (AtWork(r) \/ \E c \in calls : c.run = r)
-----------------------------------------------------------------------------
(* A kill; the calls under way are gone. *)
Dies == kills < MaxKills /\ kills' = kills + 1 /\ up' = FALSE /\ calls' = {}
LivesOn == UNCHANGED <<up, calls, kills>>

Kill == up /\ Dies /\ UNCHANGED <<disk, aborts, strays>>

\* A report of an earlier moment says nothing of the stop recorded now.
Outdated(r) == IF report[r] = "none" THEN "none" ELSE "stale"

\* A mutant of Open: nobody looks after the run the dead process left.
OpenUnreported == ~up /\ up' = TRUE /\ UNCHANGED <<disk, calls, kills, aborts, strays>>

(* openWorkspace() in a new process, and ensureTerminalReport() for the run the
   pointer names: its owner is gone, so it gets a report unless one is there. *)
Open ==
  /\ ~up /\ up' = TRUE
  /\ report' = [r \in Runs |->
       IF r = pointer /\ report[r] = "none"
         THEN IF run[r].stop # "none" THEN "current" ELSE "stale"
         ELSE report[r]]
  /\ UNCHANGED <<run, work, pointer, calls, kills, aborts, strays>>

(* handleChatMessage() while no run is live; otherwise the prompt is context for the
   live run.  createRun() writes run.json, then the pointer. *)
CreateRun(r, cut) ==
  /\ up /\ (pointer # NoRun => ~Live(pointer))
  /\ run[r].state = "unborn" /\ \A q \in Runs : q < r => run[q].state # "unborn"
  /\ run' = [run EXCEPT ![r].state = "INTAKE"]
  /\ IF cut THEN Dies /\ strays' = strays \cup {r} /\ UNCHANGED pointer
            ELSE LivesOn /\ pointer' = r /\ UNCHANGED strays
  /\ UNCHANGED <<work, report, aborts>>
-----------------------------------------------------------------------------
(* Planning tools: legality, then a sub-session, then run.json.            *)

(* classify is legal once, at intake, whatever the stop; advanceRun() refuses the
   others on a stopped run. *)
CallLegal(tool, rec) ==
  \/ tool = "classify" /\ rec.state = "INTAKE" /\ ~rec.classified
  \/ /\ rec.stop = "none"
     /\ \/ tool = "decompose" /\ rec.state = "INTAKE" /\ rec.classified /\ rec.kind = "work"
        \/ tool = "plan" /\ rec.state = "DECOMPOSED"
        \/ tool = "plan_review" /\ rec.state = "PLANNED"

StartCall(tool, r) ==
  /\ r \in Planned /\ AtWork(r) /\ CallLegal(tool, run[r])
  /\ calls' = calls \cup {[tool |-> tool, run |-> r, copy |-> run[r], left |-> FALSE]}
  /\ UNCHANGED <<disk, up, kills, aborts, strays>>

(* A human aborts the turn: runTool() does not look at the signal, the call goes on. *)
Abort ==
  /\ Calling /\ aborts < MaxAborts
  /\ aborts' = aborts + 1
  /\ calls' = {[c EXCEPT !.left = TRUE] : c \in calls}
  /\ UNCHANGED <<disk, up, kills, strays>>

\* saveRun() of what call c loaded, with its changes.
Save(c, rec) ==
  /\ run' = [run EXCEPT ![c.run] = rec]
  /\ strays' = IF c.copy = run[c.run] THEN strays ELSE strays \cup {c.run}

\* A mutant of Finish: run.json first, the items after it.
FinishStateFirst(c, rec, w, cut) ==
  /\ Save(c, rec)
  /\ IF cut THEN Dies /\ UNCHANGED work
            ELSE work' = [work EXCEPT ![c.run] = w] /\ calls' = calls \ {c} /\ UNCHANGED <<up, kills>>
  /\ UNCHANGED <<report, pointer, aborts>>

\* Call c ends with its saves, or is killed after it wrote w and before run.json.
Finish(c, rec, w, cut) ==
  /\ work' = [work EXCEPT ![c.run] = w]
  /\ IF cut THEN Dies /\ UNCHANGED <<run, strays>>
            ELSE Save(c, rec) /\ calls' = calls \ {c} /\ UNCHANGED <<up, kills>>
  /\ UNCHANGED <<report, pointer, aborts>>

\* No valid receipt, or a defect that survives the re-prompt: the tool throws.
CallFails(c) == calls' = calls \ {c} /\ UNCHANGED <<disk, up, kills, aborts, strays>>

(* handleClassify(): a trivial run gets its item at once. *)
Classify(c, kind, cut) ==
  LET to == CASE kind = "work" -> "INTAKE" [] kind = "trivial" -> "EXECUTING"
              [] kind = "question" -> "ANSWERED"
  IN /\ c.tool = "classify" /\ (cut => kind = "trivial")
     /\ Finish(c, [c.copy EXCEPT !.kind = kind, !.classified = TRUE, !.state = to],
               IF kind = "trivial" THEN [work[c.run] EXCEPT !.items = "open"] ELSE work[c.run],
               cut)

(* handleDecompose(): queue.json and the item files, then run.json *)
Decompose(c, cut) ==
  /\ c.tool = "decompose"
  /\ Finish(c, [c.copy EXCEPT !.state = "DECOMPOSED"], [work[c.run] EXCEPT !.items = "open"], cut)

(* handlePlan() *)
Plan(c) == c.tool = "plan" /\ Finish(c, [c.copy EXCEPT !.state = "PLANNED"], work[c.run], FALSE)

(* handlePlanReview(): below the cap a surviving major costs a round, and the review
   goes on with the run it saved. *)
Revise(c) ==
  LET rec == [c.copy EXCEPT !.rounds = @ + 1]
  IN /\ c.tool = "plan_review" /\ c.copy.rounds < ReviewRounds
     /\ Save(c, rec)
     /\ calls' = (calls \ {c}) \cup {[c EXCEPT !.copy = rec]}
     /\ UNCHANGED <<work, report, pointer, up, kills, aborts>>

\* A question that blocks nothing, or some of the open items.
AskedAbout(w) ==
  {[w EXCEPT !.question = "open", !.items = i] :
     i \in IF w.items = "open" THEN {"open", "stalled", "waiting"} ELSE {w.items}}

(* handlePlanReview(), a clean round, or the cap: the majors become a question. *)
Review(c, w, cut) ==
  /\ c.tool = "plan_review"
  /\ \/ ~cut /\ w = work[c.run]
     \/ /\ c.copy.rounds >= ReviewRounds /\ work[c.run].question = "none"
        /\ w \in AskedAbout(work[c.run])
  /\ Finish(c, [c.copy EXCEPT !.state = "PLAN_REVIEWED"], w, cut)

\* A sub-session of call c answers, fails or runs into its deadline.
Reply(c) ==
  \/ CallFails(c) \/ Plan(c) \/ Revise(c)
  \/ \E cut \in BOOLEAN : \/ \E kind \in Kinds : Classify(c, kind, cut)
                          \/ Decompose(c, cut)
                          \/ \E w \in AskedAbout(work[c.run]) \cup {work[c.run]} : Review(c, w, cut)
-----------------------------------------------------------------------------
(* The tools that run to their end at once.                                *)

(* handleDispatchWave(), the first call; the stages themselves are in ItemStages. *)
DispatchWave(r) ==
  /\ AtWork(r) /\ run[r].state = "PLAN_REVIEWED" /\ run[r].stop = "none"
  /\ run' = [run EXCEPT ![r].state = "EXECUTING"]
  /\ UNCHANGED <<work, report, pointer, up, calls, kills, aborts, strays>>

(* What the stage tools, the amendments and the deferrals do to the items. *)
Progress(r) ==
  /\ AtWork(r) /\ Live(r) /\ run[r].state = "EXECUTING" /\ work[r].items = "open"
  /\ \E i \in {"settled"} \cup IF QuestionOpen(work[r]) THEN {"stalled", "waiting"} ELSE {} :
       work' = [work EXCEPT ![r].items = i]
  /\ UNCHANGED <<run, report, pointer, up, calls, kills, aborts, strays>>

(* conductor_surface, and a stage that blocks its item on a question *)
Surface(r) ==
  /\ AnySession(r) /\ Live(r) /\ work[r].question = "none"
  /\ \E w \in AskedAbout(work[r]) : work' = [work EXCEPT ![r] = w]
  /\ UNCHANGED <<run, report, pointer, up, calls, kills, aborts, strays>>

(* answerQuestion(): the items it blocks are released. *)
Answered(w) ==
  [w EXCEPT !.question = "answered", !.items = IF BlockedItems(w) THEN "open" ELSE @]

\* A mutant of Revived: an answer lifts whatever stop there is.
RevivedWhatever(rec) == [rec EXCEPT !.stop = "none"]

(* reviveIfWaiting() *)
Revived(rec) ==
  IF rec.stop \in ResumableStops /\ rec.state \notin TerminalStates
    THEN [rec EXCEPT !.stop = "none"] ELSE rec

\* run.json of r becomes rec; a report of a stop that is lifted is out of date.
Resumes(r, rec) ==
  /\ run' = [run EXCEPT ![r] = rec]
  /\ report' = [report EXCEPT ![r] = IF rec.stop = run[r].stop THEN @ ELSE Outdated(r)]

(* conductor_answer; a kill may come between the ledger and the revival.  The answer of
   a tool to a question of the operator's revives nothing. *)
Answer(r, cut) ==
  /\ AtWork(r) /\ QuestionOpen(work[r])
  /\ work' = [work EXCEPT ![r] = Answered(@)]
  /\ IF cut THEN Dies /\ UNCHANGED <<run, report>>
            ELSE LivesOn /\ \/ Resumes(r, Revived(run[r]))
                            \/ UNCHANGED <<run, report>>
  /\ UNCHANGED <<pointer, aborts, strays>>

(* Every stop: recordStop(), the report, archiveRun(); a kill may come after the first
   or after the second. *)
Cuts == {"never", "stopped", "reported"}
Stop(r, rec, kind, archives, cut) ==
  /\ run' = [run EXCEPT ![r] = [rec EXCEPT !.stop = kind]]
  /\ report' = [report EXCEPT ![r] = IF cut = "stopped" THEN Outdated(r) ELSE "current"]
  /\ pointer' = IF archives /\ cut = "never" THEN NoRun ELSE pointer
  /\ IF cut = "never" THEN LivesOn ELSE Dies

(* handleReport() over a live run: report.md, then run.json; a red closing verify makes
   the stop blocked or env. *)
Report(r, kind, cut) ==
  LET to == IF run[r].kind = "trivial" THEN "TRIVIAL_DONE" ELSE "REPORTED"
  IN /\ AtWork(r) /\ Live(r) /\ ReportLegal(run[r], work[r])
     /\ kind \in SettleKinds(work[r]) \cup {"blocked", "env"}
     /\ IF cut THEN Dies /\ report' = [report EXCEPT ![r] = "stale"] /\ UNCHANGED <<run, pointer>>
               ELSE Stop(r, [run[r] EXCEPT !.state = to], kind, FALSE, "never")
     /\ UNCHANGED <<work, aborts, strays>>

(* handleOverride(): a grant, or, with the budget of the run or of the item spent, a
   stop, which a later pass archives. *)
Override(r, cut) ==
  /\ AnySession(r) /\ Live(r) /\ work[r].items # "none"
  /\ \/ /\ cut = "never" /\ run[r].overrides < OverrideCap
        /\ run' = [run EXCEPT ![r].overrides = @ + 1]
        /\ LivesOn /\ UNCHANGED <<report, pointer>>
     \/ /\ run[r].overrides > 0 \/ OverrideCap = 0
        /\ Stop(r, run[r], "env", FALSE, cut)
  /\ UNCHANGED <<work, aborts, strays>>
-----------------------------------------------------------------------------
(* The engine.  Its events come between the calls of the orchestrator.     *)

(* handleOrchestratorTurn() at the limit of turns without a move *)
TurnStalls(r, cut) ==
  /\ AtWork(r) /\ Live(r)
  /\ Stop(r, run[r], "noop", ~QuestionOpen(work[r]), cut)
  /\ UNCHANGED <<work, aborts, strays>>

(* handleSessionIdle() on what the operator's answer file made of the run: rec and w. *)

\* The halt file is there: it outranks everything but a closed run.
IdleHalts(r, rec, cut) == ~Terminal(rec) /\ Stop(r, rec, "interrupt", TRUE, cut)

\* A closed run is archived, unless it waits for an answer.
IdleCloses(r, rec, w) ==
  /\ Terminal(rec)
  /\ Resumes(r, rec) /\ LivesOn
  /\ pointer' = IF WaitingForAnAnswer(rec, w) THEN pointer ELSE NoRun

\* A futile run is archived whatever it waits for.
IdleStops(r, rec, w, futile, cut) ==
  LET kind == Verdict(rec, w, futile)
  IN /\ ~Terminal(rec) /\ kind \in ResumableStops
     /\ Stop(r, rec, kind, kind = "noop" \/ ~QuestionOpen(w), cut)

\* env verdicts are not the engine's to record: it re-prompts, or is held back by the
\* latch or the debounce, or gives up a transport that failed too often.
Unstopped(rec, w) == ~Terminal(rec) /\ Verdict(rec, w, FALSE) \in {"none", "env"}
IdlePrompts(r, rec, w) == Unstopped(rec, w) /\ Resumes(r, rec) /\ LivesOn /\ UNCHANGED pointer
IdleGivesUp(r, rec, w, cut) == Unstopped(rec, w) /\ Stop(r, rec, "env", TRUE, cut)

IdlePass(r, heard) ==
  LET rec == IF heard THEN Revived(run[r]) ELSE run[r]
      w == IF heard THEN Answered(work[r]) ELSE work[r]
  IN /\ AtWork(r) /\ (heard => QuestionOpen(work[r]))
     /\ work' = [work EXCEPT ![r] = w]
     /\ \/ IdleCloses(r, rec, w) \/ IdlePrompts(r, rec, w)
        \/ \E cut \in Cuts : \/ IdleHalts(r, rec, cut) \/ IdleGivesUp(r, rec, w, cut)
                             \/ \E futile \in BOOLEAN : IdleStops(r, rec, w, futile, cut)
     /\ UNCHANGED <<aborts, strays>>

\* ingestAnswerFiles() cut after the revival; cut before it, as in Answer.
IngestCut(r) ==
  /\ AtWork(r) /\ QuestionOpen(work[r])
  /\ work' = [work EXCEPT ![r] = Answered(@)]
  /\ Resumes(r, Revived(run[r])) /\ Dies
  /\ UNCHANGED <<pointer, aborts, strays>>
-----------------------------------------------------------------------------
RunNext ==
  \/ Kill \/ Open \/ Abort
  \/ \E c \in calls : Reply(c)
  \/ \E r \in Runs :
       \/ \E tool \in Tools : StartCall(tool, r)
       \/ DispatchWave(r) \/ Progress(r) \/ Surface(r) \/ IngestCut(r)
       \/ \E cut \in BOOLEAN : \/ CreateRun(r, cut) \/ Answer(r, cut)
                               \/ \E kind \in StopKinds : Report(r, kind, cut)
       \/ \E cut \in Cuts : Override(r, cut) \/ TurnStalls(r, cut)
       \/ \E heard \in BOOLEAN : IdlePass(r, heard)

RunSpec == RunInit /\ [][RunNext]_runVars
-----------------------------------------------------------------------------
(* Types. *)
RunTypes ==
  /\ run \in [Runs -> RunRecord] /\ work \in [Runs -> WorkRecord]
  /\ report \in [Runs -> {"none", "current", "stale"}] /\ pointer \in Runs \cup {NoRun}
  /\ up \in BOOLEAN /\ calls \subseteq Call /\ kills \in 0..MaxKills /\ aborts \in 0..MaxAborts
  /\ strays \subseteq Runs

\* A planning call ends and saves a run.json that has changed since it was loaded.
StaleSave(r) == \E c \in calls : c.run = r /\ c.copy # run[r] /\ c \notin calls' /\ up'

Edges == {<<"unborn", "INTAKE">>, <<"INTAKE", "DECOMPOSED">>, <<"INTAKE", "ANSWERED">>,
          <<"INTAKE", "EXECUTING">>, <<"DECOMPOSED", "PLANNED">>, <<"PLANNED", "PLAN_REVIEWED">>,
          <<"PLAN_REVIEWED", "EXECUTING">>, <<"EXECUTING", "REPORTED">>,
          <<"EXECUTING", "TRIVIAL_DONE">>}

(* A run changes its state along the edges of fsm-run.ts only, and a stopped run does
   not, whatever the order of calls, aborts, kills and idle passes.  Two exceptions, both
   in the code: conductor_classify does not ask for a stop, and a planning call that
   outlives a change of run.json saves its older copy. *)
StatesMoveForward ==
  [][\A r \in Runs : run'[r].state # run[r].state =>
       \/ StaleSave(r)
       \/ /\ <<run[r].state, run'[r].state>> \in Edges
          /\ run[r].stop = "none" \/ (run[r].state = "INTAKE" /\ ~run[r].classified)]_runVars

(* A recorded stop is lifted or replaced only by the answer to the question the run waits
   for, and only if it is of a kind an answer may revive and the run is not closed; a
   stale save of a planning call is the exception. *)
StopsStand ==
  [][\A r \in Runs : run[r].stop # "none" /\ run'[r].stop # run[r].stop =>
       \/ StaleSave(r)
       \/ WaitingForAnAnswer(run[r], work[r]) /\ work'[r].question = "answered"]_runVars

(* As long as a process is up, every stopped run has a report.md, of that very stop unless
   a kill came between; and every live run is the one the pointer names, so that the
   engine sees it.  Not so for a run whose creation was cut, or that a stale save wrote. *)
RunsAreAccountedFor ==
  /\ up => \A r \in Runs : run[r].stop # "none" => report[r] # "none"
  /\ \A r \in Runs \ strays : /\ kills = 0 /\ run[r].stop # "none" => report[r] = "current"
                              /\ Live(r) => pointer = r

(* A run that claims a queue has its items, whichever write a kill cut. *)
ItemsPrecedeTheState ==
  \A r \in Runs :
    run[r].state \in {"DECOMPOSED", "PLANNED", "PLAN_REVIEWED", "EXECUTING", "REPORTED", "TRIVIAL_DONE"}
      => work[r].items # "none"
=============================================================================
