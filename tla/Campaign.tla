------------------------------ MODULE Campaign ------------------------------
(* The benchmark campaign (scripts/conductor_bench.py): the driver walks the  *)
(* plan, runs one model process per cell in a work tree of its own, measures  *)
(* the tree with hidden tests and records one row per cell; a campaign that   *)
(* dies is launched again and skips the cells it has recorded.  Model, task   *)
(* and capability are fixed: a cell is an arm at a repetition.                *)
EXTENDS Integers, FiniteSets, Sequences

CONSTANTS
    Arms,           \* the arms in the order the plan interleaves them
    Reps,           \* repetitions of every arm
    MaxTrials,      \* bound: calls of run_cell
    MaxDeaths       \* bound: deaths of the driver

ASSUME CampaignAssumption ==
    /\ Len(Arms) > 0 /\ Reps \in Nat \ {0}
    /\ MaxTrials \in Nat /\ MaxDeaths \in Nat

VARIABLES
    results,    \* the cell's result file: a row, nothing, or what a death left of a write
    step,       \* of the driver: "down", "pick", "run", "check", "gauge", "write"
    cell,       \* the position in the plan
    trial,      \* the calls of run_cell so far; the last one is under way
    agents,     \* the opencode processes that live, each with its run and its cell
    calling,    \* the runs with a request at the router
    logged,     \* the runs with a line in the router's ledger
    window,     \* whose lines come after ledger_before
    hands,      \* the runs that edited the cell's tree since it was seeded
    found,      \* what the trial cannot tell from its own: a "tenant" of its tree, a
                \* "stranger" at the router, a ledger it is "blind" to
    end,        \* how the model's process ended and what it left
    row,        \* the record of run_cell
    serving,    \* the router answers
    deaths

campaignVars ==
    <<results, step, cell, trial, agents, calling, logged, window, hands, found, end, row,
      serving, deaths>>

\* build_run_plan(): repetition-major, arms interleaved.
RunPlan == [n \in 1..(Reps * Len(Arms)) |->
            [rep |-> ((n - 1) \div Len(Arms)) + 1, arm |-> Arms[((n - 1) % Len(Arms)) + 1]]]
Cells == DOMAIN RunPlan
Stratum(c) == {d \in Cells : RunPlan[d].rep = RunPlan[c].rep}

NoRow == [outcome |-> "none"]
TornRow == [outcome |-> "torn"]
NoEnd == [how |-> "running", left |-> "finished", denied |-> FALSE]
HasARow(c) == results[c].outcome \notin {"none", "torn"}

InTree == {a \in agents : a.cell = cell}

-----------------------------------------------------------------------------
(* The driver: run_benchmark() and run_cell(). *)

StartDriver ==
    /\ step = "down" /\ trial < MaxTrials
    /\ step' = "pick" /\ cell' = 1 /\ serving' = TRUE
    /\ UNCHANGED <<results, trial, agents, calling, logged, window, hands, found, end, row, deaths>>

\* A cell whose result file exists is taken as it is.
Skip ==
    /\ step = "pick" /\ cell \in Cells /\ HasARow(cell)
    /\ cell' = cell + 1
    /\ UNCHANGED <<results, step, trial, agents, calling, logged, window, hands, found, end,
                   row, serving, deaths>>

\* json.loads() of a file that a death cut short, or the report: the driver ends.
Finished ==
    /\ step = "pick" /\ (cell \in Cells => results[cell] = TornRow)
    /\ step' = "down"
    /\ UNCHANGED <<results, cell, trial, agents, calling, logged, window, hands, found, end,
                   row, serving, deaths>>

\* The cell's directory is created again, seeded and committed, the ledger's length
\* noted, 0 when it cannot be opened, and opencode spawned in a session of its own.
\* Nobody looks whether a process of an earlier trial lives or is waiting for an answer.
BeginTrial(spawned, legible) ==
    /\ step = "pick" /\ cell \in Cells /\ results[cell] = NoRow /\ trial < MaxTrials
    /\ trial' = trial + 1 /\ hands' = {}
    /\ window' = IF legible THEN {} ELSE logged
    /\ found' = (IF InTree # {} THEN {"tenant"} ELSE {})
                \cup (IF agents # {} \/ calling # {} THEN {"stranger"} ELSE {})
                \cup (IF legible THEN {} ELSE {"blind"})
    /\ IF spawned
       THEN agents' = agents \cup {[run |-> trial + 1, cell |-> cell]} /\ step' = "run" /\ end' = NoEnd
       ELSE UNCHANGED agents /\ step' = "check" /\ end' = [NoEnd EXCEPT !.how = "spawn error"]
    /\ UNCHANGED <<results, cell, calling, logged, row, serving, deaths>>

\* Mutant: only what the model's process left behind is a fault.
FaultOfTheProcess(legible) ==
    \/ end.denied
    \/ RunPlan[cell].arm = "conductor" /\ end.how # "timed out" /\ end.left = "unfinished"

\* The fault that is the harness's and not the arm's: a refused call in the
\* cell's own tree, no request of the model, or a conductor run that ended
\* inside its clock neither terminal nor stopped.  A ledger that cannot be opened
\* says nothing of the requests, and is no fault.
Fault(legible) ==
    \/ end.denied
    \/ legible /\ window = {}
    \/ RunPlan[cell].arm = "conductor" /\ end.how # "timed out" /\ end.left = "unfinished"

\* score_cell() without a gauge, and with the verdict of one.
Score(verdict, legible) ==
    IF Fault(legible) \/ end.how = "spawn error" THEN "harness-error"
    ELSE IF end.how = "timed out" THEN "timeout"
    ELSE verdict

\* The row.  `own`, `alone` and `private` record what the result file does not:
\* that the window holds a request of this run, that no other run edited the tree,
\* and that no model lived in it when the hidden tests were written there; `found`
\* what the trial could not tell.
Row(verdict, private, legible) ==
    [outcome |-> Score(verdict, legible),
     absent |-> RunPlan[cell].arm = "conductor" /\ end.left = "absent",
     own |-> trial \in window, alone |-> hands \subseteq {trial}, private |-> private,
     found |-> found \cup (IF legible THEN {} ELSE {"blind"})]

\* With a process that ran, the hidden files are written into the tree.
Check(legible) ==
    /\ step = "check"
    /\ row' = Row("fail", InTree = {}, legible)
    /\ step' = IF end.how = "spawn error" THEN "write" ELSE "gauge"
    /\ UNCHANGED <<results, cell, trial, agents, calling, logged, window, hands, found, end,
                   serving, deaths>>

\* The hidden tests never pass on the seed (verify_tasks); they may run into the
\* clock or not start.
Gauge(verdict) ==
    /\ step = "gauge"
    /\ verdict = "pass" => hands # {}
    /\ row' = [row EXCEPT !.outcome = IF @ = "fail" THEN verdict ELSE @,
                          !.alone = hands \subseteq {trial}]
    /\ step' = "write"
    /\ UNCHANGED <<results, cell, trial, agents, calling, logged, window, hands, found, end,
                   serving, deaths>>

\* write_result(), and on to the next cell, whose directory is another one.
Write ==
    /\ step = "write"
    /\ results' = [results EXCEPT ![cell] = row]
    /\ step' = "pick" /\ cell' = cell + 1 /\ hands' = {} /\ found' = {}
    /\ row' = NoRow /\ end' = NoEnd
    /\ UNCHANGED <<trial, agents, calling, logged, window, serving, deaths>>

\* The driver dies or is interrupted.  opencode leads a session of its own and
\* is not reached; a result file may be cut short.
DriverDies ==
    /\ step # "down" /\ deaths < MaxDeaths
    /\ deaths' = deaths + 1 /\ step' = "down"
    /\ found' = {} /\ row' = NoRow /\ end' = NoEnd
    /\ results' \in {results} \cup (IF step = "write" THEN {[results EXCEPT ![cell] = TornRow]} ELSE {})
    /\ UNCHANGED <<cell, trial, agents, calling, logged, window, hands, serving>>

-----------------------------------------------------------------------------
(* The model's process and the router. *)

\* A line in the ledger, for every request of these runs.
Log(runs) == logged' = logged \cup runs /\ window' = window \cup runs

\* A request whose client is gone: it is logged at once, or later.
Dropped(r) ==
    \/ calling' = calling \ {r} /\ Log({r} \cap calling)
    \/ r \in calling /\ UNCHANGED <<calling, logged, window>>

Ends(a, how) ==
    /\ agents' = agents \ {a}
    /\ Dropped(a.run)
    /\ IF a.run = trial /\ step = "run"
       THEN /\ step' = "check"
            /\ end' \in [how : {how}, left : {"finished", "unfinished", "absent"}, denied : BOOLEAN]
       ELSE how = "exited" /\ UNCHANGED <<step, end>>
    /\ UNCHANGED <<results, cell, trial, hands, found, row, serving, deaths>>

\* The process exits by itself, waiting for no answer.
Exit(a) == a.run \notin calling /\ Ends(a, "exited")

\* The wall clock: the process group is killed.
KillTheGroup(a) == step = "run" /\ a.run = trial /\ Ends(a, "timed out")

Ask(a) ==
    /\ serving /\ a.run \notin calling
    /\ calling' = calling \cup {a.run}
    /\ UNCHANGED <<results, step, cell, trial, agents, logged, window, hands, found, end, row,
                   serving, deaths>>

Logged(r) ==
    /\ serving
    /\ calling' = calling \ {r} /\ Log({r})
    /\ UNCHANGED <<results, step, cell, trial, agents, hands, found, end, row, serving, deaths>>

EditTree(a) ==
    /\ a.cell = cell /\ step \in {"run", "check", "gauge"} /\ a.run \notin hands
    /\ hands' = hands \cup {a.run}
    /\ UNCHANGED <<results, step, cell, trial, agents, calling, logged, window, found, end, row,
                   serving, deaths>>

\* The router falls, and its requests with it; a supervisor starts it again.
Falls ==
    /\ serving /\ serving' = FALSE /\ calling' = {}
    /\ UNCHANGED <<results, step, cell, trial, agents, logged, window, hands, found, end, row,
                   deaths>>

Rises ==
    /\ ~serving /\ serving' = TRUE
    /\ UNCHANGED <<results, step, cell, trial, agents, calling, logged, window, hands, found,
                   end, row, deaths>>

CampaignInit ==
    /\ results = [c \in Cells |-> NoRow]
    /\ step = "down" /\ cell = 1 /\ trial = 0
    /\ agents = {} /\ calling = {} /\ logged = {} /\ window = {} /\ hands = {} /\ found = {}
    /\ end = NoEnd /\ row = NoRow /\ serving = FALSE /\ deaths = 0

CampaignNext ==
    \/ StartDriver \/ Skip \/ Finished \/ Write \/ DriverDies \/ Falls \/ Rises
    \/ \E spawned, legible \in BOOLEAN : BeginTrial(spawned, legible)
    \/ \E legible \in BOOLEAN : Check(legible)
    \/ \E verdict \in {"pass", "fail", "timeout", "harness-error"} : Gauge(verdict)
    \/ \E a \in agents : Exit(a) \/ KillTheGroup(a) \/ Ask(a) \/ EditTree(a)
    \/ \E r \in calling : Logged(r)

CampaignSpec == CampaignInit /\ [][CampaignNext]_campaignVars

-----------------------------------------------------------------------------
(* Properties. *)

\* exclusion_reason(): one predicate for every arm.
Excluded(r) == r.outcome = "harness-error" \/ r.absent

\* aggregate(): the rows that enter a pass rate.  An excluded cell takes its
\* stratum with it, and a timeout is a cost and not an answer.
Counted == {c \in Cells :
    /\ HasARow(c) /\ results[c].outcome # "timeout"
    /\ \A d \in Stratum(c) : HasARow(d) => ~Excluded(results[d])}

\* The arms are compared on rows that say something of the arm.  A row that is counted
\* is of a tree that this run alone had edited since the seed and that no model could
\* read the hidden tests in, unless a process of an earlier trial of the cell had the
\* tree when it began, which takes a death of the driver; and it is of a run that
\* reached the model, unless another run had a process or a request when it began or
\* the ledger could not be opened.  Deaths, resumptions, a router that falls and lines
\* that come after their client was killed included.
CountedRowsAreOfTheirRun == \A c \in Counted :
    LET r == results[c]
    IN  /\ "tenant" \notin r.found => r.alone /\ r.private
        /\ "tenant" \in r.found => deaths > 0
        /\ r.found \cap {"stranger", "blind"} = {} => r.own
=============================================================================
