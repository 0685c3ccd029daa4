------------------------- MODULE RunLifecycleProofs -------------------------
(***************************************************************************)
(* Proofs about the life of a run: the types, the order of its states, the *)
(* stops, the items and the reports, for any runs, caps, aborts and kills. *)
(***************************************************************************)
EXTENDS RunLifecycle, TLAPS

(* A planning call under way is one of a process that is up, was legal on the copy it
   holds, and finds what it will claim: the items of its queue, the report of its stop. *)
CallSound(c) ==
  /\ CallLegal(c.tool, c.copy)
  /\ c.tool \in {"plan", "plan_review"} => work[c.run].items # "none"
  /\ c.copy.stop # "none" => report[c.run] # "none"

CallsInv == /\ calls # {} => up
            /\ \A c \in calls : CallSound(c)

(* Nothing happens to a run before it is created, and the pointer names a created one. *)
BornInv == /\ \A r \in Runs : run[r].state = "unborn" => run[r].stop = "none"
           /\ pointer # NoRun => run[pointer].state # "unborn"

(* A stop lacks its report only while no process is up, and the pointer still names it. *)
ReportInv == /\ \A r \in Runs : run[r].stop # "none" /\ report[r] = "none" => ~up /\ pointer = r
             /\ kills = 0 => up

(* The second part of RunsAreAccountedFor. *)
UnlessStray == \A r \in Runs \ strays :
                 /\ kills = 0 /\ run[r].stop # "none" => report[r] = "current"
                 /\ Live(r) => pointer = r

Inv == RunTypes /\ CallsInv /\ BornInv /\ ItemsPrecedeTheState /\ ReportInv /\ UnlessStray
-----------------------------------------------------------------------------
(* The steps, grouped by what they do to a run. *)

\* A planning call goes on from its copy: the stop stays, the state moves along an edge.
Follows(old, new) ==
  /\ new.stop = old.stop /\ new.state # "unborn"
  /\ \/ new.state = old.state
     \/ /\ <<old.state, new.state>> \in Edges
        /\ old.stop = "none" \/ (old.state = "INTAKE" /\ ~old.classified)

Claiming == {"DECOMPOSED", "PLANNED", "PLAN_REVIEWED", "EXECUTING", "REPORTED", "TRIVIAL_DONE"}

\* No item disappears.
Keeps(old, new) == old.items # "none" => new.items # "none"

Saves(c) ==
  \E rec \in RunRecord, w \in WorkRecord, cut \in BOOLEAN :
    /\ Finish(c, rec, w, cut)
    /\ Follows(c.copy, rec) /\ Keeps(work[c.run], w)
    /\ rec.state \in Claiming => w.items # "none"

\* What an answer, heard or not, makes of the run: the stop it waits behind may go.
Heard(r, rec, w) ==
  /\ rec \in RunRecord /\ rec.state = run[r].state
  /\ w \in WorkRecord /\ Keeps(work[r], w) /\ work' = [work EXCEPT ![r] = w]
  /\ \/ rec.stop = run[r].stop
     \/ rec.stop = "none" /\ WaitingForAnAnswer(run[r], work[r]) /\ w.question = "answered"
  /\ pointer = r /\ up /\ UNCHANGED <<aborts, strays>>

Lifts(r) ==
  \E rec \in RunRecord, w \in WorkRecord :
    /\ Heard(r, rec, w) /\ Resumes(r, rec)
    /\ pointer' = pointer \/ (pointer' = NoRun /\ Terminal(rec))
    /\ LivesOn \/ Dies

Stops(r) ==
  \E rec, closed \in RunRecord, w \in WorkRecord, kind \in StopKinds,
     archives \in BOOLEAN, cut \in Cuts :
    /\ Heard(r, rec, w) /\ ~Terminal(rec)
    /\ closed = rec \/ (/\ rec.state = "EXECUTING" /\ closed.state \in {"REPORTED", "TRIVIAL_DONE"}
                        /\ rec = run[r])
    /\ Stop(r, closed, kind, archives, cut)

Grants(r) ==
  /\ Live(r) /\ up /\ run[r].overrides < OverrideCap
  /\ run' = [run EXCEPT ![r].overrides = @ + 1]
  /\ LivesOn /\ UNCHANGED <<work, report, pointer, aborts, strays>>

ReportCut(r) ==
  /\ up /\ Dies /\ report' = [report EXCEPT ![r] = "stale"]
  /\ UNCHANGED <<run, work, pointer, aborts, strays>>

Steps ==
  \/ Kill \/ Open \/ Abort
  \/ \E c \in calls : CallFails(c) \/ Saves(c) \/ Revise(c)
  \/ \E r \in Runs : \/ \E cut \in BOOLEAN : CreateRun(r, cut)
                     \/ \E tool \in Tools : StartCall(tool, r)
                     \/ DispatchWave(r) \/ Progress(r) \/ Surface(r)
                     \/ Lifts(r) \/ Stops(r) \/ Grants(r) \/ ReportCut(r)
-----------------------------------------------------------------------------
(* Helpers: what an answer makes of a run and of its items. *)
LEMMA NoRunIsNone == NoRun \notin Runs
  BY LifecycleAssumption DEF NoRun

LEMMA RevivedRecord ==
  ASSUME NEW rec \in RunRecord
  PROVE  /\ Revived(rec) \in RunRecord /\ Revived(rec).state = rec.state
         /\ Revived(rec).stop = rec.stop
              \/ (/\ Revived(rec).stop = "none" /\ rec.stop \in ResumableStops
                  /\ rec.state \notin TerminalStates)
  BY DEF Revived, RunRecord, StopKinds

LEMMA AnsweredRecord ==
  ASSUME NEW w \in WorkRecord
  PROVE  Answered(w) \in WorkRecord /\ Keeps(w, Answered(w)) /\ Answered(w).question = "answered"
  BY DEF Answered, WorkRecord, Keeps, BlockedItems

LEMMA AskedRecord ==
  ASSUME NEW w \in WorkRecord, NEW a \in AskedAbout(w)
  PROVE  a \in WorkRecord /\ (a.items = "none" <=> w.items = "none")
  BY DEF AskedAbout, WorkRecord

(* What a call makes of the run it loaded and of the items. *)
LEMMA RepliesSave ==
  ASSUME RunTypes, CallsInv, NEW c \in calls, Reply(c)
  PROVE  CallFails(c) \/ Saves(c) \/ Revise(c)
<1> c \in Call /\ c.run \in Runs /\ c.copy \in RunRecord /\ work[c.run] \in WorkRecord
  BY DEF RunTypes, Call
<1> CallLegal(c.tool, c.copy) /\ (c.tool \in {"plan", "plan_review"} => work[c.run].items # "none")
  BY DEF CallsInv, CallSound
<1>1. ASSUME Plan(c) PROVE Saves(c)
  <2> DEFINE rec == [c.copy EXCEPT !.state = "PLANNED"]
  <2>1. rec \in RunRecord /\ Follows(c.copy, rec)
    BY <1>1 DEF Plan, RunRecord, RunStates, CallLegal, Follows, Edges
  <2> QED BY <1>1, <2>1 DEF Plan, Saves, Keeps, Claiming
<1>2. ASSUME NEW kind \in Kinds, NEW cut \in BOOLEAN, Classify(c, kind, cut) PROVE Saves(c)
  <2> DEFINE to == CASE kind = "work" -> "INTAKE" [] kind = "trivial" -> "EXECUTING"
                     [] kind = "question" -> "ANSWERED"
             rec == [c.copy EXCEPT !.kind = kind, !.classified = TRUE, !.state = to]
             w == IF kind = "trivial" THEN [work[c.run] EXCEPT !.items = "open"] ELSE work[c.run]
  <2>1. /\ c.copy.state = "INTAKE" /\ ~c.copy.classified
        /\ to \in {"INTAKE", "EXECUTING", "ANSWERED"} /\ (to = "EXECUTING" => kind = "trivial")
    BY <1>2 DEF Classify, CallLegal, Kinds
  <2>2. rec \in RunRecord /\ rec.stop = c.copy.stop /\ rec.state = to
    BY <2>1 DEF RunRecord, RunStates, TerminalStates
  <2>3. Follows(c.copy, rec)
    BY <2>1, <2>2 DEF Follows, Edges
  <2>4. w \in WorkRecord /\ Keeps(work[c.run], w) /\ (rec.state \in Claiming => w.items # "none")
    BY <2>1, <2>2 DEF WorkRecord, Keeps, Claiming
  <2>5. Finish(c, rec, w, cut)
    BY <1>2 DEF Classify
  <2> QED BY <2>2, <2>3, <2>4, <2>5 DEF Saves
<1>3. ASSUME NEW cut \in BOOLEAN, Decompose(c, cut) PROVE Saves(c)
  <2> DEFINE rec == [c.copy EXCEPT !.state = "DECOMPOSED"]
             w == [work[c.run] EXCEPT !.items = "open"]
  <2>1. rec \in RunRecord /\ Follows(c.copy, rec)
    BY <1>3 DEF Decompose, RunRecord, RunStates, CallLegal, Follows, Edges
  <2>2. w \in WorkRecord /\ Keeps(work[c.run], w) /\ w.items # "none"
    BY DEF WorkRecord, Keeps
  <2> QED BY <1>3, <2>1, <2>2 DEF Decompose, Saves
<1>4. ASSUME NEW cut \in BOOLEAN, NEW w \in AskedAbout(work[c.run]) \cup {work[c.run]}, Review(c, w, cut)
      PROVE  Saves(c)
  <2> DEFINE rec == [c.copy EXCEPT !.state = "PLAN_REVIEWED"]
  <2>1. rec \in RunRecord /\ Follows(c.copy, rec)
    BY <1>4 DEF Review, RunRecord, RunStates, CallLegal, Follows, Edges
  <2>2. w \in WorkRecord /\ w.items # "none"
    BY <1>4, AskedRecord DEF Review
  <2> QED BY <1>4, <2>1, <2>2 DEF Review, Saves, Keeps
<1> QED BY <1>1, <1>2, <1>3, <1>4 DEF Reply
(* A recorded stop: the run was live, or the answer that revives it was heard. *)
LEMMA PassesEnd ==
  ASSUME RunTypes, NEW r \in Runs, NEW heard \in BOOLEAN, IdlePass(r, heard)
  PROVE  Lifts(r) \/ Stops(r)
<1> DEFINE rec == IF heard THEN Revived(run[r]) ELSE run[r]
           w == IF heard THEN Answered(work[r]) ELSE work[r]
<1>1. run[r] \in RunRecord /\ work[r] \in WorkRecord
  BY DEF RunTypes
<1>2. Heard(r, rec, w)
  <2>1. rec \in RunRecord /\ rec.state = run[r].state /\ w \in WorkRecord /\ Keeps(work[r], w)
    BY <1>1, RevivedRecord, AnsweredRecord DEF Keeps
  <2>2. \/ rec.stop = run[r].stop
        \/ rec.stop = "none" /\ WaitingForAnAnswer(run[r], work[r]) /\ w.question = "answered"
    BY <1>1, RevivedRecord, AnsweredRecord DEF IdlePass, WaitingForAnAnswer
  <2> QED BY <2>1, <2>2 DEF IdlePass, Heard, AtWork
<1>3. ASSUME IdleCloses(r, rec, w) \/ IdlePrompts(r, rec, w) PROVE Lifts(r)
  BY <1>2, <1>3 DEF IdleCloses, IdlePrompts, Lifts, Heard
<1>4. ASSUME NEW kind \in StopKinds, NEW archives \in BOOLEAN, NEW cut \in Cuts,
             ~Terminal(rec), Stop(r, rec, kind, archives, cut)
      PROVE  Stops(r)
  BY <1>2, <1>4 DEF Stops, Heard
<1>5. ASSUME NEW cut \in Cuts, IdleHalts(r, rec, cut) \/ IdleGivesUp(r, rec, w, cut) PROVE Stops(r)
  <2>1. {"interrupt", "env"} \subseteq StopKinds
    BY DEF StopKinds
  <2> QED BY <1>4, <1>5, <2>1 DEF IdleHalts, IdleGivesUp, Unstopped
<1>6. ASSUME NEW cut \in Cuts, NEW futile \in BOOLEAN, IdleStops(r, rec, w, futile, cut) PROVE Stops(r)
  <2> DEFINE kind == Verdict(rec, w, futile)
             archives == kind = "noop" \/ ~QuestionOpen(w)
  <2>1. kind \in StopKinds /\ archives \in BOOLEAN
    BY <1>6 DEF IdleStops, StopKinds
  <2>2. ~Terminal(rec) /\ Stop(r, rec, kind, archives, cut)
    BY <1>6 DEF IdleStops
  <2> HIDE DEF kind, archives, rec, w
  <2> QED BY <1>4, <2>1, <2>2
<1> HIDE DEF rec, w
<1>7. \/ IdleCloses(r, rec, w) \/ IdlePrompts(r, rec, w)
      \/ \E cut \in Cuts : \/ IdleHalts(r, rec, cut) \/ IdleGivesUp(r, rec, w, cut)
                           \/ \E futile \in BOOLEAN : IdleStops(r, rec, w, futile, cut)
  BY DEF IdlePass, rec, w
<1> QED BY <1>3, <1>5, <1>6, <1>7

(* Every other action of the tools and of the engine. *)
LEMMA ToolsStep ==
  ASSUME RunTypes, CallsInv, NEW r \in Runs
  PROVE  /\ IngestCut(r) => Lifts(r)
         /\ \A cut \in BOOLEAN : Answer(r, cut) => Lifts(r)
         /\ \A cut \in BOOLEAN, kind \in StopKinds : Report(r, kind, cut) => Stops(r) \/ ReportCut(r)
         /\ \A cut \in Cuts : Override(r, cut) => Grants(r) \/ Stops(r)
         /\ \A cut \in Cuts : TurnStalls(r, cut) => Stops(r)
<1>1. /\ run[r] \in RunRecord /\ work[r] \in WorkRecord
      /\ run = [run EXCEPT ![r] = run[r]] /\ work = [work EXCEPT ![r] = work[r]]
      /\ report = [report EXCEPT ![r] = report[r]] /\ Keeps(work[r], work[r])
  BY DEF RunTypes, Keeps
<1>2. /\ Revived(run[r]) \in RunRecord /\ Revived(run[r]).state = run[r].state
      /\ Answered(work[r]) \in WorkRecord /\ Keeps(work[r], Answered(work[r]))
      /\ Answered(work[r]).question = "answered"
      /\ QuestionOpen(work[r]) =>
           \/ Revived(run[r]).stop = run[r].stop
           \/ Revived(run[r]).stop = "none" /\ WaitingForAnAnswer(run[r], work[r])
  BY <1>1, RevivedRecord, AnsweredRecord DEF WaitingForAnAnswer
<1>3. IngestCut(r) => Lifts(r)
  BY <1>2 DEF IngestCut, AtWork, Lifts, Heard
<1>4. ASSUME NEW cut \in BOOLEAN, Answer(r, cut) PROVE Lifts(r)
  <2>1. \/ Resumes(r, run[r]) \/ Resumes(r, Revived(run[r]))
    BY <1>1, <1>4 DEF Answer, Resumes
  <2>2. pointer = r /\ up /\ QuestionOpen(work[r]) /\ UNCHANGED <<pointer, aborts, strays>>
        /\ work' = [work EXCEPT ![r] = Answered(work[r])] /\ (LivesOn \/ Dies)
    BY <1>4 DEF Answer, AtWork
  <2>3. Heard(r, run[r], Answered(work[r])) /\ Heard(r, Revived(run[r]), Answered(work[r]))
    BY <1>1, <1>2, <2>2 DEF Heard
  <2> QED BY <1>1, <1>2, <2>1, <2>2, <2>3 DEF Lifts
<1>5. pointer = r /\ up /\ UNCHANGED <<work, aborts, strays>> => Heard(r, run[r], work[r])
  BY <1>1 DEF Heard
<1>6. ASSUME NEW kind \in StopKinds, NEW cut \in BOOLEAN, Report(r, kind, cut)
      PROVE  Stops(r) \/ ReportCut(r)
  <2> DEFINE to == IF run[r].kind = "trivial" THEN "TRIVIAL_DONE" ELSE "REPORTED"
             closed == [run[r] EXCEPT !.state = to]
  <2>1. CASE cut
    BY <1>6, <2>1 DEF Report, ReportCut, AtWork
  <2>2. CASE ~cut
    <3>1. pointer = r /\ up /\ ~Terminal(run[r]) /\ run[r].state = "EXECUTING"
          /\ Stop(r, closed, kind, FALSE, "never") /\ UNCHANGED <<work, aborts, strays>>
      BY <1>6, <2>2 DEF Report, AtWork, Live, ReportLegal
    <3>2. closed \in RunRecord /\ closed.state \in {"REPORTED", "TRIVIAL_DONE"} /\ "never" \in Cuts
      BY <1>1 DEF RunRecord, RunStates, TerminalStates, Cuts
    <3> HIDE DEF closed
    <3> QED BY <1>1, <1>5, <3>1, <3>2 DEF Stops
  <2> QED BY <2>1, <2>2
<1>7. ASSUME NEW cut \in Cuts, Override(r, cut) PROVE Grants(r) \/ Stops(r)
  <2>1. pointer = r /\ up /\ ~Terminal(run[r]) /\ Live(r) /\ UNCHANGED <<work, aborts, strays>>
    BY <1>7 DEF Override, AnySession, AtWork, CallsInv, Live
  <2>2. \/ Stop(r, run[r], "env", FALSE, cut)
        \/ /\ run[r].overrides < OverrideCap /\ run' = [run EXCEPT ![r].overrides = @ + 1]
           /\ LivesOn /\ UNCHANGED <<report, pointer>>
    BY <1>7 DEF Override
  <2>3. "env" \in StopKinds /\ FALSE \in BOOLEAN
    BY DEF StopKinds
  <2> QED BY <1>1, <1>5, <2>1, <2>2, <2>3 DEF Stops, Grants
<1>8. ASSUME NEW cut \in Cuts, TurnStalls(r, cut) PROVE Stops(r)
  <2>1. pointer = r /\ up /\ ~Terminal(run[r]) /\ UNCHANGED <<work, aborts, strays>>
        /\ Stop(r, run[r], "noop", ~QuestionOpen(work[r]), cut)
    BY <1>8 DEF TurnStalls, AtWork, Live
  <2>2. "noop" \in StopKinds /\ (~QuestionOpen(work[r])) \in BOOLEAN
    BY DEF StopKinds, ResumableStops
  <2> QED BY <1>1, <1>5, <2>1, <2>2 DEF Stops
<1> QED BY <1>3, <1>4, <1>6, <1>7, <1>8

LEMMA NextIsSteps == RunTypes /\ CallsInv /\ RunNext => Steps
<1> SUFFICES ASSUME RunTypes, CallsInv, RunNext PROVE Steps
  OBVIOUS
<1>1. ASSUME NEW r \in Runs, NEW heard \in BOOLEAN, IdlePass(r, heard) PROVE Lifts(r) \/ Stops(r)
  BY <1>1, PassesEnd
<1>2. ASSUME NEW c \in calls, Reply(c) PROVE Steps
  BY <1>2, RepliesSave DEF Steps
<1>3. ASSUME NEW r \in Runs,
             \/ \E tool \in Tools : StartCall(tool, r)
             \/ DispatchWave(r) \/ Progress(r) \/ Surface(r)
             \/ \E cut \in BOOLEAN : CreateRun(r, cut)
      PROVE  Steps
  BY <1>3 DEF Steps
<1>4. ASSUME NEW r \in Runs, Lifts(r) \/ Stops(r) \/ Grants(r) \/ ReportCut(r) PROVE Steps
  BY <1>4 DEF Steps
<1>5. ASSUME NEW r \in Runs, IngestCut(r) PROVE Steps
  BY <1>4, <1>5, ToolsStep
<1>7. ASSUME NEW r \in Runs, NEW cut \in BOOLEAN, Answer(r, cut) PROVE Steps
  BY <1>4, <1>7, ToolsStep
<1>8. ASSUME NEW r \in Runs, NEW cut \in BOOLEAN, NEW kind \in StopKinds, Report(r, kind, cut)
      PROVE  Steps
  <2>1. \A b \in BOOLEAN, k \in StopKinds : Report(r, k, b) => Stops(r) \/ ReportCut(r)
    BY ToolsStep
  <2>2. Stops(r) \/ ReportCut(r)
    BY <1>8, <2>1
  <2> QED BY <1>4, <2>2
<1>9. ASSUME NEW r \in Runs, NEW cut \in Cuts, Override(r, cut) PROVE Steps
  <2>1. \A k \in Cuts : Override(r, k) => Grants(r) \/ Stops(r)
    BY ToolsStep
  <2> QED BY <1>4, <1>9, <2>1
<1>10. ASSUME NEW r \in Runs, NEW cut \in Cuts, TurnStalls(r, cut) PROVE Steps
  BY <1>4, <1>10, ToolsStep
<1>6. ASSUME Kill \/ Open \/ Abort PROVE Steps
  BY <1>6 DEF Steps
<1> QED BY <1>1, <1>2, <1>3, <1>4, <1>5, <1>6, <1>7, <1>8, <1>9, <1>10 DEF RunNext
-----------------------------------------------------------------------------
(* Types. *)
LEMMA DiesTyped == RunTypes /\ Dies => up' \in BOOLEAN /\ calls' \subseteq Call /\ kills' \in 0..MaxKills
<1> SUFFICES ASSUME RunTypes, Dies PROVE up' \in BOOLEAN /\ calls' \subseteq Call /\ kills' \in 0..MaxKills
  OBVIOUS
<1>1. MaxKills \in Nat
  BY LifecycleAssumption
<1>2. kills' \in 0..MaxKills
  BY <1>1 DEF RunTypes, Dies
<1> QED BY <1>2 DEF Dies

LEMMA LivesOnTyped == RunTypes /\ LivesOn => up' \in BOOLEAN /\ calls' \subseteq Call /\ kills' \in 0..MaxKills
  BY DEF RunTypes, LivesOn

LEMMA SaveTyped ==
  ASSUME RunTypes, NEW c \in Call, NEW rec \in RunRecord, Save(c, rec)
  PROVE  run' \in [Runs -> RunRecord] /\ strays' \subseteq Runs
  BY DEF RunTypes, Save, Call

LEMMA OutdatedTyped ==
  ASSUME NEW r \in Runs PROVE Outdated(r) \in {"none", "current", "stale"}
  BY DEF Outdated

LEMMA TypeStep == RunTypes /\ Steps => RunTypes'
<1> SUFFICES ASSUME RunTypes, Steps PROVE RunTypes'
  OBVIOUS
<1> USE LifecycleAssumption
<1>1. CASE Kill
  BY <1>1, DiesTyped DEF RunTypes, Kill, disk
<1>2. CASE Open
  BY <1>2 DEF RunTypes, Open
<1>3. CASE Abort
  <2>1. calls' \subseteq Call
    <3>1. ASSUME NEW c \in calls PROVE [c EXCEPT !.left = TRUE] \in Call
      BY DEF RunTypes, Call
    <3> QED BY <1>3, <3>1 DEF Abort
  <2>2. aborts' \in 0..MaxAborts
    BY <1>3, LifecycleAssumption DEF Abort, RunTypes
  <2> QED BY <1>3, <2>1, <2>2 DEF RunTypes, Abort, disk
<1>4. ASSUME NEW c \in calls, CallFails(c) PROVE RunTypes'
  BY <1>4 DEF RunTypes, CallFails, disk
<1>5. ASSUME NEW c \in calls, Saves(c) PROVE RunTypes'
  <2>1. PICK rec \in RunRecord, w \in WorkRecord, cut \in BOOLEAN : Finish(c, rec, w, cut)
    BY <1>5 DEF Saves
  <2>2. c \in Call
    BY DEF RunTypes
  <2>3. CASE cut
    BY <2>1, <2>3, DiesTyped DEF RunTypes, Finish
  <2>4. CASE ~cut
    <3>1. Save(c, rec)
      BY <2>1, <2>4 DEF Finish
    <3> QED BY <2>1, <2>2, <2>4, <3>1, SaveTyped DEF RunTypes, Finish
  <2> QED BY <2>3, <2>4
<1>6. ASSUME NEW c \in calls, Revise(c) PROVE RunTypes'
  <2> DEFINE rec == [c.copy EXCEPT !.rounds = @ + 1]
             after == [c EXCEPT !.copy = rec]
  <2>1. c \in Call /\ c.copy \in RunRecord /\ c.copy.rounds < ReviewRounds
    BY <1>6 DEF RunTypes, Call, Revise
  <2>2. rec \in RunRecord
    BY <2>1 DEF RunRecord
  <2>3. after \in Call
    BY <2>1, <2>2 DEF Call
  <2>4. Save(c, rec) /\ calls' = (calls \ {c}) \cup {after} /\ UNCHANGED <<work, report, pointer, up, kills, aborts>>
    BY <1>6 DEF Revise
  <2> HIDE DEF rec, after
  <2> QED BY <2>1, <2>2, <2>3, <2>4, SaveTyped DEF RunTypes
<1>7. ASSUME NEW r \in Runs, NEW cut \in BOOLEAN, CreateRun(r, cut) PROVE RunTypes'
  <2>1. run' \in [Runs -> RunRecord]
    BY <1>7 DEF CreateRun, RunTypes, RunRecord, RunStates
  <2>2. /\ pointer' \in Runs \cup {NoRun} /\ strays' \subseteq Runs /\ UNCHANGED <<work, report, aborts>>
        /\ Dies \/ LivesOn
    BY <1>7 DEF CreateRun, RunTypes
  <2> QED BY <2>1, <2>2, DiesTyped, LivesOnTyped DEF RunTypes
<1>8. ASSUME NEW r \in Runs, NEW tool \in Tools, StartCall(tool, r) PROVE RunTypes'
  <2>1. [tool |-> tool, run |-> r, copy |-> run[r], left |-> FALSE] \in Call
    BY DEF RunTypes, Call
  <2> QED BY <1>8, <2>1 DEF RunTypes, StartCall, disk
<1>9. ASSUME NEW r \in Runs, DispatchWave(r) PROVE RunTypes'
  <2>1. run' \in [Runs -> RunRecord]
    BY <1>9 DEF DispatchWave, RunTypes, RunRecord, RunStates
  <2> QED BY <1>9, <2>1 DEF RunTypes, DispatchWave
<1>10. ASSUME NEW r \in Runs, Progress(r) PROVE RunTypes'
  <2>1. work' \in [Runs -> WorkRecord]
    BY <1>10 DEF Progress, RunTypes, WorkRecord
  <2> QED BY <1>10, <2>1 DEF RunTypes, Progress
<1>11. ASSUME NEW r \in Runs, Surface(r) PROVE RunTypes'
  <2>1. work' \in [Runs -> WorkRecord]
    BY <1>11, AskedRecord DEF Surface, RunTypes
  <2> QED BY <1>11, <2>1 DEF RunTypes, Surface
<1>12. ASSUME NEW r \in Runs, Lifts(r) PROVE RunTypes'
  <2>1. PICK rec \in RunRecord, w \in WorkRecord :
          /\ Heard(r, rec, w) /\ Resumes(r, rec)
          /\ pointer' = pointer \/ (pointer' = NoRun /\ Terminal(rec))
          /\ LivesOn \/ Dies
    BY <1>12 DEF Lifts
  <2>2. run' \in [Runs -> RunRecord] /\ work' \in [Runs -> WorkRecord]
        /\ report' \in [Runs -> {"none", "current", "stale"}]
    BY <2>1, OutdatedTyped DEF RunTypes, Heard, Resumes
  <2> QED BY <2>1, <2>2, DiesTyped, LivesOnTyped DEF RunTypes, Heard
<1>13. ASSUME NEW r \in Runs, Stops(r) PROVE RunTypes'
  <2>1. PICK rec \in RunRecord, closed \in RunRecord, w \in WorkRecord, kind \in StopKinds,
             archives \in BOOLEAN, cut \in Cuts :
          Heard(r, rec, w) /\ Stop(r, closed, kind, archives, cut)
    BY <1>13 DEF Stops
  <2>2. [closed EXCEPT !.stop = kind] \in RunRecord
    BY DEF RunRecord
  <2>3. run' \in [Runs -> RunRecord] /\ work' \in [Runs -> WorkRecord]
        /\ report' \in [Runs -> {"none", "current", "stale"}]
    BY <2>1, <2>2, OutdatedTyped DEF RunTypes, Heard, Stop
  <2>4. pointer' \in Runs \cup {NoRun} /\ (LivesOn \/ Dies) /\ UNCHANGED <<aborts, strays>>
    BY <2>1 DEF RunTypes, Heard, Stop
  <2> QED BY <2>3, <2>4, DiesTyped, LivesOnTyped DEF RunTypes
<1>14. ASSUME NEW r \in Runs, Grants(r) PROVE RunTypes'
  <2>1. run' \in [Runs -> RunRecord]
    BY <1>14 DEF Grants, RunTypes, RunRecord
  <2> QED BY <1>14, <2>1, LivesOnTyped DEF RunTypes, Grants
<1>15. ASSUME NEW r \in Runs, ReportCut(r) PROVE RunTypes'
  BY <1>15, DiesTyped DEF RunTypes, ReportCut
<1> QED BY <1>1, <1>2, <1>3, <1>4, <1>5, <1>6, <1>7, <1>8, <1>9, <1>10, <1>11, <1>12, <1>13, <1>14,
           <1>15 DEF Steps
-----------------------------------------------------------------------------
(* The inductive invariant. *)

(* What no step takes back.  A call stays sound because of it. *)
Monotone ==
  \A r \in Runs : /\ report[r] # "none" => report'[r] # "none"
                  /\ Keeps(work[r], work'[r])
                  /\ run[r].state # "unborn" => run'[r].state # "unborn"

LEMMA OutdatedStays ==
  ASSUME NEW r \in Runs PROVE Outdated(r) = "none" <=> report[r] = "none"
  BY DEF Outdated

\* What a review that goes on saves.
LEMMA RevisedRecord ==
  ASSUME RunTypes, CallsInv, NEW c \in calls, Revise(c)
  PROVE  \E rec \in RunRecord :
           /\ rec # c.copy /\ rec.stop = c.copy.stop /\ rec.state = c.copy.state
           /\ CallLegal(c.tool, rec) /\ rec.state = "PLANNED" /\ c.tool = "plan_review"
           /\ Save(c, rec) /\ calls' = (calls \ {c}) \cup {[c EXCEPT !.copy = rec]}
           /\ UNCHANGED <<work, report, pointer, up, kills, aborts>>
<1> DEFINE rec == [c.copy EXCEPT !.rounds = @ + 1]
<1>1. c.copy \in RunRecord /\ c.tool = "plan_review" /\ c.copy.rounds < ReviewRounds
  BY DEF RunTypes, Call, Revise
<1>2. rec \in RunRecord /\ rec.stop = c.copy.stop /\ rec.state = c.copy.state
  BY <1>1, LifecycleAssumption DEF RunRecord
<1>3. rec # c.copy
  <2>1. c.copy.rounds \in Nat /\ rec.rounds = c.copy.rounds + 1
    BY <1>1, LifecycleAssumption DEF RunRecord
  <2>2. rec.rounds # c.copy.rounds
    BY <2>1
  <2> QED BY <2>2
<1>4. c.copy.state = "PLANNED" /\ c.copy.stop = "none"
  BY <1>1 DEF CallsInv, CallSound, CallLegal
<1>5. CallLegal(c.tool, rec)
  BY <1>1, <1>2, <1>4 DEF CallLegal
<1>6. /\ Save(c, rec) /\ calls' = (calls \ {c}) \cup {[c EXCEPT !.copy = rec]}
      /\ UNCHANGED <<work, report, pointer, up, kills, aborts>>
  BY DEF Revise
<1> HIDE DEF rec
<1> QED BY <1>1, <1>2, <1>3, <1>4, <1>5, <1>6

LEMMA StepMonotone == RunTypes /\ CallsInv /\ Steps => Monotone
<1> SUFFICES ASSUME RunTypes, CallsInv, Steps PROVE Monotone
  OBVIOUS
<1>1. ASSUME UNCHANGED disk PROVE Monotone
  BY <1>1 DEF disk, Monotone, Keeps
<1>2. CASE Open
  BY <1>2 DEF Open, Monotone, Keeps, RunTypes
<1>3. ASSUME NEW c \in calls, Saves(c) PROVE Monotone
  <2>1. PICK rec \in RunRecord, w \in WorkRecord, cut \in BOOLEAN :
          Finish(c, rec, w, cut) /\ Follows(c.copy, rec) /\ Keeps(work[c.run], w)
    BY <1>3 DEF Saves
  <2>2. work' = [work EXCEPT ![c.run] = w] /\ report' = report
        /\ (run' = run \/ run' = [run EXCEPT ![c.run] = rec])
    BY <2>1 DEF Finish, Save
  <2> QED BY <2>1, <2>2 DEF Monotone, Follows, Keeps, RunTypes
<1>4. ASSUME NEW c \in calls, Revise(c) PROVE Monotone
  BY <1>4, RevisedRecord DEF Save, Monotone, Keeps, RunTypes
<1>5. ASSUME NEW r \in Runs, NEW cut \in BOOLEAN, CreateRun(r, cut) PROVE Monotone
  BY <1>5 DEF CreateRun, Monotone, Keeps, RunTypes, RunRecord
<1>6. ASSUME NEW r \in Runs, DispatchWave(r) PROVE Monotone
  BY <1>6 DEF DispatchWave, Monotone, Keeps, RunTypes, RunRecord
<1>7. ASSUME NEW r \in Runs, Progress(r) PROVE Monotone
  BY <1>7 DEF Progress, Monotone, Keeps, RunTypes, WorkRecord
<1>8. ASSUME NEW r \in Runs, Surface(r) PROVE Monotone
  BY <1>8, AskedRecord DEF Surface, Monotone, Keeps, RunTypes
<1>9. ASSUME NEW r \in Runs, Lifts(r) PROVE Monotone
  <2>1. PICK rec \in RunRecord, w \in WorkRecord : Heard(r, rec, w) /\ Resumes(r, rec)
    BY <1>9 DEF Lifts
  <2> QED BY <2>1, OutdatedStays DEF Heard, Resumes, Monotone, Keeps, RunTypes
<1>10. ASSUME NEW r \in Runs, Stops(r) PROVE Monotone
  <2>1. PICK rec \in RunRecord, closed \in RunRecord, w \in WorkRecord, kind \in StopKinds,
             archives \in BOOLEAN, cut \in Cuts :
          /\ Heard(r, rec, w) /\ Stop(r, closed, kind, archives, cut)
          /\ closed = rec \/ closed.state \in {"REPORTED", "TRIVIAL_DONE"}
    BY <1>10 DEF Stops
  <2>2. [closed EXCEPT !.stop = kind].state = closed.state
    BY DEF RunRecord
  <2> QED BY <2>1, <2>2, OutdatedStays DEF Heard, Stop, Monotone, Keeps, RunTypes
<1>11. ASSUME NEW r \in Runs, Grants(r) PROVE Monotone
  BY <1>11 DEF Grants, Monotone, Keeps, RunTypes, RunRecord
<1>12. ASSUME NEW r \in Runs, ReportCut(r) PROVE Monotone
  BY <1>12 DEF ReportCut, Monotone, Keeps, RunTypes
<1>13. Kill \/ Abort \/ (\E c \in calls : CallFails(c)) \/ (\E r \in Runs, tool \in Tools : StartCall(tool, r))
       => UNCHANGED disk
  BY DEF Kill, Abort, CallFails, StartCall
<1> QED BY <1>1, <1>2, <1>3, <1>4, <1>5, <1>6, <1>7, <1>8, <1>9, <1>10, <1>11, <1>12, <1>13 DEF Steps

LEMMA CallsStep ==
  ASSUME RunTypes, CallsInv, ItemsPrecedeTheState, ReportInv, Steps
  PROVE  CallsInv'
<1>1. Monotone
  BY StepMonotone
<1>2. ASSUME NEW d \in Call, CallSound(d) PROVE CallSound(d)'
  <2>1. d.run \in Runs
    BY DEF Call
  <2>2. CallLegal(d.tool, d.copy)
    BY <1>2 DEF CallSound
  <2>3. d.tool \in {"plan", "plan_review"} => work'[d.run].items # "none"
    BY <1>1, <1>2, <2>1 DEF CallSound, Monotone, Keeps
  <2>4. d.copy.stop # "none" => report'[d.run] # "none"
    BY <1>1, <1>2, <2>1 DEF CallSound, Monotone
  <2> QED BY <2>2, <2>3, <2>4 DEF CallSound, CallLegal
<1>3. ASSUME calls' \subseteq calls, up' \/ calls' = {} PROVE CallsInv'
  BY <1>2, <1>3 DEF CallsInv, RunTypes
<1>4. Dies => calls' = {}
  BY DEF Dies
<1>5. LivesOn => calls' = calls /\ (up' \/ calls' = {})
  BY DEF LivesOn, CallsInv
<1>6. CASE Kill
  BY <1>3, <1>4, <1>6 DEF Kill
<1>7. CASE Open
  BY <1>3, <1>7 DEF Open
<1>8. CASE Abort
  <2>1. up' /\ calls' = {[c EXCEPT !.left = TRUE] : c \in calls}
    BY <1>8 DEF Abort, Calling, CallsInv
  <2>2. ASSUME NEW c \in calls PROVE CallSound([c EXCEPT !.left = TRUE])
    <3>1. c \in Call /\ CallSound(c)
      BY DEF RunTypes, CallsInv
    <3>2. /\ [c EXCEPT !.left = TRUE].tool = c.tool /\ [c EXCEPT !.left = TRUE].run = c.run
          /\ [c EXCEPT !.left = TRUE].copy = c.copy /\ [c EXCEPT !.left = TRUE] \in Call
      BY <3>1 DEF Call
    <3> QED BY <3>1, <3>2 DEF CallSound
  <2>3. ASSUME NEW c \in calls PROVE [c EXCEPT !.left = TRUE] \in Call
    BY DEF RunTypes, Call
  <2>4. ASSUME NEW c \in calls PROVE CallSound([c EXCEPT !.left = TRUE])'
    BY <1>2, <2>2, <2>3
  <2> QED BY <2>1, <2>4 DEF CallsInv
<1>9. ASSUME NEW c \in calls, CallFails(c) PROVE CallsInv'
  BY <1>3, <1>9 DEF CallFails, CallsInv
<1>10. ASSUME NEW c \in calls, Saves(c) PROVE CallsInv'
  <2>1. PICK rec \in RunRecord, w \in WorkRecord, cut \in BOOLEAN : Finish(c, rec, w, cut)
    BY <1>10 DEF Saves
  <2>2. calls' \subseteq calls /\ (up' \/ calls' = {})
    BY <1>4, <2>1 DEF Finish, CallsInv
  <2> QED BY <1>3, <2>2
<1>11. ASSUME NEW c \in calls, Revise(c) PROVE CallsInv'
  <2>1. PICK rec \in RunRecord :
          /\ CallLegal(c.tool, rec) /\ rec.stop = c.copy.stop
          /\ calls' = (calls \ {c}) \cup {[c EXCEPT !.copy = rec]} /\ UNCHANGED up
    BY <1>11, RevisedRecord
  <2> DEFINE d == [c EXCEPT !.copy = rec]
  <2>2. c \in Call /\ CallSound(c)
    BY DEF RunTypes, CallsInv
  <2>3. d \in Call /\ d.tool = c.tool /\ d.run = c.run /\ d.copy = rec
    BY <2>2 DEF Call
  <2>4. CallSound(d)
    BY <2>1, <2>2, <2>3 DEF CallSound
  <2>5. CallSound(d)'
    BY <1>2, <2>3, <2>4
  <2>6. calls' = (calls \ {c}) \cup {d} /\ up'
    BY <2>1 DEF CallsInv
  <2>7. \A e \in calls : CallSound(e)'
    BY <1>2 DEF RunTypes, CallsInv
  <2> HIDE DEF d
  <2> QED BY <2>5, <2>6, <2>7 DEF CallsInv
<1>12. ASSUME NEW r \in Runs, NEW cut \in BOOLEAN, CreateRun(r, cut) PROVE CallsInv'
  BY <1>3, <1>4, <1>5, <1>12 DEF CreateRun
<1>13. ASSUME NEW r \in Runs, NEW tool \in Tools, StartCall(tool, r) PROVE CallsInv'
  <2>1. [tool |-> tool, run |-> r, copy |-> run[r], left |-> FALSE] \in Call
    BY DEF RunTypes, Call
  <2>2. PICK d \in Call : /\ d.tool = tool /\ d.run = r /\ d.copy = run[r]
                          /\ calls' = calls \cup {d} /\ up /\ up'
    BY <1>13, <2>1 DEF StartCall, AtWork
  <2>3. tool \in {"plan", "plan_review"} => work[r].items # "none"
    BY <1>13 DEF StartCall, CallLegal, ItemsPrecedeTheState
  <2>4. CallSound(d)
    BY <1>13, <2>2, <2>3 DEF StartCall, CallSound, ReportInv
  <2>5. CallSound(d)'
    BY <1>2, <2>4
  <2>6. \A e \in calls : CallSound(e)'
    BY <1>2 DEF RunTypes, CallsInv
  <2> QED BY <2>2, <2>5, <2>6 DEF CallsInv
<1>14. ASSUME NEW r \in Runs, DispatchWave(r) \/ Progress(r) \/ Surface(r) \/ Grants(r) PROVE CallsInv'
  BY <1>3, <1>5, <1>14 DEF DispatchWave, Progress, Surface, Grants, LivesOn, CallsInv
<1>15. ASSUME NEW r \in Runs, Lifts(r) \/ Stops(r) \/ ReportCut(r) PROVE CallsInv'
  <2>1. LivesOn \/ Dies
    BY <1>15 DEF Lifts, Stops, Stop, ReportCut
  <2> QED BY <1>3, <1>4, <1>5, <2>1
<1> QED BY <1>6, <1>7, <1>8, <1>9, <1>10, <1>11, <1>12, <1>13, <1>14, <1>15 DEF Steps

(* A step that writes the run.json of one run, or of none. *)
Writes(r, rec) == rec \in RunRecord /\ run' = [run EXCEPT ![r] = rec]

LEMMA WritesOne ==
  ASSUME RunTypes, NEW r \in Runs, NEW rec \in RunRecord, Writes(r, rec)
  PROVE  run'[r] = rec /\ \A q \in Runs : q # r => run'[q] = run[q]
  BY DEF Writes, RunTypes

LEMMA BornWrites ==
  ASSUME RunTypes, BornInv, NEW r \in Runs, NEW rec \in RunRecord, Writes(r, rec),
         rec.state # "unborn", pointer' \in {pointer, NoRun, r}
  PROVE  BornInv'
<1>1. pointer' # NoRun => run'[pointer'].state # "unborn"
  BY WritesOne DEF BornInv, RunTypes
<1>2. ASSUME NEW q \in Runs, run'[q].state = "unborn" PROVE run'[q].stop = "none"
  BY <1>2, WritesOne DEF BornInv
<1> QED BY <1>1, <1>2 DEF BornInv

LEMMA ItemsWrites ==
  ASSUME RunTypes, ItemsPrecedeTheState, Monotone, NEW r \in Runs, NEW rec \in RunRecord, Writes(r, rec),
         rec.state \in Claiming => work'[r].items # "none"
  PROVE  ItemsPrecedeTheState'
<1>1. ASSUME NEW q \in Runs, run'[q].state \in Claiming PROVE work'[q].items # "none"
  <2>1. CASE q = r
    BY <1>1, <2>1, WritesOne
  <2>2. CASE q # r
    BY <1>1, <2>2, WritesOne DEF ItemsPrecedeTheState, Claiming, Monotone, Keeps
  <2> QED BY <2>1, <2>2
<1> QED BY <1>1 DEF ItemsPrecedeTheState, Claiming

LEMMA ReportWrites ==
  ASSUME RunTypes, ReportInv, Monotone, up, NEW r \in Runs, NEW rec \in RunRecord, Writes(r, rec),
         rec.stop # "none" /\ report'[r] = "none" => ~up' /\ pointer' = r,
         kills' = 0 => up'
  PROVE  ReportInv'
<1>1. ASSUME NEW q \in Runs, run'[q].stop # "none", report'[q] = "none" PROVE ~up' /\ pointer' = q
  <2>1. CASE q = r
    BY <1>1, <2>1, WritesOne
  <2>2. CASE q # r
    <3>1. run[q].stop # "none" /\ report[q] = "none"
      BY <1>1, <2>2, WritesOne DEF Monotone
    <3> QED BY <3>1 DEF ReportInv
  <2> QED BY <2>1, <2>2
<1> QED BY <1>1 DEF ReportInv

LEMMA StrayWrites ==
  ASSUME RunTypes, UnlessStray, NEW r \in Runs, NEW rec \in RunRecord, Writes(r, rec),
         \A q \in Runs : q # r => report'[q] = report[q],
         strays \subseteq strays', kills' = 0 => kills = 0,
         r \notin strays' => /\ kills' = 0 /\ rec.stop # "none" => report'[r] = "current"
                             /\ rec.state # "unborn" /\ ~Terminal(rec) => pointer' = r,
         pointer' = pointer \/ (\A q \in Runs \ strays : q # r => ~Live(q))
  PROVE  UnlessStray'
<1>1. ASSUME NEW q \in Runs \ strays'
      PROVE  /\ kills' = 0 /\ run'[q].stop # "none" => report'[q] = "current"
             /\ run'[q].state # "unborn" /\ ~Terminal(run'[q]) => pointer' = q
  <2>1. CASE q = r
    BY <2>1, WritesOne
  <2>2. CASE q # r
    BY <2>2, WritesOne DEF UnlessStray, Live
  <2> QED BY <2>1, <2>2
<1> QED BY <1>1 DEF UnlessStray, Live, Terminal

(* The parts of the invariant that one run.json, its items and its report decide. *)
RunsInv == BornInv /\ ItemsPrecedeTheState /\ ReportInv /\ UnlessStray

\* A step that leaves run.json alone.
LEMMA RunsUnwritten ==
  ASSUME RunTypes, RunsInv, Monotone, up, run' = run, pointer' = pointer, strays' = strays,
         kills' = 0 => up', \A q \in Runs : report'[q] = report[q] \/ kills' # 0,
         kills' = 0 => kills = 0
  PROVE  RunsInv'
<1>1. BornInv'
  BY DEF RunsInv, BornInv
<1>2. ItemsPrecedeTheState'
  BY DEF RunsInv, ItemsPrecedeTheState, Monotone, Keeps
<1>3. ReportInv'
  BY DEF RunsInv, ReportInv, Monotone
<1>4. UnlessStray'
  BY DEF RunsInv, UnlessStray, Live, Terminal
<1> QED BY <1>1, <1>2, <1>3, <1>4 DEF RunsInv

LEMMA DiesCounts == RunTypes /\ Dies => kills' # 0 /\ ~up'
  BY LifecycleAssumption DEF RunTypes, Dies

LEMMA LivesOnCounts == ReportInv /\ LivesOn => kills' = kills /\ up' = up /\ (kills' = 0 => up')
  BY DEF LivesOn, ReportInv

\* While the pointer names r, no other run is live.
LEMMA OthersRest ==
  ASSUME RunTypes, UnlessStray, NEW r \in Runs, pointer = r
  PROVE  \A q \in Runs \ strays : q # r => ~Live(q)
  BY DEF UnlessStray

LEMMA SaveStep ==
  ASSUME RunTypes, CallsInv, RunsInv, Monotone, NEW c \in calls, Saves(c)
  PROVE  RunsInv'
<1>1. PICK rec \in RunRecord, w \in WorkRecord, cut \in BOOLEAN :
        /\ Finish(c, rec, w, cut) /\ Follows(c.copy, rec)
        /\ rec.state \in Claiming => w.items # "none"
  BY DEF Saves
<1>2. up /\ c.run \in Runs /\ CallSound(c)
  BY DEF CallsInv, RunTypes, Call
<1>3. CASE cut
  BY <1>1, <1>2, <1>3, DiesCounts, RunsUnwritten DEF Finish
<1>4. CASE ~cut
  <2>1. /\ Writes(c.run, rec) /\ work' = [work EXCEPT ![c.run] = w]
        /\ strays' = IF c.copy = run[c.run] THEN strays ELSE strays \cup {c.run}
        /\ UNCHANGED <<report, pointer, up, kills>>
    BY <1>1, <1>4 DEF Finish, Save, Writes
  <2>2. BornInv'
    BY <1>1, <1>2, <2>1, BornWrites DEF RunsInv, Follows
  <2>3. ItemsPrecedeTheState'
    <3>1. work'[c.run] = w
      BY <1>2, <2>1 DEF RunTypes
    <3> QED BY <1>1, <1>2, <2>1, <3>1, ItemsWrites DEF RunsInv
  <2>4. ReportInv'
    <3>1. rec.stop # "none" => report'[c.run] # "none"
      BY <1>1, <1>2, <2>1 DEF Follows, CallSound
    <3> QED BY <1>2, <2>1, <3>1, ReportWrites DEF RunsInv
  <2>5. UnlessStray'
    <3>1. ASSUME c.run \notin strays' PROVE c.copy = run[c.run] /\ c.run \notin strays
      BY <2>1, <3>1
    <3>2. c.copy.state # "unborn" /\ (Terminal(c.copy) => Terminal(rec))
      BY <1>1, <1>2 DEF Follows, CallSound, CallLegal, Terminal, Edges, TerminalStates
    <3>3. c.run \notin strays' =>
            /\ kills' = 0 /\ rec.stop # "none" => report'[c.run] = "current"
            /\ rec.state # "unborn" /\ ~Terminal(rec) => pointer' = c.run
      BY <1>1, <1>2, <2>1, <3>1, <3>2 DEF RunsInv, UnlessStray, Live, Follows
    <3> QED BY <1>2, <2>1, <3>3, StrayWrites DEF RunsInv
  <2> QED BY <2>2, <2>3, <2>4, <2>5 DEF RunsInv
<1> QED BY <1>3, <1>4

LEMMA ReviseStep ==
  ASSUME RunTypes, CallsInv, RunsInv, Monotone, NEW c \in calls, Revise(c)
  PROVE  RunsInv'
<1>1. PICK rec \in RunRecord :
        /\ rec.stop = c.copy.stop /\ rec.state = c.copy.state /\ rec.state = "PLANNED"
        /\ c.tool = "plan_review" /\ Save(c, rec) /\ UNCHANGED <<work, report, pointer, up, kills>>
  BY RevisedRecord
<1>2. up /\ c.run \in Runs /\ CallSound(c)
  BY DEF CallsInv, RunTypes, Call
<1>3. /\ Writes(c.run, rec)
      /\ strays' = IF c.copy = run[c.run] THEN strays ELSE strays \cup {c.run}
  BY <1>1 DEF Save, Writes
<1>4. BornInv'
  BY <1>1, <1>2, <1>3, BornWrites DEF RunsInv
<1>5. ItemsPrecedeTheState'
  <2>1. work'[c.run].items # "none"
    BY <1>1, <1>2 DEF CallSound
  <2> QED BY <1>2, <1>3, <2>1, ItemsWrites DEF RunsInv
<1>6. ReportInv'
  <2>1. rec.stop # "none" => report'[c.run] # "none"
    BY <1>1, <1>2 DEF CallSound
  <2> QED BY <1>1, <1>2, <1>3, <2>1, ReportWrites DEF RunsInv, ReportInv
<1>7. UnlessStray'
  <2>1. c.run \notin strays' => c.copy = run[c.run] /\ c.run \notin strays
    BY <1>3
  <2>2. c.run \notin strays' =>
          /\ kills' = 0 /\ rec.stop # "none" => report'[c.run] = "current"
          /\ rec.state # "unborn" /\ ~Terminal(rec) => pointer' = c.run
    BY <1>1, <1>2, <2>1 DEF RunsInv, UnlessStray, Live, Terminal
  <2> QED BY <1>1, <1>2, <1>3, <2>2, StrayWrites DEF RunsInv
<1> QED BY <1>4, <1>5, <1>6, <1>7 DEF RunsInv

\* The new process reports the run the pointer names, and no other lacks a report.
LEMMA OpenStep ==
  ASSUME RunTypes, RunsInv, Open
  PROVE  RunsInv'
<1>1. /\ run' = run /\ work' = work /\ pointer' = pointer /\ strays' = strays /\ kills' = kills /\ up'
      /\ kills # 0
  BY DEF Open, RunsInv, ReportInv
<1>2. BornInv' /\ ItemsPrecedeTheState' /\ UnlessStray'
  BY <1>1 DEF RunsInv, BornInv, ItemsPrecedeTheState, UnlessStray, Live, Terminal
<1>3. ASSUME NEW q \in Runs, run[q].stop # "none" PROVE report'[q] # "none"
  BY <1>3 DEF Open, RunsInv, ReportInv, RunTypes
<1>4. ReportInv'
  BY <1>1, <1>3 DEF ReportInv
<1> QED BY <1>2, <1>4 DEF RunsInv

LEMMA CreateStep ==
  ASSUME RunTypes, RunsInv, Monotone, NEW r \in Runs, NEW cut \in BOOLEAN, CreateRun(r, cut)
  PROVE  RunsInv'
<1>1. PICK rec \in RunRecord : Writes(r, rec) /\ rec.state = "INTAKE" /\ rec.stop = "none"
  <2> DEFINE rec == [run[r] EXCEPT !.state = "INTAKE"]
  <2>1. rec \in RunRecord /\ rec.state = "INTAKE" /\ rec.stop = "none" /\ run' = [run EXCEPT ![r] = rec]
    BY DEF CreateRun, RunTypes, RunRecord, RunStates, RunsInv, BornInv
  <2> QED BY <2>1 DEF Writes
<1>2. /\ up /\ UNCHANGED <<work, report>> /\ (kills' = 0 => up' /\ kills = 0)
      /\ \/ pointer' = pointer /\ strays' = strays \cup {r}
         \/ pointer' = r /\ strays' = strays
  BY DiesCounts, LivesOnCounts DEF CreateRun, RunsInv
<1>3. BornInv'
  BY <1>1, <1>2, BornWrites DEF RunsInv
<1>4. ItemsPrecedeTheState'
  BY <1>1, ItemsWrites DEF RunsInv, Claiming
<1>5. ReportInv'
  BY <1>1, <1>2, ReportWrites DEF RunsInv
<1>6. UnlessStray'
  <2>1. \A q \in Runs \ strays : ~Live(q)
    BY NoRunIsNone DEF CreateRun, RunsInv, UnlessStray
  <2>2. r \notin strays' => pointer' = r
    BY <1>2
  <2> QED BY <1>1, <1>2, <2>1, <2>2, StrayWrites DEF RunsInv
<1> QED BY <1>3, <1>4, <1>5, <1>6 DEF RunsInv

LEMMA DispatchStep ==
  ASSUME RunTypes, RunsInv, Monotone, NEW r \in Runs, DispatchWave(r)
  PROVE  RunsInv'
<1>1. PICK rec \in RunRecord : /\ Writes(r, rec) /\ rec.state = "EXECUTING" /\ rec.stop = "none"
                               /\ ~Terminal(rec)
  <2> DEFINE rec == [run[r] EXCEPT !.state = "EXECUTING"]
  <2>1. rec \in RunRecord /\ rec.state = "EXECUTING" /\ rec.stop = "none" /\ run' = [run EXCEPT ![r] = rec]
    BY DEF DispatchWave, RunTypes, RunRecord, RunStates
  <2> QED BY <2>1 DEF Writes, Terminal, TerminalStates
<1>2. /\ up /\ up' /\ UNCHANGED <<work, report, pointer, strays, kills>> /\ pointer = r
      /\ run[r].state = "PLAN_REVIEWED"
  BY DEF DispatchWave, AtWork
<1>3. BornInv'
  BY <1>1, <1>2, BornWrites DEF RunsInv
<1>4. ItemsPrecedeTheState'
  <2>1. work'[r].items # "none"
    BY <1>2 DEF RunsInv, ItemsPrecedeTheState
  <2> QED BY <1>1, <2>1, ItemsWrites DEF RunsInv
<1>5. ReportInv'
  BY <1>1, <1>2, ReportWrites DEF RunsInv
<1>6. UnlessStray'
  BY <1>1, <1>2, StrayWrites DEF RunsInv
<1> QED BY <1>3, <1>4, <1>5, <1>6 DEF RunsInv

LEMMA GrantStep ==
  ASSUME RunTypes, RunsInv, Monotone, NEW r \in Runs, Grants(r)
  PROVE  RunsInv'
<1>1. PICK rec \in RunRecord : Writes(r, rec) /\ rec.state = run[r].state /\ rec.stop = run[r].stop
  <2> DEFINE rec == [run[r] EXCEPT !.overrides = @ + 1]
  <2>1. run[r] \in RunRecord /\ run[r].overrides < OverrideCap /\ OverrideCap \in Nat
    BY LifecycleAssumption DEF Grants, RunTypes
  <2>2. rec \in RunRecord /\ rec.state = run[r].state /\ rec.stop = run[r].stop
    BY <2>1 DEF RunRecord
  <2>3. run' = [run EXCEPT ![r] = rec]
    BY DEF Grants
  <2> HIDE DEF rec
  <2> QED BY <2>2, <2>3 DEF Writes
<1>2. /\ up /\ up' /\ UNCHANGED <<work, report, pointer, strays, kills>>
      /\ run[r].state # "unborn" /\ run[r].stop = "none"
  BY LivesOnCounts DEF Grants, RunsInv, LivesOn, Live, Terminal
<1>3. BornInv'
  BY <1>1, <1>2, BornWrites DEF RunsInv
<1>4. ItemsPrecedeTheState'
  <2>1. rec.state \in Claiming => work'[r].items # "none"
    BY <1>1, <1>2 DEF RunsInv, ItemsPrecedeTheState, Claiming
  <2> QED BY <1>1, <2>1, ItemsWrites DEF RunsInv
<1>5. ReportInv'
  BY <1>1, <1>2, ReportWrites DEF RunsInv
<1>6. UnlessStray'
  <2>1. r \notin strays' => pointer' = r
    BY <1>2 DEF RunsInv, UnlessStray, Grants
  <2> QED BY <1>1, <1>2, <2>1, StrayWrites DEF RunsInv
<1> QED BY <1>3, <1>4, <1>5, <1>6 DEF RunsInv

LEMMA LiftStep ==
  ASSUME RunTypes, RunsInv, Monotone, NEW r \in Runs, Lifts(r)
  PROVE  RunsInv'
<1>1. PICK rec \in RunRecord, w \in WorkRecord :
        /\ Heard(r, rec, w) /\ Resumes(r, rec)
        /\ pointer' = pointer \/ (pointer' = NoRun /\ Terminal(rec))
        /\ LivesOn \/ Dies
  BY DEF Lifts
<1>2. /\ Writes(r, rec) /\ rec.state = run[r].state /\ (rec.stop = run[r].stop \/ rec.stop = "none")
      /\ pointer = r /\ up /\ strays' = strays
      /\ report' = [report EXCEPT ![r] = IF rec.stop = run[r].stop THEN @ ELSE Outdated(r)]
  BY <1>1 DEF Heard, Resumes, Writes
<1>3. kills' = 0 => up' /\ kills = 0
  BY <1>1, DiesCounts, LivesOnCounts DEF RunsInv
<1>4. /\ rec.stop # "none" => report'[r] = report[r] /\ run[r].stop # "none"
      /\ \A q \in Runs : q # r => report'[q] = report[q]
  BY <1>2 DEF RunTypes
<1>5. rec.state # "unborn" /\ r # NoRun
  BY <1>2, NoRunIsNone DEF RunsInv, BornInv
<1>6. BornInv'
  BY <1>1, <1>2, <1>5, BornWrites DEF RunsInv
<1>7. ItemsPrecedeTheState'
  <2>1. rec.state \in Claiming => work'[r].items # "none"
    BY <1>2 DEF RunsInv, ItemsPrecedeTheState, Claiming, Monotone, Keeps
  <2> QED BY <1>2, <2>1, ItemsWrites DEF RunsInv
<1>8. ReportInv'
  <2>1. rec.stop # "none" => report'[r] # "none"
    BY <1>2, <1>4 DEF RunsInv, ReportInv
  <2> QED BY <1>2, <1>3, <2>1, ReportWrites DEF RunsInv
<1>9. UnlessStray'
  <2>1. r \notin strays' => /\ kills' = 0 /\ rec.stop # "none" => report'[r] = "current"
                            /\ rec.state # "unborn" /\ ~Terminal(rec) => pointer' = r
    BY <1>1, <1>2, <1>3, <1>4 DEF RunsInv, UnlessStray
  <2>2. \A q \in Runs \ strays : q # r => ~Live(q)
    BY <1>2, OthersRest DEF RunsInv
  <2> QED BY <1>2, <1>3, <1>4, <2>1, <2>2, StrayWrites DEF RunsInv
<1> QED BY <1>6, <1>7, <1>8, <1>9 DEF RunsInv

LEMMA StopStep ==
  ASSUME RunTypes, RunsInv, Monotone, NEW r \in Runs, Stops(r)
  PROVE  RunsInv'
<1>1. PICK rec \in RunRecord, closed \in RunRecord, w \in WorkRecord, kind \in StopKinds,
           archives \in BOOLEAN, cut \in Cuts :
        /\ Heard(r, rec, w)
        /\ closed = rec \/ (/\ rec.state = "EXECUTING" /\ closed.state \in {"REPORTED", "TRIVIAL_DONE"}
                            /\ rec = run[r])
        /\ Stop(r, closed, kind, archives, cut)
  BY DEF Stops
<1>2. PICK new \in RunRecord : /\ run' = [run EXCEPT ![r] = new] /\ new.state = closed.state
                               /\ new.stop = kind
  <2>1. [closed EXCEPT !.stop = kind] \in RunRecord
    BY DEF RunRecord
  <2> QED BY <1>1, <2>1 DEF Stop, RunRecord
<1>3. /\ Writes(r, new) /\ new.stop # "none" /\ pointer = r /\ up /\ strays' = strays
      /\ rec.state = run[r].state /\ Terminal(new)
  BY <1>1, <1>2 DEF Writes, Heard, StopKinds, ResumableStops, Terminal
<1>4. /\ \A q \in Runs : q # r => report'[q] = report[q]
      /\ report'[r] # "current" => kills' # 0 /\ ~up' /\ pointer' = r
      /\ pointer' \in {pointer, NoRun}
  BY <1>1, <1>3, DiesCounts DEF Stop, RunTypes, Cuts
<1>5. kills' = 0 => up' /\ kills = 0
  BY <1>1, DiesCounts, LivesOnCounts DEF RunsInv, Stop
<1>6. run[r].state # "unborn" /\ new.state # "unborn"
  BY <1>1, <1>2, <1>3, NoRunIsNone DEF RunsInv, BornInv
<1>7. BornInv'
  BY <1>3, <1>4, <1>6, BornWrites DEF RunsInv
<1>8. ItemsPrecedeTheState'
  <2>1. new.state \in Claiming => run[r].state \in Claiming
    BY <1>1, <1>2, <1>3 DEF Claiming
  <2>2. new.state \in Claiming => work'[r].items # "none"
    BY <2>1 DEF RunsInv, ItemsPrecedeTheState, Claiming, Monotone, Keeps
  <2> QED BY <1>3, <2>2, ItemsWrites DEF RunsInv
<1>9. ReportInv'
  BY <1>3, <1>4, <1>5, ReportWrites DEF RunsInv
<1>10. UnlessStray'
  <2>1. \A q \in Runs \ strays : q # r => ~Live(q)
    BY <1>3, OthersRest DEF RunsInv
  <2> QED BY <1>3, <1>4, <1>5, <2>1, StrayWrites DEF RunsInv
<1> QED BY <1>7, <1>8, <1>9, <1>10 DEF RunsInv

LEMMA QuietStep ==
  ASSUME RunTypes, CallsInv, RunsInv, Monotone,
         \/ Kill \/ Abort \/ \E c \in calls : CallFails(c)
         \/ \E r \in Runs : \/ \E tool \in Tools : StartCall(tool, r)
                            \/ Progress(r) \/ Surface(r) \/ ReportCut(r)
  PROVE  RunsInv'
<1>1. Kill => /\ up /\ run' = run /\ pointer' = pointer /\ strays' = strays /\ report' = report
              /\ kills' # 0
  BY DiesCounts DEF Kill, disk
<1>2. \A r \in Runs : ReportCut(r) => /\ up /\ run' = run /\ pointer' = pointer /\ strays' = strays
                                      /\ kills' # 0
  BY DiesCounts DEF ReportCut
<1>3. ASSUME \/ Abort \/ \E c \in calls : CallFails(c)
             \/ \E r \in Runs : \/ \E tool \in Tools : StartCall(tool, r)
                                \/ Progress(r) \/ Surface(r)
      PROVE  up /\ UNCHANGED <<run, pointer, strays, report, up, kills>>
  BY <1>3 DEF Abort, Calling, CallFails, StartCall, Progress, Surface, AnySession, AtWork, CallsInv, disk
<1> QED BY <1>1, <1>2, <1>3, RunsUnwritten

LEMMA InvStep == Inv /\ Steps => Inv'
<1> SUFFICES ASSUME RunTypes, CallsInv, RunsInv, Steps PROVE RunTypes' /\ CallsInv' /\ RunsInv'
  BY DEF Inv, RunsInv
<1>1. RunTypes' /\ Monotone /\ CallsInv'
  BY TypeStep, StepMonotone, CallsStep DEF RunsInv
<1>2. RunsInv'
  BY <1>1, OpenStep, SaveStep, ReviseStep, CreateStep, DispatchStep, GrantStep, LiftStep, StopStep,
     QuietStep DEF Steps
<1> QED BY <1>1, <1>2

LEMMA InvHolds == RunSpec => []Inv
<1>1. RunInit => Inv
  <2> SUFFICES ASSUME RunInit PROVE Inv
    OBVIOUS
  <2>1. RunTypes
    <3>1. Unborn \in RunRecord
      BY LifecycleAssumption DEF Unborn, RunRecord, RunStates, Kinds
    <3>2. NoWork \in WorkRecord
      BY DEF NoWork, WorkRecord
    <3> QED BY <3>1, <3>2, LifecycleAssumption DEF RunInit, RunTypes
  <2>2. CallsInv /\ BornInv /\ ItemsPrecedeTheState
    BY DEF RunInit, CallsInv, BornInv, ItemsPrecedeTheState, Unborn
  <2>3. ReportInv /\ UnlessStray
    BY DEF RunInit, ReportInv, UnlessStray, Live, Unborn
  <2> QED BY <2>1, <2>2, <2>3 DEF Inv
<1>2. Inv /\ [RunNext]_runVars => Inv'
  <2>1. Inv /\ RunNext => Inv'
    BY NextIsSteps, InvStep DEF Inv
  <2>2. Inv /\ UNCHANGED runVars => Inv'
    BY DEF runVars, disk, Inv, RunTypes, CallsInv, CallSound, CallLegal, BornInv, ItemsPrecedeTheState,
           ReportInv, UnlessStray, Live, Terminal
  <2> QED BY <2>1, <2>2
<1> QED BY <1>1, <1>2, PTL DEF RunSpec
-----------------------------------------------------------------------------
(* What a step does to the state and to the stop of a run. *)

\* A save of a copy that is no longer what is on disk.
LEMMA StaleOrFollows ==
  ASSUME RunTypes, CallsInv, NEW c \in calls, Saves(c) \/ Revise(c), NEW r \in Runs, run'[r] # run[r]
  PROVE  StaleSave(r) \/ Follows(run[r], run'[r])
<1>1. c \in Call /\ c.run \in Runs /\ up
  BY DEF RunTypes, CallsInv, Call
<1>2. PICK rec \in RunRecord :
        /\ run' = [run EXCEPT ![c.run] = rec] /\ c \notin calls' /\ up'
        /\ c.copy = run[c.run] => Follows(c.copy, rec)
  <2>1. CASE Saves(c)
    <3>1. PICK rec \in RunRecord, w \in WorkRecord, cut \in BOOLEAN :
            Finish(c, rec, w, cut) /\ Follows(c.copy, rec)
      BY <2>1 DEF Saves
    <3>2. ~cut
      BY <3>1 DEF Finish
    <3>3. run' = [run EXCEPT ![c.run] = rec] /\ calls' = calls \ {c} /\ up' = up
      BY <3>1, <3>2 DEF Finish, Save
    <3> QED BY <1>1, <3>1, <3>3
  <2>2. CASE Revise(c)
    <3>1. PICK rec \in RunRecord :
            /\ rec # c.copy /\ rec.stop = c.copy.stop /\ rec.state = c.copy.state /\ rec.state = "PLANNED"
            /\ Save(c, rec) /\ calls' = (calls \ {c}) \cup {[c EXCEPT !.copy = rec]} /\ UNCHANGED up
      BY <2>2, RevisedRecord
    <3>2. [c EXCEPT !.copy = rec] # c
      <4>1. [c EXCEPT !.copy = rec].copy = rec
        BY <1>1 DEF Call
      <4> QED BY <3>1, <4>1
    <3> QED BY <1>1, <3>1, <3>2 DEF Save, Follows
  <2> QED BY <2>1, <2>2
<1>3. c.run = r /\ run'[r] = rec
  BY <1>1, <1>2 DEF RunTypes
<1>4. c.copy # run[r] => StaleSave(r)
  BY <1>2, <1>3 DEF StaleSave
<1> QED BY <1>2, <1>3, <1>4

LEMMA ForwardStep ==
  ASSUME Inv, Steps, NEW r \in Runs, run'[r].state # run[r].state
  PROVE  \/ StaleSave(r)
         \/ /\ <<run[r].state, run'[r].state>> \in Edges
            /\ run[r].stop = "none" \/ (run[r].state = "INTAKE" /\ ~run[r].classified)
<1> USE DEF Inv
<1>1. ASSUME NEW c \in calls, Saves(c) \/ Revise(c) PROVE StaleSave(r) \/ Follows(run[r], run'[r])
  BY <1>1, StaleOrFollows
<1>2. ASSUME NEW q \in Runs, NEW cut \in BOOLEAN, CreateRun(q, cut)
      PROVE  run[r].state = "unborn" /\ run'[r].state = "INTAKE" /\ run[r].stop = "none"
  BY <1>2 DEF CreateRun, RunTypes, RunRecord, BornInv
<1>3. ASSUME NEW q \in Runs, DispatchWave(q)
      PROVE  run[r].state = "PLAN_REVIEWED" /\ run'[r].state = "EXECUTING" /\ run[r].stop = "none"
  BY <1>3 DEF DispatchWave, RunTypes, RunRecord
<1>4. ASSUME NEW q \in Runs, Lifts(q) \/ Grants(q) PROVE FALSE
  <2>1. ~Grants(q)
    BY DEF Grants, RunTypes, RunRecord
  <2>2. ~Lifts(q)
    BY DEF Lifts, Heard, Resumes, RunTypes
  <2> QED BY <1>4, <2>1, <2>2
<1>5. ASSUME NEW q \in Runs, Stops(q)
      PROVE  /\ run[r].state = "EXECUTING" /\ run'[r].state \in {"REPORTED", "TRIVIAL_DONE"}
             /\ run[r].stop = "none"
  <2>1. PICK rec \in RunRecord, closed \in RunRecord, w \in WorkRecord, kind \in StopKinds,
             archives \in BOOLEAN, cut \in Cuts :
          /\ Heard(q, rec, w) /\ ~Terminal(rec)
          /\ closed = rec \/ (/\ rec.state = "EXECUTING" /\ closed.state \in {"REPORTED", "TRIVIAL_DONE"}
                              /\ rec = run[q])
          /\ Stop(q, closed, kind, archives, cut)
    BY <1>5 DEF Stops
  <2>2. run' = [run EXCEPT ![q] = [closed EXCEPT !.stop = kind]] /\ rec.state = run[q].state
    BY <2>1 DEF Stop, Heard
  <2>3. q = r /\ run'[r].state = closed.state
    BY <2>2 DEF RunTypes, RunRecord
  <2> QED BY <2>1, <2>2, <2>3 DEF Terminal
<1>6. (\E q \in Runs : \/ \E tool \in Tools : StartCall(tool, q)
                       \/ Progress(q) \/ Surface(q) \/ ReportCut(q))
        \/ Kill \/ Open \/ Abort \/ (\E c \in calls : CallFails(c)) => run' = run
  BY DEF StartCall, Progress, Surface, ReportCut, Kill, Open, Abort, CallFails, disk
<1> QED BY <1>1, <1>2, <1>3, <1>4, <1>5, <1>6 DEF Steps, Follows, Edges

LEMMA StandStep ==
  ASSUME Inv, Steps, NEW r \in Runs, run[r].stop # "none", run'[r].stop # run[r].stop
  PROVE  StaleSave(r) \/ (WaitingForAnAnswer(run[r], work[r]) /\ work'[r].question = "answered")
<1> USE DEF Inv
<1>1. ASSUME NEW c \in calls, Saves(c) \/ Revise(c) PROVE StaleSave(r)
  BY <1>1, StaleOrFollows DEF Follows
<1>2. ASSUME NEW q \in Runs PROVE ~Grants(q) /\ ~DispatchWave(q) /\ \A cut \in BOOLEAN : ~CreateRun(q, cut)
  BY DEF Grants, DispatchWave, CreateRun, RunTypes, RunRecord
<1>3. ASSUME NEW q \in Runs, NEW rec \in RunRecord, NEW w \in WorkRecord, Heard(q, rec, w),
             q = r, rec.stop # run[r].stop
      PROVE  WaitingForAnAnswer(run[r], work[r]) /\ work'[r].question = "answered"
  BY <1>3 DEF Heard, RunTypes
<1>4. ASSUME NEW q \in Runs, Lifts(q)
      PROVE  WaitingForAnAnswer(run[r], work[r]) /\ work'[r].question = "answered"
  <2>1. PICK rec \in RunRecord, w \in WorkRecord : Heard(q, rec, w) /\ Resumes(q, rec)
    BY <1>4 DEF Lifts
  <2>2. q = r /\ rec.stop # run[r].stop
    BY <2>1 DEF Resumes, RunTypes
  <2> QED BY <1>3, <2>1, <2>2
<1>5. ASSUME NEW q \in Runs, Stops(q)
      PROVE  WaitingForAnAnswer(run[r], work[r]) /\ work'[r].question = "answered"
  <2>1. PICK rec \in RunRecord, closed \in RunRecord, w \in WorkRecord, kind \in StopKinds,
             archives \in BOOLEAN, cut \in Cuts :
          Heard(q, rec, w) /\ ~Terminal(rec) /\ Stop(q, closed, kind, archives, cut)
    BY <1>5 DEF Stops
  <2>2. q = r
    BY <2>1 DEF Stop, RunTypes
  <2>3. rec.stop # run[r].stop
    BY <2>1 DEF Terminal
  <2> QED BY <1>3, <2>1, <2>2, <2>3
<1>6. (\E q \in Runs : \/ \E tool \in Tools : StartCall(tool, q)
                       \/ Progress(q) \/ Surface(q) \/ ReportCut(q))
        \/ Kill \/ Open \/ Abort \/ (\E c \in calls : CallFails(c)) => run' = run
  BY DEF StartCall, Progress, Surface, ReportCut, Kill, Open, Abort, CallFails, disk
<1> QED BY <1>1, <1>2, <1>4, <1>5, <1>6 DEF Steps
-----------------------------------------------------------------------------
(* run.json, the pointer and the planning calls keep their types in every behaviour, for
   any set of runs and any limits. *)
THEOREM LifecycleTypes == RunSpec => []RunTypes
BY InvHolds, PTL DEF Inv

(* A run whose state claims a queue has its items, whatever write a kill cuts and whatever
   copy a planning call saves: classify, decompose and review write the items first. *)
THEOREM LifecycleItems == RunSpec => []ItemsPrecedeTheState
BY InvHolds, PTL DEF Inv

(* Every stop has its report while a process is up, and every live run is the one the
   pointer names, but for the runs that a cut creation or a stale save made strays:
   openWorkspace() needs to look after one run only. *)
THEOREM LifecycleReports == RunSpec => []RunsAreAccountedFor
<1>1. Inv => RunsAreAccountedFor
  BY DEF Inv, ReportInv, UnlessStray, RunsAreAccountedFor
<1> QED BY <1>1, InvHolds, PTL

(* The state of a run moves along the edges of fsm-run.ts, and not while it is stopped,
   with the two exceptions that StatesMoveForward names. *)
THEOREM LifecycleForward == RunSpec => StatesMoveForward
<1> DEFINE Forward(r) ==
      run'[r].state # run[r].state =>
        \/ StaleSave(r)
        \/ /\ <<run[r].state, run'[r].state>> \in Edges
           /\ run[r].stop = "none" \/ (run[r].state = "INTAKE" /\ ~run[r].classified)
<1>1. Inv /\ RunNext => \A r \in Runs : Forward(r)
  BY NextIsSteps, ForwardStep DEF Inv
<1>2. UNCHANGED runVars => \A r \in Runs : Forward(r)
  BY DEF runVars, disk
<1>3. Inv /\ [RunNext]_runVars => [\A r \in Runs : Forward(r)]_runVars
  BY <1>1, <1>2
<1> QED BY <1>3, InvHolds, PTL DEF RunSpec, StatesMoveForward

(* Only the answer a stopped run waits for changes its stop, and only a stop of a kind that
   an answer may lift; a stale save is the exception that StopsStand names. *)
THEOREM LifecycleStops == RunSpec => StopsStand
<1> DEFINE Stands(r) ==
      run[r].stop # "none" /\ run'[r].stop # run[r].stop =>
        \/ StaleSave(r)
        \/ WaitingForAnAnswer(run[r], work[r]) /\ work'[r].question = "answered"
<1>1. Inv /\ RunNext => \A r \in Runs : Stands(r)
  BY NextIsSteps, StandStep DEF Inv
<1>2. Inv /\ [RunNext]_runVars => [\A r \in Runs : Stands(r)]_runVars
  BY <1>1
<1> QED BY <1>2, InvHolds, PTL DEF RunSpec, StopsStand
=============================================================================
