------------------------------ MODULE Questions ------------------------------
(***************************************************************************)
(* The question ledger of a conductor run, the blocks it puts on items,    *)
(* the intents that make an ask crash-safe, and the idle pass that repairs *)
(* what a crash left, ingests the operator's answer files and decides      *)
(* whether the run waits or is archived.                                   *)
(*                                                                         *)
(* Every operation is synchronous in the plugin's one process, so two      *)
(* operations never interleave; what interrupts one is a kill or a write   *)
(* that throws.  An operation is therefore a sequence of durable writes,   *)
(* one action each, and op says which write comes next; Cut abandons it    *)
(* between any two of them, and GiveUpAsk an ask that the pass replays,    *)
(* which ends that ask only.                                               *)
(***************************************************************************)
EXTENDS Integers, FiniteSets, Sequences

CONSTANTS
  Items,          \* the items of the run's queue
  StageOrigins,   \* origins of single-item stage asks, which reuse an open question
  HumanChoices,   \* verdicts isHumanTerritory may give on a question's text
  MaxAsks,        \* bound: asks and surfaced questions
  MaxCuts,        \* bound: kills, and writes whose throw ends the whole operation
  MayFutile,      \* may the futile re-prompt limit be reached?
  OperatorAnswers \* does the operator use the answer-file channel?

CapOrigin == "plan-review-cap"
SurfaceOrigin == "surface-tool"

ASSUME QuestionsAssumption ==
  /\ MaxAsks \in Nat
  /\ MaxCuts \in Nat
  /\ HumanChoices \subseteq BOOLEAN
  /\ MayFutile \in BOOLEAN
  /\ OperatorAnswers \in BOOLEAN
  /\ CapOrigin \notin StageOrigins
  /\ SurfaceOrigin \notin StageOrigins

VARIABLES
  questions,  \* questions.jsonl: the records, a question's id being its index
  blocked,    \* item.blocked: the id of the question that blocks it, or 0
  released,   \* item.releasedQuestions
  life,       \* open (not PUBLISHED), published, or gone (no item file)
  intents,    \* block-intents/*.json
  asks,       \* asks made so far; also numbers the intent files
  dropped,    \* questions whose answers/Q-n.md the operator has written
  stop,       \* run.stop: none, one of RESUMABLE_STOP_KINDS, or the futile "noop"
  pointer,    \* does the current-run pointer name this run?
  op,         \* the operation under way and its next write
  pass,       \* where the idle pass stands; out: none is under way
  skipped,    \* the intents whose replay threw in this pass
  cuts        \* operations cut short so far, replays that threw not counted

vars == <<questions, blocked, released, life, intents, asks, dropped, stop,
          pointer, op, pass, skipped, cuts>>
run == <<stop, pointer>>
itemFiles == <<blocked, released, life>>

Origins == StageOrigins \cup {CapOrigin, SurfaceOrigin}
Ids == DOMAIN questions
MostQuestions == MaxAsks + MaxCuts

NoAsk == [n |-> 0, origin |-> SurfaceOrigin, names |-> {}, human |-> FALSE]
Rest == [at |-> "rest", ask |-> NoAsk, q |-> 0, via |-> "open",
         left |-> {}, cleared |-> {}]

IsOpen(q) == questions[q].via = "open"
OpenIds == {q \in Ids : IsOpen(q)}
OpenNaming(i) == {q \in OpenIds : i \in questions[q].names}
Live(i) == life[i] # "gone"

\* The oldest of a set of ids: ledger order is id order.
Oldest(S) == CHOOSE q \in S : \A r \in S : q <= r

\* awaitsOperatorConfirmation: a human-territory question answered by the tool.
Awaits(q) == questions[q].human /\ questions[q].via = "tool"

Record(a) == [origin |-> a.origin, names |-> a.names, human |-> a.human,
              via |-> "open"]

Init ==
  /\ questions = <<>>
  /\ blocked = [i \in Items |-> 0]
  /\ released = [i \in Items |-> {}]
  /\ life = [i \in Items |-> "open"]
  /\ intents = {}
  /\ asks = 0
  /\ dropped = {}
  /\ stop = "none"
  /\ pointer = TRUE
  /\ op = Rest
  /\ pass = "out"
  /\ skipped = {}
  /\ cuts = 0

\* A tool call reaches its handler: the session is not idle, nothing runs, and
\* the current-run pointer resolves to this run.
Called == op = Rest /\ pass = "out" /\ pointer
\* ... and the run is not terminal, as every tool but conductor_answer requires.
CalledLive == Called /\ stop = "none"

-----------------------------------------------------------------------------
(* Asking: block-and-ask, and conductor_surface. *)

\* The intent file is written before either half of the ask.
Ask(origin, names, human) ==
  LET a == [n |-> asks + 1, origin |-> origin, names |-> names, human |-> human]
  IN  /\ CalledLive /\ asks < MaxAsks
      /\ asks' = asks + 1
      /\ intents' = intents \cup {a}
      /\ op' = [Rest EXCEPT !.at = "question", !.ask = a]
      /\ UNCHANGED <<questions, itemFiles, dropped, run, pass, skipped, cuts>>

\* A stage asks about its one item, which a surfaced question may have blocked
\* while the stage awaited its sub-session.
StageAsk == \E origin \in StageOrigins, i \in Items, human \in HumanChoices :
              life[i] = "open" /\ Ask(origin, {i}, human)

\* The plan-review cap asks once per finding about every item the finding names.
CapAsk == \E names \in (SUBSET Items) \ {{}}, human \in HumanChoices :
            (\A i \in names : life[i] = "open") /\ Ask(CapOrigin, names, human)

\* A mutant of Adoptable: no ask adopts a question that stands.
AdoptableNever(a) == {}

\* Open questions of the ask's origin naming its item: a stage ask adopts one.
Adoptable(a) ==
  IF a.origin = CapOrigin THEN {}
  ELSE {q \in OpenIds : questions[q].origin = a.origin
                          /\ a.names \subseteq questions[q].names}

Undisposed(names) == {i \in names : Live(i) /\ blocked[i] = 0}

AdoptQuestion ==
  /\ op.at = "question" /\ Adoptable(op.ask) # {}
  /\ op' = [op EXCEPT !.at = "block", !.q = Oldest(Adoptable(op.ask)),
                      !.left = Undisposed(op.ask.names)]
  /\ UNCHANGED <<questions, itemFiles, intents, asks, dropped, run, pass, skipped, cuts>>

AppendQuestion ==
  /\ op.at = "question" /\ Adoptable(op.ask) = {}
  /\ questions' = Append(questions, Record(op.ask))
  /\ op' = [op EXCEPT !.at = "block", !.q = Len(questions) + 1,
                      !.left = Undisposed(op.ask.names)]
  /\ UNCHANGED <<itemFiles, intents, asks, dropped, run, pass, skipped, cuts>>

\* conductor_surface appends at once and leaves no intent.
Surface ==
  \E names \in SUBSET {i \in Items : Live(i)}, human \in HumanChoices :
    /\ CalledLive /\ asks < MaxAsks
    /\ asks' = asks + 1
    /\ questions' = Append(questions,
         Record([NoAsk EXCEPT !.names = names, !.human = human]))
    /\ op' = [Rest EXCEPT !.at = "block", !.q = Len(questions) + 1,
                          !.left = Undisposed(names)]
    /\ UNCHANGED <<itemFiles, intents, dropped, run, pass, skipped, cuts>>

Block(i) ==
  /\ op.at = "block" /\ i \in op.left
  /\ blocked' = [blocked EXCEPT ![i] = op.q]
  /\ op' = [op EXCEPT !.left = @ \ {i}]
  /\ UNCHANGED <<questions, released, life, intents, asks, dropped, run, pass, skipped, cuts>>

\* Both halves stand: the intent, if there is one, is dropped.
Landed ==
  /\ op.at = "block" /\ op.left = {}
  /\ intents' = intents \ {op.ask}
  /\ op' = Rest
  /\ UNCHANGED <<questions, itemFiles, asks, dropped, run, pass, skipped, cuts>>

-----------------------------------------------------------------------------
(* Answering: conductor_answer and the ingested answer file. *)

StartAnswer(q, via) ==
  /\ op' = [Rest EXCEPT !.at = "clear", !.q = q, !.via = via,
                        !.left = {i \in Items : Live(i) /\ blocked[i] = q}]
  /\ UNCHANGED <<questions, itemFiles, intents, asks, dropped, run, pass, skipped, cuts>>

\* The tool is legal while some question is open, and the handler answers
\* whichever question it is given, an answered one included.
ToolAnswer == \E q \in Ids : Called /\ OpenIds # {} /\ StartAnswer(q, "tool")

Clear(i) ==
  /\ op.at = "clear" /\ i \in op.left
  /\ blocked' = [blocked EXCEPT ![i] = 0]
  /\ op' = [op EXCEPT !.left = @ \ {i}, !.cleared = @ \cup {i}]
  /\ UNCHANGED <<questions, released, life, intents, asks, dropped, run, pass, skipped, cuts>>

\* A mutant of Mark: the answer is recorded before the items are clear.
MarkFirst ==
  /\ op.at = "clear"
  /\ questions' = [questions EXCEPT ![op.q].via = op.via]
  /\ op' = [op EXCEPT !.at = "handoff", !.left = {}]
  /\ UNCHANGED <<itemFiles, intents, asks, dropped, run, pass, skipped, cuts>>

\* The answer is recorded only when every item it gated is clear; the items
\* another open question names are then due a successor.
Mark ==
  /\ op.at = "clear" /\ op.left = {}
  /\ questions' = [questions EXCEPT ![op.q].via = op.via]
  /\ op' = [op EXCEPT !.at = "handoff",
                      !.left = {i \in op.cleared : OpenNaming(i) \ {op.q} # {}}]
  /\ UNCHANGED <<itemFiles, intents, asks, dropped, run, pass, skipped, cuts>>

HandOff(i) ==
  /\ op.at = "handoff" /\ i \in op.left
  /\ blocked' = [blocked EXCEPT ![i] = Oldest(OpenNaming(i))]
  /\ op' = [op EXCEPT !.left = @ \ {i}]
  /\ UNCHANGED <<questions, released, life, intents, asks, dropped, run, pass, skipped, cuts>>

\* A mutant of Revive: the stop stays recorded.
ReviveNothing ==
  /\ op.at = "handoff" /\ op.left = {}
  /\ op' = Rest
  /\ UNCHANGED <<questions, itemFiles, intents, asks, dropped, run, pass, skipped, cuts>>

\* reviveIfWaiting.  The pointer it re-writes already names the run: every path
\* to a handler goes through it.
Revive ==
  /\ op.at = "handoff" /\ op.left = {}
  /\ stop' = IF Awaits(op.q) THEN stop ELSE "none"
  /\ op' = Rest
  /\ UNCHANGED <<questions, itemFiles, intents, asks, dropped, pointer, pass, skipped, cuts>>

\* The operator writes an answer file where a report or conductor_status tells
\* them to: for an open question, or one that awaits their confirmation.  Only
\* Ingest reads it, so a file written while an operation runs is as good as one
\* written before it or after it.
DropAnswer(q) ==
  /\ OperatorAnswers
  /\ q \in Ids /\ op = Rest /\ pass = "out"
  /\ IsOpen(q) \/ Awaits(q)
  /\ dropped' = dropped \cup {q}
  /\ UNCHANGED <<questions, itemFiles, intents, asks, run, op, pass, skipped, cuts>>

-----------------------------------------------------------------------------
(* What conductor_queue_amend and the item pipeline do to item files.  An   *)
(* amendment of several ops is several of these steps.                      *)

ItemFileStep ==
  /\ CalledLive
  /\ UNCHANGED <<questions, intents, asks, dropped, run, op, pass, skipped, cuts>>

\* An amendment of an item's tests or scope releases it.  ("open" here covers
\* REVIEWED too, in which isAmendable refuses the amendment.)
AmendUpdate(i) ==
  /\ ItemFileStep
  /\ life[i] = "open" /\ blocked[i] # 0
  /\ blocked' = [blocked EXCEPT ![i] = 0]
  /\ released' = [released EXCEPT ![i] = @ \cup {blocked[i]}]
  /\ UNCHANGED life

FreshItem(i, state) ==
  /\ life' = [life EXCEPT ![i] = state]
  /\ blocked' = [blocked EXCEPT ![i] = 0]
  /\ released' = [released EXCEPT ![i] = {}]

\* Remove then add, or add again what an earlier amendment removed.
AmendRebirth(i) == ItemFileStep /\ life[i] \in {"open", "gone"} /\ FreshItem(i, "open")

AmendRemove(i) == ItemFileStep /\ life[i] = "open" /\ FreshItem(i, "gone")

\* The stages end in PUBLISHED; a blocked item makes no transition.
Publish(i) ==
  /\ ItemFileStep
  /\ life[i] = "open" /\ blocked[i] = 0
  /\ life' = [life EXCEPT ![i] = "published"]
  /\ UNCHANGED <<blocked, released>>

-----------------------------------------------------------------------------
(* handleSessionIdle: replay the intents, reconcile the ledger, ingest the  *)
(* answer files, and only then judge whether the run stops or is archived.  *)

PassStep(from) ==
  /\ pass = from /\ op = Rest
  /\ UNCHANGED <<intents, asks, dropped, skipped, cuts>>

\* A session.idle event of the orchestrator finds a run by the pointer.
StartPass ==
  /\ op = Rest /\ pass = "out" /\ pointer
  /\ pass' = "replay"
  /\ skipped' = {}
  /\ UNCHANGED <<questions, itemFiles, intents, asks, dropped, run, op, cuts>>

\* What the sweep has yet to take up.
ToReplay == intents \ skipped

Replay ==
  /\ PassStep("replay") /\ ToReplay # {}
  /\ \E a \in ToReplay :
       /\ \A b \in ToReplay : a.n <= b.n
       /\ op' = [Rest EXCEPT !.at = "question", !.ask = a]
  /\ UNCHANGED <<questions, itemFiles, run, pass>>

\* A write of a replayed ask throws: its intent stays, and the sweep goes on to
\* the next one.  (Bound: a throw after the question was appended, which the next
\* replay may append again, leaves room for it among MostQuestions.)
GiveUpAsk ==
  /\ pass = "replay" /\ op.at \in {"question", "block"}
  /\ op.at = "block" => Len(questions) + Cardinality(intents) <= asks + cuts
  /\ skipped' = skipped \cup {op.ask}
  /\ op' = Rest
  /\ UNCHANGED <<questions, itemFiles, intents, asks, dropped, run, pass, cuts>>

\* A mutant of ReplayDone: the sweep gives up with intents pending.
ReplayDoneEarly ==
  /\ PassStep("replay")
  /\ pass' = "reconcile"
  /\ UNCHANGED <<questions, itemFiles, run, op>>

ReplayDone ==
  /\ PassStep("replay") /\ ToReplay = {}
  /\ pass' = "reconcile"
  /\ UNCHANGED <<questions, itemFiles, run, op>>

\* The items an open question names that carry no disposition and were not
\* released from that very question.
Owed(q) == {i \in Undisposed(questions[q].names) : q \notin released[i]}
Orphans == {q \in OpenIds : Owed(q) # {}}

Reconcile ==
  /\ PassStep("reconcile") /\ Orphans # {}
  /\ \E i \in Owed(Oldest(Orphans)) :
       blocked' = [blocked EXCEPT ![i] = Oldest(Orphans)]
  /\ UNCHANGED <<questions, released, life, run, op, pass>>

ReconcileDone ==
  /\ PassStep("reconcile") /\ Orphans = {}
  /\ pass' = "ingest"
  /\ UNCHANGED <<questions, itemFiles, run, op>>

\* pendingAnswers: only an open question's file is read.
PendingAnswers == OpenIds \cap dropped

Ingest ==
  /\ pass = "ingest" /\ op = Rest /\ PendingAnswers # {}
  /\ StartAnswer(Oldest(PendingAnswers), "human-file")

IngestDone ==
  /\ PassStep("ingest") /\ PendingAnswers = {}
  /\ pass' = "verdict"
  /\ UNCHANGED <<questions, itemFiles, run, op>>

OpenItems == {i \in Items : life[i] = "open" /\ blocked[i] = 0}
BlockedItems == {i \in Items : Live(i) /\ blocked[i] # 0}
Settled == OpenItems = {} /\ (BlockedItems # {} \/ OpenIds # {})

VerdictStep == PassStep("verdict") /\ UNCHANGED <<questions, itemFiles, op>>

\* A stopped run keeps its pointer while a question is open: waitingForAnAnswer.
Terminal ==
  /\ VerdictStep /\ stop # "none"
  /\ pointer' = (OpenIds # {})
  /\ pass' = "out"
  /\ UNCHANGED stop

\* No item can be advanced and a human holds the next move.  The stop is
\* recorded, and what follows is what Terminal does of a stopped run.
Settle ==
  /\ VerdictStep /\ stop = "none" /\ Settled
  /\ stop' = "resumable"
  /\ UNCHANGED <<pointer, pass>>

\* The futile re-prompt limit: noop, recorded and then archived unconditionally.
Futile ==
  /\ VerdictStep /\ MayFutile /\ stop = "none"
  /\ stop' = "noop"
  /\ pass' = "archive"
  /\ UNCHANGED pointer

Archive ==
  /\ PassStep("archive")
  /\ pointer' = FALSE
  /\ pass' = "out"
  /\ UNCHANGED <<questions, itemFiles, stop, op>>

RePrompt ==
  /\ VerdictStep /\ stop = "none" /\ ~Settled
  /\ pass' = "out"
  /\ UNCHANGED run

-----------------------------------------------------------------------------

\* The process is killed, or a write throws that nothing catches: the operation
\* ends where it is, and with it the pass it belongs to.
Cut ==
  /\ cuts < MaxCuts /\ (op # Rest \/ pass # "out")
  /\ cuts' = cuts + 1
  /\ op' = Rest
  /\ pass' = "out"
  /\ UNCHANGED <<questions, itemFiles, intents, asks, dropped, run, skipped>>

\* The next write of whatever is under way.
OperationStep ==
  \/ AdoptQuestion \/ AppendQuestion \/ Landed \/ Mark \/ Revive
  \/ \E i \in Items : Block(i) \/ Clear(i) \/ HandOff(i)

PassProgress ==
  \/ Replay \/ ReplayDone \/ Reconcile \/ ReconcileDone \/ Ingest \/ IngestDone
  \/ Terminal \/ Settle \/ RePrompt \/ Archive

ToolCall ==
  \/ StageAsk \/ CapAsk \/ Surface \/ ToolAnswer
  \/ \E i \in Items : AmendUpdate(i) \/ AmendRebirth(i) \/ AmendRemove(i) \/ Publish(i)

Next ==
  \/ ToolCall \/ OperationStep \/ StartPass \/ PassProgress \/ Futile \/ Cut \/ GiveUpAsk
  \/ \E q \in Ids : DropAnswer(q)

Spec == Init /\ [][Next]_vars

\* An operation or a pass under way is carried on by the process that runs it.
\* Nothing is assumed of the events that begin one.
FairSpec == Spec /\ WF_vars(OperationStep) /\ WF_vars(PassProgress)

-----------------------------------------------------------------------------
(* Properties. *)

\* A blocked item can always be released by an answer: the question it is blocked
\* on stands in the ledger, is open and names it, whatever was cut short.
\* (answerQuestion clears the items before it marks the question, so that no kill
\* leaves an item on an answered question that no tool can answer.)
BlockedOnAnOpenQuestion ==
  \A i \in Items : blocked[i] # 0 =>
    /\ blocked[i] \in OpenIds
    /\ i \in questions[blocked[i]].names

\* When the idle pass judges the run, every open question's gate stands: each
\* item it names is blocked, unless an amendment released it from that question.
\* Kills, replays and the successors an ingested answer hands items to included.
GatesStandAtVerdict ==
  pass = "verdict" => \A q \in OpenIds : \A i \in questions[q].names :
    Live(i) => blocked[i] # 0 \/ q \in released[i]

\* A stuck item has one useful ask: no two open questions of one stage origin
\* name the same item, also when an ask is replayed after a kill.
OneUsefulAsk ==
  \A q, r \in OpenIds :
    q # r /\ questions[q].origin = questions[r].origin
          /\ questions[q].origin \in StageOrigins
      => questions[q].names \cap questions[r].names = {}

\* The pointer is never taken from a run while a question is open, so every open
\* question can still be answered: where no futile stop happens, which archives
\* at once.
OpenQuestionKeepsThePointer == OpenIds # {} => pointer

\* A run that stopped waiting is revived by its answer: as long as no operation
\* was cut short, a run is archived only by a futile stop, or when an answer the
\* tool gave to a human-territory question left it stopped.
AnsweredRunIsRevived ==
  cuts = 0 /\ ~pointer /\ stop # "noop" => \E q \in Ids : Awaits(q)

\* The orchestrator goes idle again and again on a run that keeps its pointer.
IdlesKeepComing == []<><<StartPass>>_vars

\* The writes of replayed asks do not throw forever.
ThrowsCease == <>[][~GiveUpAsk]_vars

\* What waits for an idle pass does not wait forever where idle events keep
\* coming and throws cease: an ask cut short, by a kill or by a throw in its own
\* replay, is completed, and a question whose answer file the operator wrote does
\* not stay open.  (No timer runs a pass: a run that nobody prompts is not
\* repaired.)
PassesCatchUp ==
  IdlesKeepComing /\ ThrowsCease =>
    /\ intents # {} ~> intents = {}
    /\ \A q \in 1..MostQuestions : q \in PendingAnswers ~> q \notin OpenIds

=============================================================================
