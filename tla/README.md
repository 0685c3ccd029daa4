# Verification of llama-leash

llama-leash runs coding agents against local models. Two programs carry its own logic:
**conductor**, a TypeScript plugin that drives a fixed pipeline (classify, decompose, plan,
review, then test, implement, validate, review and publish for each item) through tools the
model may call; and **llama-router**, a C++ HTTP proxy that admits requests to a few model
slots. Python scripts start the model and the router, download the models and run benchmark
campaigns. This directory holds TLA+ modules of their parts, TLC configurations that check the
modules on small instances, and TLAPS proofs of what holds on all of them. `PROJECT.json` maps
every definition to the lines it models and lists hazards, findings and, for every property, a
mutant of the code that breaks it.

Run `tlc -workers 2 -config X.cfg M` for one run of `PROJECT.json` and `tlapm M.tla` for one
proof module.

## 1. Inventory

### Components

| Component | State it keeps | Operations | Modelled by |
|---|---|---|---|
| llama-router admission, affinity (`router/admission.hpp`, `affinity.hpp`) | in-flight count per model, one queue of waiters, burst policy per model, arrival counter; all under one mutex | `admit` (at once, parked, overflow, timed out), `release`, `grantNext` | `Admission`, `Affinity`, `SlotPool` |
| llama-router dispatch (`router/router.hpp`) | a relay per request (headers, buffered chunks, finished, cancelled), its two threads | relay whole or streamed, back-pressure, cancel, reject on a missing schema | `Router`, over `Admission` |
| metrics ledger, dashboard (`router/metrics.hpp`, `dashboard/`) | the ledger file; the follower's offset, tail and view | append a line, reopen; poll, chunk, skip, start over | `Ledger`, `Router` |
| workspace lock (`adapter/state.ts`) | `run.lock`, `run.lock.break.*`, `run.lock.stale.*` on disk | acquire, self-verify, break a stale lock, put back, release | `WorkspaceLock` |
| question ledger (`adapter/questions.ts`, `block-and-ask.ts`, `answer-file.ts`, `core/provenance.ts`) | `questions.jsonl`, `item.blocked`, `item.releasedQuestions`, `block-intents/`, `answers/` | ask, surface, answer (tool or operator file), hand off, replay, reconcile | `Questions` |
| idle engine (`adapter/continuation.ts`, `core/stops.ts`, `core/disposition.ts`) | run.stop, the current-run pointer, futility counters, timers | repair, ingest, judge, re-prompt, stop, archive | `Questions`, `RunLifecycle`, `Idle`, `Legality` |
| queue and its amendment (`core/planning.ts`, `queue-amend.ts`) | `queue.json`, item files, decisions | accept a proposal; add, update, remove items; route findings | `Decompose`, `Clusters` |
| item pipeline (`adapter/tools.ts`, `core/fsm-item.ts`, `tool-legality.ts`) | item state, attempts, vetted test digests | one handler per stage tool, each awaiting sub-sessions; the wave that runs them in groups | `ItemStages`, `ItemReview`, `Legality` |
| run, planning, plan review, report (`adapter/tools.ts`, `core/fsm-run.ts`, `preflight.ts`) | run.json, queue, plans, review rounds, report.md | classify, decompose, plan, review, report, override | `RunLifecycle`, `Legality` |
| evidence and freshness (`adapter/evidence.ts`, `core/freshness.ts`) | evidence ledger, its counter and latch, stamps over a scope's digests | run a command, number and append a record, judge freshness | `Evidence`, `ItemStages` |
| fan-out (`adapter/fanout.ts`, the tree view in `plugin/index.ts`) | jobs, held writes, budgets, frozen trees | dispatch a wave, retry, watch, hold and release | `Fanout` |
| scheduler, worktrees (`core/schedule.ts`, `adapter/worktrees.ts`) | a wave, a worktree and a branch per item | compose a wave, create, publish, merge back, archive | `ItemStages` (the wave), `Worktrees` |
| quarantine (`adapter/quarantine.ts`) | manifest, moved files | quarantine, roll back, restore, heal | `Quarantine` |
| gates (`core/gates-edit.ts`, `gates-git.ts`, `gates-phase.ts`, `tool-bindings.ts`) | session registry, one-shot grants, taints, claims | decide on a call; grant, override, claim | `Gates`, `Legality` |
| setup, config (`handleSetup`, `adapter/config-io.ts`, `router-client.ts`) | the config file, the workspace the plugin memoised | detect, probe, write; fail over between router and server | `Setup` |
| serving supervision (`scripts/serve.py`, `run_and_watch.py`) | processes and their exits, router configuration | start, supervise, hand over, stop | `Serving` |
| downloads (`scripts/fetch_models.py`) | partial files, their ledgers, a manifest | fetch ranges, resume, validate, verify, remove | `Fetch` |
| campaign driver (`scripts/conductor_bench.py`) | result files, cells, work trees | run a cell, measure, record, resume | `Campaign` |
| types, text classifiers, journal, endpoint benchmark, quality judge, offline tools, bench corpus | | | no, see section 5 |

### How they interact

- The plugin is one process with one thread. A host callback (a tool call, a `session.idle`
  event, a message) runs to its next `await`; only at an `await`, in a stage handler that waits
  for a sub-session, can another callback run.
- Handlers share state through files. Each write of one file is atomic (a temporary file, then a
  rename); a sequence of writes is not, and a kill or a write that throws leaves a prefix of it.
  Ledgers are appended to, and a kill may tear their last line.
- The lock gives a workspace to one plugin process at a time. Most of the rest assumes it; the
  evidence counter does not, since a lock outlives its holder's day.
- The model calls tools; the operator answers questions through a tool call or a file that the
  idle engine reads; the idle engine re-prompts the session or ends the run.
- Sub-sessions are jobs of the fan-out. They reach their models through llama-router, one HTTP
  handler thread per request and one more towards the upstream; requests meet only in the
  admission controller's mutex.
- The viewer follows the router's ledger as a file, the campaign driver reads it between cells.
- The scripts own the processes: a start hands the model server over from `serve.py` to the bash
  it becomes, with a watchdog beside it.

### What is hard

`PROJECT.json` lists the hazards, each at its line with the properties that cover it. In short:
a deadline that expires as a grant lands; a burst of one group that starves its neighbours; a
client that leaves while its answer streams; a stale lock judged by a read and then moved by a
rename; a kill between a question and the items it blocks; an answer, a stop and an archiving in
one idle pass; what a handler read before it awaited a sub-session and uses afterwards; a commit
or a format rule between a verify and the publication that rests on it; a marker that appears
and goes between two polls; a verify that fails with files moved away; a merge cut between git
commands; a review whose fixes change the test that approved it; a config written while the
gates keep the old one; a grant spent on another refusal than it was meant for; a resume over a
file whose ledger is ahead of its bytes; a supervisor that is killed before its watchdog runs; a
benchmark row of a process that outlived its cell.

### What makes each part correct

- Admission: no slot is lost or given twice, none is idle while somebody waits for it, a waiter
  is answered unless better classes keep queueing before it, urgent classes go first, overtaking
  inside a class is bounded, parked threads leave a worker for the health probe.
- Dispatch and ledger: an answer that ends cleanly is whole; upstream work holds a slot; a
  request has one line; the viewer counts every whole line once.
- Lock: one writer, named by the lock file; no crash wedges the workspace; racing openers do not
  all fail; nobody deletes another's lock.
- Questions: a blocked item can be released by an answer; an open question's gate stands; no ask
  is repeated; an answered run goes on; an open question keeps its run.
- Items: no item advances while it is blocked; a published item was verified on the files and
  the HEAD it was published from; green means green on the test the critics approved; attempts
  survive a kill; a wave ends; a review approves the tree it read.
- Queue: what is accepted can be executed; an amendment cut short is made whole; a finding
  reaches the items it is about.
- Run: it moves forward along its state machine, a stop stands unless the answer the run waits
  for lifts it, every stopped run is reported, every live run is found by the engine, no item is
  stranded, only a run that stands still is stopped for it.
- Evidence: a number is issued once; the critics see the last red.
- Quarantine and worktrees: no file and no commit is lost, whatever step fails, and what is
  published is on the branch.
- Gates: what runs out of its lane is on record, and every refusal is answered for.
- Setup: no outage of the router fails it, only the router's own errors and the model server's,
  and what the config claims was proved.
- Scripts: nothing is left running, the router knows its server, a file that is in place is
  whole, a counted row is of its run.

## 2. Modules

| Module | Role |
|---|---|
| `Affinity` | the dequeue policy, as operators |
| `Admission` | the controller; extends `Affinity` |
| `SlotPool` | what the controller promises: slots, owners and wants, without queue or policy |
| `Router` | the relay of a request; extends `Admission` |
| `Ledger` | the metrics ledger and the viewer that follows it |
| `WorkspaceLock` | acquisition, break and release of `run.lock` |
| `Questions` | ledger, blocks, intents, answers and the idle pass |
| `ItemStages` | the six stage handlers and the wave over them |
| `ItemFsm` | what they promise of an item: its state machine, blocks and dependencies |
| `ItemReview` | the rounds of `conductor_item_review` |
| `RunLifecycle` | a run from its prompt to its report, with stops, answers, overrides and kills |
| `Legality` | which tool is legal, which is recommended, and how a run closes |
| `Idle` | the bookkeeping of the idle engine: latch, signatures, counters |
| `Decompose`, `Clusters` | what a queue may be, and how it is amended; how many things an item is about |
| `Evidence` | the numbering and appending of evidence, and which red is shown |
| `Fanout` | one wave of sub-sessions over frozen trees |
| `Quarantine` | a verify that moves files away and back |
| `Worktrees` | isolated trees and the merge back |
| `Gates` | what a tool call meets before it runs; overrides |
| `Setup` | `conductor_setup` and the router failover |
| `Campaign`, `Serving`, `Fetch` | the scripts |
| `IntegerSets` | lemmas for the proofs: least and greatest elements of finite sets of integers, sizes counted by classes, functions defined along a rank or step by step |
| `RouterProofs` | theorems about `Admission`, `Router` over it, and `Ledger` |
| `QueueProofs` | theorems about `Decompose` and `Clusters` |
| `QuestionsProofs`, `ItemStagesProofs`, `RunLifecycleProofs` | theorems about one module each |
| `TreesProofs` | theorems about `Quarantine`, `Worktrees`, `WorkspaceLock` and `Fanout`: trees that processes and sessions share |
| `SubsystemProofs` | theorems about `Serving`, `Campaign`, `Fetch`, `Idle`, `Evidence`, `Setup`, `ItemReview`, `Legality`, `Gates` |
| `MCAdmission`, `MCQuestions`, `MCItemStages`, `MCWorkspaceLock`, `MCFanout`, `MCQuarantine`, `MCSetup`, `MCItemReview`, `MCDecompose`, `MCClusters` | values for TLC |
| `MCRouter`, `MCHolders`, `MCSubsystems` | several modules in one run |

Four modules compose parts. `Router` extends `Admission` and adds what happens to a request
outside the mutex, so that both act on the same threads and slots. `MCRouter`, `MCHolders` and
`MCSubsystems` hold parts that share no state: a behaviour picks a `part` in its initial state
and explores that part alone, while the others keep their initial values. That is a union of
state spaces and not a product, and every property of such a run is that of its part. They
extend the modules of their parts, so that what a run checks is the definition the theorems are
about. Modules that a run holds together have distinct names for their initial states and
next-state relations: `LockInit`, `RunNext`, `QuarantineSpec` and so on.

### Admission

`admit()` and `release()` run under `mutex_`, which only `wait_until` gives up, so an action is a
stretch between two waits: `AdmitNow`, `Overflow` and `Park` are `admit()` up to its answer or its
wait; `Wake` and `TimeOut` are what follows the wait, with the grant and without it;
`ReleaseGrants` and `ReleaseNoWaiter` are `release()` together with `grantNext()`. A `wait_until`
whose deadline expires after the grant returns with the grant, as its predicate is evaluated under
the mutex: `TimeOut` needs `status = "waiting"`, and there is no third outcome. `queue_` is a set
of entries whose arrival numbers order it. `Outclassed` is an entry behind one of a better class
for its model, which is all that may keep it waiting. Arrivals that never end need ordinals that
do: `MCAdmission` numbers the ones still named afresh when they are used up (`Renumber`), since
the code reads nothing of an ordinal but its order. `policies_` has `NoPolicy` for an absent key.
`startedBy` in a burst is history the code forgets; it lets the overtaking property name the head
that opened the burst.

### WorkspaceLock

The actors are processes of the operating system; each runs synchronous code, so an action is
one `link`, `read`, `rename` or `unlink` and the decision on its result. `OpenerDies` may happen
at the steps `CrashSteps` names. A token is one acquisition, a process and its attempt, as in the
nonce the code writes. Time is one bit per token: `GrowOld` makes a held lock over-age. A pid
that is reused by another live process is not modelled, nor is a break right older than a day.

### Questions

Each operation is synchronous in one process, so operations do not interleave; what breaks one
is a kill, or a write that throws. An operation is a sequence of durable writes, one action
each; `op` says which comes next. `Cut` abandons the operation and the pass it belongs to;
`GiveUpAsk` is the throw that does not, that of a replayed ask, which the pass catches
(`block-and-ask.ts:323`) and goes on with the next intent: `skipped` are those it leaves for the
next pass. `pass` is the idle pass: replay the intents, reconcile the orphans, ingest the answer
files, judge. Questions are numbered by their
position in the ledger. `isHumanTerritory`, a classifier of text, is an input. The item pipeline
appears only as far as it touches a block: an item is open, published or has no file.

### ItemStages

One run at EXECUTING, `parallel.writes "off"`: all items share the workspace tree. The
orchestrator makes one tool call at a time, `CallStage` for a stage tool, `DispatchWave` for
`conductor_dispatch_wave`; this is an assumption about the host. A handler is split at its
awaits: `Start...` runs from the call to the first sub-session, and an action named after the
reply (`CriticsReplied`, `FixerReplied`) from that reply to the next await or the return.
`verify()` and all of `handlePublish` are synchronous, hence one action. `job[i]` is the
sub-session item *i*'s handler waits for, with what it keeps in local variables across the
await: the round, and the set of tests to quarantine. Other handlers of the wave,
`conductor_surface` (`SubSessionSurfaces`), the sub-session's edits, the operator and a kill
come in between. A group's handlers start in one synchronous pass, in member order; `Starting`
keeps everything else out of it. Serial stages wait for those of earlier members
(`TurnHasCome`).

The verdicts of tests, critics and reviewers are inputs. `proof[i]` is the item's evidence as
`verifyFreshFor` sees it: `current`, `edited` (a file of the scope is younger) or `moved`
(another HEAD). Stamps are exact, but `doubt` in `Publish` may call fresh evidence stale, as a
coarse stamp or a staged deletion does; an edit in the very millisecond of a verify is left out.
`measured`, `fouled` and `implemented` are history that no action reads. A fix pass of the
review that dispatches the same kind of sub-session again waits once, longer. Left out here:
worktrees (`Worktrees`), the rounds of a review (`ItemReview`), no-git mode and deferral
(`Legality`), and the registry of stale reds.

`ItemFsm` is what is left of it without tools, sub-sessions and evidence: the table of
`core/fsm-item.ts`, the blocks, and the rule that only PUBLISHED unlocks. Two writes go past the
table: `demoteReviewedToGreen()`, on purpose, and the red of `redAdmission()`, which asks the
table with `blocked: null` although the item may be blocked by then (section 3).

### RunLifecycle

`run` is `run.json` of every run, `report` its `report.md`, `pointer` the current-run file;
`work` summarises the item files and the question ledger as `itemsSummary()` does, because that
is all the engine and the report look at. A planning tool is split at its await: `StartCall`
loads the run and asks for legality, `Classify`, `Decompose`, `Plan`, `Revise` and `Review` save
*that copy* with their changes, which is what `saveRun()` does. Several sub-sessions of a call
count as one wait, as a handler reads no state between them; a review waits once a round. The
rest (`Report`, `Override`, `Answer`, the idle pass, the turn detector) is synchronous: the only
`await` in `handleReport` is on a metrics reader that the plugin does not pass. Each is one
action with the places where a kill cuts its writes. The idle pass is `IdlePass`: what the
answer files make of the run, then one of `IdleHalts`, `IdleCloses`, `IdleStops`, `IdlePrompts`
and `IdleGivesUp`. Events of the orchestrator's session come between its calls; a human may
abort a turn, after which the host goes on while the handler of the call does too (`Abort`). The
halt file, the counters of futile prompts and of stalled turns, the validity of receipts and the
closing verify are inputs. A run asks one question, and its answer releases what it blocks: the
ledger is in `Questions`. Left out: the disposition `stuck` (a block no answer releases), the
pruning of old runs, and a sub-session that stays alive after its call.

### Router

A listener thread of the pool serves one request at a time: `call[t]` is where `handleProxy()`
stands. `TakeGet`, `RefusePost` and `TakePost` are the way from the socket to the admission,
`Admitted` and `TimedOut` its two ends, and from there a second thread (`UpstreamHead`,
`UpstreamChunk`, `UpstreamEnds`) fills the relay that the handler and its content provider empty
(`Head...`, `BodyArrives`, `Provide...`). An action is one critical section of `UpstreamRelay`'s
mutex or the stretch of a thread between two. `ClientLeaves` may come at any write;
`WriteFails`, `CancelCall` and `Join` are the teardown. The destruction of a provider returns
the slot before its upstream call is joined, which `UpstreamWorkIsAdmitted` names as its
exception. Left out: the aggregates of `/metrics`, the parsing of the configuration, exit codes.

### Ledger

A file is a sequence of pieces and a line ends with a newline piece, so that `WriteSome` and
`AppendFails` can leave any prefix of a line. The viewer's poll is two steps (`Stat`, `Read`), as
the router writes and the operator moves files between the two. `shown` is what its view counts,
`followed` the file those records are of. A chunk is taken piece by piece (`TakePiece`, `Taken`),
which is what the loop over its newlines comes to; `EveryLineIsCounted` states its result without
that loop, from where the newlines of the file are.

### Quarantine, Worktrees, Evidence

The three modules in which each call on the file system, or each git command, is one action, so
that a kill or a failing call comes between any two. `Quarantine` has the verify from its marker
to its restore; a file is its version; `Heal` is what the next verify does for the quarantine of
a dead owner; `CrossDevice` makes a move a copy and an unlink. `reused` remembers that a run
quarantined into a directory that still held files, the one case the property excepts.
`Worktrees` has an item from its setup through its publication on a branch to the merge, the
verify after it, the demotion after a conflict, and the archive. `untracked` are the items none
of whose paths is in the last commit of their branch: the paths are all deleted, so `git add` has
nothing to stage at a second publication, which then skips commit and merge (`PublishNothing`).
`Evidence` has the latch of the
counter with its break by age or dead owner, the counter, the append with torn tails, and
`Captured`, the red that `capturedRedOf()` finds; its writers are two processes, as the loser of
an over-age lock lives on.

### Fanout

One wave. `Pump` is the drain of a model's group after any completion; `Finish` completes a job
and pumps. `Replied` has a prompt's outcome as a kind (receipt, malformed, envelope error,
provider error) that `Kind` derives from the features of the text. The tree view is in the
module with both of its updates: `Poll`, and `NotifyClear`, which the driver calls when it
removes a marker (`Thaw`). `MarkersOutliveAPoll` lets a marker go only when the poll has seen
it; `fanout_held` assumes it, which is in the code's favour, `subsystems` does not.

### ItemReview

One item at VALIDATED. `moment` is where `handleItemReview()` stands: at one of its awaits
(lenses, panel, fix, pushback, redemand, refix, revet) or inside a synchronous stretch that a
kill may cut. A finding is a lens, a severity and what the paths in its fix and its prose fall
into: the item's files, its tests, or elsewhere. The hunks of a kind of file (edited, created,
emptied, removed, binary ...) decide what a reviewer has to cite (`DiffContact`) and can cite
(`Witnesses`). `change`, `unvetted`, `unverified` and `unseen` tell the tree apart from what
lenses, critics and the verify have seen. Left out: which lenses share a session, and the throws
of a configuration that allows no panel.

### Legality

`Legal`, `Recommended` and `PhaseRule` are the phase gate, `DispositionsOf`, `Closure` and
`StopKindOf` the dispositions, `IdleStops` and its neighbours the engine's use of both. The
stages of the pipeline appear as `Stage(i)`, one step from state to state, so that a whole run
with its questions, deferrals and report is within reach. The module is about the agreement of
derivations that the code makes separately from the same files.

### Idle

The counters that a pass and a turn keep, on disk and in memory (`memory`), over an opaque
`signature` of a run. A pass is one step, ended by one of `HaltPass`, `ClosedPass`,
`FutilePass`, `WaitsPass`, `SilentPass`, `HeldBackPass`, `ThrownPass`, `PromptPass`; the prompt
itself is in flight until `SettlePrompt`. `Turn` is the sampler of finished messages, which the host
may deliver again. Refused permission asks travel as conversions to the next prompt.

### Decompose, Clusters

`ValidQueue` is `validateQueue()` over globs that are sets of sequences of segments, and the
properties compare it with what globs denote. `WalkOn` is one turn of the depth-first search for
cycles, with its path and colours, and `Walked` its turns. An amendment is planned as a whole
(`ApplyAmendOps`) and then written file by file (`WriteBirths`, `WriteQueue`, `WriteRemovals`), a
kill in between.
`Clusters` has the grammar of `acceptanceClusters()` over words of eight kinds: subject,
deliverable, symbol homes and the fold of related names; regular expressions and vocabularies
are the constant `WordKind`, and `Declared` is the entry of the item's scopes that a word falls
under (one entry: scopes that overlap within an item are not modelled).

### Gates

`Refusals(s, c, crash)` are the refusals of a call in the order of the hooks, `Converted` the
ones a grant turns, `Effect` what runs. A path is its tree and its territory (source, test, of
which item); a command is what the parsers find in it. `Override` mints grants against two
budgets and leaves a taint; `strays` is a ghost: calls that ran outside their lane.

### Setup

`BeginSetup` admits the call, `Replies` and `After` are one probe request each with the client's
failover and its latch, `FinishSetup` is what follows the last await: the write of the config and
of its record. A request that the router lets down goes to the model server; a standing router may
also answer for itself (503 from a full queue or a deadline, 502 without a thread), which the
client takes for the answer, and `turned` remembers it. `Good` is a model server that answers a
probe within its time. `opened` is the workspace that the plugin memoised at its first use.
Prompts, edits of the config, restarts and outages fall in between.

### Campaign, Serving, Fetch

`Campaign` walks the plan cell by cell; agents that outlive their cell go on calling and
editing, the router logs a request whose client is gone at once or later (`logged`), its ledger
may not open, the driver dies anywhere and is started again. What a trial cannot tell from its own
is history (`found`): a `tenant` of its tree, a `stranger` at the router, a ledger it is `blind`
to. The property names these three and nothing else. `Serving`
has one start of the processes in a session or a campaign, with an exit, an exception or a
signal at every step of each; `conf` is the router's configuration, key by key, by who wrote it.
`Fetch` has several connections that fill ranges of one partial file, with its ledger, and the
commands install, verify and remove over them; each rename and each unlink is a step that a kill
may follow, those of `--force` and of a removal too. `Weights` are the files that `validate_files`
sizes, which a projector is not, `Digested` those with a published hash. `outlived` are the shards
whose part was made under a ledger that its own part did not survive, until the first range is on
record: a kill before that leaves a ledger that vouches for holes.

## 3. Runs

Each passing run answers the questions of the parts it holds; each `violation` run shows one
sentence of the repository's comments that the code does not keep, quoted in `PROJECT.json`
"findings".

| Run | Shows |
|---|---|
| `admission` | two models over a budget of one, a queue of two, two classes, a prefix group, arrivals without end: thread budget, refinement of `SlotPool`; without help from the deadline a waiter is answered unless better classes keep queueing before it |
| `holders` | six parts, one per behaviour, table below |
| `questions_repair` | both answer channels, one cut anywhere, replays that throw: an answered run is revived; where idle events keep coming, half asks are completed and answer files taken in |
| `items_wave` | two items, one with a test, alone or in a wave, awaits interleaved with blocks, edits, operator and kill: every call returns |
| `router` | *requests*: two listener threads over the admission; whole answers, slots, one line each, every thread comes back. *lines*: what the viewer counts of a ledger that is torn, moved and restarted |
| `subsystems` | twelve parts, one per behaviour, table below |
| `lock_three_openers` (violation) | a breaker that judged an unreadable file moves a live lock aside, and a third process claims the path: two writers |
| `fanout_held` (violation) | the driver's clear signal absorbs what the poll would have announced: a held job waits for a marker that is gone |
| `quarantine_conflict` (violation) | a file kept for a conflict is overwritten by the next verify of its run |
| `setup_stale_gate` (violation) | after setup the gates judge by the workspace memoised before it |
| `review_cap` (violation) | in the last round a spec finding sets quality findings aside and is then refuted: REVIEWED over them |
| `review_stash` (violation) | the probe of a re-vetted test pops an entry of the user's stash |

The parts of `holders`:

| Part | Module | Properties | Question |
|---|---|---|---|
| *pointer* | `RunLifecycle` | `ItemsPrecedeTheState` | two runs, two kills, an aborted call: does a run claim a queue whose items are gone? |
| *workspace* | `WorkspaceLock` | `SingleWriter`, `SomebodyWins` | three processes, two alive at a time, dying anywhere but between a rename and its put-back: is there one writer, and are racing openers all refused? |
| *slots* | `Admission` | `OvertakingIsBurstBounded` | one model, one slot, a queue of three: who overtakes whom? |
| *trees* | `Worktrees` | `PublishedIsIntegrated`, `CommitsSurvive` | does what was published reach the branch, and stay? |
| *cells* | `Campaign` | `CountedRowsAreOfTheirRun` | is a counted row of the run it names? |
| *files* | `Fetch` | `FilesAreWhole` | can an installed file have a hole? |

The parts of `subsystems`:

| Module | Properties | Question |
|---|---|---|
| `WorkspaceLock` | `LoneOpenerGetsIn` | openers one after the other, dying anywhere: does the next get in? |
| `Fanout` | `SessionsInOrder`, `WaveEndsUnlessHeld` | is every session known, one model served at a time, and does the wave end? |
| `Quarantine` | `FilesSurviveVerifies` | is any version of a test lost, or away when no one heals it? |
| `Gates` | `StraysAreOnRecord` | does a call leave its lane without a record? |
| `Serving` | `NothingIsLeftRunning`, `RouterKnowsItsServer` | who stops the server, and what does the router believe? |
| `Idle` | `StopsOnlyAWedgedRun`, `RefusalsAreAccountedFor` | is a run that moves stopped, is a refusal forgotten? |
| `Evidence` | `NumbersAreIssuedOnce`, `CriticsSeeTheLastRed` | two processes over one counter, torn tails |
| `Decompose` | `QueuesAreExecutable`, `AmendedItemsAreWhole`, `FindingsReachTheirItems` | does the validation accept only what can be run? |
| `Clusters` | `CountsTheThings` | does the count of a prompt's subjects match what it ties together? |
| `Legality` | `NothingIsStranded`, `DoneIsDone` | is there always a move, and is a closed run done? |
| `Setup` | `OutageFailsNoSetup`, `TheConfigIsVouchedFor` | outages between two probes, a router that turns requests away; what the config claims |
| `ItemReview` | `ApprovalIsOfTheTree`, `DemandsCanBeMet` | is what was approved what was read; can a demand be met? |

The properties whose names are only in section 4 are proved for all values and no longer run.

### What else the models show

Behaviours the models reach that a reader of the code may not expect. No run states them, as
each is one trace, or the sentence it contradicts is weaker than those above. Where a property
meets one, it names it as its exception, in a definition of its own.

Router and viewer:

- `admission.hpp:286`: a waiter that times out leaves its model's policy behind with nobody
  waiting; the comment above it bounds the table by the models that wait. It is bounded by the
  saturated models (`PolicyOnlyWhileSaturated`, proved).
- `router.hpp:1006`: a provider's captures are destroyed in reverse order, so the slot is back
  before the cancelled upstream call has ended; more than `maxInflightPerModel` calls may
  briefly run.
- `router.hpp:1355`: an older verdict on the schema may overwrite a younger one in
  `lastObservation_`.
- `ledger_view.hpp` says that any chunking emits the records of the whole; a line above the
  carry ceiling is counted or dropped depending on where a read cuts it. A torn line takes the
  next record with it, as the two become one unreadable line. A file that replaced a shorter one
  between two polls is read from the middle. A ledger that is moved away while the router is up
  goes on receiving lines, unlinked or elsewhere.

Lock, questions, idle engine:

- `state.ts:1139`: `release()` compares the lock's identity and unlinks the path in two calls.
  The holder of an over-age lock can delete the lock of a successor that breaks it in between.
- `state.ts:641`: the put-back resurrects a lock whose owner released it while it was aside;
  later openers are refused as long as that process lives.
- `tools.ts:1775`, `questions.ts:219`: a kill between marking a question answered and reviving
  its run leaves a stopped run, and the next idle pass archives it (`continuation.ts:872`).
- `tools.ts:1689`: the hand-off to another open question does not consult `releasedQuestions`.
- `block-and-ask.ts:191`: a replayed ask blocks an item that an amendment had released from that
  question.
- `block-and-ask.ts:262`: the plan-review cap asks with `reuseOpen: false`, so a replay of its
  intent appends the question again.
- `continuation.ts:964`: the futile limit archives a run whose question is open, although
  `disposition.ts:405` keeps such a run.
- `continuation.ts:60`: a restart forgets the last signature, so a counter that was close to its
  limit may stop a run that has moved meanwhile (`blind`); the comment there says that it never
  costs a live run. Pending conversions of refused asks die with the process.
- `answer-file.ts:72`: only open questions' files are read, so the operator's file for a
  human-territory question that the tool has answered does not end the stop.

Items, reviews, worktrees:

- `tools.ts:6225`: only `submit_test`, `mark_green` and `publish` are chained. `vet_test`,
  `validate` and `item_review` run side by side and dispatch writers too (5116, 5972, 8099), so
  two writers may edit the shared tree at once although the plan has writes serialised per tree.
  Of publication the properties hold regardless, as an edit of an item's scope makes its
  evidence stale.
- `tools.ts:5827` (also 5980, 7528, 8183): the set of tests to quarantine is computed before an
  await, so a test that a second member writes meanwhile is run, red, by the first member's
  verify. The plan (`docs/plans/2026-08-07-conductor-harness-plan.md:1576`) excludes foreign
  reds.
- `tools.ts:8631`: after another member's commit, `publish` denies an item whose evidence is
  about the old HEAD, and no tool takes a REVIEWED item back to validate. A kill between `git
  commit` and the save of the item (9047) ends there too. `HANDOFF.md:235` knows of the former.
- `tools.ts:4573`: `submit_test` saves RED without the state machine's check, so an item that
  was blocked during the await still makes this one transition. `BlockedStandsStill` names it.
- `tools.ts:8179`: a red re-verify in a review leaves the older green as the item's evidence;
  only a younger file makes it stale.
- A review whose call throws, or is killed, after the test-writer edited leaves an unvetted tree
  at VALIDATED, and the next clean panel makes it REVIEWED (`early`); only the freshness at
  publish stops it. At the cap, with every survivor refuted, the item is REVIEWED on edits no
  lens read (`SettledByPushback`). An emptied file makes a demand no citation can meet, so every
  review of that item throws. A failing `stash pop` goes unnoticed.
- Without git an item that others depend on ends at REVIEWED, which unlocks nothing; its
  dependents are neither ready nor stuck (`HeldByReviewed`).
- `tools.ts:8931`: the merge back runs only when this publication made a commit. An item that only
  deletes files, demoted after a conflict, has nothing to stage the second time (8708), so it
  makes no commit (8888), skips the merge and is PUBLISHED (9047) with its commit on its own branch
  only; the comment at 8969 says that an item is PUBLISHED only after a green verify of the
  integrated tree. `PublishedIsIntegrated` names it (`untracked`).
- An unconcluded merge is taken for a conflict of the next item. `git commit` with nothing to
  commit fails, so such an item cannot be published again.

Runs:

- `tools.ts:2380`: a planning handler saves the `run.json` it loaded before it awaited. A stop
  recorded meanwhile is erased: after an aborted turn the idle pass stops and archives the run,
  and the call that goes on makes it live again, with its report written and no pointer. A
  sub-session's override that was granted meanwhile is refunded. The properties name it as
  `StaleSave`.
- `tool-legality.ts:413`: `classify` asks for INTAKE and not for a stop, so a run that was
  stopped before its classification moves to EXECUTING or ANSWERED; the other planning tools
  refuse.
- `tools.ts:9273`: the sweep keeps any `report.md`. A run that was revived and stopped again,
  with a kill before the second report, is left with the report of its first stop.
- `chat-message.ts:136`: a run that waits for an answer is not live, so the next prompt creates
  a run and takes the pointer; the answer of the old one is then out of reach.
- `planning.ts:204`: two kinds of globs hide a production file at the root from the check of
  `behavioralPaths` (`HiddenAtRoot`): one whose braces mix depths, and one that matches its own
  directory, as `src/**` matches a file `src`. The proof found the second.
- `queue-amend.ts:240`: a list of ops remove, add, remove forgets the first removal; a
  rebirth killed after the births resets its item to PENDING.

Evidence, fan-out, quarantine, gates, setup:

- `evidence.ts:345`: of two processes that break a stale latch, the loser may move the winner's
  fresh one away (`robbed`). The record after a torn tail is lost. `capturedRedOf()` takes any
  red of a fitting class.
- `index.ts:815`: a marker that appears and goes between two polls is not seen; jobs held for a
  tree have no watchdog.
- An unreadable manifest makes the heal delete the quarantine directory.
- `tools.ts:613`: a grant for a session also converts the denial of a spawn; a grant is spent by
  the first refusal it meets. Removing and adding an item drops its taint and its override
  count.
- `tools.ts:10998`: only a request without a reply fails over. A standing router's own 503 (a full
  queue or a deadline, `router.hpp:757`) or 502 (no relay thread, 885) is taken for the model
  server's reply, and the setup fails with a good model server; the comment at 10978 says that
  only what the proofs themselves prove false fails setup. `OutageFailsNoSetup` names it (`turned`).
- The check for a live run in `conductor_setup` is made once, before minutes of awaits; stage
  handlers pass `repoConfigured` as a constant, so in an unconfigured repository the phase gate
  does not restrict them.

Scripts:

- `conductor_bench.py:2038`: `start_new_session` keeps `opencode` alive when the driver dies, so
  a resumed campaign may share its tree with it (`run_and_watch.py:969` says otherwise): the
  `tenant` of the property. `_harness_faults` takes any request in the window for one of its own
  (2347), a late line of the cell before among them: the `stranger`. A ledger that cannot be opened
  leaves a row without requests in the count (2581): the `blind` one. A result file torn by a kill
  fails every resume.
- `serve.py` killed before its watchdog runs, a bash without a watchdog killed, and an exception
  of `run_and_watch.py` before its loop leave the server running (`Uncovered`). Ctrl-C at the
  prompt kills the model.
- `fetch_models.py:554`: a partial file that is absent or of the wrong size is created anew,
  sparse, under whatever ledger is there (`outlived`). A forced install or a removal that is killed
  between two unlinks (963-972, 1820) leaves the ledger without its part; killed again before the
  first range is flushed, the download leaves a part of the right size whose ledger names ranges
  it does not hold, and the next install places a file with a hole, every answer being good.
  `docs/user/quickstart.md:149` says that completed chunks are skipped after an interrupt at any
  point. `verify` without hashing keeps the hash-checked mark, a file without a published hash
  passes a hashing one (832), and `--force` keeps the manifest.

### Bounds, and why they are enough

The bounds stand in the `.cfg` files, each with a comment. What decides them:

- *Admission.* `1 + (margin - 1) / cap = 1` distinct model of two, so the budget is reached and
  the second model is refused while the first is in flight. Five threads are exactly
  `MaxQueued + MaxInflightPerModel + margin`, the size of the task queue, so one admission too many
  breaks `ThreadBudget`. Two places in the queue let an untagged waiter stand beside the members of
  a group, whose bursts may pass it, and a batch waiter behind interactive ones. Ordinals are
  renumbered when all four are used, so arrivals do not end with the bound. The proofs cover every
  size, a budget of several models included; the liveness is for this instance.
- *Slots.* One request holds the only slot, three queue: a burst's head and member, and an older
  waiter of another group that the member overtakes.
- *Workspace.* `MaxAttempts = 3` stands for 8: one attempt to judge, one to break, one to claim;
  that three suffice for a lone opener after any crashes is `DeadOpenersBlockNobody`, proved for
  every budget of three or more. Two openers are
  the case the code argues for; the third is enough for the counterexample. `holders` leaves out
  two crash steps by name (`inspect`, `putback`): a death between the rename and the put-back of
  a live lock is a known loss of the lock file, listed among the hazards.
- *Pointer.* Two runs: one that is planned and one that takes the pointer from it. Only run 1's
  planning tools are called, as the second would repeat the first's. Two kills: one that cuts a
  write, one that cuts what repairs it. One round of review and one override take each counter
  to its limit.
- *Questions.* Two asks give two open questions that name one item, a question adopted by a
  second ask, and a hand-off. One cut and its replay give every prefix of every operation; a
  second cut can only shorten the replay of the first, which is the same set of prefixes. Replays
  that throw are no cuts and not counted; the bound on them is the room they leave in the ledger.
  `questions_repair` has one item, which the liveness needs no second of, and no human-territory
  verdicts. `QuestionsProofs` covers any number of items, asks and cuts and both kinds of
  verdict.
- *Items.* Two items, one behavioral, both eligible at once: a foreign red, a chain of two
  serial stages, a parallel group, and a commit under the other's evidence need no third.
  `RepairCap` 1, `VetCap` and `ReviewCap` 2 and `DebugCap` 1 take each loop once past its first
  round and once into its cap; `AttemptBudget` 1 makes the first kill decide. The operator edits
  and kills are unbounded. `DependsOn` and `Overlaps` are empty: either only makes waves
  smaller, and the theorems hold for every choice of them.
- *Requests.* Two models over a budget of one, a slot and a queue of one: one request streams
  while the other waits for the slot or for its model. A high-water mark of zero makes
  back-pressure begin with the first chunk.
- *Lines.* Two sizes of lines, one above the viewer's ceiling, two files and a kill in between;
  three records put one on either side of a torn line.
- *Wave.* Three jobs of two models over two trees, one at a time: a group that waits for
  another, a job held and released while another runs, two markers.
- *Verifies.* Two foreign files, so that a move stands half done; two runs, the second of which
  heals the first; one kill and two failing calls, one of which hits what repairs the other.
- *Worktrees.* Two items of two commits that merge one after the other, two kills, one to leave
  something half done and one in its repair, and a directory that vanishes.
- *Campaign.* One cell of either arm, two trials and one death: the second trial meets the agent
  of the first in its tree, its request at the router, or its line in the window, and a resume
  meets a cell that is recorded or torn.
- *Gates.* A user's session and one of the fan-out's about one behavioral item, budgets of one
  and two, a restart. *Serving.* One start, two router crashes, so that the back-off repeats.
- *Downloads.* Three files of two ranges, two shards of which one has no published hash, and a
  projector; three commands, since a removal or a forced install between two installs is where a
  ledger may outlive its part; three kills, so that one leaves the ledger, one loses the ranges of
  the new part and one comes anywhere else; a bad answer.
- *Idle.* Four positions, one of each kind, limits of two, four events. *Evidence.* Two
  processes, two test runs, one kill.
- *Decompose, Clusters.* Queues of two and three items over a tree of depth three, from the
  lists in `MCDecompose`; criteria from the list in `MCClusters`, up to three.
- *Legality.* A chain of three items and one of two, both against the order of the ids, two
  questions. `MaxLoad` keeps the two apart: a run of three items asks one question.
- *Setup.* Two readers, two checkouts, three answers and three model servers: the readers resume
  in either order around the latch, and the router may lose, refuse or relay each request.
- *Review.* Five findings, at most two in a round, two rounds and two calls, two skeptics; three
  kinds of diff.

Deadlock is checked in `admission`, `items_wave` and `router`. In the other runs the system stops
by design: runs are archived, waves end, processes have opened and released, budgets of kills and
events are used up.

### Fairness

- `Admission`: `WF` of `Wake` and `Release` for each thread (`ServiceEnds`). A notified thread
  runs; a request in service ends because the upstream answers or its timeout expires, and
  `~AdmissionSlot` runs on each path. `TimeOut` has no fairness: the property must hold without
  help from the deadline. Nor have arrivals, which may go on for ever: a batch request starves
  behind an endless supply of interactive ones, and the property says that this is the only way.
- `Router`: `WF` of `Admitted`, `UpstreamEnds` and `Serve` for each thread: the relay's timeouts
  end every upstream call, and a thread that may go on does. Nothing is assumed of clients, of
  what the upstream answers, or of the deadline.
- `Questions`: `WF` of the next write of the operation under way and of the pass, as the process
  that runs them carries them on. Of the events that begin a pass nothing is assumed: a pass runs
  on `session.idle` only, no timer starts one, and a run that is stopped or blocked is not
  prompted. `PassesCatchUp` is therefore a claim about the behaviours in which idle events keep
  coming (`IdlesKeepComing`), and a run that nobody prompts is not repaired; and in which the
  writes of replayed asks throw finitely often (`ThrowsCease`).
- `ItemStages`: `WF` of `NextGroup` and, for each item, of `Starter` and `Reply`: a handler
  between two awaits runs on, and a sub-session replies or the watchdog of `fanout.ts:555` ends
  it. `Answer`, `CallStage`, edits and kills have none.
- `Fanout`: `WF` of `DispatchWave`, of `Poll` and of every `Watchdog`, which are timers or a
  caller that goes on; `SF` of `Thaw`, since a verify ends and removes its marker, however often
  another one begins. Of replies nothing is assumed.

The other modules have safety properties only and state no fairness.

## 4. Proofs

Every theorem is for all values of the constants that satisfy the named assumptions of its
modules; TLC evaluates each assumption on the values of a run. Beside typing and disjointness
they say:

- caps, limits and bounds are naturals, positive where the configuration's schema has it so;
  sets of threads, items, writers, chunks and ecosystems are finite; there is an `interactive`
  class and a first one (`admission.hpp` has both built in).
- `IdleAssumption`: a position of a run is actionable, waiting or stuck, never two of them.
- `SetupAssumption`: a model server names finitely many models, and a checkout's markers and
  files are of the kinds there are.
- `LegalityAssumption`: every accepted queue is finite, not empty and without a cycle, which is
  given as a rank of its items. `validateQueue()` refuses the others (`planning.ts:995` the empty
  one, the search for cycles below it the rest), and every amendment is validated again.
- `ClustersAssumption`: a criterion has a clause, a directory glob is neither a file nor a word of
  a criterion, and `NoSubject` is neither.
- `DecomposeAssumption`: a glob is a non-empty set of non-empty sequences of segments, what an
  entry depends on is finite, the entry an op carries has the op's id, and a citation of a file
  with its directory has no wildcard in it.
- marks such as `NoModel`, `NoFile`, `Unseen`, `NoWriter` and `NoOne` are none of the values
  they stand beside.

A few theorems have a hypothesis of their own; it is named below and in the theorem. In each
case the property is false without it, and the code or its caller does not provide it always:
the hypothesis is the precise condition under which the code is right.

### The arguments

None of the properties is inductive as it stands. What each proof adds, and why:

- **Admission.** The inductive invariant is in two layers. `QueueInv` is `TypeOK`, "idle names
  no model" and `QueueIsTheParkedThreads`; it holds by itself. `SlotInv` adds `SlotAccounting`,
  `WorkConserving` and `DistinctBudget`. The slot accounting alone is not inductive: a grant
  gives the slot to a waiter without a check, so the proof needs that a waiter's thread owns no
  slot (`QueueInv`), and the budget needs that somebody waits only for a saturated model, which
  therefore is in flight already (`WorkConserving`). Counting uses the library's facts on
  `Cardinality`. `QueueScanRedundant` is a by-product: `hasFreeSlot()`'s scan never decides.
- **Thread budget.** `ThreadBudget` counts two kinds of threads. The parked ones are the entries
  of the queue, at most `MaxQueued`. The others hold slots, and there are at most
  `MaxInflightPerModel` of each model in flight, of which `DistinctBudget` allows
  `1 + (margin - 1) / MaxInflightPerModel`; `CountByClass` in `IntegerSets` adds up the classes,
  and the quotient rounds down in favour of the health probe.
- **Admission order.** `PriorityRespected` follows from the choice of the policy. For
  `OvertakingIsBurstBounded` the invariant `BurstHeadIsOlder` is needed: the head of a burst is
  older than everything of its class that is still queued. It is preserved because an arrival
  takes the next ordinal and a head is the oldest of its class.
- **Refinement.** `owns` is the slot of a granted or holding thread, `wants` that of a waiting
  one. Each action is one action of the pool; `Wake` and `Overflow` stutter. `Take` and `Want`
  are exclusive in the pool, which is where `WorkConserving` is used.
- **Router.** `RouterInv` is `QueueInv` and three facts of each request: `Seated` (the thread of
  a request that is served holds the slot of the model the request names, which needs that a
  waiter's slot is its model's), `Accounted` (until the provider is dropped, every chunk that
  came is written or pending, and scanned or pending) and `Lined` (the line is written with the
  end of the answer, and says how it ended). The clean end is whole because the provider tells
  the end only after it drained a relay that is finished; `Accounted` carries the sum through the
  two threads' steps. Each step of the relay that takes or returns a slot is one of the
  controller's, so the lemmas on those serve here too.
- **Questions.** `Inv` is the types, "an item without a file carries nothing", the record of the
  operation under way (which question, which items it still owes) and `BlockedOnAnOpenQuestion`.
  The last is not inductive without the record of the operation: `Mark` closes a question, and
  only "no item left to clear" says that nothing is blocked on it. `GatesStand` carries the
  gates from `ReconcileDone` through the ingested answers, with "or a successor is due" while a
  hand-off is under way. `AskedUsefully` needs that a stage ask names a single item.
  `PointerKept` assumes `~MayFutile`, without which it is false.
- **Revival.** `RevivalInv` says that, as long as nothing was cut, a run that stopped to wait
  has an open question, an answer to confirm, or the last write of the answer still to come; so a
  pass that finds none of these may not archive it. A cut ends the claim, as the kill between the
  mark and the revival really loses the run (section 3).
- **Item pipeline.** `Inv` is the types, `CallInv` and `EvidenceIsMeasured`. `CallInv` says that
  a sub-session under way belongs to the call in progress, is one of the stage its item is due
  for, and has its turn if the stage is serial; two lemmas carry it, one for a handler that ends
  and one for a handler that waits again. `OneSerialWriter` alone is not inductive: it needs
  that a lower member with a serial stage is still in `call.todo`. `EvidenceIsMeasured` relates
  the recorded evidence to the history: every edit, format rule and commit that takes an item
  out of `measured` also takes `current` off its evidence. The action properties then follow
  from one lemma, `StepIsSound`, on the state changes a step can make. For `BlockedStandsStill`
  the exception is exact because `CallInv` puts a replied test-writer's item at PENDING.
  `AttemptsBounded` rests on `implemented = attempts`.
- **Item state machine** (`ImplementsItemFsm`, `DependenciesComeFirst`). `state` and `blocked`
  are mapped to themselves. An advance is a step along the chain because `CallInv` ties the
  sub-session that replied to the state of its item, and it is allowed because of
  `WorkIsUnlocked`: an item a sub-session works on has its dependencies published, since the
  stage was offered with them published and no step of the machine takes a publication back.
  That is proved of the machine first and then of the handlers, whose steps are its steps.
  TLC finds both to hold on the instance of `items_wave`, whose run does not list them.
- **Run.** `NextIsSteps` first groups the actions by what they do to a run: a call saves its
  copy, an answer lifts a stop, a stop is recorded, and so on (`Steps`). None of the properties
  is inductive alone. A planning call saves a copy that may be older than the run, so `CallsInv`
  keeps of every call under way that the copy was legal for its tool, that the items it will
  claim exist and that the stop it carries has a report. This survives other steps because no
  step takes items, reports or a creation back (`Monotone`). `ReportInv` says where a report can
  be missing: only while no process is up, and only for the run the pointer names, which is the
  one `Open` repairs; that a stop cut before its report leaves the pointer alone is why one
  repair suffices. `UnlessStray` carries the pointer of live runs; it needs that a created run
  is never unborn again (`BornInv`), and that no other run is live while the pointer names one.
- **Quarantine.** `FilesInv` ties each step of a verify to what is parked: while files move, the
  manifest names exactly those that are to move, and what has moved is away and parked
  (`MovesAreRecorded`); while the scopes run all of it is (`ExcludedIsParked`); a restore and a
  rollback have handled what is not in their list (`RestoresAreComplete`,
  `RollbacksAreComplete`). `AwayForAReason` is what a kill leaves to the next heal. All of it is
  under `~reused`, the exception the property names.
- **Worktrees.** `TreesInv` adds that a directory and a merge under way have a branch, and that
  what is verified has been merged (`VerifiedIsMerged`): the merge puts a branch into the tree
  some steps before the item is recorded, and a kill may come at each. The property's exception,
  an item of `untracked`, is exact: an item with a path left in its last commit can stage it, so
  its second publication commits and merges; one without skips both (section 3).
- **Lock, one opener at a time** (`DeadOpenersBlockNobody`; `MaxAlive = 1`, three attempts or
  more). `LoneOpenerInv` says whose every file may be: the lock is of a dead process or of the
  one that took it, a break right of a dead process or of the one that uses it. With it, nothing
  an opener finds is honored, and `Budget` counts its passes: one may be lost on a dead process's
  break right and one goes into the break, so the third finds no lock. TLC found three enough;
  the proof says why, for any number of dead openers.
- **Lock, two openers** (`WritersAreSingle`; `MaxAlive <= 2`, nobody dies between the rename of a
  lock and its put-back). `TwoOpenersInv` says of a holder that its lock is at the path, or that
  another process has moved it aside and will put it back (`Secured`). The breaker does put it
  back since what it judged was of a dead process (`JudgedAreDead`), hence another lock. Two
  holders would need a third process, the mover. With three openers the property is false, which
  `lock_three_openers` shows; the hypothesis on deaths excludes the known loss listed among the
  hazards.
- **Lock, nobody turned away for nothing** (`OpenersAreNotAllRefused`; `MaxAlive <= 2`, three
  attempts or more, deaths and ages as they come). `SomebodyIsNext` says that as long as nobody
  has had the lock and nobody died, either nobody has changed anything, or some process `IsNext`:
  it breaks the lock that was left, or has freed the path in its first pass, or its claim is at
  the path, or was moved aside. A claim can be moved only by one that found the path empty a
  moment before, and it costs the owner a pass; the mover itself is refused afterwards, since it
  finds a lock whose owner lives. Others may run out of passes meanwhile, and do.
- **Ledger** (`LinesAreCounted`; any sizes of lines, any ceiling, any number of files and kills).
  `Viewed` says what an accumulator has made of the first n pieces of a file: its records and its
  skipped lines are those of the newlines, and it carries exactly what came after the last of
  them, or is dropping it because that is above the ceiling. One piece more keeps it
  (`ViewedStep`), hence a chunk does (`ViewedChunk`: of the pieces after which it fails there is no
  first), and it is a fact of a prefix, so that what the router appends leaves it alone
  (`ViewedOfAPrefix`). `LedgerInv` holds it of the file that is followed; a replacement has another
  number, and a view that begins again knows nothing, which is where the reset of the tail counts.
- **Serving.** `ServingInv` orders the starts: before the driver's window nothing but the server
  runs, a watchdog does not act while its driver lives, a server that was found is only measured,
  and whoever starts a router has written this start's keys. `RouterKnowsItsServer` needs the
  last of a supervisor that is about to start one again.
- **Campaign** (`CountedRowsAreMeasured`; any plan, any number of trials and deaths).
  `CampaignInv`: the processes that live are of trials begun, without a death only the one that is
  run (`ProcessesOfTrials`); a process in the tree, a hand in it or a request at the router that is
  not this trial's was there when the trial began, hence is in `found` (`OthersAreFound`: an agent
  is spawned by a trial only, and one that is in another cell's tree stays there); and every row
  recorded or at hand is sound but for what its trial could not tell (`RowsAreSound`). No
  hypothesis is left: what the harness does not rule out is in the row.
- **Fetch** (`InstalledFilesAreWhole`; any files, ranges, commands and kills). `FetchInv` keeps of
  every shard that is not `Marred` that its ledger names only ranges the partial file holds, when
  there is one (`PartsAreAsRecorded`), that a range at work is not one that is done and that those
  done are in the part (`FetchedApart`), and that a full file is whole (`FilesHold`). Marred are the
  shards that met an answer nobody asked for (`spoiled`) and those of `outlived`. A ledger may
  stand without its part after any kill between two unlinks, and harms nothing by itself, as an
  install that finds no part starts from no ranges; it does once a part is made beside it, until
  the first range is recorded and the ledger is written anew. That stretch is `outlived`.
- **Idle.** The counter of futile re-prompts is a number on disk and says nothing of what it
  counted. `PromptsAreCounted` ties it to the history (`asked`): until a restart blinds it, it
  counts prompts that left this process, all at the last position; `TurnsAreCounted` does the
  same for the sampler. `ConversionsAreInOnePlace` says that a refused ask is pending, riding on
  the prompt under way, or in the reply, never in two, until it ends once.
- **Evidence.** `NumbersGrow`: until a latch is stolen, each process that is about to issue a
  number holds one above the counter, each that has issued one is alone with it, and the ledger's
  numbers are distinct and not above the counter. It needs `Exclusive`, that a process at work
  under the latch is the one the latch names. `RedsStand` says that the red an item rests on is
  on the ledger or some line cannot be read; `TailIsTorn` that only the last line can be torn
  without an end. `CriticsSeeTheLastRed` is a fact of the moment a critic is asked.
- **Setup.** `SteadyCall`: while the model server stays good and the router answers no error of
  its own, no request of the call is refused or lost, whichever endpoint the failover is at.
  `AnswersHold` keeps what the answers were held to until the config is written, three awaits
  later.
- **Review.** `ReadAsShown` and `PassesAreFollowedUp`: a fixer's pass is followed by a
  measurement, and the test-writer's by the critics, so that between the passes the tree is
  vetted and verified unless the call gave up (`early`). `NoDemandIsAWedge` needs no invariant
  beyond the types; its content is `FirstLinesWitness`: the first lines of the hunks are a
  witness for every diff without an emptied file.
- **Legality.** `LegalityInv`: what an item is blocked on is open, an item that has moved has its
  dependencies published, without git nothing is published, a run closed as done is at a
  terminal state. `RunsAreNotStranded` has the longest argument. The dispositions and the depths
  of a queue are fixpoints that the code computes by recursion; that they exist and satisfy
  their equation is proved along the rank of the queue (`RecursionAlongRanks` in `IntegerSets`).
  A run that is neither closed nor waiting has an actionable item, the lowest-ranked open one of
  them can move (`AnItemCanMove`), and so a stage tool or the wave is legal and recommended. The
  exception `HeldByReviewed` is the property's.

- **Gates** (`OverridesAreOnRecord`). `GatesInv` counts a grant that is still out as a stray: per
  item the two together are within the anomalies, over the run within the overrides used, which
  are written before the grant. The weight is in two lemmas on one call. `RefusedOrInLane`: a
  call that no gate refuses is in the lane of its session, shape by shape and gate by gate,
  also when one of the gates crashes, except for the word that a crashed git gate cannot see,
  which the property leaves out. `StraysSpend`: a call that strays spends at least one grant of
  its session's item. The strays of a run are counted as a set of numbered calls (`AllStrays`),
  since a sum over a set of unknown size is an induction.
- **Fan-out** (`WavesAreOrderly`). `FanoutInv`: whatever is queued, held or in flight is of one
  group (`GroupInv`), each job is at one place, the readers are within their number, and a group
  begins whole (`BegunWhole`), so that a group is over when none of its jobs is left and the next
  one finds the queue and the holds empty. The weight is in the pump: `ReadersAreLeft` bounds how
  many jobs one pump starts, since of what it takes from the queue only the last can have filled
  the readers, and `PumpKeeps` says that a pump over due jobs of one group leaves queue and holds
  in order. `Ordered` and `Within` in `Fanout` stand for the library's sort and filter, which are
  recursive; each of their places is a count, and `EveryPlaceIsTaken` shows that it is filled.

- **Queue, amendments** (`AmendmentsAreWhole`). `DecomposeInv` adds that a queue has one entry
  per id (`ValidQueue` says so, every write of `queue.json` keeps it) and what holds between the
  writes of an amendment: births come before the queue and removals after it, so whatever a kill
  leaves has a file for every entry. An amendment is right because each of its ops is: `SoundSoFar`
  says of the queue after k ops that what was added is in it and what was removed is not, and that
  every other entry has its file, and past PENDING the scopes of its evidence.
- **Queue, globs** (`FindingsReachItems`, and the scopes in `QueuesAreExecuted`). A path that a glob
  matches begins with the glob's literal head, as far as both go (`MatchesBeginWithTheHead`, by a
  smallest segment that would differ), so two globs that share a path have heads that agree
  (`HeadsMeet`). `ApartByDepth` is the exception the code makes to that rule; `ApartHides` shows
  that what it hides is `HiddenAtRoot` and nothing else, since a glob of two segments that are not
  `**` matches no path of one.
- **Queue, cycles** (`CyclesSeen`). `WalkInv`: the path holds the grey nodes, each once and
  chained by edges; and as long as no cycle was closed, every edge that was followed leads to a
  black node or on along the path, and the black nodes have an order. A node turns black when no
  edge of it is left, so that it can be given the next place. What is to do shrinks with every
  turn, hence `Turns` are enough and in the end all nodes are black: no cycle reported means an
  order of all. Conversely along a path an order descends (`PathsDescend`), so an edge back into
  the path contradicts it: a queue that can be executed is not refused. The recursions of
  `Decompose` are functions, whose equations follow from `Iteration` in `IntegerSets`.
- **Queue, size of an item** (`ThingsAreCounted`). The files that the criteria tie are classes
  (`InOneGroup`: the least sets that no tie leaves; `GroupsAreClasses`). `Stood` says that every
  file the criteria are about has a cluster left that is a file of its group. A text that folds a
  file away keeps the one it folds it onto, and names both a word apart (`FoldsAreTies`), which
  carries `Stood` through the texts; so there are as many clusters as groups. A guard leaves the
  texts alone, and the fold of a prefix is that of the whole (`FoldingOfAPrefix`).

### What is no longer run

These properties are proved and no longer run, as the proofs cover every instance: `TypeOK`,
`SlotAccounting`, `WorkConserving`, `PriorityRespected`, `PolicyOnlyWhileSaturated`
(`Admission`); `GatesStandAtVerdict`, `BlockedOnAnOpenQuestion`, `OpenQuestionKeepsThePointer`,
`OneUsefulAsk` (`Questions`); `AttemptsWithinBudget`, `BlockedStandsStill`, `OneSerialWriter`,
`GreenOnTheVettedTest`, `PublishedAsMeasured` (`ItemStages`); `StatesMoveForward`, `StopsStand`,
`RunsAreAccountedFor` (`RunLifecycle`).

### What is only model-checked

- *Liveness under fairness*, out of the prover's reach: `NoWaiterIsForgotten`, `PassesCatchUp`,
  `EveryCallReturns`, `EveryThreadComesBack`, `WaveEndsUnlessHeld`.
- The numeric bounds in `Questions!TypeOK` (the types are proved as `TypeInv`).
- The `violation` runs: each is a counterexample.

## 5. Not modelled, and why

- **Text**: prompts, reports, wording, markdown, the parsing of shell words, paths and JSON,
  schemas, and the classifiers of text. Their verdicts are inputs of the modelled operations.
- **Pure I/O**: the journal's rotation, the parsing of git's output, injection of messages,
  command lines.
- **Composition**: the parts of `holders` and `subsystems` share no state, which is how the code
  keeps them apart up to the files that `How they interact` names. The pipeline's stages, the
  review's rounds, worktrees and the closing of a run are separate models (`ItemStages`,
  `ItemReview`, `Worktrees`, `Legality`); no run holds all of them, as each alone fills a run.
- **`conductor/tools`, memory bench, `benchmark.py`, `judge_quality.py`**: batch measurements
  without shared state, whose results a person reads. The bench corpus and `docs/` are data.
- **Aggregates**: the sums and percentiles of `/metrics`, the dashboard's panes and the
  campaign's statistics are folds over records whose delivery is modelled.
- **Clocks and pids**: the reuse of a pid by another live process, clock jumps, and an edit in
  the very millisecond of a verify.

Every module's comment says what else it leaves out, and `PROJECT.json` says of each component
what is modelled of it.

## 6. What could come next

1. `ItemFsm` over a queue that grows, so that `Legality` implements it as `ItemStages` does.
2. `ItemReview` inside a wave of `ItemStages`, when a smaller model of the review is found.
