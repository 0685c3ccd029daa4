-------------------------------- MODULE Idle ---------------------------------
(* The idle engine and the turn sampler (adapter/continuation.ts): what a run  *)
(* is told when its orchestrator goes idle, and when it is stopped because it  *)
(* does not move.  The counters of a run are on disk, what they are compared   *)
(* with is in the memory of the process.  One pass is one step: the handlers   *)
(* await nothing but the writer of the report, which awaits no I/O.            *)
(* A `signature` is the run's position as signatureOf() projects it.           *)
EXTENDS Integers, FiniteSets

CONSTANTS
    Signatures,      \* positions of a run, the first of which is Start
    Start,
    Actionable,      \* the gate names something to do there
    Waits,           \* shouldTerminate(): nothing open, a human holds the lever (`surfaced`
                     \* is told like `blocked`)
    Stuck,           \* no lever at all
    Asking,          \* positions with an open question
    FutileLimit,     \* FUTILE_RE_PROMPT_LIMIT
    TurnLimit,       \* STALLED_TURN_LIMIT
    SendLimit,       \* CONSECUTIVE_SEND_FAILURE_LIMIT
    TurnMemory,      \* COUNTED_TURN_MEMORY
    Asks,            \* permission asks of sub-sessions
    MaxEvents        \* bound: prompts, moves, answers, asks, finished messages and restarts

Unseen == "unseen"

ASSUME IdleAssumption ==
    /\ Start \in Signatures /\ Unseen \notin Signatures
    /\ {Actionable, Waits, Stuck, Asking} \subseteq SUBSET Signatures
    /\ Actionable \cap Waits = {} /\ Actionable \cap Stuck = {}
    /\ Waits \cap Stuck = {} /\ Stuck \cap Asking = {}
    /\ {FutileLimit, TurnLimit, SendLimit, TurnMemory} \subseteq Nat \ {0}
    /\ MaxEvents \in Nat

VARIABLES
    current,     \* run.json of the latest run: id, position, stop, who stopped it, counters
    pointer,     \* the current-run pointer names it
    memory,      \* lastSignature, the failed sends, the turn sampler's key and count
    flight,      \* the run whose re-prompt is in flight, or 0 (rePromptInFlight)
    pending,     \* pendingConversions
    riding,      \* the conversions the prompt in flight carries
    adjudicated, \* the asks that were answered, or are about to be
    replying,    \* those whose answer is being sent
    under,       \* the run an ask was raised under, 0 when there was none
    ends,        \* how often a conversion was surfaced or recorded as lost
    forgotten,   \* conversions that died with the process
    messages,    \* messages of the orchestrator that this process saw finished
    counted,     \* countedTurns
    asked,       \* the last re-prompts that left, all of one position: which, how many
    attended,    \* the last turns, all of one position: which, how many
    blind,       \* the process restarted since the run's counter was last at zero
    events       \* events so far

idleVars ==
    <<current, pointer, memory, flight, pending, riding, adjudicated, replying, under, ends,
      forgotten, messages, counted, asked, attended, blind, events>>
askVars == <<adjudicated, replying, under, forgotten>>
Event == events < MaxEvents /\ events' = events + 1
queueVars == <<pending, riding, ends, askVars>>
turnVars == <<messages, counted, attended>>

Fresh(id) ==
    [id |-> id, at |-> Start, stop |-> "none", by |-> "nobody", futile |-> 0, prompted |-> FALSE]
Blank == [last |-> Unseen, failures |-> 0, key |-> <<0, Unseen>>, turns |-> 0]
Nobody == [at |-> <<0, Unseen>>, times |-> 0]

Key == <<current.id, current.at>>
\* One more of the same position; counted as far as the limit.
Again(seen, limit) ==
    [at |-> Key,
     times |-> IF seen.at # Key THEN 1 ELSE IF seen.times < limit THEN seen.times + 1 ELSE limit]

Live == pointer /\ current.stop = "none"
Resumable == {"blocked", "surfaced", "noop"}

-----------------------------------------------------------------------------
(* What happens to a run. *)

\* handleChatMessage(): a prompt over a run that has ended starts another.
Chat ==
    /\ ~Live /\ Event
    /\ current' = Fresh(current.id + 1) /\ pointer' = TRUE /\ blind' = FALSE
    /\ UNCHANGED <<memory, flight, queueVars, turnVars, asked>>

\* The tools of the orchestrator and of the sub-sessions change the position.
MoveTo(s) ==
    /\ Live /\ s # current.at /\ Event
    /\ current' = [current EXCEPT !.at = s]
    /\ UNCHANGED <<pointer, memory, flight, queueVars, turnVars, asked, blind>>

\* conductor_report closes the run; archiving is left to the next idle pass.
Report ==
    /\ Live
    /\ current' = [current EXCEPT !.stop = "done", !.by = "report"]
    /\ UNCHANGED <<pointer, memory, flight, queueVars, turnVars, asked, blind, events>>

\* An answer changes the position and revives a run that stopped to wait; the counters
\* stay as they are (reviveIfWaiting()).
Answer(s) ==
    /\ pointer /\ current.at \in Asking /\ s # current.at /\ Event
    /\ current.stop \in Resumable \cup {"none"}
    /\ current' = [current EXCEPT !.at = s, !.stop = "none", !.by = "nobody"]
    /\ UNCHANGED <<pointer, memory, flight, queueVars, turnVars, asked, blind>>

\* A new process: the maps and queues in memory are gone, and so are the sub-sessions.
Reboot ==
    /\ Event
    /\ memory' = Blank /\ flight' = 0 /\ blind' = TRUE /\ counted' = {} /\ messages' = 0
    /\ forgotten' = forgotten \cup pending \cup riding \cup replying
    /\ pending' = {} /\ riding' = {} /\ replying' = {}
    /\ UNCHANGED <<current, pointer, adjudicated, replying, under, ends, attended, asked>>

-----------------------------------------------------------------------------
(* Refusals and their conversions. *)

\* handlePermissionAsked() for a sub-session: refused once per ask, ...
RefuseAsk(a) ==
    /\ a \notin adjudicated /\ Event
    /\ adjudicated' = adjudicated \cup {a} /\ replying' = replying \cup {a}
    /\ under' = [under EXCEPT ![a] = IF pointer THEN current.id ELSE 0]
    /\ UNCHANGED <<current, pointer, memory, flight, pending, riding, ends, forgotten, turnVars,
                   asked, blind>>

\* ... and converted once the refusal was sent, by when its run may be over.
Convert(a) ==
    /\ a \in replying /\ replying' = replying \ {a} /\ pending' = pending \cup {a}
    /\ UNCHANGED <<current, pointer, memory, flight, riding, adjudicated, under, ends, forgotten,
                   turnVars, asked, blind, events>>

Of(run) == {a \in pending : under[a] = run}
Ended(gone) == ends' = [a \in Asks |-> IF a \in gone THEN ends[a] + 1 ELSE ends[a]]

\* Mutant: the lost conversions are recorded and left in the queue.
CloseKeeping(carried) ==
    /\ pending' = pending \cup carried
    /\ Ended(Of(current.id) \cup {a \in carried : under[a] = current.id})

\* cleanupAndArchive(): the run's conversions are recorded as lost and leave the
\* queue.  `carried` are those a failed send has just put back.
Close(carried) ==
    LET closed == {a \in pending \cup carried : under[a] = current.id}
    IN pending' = (pending \cup carried) \ closed /\ Ended(closed)

\* waitingForAnAnswer()
Waiting(stop) == stop \in Resumable /\ current.at \in Asking

-----------------------------------------------------------------------------
(* handleSessionIdle(). *)

\* The run moved since the last re-prompt, as far as this process can tell.
Moved == memory.last # Unseen /\ memory.last # current.at
Futile == IF Moved THEN 0 ELSE current.futile

Stopped(kind, by) == current' = [current EXCEPT !.stop = kind, !.by = by, !.futile = Futile]
\* The stop and what becomes of the pointer.
End(kind, by, archive, carried) ==
    /\ Stopped(kind, by)
    /\ IF archive
       THEN pointer' = FALSE /\ Close(carried)
       ELSE /\ UNCHANGED <<pointer, ends>> /\ pending' = pending \cup carried
    /\ UNCHANGED <<askVars, turnVars, asked, blind, events>>

\* The halt file; the counter is not looked at.
HaltPass ==
    /\ Live /\ current' = [current EXCEPT !.stop = "interrupt", !.by = "human"]
    /\ pointer' = FALSE /\ Close({})
    /\ UNCHANGED <<memory, flight, riding, askVars, turnVars, asked, blind, events>>

\* A run that has ended is archived, unless an answer would revive it.
ClosedPass ==
    /\ pointer /\ current.stop # "none" /\ ~Waiting(current.stop)
    /\ pointer' = FALSE /\ Close({})
    /\ UNCHANGED <<current, memory, flight, riding, askVars, turnVars, asked, blind, events>>

\* Mutant: the verdict first, the comparison with the last position afterwards.
FutileAsCounted == Live /\ current.futile >= FutileLimit
\* The limit, after the counter was put back to zero for a run that moved.
FutileReached == Live /\ Futile >= FutileLimit

FutilePass ==
    /\ FutileReached /\ End("noop", "idle", TRUE, {})
    /\ UNCHANGED <<memory, flight, riding>>

WaitsPass ==
    /\ Live /\ ~FutileReached /\ current.at \in Waits
    /\ End("blocked", "idle", ~Waiting("blocked"), {})
    /\ UNCHANGED <<memory, flight, riding>>

\* Nothing to do and nobody to wait for is a stop; otherwise the engine is silent.
SilentPass ==
    /\ Live /\ ~FutileReached /\ current.at \notin Actionable \cup Waits
    /\ IF current.at \in Stuck
       THEN End("blocked", "idle", TRUE, {})
       ELSE /\ current' = [current EXCEPT !.futile = Futile]
            /\ blind' = (blind /\ ~Moved)
            /\ UNCHANGED <<pointer, pending, ends, askVars, turnVars, asked, events>>
    /\ UNCHANGED <<memory, flight, riding>>

MayPrompt == Live /\ ~FutileReached /\ current.at \in Actionable

\* The latch, or a re-prompt less than two seconds ago.
HeldBackPass ==
    /\ MayPrompt /\ (flight # 0 \/ memory.last # Unseen)
    /\ current' = [current EXCEPT !.futile = Futile] /\ blind' = (blind /\ ~Moved)
    /\ UNCHANGED <<pointer, memory, flight, queueVars, turnVars, asked, events>>

\* takeConversionsFor(): this run's go with the prompt, the others are discarded.
Foreign == pending \ Of(current.id)

\* The send throws: nobody is charged, until it has thrown SendLimit times running.
ThrownPass ==
    /\ MayPrompt /\ flight = 0
    /\ LET failures == memory.failures + 1
           mine == Of(current.id)
           dead == failures >= SendLimit
       IN /\ memory' = [memory EXCEPT !.failures = IF dead THEN 0 ELSE failures]
          /\ pending' = IF dead THEN {} ELSE mine
          /\ Ended(IF dead THEN pending ELSE Foreign)
          /\ pointer' = ~dead
          /\ IF dead THEN Stopped("env", "idle")
             ELSE current' = [current EXCEPT !.futile = Futile]
    /\ blind' = (blind /\ ~Moved)
    /\ UNCHANGED <<flight, riding, askVars, turnVars, asked, events>>

\* A pass that has nothing to compare with, on a run that was prompted before.
ResumedMidCount == memory.last = Unseen /\ current.prompted

Leaves(futile) ==
    /\ MayPrompt /\ flight = 0
    /\ current' = [current EXCEPT !.futile = futile, !.prompted = TRUE]
    /\ memory' = [memory EXCEPT !.last = current.at, !.failures = 0]
    /\ flight' = current.id /\ riding' = Of(current.id)
    /\ pending' = {} /\ Ended(Foreign)
    /\ asked' = Again(asked, FutileLimit)
    /\ blind' = (blind /\ futile > 0)
    /\ UNCHANGED <<pointer, askVars, turnVars, events>>

PromptPass ==
    Leaves(IF ResumedMidCount THEN current.futile ELSE IF Moved THEN 0 ELSE current.futile + 1)

\* The prompt settles; a rejected one puts its conversions back.
SettlePrompt(ok) ==
    /\ flight # 0 /\ flight' = 0 /\ riding' = {}
    /\ IF ok THEN Ended(riding) /\ UNCHANGED pending
       ELSE pending' = pending \cup riding /\ UNCHANGED ends
    /\ UNCHANGED <<current, pointer, memory, askVars, turnVars, asked, blind, events>>

-----------------------------------------------------------------------------
(* handleOrchestratorTurn(). *)

\* The dedup window drops its oldest ids.
DedupWindow(seen) == {m \in seen : Cardinality({n \in seen : n > m}) < TurnMemory}

\* Mutant: every delivery is a turn.
NeverCounted(m) == FALSE
AlreadyCounted(m) == m \in counted

\* A finished message is delivered, for the first time or again while it streams.
Turn(m) ==
    /\ m \in (messages - TurnMemory + 1)..(messages + 1) /\ m > 0
    /\ IF m > messages THEN Event /\ messages' = m ELSE UNCHANGED <<events, messages>>
    /\ IF ~Live \/ AlreadyCounted(m)
       THEN UNCHANGED <<current, pointer, memory, counted, attended, queueVars>>
       ELSE LET turns == IF memory.key = Key THEN memory.turns + 1 ELSE 1
                over == turns >= TurnLimit
            IN /\ counted' = DedupWindow(counted \cup {m})
               /\ attended' = IF m \in counted THEN attended ELSE Again(attended, TurnLimit)
               /\ memory' = [memory EXCEPT !.turns = IF over THEN 0 ELSE turns,
                                           !.key = IF over THEN <<0, Unseen>> ELSE Key]
               /\ IF over
                  THEN /\ current' = [current EXCEPT !.stop = "noop", !.by = "turns"]
                       /\ pointer' = Waiting("noop")
                       /\ IF Waiting("noop") THEN UNCHANGED <<pending, ends>> ELSE Close({})
                  ELSE UNCHANGED <<current, pointer, pending, ends>>
               /\ UNCHANGED <<riding, askVars>>
    /\ UNCHANGED <<flight, asked, blind>>

IdleInit ==
    /\ current = Fresh(1) /\ pointer = TRUE /\ memory = Blank /\ flight = 0
    /\ pending = {} /\ riding = {} /\ adjudicated = {} /\ replying = {}
    /\ forgotten = {}
    /\ under = [a \in Asks |-> 0] /\ ends = [a \in Asks |-> 0]
    /\ messages = 0 /\ counted = {} /\ asked = Nobody /\ attended = Nobody
    /\ blind = FALSE /\ events = 0

IdleNext ==
    \/ Chat \/ Report \/ Reboot
    \/ \E s \in Signatures : MoveTo(s) \/ Answer(s)
    \/ \E a \in Asks : RefuseAsk(a) \/ Convert(a)
    \/ HaltPass \/ ClosedPass \/ FutilePass \/ WaitsPass \/ SilentPass
    \/ HeldBackPass \/ ThrownPass \/ PromptPass
    \/ \E ok \in BOOLEAN : SettlePrompt(ok)
    \/ \E m \in 1..MaxEvents : Turn(m)

IdleSpec == IdleInit /\ [][IdleNext]_idleVars

-----------------------------------------------------------------------------
\* A run is stopped for want of progress only if it made none: the last re-prompts
\* that left the process, as many as the limit, or the last turns of the
\* orchestrator, as many as theirs and each counted once, all found this run where
\* it was stopped.  A process that restarted between them may be wrong (`blind`).
StopsOnlyAWedgedRun ==
    /\ current.by = "idle" /\ current.stop = "noop" /\ ~blind =>
          asked.at = Key /\ asked.times = FutileLimit
    /\ current.by = "turns" => attended.at = Key /\ attended.times = TurnLimit

\* What a refused sub-session needs is neither lost in silence nor told twice: its
\* conversion on its way to the queue, in it, or in the prompt under way of its own run,
\* or it was surfaced or recorded as lost, once.
RefusalsAreAccountedFor ==
    /\ \A a \in adjudicated \ forgotten :
          ends[a] + Cardinality({n \in 1..3 : a \in <<pending, riding, replying>>[n]}) = 1
    /\ \A a \in riding : under[a] = flight
=============================================================================
