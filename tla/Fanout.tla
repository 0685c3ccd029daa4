------------------------------- MODULE Fanout -------------------------------
(* The fan-out engine (conductor/adapter/fanout.ts) and the view of frozen    *)
(* trees it dispatches by (createTreeState in conductor/plugin/index.ts): one *)
(* wave of jobs, each a sub-session that is created, prompted until it gives  *)
(* a receipt, and bounded by a watchdog.  Everything between two awaits is    *)
(* one action; the replies, the failures and the markers are inputs.          *)
EXTENDS Integers, FiniteSets, Sequences, SequencesExt

CONSTANTS
    Jobs,            \* the jobs of the wave, numbered in input order
    ModelOf,         \* Jobs -> the model its role resolves to
    TreeOf,          \* Jobs -> the tree it works in
    WriteCapable,    \* the jobs that may edit their tree
    MaxReaders,      \* parallel.maxReaders
    MaxPrompts,      \* MAX_ATTEMPTS
    MaxProvider,     \* PROVIDER_ERROR_MAX_ATTEMPTS
    MaxMarkers,      \* bound: verify markers that may appear
    MarkersOutliveAPoll \* whether a marker stays until the poll has seen it

ASSUME FanoutAssumption ==
    /\ Jobs \subseteq Nat /\ IsFiniteSet(Jobs) /\ Jobs # {}
    /\ WriteCapable \subseteq Jobs
    /\ {MaxReaders, MaxPrompts, MaxProvider} \subseteq Nat \ {0}
    /\ MaxMarkers \in Nat /\ MarkersOutliveAPoll \in BOOLEAN

VARIABLES
    phase,       \* "waiting" for its group, "queued", "held", "creating", "prompting", "done"
    calls,       \* the prompt() call under way
    outcome,     \* results[index]: "none", "value" or the reason of the error
    session,     \* what the host has: "none", "creating", "prompted", "idle", "aborting"
    registered,  \* the jobs whose session is in the SessionRegistry
    queue,       \* the running group's queue
    heldJobs,    \* heldUnsubs, in the order the listeners subscribed
    frozen,      \* the trees with a live verify marker on disk
    live,        \* the trees the poll last saw frozen
    markers      \* the markers that have appeared

fanoutVars == <<phase, calls, outcome, session, registered, queue, heldJobs, frozen, live, markers>>
jobVars == <<calls, outcome, session, registered>>

Trees == {TreeOf[j] : j \in Jobs}
InFlight(ph) == {j \in Jobs : ph[j] \in {"creating", "prompting"}}

-----------------------------------------------------------------------------
(* Scheduling: one model group after the other, each drained through a pump. *)

\* The members of a finite set of numbers in their order, and what a sequence has of a
\* set in the order it has it: SetToSortSeq and SelectSeq, in a form to reason about.
Ordered(S) == [k \in 1..Cardinality(S) |-> CHOOSE i \in S : Cardinality({h \in S : h <= i}) = k]
Within(s, S) ==
    LET places == Ordered({i \in DOMAIN s : s[i] \in S})
    IN  [k \in DOMAIN places |-> s[places[k]]]

\* The models in the order of their first job, each with its jobs in input order.
GroupOf(j) == CHOOSE i \in Jobs :
    ModelOf[i] = ModelOf[j] /\ \A k \in Jobs : ModelOf[k] = ModelOf[j] => i <= k
JobsOfGroup(g) == Ordered({j \in Jobs : GroupOf(j) = g})

\* liveVerifyTrees(): a marker that parses, is not over-age, and whose process lives.
IsFrozen(tree) == tree \in frozen
HeldOut == {j \in WriteCapable : IsFrozen(TreeOf[j])}

\* pump(): the head of the queue is held or dispatched, until the readers are
\* taken.  The watchdog is armed and the session asked for before it returns.
Taken(q, ph) == {k \in DOMAIN q :
    Cardinality(InFlight(ph)) + Cardinality({i \in 1..(k - 1) : q[i] \notin HeldOut}) < MaxReaders}

\* `ph`, `ses` and `waitlist` are the phases, the sessions and the holds before.
Pump(q, ph, ses, waitlist) ==
    LET taken == Cardinality(Taken(q, ph))
        front == SubSeq(q, 1, taken)
        starts == Range(front) \ HeldOut
    IN  /\ queue' = SubSeq(q, taken + 1, Len(q))
        /\ heldJobs' = waitlist \o Within(front, HeldOut)
        /\ phase' = [j \in Jobs |-> IF j \in starts THEN "creating"
                                    ELSE IF j \in Range(front) THEN "held"
                                    ELSE IF j \in Range(q) THEN "queued" ELSE ph[j]]
        /\ session' = [j \in Jobs |-> IF j \in starts THEN "creating" ELSE ses[j]]

\* runGroup() of the first group that is left, if any.
NextGroup(ph, ses) ==
    LET left == {j \in Jobs : ph[j] = "waiting"}
    IN  IF left = {}
        THEN phase' = ph /\ session' = ses /\ UNCHANGED <<queue, heldJobs>>
        ELSE Pump(JobsOfGroup(GroupOf(CHOOSE j \in left : \A k \in left : j <= k)), ph, ses, <<>>)

\* dispatchWave()
DispatchWave ==
    /\ \A j \in Jobs : phase[j] = "waiting"
    /\ NextGroup(phase, session)
    /\ UNCHANGED <<calls, outcome, registered, frozen, live, markers>>

\* Mutant: a job that ends wakes nobody.
FinishWithoutPump(j, reason, ses) ==
    LET ph == [phase EXCEPT ![j] = "done"]
    IN  /\ outcome' = [outcome EXCEPT ![j] = reason]
        /\ calls' = [calls EXCEPT ![j] = 0]
        /\ registered' = registered \ {j}
        /\ IF \E k \in Jobs : GroupOf(k) = GroupOf(j) /\ ph[k] # "done"
           THEN phase' = ph /\ session' = ses /\ UNCHANGED <<queue, heldJobs>>
           ELSE NextGroup(ph, ses)
        /\ UNCHANGED <<frozen, live, markers>>

\* finish(), once per job, and onDone(): the slot is given on, and the next group
\* begins when every member of this one is done.
Finish(j, reason, ses) ==
    LET ph == [phase EXCEPT ![j] = "done"]
    IN  /\ outcome' = [outcome EXCEPT ![j] = reason]
        /\ calls' = [calls EXCEPT ![j] = 0]
        /\ registered' = registered \ {j}
        /\ IF \E k \in Jobs : GroupOf(k) = GroupOf(j) /\ ph[k] # "done"
           THEN Pump(queue, ph, ses, heldJobs)
           ELSE NextGroup(ph, ses)
        /\ UNCHANGED <<frozen, live, markers>>

-----------------------------------------------------------------------------
(* One sub-session. *)

\* The session exists: it is registered, and only then prompted.
Created(j) ==
    /\ phase[j] = "creating"
    /\ phase' = [phase EXCEPT ![j] = "prompting"]
    /\ session' = [session EXCEPT ![j] = "prompted"]
    /\ registered' = registered \cup {j}
    /\ calls' = [calls EXCEPT ![j] = 1]
    /\ UNCHANGED <<outcome, queue, heldJobs, frozen, live, markers>>

\* The reply to create names no session.
CreateFails(j) ==
    /\ phase[j] = "creating"
    /\ Finish(j, "create", [session EXCEPT ![j] = "none"])

\* create() throws; whether the host made a session is unknown to the engine.
CreateThrows(j) ==
    /\ phase[j] = "creating"
    /\ \E made \in {"none", "idle"} : Finish(j, "engine", [session EXCEPT ![j] = made])

\* create() answers after the watchdog: the session is told to end.
CreatedLate(j) ==
    /\ phase[j] = "done" /\ session[j] = "creating"
    /\ session' = [session EXCEPT ![j] = "aborting"]
    /\ UNCHANGED <<phase, calls, outcome, registered, queue, heldJobs, frozen, live, markers>>

\* readJsonDocument(): a document is read as sent, or with the raw control
\* characters in its strings escaped, or with its delimiters closed, or both; a
\* document cut inside a value is not.
Readable == {"document", "raw", "unclosed", "raw and unclosed"}

\* parseAndValidate(): what is fenced counts only if the reply is not JSON.
IsReceipt(text, fence, fits) == (text \in Readable \/ fence \in Readable) /\ fits

Texts == Readable \cup {"cut", "prose"}
\* A reply by what the engine does with it: a receipt, an envelope error, a message
\* that carries the provider's error, or a text that does not validate.  A valid
\* receipt wins over the provider's error it rides with.
Kind(text, fence, fits, envelope, provider) ==
    IF envelope THEN "dispatch"
    ELSE IF IsReceipt(text, fence, fits) THEN "value"
    ELSE IF provider THEN "provider" ELSE "schema"
Kinds == {Kind(t, f, ok, e, p) : t \in Texts, f \in Texts, ok \in BOOLEAN, e \in BOOLEAN, p \in BOOLEAN}

MayRetry(j, kind) ==
    \/ kind = "provider" /\ calls[j] < MaxProvider
    \/ kind = "schema" /\ calls[j] < MaxPrompts

\* The reply to prompt(): the receipt, the next prompt, or the end of the budget.
Replied(j, kind) ==
    /\ phase[j] = "prompting"
    /\ IF MayRetry(j, kind)
       THEN /\ calls' = [calls EXCEPT ![j] = @ + 1]
            /\ UNCHANGED <<phase, outcome, session, registered, queue, heldJobs, frozen, live, markers>>
       ELSE Finish(j, kind, [session EXCEPT ![j] = "idle"])

\* prompt() throws: the job ends, its session is left as it is.
PromptThrows(j) ==
    /\ phase[j] = "prompting"
    /\ Finish(j, "engine", session)

\* Mutant: the watchdog frees the slot and forgets the session.
WatchdogWithoutAbort(j) ==
    /\ phase[j] \in {"creating", "prompting"}
    /\ Finish(j, "timeout", session)

\* The watchdog of the whole job: a session that exists is aborted.
Watchdog(j) ==
    /\ phase[j] \in {"creating", "prompting"}
    /\ Finish(j, "timeout", [session EXCEPT ![j] = IF @ = "prompted" THEN "aborting" ELSE @])

-----------------------------------------------------------------------------
(* The markers, and who is told that one is gone. *)

\* release() of the held jobs of a tree that is announced and no longer frozen,
\* in the order they subscribed.
Announce(trees) ==
    LET freed == {j \in Jobs : TreeOf[j] \in trees \ frozen}
    IN  Pump(queue \o Within(heldJobs, freed), phase, session, Within(heldJobs, Jobs \ freed))

\* poll(): what left `live` is announced.  The timer runs while somebody listens.
Poll ==
    /\ heldJobs # <<>>
    /\ live # frozen
    /\ live' = frozen
    /\ Announce(live \ frozen)
    /\ UNCHANGED <<calls, outcome, registered, frozen, markers>>

\* notifyClear(), called by the driver when a stage of some member is through.
NotifyClear(t) ==
    /\ heldJobs # <<>>
    /\ live' = frozen
    /\ Announce({t})
    /\ UNCHANGED <<calls, outcome, registered, frozen, markers>>

Freeze(t) ==
    /\ t \notin frozen /\ markers < MaxMarkers
    /\ frozen' = frozen \cup {t}
    /\ markers' = markers + 1
    /\ UNCHANGED <<phase, jobVars, queue, heldJobs, live>>

Thaw(t) ==
    /\ t \in frozen
    /\ MarkersOutliveAPoll => t \in live \/ heldJobs = <<>>
    /\ frozen' = frozen \ {t}
    /\ UNCHANGED <<phase, jobVars, queue, heldJobs, live, markers>>

-----------------------------------------------------------------------------
FanoutInit ==
    /\ phase = [j \in Jobs |-> "waiting"]
    /\ calls = [j \in Jobs |-> 0]
    /\ outcome = [j \in Jobs |-> "none"]
    /\ session = [j \in Jobs |-> "none"]
    /\ registered = {} /\ queue = <<>> /\ heldJobs = <<>>
    /\ frozen = {} /\ live = {} /\ markers = 0

SessionStep(j) ==
    \/ Created(j) \/ CreateFails(j) \/ CreateThrows(j) \/ CreatedLate(j)
    \/ \E kind \in Kinds : Replied(j, kind)
    \/ PromptThrows(j) \/ Watchdog(j)

FanoutNext ==
    \/ DispatchWave \/ Poll
    \/ \E j \in Jobs : SessionStep(j)
    \/ \E t \in Trees : NotifyClear(t) \/ Freeze(t) \/ Thaw(t)

\* Timers fire and markers are removed in the end; of the host nothing is assumed.
FanoutFairness ==
    /\ WF_fanoutVars(DispatchWave) /\ WF_fanoutVars(Poll)
    /\ \A j \in Jobs : WF_fanoutVars(Watchdog(j))
    /\ \A t \in Trees : SF_fanoutVars(Thaw(t))

FanoutSpec == FanoutInit /\ [][FanoutNext]_fanoutVars /\ FanoutFairness

-----------------------------------------------------------------------------
\* A sub-session that may still call tools is registered, or was told to end:
\* whichever of the reply, the watchdog and a late create comes first
\* (fanout.ts:596-630).  Only a transport error leaves one behind (795-806).
SessionsAreAccountedFor ==
    \A j \in Jobs : session[j] = "prompted" => j \in registered \/ outcome[j] = "engine"

\* The host serves one model of the wave at a time, to no more jobs than readers,
\* held jobs that are released in between included (fanout.ts:861-885,919-924).
OneModelAtATime ==
    /\ Cardinality(InFlight(phase)) <= MaxReaders
    /\ \A i, j \in InFlight(phase) : ModelOf[i] = ModelOf[j]

SessionsInOrder == SessionsAreAccountedFor /\ OneModelAtATime

\* The wave ends although the host may never answer: only a job that is held out
\* of its tree for good can keep it open.
WaveEndsUnlessHeld == <>[](heldJobs = <<>>) =>
    ((\E j \in Jobs : phase[j] # "waiting") ~> (\A j \in Jobs : phase[j] = "done"))

\* "`live` is owned by the poll alone": a held job does not wait forever for a
\* marker that is gone (index.ts:815-818).
HeldJobsAreReleased == \A j \in Jobs : phase[j] = "held" ~> phase[j] # "held"
=============================================================================
