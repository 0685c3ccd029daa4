------------------------------ MODULE Admission -----------------------------
(***************************************************************************)
(* The AdmissionController of llama-router (router/admission.hpp): caps on *)
(* the requests in flight per model, and one wait queue ordered by         *)
(* priority and arrival, shared by all models.                             *)
(*                                                                         *)
(* A thread is a handler thread of the HTTP listener.  Everything admit()  *)
(* and release() do happens under one mutex, which only the condition wait *)
(* gives up, so each stretch between two waits is one action:              *)
(*    admit() up to its answer   AdmitNow, Overflow                        *)
(*    admit() up to the wait     Park                                      *)
(*    admit() after the wait     Wake (granted) or TimeOut (not granted)   *)
(*    release()                  ReleaseGrants, ReleaseNoWaiter            *)
(* release() is called by ~AdmissionSlot, once, by the last holder of the  *)
(* slot, so a thread whose call was admitted holds until it releases.      *)
(***************************************************************************)
EXTENDS Affinity

CONSTANTS
    Threads,                \* handler threads that may call admit()
    Models,                 \* values of the request body's model field
    NoModel,                \* the slot of a thread outside a call
    NoPolicy,               \* policies_ has no entry for the model
    Groups,                 \* prefix-group tags
    Priorities,             \* the priorities block: a function from tag to value
    MaxInflightPerModel,    \* admission.maxInflightPerModel
    MaxQueued,              \* admission.maxQueued
    TaskQueueThreadMargin,  \* kTaskQueueThreadMargin (8 in the build)
    MaxArrivals             \* bound on nextSequence_, for model checking

ASSUME ConstantsAssumption ==
    /\ ContiguousDequeue \in BOOLEAN
    /\ IsFiniteSet(Threads)
    /\ NoModel \notin Models
    /\ NoGroup \notin Groups
    /\ NoPolicy # NoBurst
    /\ "interactive" \in DOMAIN Priorities
    /\ \A tag \in DOMAIN Priorities : Priorities[tag] \in Int
    /\ \E first \in DOMAIN Priorities :
           \A tag \in DOMAIN Priorities : Priorities[first] <= Priorities[tag]
    /\ MaxInflightPerModel \in Nat \ {0}
    /\ MaxQueued \in Nat
    /\ TaskQueueThreadMargin \in Nat \ {0}
    /\ MaxArrivals \in Nat

VARIABLES
    status,        \* where each thread stands in its call
    slot,          \* the model a thread's call (or its AdmissionSlot) names
    inflight,      \* inflight_, with 0 for an absent key
    queue,         \* queue_: the parked entries
    policies,      \* policies_: the burst kept for each model
    nextSequence   \* nextSequence_

vars == <<status, slot, inflight, queue, policies, nextSequence>>

Arrivals == 0 .. (MaxArrivals - 1)

PriorityValues == {Priorities[tag] : tag \in DOMAIN Priorities}

\* priorityValue(): a tag that is absent or not configured is interactive.
PriorityValue(tag) ==
    IF tag \in DOMAIN Priorities THEN Priorities[tag] ELSE Priorities["interactive"]

Entry == [thread   : Threads,
          model    : Models,
          priority : PriorityValues,
          group    : Groups \cup {NoGroup},
          arrival  : Arrivals]

Burst == [priority : PriorityValues, group : Groups,
          queuedThrough : Arrivals, startedBy : Arrivals]

\* How many distinct models may hold slots at once: one always may, the others
\* ride on the margin of worker threads.
MaxDistinctInflightModels == 1 + (TaskQueueThreadMargin - 1) \div MaxInflightPerModel

\* The models with a positive count, the keys of inflight_.
InflightModels == {m \in Models : inflight[m] > 0}

WaitingFor(m) == {e \in queue : e.model = m}

EntriesOf(t) == {e \in queue : e.thread = t}

\* hasFreeSlot(): an arrival never overtakes an entry that waits for its model.
HasFreeSlot(m) ==
    /\ inflight[m] < MaxInflightPerModel
    /\ WaitingFor(m) = {}

\* A model with nothing in flight while the distinct models spend the budget.
DistinctBudgetSpent(m) ==
    /\ inflight[m] = 0
    /\ Cardinality(InflightModels) >= MaxDistinctInflightModels

\* The burst of a model's policy; a policy made by policyFor() has none.
BurstOf(m) == IF policies[m] = NoPolicy THEN NoBurst ELSE policies[m]

\* The threads that own a slot, from the grant to the release.
HoldersOf(m) == {t \in Threads : slot[t] = m /\ status[t] \in {"granted", "holding"}}
-----------------------------------------------------------------------------
Init ==
    /\ status = [t \in Threads |-> "idle"]
    /\ slot = [t \in Threads |-> NoModel]
    /\ inflight = [m \in Models |-> 0]
    /\ queue = {}
    /\ policies = [m \in Models |-> NoPolicy]
    /\ nextSequence = 0

\* admit() with a free slot: the thread goes on with the slot at once.
AdmitNow(t, m) ==
    /\ status[t] = "idle"
    /\ HasFreeSlot(m)
    /\ ~DistinctBudgetSpent(m)
    /\ inflight' = [inflight EXCEPT ![m] = @ + 1]
    /\ status' = [status EXCEPT ![t] = "holding"]
    /\ slot' = [slot EXCEPT ![t] = m]
    /\ UNCHANGED <<queue, policies, nextSequence>>

\* admit() answers Overflowed at once, never after a wait.
Overflow(t, m) ==
    /\ status[t] = "idle"
    /\ IF HasFreeSlot(m)
       THEN DistinctBudgetSpent(m)
       ELSE Cardinality(queue) >= MaxQueued
    /\ UNCHANGED vars

\* Mutant: the queue takes one entry more than maxQueued.
ParkOnePast(t, m, tag, group) ==
    /\ status[t] = "idle"
    /\ ~HasFreeSlot(m)
    /\ Cardinality(queue) <= MaxQueued
    /\ nextSequence < MaxArrivals
    /\ queue' = queue \cup {[thread |-> t, model |-> m, priority |-> PriorityValue(tag),
                             group |-> group, arrival |-> nextSequence]}
    /\ nextSequence' = nextSequence + 1
    /\ status' = [status EXCEPT ![t] = "waiting"]
    /\ slot' = [slot EXCEPT ![t] = m]
    /\ UNCHANGED <<inflight, policies>>

\* admit() with no free slot: the waiter goes into the queue and the thread
\* gives up the mutex in wait_until.
Park(t, m, tag, group) ==
    /\ status[t] = "idle"
    /\ ~HasFreeSlot(m)
    /\ Cardinality(queue) < MaxQueued
    /\ nextSequence < MaxArrivals
    /\ queue' = queue \cup {[thread |-> t, model |-> m, priority |-> PriorityValue(tag),
                             group |-> group, arrival |-> nextSequence]}
    /\ nextSequence' = nextSequence + 1
    /\ status' = [status EXCEPT ![t] = "waiting"]
    /\ slot' = [slot EXCEPT ![t] = m]
    /\ UNCHANGED <<inflight, policies>>

\* wait_until returns with the grant, before the deadline or at it.
Wake(t) ==
    /\ status[t] = "granted"
    /\ status' = [status EXCEPT ![t] = "holding"]
    /\ UNCHANGED <<slot, inflight, queue, policies, nextSequence>>

\* Mutant: a grant that lands at the deadline is dropped.
TimeOutDroppingGrant(t) ==
    /\ status[t] \in {"waiting", "granted"}
    /\ queue' = queue \ EntriesOf(t)
    /\ status' = [status EXCEPT ![t] = "idle"]
    /\ slot' = [slot EXCEPT ![t] = NoModel]
    /\ UNCHANGED <<inflight, policies, nextSequence>>

\* wait_until reaches the deadline with no grant: the entry removes itself.
TimeOut(t) ==
    /\ status[t] = "waiting"
    /\ queue' = queue \ EntriesOf(t)
    /\ status' = [status EXCEPT ![t] = "idle"]
    /\ slot' = [slot EXCEPT ![t] = NoModel]
    /\ UNCHANGED <<inflight, policies, nextSequence>>

\* The count of a model after release() gave one slot back.
Freed(m) == IF inflight[m] > 0 THEN inflight[m] - 1 ELSE 0

\* Mutant: the slot handed over is not counted.
ReleaseUncounted(t) ==
    /\ status[t] = "holding"
    /\ WaitingFor(slot[t]) # {}
    /\ LET m      == slot[t]
           chosen == SelectNext(WaitingFor(m), BurstOf(m))
       IN  /\ queue' = queue \ {chosen}
           /\ inflight' = [inflight EXCEPT ![m] = Freed(m)]
           /\ status' = [status EXCEPT ![t] = "idle", ![chosen.thread] = "granted"]
           /\ slot' = [slot EXCEPT ![t] = NoModel]
    /\ UNCHANGED <<policies, nextSequence>>

\* release() with an entry waiting: the slot goes to the entry the policy
\* chooses, in the same critical section.
ReleaseGrants(t) ==
    /\ status[t] = "holding"
    /\ Freed(slot[t]) < MaxInflightPerModel
    /\ WaitingFor(slot[t]) # {}
    /\ LET m       == slot[t]
           entries == WaitingFor(m)
           chosen  == SelectNext(entries, BurstOf(m))
       IN  /\ queue' = queue \ {chosen}
           /\ inflight' = [inflight EXCEPT ![m] = Freed(m) + 1]
           /\ policies' = [policies EXCEPT ![m] = IF entries = {chosen}
                                                  THEN NoPolicy
                                                  ELSE BurstAfter(entries, BurstOf(m))]
           /\ status' = [status EXCEPT ![t] = "idle", ![chosen.thread] = "granted"]
           /\ slot' = [slot EXCEPT ![t] = NoModel]
    /\ UNCHANGED nextSequence

\* release() with nobody to grant to: the model's policy is dropped, unless
\* grantNext() returned before it looked at the queue.
ReleaseNoWaiter(t) ==
    /\ status[t] = "holding"
    /\ Freed(slot[t]) >= MaxInflightPerModel \/ WaitingFor(slot[t]) = {}
    /\ inflight' = [inflight EXCEPT ![slot[t]] = Freed(slot[t])]
    /\ policies' = IF Freed(slot[t]) >= MaxInflightPerModel
                   THEN policies
                   ELSE [policies EXCEPT ![slot[t]] = NoPolicy]
    /\ status' = [status EXCEPT ![t] = "idle"]
    /\ slot' = [slot EXCEPT ![t] = NoModel]
    /\ UNCHANGED <<queue, nextSequence>>

\* admit() for a request that names model m with a priority tag and a group.
Admit(t) ==
    \E m \in Models :
        \/ AdmitNow(t, m)
        \/ Overflow(t, m)
        \/ \E tag \in DOMAIN Priorities, group \in Groups \cup {NoGroup} :
               Park(t, m, tag, group)

Release(t) == ReleaseGrants(t) \/ ReleaseNoWaiter(t)

Next == \E t \in Threads : Admit(t) \/ Wake(t) \/ TimeOut(t) \/ Release(t)

Spec == Init /\ [][Next]_vars

\* A notified thread wakes up, and a request in service ends: the upstream
\* answers or its timeout expires, and the slot is destroyed either way.
\* Nothing is assumed of the deadline.
ServiceEnds == \A t \in Threads : WF_vars(Wake(t)) /\ WF_vars(Release(t))
-----------------------------------------------------------------------------
\* The variables have their types: no count is negative, no sequence is reused.
TypeOK ==
    /\ status \in [Threads -> {"idle", "waiting", "granted", "holding"}]
    /\ slot \in [Threads -> Models \cup {NoModel}]
    /\ inflight \in [Models -> Nat]
    /\ queue \subseteq Entry
    /\ policies \in [Models -> Burst \cup {NoBurst, NoPolicy}]
    /\ nextSequence \in 0 .. MaxArrivals

\* A thread outside a call names no model.
IdleNamesNoModel == \A t \in Threads : status[t] = "idle" <=> slot[t] = NoModel

\* Every count of inflight_ is the number of threads that own a slot of the
\* model, and never above the cap: no path through a grant, a wake-up at the
\* deadline or a release leaks a slot or gives one twice.
SlotAccounting ==
    \A m \in Models :
        /\ inflight[m] = Cardinality(HoldersOf(m))
        /\ inflight[m] <= MaxInflightPerModel

\* The queue holds exactly one entry for each thread parked in wait_until, for
\* the model that thread names: a grant removes the waiter it wakes, a time-out
\* only its own, and no entry outlives the stack frame it points to.
QueueIsTheParkedThreads ==
    /\ \A e \in queue : status[e.thread] = "waiting" /\ slot[e.thread] = e.model
    /\ \A t \in Threads : status[t] = "waiting" => \E e \in queue : e.thread = t
    /\ \A e, f \in queue : e.thread = f.thread \/ e.arrival = f.arrival => e = f
    /\ \A e \in queue : e.arrival < nextSequence

\* Nobody waits for a model with a slot to spare: a release can never leave a
\* waiter asleep, whatever timed out between.
WorkConserving ==
    \A m \in Models : WaitingFor(m) # {} => inflight[m] = MaxInflightPerModel

\* The distinct models in flight stay within the budget although a grant never
\* checks it (admission.hpp:68-77).
DistinctBudget == Cardinality(InflightModels) <= MaxDistinctInflightModels

\* The threads parked or in service leave one worker of the task queue for the
\* health probe, whatever models the requests name (admission.hpp:68-77,330).
ThreadBudget ==
    Cardinality({t \in Threads : status[t] # "idle"})
        < MaxQueued + MaxInflightPerModel + TaskQueueThreadMargin

\* The policy table is bounded by the saturated models: a policy left behind by
\* time-outs goes with the next release of its model, and its burst can never
\* claim an entry that arrives later.
PolicyOnlyWhileSaturated ==
    \A m \in Models : policies[m] # NoPolicy =>
        /\ inflight[m] = MaxInflightPerModel
        /\ policies[m] # NoBurst => policies[m].queuedThrough < nextSequence

\* A burst's head was older than every entry of its class that is still queued
\* or still to come.
BurstHeadIsOlder ==
    \A m \in Models : policies[m] \notin {NoPolicy, NoBurst} =>
        /\ policies[m].startedBy < nextSequence
        /\ \A e \in WaitingFor(m) :
               e.priority = policies[m].priority => policies[m].startedBy < e.arrival

\* The entries a step grants: they leave the queue and their thread is woken.
GrantedByStep == {e \in queue : e \notin queue' /\ status'[e.thread] = "granted"}

\* Strict priority between classes: no grant passes over an entry of the same
\* model with a lower priority value.
PriorityRespected ==
    [][\A e \in GrantedByStep : \A w \in WaitingFor(e.model) : e.priority <= w.priority]_vars

\* Bounded overtaking inside a class: an entry is granted before an older one of
\* its class only as a group-mate of a head that was older still, and only if it
\* was queued when that head was granted; so a busy group cannot starve its
\* neighbours (affinity.hpp:26-35).
OvertakingIsBurstBounded ==
    [][\A e \in GrantedByStep : \A w \in WaitingFor(e.model) :
           w.priority = e.priority /\ w.arrival < e.arrival
               => /\ ContiguousDequeue
                  /\ policies[e.model] \notin {NoPolicy, NoBurst}
                  /\ policies[e.model].group = e.group
                  /\ policies[e.model].startedBy < w.arrival
                  /\ e.arrival <= policies[e.model].queuedThrough]_vars

\* An entry of a better class waits for the model of the thread's entry.
Outclassed(t) ==
    \E e \in EntriesOf(t), f \in queue : f.model = e.model /\ f.priority < e.priority

\* No lost wake-up and no starvation inside a class: as long as requests in
\* service end, a parked call is answered even if no deadline ever expires and
\* arrivals never stop, unless better classes keep queueing for its model
\* (admission.hpp:185-288; "what stops a busy group from starving its
\* neighbours", affinity.hpp:35).
NoWaiterIsForgotten ==
    \A t \in Threads : []<>(status[t] # "waiting") \/ []<>Outclassed(t)
-----------------------------------------------------------------------------
\* The pool of slots the controller promises, seen without queue or policy.
Pool == INSTANCE SlotPool WITH
            Slots  <- MaxInflightPerModel,
            owns   <- [t \in Threads |-> IF status[t] \in {"granted", "holding"}
                                         THEN slot[t] ELSE NoModel],
            wants  <- [t \in Threads |-> IF status[t] = "waiting" THEN slot[t] ELSE NoModel]

\* The controller implements the pool: every step of it is a step of the pool.
PoolSpec == Pool!Spec
=============================================================================
