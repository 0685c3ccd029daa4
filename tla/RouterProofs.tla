----------------------------- MODULE RouterProofs -----------------------------
(***************************************************************************)
(* Proofs about the router: Admission, for every number of threads and     *)
(* models and every value of the limits (its slots and its queue, the      *)
(* order of its grants, and that it implements SlotPool); Router, what the *)
(* two threads of a request agree on, for every number of requests, every  *)
(* bound on a body and every water mark; and Ledger, what the viewer of    *)
(* the ledger counts.                                                      *)
(***************************************************************************)
EXTENDS Router, Ledger, Admission, IntegerSets

-----------------------------------------------------------------------------
(* The policy chooses from the entries it is given. *)

\* The eligible class is a class that is queued, and no class precedes it.
LEMMA LowestPriorityIsLeast ==
    ASSUME NEW E \in SUBSET Entry, E # {}
    PROVE  /\ LowestPriority(E) \in {e.priority : e \in E}
           /\ \A e \in E : LowestPriority(E) <= e.priority
<1> DEFINE P == {e.priority : e \in E}
<1>1. P \in SUBSET Int /\ P # {}
    BY ConstantsAssumption DEF Entry, PriorityValues
<1>2. PICK low \in Int : \A p \in P : low <= p
    BY ConstantsAssumption DEF Entry, PriorityValues
<1>3. \E p \in P : \A e \in E : p <= e.priority
    <2>1. PICK p \in P : \A q \in P : p <= q
        <3> HIDE DEF P
        <3> QED BY <1>1, <1>2, IntMin
    <2> QED BY <2>1
<1> QED BY <1>3 DEF LowestPriority

\* The oldest entry of a nonempty set is a member that no member precedes.
LEMMA OldestIsMember ==
    ASSUME NEW E \in SUBSET Entry, E # {}
    PROVE  /\ Oldest(E) \in E
           /\ \A f \in E : Oldest(E).arrival <= f.arrival
<1> DEFINE A == {e.arrival : e \in E}
<1>1. A \in SUBSET Nat /\ A # {}
    BY ConstantsAssumption DEF Entry, Arrivals
<1>2. PICK a \in A : \A b \in A : a <= b
    BY <1>1, NatMin
<1>3. \E e \in E : \A f \in E : e.arrival <= f.arrival
    BY <1>2
<1> QED BY <1>3 DEF Oldest

\* The head of the eligible class is an entry, and of that class.
LEMMA HeadIsMember ==
    ASSUME NEW E \in SUBSET Entry, E # {}
    PROVE  /\ OldestInClass(E, LowestPriority(E)) \in E
           /\ OldestInClass(E, LowestPriority(E)).priority = LowestPriority(E)
<1> DEFINE C == {e \in E : e.priority = LowestPriority(E)}
<1>1. C \in SUBSET Entry /\ C # {}
    BY LowestPriorityIsLeast
<1>2. Oldest(C) \in C
    <2> HIDE DEF C
    <2> QED BY <1>1, OldestIsMember
<1> QED BY <1>2 DEF OldestInClass

\* selectNext() answers one of the entries, of the lowest priority value.
LEMMA SelectNextIsEligible ==
    ASSUME NEW E \in SUBSET Entry, E # {}, NEW burst
    PROVE  /\ SelectNext(E, burst) \in E
           /\ \A e \in E : SelectNext(E, burst).priority <= e.priority
<1>1. CASE BurstDrains(E, burst)
    <2> DEFINE M == BurstMembers(E, burst)
    <2>1. M \in SUBSET Entry /\ M # {}
        BY <1>1 DEF BurstDrains, BurstMembers
    <2>2. Oldest(M) \in M
        <3> HIDE DEF M
        <3> QED BY <2>1, OldestIsMember
    <2>3. Oldest(M) \in E /\ Oldest(M).priority = LowestPriority(E)
        BY <2>2, <1>1 DEF BurstMembers, BurstDrains
    <2> QED BY <2>3, <1>1, LowestPriorityIsLeast DEF SelectNext
<1>2. CASE ~BurstDrains(E, burst)
    BY <1>2, HeadIsMember, LowestPriorityIsLeast DEF SelectNext
<1> QED BY <1>1, <1>2

\* The ceiling of a burst is the arrival of some entry.
LEMMA HighestArrivalIsArrival ==
    ASSUME NEW E \in SUBSET Entry, E # {}
    PROVE  HighestArrival(E) \in {e.arrival : e \in E}
<1> DEFINE A == {e.arrival : e \in E}
<1>1. A \in SUBSET Int /\ A # {}
    BY ConstantsAssumption DEF Entry, Arrivals
<1>2. \A a \in A : a <= MaxArrivals
    BY ConstantsAssumption DEF Entry, Arrivals
<1>3. PICK a \in A : \A b \in A : b <= a
    <2>1. MaxArrivals \in Int
        BY ConstantsAssumption
    <2> HIDE DEF A
    <2> QED BY <1>1, <1>2, <2>1, IntMax
<1>4. \E x \in {e.arrival : e \in E} : \A e \in E : e.arrival <= x
    BY <1>3
<1> QED BY <1>4 DEF HighestArrival

\* The burst selectNext() leaves is a burst, or none.
LEMMA BurstAfterType ==
    ASSUME NEW E \in SUBSET Entry, E # {}, NEW burst \in Burst \cup {NoBurst}
    PROVE  BurstAfter(E, burst) \in Burst \cup {NoBurst}
<1> DEFINE head == OldestInClass(E, LowestPriority(E))
<1>1. CASE BurstDrains(E, burst) \/ ~ContiguousDequeue
    BY <1>1 DEF BurstAfter
<1>2. CASE ~(BurstDrains(E, burst) \/ ~ContiguousDequeue) /\ head.group = NoGroup
    BY <1>2 DEF BurstAfter
<1>3. CASE ~(BurstDrains(E, burst) \/ ~ContiguousDequeue) /\ head.group # NoGroup
    <2>1. head \in Entry
        BY HeadIsMember
    <2>2. HighestArrival(E) \in Arrivals
        BY HighestArrivalIsArrival DEF Entry
    <2>3. BurstAfter(E, burst) = [priority |-> head.priority, group |-> head.group,
                                  queuedThrough |-> HighestArrival(E),
                                  startedBy |-> head.arrival]
        BY <1>3 DEF BurstAfter
    <2> HIDE DEF head
    <2>4. head.priority \in PriorityValues /\ head.group \in Groups /\ head.arrival \in Arrivals
        BY <2>1, <1>3 DEF Entry
    <2> QED BY <2>2, <2>3, <2>4 DEF Burst
<1> QED BY <1>1, <1>2, <1>3
-----------------------------------------------------------------------------
(* Type correctness, with the queue and the threads that it parks. *)

\* The invariant that carries itself through every step: a release needs the
\* queue's entries to belong to parked threads, and those need the types.
QueueInv == TypeOK /\ IdleNamesNoModel /\ QueueIsTheParkedThreads

\* The queue invariant holds when the controller is constructed.
LEMMA QueueInvInit == Init => QueueInv
    BY ConstantsAssumption
    DEF Init, QueueInv, TypeOK, IdleNamesNoModel, QueueIsTheParkedThreads

\* An entry that waits for m, and the facts a grant needs of the chosen one.
LEMMA ChosenIsParked ==
    ASSUME QueueInv, NEW m \in Models, WaitingFor(m) # {}
    PROVE  LET chosen == SelectNext(WaitingFor(m), BurstOf(m))
           IN  /\ chosen \in queue
               /\ chosen \in Entry
               /\ chosen.model = m
               /\ chosen.thread \in Threads
               /\ status[chosen.thread] = "waiting"
               /\ slot[chosen.thread] = m
<1>1. WaitingFor(m) \in SUBSET Entry
    BY DEF WaitingFor, QueueInv, TypeOK
<1>2. SelectNext(WaitingFor(m), BurstOf(m)) \in WaitingFor(m)
    BY <1>1, SelectNextIsEligible
<1> QED BY <1>2 DEF WaitingFor, QueueInv, TypeOK, QueueIsTheParkedThreads, Entry

\* Every tag, configured or not, is given a configured value.
LEMMA PriorityValueType ==
    ASSUME NEW tag PROVE PriorityValue(tag) \in PriorityValues
    BY ConstantsAssumption DEF PriorityValue, PriorityValues

\* Admission with a free slot preserves the queue invariant.
LEMMA QueueInvAdmitNow ==
    ASSUME QueueInv, NEW t \in Threads, NEW m \in Models, AdmitNow(t, m)
    PROVE  QueueInv'
    BY ConstantsAssumption
    DEF QueueInv, TypeOK, IdleNamesNoModel, QueueIsTheParkedThreads, AdmitNow

\* Parking preserves the queue invariant: the entry is the thread's only one.
LEMMA QueueInvPark ==
    ASSUME QueueInv, NEW t \in Threads, NEW m \in Models, NEW tag \in DOMAIN Priorities,
           NEW group \in Groups \cup {NoGroup}, Park(t, m, tag, group)
    PROVE  QueueInv'
<1> DEFINE new == [thread |-> t, model |-> m, priority |-> PriorityValue(tag),
                   group |-> group, arrival |-> nextSequence]
<1>1. new \in Entry /\ nextSequence' \in 0 .. MaxArrivals
    BY PriorityValueType, ConstantsAssumption DEF Park, Entry, Arrivals, QueueInv, TypeOK
<1>2. /\ queue' = queue \cup {new}
      /\ nextSequence' = nextSequence + 1
      /\ status' = [status EXCEPT ![t] = "waiting"]
      /\ slot' = [slot EXCEPT ![t] = m]
      /\ UNCHANGED <<inflight, policies>>
      /\ status[t] = "idle"
    BY DEF Park
<1>3. new.thread = t /\ new.model = m /\ new.arrival = nextSequence
    OBVIOUS
<1> HIDE DEF new
<1>4. TypeOK'
    BY <1>1, <1>2 DEF QueueInv, TypeOK
<1>5. IdleNamesNoModel'
    BY <1>2, ConstantsAssumption DEF QueueInv, TypeOK, IdleNamesNoModel
<1>6. QueueIsTheParkedThreads'
    <2>1. \A e \in queue : e.thread # t /\ e.thread \in Threads /\ e.arrival < nextSequence
                          /\ e.arrival \in Int
        BY <1>2, ConstantsAssumption
        DEF QueueInv, TypeOK, QueueIsTheParkedThreads, Entry, Arrivals
    <2>2. nextSequence \in Int
        BY ConstantsAssumption DEF QueueInv, TypeOK
    <2>3. (\A e \in queue : status[e.thread] = "waiting" /\ slot[e.thread] = e.model)'
        BY <1>2, <1>3, <2>1 DEF QueueInv, TypeOK, QueueIsTheParkedThreads
    <2>4. (\A u \in Threads : status[u] = "waiting" => \E e \in queue : e.thread = u)'
        BY <1>2, <1>3 DEF QueueInv, TypeOK, QueueIsTheParkedThreads
    <2>5. (\A e, f \in queue : e.thread = f.thread \/ e.arrival = f.arrival => e = f)'
        BY <1>2, <1>3, <2>1, <2>2 DEF QueueInv, QueueIsTheParkedThreads
    <2>6. (\A e \in queue : e.arrival < nextSequence)'
        BY <1>2, <1>3, <2>1, <2>2
    <2> QED BY <2>3, <2>4, <2>5, <2>6 DEF QueueIsTheParkedThreads
<1> QED BY <1>4, <1>5, <1>6 DEF QueueInv

\* Waking with a grant preserves the queue invariant.
LEMMA QueueInvWake ==
    ASSUME QueueInv, NEW t \in Threads, Wake(t)
    PROVE  QueueInv'
    BY ConstantsAssumption
    DEF QueueInv, TypeOK, IdleNamesNoModel, QueueIsTheParkedThreads, Wake

\* Timing out preserves the queue invariant: the entry leaves with its thread.
LEMMA QueueInvTimeOut ==
    ASSUME QueueInv, NEW t \in Threads, TimeOut(t)
    PROVE  QueueInv'
    BY ConstantsAssumption
    DEF QueueInv, TypeOK, IdleNamesNoModel, QueueIsTheParkedThreads, TimeOut, EntriesOf

\* A grant preserves the queue invariant: the entry leaves as its thread is woken.
LEMMA QueueInvReleaseGrants ==
    ASSUME QueueInv, NEW t \in Threads, ReleaseGrants(t)
    PROVE  QueueInv'
<1> DEFINE m == slot[t]
           chosen == SelectNext(WaitingFor(m), BurstOf(m))
<1>1. m \in Models
    BY DEF ReleaseGrants, QueueInv, TypeOK, IdleNamesNoModel
<1>2. /\ chosen \in queue /\ chosen \in Entry
      /\ chosen.thread \in Threads
      /\ status[chosen.thread] = "waiting" /\ slot[chosen.thread] = m
    BY <1>1, ChosenIsParked DEF ReleaseGrants
<1>3. /\ queue' = queue \ {chosen}
      /\ status' = [status EXCEPT ![t] = "idle", ![chosen.thread] = "granted"]
      /\ slot' = [slot EXCEPT ![t] = NoModel]
      /\ inflight' = [inflight EXCEPT ![m] = Freed(m) + 1]
      /\ policies' = [policies EXCEPT ![m] = IF WaitingFor(m) = {chosen} THEN NoPolicy
                                             ELSE BurstAfter(WaitingFor(m), BurstOf(m))]
      /\ nextSequence' = nextSequence
      /\ status[t] = "holding"
    BY DEF ReleaseGrants
<1>4. BurstAfter(WaitingFor(m), BurstOf(m)) \in Burst \cup {NoBurst}
    <2>1. WaitingFor(m) \in SUBSET Entry /\ WaitingFor(m) # {}
        BY DEF WaitingFor, QueueInv, TypeOK, ReleaseGrants
    <2>2. BurstOf(m) \in Burst \cup {NoBurst}
        BY <1>1 DEF BurstOf, QueueInv, TypeOK
    <2> HIDE DEF m
    <2> QED BY <2>1, <2>2, BurstAfterType
<1>5. Freed(m) + 1 \in Nat
    BY <1>1 DEF Freed, QueueInv, TypeOK
<1> HIDE DEF chosen
<1>6. TypeOK'
    BY <1>1, <1>2, <1>3, <1>4, <1>5 DEF QueueInv, TypeOK
<1>7. IdleNamesNoModel'
    BY <1>1, <1>2, <1>3, ConstantsAssumption DEF QueueInv, TypeOK, IdleNamesNoModel
<1>8. QueueIsTheParkedThreads'
    <2>1. \A e \in queue' : /\ e \in queue /\ e.thread \in Threads
                            /\ e.thread # chosen.thread /\ e.thread # t
        BY <1>2, <1>3 DEF QueueInv, TypeOK, QueueIsTheParkedThreads, Entry
    <2>2. (\A e \in queue : status[e.thread] = "waiting" /\ slot[e.thread] = e.model)'
        BY <1>3, <2>1 DEF QueueInv, TypeOK, QueueIsTheParkedThreads
    <2>3. ASSUME NEW u \in Threads, status'[u] = "waiting"
          PROVE  \E e \in queue' : e.thread = u
        <3>1. status[u] = "waiting" /\ u # chosen.thread
            BY <1>2, <1>3, <2>3 DEF QueueInv, TypeOK
        <3>2. PICK e \in queue : e.thread = u
            BY <3>1 DEF QueueInv, QueueIsTheParkedThreads
        <3> QED BY <1>3, <3>1, <3>2
    <2>4. (\A e, f \in queue : e.thread = f.thread \/ e.arrival = f.arrival => e = f)'
        BY <2>1 DEF QueueInv, QueueIsTheParkedThreads
    <2>5. (\A e \in queue : e.arrival < nextSequence)'
        BY <1>3, <2>1 DEF QueueInv, QueueIsTheParkedThreads
    <2> QED BY <2>2, <2>3, <2>4, <2>5 DEF QueueIsTheParkedThreads
<1> QED BY <1>6, <1>7, <1>8 DEF QueueInv

\* A release without a waiter preserves the queue invariant.
LEMMA QueueInvReleaseNoWaiter ==
    ASSUME QueueInv, NEW t \in Threads, ReleaseNoWaiter(t)
    PROVE  QueueInv'
<1>1. slot[t] \in Models /\ Freed(slot[t]) \in Nat
    BY DEF ReleaseNoWaiter, Freed, QueueInv, TypeOK, IdleNamesNoModel
<1>2. TypeOK'
    BY <1>1, ConstantsAssumption DEF QueueInv, TypeOK, ReleaseNoWaiter
<1>3. IdleNamesNoModel' /\ QueueIsTheParkedThreads'
    BY <1>1, ConstantsAssumption
    DEF QueueInv, TypeOK, IdleNamesNoModel, QueueIsTheParkedThreads, ReleaseNoWaiter
<1> QED BY <1>2, <1>3 DEF QueueInv

\* Every step preserves the queue invariant: one step per action.
LEMMA QueueInvNext == QueueInv /\ [Next]_vars => QueueInv'
<1> SUFFICES ASSUME QueueInv, [Next]_vars PROVE QueueInv'
    OBVIOUS
<1>1. CASE UNCHANGED vars
    BY <1>1 DEF vars, QueueInv, TypeOK, IdleNamesNoModel, QueueIsTheParkedThreads
<1>2. ASSUME NEW t \in Threads, Admit(t) PROVE QueueInv'
    <2>1. ASSUME NEW m \in Models, Overflow(t, m) PROVE QueueInv'
        BY <2>1, <1>1 DEF Overflow
    <2> QED BY <1>2, <2>1, QueueInvAdmitNow, QueueInvPark DEF Admit
<1>3. ASSUME NEW t \in Threads, Release(t) PROVE QueueInv'
    BY <1>3, QueueInvReleaseGrants, QueueInvReleaseNoWaiter DEF Release
<1> QED BY <1>1, <1>2, <1>3, QueueInvWake, QueueInvTimeOut DEF Next

\* The queue invariant holds in every reachable state.
LEMMA QueueInvAlways == Spec => []QueueInv
    BY QueueInvInit, QueueInvNext, PTL DEF Spec

\* Every variable keeps its type.
THEOREM TypeCorrect == Spec => []TypeOK
<1>1. QueueInv => TypeOK
    BY DEF QueueInv
<1> QED BY <1>1, QueueInvAlways, PTL

\* The queue is the set of parked threads: no entry dangles, none is lost.
THEOREM QueueCorrect == Spec => []QueueIsTheParkedThreads
<1>1. QueueInv => QueueIsTheParkedThreads
    BY DEF QueueInv
<1> QED BY <1>1, QueueInvAlways, PTL
-----------------------------------------------------------------------------
(* The counts of inflight_: what is counted is what is owned, a waiter means *)
(* a full model, and the distinct models stay within the budget.             *)

\* WorkConserving is what makes the others inductive: a grant opens no new
\* model and exceeds no cap because its model was full before the release.
SlotInv ==
    /\ QueueInv
    /\ SlotAccounting
    /\ WorkConserving
    /\ IsFiniteSet(InflightModels)
    /\ DistinctBudget

\* The budget of distinct models allows one model at least.
LEMMA BudgetIsPositive == MaxDistinctInflightModels \in Nat \ {0}
<1> DEFINE margin == TaskQueueThreadMargin - 1
<1>1. margin \in Nat /\ MaxInflightPerModel \in Nat \ {0}
    BY ConstantsAssumption
<1>2. margin \div MaxInflightPerModel \in Nat
    <2> HIDE DEF margin
    <2> QED BY <1>1
<1> QED BY <1>2 DEF MaxDistinctInflightModels

\* The owners of a model's slots can be counted.
LEMMA HoldersFinite ==
    ASSUME NEW m
    PROVE  IsFiniteSet(HoldersOf(m)) /\ Cardinality(HoldersOf(m)) \in Nat
<1>1. HoldersOf(m) \in SUBSET Threads
    BY DEF HoldersOf
<1> QED BY <1>1, ConstantsAssumption, FS_Subset, FS_CardinalityType

\* The slot invariant holds when the controller is constructed.
LEMMA SlotInvInit == Init => SlotInv
<1> SUFFICES ASSUME Init PROVE SlotInv
    OBVIOUS
<1>1. \A m \in Models : HoldersOf(m) = {}
    BY DEF Init, HoldersOf
<1>2. InflightModels = {}
    <2>1. \A m \in Models : inflight[m] = 0
        BY DEF Init
    <2> QED BY <2>1 DEF InflightModels
<1>3. SlotAccounting
    <2>1. Cardinality({}) = 0
        BY FS_EmptySet
    <2>2. MaxInflightPerModel \in Nat \ {0} /\ \A m \in Models : inflight[m] = 0
        BY ConstantsAssumption DEF Init
    <2> QED BY <1>1, <2>1, <2>2 DEF SlotAccounting
<1>4. WorkConserving
    BY DEF WorkConserving, WaitingFor, Init
<1>5. IsFiniteSet(InflightModels) /\ DistinctBudget
    BY <1>2, FS_EmptySet, BudgetIsPositive DEF DistinctBudget
<1> QED BY <1>3, <1>4, <1>5, QueueInvInit DEF SlotInv

\* Admission with a free slot counts exactly one owner more, within the cap.
LEMMA SlotInvAdmitNow ==
    ASSUME SlotInv, NEW t \in Threads, NEW m \in Models, AdmitNow(t, m)
    PROVE  SlotInv'
<1>1. QueueInv'
    BY QueueInvAdmitNow DEF SlotInv
<1>2. t \notin HoldersOf(m) /\ HoldersOf(m)' = HoldersOf(m) \cup {t}
    BY DEF AdmitNow, HoldersOf, SlotInv, QueueInv, TypeOK
<1>3. \A n \in Models \ {m} : HoldersOf(n)' = HoldersOf(n)
    BY ConstantsAssumption
    DEF AdmitNow, HoldersOf, SlotInv, QueueInv, TypeOK, IdleNamesNoModel
<1>4. inflight' = [inflight EXCEPT ![m] = @ + 1] /\ inflight[m] < MaxInflightPerModel
    BY DEF AdmitNow, HasFreeSlot
<1>5. SlotAccounting'
    <2>1. Cardinality(HoldersOf(m)') = Cardinality(HoldersOf(m)) + 1
        BY <1>2, HoldersFinite, FS_AddElement
    <2> QED BY <2>1, <1>3, <1>4, ConstantsAssumption
            DEF SlotAccounting, SlotInv, QueueInv, TypeOK
<1>6. WorkConserving'
    BY DEF WorkConserving, WaitingFor, AdmitNow, HasFreeSlot, SlotInv, QueueInv, TypeOK
<1>7. InflightModels' = InflightModels \cup {m}
    BY <1>4 DEF InflightModels, SlotInv, QueueInv, TypeOK
<1>8. IsFiniteSet(InflightModels') /\ DistinctBudget'
    <2>1. IsFiniteSet(InflightModels')
        BY <1>7, FS_AddElement DEF SlotInv
    <2>2. CASE m \in InflightModels
        <3>1. InflightModels' = InflightModels
            BY <1>7, <2>2
        <3>2. MaxDistinctInflightModels' = MaxDistinctInflightModels
            BY DEF MaxDistinctInflightModels
        <3> QED BY <2>1, <3>1, <3>2 DEF DistinctBudget, SlotInv
    <2>3. CASE m \notin InflightModels
        <3>1. Cardinality(InflightModels) < MaxDistinctInflightModels
            <4>1. inflight[m] = 0
                BY <2>3 DEF InflightModels, SlotInv, QueueInv, TypeOK
            <4>2. Cardinality(InflightModels) \in Nat
                BY FS_CardinalityType DEF SlotInv
            <4> QED BY <4>1, <4>2, BudgetIsPositive DEF AdmitNow, DistinctBudgetSpent
        <3>2. Cardinality(InflightModels') = Cardinality(InflightModels) + 1
            BY <1>7, <2>3, FS_AddElement DEF SlotInv
        <3>3. MaxDistinctInflightModels' = MaxDistinctInflightModels
            BY DEF MaxDistinctInflightModels
        <3>4. Cardinality(InflightModels) \in Nat
            BY FS_CardinalityType DEF SlotInv
        <3> QED BY <2>1, <3>1, <3>2, <3>3, <3>4, BudgetIsPositive DEF DistinctBudget
    <2> QED BY <2>2, <2>3
<1> QED BY <1>1, <1>5, <1>6, <1>8 DEF SlotInv

\* A step that leaves the counts and the owners alone and adds no waiter to a
\* model that is not full keeps the invariant.
LEMMA SlotInvSameSlots ==
    ASSUME SlotInv, QueueInv', UNCHANGED inflight,
           \A m \in Models : HoldersOf(m)' = HoldersOf(m),
           \A m \in Models : WaitingFor(m)' # {} => inflight[m] = MaxInflightPerModel
    PROVE  SlotInv'
<1>1. SlotAccounting' /\ WorkConserving'
    BY DEF SlotAccounting, WorkConserving, SlotInv
<1>2. InflightModels' = InflightModels
    BY DEF InflightModels
<1>3. MaxDistinctInflightModels' = MaxDistinctInflightModels
    BY DEF MaxDistinctInflightModels
<1>4. IsFiniteSet(InflightModels') /\ DistinctBudget'
    BY <1>2, <1>3 DEF DistinctBudget, SlotInv
<1> QED BY <1>1, <1>4 DEF SlotInv

\* Parking changes no count, and happens only when no slot is to spare.
LEMMA SlotInvPark ==
    ASSUME SlotInv, NEW t \in Threads, NEW m \in Models, NEW tag \in DOMAIN Priorities,
           NEW group \in Groups \cup {NoGroup}, Park(t, m, tag, group)
    PROVE  SlotInv'
<1>1. QueueInv'
    BY QueueInvPark DEF SlotInv
<1>2. \A n \in Models : HoldersOf(n)' = HoldersOf(n)
    BY ConstantsAssumption
    DEF Park, HoldersOf, SlotInv, QueueInv, TypeOK, IdleNamesNoModel
<1>3. inflight[m] = MaxInflightPerModel
    BY ConstantsAssumption
    DEF Park, HasFreeSlot, SlotInv, WorkConserving, SlotAccounting, QueueInv, TypeOK
<1>4. \A n \in Models \ {m} : WaitingFor(n)' = WaitingFor(n)
    BY DEF Park, WaitingFor
<1>5. UNCHANGED inflight
    BY DEF Park
<1> QED BY <1>1, <1>2, <1>3, <1>4, <1>5, SlotInvSameSlots DEF SlotInv, WorkConserving

\* Waking with a grant changes no count.
LEMMA SlotInvWake ==
    ASSUME SlotInv, NEW t \in Threads, Wake(t)
    PROVE  SlotInv'
<1>1. QueueInv'
    BY QueueInvWake DEF SlotInv
<1>2. \A n \in Models : HoldersOf(n)' = HoldersOf(n)
    BY DEF Wake, HoldersOf, SlotInv, QueueInv, TypeOK
<1>3. \A n \in Models : WaitingFor(n)' = WaitingFor(n)
    BY DEF Wake, WaitingFor
<1>4. UNCHANGED inflight
    BY DEF Wake
<1> QED BY <1>1, <1>2, <1>3, <1>4, SlotInvSameSlots DEF SlotInv, WorkConserving

\* Timing out changes no count: the thread owned no slot.
LEMMA SlotInvTimeOut ==
    ASSUME SlotInv, NEW t \in Threads, TimeOut(t)
    PROVE  SlotInv'
<1>1. QueueInv'
    BY QueueInvTimeOut DEF SlotInv
<1>2. \A n \in Models : HoldersOf(n)' = HoldersOf(n)
    BY ConstantsAssumption DEF TimeOut, HoldersOf, SlotInv, QueueInv, TypeOK
<1>3. \A n \in Models : WaitingFor(n)' \subseteq WaitingFor(n)
    BY DEF TimeOut, WaitingFor, EntriesOf
<1>4. UNCHANGED inflight
    BY DEF TimeOut
<1> QED BY <1>1, <1>2, <1>3, <1>4, SlotInvSameSlots DEF SlotInv, WorkConserving

\* What a release that grants does, in terms of who owns what.
LEMMA GrantEffect ==
    ASSUME SlotInv, NEW t \in Threads, ReleaseGrants(t), NEW m, m = slot[t]
    PROVE  LET chosen == SelectNext(WaitingFor(m), BurstOf(m))
           IN  /\ m \in Models
               /\ inflight[m] = MaxInflightPerModel
               /\ UNCHANGED inflight
               /\ t \in HoldersOf(m) /\ chosen.thread \notin HoldersOf(m)
               /\ HoldersOf(m)' = (HoldersOf(m) \ {t}) \cup {chosen.thread}
               /\ \A n \in Models \ {m} : HoldersOf(n)' = HoldersOf(n)
               /\ queue' = queue \ {chosen}
<1> DEFINE chosen == SelectNext(WaitingFor(m), BurstOf(m))
<1>1. m \in Models /\ status[t] = "holding" /\ WaitingFor(m) # {}
    BY DEF ReleaseGrants, SlotInv, QueueInv, TypeOK, IdleNamesNoModel
<1>2. /\ chosen.thread \in Threads
      /\ status[chosen.thread] = "waiting" /\ slot[chosen.thread] = m
    BY <1>1, ChosenIsParked DEF SlotInv
<1>3. inflight[m] = MaxInflightPerModel
    BY <1>1 DEF SlotInv, WorkConserving
<1>4. /\ status' = [status EXCEPT ![t] = "idle", ![chosen.thread] = "granted"]
      /\ slot' = [slot EXCEPT ![t] = NoModel]
      /\ inflight' = [inflight EXCEPT ![m] = Freed(m) + 1]
      /\ queue' = queue \ {chosen}
    BY DEF ReleaseGrants
<1>5. UNCHANGED inflight
    BY <1>1, <1>3, <1>4, ConstantsAssumption DEF Freed, SlotInv, QueueInv, TypeOK
<1> HIDE DEF chosen
<1>6. t \in HoldersOf(m) /\ chosen.thread \notin HoldersOf(m)
    BY <1>1, <1>2 DEF HoldersOf
<1>7. HoldersOf(m)' = (HoldersOf(m) \ {t}) \cup {chosen.thread}
    BY <1>1, <1>2, <1>4, ConstantsAssumption DEF HoldersOf, SlotInv, QueueInv, TypeOK
<1>8. \A n \in Models \ {m} : HoldersOf(n)' = HoldersOf(n)
    BY <1>1, <1>2, <1>4, ConstantsAssumption DEF HoldersOf, SlotInv, QueueInv, TypeOK
<1> QED BY <1>1, <1>3, <1>4, <1>5, <1>6, <1>7, <1>8 DEF chosen

\* A grant moves a slot from one owner to the next; the count stays.
LEMMA SlotInvReleaseGrants ==
    ASSUME SlotInv, NEW t \in Threads, ReleaseGrants(t)
    PROVE  SlotInv'
<1> PICK m : m = slot[t]
    OBVIOUS
<1> DEFINE chosen == SelectNext(WaitingFor(m), BurstOf(m))
<1>1. /\ m \in Models
      /\ UNCHANGED inflight
      /\ t \in HoldersOf(m) /\ chosen.thread \notin HoldersOf(m)
      /\ HoldersOf(m)' = (HoldersOf(m) \ {t}) \cup {chosen.thread}
      /\ \A n \in Models \ {m} : HoldersOf(n)' = HoldersOf(n)
      /\ queue' = queue \ {chosen}
    BY GrantEffect
<1>2. QueueInv'
    BY QueueInvReleaseGrants DEF SlotInv
<1> HIDE DEF chosen
<1>3. Cardinality(HoldersOf(m)') = Cardinality(HoldersOf(m))
    <2>1. /\ IsFiniteSet(HoldersOf(m) \ {t})
          /\ Cardinality(HoldersOf(m) \ {t}) = Cardinality(HoldersOf(m)) - 1
        BY <1>1, HoldersFinite, FS_RemoveElement
    <2>2. chosen.thread \notin HoldersOf(m) \ {t}
        BY <1>1
    <2>3. Cardinality((HoldersOf(m) \ {t}) \cup {chosen.thread})
              = Cardinality(HoldersOf(m) \ {t}) + 1
        BY <2>1, <2>2, FS_AddElement
    <2>4. Cardinality(HoldersOf(m)) \in Nat
        BY HoldersFinite
    <2> QED BY <1>1, <2>1, <2>3, <2>4
<1>4. SlotAccounting'
    BY <1>1, <1>3 DEF SlotAccounting, SlotInv
<1>5. WorkConserving'
    BY <1>1 DEF WorkConserving, WaitingFor, SlotInv
<1>6. InflightModels' = InflightModels /\ MaxDistinctInflightModels' = MaxDistinctInflightModels
    BY <1>1 DEF InflightModels, MaxDistinctInflightModels
<1> QED BY <1>2, <1>4, <1>5, <1>6 DEF SlotInv, DistinctBudget

\* A release without a waiter counts exactly one owner less.
LEMMA SlotInvReleaseNoWaiter ==
    ASSUME SlotInv, NEW t \in Threads, ReleaseNoWaiter(t)
    PROVE  SlotInv'
<1> PICK m : m = slot[t]
    OBVIOUS
<1>1. m \in Models /\ status[t] = "holding"
    BY DEF ReleaseNoWaiter, SlotInv, QueueInv, TypeOK, IdleNamesNoModel
<1>2. QueueInv'
    BY QueueInvReleaseNoWaiter DEF SlotInv
<1>3. /\ t \in HoldersOf(m)
      /\ HoldersOf(m)' = HoldersOf(m) \ {t}
      /\ \A n \in Models \ {m} : HoldersOf(n)' = HoldersOf(n)
    <2>1. status' = [status EXCEPT ![t] = "idle"] /\ slot' = [slot EXCEPT ![t] = NoModel]
        BY DEF ReleaseNoWaiter
    <2> QED BY <1>1, <2>1, ConstantsAssumption DEF HoldersOf, SlotInv, QueueInv, TypeOK
<1>4. Cardinality(HoldersOf(m)') = Cardinality(HoldersOf(m)) - 1
    BY <1>3, HoldersFinite, FS_RemoveElement
<1>5. inflight[m] > 0 /\ inflight[m] <= MaxInflightPerModel /\ Freed(m) = inflight[m] - 1
    <2>1. Cardinality(HoldersOf(m)) # 0
        BY <1>3, HoldersFinite, FS_EmptySet
    <2> QED BY <1>1, <2>1, HoldersFinite DEF SlotInv, SlotAccounting, Freed
<1>6. inflight' = [inflight EXCEPT ![m] = inflight[m] - 1]
    BY <1>5 DEF ReleaseNoWaiter
<1>7. WaitingFor(m) = {}
    BY <1>1, <1>5, ConstantsAssumption DEF ReleaseNoWaiter, SlotInv, QueueInv, TypeOK
<1>8. SlotAccounting'
    <2> SUFFICES ASSUME NEW n \in Models
                 PROVE  /\ inflight'[n] = Cardinality(HoldersOf(n)')
                        /\ inflight'[n] <= MaxInflightPerModel
        BY DEF SlotAccounting, HoldersOf
    <2>1. /\ inflight[n] \in Nat /\ inflight[n] = Cardinality(HoldersOf(n))
          /\ inflight[n] <= MaxInflightPerModel
        BY DEF SlotAccounting, SlotInv, QueueInv, TypeOK
    <2>2. CASE n = m
        <3>1. inflight'[n] = inflight[m] - 1
            BY <1>6, <2>2 DEF SlotInv, QueueInv, TypeOK
        <3>2. MaxInflightPerModel \in Nat
            BY ConstantsAssumption
        <3> QED BY <1>4, <1>5, <2>1, <2>2, <3>1, <3>2
    <2>3. CASE n # m
        <3>1. inflight'[n] = inflight[n] /\ HoldersOf(n)' = HoldersOf(n)
            BY <1>3, <1>6, <2>3 DEF SlotInv, QueueInv, TypeOK
        <3> QED BY <2>1, <3>1
    <2> QED BY <2>2, <2>3
<1>9. WorkConserving'
    BY <1>6, <1>7 DEF WorkConserving, WaitingFor, ReleaseNoWaiter, SlotInv, QueueInv, TypeOK
<1>10. InflightModels' \in SUBSET InflightModels
    BY <1>1, <1>6 DEF InflightModels, SlotInv, QueueInv, TypeOK
<1>11. IsFiniteSet(InflightModels') /\ DistinctBudget'
    <2>1. MaxDistinctInflightModels' = MaxDistinctInflightModels
        BY DEF MaxDistinctInflightModels
    <2>2. /\ IsFiniteSet(InflightModels')
          /\ Cardinality(InflightModels') <= Cardinality(InflightModels)
        BY <1>10, FS_Subset DEF SlotInv
    <2>3. Cardinality(InflightModels') \in Nat /\ Cardinality(InflightModels) \in Nat
        BY <2>2, FS_CardinalityType DEF SlotInv
    <2> QED BY <2>1, <2>2, <2>3, BudgetIsPositive DEF SlotInv, DistinctBudget
<1> QED BY <1>2, <1>8, <1>9, <1>11 DEF SlotInv

\* Every step preserves the slot invariant: one step per action.
LEMMA SlotInvNext == SlotInv /\ [Next]_vars => SlotInv'
<1> SUFFICES ASSUME SlotInv, [Next]_vars PROVE SlotInv'
    OBVIOUS
<1>1. ASSUME UNCHANGED vars PROVE SlotInv'
    <2>1. QueueInv'
        BY <1>1, QueueInvNext DEF SlotInv
    <2> QED BY <1>1, <2>1, SlotInvSameSlots
            DEF vars, HoldersOf, WaitingFor, SlotInv, WorkConserving
<1>2. ASSUME NEW t \in Threads, Admit(t) PROVE SlotInv'
    <2>1. ASSUME NEW m \in Models, Overflow(t, m) PROVE SlotInv'
        BY <2>1, <1>1 DEF Overflow
    <2> QED BY <1>2, <2>1, SlotInvAdmitNow, SlotInvPark DEF Admit
<1>3. ASSUME NEW t \in Threads, Release(t) PROVE SlotInv'
    BY <1>3, SlotInvReleaseGrants, SlotInvReleaseNoWaiter DEF Release
<1> QED BY <1>1, <1>2, <1>3, SlotInvWake, SlotInvTimeOut DEF Next

\* The slot invariant holds in every reachable state.
LEMMA SlotInvAlways == Spec => []SlotInv
    BY SlotInvInit, SlotInvNext, PTL DEF Spec

\* No slot leaks, none is owned twice, no model exceeds its cap.
THEOREM SlotsCorrect == Spec => []SlotAccounting
<1>1. SlotInv => SlotAccounting
    BY DEF SlotInv
<1> QED BY <1>1, SlotInvAlways, PTL

\* A call is parked only while its model is full.
THEOREM WorkConserved == Spec => []WorkConserving
<1>1. SlotInv => WorkConserving
    BY DEF SlotInv
<1> QED BY <1>1, SlotInvAlways, PTL

\* However many model names the clients invent, the distinct ones in flight
\* stay within the budget that admit() checks only for a new key.
THEOREM DistinctBudgetKept == Spec => []DistinctBudget
<1>1. SlotInv => DistinctBudget
    BY DEF SlotInv
<1> QED BY <1>1, SlotInvAlways, PTL

\* The scan of the whole queue in hasFreeSlot() never changes its answer: a
\* model below its cap has no waiter.
THEOREM QueueScanRedundant ==
    Spec => [](\A m \in Models : HasFreeSlot(m) <=> inflight[m] < MaxInflightPerModel)
<1>1. SlotInv => \A m \in Models : HasFreeSlot(m) <=> inflight[m] < MaxInflightPerModel
    BY ConstantsAssumption DEF SlotInv, QueueInv, TypeOK, WorkConserving, HasFreeSlot
<1> QED BY <1>1, SlotInvAlways, PTL

-----------------------------------------------------------------------------
(* The worker threads of the listener. *)

\* The queue is never longer than maxQueued; only Park looks at its length.
QueueBounded == IsFiniteSet(queue) /\ Cardinality(queue) <= MaxQueued

LEMMA QueueBoundedShrinks ==
    ASSUME QueueBounded, queue' \in SUBSET queue
    PROVE  QueueBounded'
<1>1. IsFiniteSet(queue') /\ Cardinality(queue') <= Cardinality(queue)
    BY FS_Subset DEF QueueBounded
<1>2. Cardinality(queue) \in Nat /\ Cardinality(queue') \in Nat /\ MaxQueued \in Nat
    BY <1>1, FS_CardinalityType, ConstantsAssumption DEF QueueBounded
<1> QED BY <1>1, <1>2 DEF QueueBounded

LEMMA QueueBoundedNext == QueueBounded /\ [Next]_vars => QueueBounded'
<1> SUFFICES ASSUME QueueBounded, [Next]_vars PROVE QueueBounded'
    OBVIOUS
<1>1. ASSUME NEW t \in Threads, NEW m \in Models, NEW tag \in DOMAIN Priorities,
             NEW group \in Groups \cup {NoGroup}, Park(t, m, tag, group)
      PROVE  QueueBounded'
    <2>1. PICK new : queue' = queue \cup {new}
        BY <1>1 DEF Park
    <2>2. Cardinality(queue) < MaxQueued /\ Cardinality(queue) \in Nat /\ MaxQueued \in Nat
        BY <1>1, FS_CardinalityType, ConstantsAssumption DEF Park, QueueBounded
    <2>3. IsFiniteSet(queue') /\ Cardinality(queue') \in {Cardinality(queue), Cardinality(queue) + 1}
        BY <2>1, FS_AddElement DEF QueueBounded
    <2> QED BY <2>2, <2>3 DEF QueueBounded
<1>2. ASSUME NEW t \in Threads,
             \/ UNCHANGED vars
             \/ \E m \in Models : AdmitNow(t, m) \/ Overflow(t, m)
             \/ Wake(t) \/ TimeOut(t) \/ Release(t)
      PROVE  queue' \in SUBSET queue
    BY <1>2 DEF vars, AdmitNow, Overflow, Wake, TimeOut, Release, ReleaseGrants, ReleaseNoWaiter
<1>3. CASE UNCHANGED vars
    BY <1>3, QueueBoundedShrinks DEF vars
<1> QED BY <1>1, <1>2, <1>3, QueueBoundedShrinks DEF Next, Admit

LEMMA QueueBoundedAlways == Spec => []QueueBounded
<1>1. Init => QueueBounded
    <2>1. ASSUME Init PROVE queue = {} /\ MaxQueued \in Nat
        BY <2>1, ConstantsAssumption DEF Init
    <2> QED BY <2>1, FS_EmptySet DEF QueueBounded
<1> QED BY <1>1, QueueBoundedNext, PTL DEF Spec

Waiters == {t \in Threads : status[t] = "waiting"}
Owning == {t \in Threads : status[t] \in {"granted", "holding"}}

\* Each parked thread has an entry of its own.
LEMMA ParkedAreQueued ==
    ASSUME QueueInv, QueueBounded
    PROVE  IsFiniteSet(Waiters) /\ Cardinality(Waiters) <= MaxQueued
<1> DEFINE f == [t \in Waiters |-> CHOOSE e \in queue : e.thread = t]
<1>1. ASSUME NEW t \in Waiters PROVE f[t] \in queue /\ f[t].thread = t
    BY DEF Waiters, QueueInv, QueueIsTheParkedThreads
<1>2. f \in [Waiters -> queue]
    BY <1>1
<1>3. \A t, u \in Waiters : f[t] = f[u] => t = u
    <2> HIDE DEF f
    <2> QED BY <1>1
<1>4. f \in Injection(Waiters, queue)
    <2> HIDE DEF f
    <2> QED BY <1>2, <1>3, Fun_IsInj
<1>5. IsFiniteSet(Waiters) /\ Cardinality(Waiters) <= Cardinality(queue)
    <2> HIDE DEF f
    <2> QED BY <1>4, FS_Injection DEF QueueBounded
<1>6. Cardinality(Waiters) \in Nat /\ Cardinality(queue) \in Nat /\ MaxQueued \in Nat
    BY <1>5, FS_CardinalityType, ConstantsAssumption DEF QueueBounded
<1> QED BY <1>5, <1>6 DEF QueueBounded

\* The owners of slots are those of a budget of models, a cap each.
LEMMA OwnersAreBudgeted ==
    ASSUME SlotInv
    PROVE  IsFiniteSet(Owning)
           /\ Cardinality(Owning) <= Cardinality(InflightModels) * MaxInflightPerModel
<1> DEFINE g == [t \in Owning |-> slot[t]]
<1>1. ASSUME NEW t \in Owning PROVE slot[t] \in InflightModels
    <2>1. slot[t] \in Models /\ t \in HoldersOf(slot[t])
        BY DEF Owning, HoldersOf, SlotInv, QueueInv, TypeOK, IdleNamesNoModel
    <2>2. Cardinality(HoldersOf(slot[t])) # 0
        BY <2>1, HoldersFinite, FS_EmptySet
    <2>3. inflight[slot[t]] = Cardinality(HoldersOf(slot[t])) /\ inflight[slot[t]] \in Nat
        BY <2>1 DEF SlotInv, SlotAccounting, QueueInv, TypeOK
    <2> QED BY <2>1, <2>2, <2>3 DEF InflightModels
<1>2. g \in [Owning -> InflightModels]
    BY <1>1
<1>3. ASSUME NEW m \in InflightModels
      PROVE  /\ IsFiniteSet({t \in Owning : g[t] = m})
             /\ Cardinality({t \in Owning : g[t] = m}) <= MaxInflightPerModel
    <2>1. {t \in Owning : g[t] = m} = HoldersOf(m)
        BY DEF Owning, HoldersOf
    <2>2. Cardinality(HoldersOf(m)) <= MaxInflightPerModel
        BY DEF SlotInv, SlotAccounting, InflightModels
    <2> QED BY <2>1, <2>2, HoldersFinite
<1>4. MaxInflightPerModel \in Nat /\ IsFiniteSet(InflightModels)
    BY ConstantsAssumption DEF SlotInv
<1> HIDE DEF g
<1> QED BY <1>2, <1>3, <1>4, CountByClass

\* The margin is spent by whole models: what is left of it is a worker.
LEMMA BudgetLeavesAWorker ==
    ASSUME NEW n \in 0 .. MaxDistinctInflightModels
    PROVE  n * MaxInflightPerModel < MaxInflightPerModel + TaskQueueThreadMargin
<1> DEFINE margin == TaskQueueThreadMargin - 1
           q == margin \div MaxInflightPerModel
<1>1. margin \in Nat /\ MaxInflightPerModel \in Nat \ {0} /\ TaskQueueThreadMargin = margin + 1
    BY ConstantsAssumption
<1>2. q \in Nat /\ MaxInflightPerModel * q <= margin
    <2> HIDE DEF margin
    <2> QED BY <1>1, QuotientProduct
<1>3. n \in Nat /\ n <= 1 + q
    <2>1. MaxDistinctInflightModels = 1 + q
        BY DEF MaxDistinctInflightModels
    <2> HIDE DEF q
    <2> QED BY <1>2, <2>1
<1> HIDE DEF margin, q
<1>4. n * MaxInflightPerModel <= (1 + q) * MaxInflightPerModel
    BY <1>1, <1>2, <1>3
<1>5. (1 + q) * MaxInflightPerModel = MaxInflightPerModel + MaxInflightPerModel * q
    BY <1>1, <1>2
<1>6. n * MaxInflightPerModel \in Nat /\ MaxInflightPerModel * q \in Nat
    BY <1>1, <1>2, <1>3
<1> QED BY <1>1, <1>2, <1>4, <1>5, <1>6

\* One worker of the task queue is always neither parked nor in service: the health
\* probe answers, whatever models and however many requests the clients send.
THEOREM AWorkerIsLeft == Spec => []ThreadBudget
<1>1. SlotInv /\ QueueBounded => ThreadBudget
    <2> SUFFICES ASSUME SlotInv, QueueBounded PROVE ThreadBudget
        OBVIOUS
    <2>1. IsFiniteSet(Waiters) /\ Cardinality(Waiters) <= MaxQueued
        BY ParkedAreQueued DEF SlotInv
    <2>2. /\ IsFiniteSet(Owning)
          /\ Cardinality(Owning) <= Cardinality(InflightModels) * MaxInflightPerModel
        BY OwnersAreBudgeted
    <2>3. Cardinality(InflightModels) \in 0 .. MaxDistinctInflightModels
        <3>1. Cardinality(InflightModels) \in Nat
            BY FS_CardinalityType DEF SlotInv
        <3> QED BY <3>1, BudgetIsPositive DEF SlotInv, DistinctBudget
    <2>4. Cardinality(InflightModels) * MaxInflightPerModel
              < MaxInflightPerModel + TaskQueueThreadMargin
        BY <2>3, BudgetLeavesAWorker
    <2>5. {t \in Threads : status[t] # "idle"} = Waiters \cup Owning /\ Waiters \cap Owning = {}
        BY DEF Waiters, Owning, SlotInv, QueueInv, TypeOK
    <2>6. Cardinality(Waiters \cup Owning) = Cardinality(Waiters) + Cardinality(Owning)
        <3>1. Cardinality(Waiters \cup Owning)
                  = Cardinality(Waiters) + Cardinality(Owning) - Cardinality(Waiters \cap Owning)
            BY <2>1, <2>2, FS_Union
        <3>2. Cardinality(Waiters \cap Owning) = 0
            BY <2>5, FS_EmptySet
        <3>3. Cardinality(Waiters) \in Nat /\ Cardinality(Owning) \in Nat
            BY <2>1, <2>2, FS_CardinalityType
        <3> QED BY <3>1, <3>2, <3>3
    <2> DEFINE used == Cardinality(InflightModels) * MaxInflightPerModel
    <2>7. /\ Cardinality(Waiters) \in Nat /\ Cardinality(Owning) \in Nat /\ used \in Nat
          /\ MaxQueued \in Nat /\ MaxInflightPerModel \in Nat /\ TaskQueueThreadMargin \in Nat
        BY <2>1, <2>2, <2>3, FS_CardinalityType, ConstantsAssumption
    <2>8. Cardinality(Owning) <= used /\ used < MaxInflightPerModel + TaskQueueThreadMargin
        BY <2>2, <2>4
    <2> HIDE DEF used
    <2>9. Cardinality(Waiters) + Cardinality(Owning)
              < MaxQueued + MaxInflightPerModel + TaskQueueThreadMargin
        BY <2>1, <2>7, <2>8
    <2> QED BY <2>5, <2>6, <2>9 DEF ThreadBudget
<1> QED BY <1>1, SlotInvAlways, QueueBoundedAlways, PTL

-----------------------------------------------------------------------------
(* Only a release grants, and it grants what the policy chooses. *)

\* A grant is the policy's choice among the entries of its model.
LEMMA GrantIsChosen ==
    ASSUME QueueInv, [Next]_vars, NEW e \in GrantedByStep
    PROVE  /\ e \in Entry
           /\ WaitingFor(e.model) \in SUBSET Entry
           /\ e \in WaitingFor(e.model)
           /\ e = SelectNext(WaitingFor(e.model), BurstOf(e.model))
<1>1. e \in queue /\ e \notin queue' /\ status'[e.thread] = "granted"
    BY DEF GrantedByStep
<1>2. e \in Entry /\ WaitingFor(e.model) \in SUBSET Entry /\ e \in WaitingFor(e.model)
    BY <1>1 DEF QueueInv, TypeOK, WaitingFor
<1>3. ASSUME NEW t \in Threads, Admit(t) PROVE FALSE
    BY <1>1, <1>3 DEF Admit, AdmitNow, Overflow, Park, vars
<1>4. ASSUME NEW t \in Threads, Wake(t) PROVE FALSE
    BY <1>1, <1>4 DEF Wake
<1>5. ASSUME NEW t \in Threads, TimeOut(t) PROVE FALSE
    <2>1. e.thread = t
        BY <1>1, <1>5 DEF TimeOut, EntriesOf
    <2> QED BY <1>1, <1>5, <2>1 DEF TimeOut, QueueInv, TypeOK
<1>6. ASSUME NEW t \in Threads, ReleaseNoWaiter(t) PROVE FALSE
    BY <1>1, <1>6 DEF ReleaseNoWaiter
<1>7. ASSUME NEW t \in Threads, ReleaseGrants(t)
      PROVE  e = SelectNext(WaitingFor(e.model), BurstOf(e.model))
    <2> PICK m : m = slot[t]
        OBVIOUS
    <2> DEFINE chosen == SelectNext(WaitingFor(m), BurstOf(m))
    <2>1. queue' = queue \ {chosen}
        BY <1>7 DEF ReleaseGrants
    <2>2. m \in Models /\ WaitingFor(m) # {}
        BY <1>7 DEF ReleaseGrants, QueueInv, TypeOK, IdleNamesNoModel
    <2>3. chosen.model = m
        BY <2>2, ChosenIsParked
    <2>4. e = chosen
        BY <1>1, <2>1
    <2> HIDE DEF chosen
    <2>5. e.model = m
        BY <2>3, <2>4
    <2> QED BY <2>4, <2>5 DEF chosen
<1>8. ~UNCHANGED vars
    BY <1>1 DEF vars
<1> QED BY <1>2, <1>3, <1>4, <1>5, <1>6, <1>7, <1>8 DEF Next, Release

\* Strict priority: no grant passes over a lower priority value.
THEOREM PriorityKept == Spec => PriorityRespected
<1>1. QueueInv /\ [Next]_vars =>
        [\A e \in GrantedByStep : \A w \in WaitingFor(e.model) : e.priority <= w.priority]_vars
    BY GrantIsChosen, SelectNextIsEligible
<1> QED BY <1>1, QueueInvAlways, PTL DEF Spec, PriorityRespected
-----------------------------------------------------------------------------
(* Bounded overtaking. *)

OrderInv == QueueInv /\ BurstHeadIsOlder

\* The head that opens a burst is the oldest of its class.
LEMMA HeadIsOldest ==
    ASSUME NEW E \in SUBSET Entry, E # {}
    PROVE  \A f \in E : f.priority = LowestPriority(E) =>
               OldestInClass(E, LowestPriority(E)).arrival <= f.arrival
<1> DEFINE C == {e \in E : e.priority = LowestPriority(E)}
<1>1. C \in SUBSET Entry /\ C # {}
    BY LowestPriorityIsLeast
<1>2. \A f \in C : Oldest(C).arrival <= f.arrival
    <2> HIDE DEF C
    <2> QED BY <1>1, OldestIsMember
<1> QED BY <1>2 DEF OldestInClass

\* A grant opens a burst only with the oldest entry of its class.
LEMMA OrderInvReleaseGrants ==
    ASSUME OrderInv, NEW t \in Threads, ReleaseGrants(t)
    PROVE  BurstHeadIsOlder'
<1> PICK m : m = slot[t]
    OBVIOUS
<1> DEFINE E == WaitingFor(m)
           chosen == SelectNext(E, BurstOf(m))
           after == BurstAfter(E, BurstOf(m))
<1>1. /\ queue' = queue \ {chosen}
      /\ policies' = [policies EXCEPT ![m] = IF E = {chosen} THEN NoPolicy ELSE after]
    BY DEF ReleaseGrants
<1>2. m \in Models /\ E # {} /\ E \in SUBSET Entry
    BY DEF ReleaseGrants, OrderInv, QueueInv, TypeOK, IdleNamesNoModel, WaitingFor
<1>3. chosen \in E
    BY <1>2, SelectNextIsEligible
<1>4. ASSUME after \notin {NoPolicy, NoBurst}, NEW e \in E, e # chosen,
             e.priority = after.priority
      PROVE  after.startedBy < e.arrival
    <2>1. CASE after = BurstOf(m)
        BY <1>2, <1>4, <2>1 DEF OrderInv, BurstHeadIsOlder, BurstOf
    <2>2. CASE after # BurstOf(m)
        <3> DEFINE head == OldestInClass(E, LowestPriority(E))
        <3>1. /\ ~BurstDrains(E, BurstOf(m))
              /\ head.group # NoGroup
              /\ after.priority = head.priority /\ after.startedBy = head.arrival
            BY <1>4, <2>2 DEF BurstAfter
        <3>2. chosen = head
            BY <3>1 DEF SelectNext
        <3>3. head \in E /\ head.priority = LowestPriority(E)
            BY <1>2, HeadIsMember
        <3>4. head.arrival <= e.arrival
            BY <1>2, <1>4, <3>1, <3>3, HeadIsOldest
        <3> HIDE DEF head, E, chosen, after
        <3>5. e.arrival # head.arrival
            BY <1>2, <1>4, <3>2, <3>3
            DEF E, WaitingFor, OrderInv, QueueInv, QueueIsTheParkedThreads
        <3>6. e.arrival \in Int /\ head.arrival \in Int
            BY <1>2, <1>4, <3>3, ConstantsAssumption DEF Entry, Arrivals
        <3> QED BY <3>1, <3>4, <3>5, <3>6
    <2> QED BY <2>1, <2>2
<1>5. ASSUME NEW n \in Models, policies'[n] \notin {NoPolicy, NoBurst}
      PROVE  policies'[n].startedBy < nextSequence'
    <2>1. nextSequence' = nextSequence
        BY DEF ReleaseGrants
    <2>2. CASE policies'[n] = policies[n]
        BY <1>5, <2>1, <2>2 DEF OrderInv, BurstHeadIsOlder
    <2>3. CASE policies'[n] # policies[n]
        <3> DEFINE head == OldestInClass(E, LowestPriority(E))
        <3>1. n = m /\ policies'[n] = after /\ after # BurstOf(m)
            BY <1>1, <1>2, <1>5, <2>3 DEF OrderInv, QueueInv, TypeOK, BurstOf
        <3>2. after.startedBy = head.arrival
            BY <1>5, <3>1 DEF BurstAfter
        <3>3. head \in queue
            <4>1. head \in E
                BY <1>2, HeadIsMember
            <4> QED BY <4>1 DEF WaitingFor
        <3> HIDE DEF head, E, chosen, after
        <3>4. head.arrival < nextSequence
            BY <3>3 DEF OrderInv, QueueInv, QueueIsTheParkedThreads
        <3> QED BY <2>1, <3>1, <3>2, <3>4
    <2> QED BY <2>2, <2>3
<1>6. ASSUME NEW n \in Models, policies'[n] \notin {NoPolicy, NoBurst},
             NEW e \in WaitingFor(n)', e.priority = policies'[n].priority
      PROVE  policies'[n].startedBy < e.arrival
    <2>1. e \in WaitingFor(n) /\ e # chosen
        BY <1>1, <1>6 DEF WaitingFor
    <2>2. CASE n = m
        <3>1. policies'[m] = after
            BY <1>1, <1>2, <1>6, <2>2 DEF OrderInv, QueueInv, TypeOK
        <3> HIDE DEF after, chosen
        <3> QED BY <1>4, <1>6, <2>1, <2>2, <3>1
    <2>3. CASE n # m
        <3>1. policies'[n] = policies[n]
            BY <1>1, <2>3 DEF OrderInv, QueueInv, TypeOK
        <3> QED BY <1>6, <2>1, <3>1 DEF OrderInv, BurstHeadIsOlder
    <2> QED BY <2>2, <2>3
<1> QED BY <1>5, <1>6 DEF BurstHeadIsOlder

\* An arrival is younger than every burst head: its ordinal is the next one.
LEMMA OrderInvPark ==
    ASSUME OrderInv, NEW t \in Threads, NEW m \in Models,
           NEW tag \in DOMAIN Priorities, NEW group \in Groups \cup {NoGroup},
           Park(t, m, tag, group)
    PROVE  BurstHeadIsOlder'
<1>1. /\ UNCHANGED policies
      /\ nextSequence' = nextSequence + 1 /\ nextSequence \in Int
      /\ queue \subseteq queue'
      /\ \A e \in queue' \ queue : e.arrival = nextSequence
    BY ConstantsAssumption DEF Park, OrderInv, QueueInv, TypeOK
<1>2. ASSUME NEW n \in Models, policies[n] \notin {NoPolicy, NoBurst}
      PROVE  /\ policies[n].startedBy < nextSequence'
             /\ \A e \in WaitingFor(n)' :
                    e.priority = policies[n].priority => policies[n].startedBy < e.arrival
    <2>1. policies[n].startedBy \in Int
        <3>1. policies[n] \in Burst
            BY <1>2 DEF OrderInv, QueueInv, TypeOK
        <3> QED BY <3>1, ConstantsAssumption DEF Burst, Arrivals
    <2>2. policies[n].startedBy < nextSequence
        BY <1>2 DEF OrderInv, BurstHeadIsOlder
    <2>3. ASSUME NEW e \in WaitingFor(n)', e.priority = policies[n].priority
          PROVE  policies[n].startedBy < e.arrival
        <3>1. CASE e \in queue
            BY <1>2, <2>3, <3>1 DEF OrderInv, BurstHeadIsOlder, WaitingFor
        <3>2. CASE e \notin queue
            BY <1>1, <2>2, <2>3, <3>2 DEF WaitingFor
        <3> QED BY <3>1, <3>2
    <2> QED BY <1>1, <2>1, <2>2, <2>3
<1> QED BY <1>1, <1>2 DEF BurstHeadIsOlder

\* A step that keeps each policy or drops it, and adds no entry.
LEMMA OrderInvShrinks ==
    ASSUME OrderInv, queue' \subseteq queue, UNCHANGED nextSequence,
           \A n \in Models : policies'[n] = policies[n] \/ policies'[n] = NoPolicy
    PROVE  BurstHeadIsOlder'
    BY DEF OrderInv, BurstHeadIsOlder, WaitingFor

\* Every step preserves the order invariant: one step per action.
LEMMA OrderInvNext == OrderInv /\ [Next]_vars => OrderInv'
<1> SUFFICES ASSUME OrderInv, [Next]_vars PROVE BurstHeadIsOlder'
    BY QueueInvNext DEF OrderInv
<1>1. CASE UNCHANGED vars
    BY <1>1, OrderInvShrinks DEF vars
<1>2. ASSUME NEW t \in Threads, Admit(t) PROVE BurstHeadIsOlder'
    <2>1. ASSUME NEW m \in Models, AdmitNow(t, m) PROVE BurstHeadIsOlder'
        BY <2>1, OrderInvShrinks DEF AdmitNow
    <2>2. ASSUME NEW m \in Models, Overflow(t, m) PROVE BurstHeadIsOlder'
        BY <2>2, OrderInvShrinks DEF Overflow, vars
    <2> QED BY <1>2, <2>1, <2>2, OrderInvPark DEF Admit
<1>3. ASSUME NEW t \in Threads, Wake(t) PROVE BurstHeadIsOlder'
    BY <1>3, OrderInvShrinks DEF Wake
<1>4. ASSUME NEW t \in Threads, TimeOut(t) PROVE BurstHeadIsOlder'
    BY <1>4, OrderInvShrinks DEF TimeOut
<1>5. ASSUME NEW t \in Threads, ReleaseNoWaiter(t) PROVE BurstHeadIsOlder'
    BY <1>5, OrderInvShrinks DEF ReleaseNoWaiter, OrderInv, QueueInv, TypeOK
<1> QED BY <1>1, <1>2, <1>3, <1>4, <1>5, OrderInvReleaseGrants DEF Next, Release

\* The order invariant holds in every reachable state.
LEMMA OrderInvAlways == Spec => []OrderInv
<1>1. Init => OrderInv
    BY QueueInvInit DEF Init, OrderInv, BurstHeadIsOlder
<1> QED BY <1>1, OrderInvNext, PTL DEF Spec

\* An entry is overtaken inside its class only by the burst of an older head.
THEOREM OvertakingBounded == Spec => OvertakingIsBurstBounded
<1>1. ASSUME OrderInv, [Next]_vars, NEW e \in GrantedByStep, NEW w \in WaitingFor(e.model),
             w.priority = e.priority, w.arrival < e.arrival
      PROVE  /\ ContiguousDequeue
             /\ policies[e.model] \notin {NoPolicy, NoBurst}
             /\ policies[e.model].group = e.group
             /\ policies[e.model].startedBy < w.arrival
             /\ e.arrival <= policies[e.model].queuedThrough
    <2> DEFINE E == WaitingFor(e.model)
               burst == BurstOf(e.model)
    <2>1. e \in Entry /\ E \in SUBSET Entry /\ e \in E /\ e = SelectNext(E, burst)
        BY <1>1, GrantIsChosen DEF OrderInv
    <2>2. e.arrival \in Int /\ w.arrival \in Int /\ e.model \in Models
        BY <1>1, <2>1, ConstantsAssumption DEF Entry, Arrivals
    <2>3. BurstDrains(E, burst)
        <3>1. ASSUME ~BurstDrains(E, burst) PROVE FALSE
            <4>1. e = OldestInClass(E, LowestPriority(E))
                BY <2>1, <3>1 DEF SelectNext
            <4>2. e.priority = LowestPriority(E)
                BY <2>1, <4>1, HeadIsMember
            <4>3. e.arrival <= w.arrival
                BY <1>1, <2>1, <4>1, <4>2, HeadIsOldest
            <4> QED BY <1>1, <2>2, <4>3
        <3> QED BY <3>1
    <2>4. e \in BurstMembers(E, burst)
        <3>1. BurstMembers(E, burst) \in SUBSET Entry /\ BurstMembers(E, burst) # {}
            BY <2>1, <2>3 DEF BurstMembers, BurstDrains
        <3>2. e = Oldest(BurstMembers(E, burst))
            BY <2>1, <2>3 DEF SelectNext
        <3> QED BY <3>1, <3>2, OldestIsMember
    <2>5. burst = policies[e.model] /\ policies[e.model] \notin {NoPolicy, NoBurst}
        BY <2>3 DEF BurstDrains, BurstOf
    <2>6. e.priority = burst.priority /\ e.group = burst.group /\ e.arrival <= burst.queuedThrough
        BY <2>4 DEF BurstMembers
    <2>7. policies[e.model].startedBy < w.arrival
        BY <1>1, <2>2, <2>5, <2>6 DEF OrderInv, BurstHeadIsOlder
    <2> QED BY <2>3, <2>5, <2>6, <2>7 DEF BurstDrains
<1>2. OrderInv /\ [Next]_vars =>
        [\A e \in GrantedByStep : \A w \in WaitingFor(e.model) :
           w.priority = e.priority /\ w.arrival < e.arrival
               => /\ ContiguousDequeue
                  /\ policies[e.model] \notin {NoPolicy, NoBurst}
                  /\ policies[e.model].group = e.group
                  /\ policies[e.model].startedBy < w.arrival
                  /\ e.arrival <= policies[e.model].queuedThrough]_vars
    BY <1>1
<1> QED BY <1>2, OrderInvAlways, PTL DEF Spec, OvertakingIsBurstBounded
-----------------------------------------------------------------------------
(* The policy table. *)

PolicyInv == SlotInv /\ PolicyOnlyWhileSaturated

\* A grant leaves its model full, and a burst that reaches no further than the
\* entries queued.
LEMMA PolicyInvReleaseGrants ==
    ASSUME PolicyInv, NEW t \in Threads, ReleaseGrants(t)
    PROVE  PolicyOnlyWhileSaturated'
<1> PICK m : m = slot[t]
    OBVIOUS
<1> DEFINE E == WaitingFor(m)
           chosen == SelectNext(E, BurstOf(m))
           after == BurstAfter(E, BurstOf(m))
<1>1. /\ m \in Models /\ inflight[m] = MaxInflightPerModel
      /\ UNCHANGED inflight
    BY GrantEffect DEF PolicyInv
<1>2. /\ policies' = [policies EXCEPT ![m] = IF E = {chosen} THEN NoPolicy ELSE after]
      /\ UNCHANGED nextSequence
    BY DEF ReleaseGrants
<1>3. E # {} /\ E \in SUBSET Entry
    BY DEF ReleaseGrants, PolicyInv, SlotInv, QueueInv, TypeOK, WaitingFor
<1>4. ASSUME after \notin {NoPolicy, NoBurst} PROVE after.queuedThrough < nextSequence
    <2>1. CASE after = BurstOf(m)
        BY <1>1, <1>4, <2>1 DEF PolicyInv, PolicyOnlyWhileSaturated, BurstOf
    <2>2. CASE after # BurstOf(m)
        <3>1. after.queuedThrough = HighestArrival(E)
            BY <1>4, <2>2 DEF BurstAfter
        <3>2. PICK e \in E : e.arrival = HighestArrival(E)
            BY <1>3, HighestArrivalIsArrival
        <3> QED BY <3>1, <3>2
                DEF WaitingFor, PolicyInv, SlotInv, QueueInv, QueueIsTheParkedThreads
    <2> QED BY <2>1, <2>2
<1>5. ASSUME NEW n \in Models, policies'[n] # NoPolicy
      PROVE  /\ inflight'[n] = MaxInflightPerModel
             /\ policies'[n] # NoBurst => policies'[n].queuedThrough < nextSequence'
    <2>1. CASE n = m
        <3>1. policies'[n] = after
            BY <1>1, <1>2, <1>5, <2>1 DEF PolicyInv, SlotInv, QueueInv, TypeOK
        <3> HIDE DEF after
        <3> QED BY <1>1, <1>2, <1>4, <1>5, <2>1, <3>1
    <2>2. CASE n # m
        <3>1. policies'[n] = policies[n]
            BY <1>2, <2>2 DEF PolicyInv, SlotInv, QueueInv, TypeOK
        <3> QED BY <1>1, <1>2, <1>5, <3>1 DEF PolicyInv, PolicyOnlyWhileSaturated
    <2> QED BY <2>1, <2>2
<1> QED BY <1>5 DEF PolicyOnlyWhileSaturated

\* Every step keeps the policy table inside the saturated models.
LEMMA PolicyInvNext == PolicyInv /\ [Next]_vars => PolicyInv'
<1> SUFFICES ASSUME PolicyInv, [Next]_vars PROVE PolicyOnlyWhileSaturated'
    BY SlotInvNext DEF PolicyInv
<1> USE DEF PolicyInv, PolicyOnlyWhileSaturated
<1>1. CASE UNCHANGED vars
    BY <1>1 DEF vars
<1>2. ASSUME NEW t \in Threads, NEW m \in Models, AdmitNow(t, m) PROVE PolicyOnlyWhileSaturated'
    BY <1>2, ConstantsAssumption DEF AdmitNow, HasFreeSlot, SlotInv, QueueInv, TypeOK
<1>3. ASSUME NEW t \in Threads, NEW m \in Models, Overflow(t, m) PROVE PolicyOnlyWhileSaturated'
    BY <1>3 DEF Overflow, vars
<1>4. ASSUME NEW t \in Threads, NEW m \in Models, NEW tag \in DOMAIN Priorities,
             NEW group \in Groups \cup {NoGroup}, Park(t, m, tag, group)
      PROVE  PolicyOnlyWhileSaturated'
    <2>1. /\ UNCHANGED <<policies, inflight>>
          /\ nextSequence' = nextSequence + 1 /\ nextSequence \in Int
        BY <1>4, ConstantsAssumption DEF Park, SlotInv, QueueInv, TypeOK
    <2>2. \A n \in Models : policies[n] \notin {NoPolicy, NoBurst} => policies[n].queuedThrough \in Int
        BY ConstantsAssumption DEF SlotInv, QueueInv, TypeOK, Burst, Arrivals
    <2> QED BY <2>1, <2>2
<1>5. ASSUME NEW t \in Threads, Wake(t) PROVE PolicyOnlyWhileSaturated'
    BY <1>5 DEF Wake
<1>6. ASSUME NEW t \in Threads, TimeOut(t) PROVE PolicyOnlyWhileSaturated'
    BY <1>6 DEF TimeOut
<1>7. ASSUME NEW t \in Threads, ReleaseNoWaiter(t) PROVE PolicyOnlyWhileSaturated'
    <2>1. PICK m \in Models : m = slot[t]
        BY <1>7 DEF ReleaseNoWaiter, SlotInv, QueueInv, TypeOK, IdleNamesNoModel
    <2>2. Freed(m) < MaxInflightPerModel
        BY <2>1, ConstantsAssumption DEF Freed, SlotInv, SlotAccounting, QueueInv, TypeOK
    <2>3. /\ inflight' = [inflight EXCEPT ![m] = Freed(m)]
          /\ policies' = [policies EXCEPT ![m] = NoPolicy]
          /\ UNCHANGED nextSequence
        BY <1>7, <2>1, <2>2, ConstantsAssumption
        DEF ReleaseNoWaiter, Freed, SlotInv, QueueInv, TypeOK
    <2> QED BY <2>3 DEF SlotInv, QueueInv, TypeOK
<1> QED BY <1>1, <1>2, <1>3, <1>4, <1>5, <1>6, <1>7, PolicyInvReleaseGrants
        DEF Next, Admit, Release

\* The policy table holds no model that is not full, and no burst left behind
\* by time-outs can claim a later arrival.
THEOREM PolicyTableBounded == Spec => []PolicyOnlyWhileSaturated
<1>1. Init => PolicyInv
    BY SlotInvInit DEF Init, PolicyInv, PolicyOnlyWhileSaturated
<1>2. PolicyInv => PolicyOnlyWhileSaturated
    BY DEF PolicyInv
<1> QED BY <1>1, <1>2, PolicyInvNext, PTL DEF Spec

-----------------------------------------------------------------------------
(* The abstract pool of slots, step by step. *)

\* The variables of the pool as the controller's state gives them.
Owns == [t \in Threads |-> IF status[t] \in {"granted", "holding"} THEN slot[t] ELSE NoModel]
Wants == [t \in Threads |-> IF status[t] = "waiting" THEN slot[t] ELSE NoModel]

\* The pool's owners of a model are the controller's holders.
LEMMA PoolOwners ==
    ASSUME QueueInv, NEW m \in Models
    PROVE  Pool!Owners(m) = HoldersOf(m)
    BY ConstantsAssumption DEF Pool!Owners, HoldersOf, QueueInv, TypeOK, IdleNamesNoModel

\* The models' waiters are the threads with an entry in the queue.
LEMMA PoolWanting ==
    ASSUME QueueInv, NEW m \in Models
    PROVE  Pool!Wanting(m) = {} <=> WaitingFor(m) = {}
<1>1. ASSUME NEW t \in Pool!Wanting(m) PROVE \E e \in WaitingFor(m) : TRUE
    <2>1. t \in Threads /\ status[t] = "waiting" /\ slot[t] = m
        BY <1>1, ConstantsAssumption DEF Pool!Wanting
    <2> QED BY <2>1 DEF QueueInv, QueueIsTheParkedThreads, WaitingFor
<1>2. ASSUME NEW e \in WaitingFor(m) PROVE e.thread \in Pool!Wanting(m)
    BY <1>2 DEF Pool!Wanting, WaitingFor, QueueInv, TypeOK, QueueIsTheParkedThreads, Entry
<1> QED BY <1>1, <1>2

\* The pool counts as the controller does.
LEMMA PoolCardinality ==
    ASSUME NEW S
    PROVE  Pool!Cardinality(S) = Cardinality(S)
    BY DEF Pool!Cardinality, Cardinality

\* Admission with a free slot is the pool's Take.
LEMMA PoolAdmitNow ==
    ASSUME SlotInv, NEW t \in Threads, NEW m \in Models, AdmitNow(t, m)
    PROVE  Pool!Take(t, m)
<1>1. Pool!Free(t)
    BY DEF Pool!Free, AdmitNow
<1>2. Cardinality(Pool!Owners(m)) < MaxInflightPerModel /\ Pool!Wanting(m) = {}
    BY PoolOwners, PoolWanting DEF AdmitNow, HasFreeSlot, SlotInv, SlotAccounting
<1>3. Owns' = [Owns EXCEPT ![t] = m] /\ Wants' = Wants
    BY DEF Owns, Wants, AdmitNow, SlotInv, QueueInv, TypeOK
<1> QED BY <1>1, <1>2, <1>3, PoolCardinality DEF Pool!Take, Owns, Wants

\* Parking is the pool's Want.
LEMMA PoolPark ==
    ASSUME SlotInv, NEW t \in Threads, NEW m \in Models, NEW tag \in DOMAIN Priorities,
           NEW group \in Groups \cup {NoGroup}, Park(t, m, tag, group)
    PROVE  Pool!Want(t, m)
<1>1. Pool!Free(t)
    BY DEF Pool!Free, Park
<1>2. inflight[m] = MaxInflightPerModel
    BY ConstantsAssumption
    DEF Park, HasFreeSlot, SlotInv, WorkConserving, SlotAccounting, QueueInv, TypeOK
<1>3. Cardinality(Pool!Owners(m)) = MaxInflightPerModel
    BY <1>2, PoolOwners DEF SlotInv, SlotAccounting
<1>4. Owns' = Owns /\ Wants' = [Wants EXCEPT ![t] = m]
    BY DEF Owns, Wants, Park, SlotInv, QueueInv, TypeOK
<1> QED BY <1>1, <1>3, <1>4, PoolCardinality DEF Pool!Want, Owns, Wants

\* Timing out is the pool's GiveUp.
LEMMA PoolTimeOut ==
    ASSUME SlotInv, NEW t \in Threads, TimeOut(t)
    PROVE  Pool!GiveUp(t)
<1>1. Owns' = Owns /\ Wants' = [Wants EXCEPT ![t] = NoModel]
    BY DEF Owns, Wants, TimeOut, SlotInv, QueueInv, TypeOK
<1>2. Wants[t] # NoModel
    BY DEF Wants, TimeOut, SlotInv, QueueInv, IdleNamesNoModel
<1> QED BY <1>1, <1>2 DEF Pool!GiveUp, Owns, Wants

\* A grant is the pool's HandOver to the thread that is woken.
LEMMA PoolReleaseGrants ==
    ASSUME SlotInv, NEW t \in Threads, ReleaseGrants(t)
    PROVE  \E u \in Threads : Pool!HandOver(t, u)
<1> PICK m : m = slot[t]
    OBVIOUS
<1> DEFINE chosen == SelectNext(WaitingFor(m), BurstOf(m))
<1>1. m \in Models /\ status[t] = "holding" /\ WaitingFor(m) # {}
    BY DEF ReleaseGrants, SlotInv, QueueInv, TypeOK, IdleNamesNoModel
<1>2. PICK u \in Threads : u = chosen.thread /\ status[u] = "waiting" /\ slot[u] = m
    BY <1>1, ChosenIsParked DEF SlotInv
<1>3. /\ status' = [status EXCEPT ![t] = "idle", ![u] = "granted"]
      /\ slot' = [slot EXCEPT ![t] = NoModel]
    BY <1>2 DEF ReleaseGrants
<1> HIDE DEF chosen
<1>4. Owns[t] = m /\ Wants[u] = m /\ m # NoModel
    BY <1>1, <1>2, ConstantsAssumption DEF Owns, Wants
<1>5. Owns' = [Owns EXCEPT ![t] = NoModel, ![u] = m]
    BY <1>1, <1>2, <1>3 DEF Owns, SlotInv, QueueInv, TypeOK
<1>6. Wants' = [Wants EXCEPT ![u] = NoModel]
    BY <1>1, <1>2, <1>3 DEF Wants, SlotInv, QueueInv, TypeOK
<1> QED BY <1>4, <1>5, <1>6 DEF Pool!HandOver, Owns, Wants

\* A release without a waiter is the pool's GiveBack.
LEMMA PoolReleaseNoWaiter ==
    ASSUME SlotInv, NEW t \in Threads, ReleaseNoWaiter(t)
    PROVE  Pool!GiveBack(t)
<1> PICK m : m = slot[t]
    OBVIOUS
<1>1. m \in Models /\ status[t] = "holding"
    BY DEF ReleaseNoWaiter, SlotInv, QueueInv, TypeOK, IdleNamesNoModel
<1>2. WaitingFor(m) = {}
    <2>1. Freed(m) < MaxInflightPerModel
        BY <1>1, ConstantsAssumption DEF Freed, SlotInv, SlotAccounting, QueueInv, TypeOK
    <2> QED BY <1>1, <2>1, ConstantsAssumption
            DEF ReleaseNoWaiter, Freed, SlotInv, QueueInv, TypeOK
<1>3. Owns[t] = m /\ m # NoModel
    BY <1>1, ConstantsAssumption DEF Owns
<1>4. Pool!Wanting(m) = {}
    BY <1>1, <1>2, PoolWanting DEF SlotInv
<1>5. Owns' = [Owns EXCEPT ![t] = NoModel] /\ Wants' = Wants
    BY <1>1 DEF Owns, Wants, ReleaseNoWaiter, SlotInv, QueueInv, TypeOK
<1> QED BY <1>3, <1>4, <1>5 DEF Pool!GiveBack, Owns, Wants

\* Every step of the controller is a step of the pool, or changes nothing in it.
LEMMA PoolStep == SlotInv /\ [Next]_vars => [Pool!Next]_(Pool!poolVars)
<1> SUFFICES ASSUME SlotInv, [Next]_vars PROVE Pool!Next \/ UNCHANGED Pool!poolVars
    OBVIOUS
<1>1. ASSUME UNCHANGED vars PROVE UNCHANGED Pool!poolVars
    BY <1>1 DEF vars, Pool!poolVars
<1>2. ASSUME NEW t \in Threads, Wake(t) PROVE UNCHANGED Pool!poolVars
    BY <1>2 DEF Wake, Pool!poolVars, SlotInv, QueueInv, TypeOK
<1>3. ASSUME NEW t \in Threads, Admit(t) PROVE Pool!Next \/ UNCHANGED Pool!poolVars
    BY <1>1, <1>3, PoolAdmitNow, PoolPark DEF Admit, Overflow, Pool!Next
<1>4. ASSUME NEW t \in Threads, Release(t) PROVE Pool!Next
    BY <1>4, PoolReleaseGrants, PoolReleaseNoWaiter DEF Release, Pool!Next
<1>5. ASSUME NEW t \in Threads, TimeOut(t) PROVE Pool!Next
    BY <1>5, PoolTimeOut DEF Pool!Next
<1> QED BY <1>1, <1>2, <1>3, <1>4, <1>5 DEF Next

\* The controller implements the pool of slots: strict caps, no slot idle while
\* somebody wants it, and hand-over in the step that gives the slot back.
THEOREM ImplementsSlotPool == Spec => PoolSpec
<1>1. Init => Pool!Init
    BY DEF Init, Pool!Init
<1> QED BY <1>1, PoolStep, SlotInvAlways, PTL DEF Spec, PoolSpec, Pool!Spec

-----------------------------------------------------------------------------
(* The two threads of a request: Router. *)

Places == {"idle", "admitting", "head", "body", "stream", "teardown", "joining", "done"}
Statuses == {"none", "head", "200", "400", "502", "503", "aborted"}
Relays == [headersReady : BOOLEAN, finished : BOOLEAN, succeeded : BOOLEAN, cancelled : BOOLEAN,
           streaming : BOOLEAN, pending : Nat, whole : BOOLEAN]

RouterTypes ==
    /\ call \in [Threads -> Places]
    /\ model \in [Threads -> Models \cup {NoModel}]
    /\ relay \in [Threads -> Relays]
    /\ received \in [Threads -> Nat] /\ scanned \in [Threads -> Nat] /\ written \in [Threads -> Nat]
    /\ answer \in [Threads -> Statuses] /\ line \in [Threads -> Statuses]

\* A request that waits, or is served, names the model its thread's slot is of, and
\* the thread of one that is served holds the slot.
Seated(t) ==
    /\ call[t] = "admitting" => slot[t] = model[t]
    /\ call[t] \in {"head", "body", "stream"} /\ model[t] # NoModel
          => status[t] = "holding" /\ slot[t] = model[t]

\* Until the provider is dropped every chunk that came is written or pending, and a
\* clean end is the end of a call that is over.
Accounted(t) ==
    /\ call[t] \in {"head", "body"} => written[t] = 0 /\ scanned[t] = 0
    /\ call[t] \in {"head", "body", "stream"} =>
          /\ written[t] + relay[t].pending = received[t]
          /\ scanned[t] + relay[t].pending = received[t]
    /\ answer[t] = "200" => relay[t].finished /\ relay[t].succeeded /\ written[t] = received[t]

\* The conjuncts of OneLineWhenTheAnswerEnds, for a thread.
Lined(t) ==
    /\ line[t] = "none" <=> call[t] \in {"idle", "admitting", "head", "body", "stream"}
    /\ line[t] # "none" => answer[t] \in {line[t], "aborted"}
    /\ line[t] = "200" /\ answer[t] = "200" => scanned[t] = received[t]

ThreadInv(t) == Seated(t) /\ Accounted(t) /\ Lined(t)

RouterInv == QueueInv /\ RouterTypes /\ \A t \in Threads : ThreadInv(t)

LEMMA RouterInvInit == RouterInit => RouterInv
<1> SUFFICES ASSUME RouterInit PROVE RouterInv
    OBVIOUS
<1>1. QueueInv
    BY QueueInvInit DEF RouterInit
<1>2. RouterTypes
    BY DEF RouterInit, RouterTypes, Places, Statuses, Relays, NewRelay
<1>3. \A t \in Threads : ThreadInv(t)
    BY DEF RouterInit, NewRelay, ThreadInv, Seated, Accounted, Lined
<1> QED BY <1>1, <1>2, <1>3 DEF RouterInv

-----------------------------------------------------------------------------
(* What the admission does to the other threads, and what a step may touch. *)

\* What the step of a thread may do to the slots.
Admission(t) ==
    \/ UNCHANGED vars
    \/ \E m \in Models : AdmitNow(t, m)
    \/ \E m \in Models, tag \in DOMAIN Priorities, group \in Groups \cup {NoGroup} :
          Park(t, m, tag, group)
    \/ Wake(t) \/ TimeOut(t) \/ Release(t)

LEMMA AdmissionIsNext ==
    ASSUME NEW t \in Threads, Admission(t) PROVE [Next]_vars
BY DEF Admission, Next, Admit

\* A thread neither takes nor loses a slot by a step of another: at most it is granted
\* the slot it waits for.
LEMMA OthersKeepTheirSeats ==
    ASSUME QueueInv, NEW t \in Threads, Admission(t), NEW u \in Threads, u # t
    PROVE  slot'[u] = slot[u] /\ (status[u] = "holding" => status'[u] = "holding")
<1> USE DEF QueueInv, TypeOK
<1>1. CASE UNCHANGED vars
    BY <1>1 DEF vars
<1>2. ASSUME NEW m \in Models, AdmitNow(t, m)
      PROVE  slot'[u] = slot[u] /\ (status[u] = "holding" => status'[u] = "holding")
    BY <1>2 DEF AdmitNow
<1>3. ASSUME NEW m \in Models, NEW tag \in DOMAIN Priorities, NEW group \in Groups \cup {NoGroup},
             Park(t, m, tag, group)
      PROVE  slot'[u] = slot[u] /\ (status[u] = "holding" => status'[u] = "holding")
    BY <1>3 DEF Park
<1>4. CASE Wake(t) \/ TimeOut(t) \/ ReleaseNoWaiter(t)
    BY <1>4 DEF Wake, TimeOut, ReleaseNoWaiter
<1>5. CASE ReleaseGrants(t)
    <2> DEFINE chosen == SelectNext(WaitingFor(slot[t]), BurstOf(slot[t]))
    <2>1. slot' = [slot EXCEPT ![t] = NoModel]
          /\ status' = [status EXCEPT ![t] = "idle", ![chosen.thread] = "granted"]
        BY <1>5 DEF ReleaseGrants
    <2>2. slot[t] \in Models
        BY <1>5 DEF ReleaseGrants, IdleNamesNoModel
    <2>3. chosen.thread \in Threads /\ status[chosen.thread] = "waiting"
        BY <1>5, <2>2, ChosenIsParked DEF ReleaseGrants
    <2> HIDE DEF chosen
    <2> QED BY <2>1, <2>3
<1> QED BY <1>1, <1>2, <1>3, <1>4, <1>5 DEF Admission, Release

\* A step touches the request of its own thread only.
Untouched(u) ==
    /\ call'[u] = call[u] /\ model'[u] = model[u] /\ relay'[u] = relay[u]
    /\ received'[u] = received[u] /\ scanned'[u] = scanned[u] /\ written'[u] = written[u]
    /\ answer'[u] = answer[u] /\ line'[u] = line[u]

LEMMA OthersKeepTheirInv ==
    ASSUME RouterInv, NEW t \in Threads, Admission(t), NEW u \in Threads, u # t, Untouched(u)
    PROVE  ThreadInv(u)'
<1>1. ThreadInv(u) /\ QueueInv
    BY DEF RouterInv
<1> QED BY <1>1, OthersKeepTheirSeats DEF Untouched, ThreadInv, Seated, Accounted, Lined

\* What a step of thread t has to show.
Kept(t) ==
    /\ RouterTypes' /\ Admission(t)
    /\ \A u \in Threads : u # t => Untouched(u)
    /\ ThreadInv(t)'

LEMMA KeptSuffices ==
    ASSUME RouterInv, NEW t \in Threads, Kept(t)
    PROVE  RouterInv'
<1>1. QueueInv'
    BY AdmissionIsNext, QueueInvNext DEF Kept, RouterInv
<1>2. \A u \in Threads : ThreadInv(u)'
    BY OthersKeepTheirInv DEF Kept
<1> QED BY <1>1, <1>2 DEF Kept, RouterInv

-----------------------------------------------------------------------------
(* Requests come and go. *)

\* The step leaves thread t, and t only, at these values.
Sets(t, where, m, r, came, seen, sent, reply, recorded) ==
    /\ call' = [call EXCEPT ![t] = where] /\ model' = [model EXCEPT ![t] = m]
    /\ relay' = [relay EXCEPT ![t] = r]
    /\ received' = [received EXCEPT ![t] = came] /\ scanned' = [scanned EXCEPT ![t] = seen]
    /\ written' = [written EXCEPT ![t] = sent]
    /\ answer' = [answer EXCEPT ![t] = reply] /\ line' = [line EXCEPT ![t] = recorded]

\* ThreadInv of the values a step leaves.
Fits(t, where, m, r, came, seen, sent, reply, recorded) ==
    /\ where = "admitting" => slot'[t] = m
    /\ where \in {"head", "body", "stream"} /\ m # NoModel
          => status'[t] = "holding" /\ slot'[t] = m
    /\ where \in {"head", "body"} => sent = 0 /\ seen = 0
    /\ where \in {"head", "body", "stream"} => sent + r.pending = came /\ seen + r.pending = came
    /\ reply = "200" => r.finished /\ r.succeeded /\ sent = came
    /\ recorded = "none" <=> where \in {"idle", "admitting", "head", "body", "stream"}
    /\ recorded # "none" => reply \in {recorded, "aborted"}
    /\ recorded = "200" /\ reply = "200" => seen = came

LEMMA SetsKeeps ==
    ASSUME RouterTypes, NEW t \in Threads, Admission(t), NEW where \in Places,
           NEW m \in Models \cup {NoModel}, NEW r \in Relays, NEW came \in Nat, NEW seen \in Nat,
           NEW sent \in Nat, NEW reply \in Statuses, NEW recorded \in Statuses,
           Sets(t, where, m, r, came, seen, sent, reply, recorded),
           Fits(t, where, m, r, came, seen, sent, reply, recorded)
    PROVE  Kept(t)
<1>1. /\ call'[t] = where /\ model'[t] = m /\ relay'[t] = r
      /\ received'[t] = came /\ scanned'[t] = seen /\ written'[t] = sent
      /\ answer'[t] = reply /\ line'[t] = recorded
    BY DEF Sets, RouterTypes
<1>2. \A u \in Threads : u # t => Untouched(u)
    BY DEF Sets, RouterTypes, Untouched
<1>3. RouterTypes'
    BY DEF Sets, RouterTypes
<1>4. ThreadInv(t)'
    BY <1>1 DEF Fits, ThreadInv, Seated, Accounted, Lined
<1> QED BY <1>2, <1>3, <1>4 DEF Kept

LEMMA PendingKeeps ==
    ASSUME RouterTypes, NEW t \in Threads, Admission(t), NEW where \in {"idle", "admitting", "head"},
           NEW m \in Models \cup {NoModel}, Pending(t, m, where),
           where = "admitting" => slot'[t] = m,
           where = "head" /\ m # NoModel => status'[t] = "holding" /\ slot'[t] = m
    PROVE  Kept(t)
<1>1. NewRelay \in Relays /\ NewRelay.pending = 0
    BY DEF NewRelay, Relays
<1>2. where \in Places /\ "none" \in Statuses /\ where \notin {"body", "stream"}
    BY DEF Places, Statuses
<1>3. Sets(t, where, m, NewRelay, 0, 0, 0, "none", "none")
    BY DEF Pending, Opens, Records, Sets
<1>4. Fits(t, where, m, NewRelay, 0, 0, 0, "none", "none")
    BY <1>1, <1>2 DEF Fits
<1> QED BY <1>1, <1>2, <1>3, <1>4, SetsKeeps

LEMMA RefusalKeeps ==
    ASSUME RouterTypes, NEW t \in Threads, Admission(t), NEW m \in Models \cup {NoModel},
           NEW code \in {"400", "503"}, Refuses(t, m, code)
    PROVE  Kept(t)
<1>1. NewRelay \in Relays
    BY DEF NewRelay, Relays
<1>2. "done" \in Places /\ code \in Statuses
    BY DEF Places, Statuses
<1>3. Sets(t, "done", m, NewRelay, 0, 0, 0, code, code)
    BY DEF Refuses, Opens, Records, Sets
<1>4. Fits(t, "done", m, NewRelay, 0, 0, 0, code, code)
    BY DEF Fits
<1> QED BY <1>1, <1>2, <1>3, <1>4, SetsKeeps

LEMMA TakeKeeps ==
    ASSUME RouterInv, NEW t \in Threads, Take(t)
    PROVE  Kept(t)
<1>0. RouterTypes /\ TypeOK
    BY DEF RouterInv, QueueInv
<1>1. CASE TakeGet(t)
    BY <1>0, <1>1, PendingKeeps DEF TakeGet, Admission
<1>2. CASE RefusePost(t)
    BY <1>0, <1>2, RefusalKeeps DEF RefusePost, Admission
<1>3. ASSUME NEW m \in Models, AdmitNow(t, m), Pending(t, m, "head") PROVE Kept(t)
    <2>1. status'[t] = "holding" /\ slot'[t] = m /\ Admission(t)
        BY <1>0, <1>3 DEF AdmitNow, TypeOK, Admission
    <2> QED BY <1>0, <1>3, <2>1, PendingKeeps
<1>4. ASSUME NEW m \in Models, Overflow(t, m), Refuses(t, m, "503") PROVE Kept(t)
    <2>1. Admission(t)
        BY <1>4 DEF Overflow, Admission
    <2> QED BY <1>0, <1>4, <2>1, RefusalKeeps
<1>5. ASSUME NEW m \in Models, NEW tag \in DOMAIN Priorities, NEW group \in Groups \cup {NoGroup},
             Park(t, m, tag, group), Pending(t, m, "admitting")
      PROVE  Kept(t)
    <2>1. slot'[t] = m /\ Admission(t)
        BY <1>0, <1>5 DEF Park, TypeOK, Admission
    <2> QED BY <1>0, <1>5, <2>1, PendingKeeps
<1>6. CASE TakePost(t)
    BY <1>3, <1>4, <1>5, <1>6 DEF TakePost
<1> QED BY <1>1, <1>2, <1>6 DEF Take

LEMMA AdmittedKeeps ==
    ASSUME RouterInv, NEW t \in Threads, Admitted(t) \/ TimedOut(t) \/ Returns(t)
    PROVE  Kept(t)
<1>0. RouterTypes /\ TypeOK /\ model[t] \in Models \cup {NoModel}
    BY DEF RouterInv, QueueInv, RouterTypes
<1>1. CASE Admitted(t)
    <2>1. slot[t] = model[t]
        BY <1>1 DEF Admitted, RouterInv, ThreadInv, Seated
    <2>2. status'[t] = "holding" /\ slot'[t] = model[t] /\ Admission(t) /\ Pending(t, model[t], "head")
        BY <1>0, <1>1, <2>1 DEF Admitted, Wake, TypeOK, Admission
    <2> QED BY <1>0, <2>2, PendingKeeps
<1>2. CASE TimedOut(t)
    <2>1. Admission(t) /\ Refuses(t, model[t], "503")
        BY <1>2 DEF TimedOut, Admission
    <2> QED BY <1>0, <2>1, RefusalKeeps
<1>3. CASE Returns(t)
    <2>1. Admission(t) /\ Pending(t, NoModel, "idle")
        BY <1>3 DEF Returns, Admission
    <2> QED BY <1>0, <2>1, PendingKeeps
<1> QED BY <1>1, <1>2, <1>3

-----------------------------------------------------------------------------
(* The upstream thread. *)

\* The state of the request of thread t, for the steps that change a part of it.
LEMMA Before ==
    ASSUME RouterInv, NEW t \in Threads
    PROVE  /\ RouterTypes /\ relay[t] \in Relays /\ relay[t].pending \in Nat
           /\ call[t] \in Places /\ model[t] \in Models \cup {NoModel}
           /\ received[t] \in Nat /\ scanned[t] \in Nat /\ written[t] \in Nat
           /\ answer[t] \in Statuses /\ line[t] \in Statuses
           /\ Seated(t) /\ Accounted(t) /\ Lined(t)
BY DEF RouterInv, RouterTypes, ThreadInv, Relays

LEMMA UpstreamKeeps ==
    ASSUME RouterInv, NEW t \in Threads, Upstream(t) \/ UpstreamEnds(t)
    PROVE  Kept(t)
<1>0. /\ RouterTypes /\ relay[t] \in Relays /\ relay[t].pending \in Nat
      /\ call[t] \in Places /\ model[t] \in Models \cup {NoModel}
      /\ received[t] \in Nat /\ scanned[t] \in Nat /\ written[t] \in Nat
      /\ answer[t] \in Statuses /\ line[t] \in Statuses
      /\ Seated(t) /\ Accounted(t) /\ Lined(t)
    BY Before
<1>1. /\ ~ relay[t].finished /\ UNCHANGED <<status, slot>> /\ Admission(t)
      /\ UNCHANGED <<call, model, scanned, written, answer, line>>
    BY DEF Upstream, UpstreamHead, UpstreamChunk, UpstreamEnds, UpstreamBusy, vars, Admission
<1>2. answer[t] # "200"
    BY <1>0, <1>1 DEF Accounted
<1>3. PICK r \in Relays, came \in Nat :
         /\ relay' = [relay EXCEPT ![t] = r] /\ received' = [received EXCEPT ![t] = came]
         /\ r.pending - relay[t].pending = came - received[t]
    <2>1. CASE UpstreamHead(t)
        <3>1. PICK whole \in BOOLEAN :
                 relay' = [relay EXCEPT ![t].headersReady = TRUE, ![t].whole = whole]
            BY <2>1 DEF UpstreamHead
        <3> DEFINE r == [relay[t] EXCEPT !.headersReady = TRUE, !.whole = whole]
        <3>2. r \in Relays /\ r.pending = relay[t].pending
            BY <1>0 DEF Relays
        <3>3. relay' = [relay EXCEPT ![t] = r]
            BY <3>1, <1>0 DEF RouterTypes
        <3>4. received' = [received EXCEPT ![t] = received[t]]
            BY <2>1, <1>0 DEF UpstreamHead, RouterTypes
        <3>5. r.pending - relay[t].pending = (received[t]) - received[t] /\ received[t] \in Nat
            BY <1>0, <3>2
        <3> HIDE DEF r
        <3> USE <3>2, <3>5
        <3> WITNESS r \in Relays, received[t] \in Nat
        <3> QED BY <3>3, <3>4, <3>5
    <2>2. CASE UpstreamChunk(t)
        <3> DEFINE r == [relay[t] EXCEPT !.pending = @ + 1]
        <3>2. r \in Relays /\ r.pending = relay[t].pending + 1
            BY <1>0 DEF Relays
        <3>3. relay' = [relay EXCEPT ![t] = r]
            BY <2>2, <1>0 DEF RouterTypes, UpstreamChunk
        <3>4. received' = [received EXCEPT ![t] = received[t] + 1]
            BY <2>2 DEF UpstreamChunk
        <3>5. r.pending - relay[t].pending = (received[t] + 1) - received[t] /\ received[t] + 1 \in Nat
            BY <1>0, <3>2
        <3> HIDE DEF r
        <3> USE <3>2, <3>5
        <3> WITNESS r \in Relays, received[t] + 1 \in Nat
        <3> QED BY <3>3, <3>4, <3>5
    <2>3. CASE UpstreamEnds(t)
        <3>1. PICK succeeded \in BOOLEAN, whole \in BOOLEAN :
                 relay' = [relay EXCEPT ![t].finished = TRUE,
                                        ![t].succeeded = succeeded,
                                        ![t].headersReady = @ \/ succeeded,
                                        ![t].whole = whole]
            BY <2>3 DEF UpstreamEnds
        <3> DEFINE r == [relay[t] EXCEPT !.finished = TRUE, !.succeeded = succeeded,
                                         !.headersReady = @ \/ succeeded, !.whole = whole]
        <3>2. r \in Relays /\ r.pending = relay[t].pending
            BY <1>0 DEF Relays
        <3>3. relay' = [relay EXCEPT ![t] = r]
            BY <3>1, <1>0 DEF RouterTypes
        <3>4. received' = [received EXCEPT ![t] = received[t]]
            BY <2>3, <1>0 DEF UpstreamEnds, RouterTypes
        <3>5. r.pending - relay[t].pending = (received[t]) - received[t] /\ received[t] \in Nat
            BY <1>0, <3>2
        <3> HIDE DEF r
        <3> USE <3>2, <3>5
        <3> WITNESS r \in Relays, received[t] \in Nat
        <3> QED BY <3>3, <3>4, <3>5
    <2> QED BY <2>1, <2>2, <2>3 DEF Upstream
<1>4. Sets(t, call[t], model[t], r, came, scanned[t], written[t], answer[t], line[t])
    BY <1>0, <1>1, <1>3 DEF Sets, RouterTypes
<1>5. r.pending \in Nat
    BY DEF Relays
<1>6. Fits(t, call[t], model[t], r, came, scanned[t], written[t], answer[t], line[t])
    BY <1>0, <1>1, <1>2, <1>3, <1>5 DEF Fits, Seated, Accounted, Lined
<1> QED BY <1>0, <1>1, <1>4, <1>6, SetsKeeps
-----------------------------------------------------------------------------
(* The listener thread, up to the end of the answer. *)

\* The call has no part in the answer any more: the relay's counts are free.
Emptied(t) == [relay[t] EXCEPT !.pending = 0]

LEMMA EmptiedIsARelay ==
    ASSUME RouterTypes, NEW t \in Threads
    PROVE  /\ Emptied(t) \in Relays /\ Emptied(t).pending = 0
           /\ Emptied(t).finished = relay[t].finished /\ Emptied(t).succeeded = relay[t].succeeded
           /\ relay' = [relay EXCEPT ![t].pending = 0] => relay' = [relay EXCEPT ![t] = Emptied(t)]
<1>1. relay[t] \in Relays
    BY DEF RouterTypes
<1> QED BY <1>1 DEF Emptied, Relays, RouterTypes

LEMMA ReturnsSlotIsAdmission ==
    ASSUME NEW t \in Threads, ReturnsSlot(t) PROVE Admission(t)
BY DEF ReturnsSlot, Admission

LEMMA HeadArrivesKeeps ==
    ASSUME RouterInv, NEW t \in Threads, HeadArrives(t)
    PROVE  Kept(t)
<1>0. /\ RouterTypes /\ relay[t] \in Relays /\ relay[t].pending \in Nat
      /\ call[t] \in Places /\ model[t] \in Models \cup {NoModel}
      /\ received[t] \in Nat /\ scanned[t] \in Nat /\ written[t] \in Nat
      /\ answer[t] \in Statuses /\ line[t] \in Statuses
      /\ relay[t].whole \in BOOLEAN /\ relay[t].succeeded \in BOOLEAN
      /\ Seated(t) /\ Accounted(t) /\ Lined(t)
    BY Before DEF Relays
<1> DEFINE r == [relay[t] EXCEPT !.streaming = ~relay[t].whole]
           where == IF relay[t].whole THEN "body" ELSE "stream"
           reply == IF relay[t].whole THEN answer[t] ELSE "head"
<1>1. /\ r \in Relays /\ r.pending = relay[t].pending
      /\ r.finished = relay[t].finished /\ r.succeeded = relay[t].succeeded
    BY <1>0 DEF Relays
<1>2. where \in Places /\ reply \in Statuses
    BY <1>0 DEF Places, Statuses
<1>3. relay' = [relay EXCEPT ![t] = r]
    BY <1>0 DEF HeadArrives, RouterTypes
<1>4. answer' = [answer EXCEPT ![t] = reply]
    BY <1>0 DEF HeadArrives, RouterTypes
<1>5. Sets(t, where, model[t], r, received[t], scanned[t], written[t], reply, line[t])
    BY <1>0, <1>3, <1>4 DEF HeadArrives, Sets, RouterTypes
<1>6. Admission(t) /\ UNCHANGED <<status, slot>> /\ call[t] = "head"
    BY DEF HeadArrives, Admission, vars
<1>7. where \in {"body", "stream"} /\ reply \in {answer[t], "head"}
    OBVIOUS
<1> HIDE DEF r, where, reply
<1>8. Fits(t, where, model[t], r, received[t], scanned[t], written[t], reply, line[t])
    BY <1>0, <1>1, <1>6, <1>7 DEF Fits, Seated, Accounted, Lined
<1> QED BY <1>0, <1>1, <1>2, <1>5, <1>6, <1>8, SetsKeeps

\* The answers that are given in one piece.
LEMMA AnswersKeep ==
    ASSUME RouterInv, NEW t \in Threads, SpawnFails(t) \/ Unreachable(t) \/ BodyArrives(t)
    PROVE  Kept(t)
<1>0. /\ RouterTypes /\ relay[t] \in Relays /\ relay[t].pending \in Nat
      /\ call[t] \in Places /\ model[t] \in Models \cup {NoModel}
      /\ received[t] \in Nat /\ scanned[t] \in Nat /\ written[t] \in Nat
      /\ answer[t] \in Statuses /\ line[t] \in Statuses
      /\ relay[t].whole \in BOOLEAN /\ relay[t].succeeded \in BOOLEAN
      /\ Seated(t) /\ Accounted(t) /\ Lined(t)
    BY Before DEF Relays
<1>1. "done" \in Places /\ "200" \in Statuses /\ "502" \in Statuses
    BY DEF Places, Statuses
<1>2. CASE SpawnFails(t) \/ Unreachable(t)
    <2>1. Admission(t)
        BY <1>2, ReturnsSlotIsAdmission DEF SpawnFails, Unreachable, Answers
    <2>2. Sets(t, "done", model[t], relay[t], received[t], scanned[t], written[t], "502", "502")
        BY <1>0, <1>2 DEF SpawnFails, Unreachable, Answers, Records, Sets, RouterTypes
    <2>3. Fits(t, "done", model[t], relay[t], received[t], scanned[t], written[t], "502", "502")
        BY DEF Fits
    <2> QED BY <1>0, <1>1, <2>1, <2>2, <2>3, SetsKeeps
<1>3. CASE BodyArrives(t)
    <2>1. Admission(t)
        BY <1>3, ReturnsSlotIsAdmission DEF BodyArrives, Answers
    <2>2. /\ Emptied(t) \in Relays /\ Emptied(t).pending = 0
          /\ Emptied(t).finished = relay[t].finished /\ Emptied(t).succeeded = relay[t].succeeded
          /\ relay' = [relay EXCEPT ![t] = Emptied(t)]
        BY <1>0, <1>3, EmptiedIsARelay DEF BodyArrives
    <2>3. call[t] = "body" /\ relay[t].finished
        BY <1>3 DEF BodyArrives
    <2>4. CASE relay[t].succeeded
        <3>1. Sets(t, "done", model[t], Emptied(t), received[t], relay[t].pending, relay[t].pending, "200", "200")
            BY <1>0, <1>3, <2>2, <2>4 DEF BodyArrives, Answers, Records, Sets, RouterTypes
        <3>2. relay[t].pending = received[t]
            BY <1>0, <2>3 DEF Accounted
        <3>3. Fits(t, "done", model[t], Emptied(t), received[t], relay[t].pending, relay[t].pending, "200", "200")
            BY <2>2, <2>3, <2>4, <3>2 DEF Fits
        <3> QED BY <1>0, <1>1, <2>1, <2>2, <3>1, <3>3, SetsKeeps
    <2>5. CASE ~ relay[t].succeeded
        <3>0. UNCHANGED <<written, scanned, model, received>> /\ Answers(t, "502")
            BY <1>3, <2>5 DEF BodyArrives
        <3>1. Sets(t, "done", model[t], Emptied(t), received[t], scanned[t], written[t], "502", "502")
            BY <1>0, <2>2, <3>0 DEF Answers, Records, Sets, RouterTypes
        <3>2. Fits(t, "done", model[t], Emptied(t), received[t], scanned[t], written[t], "502", "502")
            BY DEF Fits
        <3> QED BY <1>0, <1>1, <2>1, <2>2, <3>1, <3>2, SetsKeeps
    <2> QED BY <2>4, <2>5
<1> QED BY <1>2, <1>3

-----------------------------------------------------------------------------
(* The stream. *)

LEMMA ProvideChunkKeeps ==
    ASSUME RouterInv, NEW t \in Threads, ProvideChunk(t)
    PROVE  Kept(t)
<1>0. /\ RouterTypes /\ relay[t] \in Relays /\ relay[t].pending \in Nat
      /\ call[t] \in Places /\ model[t] \in Models \cup {NoModel}
      /\ received[t] \in Nat /\ scanned[t] \in Nat /\ written[t] \in Nat
      /\ answer[t] \in Statuses /\ line[t] \in Statuses
      /\ Seated(t) /\ Accounted(t) /\ Lined(t)
    BY Before
<1> DEFINE seen == scanned[t] + relay[t].pending
           sent == written[t] + relay[t].pending
<1>1. /\ Emptied(t) \in Relays /\ Emptied(t).pending = 0
      /\ Emptied(t).finished = relay[t].finished /\ Emptied(t).succeeded = relay[t].succeeded
      /\ relay' = [relay EXCEPT ![t] = Emptied(t)]
    BY <1>0, EmptiedIsARelay DEF ProvideChunk
<1>2. Admission(t) /\ UNCHANGED <<status, slot>> /\ call[t] = "stream"
    BY DEF ProvideChunk, Admission, vars
<1>3. Sets(t, call[t], model[t], Emptied(t), received[t], seen, sent, answer[t], line[t])
    BY <1>0, <1>1 DEF ProvideChunk, Feeds, Sets, RouterTypes
<1>4. seen = received[t] /\ sent = received[t]
    BY <1>0, <1>2 DEF Accounted
<1> HIDE DEF seen, sent
<1>5. Fits(t, call[t], model[t], Emptied(t), received[t], seen, sent, answer[t], line[t])
    BY <1>0, <1>1, <1>2, <1>4 DEF Fits, Seated, Accounted, Lined
<1> QED BY <1>0, <1>1, <1>2, <1>3, <1>4, <1>5, SetsKeeps

LEMMA ProvideLastKeeps ==
    ASSUME RouterInv, NEW t \in Threads, ProvideLast(t)
    PROVE  Kept(t)
<1>0. /\ RouterTypes /\ relay[t] \in Relays /\ relay[t].pending \in Nat
      /\ call[t] \in Places /\ model[t] \in Models \cup {NoModel}
      /\ received[t] \in Nat /\ scanned[t] \in Nat /\ written[t] \in Nat
      /\ answer[t] \in Statuses /\ line[t] \in Statuses
      /\ Seated(t) /\ Accounted(t) /\ Lined(t)
    BY Before
<1> DEFINE seen == scanned[t] + relay[t].pending
           sent == written[t] + relay[t].pending
           end == IF relay[t].succeeded THEN "200" ELSE "aborted"
<1>1. /\ Emptied(t) \in Relays /\ Emptied(t).pending = 0
      /\ Emptied(t).finished = relay[t].finished /\ Emptied(t).succeeded = relay[t].succeeded
      /\ relay' = [relay EXCEPT ![t] = Emptied(t)]
    BY <1>0, EmptiedIsARelay DEF ProvideLast
<1>2. Admission(t) /\ call[t] = "stream" /\ relay[t].finished
    BY ReturnsSlotIsAdmission DEF ProvideLast, DropsProvider
<1>3. Sets(t, "teardown", model[t], Emptied(t), received[t], seen, sent, end, "200")
    BY <1>0, <1>1 DEF ProvideLast, DropsProvider, Records, Feeds, Sets, RouterTypes
<1>4. seen = received[t] /\ sent = received[t]
    BY <1>0, <1>2 DEF Accounted
<1>5. end \in {"200", "aborted"} /\ (end = "200" => relay[t].succeeded)
    OBVIOUS
<1>6. "teardown" \in Places /\ "200" \in Statuses /\ "aborted" \in Statuses
    BY DEF Places, Statuses
<1> HIDE DEF seen, sent, end
<1>7. Fits(t, "teardown", model[t], Emptied(t), received[t], seen, sent, end, "200")
    BY <1>0, <1>1, <1>2, <1>4, <1>5 DEF Fits
<1>8. end \in Statuses
    BY <1>5, <1>6
<1> QED BY <1>0, <1>1, <1>2, <1>3, <1>4, <1>6, <1>7, <1>8, SetsKeeps

\* The client is gone: the line is written, the answer is cut.
LEMMA AbortsKeep ==
    ASSUME RouterInv, NEW t \in Threads, WriteFails(t) \/ ClientLeaves(t)
    PROVE  Kept(t)
<1>0. /\ RouterTypes /\ relay[t] \in Relays /\ relay[t].pending \in Nat
      /\ call[t] \in Places /\ model[t] \in Models \cup {NoModel}
      /\ received[t] \in Nat /\ scanned[t] \in Nat /\ written[t] \in Nat
      /\ answer[t] \in Statuses /\ line[t] \in Statuses
      /\ Seated(t) /\ Accounted(t) /\ Lined(t)
    BY Before
<1>1. Admission(t)
    BY ReturnsSlotIsAdmission DEF WriteFails, ClientLeaves, DropsProvider
<1>2. "teardown" \in Places /\ "200" \in Statuses /\ "aborted" \in Statuses
    BY DEF Places, Statuses
<1>3. CASE WriteFails(t)
    <2> DEFINE r == [relay[t] EXCEPT !.pending = 0, !.cancelled = TRUE]
               seen == scanned[t] + relay[t].pending
    <2>0. seen \in Nat
        BY <1>0
    <2>1. r \in Relays
        BY <1>0 DEF Relays
    <2>2. relay' = [relay EXCEPT ![t] = r]
        BY <1>0, <1>3 DEF WriteFails, RouterTypes
    <2>3. Sets(t, "teardown", model[t], r, received[t], seen, written[t], "aborted", "200")
        BY <1>0, <1>3, <2>2 DEF WriteFails, DropsProvider, Records, Feeds, Sets, RouterTypes
    <2> HIDE DEF r, seen
    <2>4. Fits(t, "teardown", model[t], r, received[t], seen, written[t], "aborted", "200")
        BY DEF Fits
    <2> QED BY <1>0, <1>1, <1>2, <2>0, <2>1, <2>3, <2>4, SetsKeeps
<1>4. CASE ClientLeaves(t)
    <2>1. Sets(t, "teardown", model[t], relay[t], received[t], scanned[t], written[t], "aborted", "200")
        BY <1>0, <1>4 DEF ClientLeaves, DropsProvider, Records, Sets, RouterTypes
    <2>2. Fits(t, "teardown", model[t], relay[t], received[t], scanned[t], written[t], "aborted", "200")
        BY DEF Fits
    <2> QED BY <1>0, <1>1, <1>2, <2>1, <2>2, SetsKeeps
<1> QED BY <1>3, <1>4

LEMMA TeardownKeeps ==
    ASSUME RouterInv, NEW t \in Threads, CancelCall(t) \/ Join(t)
    PROVE  Kept(t)
<1>0. /\ RouterTypes /\ relay[t] \in Relays /\ relay[t].pending \in Nat
      /\ call[t] \in Places /\ model[t] \in Models \cup {NoModel}
      /\ received[t] \in Nat /\ scanned[t] \in Nat /\ written[t] \in Nat
      /\ answer[t] \in Statuses /\ line[t] \in Statuses
      /\ Seated(t) /\ Accounted(t) /\ Lined(t)
    BY Before
<1>1. Admission(t) /\ call[t] \in {"teardown", "joining"}
    BY DEF CancelCall, Join, Admission
<1> DEFINE r == [relay[t] EXCEPT !.cancelled = TRUE]
<1>2. /\ r \in Relays /\ r.finished = relay[t].finished /\ r.succeeded = relay[t].succeeded
    BY <1>0 DEF Relays
<1>3. PICK where \in {"joining", "done"}, r1 \in {r, relay[t]} :
         Sets(t, where, model[t], r1, received[t], scanned[t], written[t], answer[t], line[t])
    <2>1. CASE CancelCall(t)
        <3>1. relay' = [relay EXCEPT ![t] = r]
            BY <1>0, <2>1 DEF CancelCall, RouterTypes
        <3>2. Sets(t, "joining", model[t], r, received[t], scanned[t], written[t], answer[t], line[t])
            BY <1>0, <2>1, <3>1 DEF CancelCall, Sets, RouterTypes
        <3> HIDE DEF r
        <3> QED BY <3>2
    <2>2. CASE Join(t)
        <3>1. Sets(t, "done", model[t], relay[t], received[t], scanned[t], written[t], answer[t], line[t])
            BY <1>0, <2>2 DEF Join, Sets, RouterTypes
        <3> HIDE DEF r
        <3> QED BY <3>1
    <2> QED BY <2>1, <2>2
<1> HIDE DEF r
<1>4. r1 \in Relays /\ r1.finished = relay[t].finished /\ r1.succeeded = relay[t].succeeded
    BY <1>0, <1>2
<1>5. where \in Places
    BY DEF Places
<1>6. Fits(t, where, model[t], r1, received[t], scanned[t], written[t], answer[t], line[t])
    BY <1>0, <1>1, <1>4 DEF Fits, Seated, Accounted, Lined
<1> QED BY <1>0, <1>1, <1>3, <1>4, <1>5, <1>6, SetsKeeps

-----------------------------------------------------------------------------
(* The router. *)

LEMMA RouterInvStep ==
    ASSUME RouterInv, [RouterNext]_RouterVars
    PROVE  RouterInv'
<1>1. CASE UNCHANGED RouterVars
    <2>1. UNCHANGED vars
        BY <1>1 DEF RouterVars
    <2>2. QueueInv'
        BY <2>1, QueueInvNext DEF RouterInv
    <2>3. RouterTypes'
        BY <1>1 DEF RouterInv, RouterTypes, RouterVars, relayVars
    <2>4. \A t \in Threads : ThreadInv(t)'
        BY <1>1 DEF RouterInv, ThreadInv, Seated, Accounted, Lined, RouterVars, relayVars, vars
    <2> QED BY <2>2, <2>3, <2>4 DEF RouterInv
<1>2. ASSUME NEW t \in Threads,
             \/ Take(t) \/ Admitted(t) \/ TimedOut(t)
             \/ SpawnFails(t) \/ Upstream(t) \/ UpstreamEnds(t)
             \/ Serve(t) \/ WriteFails(t) \/ ClientLeaves(t)
      PROVE  Kept(t)
    BY <1>2, TakeKeeps, AdmittedKeeps, UpstreamKeeps, HeadArrivesKeeps, AnswersKeep,
       ProvideChunkKeeps, ProvideLastKeeps, AbortsKeep, TeardownKeeps DEF Serve
<1> QED BY <1>1, <1>2, KeptSuffices DEF RouterNext

LEMMA RouterInvHolds == RouterSpec => []RouterInv
<1>1. RouterInv /\ [RouterNext]_RouterVars => RouterInv'
    BY RouterInvStep
<1> QED BY RouterInvInit, <1>1, PTL DEF RouterSpec

\* What the client is told was the whole answer is the whole answer, whatever the
\* upstream, the client and the other requests do.
THEOREM CleanEndsAreWhole == RouterSpec => []CleanEndIsTheWholeAnswer
<1>1. RouterInv => CleanEndIsTheWholeAnswer
    BY DEF RouterInv, ThreadInv, Accounted, CleanEndIsTheWholeAnswer
<1> QED BY <1>1, RouterInvHolds, PTL

\* Every POST that an upstream works on holds a slot of its model.
THEOREM NoWorkWithoutASlot == RouterSpec => []UpstreamWorkIsAdmitted
<1>1. RouterInv => UpstreamWorkIsAdmitted
    BY DEF RouterInv, ThreadInv, Seated, UpstreamWorkIsAdmitted, UpstreamBusy, Working
<1> QED BY <1>1, RouterInvHolds, PTL

\* The ledger has one line of each request, and it agrees with what the client got.
THEOREM LinesAreWrittenOnce == RouterSpec => []OneLineWhenTheAnswerEnds
<1>1. RouterInv => OneLineWhenTheAnswerEnds
    BY DEF RouterInv, ThreadInv, Lined, OneLineWhenTheAnswerEnds
<1> QED BY <1>1, RouterInvHolds, PTL

-----------------------------------------------------------------------------
(* The ledger and its viewer: what a poll makes of the pieces of a chunk, then *)
(* the invariant of LedgerSpec, for every size of a line, every ceiling and    *)
(* every number of files, requests and kills.                                  *)

Pieces == [of : Nat, part : Nat, newline : BOOLEAN]
Views == [carry : Seq(Pieces), dropping : BOOLEAN, skipped : Nat, shown : Seq(Nat)]

\* What an accumulator has made of the first n pieces of a file, of which it knows since it
\* had skipped `since` lines: the records it shows and the lines it skipped are those of the
\* newlines, and it carries what came after the last of them, or is dropping it.
Viewed(pieces, n, acc, since) ==
    /\ RecordsAreCounted(acc.shown, pieces, n)
    /\ acc.dropping =>
          /\ acc.carry = <<>> /\ n - LastNewline(pieces, n) > CarryCeiling
          /\ Len(acc.shown) + (acc.skipped - since) = Cardinality(Newlines(pieces, n)) + 1
    /\ ~acc.dropping =>
          /\ acc.carry = SubSeq(pieces, LastNewline(pieces, n) + 1, n)
          /\ Len(acc.shown) + (acc.skipped - since) = Cardinality(Newlines(pieces, n))

LedgerTypes ==
    /\ requests \in Nat /\ files \in Nat
    /\ file = Absent \/ file \in [id : 1..files, pieces : Seq(Pieces)]
    /\ router \in [up : BOOLEAN, out : Nat, rest : Seq(Pieces)]
    /\ consumed \in Nat /\ shown \in Seq(Nat) /\ before \in Nat /\ followed \in 0..files
    /\ tail \in [carry : Seq(Pieces), dropping : BOOLEAN, skipped : Nat]
    /\ asked = Nothing \/ asked \in Nat \X Nat

\* What is still to be written has a file it goes to; a poll under way asked for what
\* follows the bytes consumed; nothing is known of a file of which nothing was read.
RestHasAFile == router.rest # <<>> => router.out # None
AsksForWhatFollows == asked # Nothing => asked[1] = consumed
BeginsWithNothing ==
    consumed = 0 => shown = <<>> /\ tail.carry = <<>> /\ ~tail.dropping /\ tail.skipped = before
FollowsTheFile ==
    followed = file.id /\ file # Absent =>
        consumed \in 0..Len(file.pieces) /\ Viewed(file.pieces, consumed, Seen, before)

LedgerInv ==
    LedgerTypes /\ RestHasAFile /\ AsksForWhatFollows /\ BeginsWithNothing /\ FollowsTheFile

LEMMA NewlineFacts ==
    ASSUME NEW p \in Seq(Pieces), NEW n \in 0..Len(p)
    PROVE  /\ Newlines(p, n) \subseteq 1..n /\ IsFiniteSet(Newlines(p, n))
           /\ Cardinality(Newlines(p, n)) \in Nat
           /\ LastNewline(p, n) \in Newlines(p, n) \cup {0} /\ LastNewline(p, n) \in 0..n
           /\ \A h \in Newlines(p, n) : h <= LastNewline(p, n)
<1> DEFINE S == Newlines(p, n)
<1>1. S \subseteq 1..n
    BY DEF Newlines
<1>2. IsFiniteSet(S) /\ Cardinality(S) \in Nat
    <2>1. IsFiniteSet(1..n)
        BY FS_Interval
    <2> QED BY <1>1, <2>1, FS_Subset, FS_CardinalityType
<1>3. \E k \in S \cup {0} : \A h \in S : h <= k
    <2> HIDE DEF S
    <2>1. CASE S = {}
        BY <2>1
    <2>2. CASE S # {}
        <3>1. S \in SUBSET Int
            BY <1>1
        <3>2. \E k \in S : \A h \in S : h <= k
            BY <1>2, <2>2, <3>1, FiniteMax
        <3> QED BY <3>2
    <2> QED BY <2>1, <2>2
<1>4. LastNewline(p, n) \in S \cup {0} /\ \A h \in S : h <= LastNewline(p, n)
    BY <1>3, Zenon DEF LastNewline
<1> HIDE DEF S
<1>5. LastNewline(p, n) \in 0..n
    <2>1. n \in Nat
        OBVIOUS
    <2>2. \A k \in S \cup {0} : k \in 0..n
        BY <1>1, <2>1
    <2> QED BY <1>4, <2>2
<1> QED BY <1>1, <1>2, <1>4, <1>5 DEF S

\* One more piece: another newline, the last one, or none.
LEMMA OneMorePiece ==
    ASSUME NEW p \in Seq(Pieces), NEW n \in Nat, n + 1 <= Len(p)
    PROVE  /\ p[n + 1].newline =>
                 /\ Newlines(p, n + 1) = Newlines(p, n) \cup {n + 1}
                 /\ LastNewline(p, n + 1) = n + 1
                 /\ Cardinality(Newlines(p, n + 1)) = Cardinality(Newlines(p, n)) + 1
           /\ ~p[n + 1].newline =>
                 Newlines(p, n + 1) = Newlines(p, n) /\ LastNewline(p, n + 1) = LastNewline(p, n)
<1>1. n \in 0..Len(p) /\ n + 1 \in 0..Len(p) /\ Len(p) \in Nat
    OBVIOUS
<1>2. 1..(n + 1) = 1..n \cup {n + 1}
    OBVIOUS
<1>3. ASSUME p[n + 1].newline
      PROVE  /\ Newlines(p, n + 1) = Newlines(p, n) \cup {n + 1}
             /\ LastNewline(p, n + 1) = n + 1
             /\ Cardinality(Newlines(p, n + 1)) = Cardinality(Newlines(p, n)) + 1
    <2>1. Newlines(p, n + 1) = Newlines(p, n) \cup {n + 1}
        BY <1>2, <1>3 DEF Newlines
    <2>2. LastNewline(p, n + 1) \in 0..(n + 1) /\ n + 1 <= LastNewline(p, n + 1)
        BY <1>1, <2>1, NewlineFacts
    <2>3. IsFiniteSet(Newlines(p, n)) /\ n + 1 \notin Newlines(p, n)
        BY <1>1, NewlineFacts
    <2>4. \A S, k : IsFiniteSet(S) /\ k \notin S => Cardinality(S \cup {k}) = Cardinality(S) + 1
        BY FS_AddElement
    <2>5. Cardinality(Newlines(p, n) \cup {n + 1}) = Cardinality(Newlines(p, n)) + 1
        BY ONLY <2>3, <2>4, Zenon
    <2>6. LastNewline(p, n + 1) = n + 1
        BY <2>2
    <2> QED BY ONLY <2>1, <2>5, <2>6, Zenon
<1>4. ASSUME ~p[n + 1].newline
      PROVE  Newlines(p, n + 1) = Newlines(p, n) /\ LastNewline(p, n + 1) = LastNewline(p, n)
    <2>1. Newlines(p, n + 1) = Newlines(p, n)
        BY <1>2, <1>4 DEF Newlines
    <2> QED BY <2>1, Zenon DEF LastNewline
<1> QED BY <1>3, <1>4

\* A run of pieces with one more.
LEMMA OneMoreOfARun ==
    ASSUME NEW p \in Seq(Pieces), NEW n \in Nat, n + 1 <= Len(p), NEW m \in 0..n
    PROVE  /\ Append(SubSeq(p, m + 1, n), p[n + 1]) = SubSeq(p, m + 1, n + 1)
           /\ Len(SubSeq(p, m + 1, n + 1)) = (n + 1) - m
           /\ SubSeq(p, m + 1, n + 1)[(n + 1) - m] = p[n + 1]
           /\ p[n + 1] \in Pieces
<1> DEFINE s == SubSeq(p, m + 1, n)
           r == SubSeq(p, m + 1, n + 1)
           x == p[n + 1]
<1>1. m \in Nat /\ n \in Nat /\ m <= n /\ n + 1 <= Len(p) /\ Len(p) \in Nat /\ x \in Pieces
    OBVIOUS
<1>2. /\ s \in Seq(Pieces) /\ Len(s) = n - m
      /\ \A k \in 1..(n - m) : s[k] = p[m + k]
    BY <1>1
<1>3. /\ r \in Seq(Pieces) /\ Len(r) = (n + 1) - m
      /\ \A k \in 1..((n + 1) - m) : r[k] = p[m + k]
    BY <1>1
<1> HIDE DEF s, r
<1>4. r[(n + 1) - m] = x
    <2>1. (n + 1) - m \in 1..((n + 1) - m) /\ m + ((n + 1) - m) = n + 1
        BY <1>1
    <2> QED BY <1>3, <2>1
<1> HIDE DEF x
<1>5. Append(s, x) = r
    <2> DEFINE t == Append(s, x)
    <2>1. /\ t \in Seq(Pieces) /\ Len(t) = (n + 1) - m
          /\ \A k \in 1..(n - m) : t[k] = s[k]
          /\ t[(n + 1) - m] = x
        <3>1. /\ t \in Seq(Pieces) /\ Len(t) = Len(s) + 1 /\ t[Len(s) + 1] = x
              /\ \A k \in 1..Len(s) : t[k] = s[k]
            BY ONLY <1>1, <1>2
        <3>2. Len(s) + 1 = (n + 1) - m
            BY ONLY <1>1, <1>2
        <3> HIDE DEF t
        <3> QED BY ONLY <1>2, <3>1, <3>2
    <2> HIDE DEF t
    <2>2. \A k \in 1..((n + 1) - m) : k \in 1..(n - m) \/ k = (n + 1) - m
        BY <1>1
    <2>3. \A k \in 1..((n + 1) - m) : t[k] = r[k]
        BY <1>2, <1>3, <1>4, <2>1, <2>2
    <2>4. t = r
        BY <1>3, <2>1, <2>3
    <2> QED BY <2>4 DEF t
<1> QED BY <1>1, <1>3, <1>4, <1>5 DEF s, r, x

\* The record of a whole line is that of its newline.
LEMMA WholeLinesRecord ==
    ASSUME NEW s, Intact(s), Len(s) \in Nat \ {0}
    PROVE  RecordOf(s) = s[Len(s)].of
BY DEF Intact, RecordOf, Line

\* The lines of the newlines before the last one are what they were.
LEMMA RecordsOfOneMore ==
    ASSUME NEW p \in Seq(Pieces), NEW n \in Nat, n + 1 <= Len(p), NEW s \in Seq(Nat),
           RecordsAreCounted(s, p, n), p[n + 1].newline
    PROVE  LET added == LineTo(p, n + 1) IN
           /\ ~Intact(added) \/ Overlong(added) => RecordsAreCounted(s, p, n + 1)
           /\ Intact(added) => RecordsAreCounted(Append(s, RecordOf(added)), p, n + 1)
<1> DEFINE added == LineTo(p, n + 1)
           N == Newlines(p, n)
           M == Newlines(p, n + 1)
<1>1. M = N \cup {n + 1} /\ N \subseteq 1..n
    <2>1. n \in 0..Len(p)
        OBVIOUS
    <2>2. N \subseteq 1..n
        BY <2>1, NewlineFacts
    <2>3. M = N \cup {n + 1}
        BY OneMorePiece
    <2> QED BY <2>2, <2>3
<1>2. PICK ends \in [DOMAIN s -> N] : AreRecordsOf(s, p, n, ends)
    BY DEF RecordsAreCounted
<1>3. /\ \A i, j \in DOMAIN s : i < j => ends[i] < ends[j]
      /\ \A i \in DOMAIN s :
            Intact(LineTo(p, ends[i])) /\ s[i] = RecordOf(LineTo(p, ends[i]))
      /\ \A k \in N :
            Intact(LineTo(p, k)) /\ ~Overlong(LineTo(p, k)) => \E i \in DOMAIN s : ends[i] = k
    BY <1>2 DEF AreRecordsOf
<1> HIDE DEF N, M, added
<1>4. ASSUME ~Intact(added) \/ Overlong(added) PROVE RecordsAreCounted(s, p, n + 1)
    <2>1. ends \in [DOMAIN s -> M]
        BY <1>1
    <2>2. \A k \in M : Intact(LineTo(p, k)) /\ ~Overlong(LineTo(p, k)) => \E i \in DOMAIN s : ends[i] = k
        BY <1>1, <1>3, <1>4 DEF added
    <2> QED BY <1>3, <2>1, <2>2 DEF RecordsAreCounted, AreRecordsOf, M
<1>5. ASSUME Intact(added) PROVE RecordsAreCounted(Append(s, RecordOf(added)), p, n + 1)
    <2> DEFINE l == Len(s) + 1
               t == Append(s, RecordOf(added))
    <2>1. /\ DOMAIN s = 1..Len(s) /\ Len(s) \in Nat /\ DOMAIN t = 1..l /\ t[l] = RecordOf(added)
          /\ \A i \in DOMAIN s : t[i] = s[i]
        OBVIOUS
    <2> HIDE DEF t
    <2> DEFINE more == [i \in DOMAIN t |-> IF i = l THEN n + 1 ELSE ends[i]]
    <2>2. more[l] = n + 1 /\ l \in DOMAIN t /\ DOMAIN t = DOMAIN s \cup {l} /\ l \notin DOMAIN s
        BY <2>1
    <2>3. \A i \in DOMAIN s : more[i] = ends[i] /\ ends[i] \in N /\ i < l /\ i \in Nat
        BY <2>1
    <2>4. more \in [DOMAIN t -> M]
        BY <1>1, <2>1
    <2> HIDE DEF more, l
    <2>5. \A i \in DOMAIN s : more[i] < n + 1
        <3>1. \A k \in N : k < n + 1
            BY <1>1
        <3> QED BY <2>3, <3>1
    <2>6. \A i, j \in DOMAIN t : i < j => more[i] < more[j]
        <3> SUFFICES ASSUME NEW i \in DOMAIN t, NEW j \in DOMAIN t, i < j PROVE more[i] < more[j]
            OBVIOUS
        <3>1. i # l
            BY <2>1, <2>2, <2>3 DEF l
        <3>2. i \in DOMAIN s
            BY <2>2, <3>1
        <3>3. CASE j = l
            BY <2>2, <2>5, <3>2, <3>3
        <3>4. CASE j # l
            BY <1>3, <2>2, <2>3, <3>2, <3>4
        <3> QED BY <3>3, <3>4
    <2>7. \A i \in DOMAIN t : Intact(LineTo(p, more[i])) /\ t[i] = RecordOf(LineTo(p, more[i]))
        <3> SUFFICES ASSUME NEW i \in DOMAIN t
                     PROVE  Intact(LineTo(p, more[i])) /\ t[i] = RecordOf(LineTo(p, more[i]))
            OBVIOUS
        <3>1. CASE i = l
            BY <1>5, <2>1, <2>2, <3>1 DEF added
        <3>2. CASE i \in DOMAIN s
            BY <1>3, <2>1, <2>3, <3>2
        <3> QED BY <2>2, <3>1, <3>2
    <2>8. \A k \in M : Intact(LineTo(p, k)) /\ ~Overlong(LineTo(p, k)) => \E i \in DOMAIN t : more[i] = k
        <3> SUFFICES ASSUME NEW k \in M, Intact(LineTo(p, k)) /\ ~Overlong(LineTo(p, k))
                     PROVE  \E i \in DOMAIN t : more[i] = k
            OBVIOUS
        <3>1. CASE k = n + 1
            BY <2>2, <3>1
        <3>2. CASE k \in N
            BY <1>3, <2>2, <2>3, <3>2
        <3> QED BY <1>1, <3>1, <3>2
    <2>9. RecordsAreCounted(t, p, n + 1)
        BY <2>4, <2>6, <2>7, <2>8 DEF RecordsAreCounted, AreRecordsOf, M
    <2> QED BY <2>9 DEF t
<1> QED BY <1>4, <1>5 DEF added

\* One piece more is taken: TakePiece keeps the view.
LEMMA ViewedStep ==
    ASSUME NEW p \in Seq(Pieces), NEW n \in Nat, n + 1 <= Len(p), NEW acc \in Views, NEW since \in Nat,
           Viewed(p, n, acc, since), LedgerAssumption
    PROVE  Viewed(p, n + 1, TakePiece(acc, p[n + 1]), since)
<1> DEFINE piece == p[n + 1]
           last == LastNewline(p, n)
           count == Cardinality(Newlines(p, n))
           after == TakePiece(acc, piece)
           added == LineTo(p, n + 1)
<1> SUFFICES Viewed(p, n + 1, after, since)
    OBVIOUS
<1>1. n \in 0..Len(p) /\ n + 1 \in 0..Len(p) /\ Len(p) \in Nat /\ (n + 1) - 1 = n
    OBVIOUS
<1>2. last \in 0..n /\ count \in Nat /\ CarryCeiling \in Nat
    BY <1>1, NewlineFacts DEF LedgerAssumption
<1>3. /\ acc.carry \in Seq(Pieces) /\ acc.dropping \in BOOLEAN /\ acc.skipped \in Nat
      /\ acc.shown \in Seq(Nat) /\ Len(acc.shown) \in Nat
      /\ acc = [carry |-> acc.carry, dropping |-> acc.dropping, skipped |-> acc.skipped, shown |-> acc.shown]
    BY DEF Views
<1>4. /\ RecordsAreCounted(acc.shown, p, n)
      /\ acc.dropping =>
            /\ acc.carry = <<>> /\ n - last > CarryCeiling
            /\ Len(acc.shown) + (acc.skipped - since) = count + 1
      /\ ~acc.dropping =>
            /\ acc.carry = SubSeq(p, last + 1, n)
            /\ Len(acc.shown) + (acc.skipped - since) = count
    BY DEF Viewed
<1>5. /\ Append(SubSeq(p, last + 1, n), piece) = SubSeq(p, last + 1, n + 1)
      /\ Len(SubSeq(p, last + 1, n + 1)) = (n + 1) - last
      /\ SubSeq(p, last + 1, n + 1)[(n + 1) - last] = piece
      /\ piece \in Pieces
    <2> HIDE DEF last
    <2> QED BY <1>2, OneMoreOfARun
<1>6. added = SubSeq(p, last + 1, n + 1)
    BY <1>1 DEF LineTo
<1>7. piece.newline \in BOOLEAN /\ piece.of \in Nat
    BY <1>5 DEF Pieces
<1> HIDE DEF last, piece, added, count
<1>8. CASE ~piece.newline
    <2>1. Newlines(p, n + 1) = Newlines(p, n) /\ LastNewline(p, n + 1) = last
        BY <1>8, OneMorePiece DEF piece, last
    <2>0. Cardinality(Newlines(p, n + 1)) = count
        BY ONLY <2>1, Zenon DEF count
    <2>2. RecordsAreCounted(acc.shown, p, n + 1)
        BY <1>4, <2>1, Zenon DEF RecordsAreCounted, AreRecordsOf
    <2>3. CASE acc.dropping
        <3>1. after = acc
            BY <1>8, <2>3 DEF TakePiece
        <3>2. (n + 1) - last > CarryCeiling
            BY <1>2, <1>4, <2>3
        <3> HIDE DEF after
        <3>3. Viewed(p, n + 1, acc, since)
            BY <1>4, <2>0, <2>1, <2>2, <2>3, <3>2 DEF Viewed
        <3> QED BY <3>1, <3>3
    <2>4. CASE ~acc.dropping
        <3>1. after = [acc EXCEPT !.carry = Append(acc.carry, piece)]
            BY <1>8, <2>4 DEF TakePiece
        <3>2. /\ after.carry = SubSeq(p, last + 1, n + 1) /\ ~after.dropping
              /\ after.skipped = acc.skipped /\ after.shown = acc.shown
            BY <1>3, <1>4, <1>5, <2>4, <3>1
        <3> HIDE DEF after
        <3> QED BY <1>4, <2>0, <2>1, <2>2, <2>4, <3>2 DEF Viewed
    <2> QED BY <2>3, <2>4
<1>9. CASE piece.newline
    <2>1. /\ LastNewline(p, n + 1) = n + 1
          /\ Cardinality(Newlines(p, n + 1)) = count + 1
        BY <1>9, OneMorePiece DEF piece, count
    <2>2. /\ ~Intact(added) \/ Overlong(added) => RecordsAreCounted(acc.shown, p, n + 1)
          /\ Intact(added) => RecordsAreCounted(Append(acc.shown, RecordOf(added)), p, n + 1)
        BY <1>3, <1>4, <1>9, RecordsOfOneMore DEF piece, added
    <2>3. SubSeq(p, LastNewline(p, n + 1) + 1, n + 1) = <<>>
        BY <1>1, <2>1
    <2>4. CASE acc.dropping
        <3>1. after = [acc EXCEPT !.dropping = FALSE]
            BY <1>9, <2>4 DEF TakePiece
        <3>2. /\ after.carry = <<>> /\ ~after.dropping
              /\ after.skipped = acc.skipped /\ after.shown = acc.shown
            BY <1>3, <1>4, <2>4, <3>1
        <3>3. Overlong(added)
            <4>1. Len(added) = (n + 1) - last
                BY <1>5, <1>6
            <4> QED BY <1>2, <1>4, <2>4, <4>1 DEF Overlong
        <3> HIDE DEF after
        <3>4. Len(after.shown) + (after.skipped - since) = Cardinality(Newlines(p, n + 1))
            BY <1>2, <1>3, <1>4, <2>1, <2>4, <3>2
        <3> QED BY <2>2, <2>3, <3>2, <3>3, <3>4 DEF Viewed
    <2>5. CASE ~acc.dropping
        <3>1. Append(acc.carry, piece) = added
            BY <1>4, <1>5, <1>6, <2>5
        <3>2. CASE Intact(added)
            <4>1. after = [acc EXCEPT !.carry = <<>>, !.shown = Append(acc.shown, piece.of)]
                BY <1>9, <2>5, <3>1, <3>2 DEF TakePiece
            <4>2. RecordOf(added) = piece.of
                <5>1. Len(added) \in Nat \ {0} /\ added[Len(added)] = piece
                    <6>1. Len(added) = (n + 1) - last
                        BY <1>5, <1>6
                    <6>2. (n + 1) - last \in Nat \ {0}
                        BY ONLY <1>2, n \in Nat
                    <6>3. added[(n + 1) - last] = piece
                        BY ONLY <1>5, <1>6
                    <6> QED BY ONLY <6>1, <6>2, <6>3
                <5> QED BY <3>2, <5>1, WholeLinesRecord
            <4>3. /\ after.carry = <<>> /\ ~after.dropping /\ after.skipped = acc.skipped
                  /\ after.shown = Append(acc.shown, RecordOf(added))
                BY <1>3, <2>5, <4>1, <4>2
            <4>4. Len(after.shown) = Len(acc.shown) + 1
                BY <1>3, <1>7, <4>2, <4>3
            <4> HIDE DEF after
            <4>5. Len(after.shown) + (after.skipped - since) = Cardinality(Newlines(p, n + 1))
                <5>1. Len(acc.shown) + (acc.skipped - since) = count
                    BY ONLY <1>4, <2>5
                <5> QED BY ONLY <1>2, <1>3, <2>1, <4>3, <4>4, <5>1, since \in Nat
            <4> QED BY <2>2, <2>3, <3>2, <4>3, <4>5 DEF Viewed
        <3>3. CASE ~Intact(added)
            <4>1. after = [acc EXCEPT !.carry = <<>>, !.skipped = acc.skipped + 1]
                BY <1>9, <2>5, <3>1, <3>3 DEF TakePiece
            <4>2. /\ after.carry = <<>> /\ ~after.dropping /\ after.skipped = acc.skipped + 1
                  /\ after.shown = acc.shown
                BY <1>3, <2>5, <4>1
            <4> HIDE DEF after
            <4>3. Len(after.shown) + (after.skipped - since) = Cardinality(Newlines(p, n + 1))
                <5>1. Len(acc.shown) + (acc.skipped - since) = count
                    BY ONLY <1>4, <2>5
                <5> QED BY ONLY <1>2, <1>3, <2>1, <4>2, <5>1, since \in Nat
            <4> QED BY <2>2, <2>3, <3>3, <4>2, <4>3 DEF Viewed
        <3> QED BY <3>2, <3>3
    <2> QED BY <2>4, <2>5
<1> QED BY <1>7, <1>8, <1>9

\* The ceiling keeps the view, and leaves an accumulator that carries nothing alone.
LEMMA ViewedCapped ==
    ASSUME NEW p \in Seq(Pieces), NEW n \in 0..Len(p), NEW acc \in Views, NEW since \in Nat,
           Viewed(p, n, acc, since), LedgerAssumption
    PROVE  Viewed(p, n, Capped(acc), since)
<1> DEFINE last == LastNewline(p, n)
           count == Cardinality(Newlines(p, n))
           after == [acc EXCEPT !.carry = <<>>, !.dropping = TRUE, !.skipped = acc.skipped + 1]
<1>1. last \in 0..n /\ count \in Nat /\ CarryCeiling \in Nat /\ n \in Nat
    BY NewlineFacts DEF LedgerAssumption
<1>2. /\ acc.skipped \in Nat /\ acc.shown \in Seq(Nat) /\ Len(acc.shown) \in Nat
      /\ after.carry = <<>> /\ after.dropping /\ after.skipped = acc.skipped + 1
      /\ after.shown = acc.shown
    BY DEF Views
<1>3. CASE Len(acc.carry) > CarryCeiling
    <2>1. ~acc.dropping
        <3> SUFFICES ASSUME acc.dropping PROVE FALSE
            OBVIOUS
        <3>1. acc.carry = <<>>
            BY DEF Viewed
        <3> QED BY <1>1, <1>3, <3>1
    <2>2. /\ RecordsAreCounted(acc.shown, p, n) /\ acc.carry = SubSeq(p, last + 1, n)
          /\ Len(acc.shown) + (acc.skipped - since) = count
        BY <2>1 DEF Viewed
    <2>3. Len(SubSeq(p, last + 1, n)) = n - last
        <3> HIDE DEF last
        <3> QED BY <1>1
    <2>4. n - last > CarryCeiling
        BY ONLY <1>3, <2>2, <2>3
    <2> HIDE DEF after
    <2>5. Len(after.shown) + (after.skipped - since) = count + 1
        <3> HIDE DEF count, last
        <3>1. Len(acc.shown) \in Nat /\ acc.skipped \in Nat /\ since \in Nat /\ count \in Nat
            BY <1>1, <1>2
        <3>2. Len(acc.shown) + (acc.skipped - since) = count
            BY <2>2
        <3>3. Len(acc.shown) + ((acc.skipped + 1) - since) = count + 1
            BY ONLY <3>1, <3>2
        <3> QED BY <1>2, <3>3
    <2>6. Viewed(p, n, after, since)
        BY <1>2, <2>2, <2>4, <2>5 DEF Viewed
    <2>7. Capped(acc) = after
        BY <1>3 DEF Capped, after
    <2> QED BY <2>6, <2>7
<1>4. CASE ~(Len(acc.carry) > CarryCeiling)
    BY <1>4 DEF Capped
<1> QED BY <1>3, <1>4

\* What was made of a prefix holds of every file with that prefix.
LEMMA ViewedOfAPrefix ==
    ASSUME NEW p \in Seq(Pieces), NEW q \in Seq(Pieces), NEW n \in 0..Len(p), n <= Len(q),
           \A k \in 1..n : q[k] = p[k], NEW acc, NEW since, Viewed(p, n, acc, since)
    PROVE  Viewed(q, n, acc, since)
<1>1. n \in Nat /\ n \in 0..Len(q) /\ Len(p) \in Nat /\ Len(q) \in Nat
    OBVIOUS
<1>2. ASSUME NEW m \in 0..n PROVE Newlines(q, m) = Newlines(p, m) /\ LastNewline(q, m) = LastNewline(p, m)
    <2>1. Newlines(q, m) = Newlines(p, m)
        BY <1>1 DEF Newlines
    <2> QED BY <2>1, Zenon DEF LastNewline
<1>3. ASSUME NEW l \in 0..n, NEW m \in 0..n PROVE SubSeq(q, l + 1, m) = SubSeq(p, l + 1, m)
    <2>1. SubSeq(q, l + 1, m) \in Seq(Pieces) /\ SubSeq(p, l + 1, m) \in Seq(Pieces)
        BY <1>1
    <2>2. Len(SubSeq(q, l + 1, m)) = Len(SubSeq(p, l + 1, m))
        BY <1>1
    <2>3. \A k \in 1..Len(SubSeq(p, l + 1, m)) : SubSeq(q, l + 1, m)[k] = SubSeq(p, l + 1, m)[k]
        BY <1>1
    <2> QED BY <2>1, <2>2, <2>3
<1>4. \A k \in Newlines(p, n) : LineTo(q, k) = LineTo(p, k)
    <2> SUFFICES ASSUME NEW k \in Newlines(p, n) PROVE LineTo(q, k) = LineTo(p, k)
        OBVIOUS
    <2>1. k \in 1..n
        BY DEF Newlines
    <2>2. k - 1 \in 0..n /\ k - 1 \in 0..Len(p) /\ k \in 0..n
        BY <1>1, <2>1
    <2>3. LastNewline(q, k - 1) = LastNewline(p, k - 1) /\ LastNewline(p, k - 1) \in 0..(k - 1)
        BY <1>2, <2>2, NewlineFacts
    <2>4. LastNewline(p, k - 1) \in 0..n
        BY <1>1, <2>1, <2>3
    <2> QED BY <1>3, <2>2, <2>3, <2>4 DEF LineTo
<1>5. Newlines(q, n) = Newlines(p, n) /\ LastNewline(q, n) = LastNewline(p, n)
    BY <1>1, <1>2
<1>6. LastNewline(p, n) \in 0..n /\ n \in 0..n
    BY <1>1, NewlineFacts
<1>7. SubSeq(q, LastNewline(p, n) + 1, n) = SubSeq(p, LastNewline(p, n) + 1, n)
    BY <1>3, <1>6
<1>8. RecordsAreCounted(acc.shown, q, n)
    <2>1. PICK ends \in [DOMAIN acc.shown -> Newlines(p, n)] : AreRecordsOf(acc.shown, p, n, ends)
        BY DEF Viewed, RecordsAreCounted
    <2>2. \A i \in DOMAIN acc.shown : LineTo(q, ends[i]) = LineTo(p, ends[i])
        BY <1>4
    <2>3. AreRecordsOf(acc.shown, q, n, ends)
        BY <1>4, <1>5, <2>1, <2>2 DEF AreRecordsOf
    <2> QED BY <1>5, <2>1, <2>3 DEF RecordsAreCounted
<1> QED BY <1>5, <1>7, <1>8 DEF Viewed

\* One piece keeps the type of an accumulator.
LEMMA TakePieceType ==
    ASSUME NEW acc \in Views, NEW piece \in Pieces
    PROVE  TakePiece(acc, piece) \in Views
<1>1. /\ acc.carry \in Seq(Pieces) /\ acc.dropping \in BOOLEAN /\ acc.skipped \in Nat
      /\ acc.shown \in Seq(Nat)
    BY DEF Views
<1>2. Append(acc.carry, piece) \in Seq(Pieces)
    BY <1>1
<1>3. Append(acc.shown, piece.of) \in Seq(Nat)
    BY <1>1 DEF Pieces
<1> <<>> \in Seq(Pieces) /\ acc.skipped + 1 \in Nat
    BY <1>1
<1>4. [acc EXCEPT !.carry = Append(acc.carry, piece)] \in Views
    BY <1>1, <1>2 DEF Views
<1>5. [acc EXCEPT !.dropping = FALSE] \in Views
    BY <1>1 DEF Views
<1>6. [acc EXCEPT !.carry = <<>>, !.shown = Append(acc.shown, piece.of)] \in Views
    BY <1>1, <1>3 DEF Views
<1>7. [acc EXCEPT !.carry = <<>>, !.skipped = acc.skipped + 1] \in Views
    BY <1>1 DEF Views
<1> QED BY <1>4, <1>5, <1>6, <1>7 DEF TakePiece

\* The accumulators of a chunk are the recursion they are defined as.
LEMMA TakenIsTheRecursion ==
    ASSUME NEW acc \in Views, NEW chunk \in Seq(Pieces)
    PROVE  LET after == Taken(acc, chunk) IN
           \A k \in 0..Len(chunk) :
               after[k] \in Views /\ after[k] = IF k = 0 THEN acc ELSE TakePiece(after[k - 1], chunk[k])
<1> DEFINE D == 0..Len(chunk)
           Value(f, k) == IF k = 0 THEN acc ELSE TakePiece(f[k - 1], chunk[k])
           E == [x \in [D -> Views] \X D |-> Value(x[1], x[2])]
           rank == [k \in D |-> k]
<1>1. Len(chunk) \in Nat /\ rank \in [D -> 0..Len(chunk)]
    OBVIOUS
<1>2. ASSUME NEW f \in [D -> Views], NEW k \in D PROVE Value(f, k) \in Views
    <2>1. CASE k = 0
        BY <2>1
    <2>2. CASE k # 0
        <3>1. k - 1 \in D /\ chunk[k] \in Pieces
            BY <1>1, <2>2
        <3> QED BY <2>2, <3>1, TakePieceType
    <2> QED BY <2>1, <2>2
<1>3. E \in [[D -> Views] \X D -> Views]
    <2> HIDE DEF Value
    <2> QED BY <1>2
<1>4. ASSUME NEW f \in [D -> Views], NEW g \in [D -> Views], NEW k \in D,
             \A j \in D : rank[j] < rank[k] => f[j] = g[j]
      PROVE  E[<<f, k>>] = E[<<g, k>>]
    <2>1. CASE k = 0
        BY <2>1
    <2>2. CASE k # 0
        <3>1. k - 1 \in D /\ rank[k - 1] < rank[k]
            BY <1>1, <2>2
        <3>2. f[k - 1] = g[k - 1]
            BY <1>4, <3>1
        <3>3. Value(f, k) = Value(g, k)
            BY <3>2
        <3> HIDE DEF Value
        <3> QED BY <3>3
    <2> QED BY <2>1, <2>2
<1>5. \E f \in [D -> Views] : \A k \in D : f[k] = E[<<f, k>>]
    <2> HIDE DEF E, D, rank
    <2>1. IsRecursion(D, Views, E, rank, Len(chunk))
        BY <1>1, <1>3, <1>4 DEF IsRecursion
    <2> QED BY <2>1, RecursionAlongRanks
<1>6. PICK f \in [D -> Views] : f = [k \in D |-> Value(f, k)]
    <2>1. PICK f \in [D -> Views] : \A k \in D : f[k] = E[<<f, k>>]
        BY <1>5
    <2>2. \A k \in D : f[k] = Value(f, k)
        <3> HIDE DEF D, Value
        <3> QED BY <2>1
    <2> HIDE DEF D, Value
    <2> QED BY <2>2
<1> DEFINE after == Taken(acc, chunk)
<1>7. after = [k \in D |-> Value(after, k)]
    BY <1>6, Zenon DEF Taken
<1>8. \A k \in D : after[k] = Value(after, k)
    <2> HIDE DEF after, Value, D
    <2> QED BY <1>7
<1> DEFINE Wrong == {k \in D : after[k] \notin Views}
<1>9. Wrong = {}
    <2> SUFFICES ASSUME Wrong # {} PROVE FALSE
        OBVIOUS
    <2>1. PICK k \in Wrong : \A j \in Wrong : k <= j
        <3>1. Wrong \in SUBSET Nat
            BY <1>1
        <3> HIDE DEF Wrong
        <3> QED BY <3>1, NatMin
    <2>2. CASE k = 0
        <3> HIDE DEF after
        <3> QED BY <1>8, <2>2
    <2>3. CASE k # 0
        <3> HIDE DEF after
        <3>1. k - 1 \in D /\ chunk[k] \in Pieces /\ ~(k <= k - 1)
            BY <1>1, <2>3
        <3>2. after[k - 1] \in Views
            BY <2>1, <3>1
        <3> QED BY <1>8, <2>3, <3>1, <3>2, TakePieceType
    <2> QED BY <2>2, <2>3
<1>10. \A k \in D : after[k] \in Views
    <2> HIDE DEF after, D
    <2> QED BY <1>9
<1>11. \A k \in D : after[k] \in Views /\ after[k] = Value(after, k)
    <2> HIDE DEF after, D, Value
    <2> QED BY <1>8, <1>10
<1> QED BY ONLY <1>11

\* A chunk is consumed piece by piece: of the pieces the view is not of, there is no first.
LEMMA ViewedChunk ==
    ASSUME NEW p \in Seq(Pieces), NEW from \in 0..Len(p), NEW to \in from..Len(p),
           NEW acc \in Views, NEW since \in Nat, Viewed(p, from, acc, since), LedgerAssumption
    PROVE  LET chunk == SubSeq(p, from + 1, to)
               after == Taken(acc, chunk)[Len(chunk)] IN
           Len(chunk) = to - from /\ after \in Views /\ Viewed(p, to, Capped(after), since)
<1> DEFINE chunk == SubSeq(p, from + 1, to)
           after == Taken(acc, chunk)
           D == 0..Len(chunk)
<1>1. /\ Len(p) \in Nat /\ from \in Nat /\ to \in Nat /\ from <= to /\ to <= Len(p)
      /\ chunk \in Seq(Pieces) /\ Len(chunk) = to - from /\ Len(chunk) \in Nat
    OBVIOUS
<1>2. ASSUME NEW k \in 1..Len(chunk) PROVE chunk[k] = p[from + k]
    BY <1>1
<1> HIDE DEF chunk
<1>3. \A k \in D :
          after[k] \in Views /\ after[k] = IF k = 0 THEN acc ELSE TakePiece(after[k - 1], chunk[k])
    BY <1>1, TakenIsTheRecursion
<1> HIDE DEF after
<1> DEFINE Wrong == {k \in D : ~Viewed(p, from + k, after[k], since)}
<1>4. Wrong = {}
    <2> SUFFICES ASSUME Wrong # {} PROVE FALSE
        OBVIOUS
    <2>1. PICK k \in Wrong : \A j \in Wrong : k <= j
        <3>1. Wrong \in SUBSET Nat
            BY <1>1
        <3> HIDE DEF Wrong
        <3> QED BY <3>1, NatMin
    <2>2. k \in D /\ ~Viewed(p, from + k, after[k], since)
        BY <2>1
    <2>3. CASE k = 0
        <3>1. from + k = from /\ after[k] = acc
            BY <1>1, <1>3, <2>2, <2>3
        <3> QED BY <2>2, <3>1
    <2>4. CASE k # 0
        <3>1. k - 1 \in D /\ ~(k <= k - 1) /\ k \in 1..Len(chunk)
            BY <1>1, <2>2, <2>4
        <3>2. Viewed(p, from + (k - 1), after[k - 1], since)
            BY <2>1, <3>1
        <3> DEFINE m == from + (k - 1)
        <3>3. m \in Nat /\ m + 1 = from + k /\ m + 1 <= Len(p)
            BY <1>1, <3>1
        <3>4. after[k - 1] \in Views /\ after[k] = TakePiece(after[k - 1], p[m + 1])
            <4>1. chunk[k] = p[m + 1]
                BY <1>2, <3>1, <3>3
            <4> QED BY <1>3, <2>2, <2>4, <3>1, <4>1
        <3>5. Viewed(p, m, after[k - 1], since)
            BY <3>2
        <3> HIDE DEF m
        <3>6. Viewed(p, m + 1, after[k], since)
            BY <3>3, <3>4, <3>5, ViewedStep
        <3> QED BY <2>2, <3>3, <3>6
    <2> QED BY <2>3, <2>4
<1>5. Len(chunk) \in D /\ from + Len(chunk) = to
    BY <1>1
<1>6. Viewed(p, to, after[Len(chunk)], since)
    BY <1>4, <1>5
<1>7. after[Len(chunk)] \in Views
    BY <1>3, <1>5
<1>8. to \in 0..Len(p)
    BY <1>1
<1>9. Viewed(p, to, Capped(after[Len(chunk)]), since)
    BY <1>6, <1>7, <1>8, ViewedCapped
<1> QED BY <1>1, <1>7, <1>9 DEF after, chunk

LEMMA CappedType ==
    ASSUME NEW acc \in Views
    PROVE  Capped(acc) \in Views /\ (acc.carry = <<>> /\ LedgerAssumption => Capped(acc) = acc)
<1>1. [acc EXCEPT !.carry = <<>>, !.dropping = TRUE, !.skipped = acc.skipped + 1] \in Views
    <2>1. <<>> \in Seq(Pieces) /\ acc.skipped + 1 \in Nat
        BY DEF Views
    <2> QED BY <2>1 DEF Views
<1>2. acc.carry = <<>> /\ LedgerAssumption => ~(Len(acc.carry) > CarryCeiling)
    BY DEF LedgerAssumption
<1> QED BY <1>1, <1>2 DEF Capped

\* Nothing is known of a file before its first piece.
LEMMA ViewedNothing ==
    ASSUME NEW p \in Seq(Pieces), NEW acc, NEW since \in Nat,
           acc.shown = <<>> /\ acc.carry = <<>> /\ ~acc.dropping /\ acc.skipped = since
    PROVE  Viewed(p, 0, acc, since)
<1>1. Newlines(p, 0) = {} /\ Cardinality({}) = 0
    BY FS_EmptySet DEF Newlines
<1>2. LastNewline(p, 0) \in 0..0
    BY NewlineFacts
<1>3. SubSeq(p, LastNewline(p, 0) + 1, 0) = <<>>
    BY <1>2
<1>4. Len(acc.shown) + (acc.skipped - since) = 0
    OBVIOUS
<1>5. RecordsAreCounted(<<>>, p, 0)
    <2>1. DOMAIN <<>> = {}
        OBVIOUS
    <2>2. [i \in {} |-> 0] \in [DOMAIN <<>> -> Newlines(p, 0)]
        BY <2>1
    <2>3. AreRecordsOf(<<>>, p, 0, [i \in {} |-> 0])
        BY <1>1, <2>1 DEF AreRecordsOf
    <2> QED BY <2>2, <2>3 DEF RecordsAreCounted
<1> QED BY <1>1, <1>3, <1>4, <1>5 DEF Viewed

LEMMA LedgerInvInit == LedgerInit => LedgerInv
<1> SUFFICES ASSUME LedgerInit PROVE LedgerInv
    OBVIOUS
<1>1. LedgerTypes
    BY DEF LedgerInit, LedgerTypes, Absent, Down, Fresh, Nothing, None
<1>2. RestHasAFile /\ AsksForWhatFollows /\ BeginsWithNothing /\ FollowsTheFile
    BY DEF LedgerInit, RestHasAFile, AsksForWhatFollows, BeginsWithNothing, FollowsTheFile, Down, Fresh
<1> QED BY <1>1, <1>2 DEF LedgerInv

\* What the router does leaves the view of a file: a new file has a new number, and
\* one that grows keeps its beginning.
LEMMA RouterKeepsTheView ==
    ASSUME LedgerInv, LedgerTypes', UNCHANGED viewerVars,
           \/ UNCHANGED file \/ file' = Absent \/ file'.id = files + 1
           \/ \E s \in Seq(Pieces) : file # Absent /\ file' = [file EXCEPT !.pieces = file.pieces \o s]
    PROVE  (AsksForWhatFollows /\ BeginsWithNothing /\ FollowsTheFile)'
<1>1. (AsksForWhatFollows /\ BeginsWithNothing)'
    BY DEF LedgerInv, AsksForWhatFollows, BeginsWithNothing, viewerVars
<1>2. Seen' = Seen /\ consumed' = consumed /\ followed' = followed /\ before' = before
    BY DEF viewerVars, Seen
<1>3. followed \in 0..files /\ files \in Nat
    BY DEF LedgerInv, LedgerTypes
<1>4. CASE UNCHANGED file
    BY <1>1, <1>2, <1>4 DEF LedgerInv, FollowsTheFile
<1>5. CASE file' = Absent
    BY <1>1, <1>5 DEF FollowsTheFile, Absent
<1>6. CASE file'.id = files + 1
    BY <1>1, <1>2, <1>3, <1>6 DEF FollowsTheFile
<1>7. ASSUME NEW s \in Seq(Pieces), file # Absent, file' = [file EXCEPT !.pieces = file.pieces \o s]
      PROVE  FollowsTheFile'
    <2> DEFINE p == file.pieces
               q == file'.pieces
    <2>1. file \in [id : 1..files, pieces : Seq(Pieces)]
        BY <1>7 DEF LedgerInv, LedgerTypes
    <2>2. file'.id = file.id /\ q = p \o s /\ p \in Seq(Pieces)
        BY <1>7, <2>1
    <2>3. /\ q \in Seq(Pieces) /\ Len(p) \in Nat /\ Len(q) \in Nat /\ Len(p) <= Len(q)
          /\ \A k \in 1..Len(p) : q[k] = p[k]
        <3> HIDE DEF p, q
        <3> QED BY <2>2
    <2> SUFFICES ASSUME followed = file.id
                 PROVE  consumed \in 0..Len(q) /\ Viewed(q, consumed, Seen, before)
        BY <1>2, <2>2 DEF FollowsTheFile
    <2>4. consumed \in 0..Len(p) /\ Viewed(p, consumed, Seen, before)
        BY <1>7 DEF LedgerInv, FollowsTheFile
    <2> HIDE DEF p, q
    <2>5. consumed \in 0..Len(q) /\ consumed <= Len(q) /\ \A k \in 1..consumed : q[k] = p[k]
        BY <2>3, <2>4
    <2>6. Viewed(q, consumed, Seen, before)
        BY <2>2, <2>3, <2>4, <2>5, ViewedOfAPrefix
    <2> QED BY <2>5, <2>6
<1> QED BY <1>1, <1>4, <1>5, <1>6, <1>7

\* The router's steps.
LEMMA OpenedEffect ==
    ASSUME LedgerTypes, Opened(file)
    PROVE  /\ files' \in Nat /\ files <= files' /\ file' \in [id : 1..files', pieces : Seq(Pieces)]
           /\ UNCHANGED file \/ file'.id = files + 1
           /\ file'.id \in Nat \ {0}
<1>1. CASE file # Absent
    BY <1>1 DEF Opened, LedgerTypes
<1>2. CASE file = Absent
    <2>1. file' = [id |-> files + 1, pieces |-> <<>>] /\ files' = files + 1 /\ files \in Nat
        BY <1>2 DEF Opened, LedgerTypes
    <2>2. <<>> \in Seq(Pieces)
        OBVIOUS
    <2> QED BY <2>1, <2>2
<1> QED BY <1>1, <1>2

LEMMA LineType == ASSUME NEW n \in Nat, NEW size \in Nat PROVE Line(n, size) \in Seq(Pieces)
<1>1. \A k \in 1..size : [of |-> n, part |-> k, newline |-> k = size] \in Pieces
    BY DEF Pieces
<1> QED BY <1>1 DEF Line

LEMMA LedgerInvStart == LedgerInv /\ Start => LedgerInv'
<1> SUFFICES ASSUME LedgerInv, Start PROVE LedgerInv'
    OBVIOUS
<1>1. LedgerTypes /\ Opened(file) /\ UNCHANGED <<requests, kills, viewerVars>>
      /\ router' = [up |-> TRUE, out |-> file'.id, rest |-> <<>>]
    BY DEF LedgerInv, Start
<1>2. /\ files' \in Nat /\ files <= files' /\ file' \in [id : 1..files', pieces : Seq(Pieces)]
      /\ UNCHANGED file \/ file'.id = files + 1
      /\ file'.id \in Nat \ {0}
    BY <1>1, OpenedEffect
<1>3. LedgerTypes'
    <2>1. router' \in [up : BOOLEAN, out : Nat, rest : Seq(Pieces)]
        <3>1. <<>> \in Seq(Pieces)
            OBVIOUS
        <3> QED BY <1>1, <1>2, <3>1
    <2> QED BY <1>1, <1>2, <2>1 DEF LedgerTypes, viewerVars
<1>4. RestHasAFile'
    BY <1>1 DEF RestHasAFile
<1> QED BY <1>1, <1>2, <1>3, <1>4, RouterKeepsTheView DEF LedgerInv

LEMMA LedgerInvRecord ==
    ASSUME LedgerInv, LedgerAssumption, NEW size \in Sizes, Record(size) PROVE LedgerInv'
<1>1. LedgerTypes /\ requests \in Nat /\ size \in Nat /\ requests' = requests + 1 /\ UNCHANGED viewerVars
    BY DEF LedgerInv, LedgerTypes, LedgerAssumption, Record
<1>2. Line(requests', size) \in Seq(Pieces)
    BY <1>1, LineType
<1>3. /\ router \in [up : BOOLEAN, out : Nat, rest : Seq(Pieces)]
      /\ file = Absent \/ file \in [id : 1..files, pieces : Seq(Pieces)]
      /\ files \in Nat
    BY <1>1 DEF LedgerTypes
<1>4. /\ files' \in Nat /\ files <= files'
      /\ file' = Absent \/ file' \in [id : 1..files', pieces : Seq(Pieces)]
      /\ UNCHANGED file \/ file'.id = files + 1
      /\ router' \in [up : BOOLEAN, out : Nat, rest : Seq(Pieces)] /\ router'.out # None
    <2>1. CASE router.out # None
        <3>1. router' = [router EXCEPT !.rest = Line(requests', size)] /\ UNCHANGED <<file, files>>
            BY <2>1 DEF Record
        <3> QED BY <1>2, <1>3, <2>1, <3>1
    <2>2. CASE router.out = None
        <3>1. router' = [router EXCEPT !.out = file'.id, !.rest = Line(requests', size)] /\ Opened(file)
            BY <2>2 DEF Record
        <3>2. /\ files' \in Nat /\ files <= files' /\ file' \in [id : 1..files', pieces : Seq(Pieces)]
              /\ UNCHANGED file \/ file'.id = files + 1
              /\ file'.id \in Nat \ {0}
            BY <1>1, <3>1, OpenedEffect
        <3>3. router'.out = file'.id /\ router' \in [up : BOOLEAN, out : Nat, rest : Seq(Pieces)]
            BY <1>2, <1>3, <3>1, <3>2
        <3> QED BY <3>2, <3>3 DEF None
    <2> QED BY <2>1, <2>2
<1>5. LedgerTypes'
    BY <1>1, <1>4 DEF LedgerTypes, viewerVars
<1>6. RestHasAFile'
    BY <1>4 DEF RestHasAFile
<1> QED BY <1>1, <1>4, <1>5, <1>6, RouterKeepsTheView DEF LedgerInv

LEMMA LedgerInvWriteSome ==
    ASSUME LedgerInv, NEW count \in 1..Len(router.rest), WriteSome(count) PROVE LedgerInv'
<1> DEFINE s == SubSeq(router.rest, 1, count)
           left == SubSeq(router.rest, count + 1, Len(router.rest))
<1>1. /\ LedgerTypes /\ UNCHANGED <<requests, files, viewerVars>>
      /\ router' = [router EXCEPT !.rest = left] /\ Written(s)
    BY DEF LedgerInv, WriteSome
<1>2. /\ router \in [up : BOOLEAN, out : Nat, rest : Seq(Pieces)]
      /\ file = Absent \/ file \in [id : 1..files, pieces : Seq(Pieces)]
    BY <1>1 DEF LedgerTypes
<1>3. s \in Seq(Pieces) /\ left \in Seq(Pieces) /\ router.rest # <<>>
    BY <1>2
<1> HIDE DEF s, left
<1>4. router.out # None
    BY <1>3 DEF LedgerInv, RestHasAFile
<1>5. router' \in [up : BOOLEAN, out : Nat, rest : Seq(Pieces)] /\ router'.out = router.out
    BY <1>1, <1>2, <1>3
<1>6. CASE router.out = file.id
    <2>1. file # Absent /\ file' = [file EXCEPT !.pieces = file.pieces \o s]
        BY <1>1, <1>4, <1>6 DEF Written, Absent
    <2>2. file' \in [id : 1..files, pieces : Seq(Pieces)]
        <3>1. file \in [id : 1..files, pieces : Seq(Pieces)]
            BY <1>2, <2>1
        <3>2. file.pieces \o s \in Seq(Pieces)
            BY <1>3, <3>1
        <3> QED BY <2>1, <3>1, <3>2
    <2>3. LedgerTypes'
        BY <1>1, <1>5, <2>2 DEF LedgerTypes, viewerVars
    <2>4. RestHasAFile'
        BY <1>4, <1>5 DEF RestHasAFile
    <2> QED BY <1>1, <1>3, <2>1, <2>3, <2>4, RouterKeepsTheView DEF LedgerInv
<1>7. CASE router.out # file.id
    <2>1. UNCHANGED file
        BY <1>1, <1>7 DEF Written
    <2>2. LedgerTypes'
        BY <1>1, <1>5, <2>1 DEF LedgerTypes, viewerVars
    <2>3. RestHasAFile'
        BY <1>4, <1>5 DEF RestHasAFile
    <2> QED BY <1>1, <2>1, <2>2, <2>3, RouterKeepsTheView DEF LedgerInv
<1> QED BY <1>6, <1>7

LEMMA LedgerInvAppendFails == LedgerInv /\ AppendFails => LedgerInv'
<1> SUFFICES ASSUME LedgerInv, AppendFails PROVE LedgerInv'
    OBVIOUS
<1>1. LedgerTypes /\ UNCHANGED <<requests, file, files, viewerVars>>
      /\ router' = [router EXCEPT !.rest = <<>>, !.out = None]
    BY DEF LedgerInv, AppendFails
<1>2. router' \in [up : BOOLEAN, out : Nat, rest : Seq(Pieces)] /\ router'.rest = <<>>
    <2>1. <<>> \in Seq(Pieces) /\ router \in [up : BOOLEAN, out : Nat, rest : Seq(Pieces)]
        BY <1>1 DEF LedgerTypes
    <2> QED BY <1>1, <2>1 DEF None
<1>3. LedgerTypes' /\ RestHasAFile'
    BY <1>1, <1>2 DEF LedgerTypes, RestHasAFile, viewerVars
<1> QED BY <1>1, <1>3, RouterKeepsTheView DEF LedgerInv

LEMMA LedgerInvKill == LedgerInv /\ Kill => LedgerInv'
<1> SUFFICES ASSUME LedgerInv, Kill PROVE LedgerInv'
    OBVIOUS
<1>1. LedgerTypes /\ UNCHANGED <<requests, file, files, viewerVars>> /\ router' = Down
    BY DEF LedgerInv, Kill
<1>2. router' \in [up : BOOLEAN, out : Nat, rest : Seq(Pieces)] /\ router'.rest = <<>>
    <2>1. <<>> \in Seq(Pieces)
        OBVIOUS
    <2> QED BY <1>1, <2>1 DEF Down, None
<1>3. LedgerTypes' /\ RestHasAFile'
    BY <1>1, <1>2 DEF LedgerTypes, RestHasAFile, viewerVars
<1> QED BY <1>1, <1>3, RouterKeepsTheView DEF LedgerInv

LEMMA LedgerInvMoveAway == LedgerInv /\ MoveAway => LedgerInv'
<1> SUFFICES ASSUME LedgerInv, MoveAway PROVE LedgerInv'
    OBVIOUS
<1>1. LedgerTypes /\ RestHasAFile /\ UNCHANGED <<requests, files, router, viewerVars>> /\ file' = Absent
    BY DEF LedgerInv, MoveAway
<1>2. LedgerTypes' /\ RestHasAFile'
    BY <1>1 DEF LedgerTypes, RestHasAFile, viewerVars
<1> QED BY <1>1, <1>2, RouterKeepsTheView DEF LedgerInv

\* The viewer's steps.
LEMMA LedgerInvStat == LedgerInv /\ Stat => LedgerInv'
<1> SUFFICES ASSUME LedgerInv, Stat PROVE LedgerInv'
    OBVIOUS
<1> DEFINE size == Len(file.pieces)
           offset == IF Shrank(size) THEN 0 ELSE consumed
<1>1. /\ LedgerTypes /\ RestHasAFile /\ UNCHANGED routerVars /\ asked = Nothing /\ file # Absent
      /\ asked' = IF size <= offset THEN Nothing ELSE <<offset, size>>
    BY DEF LedgerInv, Stat
<1>2. /\ file \in [id : 1..files, pieces : Seq(Pieces)] /\ size \in Nat /\ files \in Nat
      /\ consumed \in Nat /\ tail \in [carry : Seq(Pieces), dropping : BOOLEAN, skipped : Nat]
    BY <1>1 DEF LedgerTypes
<1>3. RestHasAFile'
    BY <1>1 DEF RestHasAFile, routerVars
<1>4. CASE Shrank(size)
    <2>1. /\ tail' = Reset(tail) /\ consumed' = 0 /\ shown' = <<>>
          /\ followed' = None /\ before' = tail.skipped
        BY <1>4 DEF Stat
    <2>2. /\ tail' \in [carry : Seq(Pieces), dropping : BOOLEAN, skipped : Nat]
          /\ tail'.carry = <<>> /\ ~tail'.dropping /\ tail'.skipped = tail.skipped
        <3>1. <<>> \in Seq(Pieces)
            OBVIOUS
        <3> QED BY <1>2, <2>1, <3>1 DEF Reset
    <2>3. asked' = Nothing \/ (asked' \in Nat \X Nat /\ asked'[1] = 0)
        BY <1>1, <1>2, <1>4
    <2>4. LedgerTypes'
        <3>1. shown' \in Seq(Nat) /\ before' \in Nat /\ followed' \in 0..files /\ consumed' \in Nat
            BY <1>2, <2>1 DEF None
        <3> QED BY <1>1, <2>2, <2>3, <3>1 DEF LedgerTypes, routerVars
    <2>5. AsksForWhatFollows' /\ BeginsWithNothing'
        BY <2>1, <2>2, <2>3 DEF AsksForWhatFollows, BeginsWithNothing
    <2>6. FollowsTheFile'
        BY <1>1, <1>2, <2>1 DEF FollowsTheFile, None, routerVars
    <2> QED BY <1>3, <2>4, <2>5, <2>6 DEF LedgerInv
<1>5. CASE ~Shrank(size)
    <2>1. UNCHANGED <<tail, consumed, shown, followed, before>>
        BY <1>5 DEF Stat
    <2>2. asked' = Nothing \/ (asked' \in Nat \X Nat /\ asked'[1] = consumed)
        BY <1>1, <1>2, <1>5
    <2>3. LedgerTypes'
        BY <1>1, <2>1, <2>2 DEF LedgerTypes, routerVars
    <2>4. (AsksForWhatFollows /\ BeginsWithNothing /\ FollowsTheFile)'
        BY <1>1, <2>1, <2>2
        DEF LedgerInv, AsksForWhatFollows, BeginsWithNothing, FollowsTheFile, Seen, routerVars
    <2> QED BY <1>3, <2>3, <2>4 DEF LedgerInv
<1> QED BY <1>4, <1>5

LEMMA LedgerInvRead == LedgerInv /\ LedgerAssumption /\ Read => LedgerInv'
<1> SUFFICES ASSUME LedgerInv, LedgerAssumption, Read PROVE LedgerInv'
    OBVIOUS
<1>1. LedgerTypes /\ RestHasAFile /\ UNCHANGED routerVars /\ asked # Nothing /\ asked' = Nothing
    BY DEF LedgerInv, Read
<1>2. RestHasAFile' /\ AsksForWhatFollows'
    BY <1>1 DEF RestHasAFile, AsksForWhatFollows, routerVars
<1>3. CASE file = Absent
    <2>1. UNCHANGED <<consumed, tail, shown, followed, before>>
        BY <1>3 DEF Read
    <2>2. LedgerTypes'
        BY <1>1, <2>1 DEF LedgerTypes, routerVars
    <2>3. BeginsWithNothing' /\ FollowsTheFile'
        BY <1>1, <1>3, <2>1
        DEF LedgerInv, BeginsWithNothing, FollowsTheFile, routerVars
    <2> QED BY <1>2, <2>2, <2>3 DEF LedgerInv
<1>4. CASE file # Absent
    <2> DEFINE p == file.pieces
               last == IF asked[2] < Len(p) THEN asked[2] ELSE Len(p)
               chunk == SubSeq(p, asked[1] + 1, last)
               all == Taken(Seen, chunk)[Len(chunk)]
               after == Capped(all)
    <2>1. /\ consumed' = asked[1] + Len(chunk)
          /\ tail' = [carry |-> after.carry, dropping |-> after.dropping, skipped |-> after.skipped]
          /\ shown' = after.shown /\ before' = before
          /\ followed' = IF asked[1] = 0 \/ chunk = <<>> \/ followed = file.id
                         THEN IF asked[1] = 0 THEN file.id ELSE followed
                         ELSE None
        BY <1>4 DEF Read, Consumed
    <2>2. /\ file \in [id : 1..files, pieces : Seq(Pieces)] /\ p \in Seq(Pieces) /\ Len(p) \in Nat
          /\ files \in Nat /\ followed \in 0..files /\ before \in Nat
          /\ asked \in Nat \X Nat /\ asked[1] = consumed /\ consumed \in Nat
        <3>1. /\ file \in [id : 1..files, pieces : Seq(Pieces)]
              /\ files \in Nat /\ followed \in 0..files /\ before \in Nat /\ consumed \in Nat
            BY <1>1, <1>4 DEF LedgerTypes
        <3>2. asked \in Nat \X Nat /\ asked[1] = consumed
            BY <1>1 DEF LedgerInv, LedgerTypes, AsksForWhatFollows
        <3>3. p \in Seq(Pieces) /\ Len(p) \in Nat
            BY ONLY <3>1
        <3> QED BY ONLY <3>1, <3>2, <3>3
    <2>3. last \in Nat /\ last <= Len(p)
        BY <2>2
    <2>4. Seen \in Views
        BY <1>1 DEF LedgerTypes, Seen, Views
    <2> HIDE DEF p, last
    <2>5. chunk \in Seq(Pieces) /\ Len(chunk) \in Nat /\ (chunk = <<>> <=> Len(chunk) = 0)
        <3>1. chunk \in Seq(Pieces)
            BY <2>2, <2>3
        <3> HIDE DEF chunk
        <3> QED BY <3>1
    <2>6. all \in Views
        <3> HIDE DEF chunk
        <3>1. Len(chunk) \in 0..Len(chunk)
            BY <2>5
        <3> QED BY <2>4, <2>5, <3>1, TakenIsTheRecursion
    <2>7. after \in Views
        BY <2>6, CappedType
    <2>8. consumed' = consumed + Len(chunk) /\ consumed' \in Nat
        <3>1. asked[1] = consumed /\ consumed \in Nat
            BY ONLY <2>2
        <3>2. consumed' = asked[1] + Len(chunk)
            BY ONLY <2>1
        <3>3. Len(chunk) \in Nat
            BY ONLY <2>5
        <3> HIDE DEF chunk
        <3> QED BY ONLY <3>1, <3>2, <3>3
    <2>9. Seen' = after
        <3> HIDE DEF after
        <3>1. after = [carry |-> after.carry, dropping |-> after.dropping,
                       skipped |-> after.skipped, shown |-> after.shown]
            BY <2>7 DEF Views
        <3>2. Seen' = [carry |-> after.carry, dropping |-> after.dropping,
                       skipped |-> after.skipped, shown |-> after.shown]
            BY <2>1 DEF Seen
        <3> QED BY <3>1, <3>2
    <2> HIDE DEF chunk
    <2>10. followed' \in 0..files
        BY <2>1, <2>2 DEF None
    <2>11. LedgerTypes'
        <3> HIDE DEF after
        <3>1. tail' \in [carry : Seq(Pieces), dropping : BOOLEAN, skipped : Nat] /\ shown' \in Seq(Nat)
            BY <2>1, <2>7 DEF Views
        <3> QED BY <1>1, <2>1, <2>2, <2>8, <2>10, <3>1 DEF LedgerTypes, routerVars
    <2>12. chunk = <<>> => all = Seen
        <3>1. ASSUME chunk = <<>> PROVE all = Seen
            <4>1. Len(chunk) = 0 /\ 0 \in 0..Len(chunk)
                BY <3>1
            <4>2. Taken(Seen, chunk)[0] = Seen
                <5>1. \A k \in 0..Len(chunk) : Taken(Seen, chunk)[k] =
                         IF k = 0 THEN Seen ELSE TakePiece(Taken(Seen, chunk)[k - 1], chunk[k])
                    BY ONLY <2>4, <2>5, TakenIsTheRecursion
                <5> QED BY ONLY <4>1, <5>1
            <4> QED BY <4>1, <4>2
        <3> QED BY <3>1
    <2>13. BeginsWithNothing'
        <3> SUFFICES ASSUME consumed' = 0
                     PROVE  shown' = <<>> /\ tail'.carry = <<>> /\ ~tail'.dropping /\ tail'.skipped = before'
            BY DEF BeginsWithNothing
        <3>1. consumed = 0 /\ Len(chunk) = 0
            BY <2>2, <2>5, <2>8
        <3>2. shown = <<>> /\ tail.carry = <<>> /\ ~tail.dropping /\ tail.skipped = before
            BY <3>1 DEF LedgerInv, BeginsWithNothing
        <3>3. Seen.carry = <<>> /\ all = Seen
            BY <2>5, <2>12, <3>1, <3>2 DEF Seen
        <3>4. after = Seen
            BY <2>4, <3>3, CappedType
        <3> HIDE DEF after
        <3> QED BY <2>1, <3>2, <3>4 DEF Seen
    <2>14. FollowsTheFile'
        <3> SUFFICES ASSUME followed' = file.id
                     PROVE  consumed' \in 0..Len(p) /\ Viewed(p, consumed', after, before)
            <4>1. file' = file
                BY <1>1 DEF routerVars
            <4> HIDE DEF after
            <4> QED BY <2>1, <2>9, <4>1 DEF FollowsTheFile, p
        <3>1. file.id \in Nat \ {0}
            BY <2>2
        <3>2. consumed \in 0..Len(p) /\ Viewed(p, consumed, Seen, before)
            <4>1. CASE consumed = 0
                <5>1. shown = <<>> /\ tail.carry = <<>> /\ ~tail.dropping /\ tail.skipped = before
                    BY <4>1 DEF LedgerInv, BeginsWithNothing
                <5>2. Seen.shown = <<>> /\ Seen.carry = <<>> /\ ~Seen.dropping /\ Seen.skipped = before
                    BY <5>1 DEF Seen
                <5>3. Viewed(p, 0, Seen, before)
                    BY <2>2, <5>2, ViewedNothing
                <5>4. consumed \in 0..Len(p)
                    BY <2>2, <4>1
                <5> QED BY <4>1, <5>3, <5>4
            <4>2. CASE consumed # 0
                <5>1. followed = file.id
                    BY <2>1, <2>2, <3>1, <4>2 DEF None
                <5>2. FollowsTheFile
                    BY DEF LedgerInv
                <5> QED BY <1>4, <5>1, <5>2 DEF FollowsTheFile, p
            <4> QED BY <4>1, <4>2
        <3>3. CASE last >= consumed
            <4>1. consumed \in 0..Len(p) /\ last \in consumed..Len(p)
                BY <2>2, <2>3, <3>2, <3>3
            <4>2. chunk = SubSeq(p, consumed + 1, last)
                BY <2>2 DEF chunk
            <4>3. Len(chunk) = last - consumed /\ Viewed(p, last, after, before)
                BY <2>2, <2>4, <3>2, <4>1, <4>2, ViewedChunk
            <4>4. consumed' = last
                BY <2>2, <2>3, <2>8, <4>3
            <4> QED BY <2>3, <2>2, <4>3, <4>4
        <3>4. CASE last < consumed
            <4>1. chunk = <<>>
                BY <2>2, <2>3, <3>4 DEF chunk
            <4>2. consumed' = consumed /\ all = Seen
                BY <2>2, <2>5, <2>8, <2>12, <4>1
            <4>3. Viewed(p, consumed, Capped(Seen), before)
                BY <2>2, <2>4, <3>2, ViewedCapped
            <4> QED BY <3>2, <4>2, <4>3
        <3> QED BY <2>2, <2>3, <3>3, <3>4
    <2> QED BY <1>2, <2>11, <2>13, <2>14 DEF LedgerInv
<1> QED BY <1>3, <1>4

LEMMA LedgerInvNext == LedgerInv /\ LedgerAssumption /\ [LedgerNext]_ledgerVars => LedgerInv'
<1> SUFFICES ASSUME LedgerInv, LedgerAssumption, [LedgerNext]_ledgerVars PROVE LedgerInv'
    OBVIOUS
<1>1. CASE UNCHANGED ledgerVars
    <2>1. Seen' = Seen
        BY <1>1 DEF ledgerVars, viewerVars, Seen
    <2>2. LedgerTypes'
        BY <1>1 DEF LedgerInv, LedgerTypes, ledgerVars, routerVars, viewerVars
    <2>3. (RestHasAFile /\ AsksForWhatFollows /\ BeginsWithNothing)'
        BY <1>1 DEF LedgerInv, RestHasAFile, AsksForWhatFollows, BeginsWithNothing, ledgerVars,
                    routerVars, viewerVars
    <2>4. FollowsTheFile'
        BY <1>1, <2>1 DEF LedgerInv, FollowsTheFile, ledgerVars, routerVars, viewerVars
    <2> QED BY <2>2, <2>3, <2>4 DEF LedgerInv
<1>2. CASE Start
    BY <1>2, LedgerInvStart
<1>3. CASE AppendFails
    BY <1>3, LedgerInvAppendFails
<1>4. CASE Kill
    BY <1>4, LedgerInvKill
<1>5. CASE MoveAway
    BY <1>5, LedgerInvMoveAway
<1>6. CASE Missing
    BY <1>1, <1>6 DEF Missing
<1>7. CASE Stat
    BY <1>7, LedgerInvStat
<1>8. CASE Read
    BY <1>8, LedgerInvRead
<1>9. ASSUME NEW size \in Sizes, Record(size) PROVE LedgerInv'
    BY <1>9, LedgerInvRecord
<1>10. ASSUME NEW count \in 1..Len(router.rest), WriteSome(count) PROVE LedgerInv'
    BY <1>10, LedgerInvWriteSome
<1> QED BY <1>1, <1>2, <1>3, <1>4, <1>5, <1>6, <1>7, <1>8, <1>9, <1>10 DEF LedgerNext

\* However the file was chunked by writes and polls, and whatever was replaced, torn or
\* dropped, the viewer counts every whole line it has read once, in the order of the
\* file, but for lines beyond the ceiling, and every other line as an unreadable one.
THEOREM LinesAreCounted == LedgerSpec => []EveryLineIsCounted
<1>1. LedgerInv => EveryLineIsCounted
    <2> SUFFICES ASSUME LedgerInv, followed = file.id, file # Absent
                 PROVE  /\ RecordsAreCounted(shown, file.pieces, consumed)
                        /\ Len(shown) + (tail.skipped - before) =
                               Cardinality(Newlines(file.pieces, consumed)) + (IF tail.dropping THEN 1 ELSE 0)
        BY DEF EveryLineIsCounted
    <2>1. /\ Viewed(file.pieces, consumed, Seen, before)
          /\ file.pieces \in Seq(Pieces) /\ consumed \in 0..Len(file.pieces)
        BY DEF LedgerInv, LedgerTypes, FollowsTheFile
    <2>2. Seen.shown = shown /\ Seen.skipped = tail.skipped /\ Seen.dropping = tail.dropping
        BY DEF Seen
    <2>3. Cardinality(Newlines(file.pieces, consumed)) \in Nat
        BY <2>1, NewlineFacts
    <2> HIDE DEF Seen
    <2>4. CASE tail.dropping
        BY <2>1, <2>2, <2>4 DEF Viewed
    <2>5. CASE ~tail.dropping
        BY <2>1, <2>2, <2>3, <2>5 DEF Viewed
    <2> QED BY <2>4, <2>5
<1>2. LedgerInit => LedgerInv
    BY LedgerInvInit
<1>3. LedgerInv /\ [LedgerNext]_ledgerVars => LedgerInv'
    BY LedgerAssumption, LedgerInvNext
<1> QED BY <1>1, <1>2, <1>3, PTL DEF LedgerSpec
=============================================================================
