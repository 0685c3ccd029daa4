------------------------------ MODULE Affinity ------------------------------
(***************************************************************************)
(* The prefix-group dequeue policy of llama-router (router/affinity.hpp).  *)
(* The policy is a pure function of the entries queued for one model and   *)
(* of the burst it carries between grants, so it is a module of operators  *)
(* with no variables: Admission supplies both and keeps the burst.         *)
(*                                                                         *)
(* An entry is a record with the fields priority (lower is served first),  *)
(* group (NoGroup when the request is untagged) and arrival (the ordinal   *)
(* given under the controller's mutex).                                    *)
(***************************************************************************)
EXTENDS Integers, FiniteSets

CONSTANTS
    ContiguousDequeue,  \* affinity.contiguousDequeue: FALSE makes the policy plain FIFO
    NoGroup,            \* the empty optional group of an untagged request
    NoBurst             \* the empty optional burst

\* The least priority value queued: only entries of that class are eligible.
LowestPriority(entries) ==
    CHOOSE p \in {e.priority : e \in entries} : \A e \in entries : p <= e.priority

HighestArrival(entries) ==
    CHOOSE a \in {e.arrival : e \in entries} : \A e \in entries : e.arrival <= a

Oldest(entries) ==
    CHOOSE e \in entries : \A f \in entries : e.arrival <= f.arrival

OldestInClass(entries, priority) ==
    Oldest({e \in entries : e.priority = priority})

\* Mutant: members that arrive while the burst drains extend it.
BurstMembersWithoutCeiling(entries, burst) ==
    {e \in entries : e.priority = burst.priority /\ e.group = burst.group}

\* The members of the burst's group that were queued when the burst started.
BurstMembers(entries, burst) ==
    {e \in entries : /\ e.priority = burst.priority
                     /\ e.group = burst.group
                     /\ e.arrival <= burst.queuedThrough}

\* Mutant: a burst goes on although a higher class is queued.
BurstDrainsAcrossClasses(entries, burst) ==
    /\ ContiguousDequeue
    /\ burst # NoBurst
    /\ BurstMembers(entries, burst) # {}

\* The burst still decides the next grant: it belongs to the eligible class
\* and a member of it is left.
BurstDrains(entries, burst) ==
    /\ ContiguousDequeue
    /\ burst # NoBurst
    /\ burst.priority = LowestPriority(entries)
    /\ BurstMembers(entries, burst) # {}

\* The entry selectNext answers for a nonempty set of entries.
SelectNext(entries, burst) ==
    IF BurstDrains(entries, burst)
    THEN Oldest(BurstMembers(entries, burst))
    ELSE OldestInClass(entries, LowestPriority(entries))

\* The burst selectNext leaves behind.  startedBy is history: the arrival of
\* the head that opened the burst, which the code forgets.
BurstAfter(entries, burst) ==
    LET head == OldestInClass(entries, LowestPriority(entries))
    IN  IF BurstDrains(entries, burst) \/ ~ContiguousDequeue
        THEN burst
        ELSE IF head.group = NoGroup
             THEN NoBurst
             ELSE [priority      |-> head.priority,
                   group         |-> head.group,
                   queuedThrough |-> HighestArrival(entries),
                   startedBy     |-> head.arrival]
=============================================================================
