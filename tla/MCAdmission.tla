---------------------------- MODULE MCAdmission -----------------------------
(* An instance of Admission for TLC whose arrivals never end.                 *)
EXTENDS Admission

MCTwoClasses == [interactive |-> 0, batch |-> 2]

\* The ordinals something still names: entries and the bursts of the policies.
Bursts == {policies[m] : m \in Models} \ {NoPolicy, NoBurst}
Ordinals ==
    {e.arrival : e \in queue} \cup {b.queuedThrough : b \in Bursts}
                             \cup {b.startedBy : b \in Bursts}

Rank(a) == Cardinality({b \in Ordinals : b < a})

\* Arrivals without end on ordinals that have one: a 64-bit counter never runs
\* out and only the order of ordinals is ever read (affinity.hpp:69), so when
\* they are used up the ones still named are numbered afresh in their order.
Renumber ==
    /\ nextSequence = MaxArrivals
    /\ nextSequence' = Cardinality(Ordinals)
    /\ queue' = {[e EXCEPT !.arrival = Rank(@)] : e \in queue}
    /\ policies' = [m \in Models |->
           IF policies[m] \in Bursts
           THEN [policies[m] EXCEPT !.queuedThrough = Rank(@), !.startedBy = Rank(@)]
           ELSE policies[m]]
    /\ UNCHANGED <<status, slot, inflight>>

EndlessSpec == Init /\ [][Next \/ Renumber]_vars /\ ServiceEnds
=============================================================================
