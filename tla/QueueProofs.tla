----------------------------- MODULE QueueProofs -----------------------------
(***************************************************************************)
(* What a run's queue promises: proofs about Decompose, for every reply of *)
(* the planner, every amendment and every tree of names.  Its globs, its   *)
(* ids, the ops of an amendment, the invariant of the queue and its files, *)
(* the findings that cite its items, and the walk that looks for cycles.   *)
(* Then Clusters: how many things an item's criteria are about.            *)
(***************************************************************************)
EXTENDS Decompose, Clusters, IntegerSets

-----------------------------------------------------------------------------
(* Globs. *)

Segments == Names \cup Wildcards

Upto(e, p) ==
    LET upto[i \in 0..Len(e)] ==
            IF i = 0 THEN {0}
            ELSE LET before == upto[i - 1] IN
                 IF e[i] = "**" THEN {k \in 0..Len(p) : \E j \in before : j <= k}
                 ELSE {k \in 1..Len(p) : k - 1 \in before /\ e[i] \in {"*", p[k]}}
    IN  upto

Spans(e, p, before, i) ==
    IF e[i] = "**" THEN {k \in 0..Len(p) : \E j \in before : j <= k}
    ELSE {k \in 1..Len(p) : k - 1 \in before /\ e[i] \in {"*", p[k]}}

\* What the segments of a glob can stand for is the recursion it is defined as.
LEMMA UptoIsTheRecursion ==
    ASSUME NEW e, Len(e) \in Nat, NEW p, Len(p) \in Nat
    PROVE  \A i \in 0..Len(e) :
               /\ Upto(e, p)[i] \in SUBSET (0..Len(p))
               /\ Upto(e, p)[i] = IF i = 0 THEN {0} ELSE Spans(e, p, Upto(e, p)[i - 1], i)
<1> DEFINE V == SUBSET (0..Len(p))
           n == Len(e)
           next == [x \in V \X (1..n) |-> Spans(e, p, x[1], x[2])]
           Value(f, k) == IF k = 0 THEN {0} ELSE Spans(e, p, f[k - 1], k)
<1>1. {0} \in V
    OBVIOUS
<1>2. ASSUME NEW b \in V, NEW k \in 1..n PROVE Spans(e, p, b, k) \in V
    BY DEF Spans
<1>3. next \in [V \X (1..n) -> V]
    BY <1>2
<1>4. PICK f : Iterates(f, V, n, {0}, next)
    <2> HIDE DEF V, n, next
    <2>1. CanIterate(V, n, {0}, next)
        BY <1>1, <1>3 DEF CanIterate, n
    <2> QED BY <2>1, Iteration
<1>5. \A k \in 0..n : f[k] = Value(f, k)
    <2>1. ASSUME NEW k \in 0..n, k # 0 PROVE next[<<f[k - 1], k>>] = Spans(e, p, f[k - 1], k)
        <3>1. f[k - 1] \in V /\ k \in 1..n
            BY <1>4, <2>1 DEF Iterates
        <3> HIDE DEF V
        <3> QED BY <3>1
    <2> HIDE DEF next, V
    <2> QED BY <1>4, <2>1 DEF Iterates
<1>6. f = [k \in 0..n |-> Value(f, k)]
    <2>1. f \in [0..n -> V]
        BY <1>4 DEF Iterates
    <2> HIDE DEF Value, V
    <2> QED BY <1>5, <2>1
<1> DEFINE after == Upto(e, p)
<1>7. after = [k \in 0..n |-> Value(after, k)]
    BY <1>6, Zenon DEF Upto, Spans
<1>8. \A k \in 0..n : after[k] = Value(after, k)
    <2> HIDE DEF after, Value
    <2> QED BY <1>7
<1> DEFINE Wrong == {k \in 0..n : after[k] \notin V}
<1>9. Wrong = {}
    <2> SUFFICES ASSUME Wrong # {} PROVE FALSE
        OBVIOUS
    <2>1. PICK k \in Wrong : \A j \in Wrong : k <= j
        <3>1. Wrong \in SUBSET Nat
            OBVIOUS
        <3> HIDE DEF Wrong
        <3> QED BY <3>1, NatMin
    <2>2. CASE k = 0
        <3>1. after[0] = {0}
            <4> HIDE DEF after
            <4> QED BY <1>8
        <3> HIDE DEF after
        <3> QED BY <1>1, <2>1, <2>2, <3>1
    <2>3. CASE k # 0
        <3> HIDE DEF after
        <3>1. k \in 1..n /\ k - 1 \in 0..n /\ ~(k <= k - 1)
            BY <2>1, <2>3
        <3>2. after[k - 1] \in V
            <4> HIDE DEF V
            <4> QED BY <2>1, <3>1
        <3>3. after[k] = Spans(e, p, after[k - 1], k)
            BY <1>8, <2>3, <3>1
        <3> HIDE DEF V
        <3> QED BY <1>2, <2>1, <3>1, <3>2, <3>3
    <2> QED BY <2>2, <2>3
<1> HIDE DEF after, V
<1>10. \A k \in 0..n : after[k] \in V
    BY <1>9
<1> QED BY <1>8, <1>10 DEF after, V

\* In a matched path the literal segments that a glob begins with are the first ones.
LEMMA LiteralSegmentsAreKept ==
    ASSUME NEW e \in Seq(Segments), NEW p, Len(p) \in Nat, MatchSegments(e, p),
           NEW n \in 0..Len(e), \A k \in 1..n : e[k] \notin Wildcards
    PROVE  n <= Len(p) /\ \A k \in 1..n : p[k] = e[k]
<1> DEFINE after == Upto(e, p)
           Kept(i) == \A j \in after[i] : /\ i <= n => j = i
                                          /\ \A k \in 1..n : k <= i => k <= j /\ p[k] = e[k]
           Wrong == {i \in 0..Len(e) : ~Kept(i)}
<1>1. Len(e) \in Nat /\ Len(p) \in after[Len(e)]
    BY DEF MatchSegments, Upto
<1>2. \A i \in 0..Len(e) :
          /\ after[i] \in SUBSET (0..Len(p))
          /\ after[i] = IF i = 0 THEN {0} ELSE Spans(e, p, after[i - 1], i)
    <2> HIDE DEF after
    <2> QED BY <1>1, UptoIsTheRecursion DEF after
<1> HIDE DEF after
<1>3. Wrong = {}
    <2> SUFFICES ASSUME Wrong # {} PROVE FALSE
        OBVIOUS
    <2>1. PICK i \in Wrong : \A j \in Wrong : i <= j
        <3>1. Wrong \in SUBSET Nat
            OBVIOUS
        <3> HIDE DEF Wrong
        <3> QED BY <3>1, NatMin
    <2>2. i # 0
        <3>1. Kept(0)
            BY <1>1, <1>2
        <3> QED BY <2>1, <3>1
    <2>3. i \in 1..Len(e) /\ i - 1 \in 0..Len(e) /\ ~(i <= i - 1) /\ ~Kept(i)
        BY <1>1, <2>1, <2>2
    <2>4. Kept(i - 1)
        <3> HIDE DEF Kept
        <3> QED BY <2>1, <2>3
    <2>5. after[i] = Spans(e, p, after[i - 1], i)
        BY <1>2, <2>2, <2>3
    <2>6. after[i - 1] \in SUBSET (0..Len(p))
        BY <1>2, <2>3
    <2>7. ASSUME NEW j \in after[i]
          PROVE  /\ i <= n => j = i
                 /\ \A k \in 1..n : k <= i => k <= j /\ p[k] = e[k]
        <3>1. CASE e[i] = "**"
            <4>1. ~(i <= n)
                BY <2>3, <3>1 DEF Wildcards
            <4>2. PICK m \in after[i - 1] : m <= j
                BY <2>5, <2>7, <3>1 DEF Spans
            <4>3. m \in Nat /\ j \in Nat
                BY <2>5, <2>6, <2>7, <3>1 DEF Spans
            <4>4. ASSUME NEW k \in 1..n PROVE k <= j /\ p[k] = e[k]
                <5>1. k <= i - 1
                    BY <2>3, <4>1
                <5>2. k <= m /\ p[k] = e[k]
                    BY <2>4, <4>2, <5>1
                <5> QED BY <4>2, <4>3, <5>2
            <4> QED BY <4>1, <4>4
        <3>2. CASE e[i] # "**"
            <4>1. j \in 1..Len(p) /\ j - 1 \in after[i - 1] /\ e[i] \in {"*", p[j]}
                BY <2>5, <2>7, <3>2 DEF Spans
            <4>2. i <= n => j = i
                <5>1. i <= n => i - 1 <= n /\ j - 1 = i - 1
                    BY <2>3, <2>4, <4>1
                <5> QED BY <2>3, <4>1, <5>1
            <4>3. ASSUME NEW k \in 1..n, k <= i PROVE k <= j /\ p[k] = e[k]
                <5>1. CASE k = i
                    <6>1. j = i /\ e[i] \notin Wildcards
                        BY <2>3, <4>2, <5>1
                    <6> QED BY <4>1, <5>1, <6>1 DEF Wildcards
                <5>2. CASE k # i
                    <6>1. k <= i - 1
                        BY <2>3, <4>3, <5>2
                    <6>2. k <= j - 1 /\ p[k] = e[k]
                        BY <2>4, <4>1, <6>1
                    <6> QED BY <4>1, <6>2
                <5> QED BY <5>1, <5>2
            <4> QED BY <4>2, <4>3
        <3> QED BY <3>1, <3>2
    <2> QED BY <2>3, <2>7
<1>4. Kept(Len(e))
    <2> HIDE DEF Kept
    <2> QED BY <1>1, <1>3
<1>5. \A k \in 1..n : k <= Len(p) /\ p[k] = e[k]
    BY <1>1, <1>4
<1>6. n <= Len(p)
    BY <1>1, <1>5
<1> QED BY <1>5, <1>6

\* The literal head of a glob is what all its expansions begin with.
LEMMA HeadIsShared ==
    ASSUME NEW g, IsGlob(g)
    PROVE  /\ LiteralHead(g) \in Seq(Segments)
           /\ \A e \in g : /\ Len(LiteralHead(g)) <= Len(e)
                           /\ \A k \in 1..Len(LiteralHead(g)) :
                                 LiteralHead(g)[k] = e[k] /\ e[k] \notin Wildcards
<1> DEFINE first == CHOOSE e \in g : TRUE
           Fits(n) == Shared(g, n) /\ \A m \in 0..Len(first) : Shared(g, m) => m <= n
           n == CHOOSE n \in 0..Len(first) : Fits(n)
<1>1. first \in g /\ \A e \in g : e \in Seq(Segments)
    BY DEF IsGlob, Segments
<1>2. first \in Seq(Segments) /\ Len(first) \in Nat
    BY <1>1
<1>3. \E m \in 0..Len(first) : Fits(m)
    <2> DEFINE S == {m \in 0..Len(first) : Shared(g, m)}
    <2>1. 0 \in S
        BY <1>1, <1>2 DEF Shared
    <2>2. PICK m \in S : \A l \in S : l <= m
        <3>1. S \in SUBSET Int /\ S # {} /\ Len(first) \in Int /\ \A x \in S : x <= Len(first)
            <4> HIDE DEF first
            <4> QED BY <1>2, <2>1
        <3> HIDE DEF S
        <3> QED BY <3>1, IntMax
    <2> HIDE DEF first
    <2> QED BY <2>2
<1>4. n \in 0..Len(first) /\ Fits(n)
    <2> HIDE DEF first, Fits
    <2> QED BY <1>3
<1>5. LiteralHead(g) = SubSeq(first, 1, n)
    BY Zenon DEF LiteralHead
<1> HIDE DEF first, n
<1>6. /\ SubSeq(first, 1, n) \in Seq(Segments)
      /\ Len(SubSeq(first, 1, n)) = n
      /\ \A k \in 1..n : SubSeq(first, 1, n)[k] = first[k]
    BY <1>2, <1>4
<1>7. \A e \in g : n <= Len(e) /\ \A k \in 1..n : first[k] = e[k] /\ e[k] \notin Wildcards
    BY <1>1, <1>4 DEF Shared
<1> HIDE DEF Fits
<1> QED BY <1>5, <1>6, <1>7

\* What a glob matches begins with its literal head.
LEMMA MatchesBeginWithTheHead ==
    ASSUME NEW g, IsGlob(g), NEW p, Len(p) \in Nat, GlobMatch(g, p)
    PROVE  Len(LiteralHead(g)) <= Len(p) /\ \A k \in 1..Len(LiteralHead(g)) : p[k] = LiteralHead(g)[k]
<1> DEFINE h == LiteralHead(g)
<1>1. PICK e \in g : MatchSegments(e, p)
    BY DEF GlobMatch
<1>2. e \in Seq(Segments)
    BY DEF IsGlob, Segments
<1>3. h \in Seq(Segments) /\ Len(h) <= Len(e)
      /\ \A k \in 1..Len(h) : h[k] = e[k] /\ e[k] \notin Wildcards
    <2> HIDE DEF h
    <2> QED BY HeadIsShared DEF h
<1> HIDE DEF h
<1>4. Len(h) \in 0..Len(e)
    BY <1>2, <1>3
<1>5. Len(h) <= Len(p) /\ \A k \in 1..Len(h) : p[k] = e[k]
    BY <1>1, <1>2, <1>3, <1>4, LiteralSegmentsAreKept
<1>6. Len(h) <= Len(p) /\ \A k \in 1..Len(h) : p[k] = h[k]
    BY <1>3, <1>5
<1> QED BY <1>6 DEF h

\* Two globs whose literal heads part have no path in common.
LEMMA HeadsMeet ==
    ASSUME NEW g, IsGlob(g), NEW h, IsGlob(h), NEW p, Len(p) \in Nat, GlobMatch(g, p), GlobMatch(h, p)
    PROVE  HeadsOverlap(LiteralHead(g), LiteralHead(h))
<1>1. /\ LiteralHead(g) \in Seq(Segments)
      /\ \A k \in 1..Len(LiteralHead(g)) : p[k] = LiteralHead(g)[k]
    BY HeadIsShared, MatchesBeginWithTheHead
<1>2. /\ LiteralHead(h) \in Seq(Segments)
      /\ \A k \in 1..Len(LiteralHead(h)) : p[k] = LiteralHead(h)[k]
    BY HeadIsShared, MatchesBeginWithTheHead
<1> QED BY <1>1, <1>2 DEF HeadsOverlap

-----------------------------------------------------------------------------
(* The ids of a queue. *)

Distinct(q) == \A i, j \in DOMAIN q : q[i].id = q[j].id => i = j

\* A queue with as many ids as entries has each id once.
LEMMA IdsAreDistinct ==
    ASSUME NEW q \in Seq(QueueItems), Cardinality(IdsOf(q)) = Len(q)
    PROVE  Distinct(q)
<1> DEFINE S == 1..Len(q)
           T == IdsOf(q)
           f == [k \in S |-> q[k].id]
<1>1. Len(q) \in Nat /\ DOMAIN q = S
    OBVIOUS
<1>2. IsFiniteSet(S) /\ Cardinality(S) = Len(q)
    <2>1. ASSUME NEW n \in Nat PROVE IsFiniteSet(1..n) /\ Cardinality(1..n) = n
        BY ONLY <2>1, FS_Interval
    <2> QED BY ONLY <1>1, <2>1
<1>3. f \in [S -> T]
    BY <1>1 DEF IdsOf, Entries
<1>4. \A t \in T : \E k \in S : f[k] = t
    BY <1>1 DEF IdsOf, Entries
<1>5. f \in Surjection(S, T)
    <2> HIDE DEF f, S, T
    <2> QED BY <1>3, <1>4, Fun_IsSurj
<1>6. f \in Injection(S, T)
    <2>1. Cardinality(T) = Cardinality(S)
        BY <1>2
    <2> HIDE DEF f, S, T
    <2> QED BY <1>2, <1>5, <2>1, FS_Surjection
<1>7. \A i, j \in S : f[i] = f[j] => i = j
    <2> HIDE DEF f, S, T
    <2> QED BY <1>6, Fun_InjectionProperties
<1> QED BY <1>1, <1>7 DEF Distinct

\* Where an entry of a queue is, and which it is.
LEMMA IndexIsOfTheId ==
    ASSUME NEW q \in Seq(QueueItems), NEW id \in IdsOf(q)
    PROVE  IndexOf(q, id) \in DOMAIN q /\ q[IndexOf(q, id)].id = id
<1> DEFINE S == {k \in DOMAIN q : q[k].id = id}
           First(l) == q[l].id = id /\ \A j \in DOMAIN q : j < l => q[j].id # id
<1>1. DOMAIN q \subseteq Nat
    OBVIOUS
<1>2. S # {}
    BY DEF IdsOf, Entries
<1>3. PICK k \in S : \A j \in S : k <= j
    <2>1. S \in SUBSET Nat
        BY <1>1
    <2> HIDE DEF S
    <2> QED BY <1>2, <2>1, NatMin
<1>4. First(k)
    BY <1>1, <1>3
<1>5. \E l \in DOMAIN q : First(l)
    BY <1>4
<1>6. IndexOf(q, id) = CHOOSE l \in DOMAIN q : First(l)
    BY Zenon DEF IndexOf
<1>7. IndexOf(q, id) \in DOMAIN q /\ First(IndexOf(q, id))
    <2> HIDE DEF First
    <2> QED BY <1>5, <1>6
<1> QED BY <1>7

LEMMA EntryIsOfTheId ==
    ASSUME NEW q \in Seq(QueueItems), NEW id \in IdsOf(q)
    PROVE  EntryOf(q, id) \in Entries(q) /\ EntryOf(q, id).id = id
BY IndexIsOfTheId DEF EntryOf, Entries

LEMMA EntryIsTheOne ==
    ASSUME NEW q \in Seq(QueueItems), Distinct(q), NEW e \in Entries(q)
    PROVE  EntryOf(q, e.id) = e
<1>1. PICK k \in DOMAIN q : q[k] = e
    BY DEF Entries
<1>2. e.id \in IdsOf(q)
    BY DEF IdsOf
<1>3. IndexOf(q, e.id) \in DOMAIN q /\ q[IndexOf(q, e.id)].id = e.id
    BY <1>2, IndexIsOfTheId
<1> QED BY <1>1, <1>3 DEF Distinct, EntryOf

-----------------------------------------------------------------------------
(* The ops of an amendment. *)

Amended == [ok : BOOLEAN, queue : Seq(QueueItems), added : SUBSET Ids, updated : SUBSET Ids,
            removed : SUBSET Ids]

Added(r, acc, op) ==
    /\ op.id \notin IdsOf(acc.queue)
    /\ r.queue = Append(acc.queue, op.entry)
    /\ r.added = acc.added \cup {op.id} /\ r.removed = acc.removed \ {op.id}
Updated(r, acc, op) ==
    /\ r.queue = [acc.queue EXCEPT ![IndexOf(acc.queue, op.id)] = op.entry]
    /\ r.added = acc.added /\ r.removed = acc.removed
Removed(r, acc, op) ==
    /\ r.queue = RemoveAt(acc.queue, IndexOf(acc.queue, op.id))
    /\ r.added = acc.added \ {op.id}
    /\ r.removed = IF op.id \in acc.added THEN acc.removed ELSE acc.removed \cup {op.id}

LEMMA AmendmentTypes ==
    ASSUME NEW op \in Amendments
    PROVE  /\ op.op \in {"add", "update", "remove"} /\ op.id \in Ids
           /\ op.op # "remove" => op.entry \in QueueItems /\ op.entry.id = op.id
<1>1. op.op \in {"add", "update", "remove"}
    BY DecomposeAssumption
<1>2. op.id \in Ids
    BY DEF Ids
<1>3. ASSUME op.op # "remove" PROVE op.entry \in QueueItems /\ op.entry.id = op.id
    <2>1. op \in Rewrites
        BY <1>3 DEF Rewrites
    <2>2. op.entry.id = op.id
        BY <2>1, DecomposeAssumption
    <2>3. \A o \in Rewrites : o.entry \in {r.entry : r \in Rewrites}
        OBVIOUS
    <2>4. \A o \in Rewrites : o.entry \in QueueItems
        BY ONLY <2>3, Zenon DEF QueueItems
    <2> QED BY <2>1, <2>2, <2>4
<1> QED BY <1>1, <1>2, <1>3

LEMMA RemovedAt ==
    ASSUME NEW T, NEW q \in Seq(T), NEW i \in DOMAIN q
    PROVE  /\ RemoveAt(q, i) \in Seq(T)
           /\ Len(RemoveAt(q, i)) = Len(q) - 1
           /\ \A k \in 1..(Len(q) - 1) : RemoveAt(q, i)[k] = IF k < i THEN q[k] ELSE q[k + 1]
<1> DEFINE a == SubSeq(q, 1, i - 1)
           b == SubSeq(q, i + 1, Len(q))
<1>1. Len(q) \in Nat /\ i \in 1..Len(q)
    OBVIOUS
<1>2. a \in Seq(T) /\ Len(a) = i - 1 /\ \A k \in 1..(i - 1) : a[k] = q[k]
    BY <1>1
<1>3. b \in Seq(T) /\ Len(b) = Len(q) - i /\ \A k \in 1..(Len(q) - i) : b[k] = q[k + i]
    BY <1>1
<1>4. RemoveAt(q, i) = a \o b
    BY DEF RemoveAt
<1> HIDE DEF a, b
<1>5. /\ a \o b \in Seq(T)
      /\ Len(a \o b) = Len(a) + Len(b)
      /\ \A k \in 1..(Len(a) + Len(b)) : (a \o b)[k] = IF k <= Len(a) THEN a[k] ELSE b[k - Len(a)]
    <2>1. a \in Seq(T) /\ b \in Seq(T)
        BY <1>2, <1>3
    <2>2. a \o b \in Seq(T)
        BY <2>1
    <2>3. Len(a \o b) = Len(a) + Len(b)
        BY <2>1
    <2>4. \A k \in 1..(Len(a) + Len(b)) :
              (a \o b)[k] = IF k <= Len(a) THEN a[k] ELSE b[k - Len(a)]
        BY <2>1
    <2> QED BY <2>2, <2>3, <2>4
<1>6. ASSUME NEW k \in 1..(Len(q) - 1) PROVE (a \o b)[k] = IF k < i THEN q[k] ELSE q[k + 1]
    <2>1. Len(a) + Len(b) = Len(q) - 1
        BY <1>1, <1>2, <1>3
    <2>2. CASE k < i
        <3>1. k \in 1..(i - 1) /\ k <= Len(a)
            BY <1>1, <1>2, <2>2
        <3> QED BY <1>2, <1>5, <2>1, <2>2, <3>1
    <2>3. CASE ~(k < i)
        <3>1. k - (i - 1) \in 1..(Len(q) - i) /\ ~(k <= Len(a)) /\ (k - (i - 1)) + i = k + 1
            BY <1>1, <1>2, <2>3
        <3>2. b[k - (i - 1)] = q[k + 1]
            BY <1>3, <3>1
        <3>3. (a \o b)[k] = b[k - (i - 1)]
            BY <1>2, <1>5, <2>1, <3>1
        <3> QED BY <2>3, <3>2, <3>3
    <2> QED BY <2>2, <2>3
<1>7. Len(a \o b) = Len(q) - 1
    BY <1>1, <1>2, <1>3, <1>5
<1>8. RemoveAt(q, i) \in Seq(T)
    BY <1>4, <1>5
<1>9. Len(RemoveAt(q, i)) = Len(q) - 1
    BY <1>4, <1>7
<1>10. \A k \in 1..(Len(q) - 1) : RemoveAt(q, i)[k] = IF k < i THEN q[k] ELSE q[k + 1]
    BY <1>4, <1>6
<1> QED BY <1>8, <1>9, <1>10

\* What one op makes of the amendment so far.
LEMMA ApplyOpEffect ==
    ASSUME NEW acc \in Amended, NEW op \in Amendments
    PROVE  LET r == ApplyOp(acc, op) IN
           /\ r \in Amended
           /\ r.ok => /\ acc.ok /\ Applicable(op, acc)
                      /\ op.op = "add" => Added(r, acc, op)
                      /\ op.op = "update" => Updated(r, acc, op)
                      /\ op.op = "remove" => Removed(r, acc, op)
<1> DEFINE r == ApplyOp(acc, op)
           q == acc.queue
<1>1. /\ op.op \in {"add", "update", "remove"} /\ op.id \in Ids
      /\ op.op # "remove" => op.entry \in QueueItems
    BY AmendmentTypes
<1>2. q \in Seq(QueueItems) /\ acc.added \in SUBSET Ids /\ acc.updated \in SUBSET Ids
      /\ acc.removed \in SUBSET Ids /\ acc.ok \in BOOLEAN
    BY DEF Amended
<1>3. CASE ~(acc.ok /\ Applicable(op, acc))
    <2>1. r = [acc EXCEPT !.ok = FALSE]
        BY <1>3 DEF ApplyOp
    <2>2. r \in Amended /\ ~r.ok
        BY <2>1 DEF Amended
    <2> QED BY <2>2
<1>4. CASE acc.ok /\ Applicable(op, acc) /\ op.op = "add"
    <2> DEFINE n == [acc EXCEPT !.queue = Append(acc.queue, op.entry), !.added = acc.added \cup {op.id},
                                !.removed = acc.removed \ {op.id}]
    <2>1. r = n
        BY <1>4 DEF ApplyOp
    <2>2. Append(q, op.entry) \in Seq(QueueItems)
        BY <1>1, <1>2, <1>4
    <2>3. n \in Amended /\ Added(n, acc, op)
        BY <1>1, <1>2, <1>4, <2>2 DEF Amended, Added, Applicable
    <2> QED BY <1>4, <2>1, <2>3
<1>5. CASE acc.ok /\ Applicable(op, acc) /\ op.op = "update"
    <2> DEFINE u == IF op.id \in acc.added THEN acc.updated ELSE acc.updated \cup {op.id}
               s == [q EXCEPT ![IndexOf(q, op.id)] = op.entry]
               n == [acc EXCEPT !.queue = s, !.updated = u]
    <2>1. r = n
        BY <1>5 DEF ApplyOp
    <2>2. s \in Seq(QueueItems)
        <3>1. IndexOf(q, op.id) \in DOMAIN q
            BY <1>2, <1>5, IndexIsOfTheId DEF Applicable
        <3>2. op.entry \in QueueItems
            BY <1>1, <1>5
        <3> QED BY <1>2, <3>1, <3>2
    <2>3. n \in Amended /\ Updated(n, acc, op)
        BY <1>1, <1>2, <1>5, <2>2 DEF Amended, Updated
    <2> QED BY <1>5, <2>1, <2>3
<1>6. CASE acc.ok /\ Applicable(op, acc) /\ op.op = "remove"
    <2> DEFINE s == RemoveAt(q, IndexOf(q, op.id))
               n == [acc EXCEPT !.queue = s, !.updated = acc.updated \ {op.id}, !.added = acc.added \ {op.id},
                                !.removed = IF op.id \in acc.added THEN acc.removed
                                            ELSE acc.removed \cup {op.id}]
    <2>1. r = n
        BY <1>6 DEF ApplyOp
    <2>2. s \in Seq(QueueItems)
        <3>1. IndexOf(q, op.id) \in DOMAIN q
            BY <1>2, <1>6, IndexIsOfTheId DEF Applicable
        <3> QED BY <1>2, <3>1, RemovedAt
    <2>3. n \in Amended /\ Removed(n, acc, op)
        BY <1>1, <1>2, <1>6, <2>2 DEF Amended, Removed
    <2> QED BY <1>6, <2>1, <2>3
<1> QED BY <1>1, <1>3, <1>4, <1>5, <1>6

\* What the ops so far have made is consistent with the item files.
Proven(e) == [scope |-> e.scope, tests |-> e.tests]
SoundSoFar(acc) ==
    /\ Distinct(acc.queue)
    /\ acc.added \subseteq IdsOf(acc.queue)
    /\ acc.removed \cap IdsOf(acc.queue) = {}
    /\ \A e \in Entries(acc.queue) :
          e.id \in acc.added
          \/ (e.id \in DOMAIN files /\ (files[e.id] = "PENDING" \/ proven[e.id] = Proven(e)))

LEMMA AddKeeps ==
    ASSUME NEW acc \in Amended, SoundSoFar(acc), NEW r \in Amended, NEW op \in Amendments,
           op.op = "add", Added(r, acc, op)
    PROVE  SoundSoFar(r)
<1> DEFINE q == acc.queue
           x == op.entry
<1>1. q \in Seq(QueueItems) /\ x \in QueueItems /\ x.id = op.id /\ x.id \notin IdsOf(q)
    BY AmendmentTypes DEF Amended, Added
<1>2. /\ r.queue = Append(q, x) /\ r.added = acc.added \cup {x.id} /\ r.removed = acc.removed \ {x.id}
    BY <1>1 DEF Added
<1>3. Len(q) \in Nat /\ DOMAIN q = 1..Len(q)
    BY <1>1
<1>4. /\ DOMAIN r.queue = 1..(Len(q) + 1)
      /\ \A k \in 1..Len(q) : r.queue[k] = q[k]
      /\ r.queue[Len(q) + 1] = x
    BY <1>1, <1>2
<1>5. Entries(r.queue) = Entries(q) \cup {x}
    <2> DEFINE s == r.queue
    <2> HIDE DEF q, x, s
    <2>1. 1..(Len(q) + 1) = (1..Len(q)) \cup {Len(q) + 1}
        BY ONLY <1>3
    <2>2. ASSUME NEW e \in Entries(s) PROVE e \in Entries(q) \cup {x}
        BY ONLY <1>3, <1>4, <2>1, <2>2 DEF Entries, s
    <2>3. ASSUME NEW e \in Entries(q) PROVE e \in Entries(s)
        BY ONLY <1>3, <1>4, <2>1, <2>3 DEF Entries, s
    <2>4. x \in Entries(s)
        BY ONLY <1>4, <2>1 DEF Entries, s
    <2> QED BY <2>2, <2>3, <2>4 DEF s
<1>6. IdsOf(r.queue) = IdsOf(q) \cup {x.id}
    BY <1>5 DEF IdsOf
<1> HIDE DEF q, x
<1>7. Distinct(r.queue)
    <2>1. ASSUME NEW i \in 1..Len(q), NEW j \in 1..Len(q), q[i].id = q[j].id PROVE i = j
        BY <1>3, <2>1 DEF SoundSoFar, Distinct, q
    <2>2. ASSUME NEW i \in 1..Len(q) PROVE q[i].id # x.id
        BY <1>1, <1>3 DEF IdsOf, Entries
    <2>3. \A i \in 1..(Len(q) + 1) : i \in 1..Len(q) \/ i = Len(q) + 1
        BY <1>3
    <2> QED BY <1>4, <2>1, <2>2, <2>3 DEF Distinct
<1>8. ASSUME NEW e \in Entries(r.queue)
      PROVE  e.id \in r.added
             \/ (e.id \in DOMAIN files /\ (files[e.id] = "PENDING" \/ proven[e.id] = Proven(e)))
    BY <1>2, <1>5 DEF SoundSoFar, q
<1>9. r.added \subseteq IdsOf(r.queue) /\ r.removed \cap IdsOf(r.queue) = {}
    BY <1>2, <1>6 DEF SoundSoFar, q
<1> QED BY <1>7, <1>8, <1>9 DEF SoundSoFar

LEMMA UpdateKeeps ==
    ASSUME NEW acc \in Amended, SoundSoFar(acc), NEW r \in Amended, NEW op \in Amendments,
           op.op = "update", Applicable(op, acc), Updated(r, acc, op)
    PROVE  SoundSoFar(r)
<1> DEFINE q == acc.queue
           x == op.entry
           at == IndexOf(q, op.id)
<1>1. q \in Seq(QueueItems) /\ x \in QueueItems /\ x.id = op.id /\ op.id \in IdsOf(q)
    BY AmendmentTypes DEF Amended, Applicable
<1>2. at \in DOMAIN q /\ q[at].id = x.id
    BY <1>1, IndexIsOfTheId
<1>3. r.queue = [q EXCEPT ![at] = x] /\ r.added = acc.added /\ r.removed = acc.removed
    BY DEF Updated
<1>4. EntryOf(q, x.id) = q[at]
    BY <1>1 DEF EntryOf
<1> HIDE DEF at
<1>5. DOMAIN r.queue = DOMAIN q /\ \A k \in DOMAIN q : r.queue[k] = IF k = at THEN x ELSE q[k]
    BY <1>1, <1>2, <1>3
<1>6. \A k \in DOMAIN q : r.queue[k].id = q[k].id
    BY <1>2, <1>5
<1>7. IdsOf(r.queue) = IdsOf(q)
    BY <1>5, <1>6 DEF IdsOf, Entries
<1>8. Distinct(r.queue)
    BY <1>5, <1>6 DEF SoundSoFar, Distinct
<1>9. ASSUME NEW k \in DOMAIN q, r.queue[k].id \notin acc.added
      PROVE  LET e == r.queue[k] IN
             e.id \in DOMAIN files /\ (files[e.id] = "PENDING" \/ proven[e.id] = Proven(e))
    <2>1. q[k].id \in DOMAIN files /\ (files[q[k].id] = "PENDING" \/ proven[q[k].id] = Proven(q[k]))
        BY <1>6, <1>9 DEF SoundSoFar, Entries
    <2>2. CASE k # at
        BY <1>5, <2>1, <2>2
    <2>3. CASE k = at
        <3>1. r.queue[k] = x /\ x.id = q[k].id /\ x.id \notin acc.added
            BY <1>2, <1>5, <1>6, <1>9, <2>3
        <3>2. files[x.id] # "PENDING" => x.scope = q[at].scope /\ x.tests = q[at].tests
            BY <1>1, <1>4, <3>1 DEF Applicable
        <3>3. files[x.id] # "PENDING" => Proven(x) = Proven(q[k])
            BY <2>3, <3>2 DEF Proven
        <3> QED BY <2>1, <3>1, <3>3
    <2> QED BY <2>2, <2>3
<1>10. ASSUME NEW e \in Entries(r.queue)
       PROVE  e.id \in r.added
              \/ (e.id \in DOMAIN files /\ (files[e.id] = "PENDING" \/ proven[e.id] = Proven(e)))
    <2>1. PICK k \in DOMAIN q : e = r.queue[k]
        BY <1>5 DEF Entries
    <2> QED BY <1>3, <1>9, <2>1
<1>11. r.added \subseteq IdsOf(r.queue) /\ r.removed \cap IdsOf(r.queue) = {}
    BY <1>3, <1>7 DEF SoundSoFar
<1> QED BY <1>8, <1>10, <1>11 DEF SoundSoFar

LEMMA RemoveKeeps ==
    ASSUME NEW acc \in Amended, SoundSoFar(acc), NEW r \in Amended, NEW op \in Amendments,
           op.op = "remove", Applicable(op, acc), Removed(r, acc, op)
    PROVE  SoundSoFar(r)
<1> DEFINE q == acc.queue
           at == IndexOf(q, op.id)
           n == Len(q)
           s == r.queue
<1>1. q \in Seq(QueueItems) /\ op.id \in IdsOf(q) /\ n \in Nat /\ DOMAIN q = 1..n
    BY DEF Amended, Applicable
<1>2. at \in 1..n /\ q[at].id = op.id
    BY <1>1, IndexIsOfTheId
<1>3. /\ s = RemoveAt(q, at) /\ r.added = acc.added \ {op.id}
      /\ r.removed = IF op.id \in acc.added THEN acc.removed ELSE acc.removed \cup {op.id}
    BY DEF Removed
<1> HIDE DEF at
<1>4. /\ s \in Seq(QueueItems) /\ Len(s) = n - 1
      /\ \A k \in 1..(n - 1) : s[k] = IF k < at THEN q[k] ELSE q[k + 1]
    BY <1>1, <1>2, <1>3, RemovedAt
<1> HIDE DEF q, n, s
<1>5. DOMAIN s = 1..(n - 1)
    BY <1>4
<1> DEFINE was(k) == IF k < at THEN k ELSE k + 1
<1>6. \A k \in 1..(n - 1) : was(k) \in 1..n /\ was(k) # at /\ s[k] = q[was(k)]
    BY <1>1, <1>2, <1>4
<1>7. \A i, j \in 1..(n - 1) : was(i) = was(j) => i = j
    BY <1>1, <1>2
<1>8. \A i, j \in 1..n : q[i].id = q[j].id => i = j
    BY <1>1 DEF SoundSoFar, Distinct, q
<1>9. Distinct(s)
    <2> HIDE DEF was
    <2> QED BY <1>5, <1>6, <1>7, <1>8 DEF Distinct
<1>10. Entries(s) \subseteq Entries(q) /\ op.id \notin IdsOf(s)
    <2> HIDE DEF was
    <2> QED BY <1>1, <1>2, <1>5, <1>6, <1>8 DEF Entries, IdsOf
<1>11. ASSUME NEW e \in Entries(q), e.id # op.id PROVE e \in Entries(s)
    <2>1. PICK k \in 1..n : e = q[k]
        BY <1>1 DEF Entries
    <2>2. k # at
        BY <1>2, <1>11, <2>1
    <2>3. CASE k < at
        <3>1. k \in 1..(n - 1) /\ s[k] = q[k]
            BY <1>1, <1>2, <1>4, <2>3
        <3> QED BY <1>5, <2>1, <3>1 DEF Entries
    <2>4. CASE ~(k < at)
        <3>1. k - 1 \in 1..(n - 1) /\ ~(k - 1 < at) /\ (k - 1) + 1 = k
            BY <1>1, <1>2, <2>2, <2>4
        <3>2. s[k - 1] = q[k]
            BY <1>4, <3>1
        <3> QED BY <1>5, <2>1, <3>1, <3>2 DEF Entries
    <2> QED BY <2>3, <2>4
<1>12. IdsOf(s) = IdsOf(q) \ {op.id}
    BY <1>10, <1>11 DEF IdsOf
<1>13. r.added \subseteq IdsOf(s) /\ r.removed \cap IdsOf(s) = {}
    BY <1>3, <1>12 DEF SoundSoFar, q
<1>14. ASSUME NEW e \in Entries(s)
       PROVE  e.id \in r.added
              \/ (e.id \in DOMAIN files /\ (files[e.id] = "PENDING" \/ proven[e.id] = Proven(e)))
    <2>1. e \in Entries(q) /\ e.id # op.id
        BY <1>10 DEF IdsOf
    <2> QED BY <1>3, <2>1 DEF SoundSoFar, q
<1> QED BY <1>9, <1>13, <1>14 DEF SoundSoFar, s

\* The ops of an amendment in turn are the recursion they are defined as.
LEMMA AppliedIsTheRecursion ==
    ASSUME NEW ops \in OpLists, queued \in Seq(QueueItems)
    PROVE  \A k \in 0..Len(ops) :
               /\ Applied(ops)[k] \in Amended
               /\ Applied(ops)[k] =
                     IF k = 0 THEN [ok |-> ops # <<>>, queue |-> queued, added |-> {}, updated |-> {},
                                    removed |-> {}]
                     ELSE ApplyOp(Applied(ops)[k - 1], ops[k])
<1> DEFINE V == Amended
           n == Len(ops)
           start == [ok |-> ops # <<>>, queue |-> queued, added |-> {}, updated |-> {}, removed |-> {}]
           next == [x \in V \X (1..n) |-> ApplyOp(x[1], ops[x[2]])]
           Value(f, k) == IF k = 0 THEN start ELSE ApplyOp(f[k - 1], ops[k])
<1>0. ops \in Seq(Amendments) /\ n \in Nat
    BY DecomposeAssumption
<1>1. start \in V
    BY DEF Amended
<1>2. ASSUME NEW b \in V, NEW k \in 1..n PROVE ApplyOp(b, ops[k]) \in V
    <2>1. ops[k] \in Amendments
        BY <1>0
    <2> QED BY <2>1, ApplyOpEffect
<1>3. next \in [V \X (1..n) -> V]
    <2> HIDE DEF V
    <2> QED BY <1>2
<1> HIDE DEF start
<1>4. PICK f : Iterates(f, V, n, start, next)
    <2> HIDE DEF V, n, next
    <2>1. CanIterate(V, n, start, next)
        BY <1>0, <1>1, <1>3 DEF CanIterate, n
    <2> QED BY <2>1, Iteration
<1>5. \A k \in 0..n : f[k] = Value(f, k)
    <2>1. ASSUME NEW k \in 0..n, k # 0 PROVE next[<<f[k - 1], k>>] = ApplyOp(f[k - 1], ops[k])
        <3>1. f[k - 1] \in V /\ k \in 1..n
            BY <1>0, <1>4, <2>1 DEF Iterates
        <3> HIDE DEF V
        <3> QED BY <3>1
    <2> HIDE DEF next, V
    <2> QED BY <1>4, <2>1 DEF Iterates
<1>6. f = [k \in 0..n |-> Value(f, k)]
    <2>1. f \in [0..n -> V]
        BY <1>4 DEF Iterates
    <2> HIDE DEF Value, V
    <2> QED BY <1>5, <2>1
<1> DEFINE after == Applied(ops)
<1>7. after = [k \in 0..n |-> Value(after, k)]
    BY <1>6, Zenon DEF Applied, start
<1>8. \A k \in 0..n : after[k] = Value(after, k)
    <2> HIDE DEF after, Value
    <2> QED BY <1>7
<1> HIDE DEF after, V
<1> DEFINE Wrong == {k \in 0..n : after[k] \notin V}
<1>9. Wrong = {}
    <2> SUFFICES ASSUME Wrong # {} PROVE FALSE
        OBVIOUS
    <2>1. PICK k \in Wrong : \A j \in Wrong : k <= j
        <3>1. Wrong \in SUBSET Nat
            OBVIOUS
        <3> HIDE DEF Wrong
        <3> QED BY <3>1, NatMin
    <2>2. CASE k = 0
        <3>1. after[0] = start
            BY <1>0, <1>8
        <3> QED BY <1>1, <2>1, <2>2, <3>1
    <2>3. CASE k # 0
        <3>1. k \in 1..n /\ k - 1 \in 0..n /\ ~(k <= k - 1)
            BY <1>0, <2>1, <2>3
        <3>2. after[k - 1] \in V
            BY <2>1, <3>1
        <3>3. after[k] = ApplyOp(after[k - 1], ops[k])
            BY <1>8, <2>3, <3>1
        <3> QED BY <1>2, <2>1, <3>1, <3>2, <3>3
    <2> QED BY <2>2, <2>3
<1>10. \A k \in 0..n : after[k] \in V
    BY <1>9
<1> QED BY <1>8, <1>10 DEF after, V, start

LEMMA AmendmentIsSound ==
    ASSUME NEW ops \in OpLists, queued \in Seq(QueueItems), Distinct(queued),
           \A e \in Entries(queued) :
               e.id \in DOMAIN files /\ (files[e.id] = "PENDING" \/ proven[e.id] = Proven(e))
    PROVE  /\ ApplyAmendOps(ops) \in Amended
           /\ ApplyAmendOps(ops).ok => SoundSoFar(ApplyAmendOps(ops))
<1> DEFINE n == Len(ops)
           after == Applied(ops)
           Wrong == {k \in 0..n : after[k].ok /\ ~SoundSoFar(after[k])}
<1>1. ops \in Seq(Amendments) /\ n \in Nat
    BY DecomposeAssumption
<1>2. \A k \in 0..n :
          /\ after[k] \in Amended
          /\ after[k] = IF k = 0 THEN [ok |-> ops # <<>>, queue |-> queued, added |-> {}, updated |-> {},
                                       removed |-> {}]
                        ELSE ApplyOp(after[k - 1], ops[k])
    BY AppliedIsTheRecursion
<1> HIDE DEF after
<1>3. Wrong = {}
    <2> SUFFICES ASSUME Wrong # {} PROVE FALSE
        OBVIOUS
    <2>1. PICK k \in Wrong : \A j \in Wrong : k <= j
        <3>1. Wrong \in SUBSET Nat
            OBVIOUS
        <3> HIDE DEF Wrong
        <3> QED BY <3>1, NatMin
    <2>2. CASE k = 0
        <3>1. after[k].queue = queued /\ after[k].added = {} /\ after[k].removed = {}
            BY <1>1, <1>2, <2>2
        <3>2. SoundSoFar(after[k])
            BY <3>1 DEF SoundSoFar
        <3> QED BY <2>1, <3>2
    <2>3. CASE k # 0
        <3> DEFINE acc == after[k - 1]
                   op == ops[k]
                   r == after[k]
        <3>1. k \in 1..n /\ k - 1 \in 0..n /\ ~(k <= k - 1)
            BY <1>1, <2>1, <2>3
        <3>2. op \in Amendments /\ acc \in Amended /\ r \in Amended /\ r = ApplyOp(acc, op)
            BY <1>1, <1>2, <2>3, <3>1
        <3>3. acc.ok => SoundSoFar(acc)
            BY <2>1, <3>1
        <3>4. r.ok /\ ~SoundSoFar(r)
            BY <2>1
        <3>6. op.op \in {"add", "update", "remove"}
            BY <3>2, AmendmentTypes
        <3> HIDE DEF acc, op, r
        <3>5. /\ acc.ok /\ Applicable(op, acc)
              /\ op.op = "add" => Added(r, acc, op)
              /\ op.op = "update" => Updated(r, acc, op)
              /\ op.op = "remove" => Removed(r, acc, op)
            BY <3>2, <3>4, ApplyOpEffect
        <3>7. SoundSoFar(acc)
            BY <3>3, <3>5
        <3> QED BY <3>2, <3>4, <3>5, <3>6, <3>7, AddKeeps, UpdateKeeps, RemoveKeeps
    <2> QED BY <2>2, <2>3
<1>4. ApplyAmendOps(ops) = after[n]
    BY DEF ApplyAmendOps, after
<1> QED BY <1>1, <1>2, <1>3, <1>4

-----------------------------------------------------------------------------
(* The invariant. *)

Scopes == {Proven(e) : e \in QueueItems} \cup {Nothing}

DecomposeTypes ==
    /\ behavioralPaths \in BehavioralSets
    /\ tries \in 0..PlannerAttempts
    /\ candidate \in Seq(QueueItems) /\ queued \in Seq(QueueItems)
    /\ files \in UNION {[S -> {"PENDING", "RED", "VALIDATED"}] : S \in SUBSET Ids}
    /\ proven \in [Ids -> Scopes]
    /\ applied \in Amended
    /\ writing \in {"nothing", "births", "queue", "removals"}
    /\ orphans \in SUBSET Ids
    /\ amends \in Nat /\ kills \in Nat

\* A queue is planned once, and only while there is none.
PlannedFirst ==
    /\ tries > 0 => queued = <<>>
    /\ writing # "nothing" => queued # <<>>
    /\ writing = "nothing" => applied = NoAmendment

QueuesAreValid ==
    /\ queued # <<>> => ValidQueue(queued, behavioralPaths)
    /\ writing # "nothing" => ValidQueue(applied.queue, behavioralPaths)

\* What is being written is whole once it is written.
AmendmentIsWhole ==
    /\ writing # "nothing" =>
          /\ applied.added \subseteq IdsOf(applied.queue)
          /\ applied.removed \cap IdsOf(applied.queue) = {}
          /\ \A e \in Entries(applied.queue) :
                e.id \in applied.added
                \/ (e.id \in DOMAIN files /\ (files[e.id] = "PENDING" \/ proven[e.id] = Proven(e)))
    /\ writing \in {"queue", "removals"} =>
          \A i \in applied.added : i \in DOMAIN files /\ files[i] = "PENDING"
    /\ writing \in {"births", "queue"} =>
          DOMAIN files \ IdsOf(applied.queue) \subseteq orphans \cup applied.added \cup applied.removed
    /\ writing = "removals" => queued = applied.queue

DecomposeInv ==
    DecomposeTypes /\ PlannedFirst /\ QueuesAreValid /\ AmendmentIsWhole /\ AmendedItemsAreWhole

LEMMA IdsOfEntries ==
    ASSUME NEW q \in Seq(QueueItems)
    PROVE  Entries(q) \subseteq QueueItems /\ IdsOf(q) \subseteq Ids
BY DEF Entries, IdsOf, Ids

LEMMA ValidQueuesAreDistinct ==
    ASSUME NEW q \in Seq(QueueItems), NEW b, ValidQueue(q, b)
    PROVE  q # <<>> /\ Distinct(q)
BY IdsAreDistinct DEF ValidQueue

LEMMA ProposalsAreQueues ==
    ASSUME NEW q \in Proposals
    PROVE  q \in Seq(QueueItems)
BY DecomposeAssumption

LEMMA DecomposeInitially ==
    ASSUME DecomposeInit
    PROVE  DecomposeInv
<1> USE DEF DecomposeInit
<1>1. <<>> \in Seq(QueueItems) /\ PlannerAttempts \in Nat
    BY DEF PlannerAttempts
<1>2. proven \in [Ids -> Scopes]
    BY DEF Scopes
<1>3. files \in UNION {[S -> {"PENDING", "RED", "VALIDATED"}] : S \in SUBSET Ids}
    <2>1. files \in [{} -> {"PENDING", "RED", "VALIDATED"}]
        OBVIOUS
    <2>2. {} \in SUBSET Ids
        OBVIOUS
    <2> QED BY <2>1, <2>2
<1>4. applied \in Amended
    BY <1>1 DEF NoAmendment, Amended
<1>5. DecomposeTypes
    BY <1>1, <1>2, <1>3, <1>4 DEF DecomposeTypes
<1>6. PlannedFirst /\ QueuesAreValid /\ AmendmentIsWhole /\ AmendedItemsAreWhole
    BY DEF PlannedFirst, QueuesAreValid, AmendmentIsWhole, AmendedItemsAreWhole
<1> QED BY <1>5, <1>6 DEF DecomposeInv

LEMMA CallKeeps ==
    ASSUME DecomposeInv, Call
    PROVE  DecomposeInv'
<1> USE DEF Call
<1>1. DecomposeTypes'
    BY DEF DecomposeInv, DecomposeTypes, PlannerAttempts
<1>2. PlannedFirst' /\ QueuesAreValid' /\ AmendmentIsWhole'
    BY DEF DecomposeInv, PlannedFirst, QueuesAreValid, AmendmentIsWhole
<1>3. AmendedItemsAreWhole'
    BY DEF AmendedItemsAreWhole
<1> QED BY <1>1, <1>2, <1>3 DEF DecomposeInv

LEMMA PlannerRepliesKeeps ==
    ASSUME DecomposeInv, PlannerReplies
    PROVE  DecomposeInv'
<1>1. PICK q \in Proposals :
          /\ tries > 0
          /\ candidate' = IF ValidQueue(q, behavioralPaths) \/ tries = PlannerAttempts THEN q ELSE <<>>
          /\ tries' = IF ValidQueue(q, behavioralPaths) \/ tries = PlannerAttempts THEN 0 ELSE tries + 1
          /\ queued' = IF ValidQueue(q, behavioralPaths) THEN q ELSE queued
          /\ files' = IF ValidQueue(q, behavioralPaths) THEN [i \in IdsOf(q) |-> "PENDING"] ELSE files
          /\ UNCHANGED <<behavioralPaths, proven, applied, writing, orphans, amends, kills>>
    BY Zenon DEF PlannerReplies
<1>2. q \in Seq(QueueItems) /\ IdsOf(q) \subseteq Ids /\ <<>> \in Seq(QueueItems)
    BY ProposalsAreQueues, IdsOfEntries
<1>3. queued = <<>> /\ writing = "nothing" /\ applied = NoAmendment
    BY <1>1 DEF DecomposeInv, PlannedFirst, DecomposeTypes, PlannerAttempts
<1>4. DecomposeTypes'
    <2>1. candidate' \in Seq(QueueItems) /\ queued' \in Seq(QueueItems)
        BY <1>1, <1>2, <1>3
    <2>2. tries' \in 0..PlannerAttempts
        BY <1>1 DEF DecomposeInv, DecomposeTypes, PlannerAttempts
    <2>3. files' \in UNION {[S -> {"PENDING", "RED", "VALIDATED"}] : S \in SUBSET Ids}
        <3>1. [i \in IdsOf(q) |-> "PENDING"] \in [IdsOf(q) -> {"PENDING", "RED", "VALIDATED"}]
            OBVIOUS
        <3>2. [i \in IdsOf(q) |-> "PENDING"] \in UNION {[S -> {"PENDING", "RED", "VALIDATED"}] : S \in SUBSET Ids}
            BY <1>2, <3>1
        <3> QED BY <1>1, <3>2 DEF DecomposeInv, DecomposeTypes
    <2> QED BY <1>1, <2>1, <2>2, <2>3 DEF DecomposeInv, DecomposeTypes
<1>5. PlannedFirst'
    <2>1. tries' > 0 => queued' = <<>>
        BY <1>1, <1>3
    <2> QED BY <1>1, <1>3, <2>1 DEF PlannedFirst
<1>6. QueuesAreValid'
    BY <1>1, <1>3 DEF QueuesAreValid
<1>7. AmendmentIsWhole'
    BY <1>1, <1>3 DEF AmendmentIsWhole
<1>8. AmendedItemsAreWhole'
    <2>1. CASE ValidQueue(q, behavioralPaths)
        <3>1. queued' = q /\ files' = [i \in IdsOf(q) |-> "PENDING"]
            BY <1>1, <2>1
        <3>2. \A e \in Entries(q) : e.id \in IdsOf(q)
            BY DEF IdsOf
        <3> QED BY <3>1, <3>2 DEF AmendedItemsAreWhole
    <2>2. CASE ~ValidQueue(q, behavioralPaths)
        BY <1>1, <1>3, <2>2 DEF AmendedItemsAreWhole
    <2> QED BY <2>1, <2>2
<1> QED BY <1>4, <1>5, <1>6, <1>7, <1>8 DEF DecomposeInv

LEMMA AdvanceKeeps ==
    ASSUME DecomposeInv, NEW id \in Ids, Advance(id)
    PROVE  DecomposeInv'
<1> DEFINE e == EntryOf(queued, id)
<1>1. /\ writing = "nothing" /\ id \in IdsOf(queued) /\ id \in DOMAIN files
      /\ UNCHANGED <<behavioralPaths, tries, candidate, queued, applied, writing, orphans, amends, kills>>
      /\ \/ /\ files[id] = "PENDING"
            /\ files' = [files EXCEPT ![id] = "RED"] /\ proven' = [proven EXCEPT ![id] = Proven(e)]
         \/ files[id] = "RED" /\ files' = [files EXCEPT ![id] = "VALIDATED"] /\ UNCHANGED proven
    BY DEF Advance, Proven
<1>2. queued \in Seq(QueueItems) /\ proven \in [Ids -> Scopes]
    BY DEF DecomposeInv, DecomposeTypes
<1>3. e \in Entries(queued) /\ e.id = id /\ e \in QueueItems
    BY <1>1, <1>2, EntryIsOfTheId, IdsOfEntries
<1>4. queued # <<>> /\ Distinct(queued)
    <2>1. queued # <<>>
        BY <1>1 DEF IdsOf, Entries
    <2> QED BY <1>2, <2>1, ValidQueuesAreDistinct DEF DecomposeInv, QueuesAreValid
<1> HIDE DEF e
<1>5. PICK S \in SUBSET Ids : files \in [S -> {"PENDING", "RED", "VALIDATED"}]
    BY DEF DecomposeInv, DecomposeTypes
<1>6. files' \in [S -> {"PENDING", "RED", "VALIDATED"}] /\ proven' \in [Ids -> Scopes]
    BY <1>1, <1>2, <1>3, <1>5 DEF Scopes
<1>7. DecomposeTypes'
    <2>1. files' \in UNION {[T -> {"PENDING", "RED", "VALIDATED"}] : T \in SUBSET Ids}
        BY <1>6
    <2> QED BY <1>1, <1>6, <2>1 DEF DecomposeInv, DecomposeTypes
<1>8. PlannedFirst' /\ QueuesAreValid' /\ AmendmentIsWhole'
    BY <1>1 DEF DecomposeInv, PlannedFirst, QueuesAreValid, AmendmentIsWhole
<1>9. AmendedItemsAreWhole'
    <2> SUFFICES ASSUME tries = 0
                 PROVE  /\ IdsOf(queued) \subseteq DOMAIN files'
                        /\ DOMAIN files' \ IdsOf(queued) \subseteq orphans \cup applied.added \cup applied.removed
                        /\ \A f \in Entries(queued) : files'[f.id] # "PENDING" => proven'[f.id] = Proven(f)
        BY <1>1 DEF AmendedItemsAreWhole, Proven
    <2>1. DOMAIN files' = DOMAIN files
        BY <1>5, <1>6
    <2>2. ASSUME NEW f \in Entries(queued), files'[f.id] # "PENDING" PROVE proven'[f.id] = Proven(f)
        <3>1. f.id \in DOMAIN files /\ (files[f.id] # "PENDING" => proven[f.id] = Proven(f))
            BY <1>4 DEF DecomposeInv, AmendedItemsAreWhole, IdsOf, Proven
        <3>2. CASE f.id # id
            <4>1. files'[f.id] = files[f.id] /\ proven'[f.id] = proven[f.id]
                BY <1>1, <1>2, <1>5, <3>1, <3>2
            <4> QED BY <2>2, <3>1, <4>1
        <3>3. CASE f.id = id
            <4>1. f = e
                BY <1>2, <1>4, <3>3, EntryIsTheOne DEF e
            <4>2. proven'[id] = Proven(e) \/ (files[id] = "RED" /\ proven' = proven)
                BY <1>1, <1>2
            <4> QED BY <3>1, <3>3, <4>1, <4>2
        <3> QED BY <3>2, <3>3
    <2> QED BY <1>4, <2>1, <2>2 DEF DecomposeInv, AmendedItemsAreWhole
<1> QED BY <1>7, <1>8, <1>9 DEF DecomposeInv

LEMMA QueueAmendKeeps ==
    ASSUME DecomposeInv, NEW ops \in OpLists, QueueAmend(ops)
    PROVE  DecomposeInv'
<1> DEFINE result == ApplyAmendOps(ops)
<1>1. /\ queued # <<>> /\ writing = "nothing"
      /\ result.ok /\ ValidQueue(result.queue, behavioralPaths)
      /\ candidate' = result.queue /\ applied' = result /\ writing' = "births"
      /\ orphans' = orphans \cup (IdsOf(queued) \ (IdsOf(result.queue) \cup result.removed))
      /\ amends' = amends + 1
      /\ UNCHANGED <<behavioralPaths, tries, queued, files, proven, kills>>
    BY DEF QueueAmend
<1>2. queued \in Seq(QueueItems)
    BY DEF DecomposeInv, DecomposeTypes
<1>3. applied = NoAmendment /\ tries = 0
    BY <1>1 DEF DecomposeInv, PlannedFirst, DecomposeTypes, PlannerAttempts
<1>4. Distinct(queued)
    BY <1>1, <1>2, ValidQueuesAreDistinct DEF DecomposeInv, QueuesAreValid
<1>5. \A e \in Entries(queued) :
          e.id \in DOMAIN files /\ (files[e.id] = "PENDING" \/ proven[e.id] = Proven(e))
    BY <1>1, <1>3 DEF DecomposeInv, AmendedItemsAreWhole, IdsOf, Proven
<1>6. result \in Amended /\ SoundSoFar(result)
    BY <1>1, <1>2, <1>4, <1>5, AmendmentIsSound
<1> HIDE DEF result
<1>7. DecomposeTypes'
    <2>1. result.queue \in Seq(QueueItems)
        BY <1>6 DEF Amended
    <2>2. IdsOf(queued) \subseteq Ids
        BY <1>2, IdsOfEntries
    <2> QED BY <1>1, <1>6, <2>1, <2>2 DEF DecomposeInv, DecomposeTypes
<1>8. PlannedFirst' /\ QueuesAreValid'
    BY <1>1, <1>3 DEF DecomposeInv, PlannedFirst, QueuesAreValid
<1>9. DOMAIN files \subseteq IdsOf(queued) \cup orphans
    BY <1>1, <1>3 DEF DecomposeInv, AmendedItemsAreWhole, NoAmendment
<1>10. AmendmentIsWhole'
    <2>1. /\ result.added \subseteq IdsOf(result.queue)
          /\ result.removed \cap IdsOf(result.queue) = {}
          /\ \A e \in Entries(result.queue) :
                e.id \in result.added
                \/ (e.id \in DOMAIN files /\ (files[e.id] = "PENDING" \/ proven[e.id] = Proven(e)))
        BY <1>6 DEF SoundSoFar
    <2>2. DOMAIN files \ IdsOf(result.queue) \subseteq orphans' \cup result.added \cup result.removed
        BY <1>1, <1>9
    <2> QED BY <1>1, <2>1, <2>2 DEF AmendmentIsWhole
<1>11. AmendedItemsAreWhole'
    BY <1>1, <1>3, <1>9 DEF DecomposeInv, AmendedItemsAreWhole
<1> QED BY <1>7, <1>8, <1>10, <1>11 DEF DecomposeInv

LEMMA WriteBirthsKeeps ==
    ASSUME DecomposeInv, WriteBirths
    PROVE  DecomposeInv'
<1>1. /\ writing = "births" /\ writing' = "queue"
      /\ files' = [i \in (DOMAIN files) \cup applied.added |->
                      IF i \in applied.added THEN "PENDING" ELSE files[i]]
      /\ proven' = [i \in Ids |-> IF i \in applied.added THEN Nothing ELSE proven[i]]
      /\ orphans' = orphans \ applied.added
      /\ UNCHANGED <<behavioralPaths, tries, candidate, queued, applied, amends, kills>>
    BY DEF WriteBirths
<1>2. /\ proven \in [Ids -> Scopes] /\ applied \in Amended /\ applied.added \in SUBSET Ids
      /\ orphans \in SUBSET Ids
    BY DEF DecomposeInv, DecomposeTypes, Amended
<1>3. PICK S \in SUBSET Ids : files \in [S -> {"PENDING", "RED", "VALIDATED"}]
    BY DEF DecomposeInv, DecomposeTypes
<1>4. DecomposeTypes'
    <2>1. files' \in [S \cup applied.added -> {"PENDING", "RED", "VALIDATED"}]
        BY <1>1, <1>3
    <2>2. S \cup applied.added \in SUBSET Ids
        BY <1>2
    <2>3. files' \in UNION {[T -> {"PENDING", "RED", "VALIDATED"}] : T \in SUBSET Ids}
        BY <2>1, <2>2
    <2>4. proven' \in [Ids -> Scopes]
        BY <1>1, <1>2 DEF Scopes
    <2>5. orphans' \in SUBSET Ids
        BY <1>1, <1>2
    <2> QED BY <1>1, <2>3, <2>4, <2>5 DEF DecomposeInv, DecomposeTypes
<1>5. PlannedFirst' /\ QueuesAreValid'
    BY <1>1 DEF DecomposeInv, PlannedFirst, QueuesAreValid
<1>6. /\ DOMAIN files' = DOMAIN files \cup applied.added
      /\ \A i \in applied.added : files'[i] = "PENDING"
      /\ \A i \in DOMAIN files : i \notin applied.added => files'[i] = files[i]
    BY <1>1
<1>7. queued \in Seq(QueueItems) /\ applied.queue \in Seq(QueueItems)
    BY <1>2 DEF DecomposeInv, DecomposeTypes, Amended
<1>8. \A e \in Entries(queued) \cup Entries(applied.queue) :
          e.id \notin applied.added => proven'[e.id] = proven[e.id]
    <2>1. \A e \in Entries(queued) \cup Entries(applied.queue) : e.id \in Ids
        BY <1>7, IdsOfEntries DEF IdsOf
    <2> QED BY <1>1, <2>1
<1>9. AmendmentIsWhole'
    <2>1. ASSUME NEW e \in Entries(applied.queue), e.id \notin applied.added
          PROVE  e.id \in DOMAIN files' /\ (files'[e.id] = "PENDING" \/ proven'[e.id] = Proven(e))
        <3>1. e.id \in DOMAIN files /\ (files[e.id] = "PENDING" \/ proven[e.id] = Proven(e))
            BY <1>1, <2>1 DEF DecomposeInv, AmendmentIsWhole
        <3> QED BY <1>6, <1>8, <2>1, <3>1
    <2>2. DOMAIN files' \ IdsOf(applied.queue) \subseteq orphans' \cup applied.added \cup applied.removed
        BY <1>1, <1>6 DEF DecomposeInv, AmendmentIsWhole
    <2>3. applied.added \subseteq IdsOf(applied.queue) /\ applied.removed \cap IdsOf(applied.queue) = {}
        BY <1>1 DEF DecomposeInv, AmendmentIsWhole
    <2> QED BY <1>1, <1>6, <2>1, <2>2, <2>3 DEF AmendmentIsWhole
<1>10. AmendedItemsAreWhole'
    <2> SUFFICES ASSUME queued # <<>>, tries = 0
                 PROVE  /\ IdsOf(queued) \subseteq DOMAIN files'
                        /\ DOMAIN files' \ IdsOf(queued) \subseteq orphans' \cup applied.added \cup applied.removed
                        /\ \A f \in Entries(queued) : files'[f.id] # "PENDING" => proven'[f.id] = Proven(f)
        BY <1>1 DEF AmendedItemsAreWhole, Proven
    <2>1. /\ IdsOf(queued) \subseteq DOMAIN files
          /\ DOMAIN files \ IdsOf(queued) \subseteq orphans \cup applied.added \cup applied.removed
          /\ \A f \in Entries(queued) : files[f.id] # "PENDING" => proven[f.id] = Proven(f)
        BY DEF DecomposeInv, AmendedItemsAreWhole, Proven
    <2>2. ASSUME NEW f \in Entries(queued), files'[f.id] # "PENDING" PROVE proven'[f.id] = Proven(f)
        <3>1. f.id \in DOMAIN files /\ f.id \notin applied.added
            BY <1>6, <2>1, <2>2 DEF IdsOf
        <3> QED BY <1>6, <1>8, <2>1, <2>2, <3>1
    <2> QED BY <1>1, <1>6, <2>1, <2>2
<1> QED BY <1>4, <1>5, <1>9, <1>10 DEF DecomposeInv

LEMMA WriteQueueKeeps ==
    ASSUME DecomposeInv, WriteQueue
    PROVE  DecomposeInv'
<1>1. /\ writing = "queue" /\ writing' = "removals" /\ queued' = applied.queue
      /\ UNCHANGED <<behavioralPaths, tries, candidate, files, proven, applied, orphans, amends, kills>>
    BY DEF WriteQueue
<1>2. applied.queue \in Seq(QueueItems) /\ applied \in Amended
    BY DEF DecomposeInv, DecomposeTypes, Amended
<1>3. DecomposeTypes'
    BY <1>1, <1>2 DEF DecomposeInv, DecomposeTypes
<1>4. ValidQueue(applied.queue, behavioralPaths) /\ applied.queue # <<>>
    BY <1>1, <1>2, ValidQueuesAreDistinct DEF DecomposeInv, QueuesAreValid
<1>5. ~(tries > 0)
    BY <1>1 DEF DecomposeInv, PlannedFirst
<1>6. PlannedFirst' /\ QueuesAreValid' /\ AmendmentIsWhole'
    BY <1>1, <1>4, <1>5 DEF DecomposeInv, PlannedFirst, QueuesAreValid, AmendmentIsWhole
<1>7. AmendedItemsAreWhole'
    <2>1. \A e \in Entries(applied.queue) :
              e.id \in DOMAIN files /\ (files[e.id] = "PENDING" \/ proven[e.id] = Proven(e))
        BY <1>1 DEF DecomposeInv, AmendmentIsWhole
    <2>2. IdsOf(applied.queue) \subseteq DOMAIN files
        BY <2>1 DEF IdsOf
    <2>3. DOMAIN files \ IdsOf(applied.queue) \subseteq orphans \cup applied.added \cup applied.removed
        BY <1>1 DEF DecomposeInv, AmendmentIsWhole
    <2> QED BY <1>1, <2>1, <2>2, <2>3 DEF AmendedItemsAreWhole, Proven
<1> QED BY <1>3, <1>6, <1>7 DEF DecomposeInv

LEMMA WriteRemovalsKeeps ==
    ASSUME DecomposeInv, WriteRemovals
    PROVE  DecomposeInv'
<1>1. /\ writing = "removals" /\ writing' = "nothing" /\ applied' = NoAmendment
      /\ files' = [i \in (DOMAIN files) \ applied.removed |-> files[i]]
      /\ proven' = [i \in Ids |-> IF i \in applied.removed THEN Nothing ELSE proven[i]]
      /\ UNCHANGED <<behavioralPaths, tries, candidate, queued, orphans, amends, kills>>
    BY DEF WriteRemovals
<1>2. proven \in [Ids -> Scopes] /\ queued \in Seq(QueueItems)
    BY DEF DecomposeInv, DecomposeTypes
<1>3. PICK S \in SUBSET Ids : files \in [S -> {"PENDING", "RED", "VALIDATED"}]
    BY DEF DecomposeInv, DecomposeTypes
<1>4. DecomposeTypes'
    <2>1. files' \in [S \ applied.removed -> {"PENDING", "RED", "VALIDATED"}]
        BY <1>1, <1>3
    <2>2. files' \in UNION {[T -> {"PENDING", "RED", "VALIDATED"}] : T \in SUBSET Ids}
        BY <2>1
    <2>3. proven' \in [Ids -> Scopes]
        BY <1>1, <1>2 DEF Scopes
    <2>4. <<>> \in Seq(QueueItems)
        OBVIOUS
    <2>5. applied' \in Amended
        BY <1>1, <2>4 DEF NoAmendment, Amended
    <2> QED BY <1>1, <2>2, <2>3, <2>5 DEF DecomposeInv, DecomposeTypes
<1>5. PlannedFirst' /\ QueuesAreValid' /\ AmendmentIsWhole'
    BY <1>1 DEF DecomposeInv, PlannedFirst, QueuesAreValid, AmendmentIsWhole
<1>6. AmendedItemsAreWhole'
    <2> SUFFICES ASSUME queued # <<>>, tries = 0
                 PROVE  /\ IdsOf(queued) \subseteq DOMAIN files'
                        /\ DOMAIN files' \ IdsOf(queued) \subseteq orphans
                        /\ \A f \in Entries(queued) : files'[f.id] # "PENDING" => proven'[f.id] = Proven(f)
        BY <1>1 DEF AmendedItemsAreWhole, Proven
    <2>1. /\ IdsOf(queued) \subseteq DOMAIN files
          /\ DOMAIN files \ IdsOf(queued) \subseteq orphans \cup applied.added \cup applied.removed
          /\ \A f \in Entries(queued) : files[f.id] # "PENDING" => proven[f.id] = Proven(f)
        BY DEF DecomposeInv, AmendedItemsAreWhole, Proven
    <2>2. applied.added \subseteq IdsOf(queued) /\ applied.removed \cap IdsOf(queued) = {}
        BY <1>1 DEF DecomposeInv, AmendmentIsWhole
    <2>3. DOMAIN files' = DOMAIN files \ applied.removed /\ \A i \in DOMAIN files' : files'[i] = files[i]
        BY <1>1
    <2>4. \A f \in Entries(queued) : f.id \in IdsOf(queued) /\ f.id \in Ids
        BY <1>2, IdsOfEntries DEF IdsOf
    <2>5. \A f \in Entries(queued) : proven'[f.id] = proven[f.id]
        BY <1>1, <2>2, <2>4
    <2> QED BY <2>1, <2>2, <2>3, <2>4, <2>5
<1> QED BY <1>4, <1>5, <1>6 DEF DecomposeInv

LEMMA KillKeeps ==
    ASSUME DecomposeInv, Kill
    PROVE  DecomposeInv'
<1>1. /\ tries' = 0 /\ writing' = "nothing" /\ applied' = NoAmendment
      /\ orphans' = orphans \cup ((DOMAIN files) \ IdsOf(queued))
      /\ kills' = kills + 1
      /\ writing # "nothing" \/ tries > 0
      /\ UNCHANGED <<behavioralPaths, candidate, queued, files, proven, amends>>
    BY DEF Kill
<1>2. <<>> \in Seq(QueueItems)
    OBVIOUS
<1>3. applied' \in Amended
    BY <1>1, <1>2 DEF NoAmendment, Amended
<1>4. PICK S \in SUBSET Ids : files \in [S -> {"PENDING", "RED", "VALIDATED"}]
    BY DEF DecomposeInv, DecomposeTypes
<1>5. orphans' \in SUBSET Ids
    BY <1>1, <1>4 DEF DecomposeInv, DecomposeTypes
<1>6. DecomposeTypes'
    BY <1>1, <1>3, <1>5 DEF DecomposeInv, DecomposeTypes, PlannerAttempts
<1>7. PlannedFirst' /\ QueuesAreValid' /\ AmendmentIsWhole'
    BY <1>1 DEF DecomposeInv, PlannedFirst, QueuesAreValid, AmendmentIsWhole
<1>8. AmendedItemsAreWhole'
    <2>1. CASE tries > 0
        BY <1>1, <2>1 DEF DecomposeInv, PlannedFirst, AmendedItemsAreWhole
    <2>2. CASE ~(tries > 0)
        <3>1. tries = 0
            BY <2>2 DEF DecomposeInv, DecomposeTypes, PlannerAttempts
        <3> QED BY <1>1, <3>1 DEF DecomposeInv, AmendedItemsAreWhole
    <2> QED BY <2>1, <2>2
<1> QED BY <1>6, <1>7, <1>8 DEF DecomposeInv

LEMMA DecomposeStep ==
    ASSUME DecomposeInv, [DecomposeNext]_decomposeVars
    PROVE  DecomposeInv'
<1>1. CASE DecomposeNext
    BY <1>1, CallKeeps, PlannerRepliesKeeps, AdvanceKeeps, QueueAmendKeeps, WriteBirthsKeeps,
       WriteQueueKeeps, WriteRemovalsKeeps, KillKeeps DEF DecomposeNext
<1>2. CASE UNCHANGED decomposeVars
    BY <1>2 DEF decomposeVars, DecomposeInv, DecomposeTypes, PlannedFirst, QueuesAreValid,
       AmendmentIsWhole, AmendedItemsAreWhole
<1> QED BY <1>1, <1>2

LEMMA DecomposeInvHolds == DecomposeSpec => []DecomposeInv
BY DecomposeInitially, DecomposeStep, PTL DEF DecomposeSpec

\* Every item of the queue has its file through every amendment, a kill between its
\* writes included, and evidence is of the scopes its item has.
THEOREM AmendmentsAreWhole == DecomposeSpec => []AmendedItemsAreWhole
<1>1. DecomposeInv => AmendedItemsAreWhole
    BY DEF DecomposeInv
<1> QED BY <1>1, DecomposeInvHolds, PTL

LEMMA PathsAreGlobs ==
    ASSUME NEW p \in Paths
    PROVE  p \in Seq(Names) /\ Len(p) \in Nat /\ IsGlob({p})
<1>1. PICK n \in 1..3 : p \in [1..n -> Names]
    BY DEF Paths
<1>2. p \in Seq(Names) /\ Len(p) = n
    BY <1>1
<1>3. p \in Seq(Names \cup Wildcards) /\ p # <<>>
    BY <1>1, <1>2
<1> QED BY <1>2, <1>3 DEF IsGlob

LEMMA GlobsOfItems ==
    ASSUME NEW e \in QueueItems
    PROVE  \A g \in e.scope \cup e.tests : IsGlob(g)
BY DecomposeAssumption

LEMMA GlobsOfConfigurations ==
    ASSUME NEW b \in BehavioralSets
    PROVE  \A g \in b : IsGlob(g)
BY DecomposeAssumption

\* A path that is cited meets the head of every glob that it matches.
LEMMA CitationsMeet ==
    ASSUME NEW p \in Paths, NEW g, IsGlob(g), GlobMatch(g, p)
    PROVE  HeadsOverlap(LiteralHead({p}), LiteralHead(g))
<1> DEFINE a == LiteralHead({p})
           b == LiteralHead(g)
<1>1. p \in Seq(Names) /\ Len(p) \in Nat /\ IsGlob({p})
    BY PathsAreGlobs
<1>2. a \in Seq(Segments) /\ b \in Seq(Segments)
    BY <1>1, HeadIsShared
<1>3. \A k \in 1..Len(a) : p[k] = a[k]
    BY <1>1, HeadIsShared
<1>4. \A k \in 1..Len(b) : p[k] = b[k]
    BY <1>1, MatchesBeginWithTheHead
<1> HIDE DEF a, b
<1>5. \A k \in DOMAIN a \cap DOMAIN b : a[k] = b[k]
    BY ONLY <1>2, <1>3, <1>4
<1> QED BY ONLY <1>5, Zenon DEF HeadsOverlap, a, b

LEMMA FindingsReach ==
    ASSUME DecomposeTypes
    PROVE  FindingsReachTheirItems
<1>1. \A e \in Entries(queued) : e \in QueueItems
    BY DEF DecomposeTypes, Entries
<1> SUFFICES ASSUME NEW f \in Findings
             PROVE  /\ \A e \in Entries(queued) :
                          \/ f.kind = "id" /\ f.id = e.id
                          \/ f.kind = "path" /\ f.path \in Reach(e.scope)
                          => e.id \in FindingBlocksItems(f, queued)
                    /\ f.kind \in {"directory", "wildcard"} => FindingBlocksItems(f, queued) = {}
                    /\ \A e \in Entries(queued), lens \in BOOLEAN :
                          f.kind = "path" =>
                              /\ f.path \in Reach(e.tests) => "test-writer" \in RouteFix(f, e, lens)
                              /\ f.path \in Reach(e.scope) => "implementer" \in RouteFix(f, e, lens)
    BY DEF FindingsReachTheirItems
<1>2. ASSUME NEW e \in Entries(queued), f.kind = "id", f.id = e.id
      PROVE  e.id \in FindingBlocksItems(f, queued)
    BY <1>2 DEF FindingBlocksItems
<1>3. ASSUME NEW e \in Entries(queued), f.kind = "path", f.path \in Reach(e.scope)
      PROVE  e.id \in FindingBlocksItems(f, queued)
    <2>1. f.path \in Paths
        BY <1>3 DEF Reach
    <2>2. PICK g \in e.scope : GlobMatch(g, f.path)
        BY <1>3 DEF Reach
    <2>3. IsGlob(g)
        BY <1>1, GlobsOfItems
    <2>4. HeadsOverlap(LiteralHead({f.path}), LiteralHead(g))
        BY <2>1, <2>2, <2>3, CitationsMeet
    <2>5. ScopesIntersect({{f.path}}, e.scope)
        BY <2>4 DEF ScopesIntersect
    <2>6. Len(f.path) > 1
        BY <1>3, DecomposeAssumption
    <2>7. NamedBy(f, e.scope)
        BY <1>3, <2>5, <2>6 DEF NamedBy, FileTokens
    <2> QED BY <2>7 DEF FindingBlocksItems
<1>4. ASSUME f.kind \in {"directory", "wildcard"}
      PROVE  FindingBlocksItems(f, queued) = {}
    <2>1. FileTokens(f) = {} /\ f.kind # "id"
        BY <1>4 DEF FileTokens
    <2> QED BY <2>1 DEF FindingBlocksItems, NamedBy
<1>5. ASSUME NEW e \in Entries(queued), NEW lens \in BOOLEAN, f.kind = "path"
      PROVE  /\ f.path \in Reach(e.tests) => "test-writer" \in RouteFix(f, e, lens)
             /\ f.path \in Reach(e.scope) => "implementer" \in RouteFix(f, e, lens)
    <2>1. FileTokens(f) = {f.path}
        BY <1>5 DEF FileTokens
    <2>2. f.path \in Reach(e.tests) => FixNamesScope(f, e.tests)
        BY <2>1 DEF Reach, FixNamesScope
    <2>3. f.path \in Reach(e.scope) => FixNamesScope(f, e.scope)
        BY <2>1 DEF Reach, FixNamesScope
    <2> QED BY <2>2, <2>3 DEF RouteFix
<1> QED BY <1>2, <1>3, <1>4, <1>5

\* A finding that cites a file blocks every item that may write it, and its fix goes
\* to the role that may.
THEOREM FindingsReachItems == DecomposeSpec => []FindingsReachTheirItems
<1>1. DecomposeInv => FindingsReachTheirItems
    BY FindingsReach DEF DecomposeInv
<1> QED BY <1>1, DecomposeInvHolds, PTL

-----------------------------------------------------------------------------
\* A path has a segment for each of two segments of a glob that are not "**".
LEMMA TwoSegmentsTakeTwo ==
    ASSUME NEW e \in Seq(Segments), NEW p, Len(p) \in Nat, MatchSegments(e, p),
           NEW i \in 1..Len(e), NEW j \in 1..Len(e), i < j, e[i] # "**", e[j] # "**"
    PROVE  Len(p) >= 2
<1> DEFINE after == Upto(e, p)
           Long(m) == \A k \in after[m] : (i <= m => k >= 1) /\ (j <= m => k >= 2)
           Wrong == {m \in 0..Len(e) : ~Long(m)}
<1>1. Len(e) \in Nat /\ Len(p) \in after[Len(e)]
    BY DEF MatchSegments, Upto
<1>2. \A m \in 0..Len(e) :
          /\ after[m] \in SUBSET (0..Len(p))
          /\ after[m] = IF m = 0 THEN {0} ELSE Spans(e, p, after[m - 1], m)
    <2> HIDE DEF after
    <2> QED BY <1>1, UptoIsTheRecursion DEF after
<1> HIDE DEF after
<1>3. Wrong = {}
    <2> SUFFICES ASSUME Wrong # {} PROVE FALSE
        OBVIOUS
    <2>1. PICK m \in Wrong : \A l \in Wrong : m <= l
        <3>1. Wrong \in SUBSET Nat
            OBVIOUS
        <3> HIDE DEF Wrong
        <3> QED BY <3>1, NatMin
    <2>2. m # 0
        <3>1. Long(0)
            BY <1>1
        <3> QED BY <2>1, <3>1
    <2>3. m \in 1..Len(e) /\ m - 1 \in 0..Len(e) /\ ~(m <= m - 1) /\ ~Long(m)
        BY <1>1, <2>1, <2>2
    <2>4. Long(m - 1)
        <3> HIDE DEF Long
        <3> QED BY <2>1, <2>3
    <2>5. after[m] = Spans(e, p, after[m - 1], m) /\ after[m - 1] \in SUBSET (0..Len(p))
        BY <1>2, <2>2, <2>3
    <2>6. ASSUME NEW k \in after[m] PROVE (i <= m => k >= 1) /\ (j <= m => k >= 2)
        <3>1. CASE e[m] = "**"
            <4>1. m # i /\ m # j
                BY <3>1
            <4>2. PICK l \in after[m - 1] : l <= k
                BY <2>5, <2>6, <3>1 DEF Spans
            <4>3. l \in Nat /\ k \in Nat
                BY <2>5, <2>6, <3>1 DEF Spans
            <4>4. (i <= m - 1 => l >= 1) /\ (j <= m - 1 => l >= 2)
                BY <2>4, <4>2
            <4> QED BY <2>3, <4>1, <4>2, <4>3, <4>4
        <3>2. CASE e[m] # "**"
            <4>1. k \in 1..Len(p) /\ k - 1 \in after[m - 1]
                BY <2>5, <2>6, <3>2 DEF Spans
            <4>2. (i <= m - 1 => k - 1 >= 1) /\ (j <= m - 1 => k - 1 >= 2)
                BY <2>4, <4>1
            <4>3. j <= m => i <= m - 1
                BY <2>3
            <4> QED BY <4>1, <4>2, <4>3
        <3> QED BY <3>1, <3>2
    <2> QED BY <2>3, <2>6
<1>4. Long(Len(e))
    <2> HIDE DEF Long
    <2> QED BY <1>1, <1>3
<1> QED BY <1>1, <1>4

\* One segment that is not "**" stands for one.
LEMMA OneSegmentTakesOne ==
    ASSUME NEW e \in Seq(Segments), Len(e) = 1, e[1] # "**", NEW p, Len(p) \in Nat, MatchSegments(e, p)
    PROVE  Len(p) = 1
<1> DEFINE after == Upto(e, p)
<1>1. Len(p) \in after[1]
    BY DEF MatchSegments, Upto
<1>2. /\ after[0] = {0}
      /\ after[1] = Spans(e, p, after[0], 1)
    <2>1. \A m \in 0..Len(e) : after[m] = IF m = 0 THEN {0} ELSE Spans(e, p, after[m - 1], m)
        <3> HIDE DEF after
        <3> QED BY UptoIsTheRecursion DEF after
    <2> HIDE DEF after
    <2>2. 0 \in 0..Len(e) /\ 1 \in 0..Len(e) /\ 1 - 1 = 0
        OBVIOUS
    <2> QED BY <2>1, <2>2
<1> HIDE DEF after
<1>3. Len(p) - 1 \in {0}
    BY <1>1, <1>2 DEF Spans
<1> QED BY <1>3

LEMMA ApartHides ==
    ASSUME NEW a, IsGlob(a), NEW b, IsGlob(b), NEW p \in Paths, GlobMatch(a, p), GlobMatch(b, p),
           RootLevelOnly(a), ~RootLevelOnly(b), ~ReachesRootLevel(b)
    PROVE  p \in HiddenAtRoot(b)
<1>1. p \in Seq(Names) /\ Len(p) \in Nat
    BY PathsAreGlobs
<1>2. Len(p) = 1
    <2>1. PICK e \in a : MatchSegments(e, p)
        BY DEF GlobMatch
    <2>2. e \in Seq(Segments) /\ Len(e) = 1 /\ e[1] # "**"
        BY DEF IsGlob, RootLevelOnly, Segments
    <2> QED BY <1>1, <2>1, <2>2, OneSegmentTakesOne
<1>3. PICK e \in b : MatchSegments(e, p)
    BY DEF GlobMatch
<1>4. e \in Seq(Segments) /\ Len(e) \in Nat /\ Len(e) >= 1
    BY DEF IsGlob, Segments
<1>5. p \in Reach({b})
    BY DEF Reach
<1>6. CASE \E f \in b : Reaching(e) # Reaching(f)
    BY <1>2, <1>5, <1>6 DEF HiddenAtRoot
<1>7. CASE ~\E f \in b : Reaching(e) # Reaching(f)
    <2>1. PICK f \in b : ~(Len(f) = 1 /\ f[1] # "**")
        BY DEF RootLevelOnly
    <2>2. PICK h \in b : ~(h[1] = "**" /\ Cardinality({k \in DOMAIN h : h[k] # "**"}) <= 1)
        BY DEF ReachesRootLevel
    <2>3. Reaching(f) # "root" /\ Reaching(h) # "any"
        BY <2>1, <2>2 DEF Reaching
    <2>4. Reaching(e) # "root" /\ Reaching(e) # "any"
        BY <1>7, <2>3
    <2>5. e[1] = "**" => ~(Cardinality({k \in DOMAIN e : e[k] # "**"}) <= 1)
        BY <2>4 DEF Reaching
    <2>8. e[1] # "**" => Len(e) # 1
        BY <2>4 DEF Reaching
    <2>6. CASE e[1] # "**"
        <3>1. Len(e) > 1
            <4>1. Len(e) # 1
                BY <2>6, <2>8
            <4>2. Len(e) \in Nat /\ Len(e) >= 1
                BY <1>4
            <4> HIDE DEF Reaching
            <4>3. ASSUME NEW n \in Nat, n >= 1, n # 1 PROVE n > 1
                BY ONLY <4>3
            <4> QED BY ONLY <4>1, <4>2, <4>3, Zenon
        <3> QED BY <1>2, <1>3, <1>5, <2>6, <3>1 DEF HiddenAtRoot
    <2>7. CASE e[1] = "**"
        <3> DEFINE S == {k \in DOMAIN e : e[k] # "**"}
        <3>1. S \subseteq 1..Len(e) /\ ~(Cardinality(S) <= 1)
            BY <1>4, <2>5, <2>7
        <3>2. IsFiniteSet(S)
            <4>1. ASSUME NEW n \in Nat, NEW T \in SUBSET (1..n) PROVE IsFiniteSet(T)
                <5>1. IsFiniteSet(1..n)
                    BY ONLY <4>1, FS_Interval
                <5> QED BY ONLY <4>1, <5>1, FS_Subset
            <4> HIDE DEF S
            <4> QED BY ONLY <1>4, <3>1, <4>1
        <3>3. S # {} /\ \A x \in S : S # {x}
            <4> HIDE DEF S
            <4>1. Cardinality({}) = 0 /\ \A x : Cardinality({x}) = 1
                BY FS_EmptySet, FS_Singleton
            <4>2. ASSUME S = {} PROVE FALSE
                <5>1. Cardinality(S) = 0
                    BY ONLY <4>1, <4>2, Zenon
                <5> QED BY ONLY <3>1, <5>1
            <4>3. ASSUME NEW x, S = {x} PROVE FALSE
                <5>1. Cardinality(S) = 1
                    BY ONLY <4>1, <4>3, Zenon
                <5> QED BY ONLY <3>1, <5>1
            <4> QED BY ONLY <4>2, <4>3
        <3>4. PICK i \in S : TRUE
            BY <3>3
        <3>5. PICK j \in S : j # i
            <4> HIDE DEF S
            <4> QED BY <3>3, <3>4
        <3>6. i \in 1..Len(e) /\ j \in 1..Len(e) /\ e[i] # "**" /\ e[j] # "**" /\ (i < j \/ j < i)
            BY <1>4, <3>5
        <3>7. Len(p) >= 2
            BY <1>1, <1>3, <1>4, <3>6, TwoSegmentsTakeTwo
        <3> QED BY <1>2, <3>7
    <2> QED BY <2>6, <2>7
<1> QED BY <1>6, <1>7

\* What the rules about scopes of a valid queue keep apart.
LEMMA ScopesAreApart ==
    ASSUME NEW A, NEW B, \A g \in A \cup B : IsGlob(g), ~ScopesIntersect(A, B)
    PROVE  Reach(A) \cap Reach(B) = {}
<1> SUFFICES ASSUME NEW p \in Reach(A), p \in Reach(B) PROVE FALSE
    OBVIOUS
<1>1. p \in Paths /\ Len(p) \in Nat
    BY PathsAreGlobs DEF Reach
<1>2. PICK g \in A : GlobMatch(g, p)
    BY DEF Reach
<1>3. PICK h \in B : GlobMatch(h, p)
    BY DEF Reach
<1>4. HeadsOverlap(LiteralHead(g), LiteralHead(h))
    BY <1>1, <1>2, <1>3, HeadsMeet
<1> QED BY <1>4 DEF ScopesIntersect

LEMMA TestsAreApart ==
    ASSUME NEW A, NEW B, \A g \in A \cup B : IsGlob(g), ~Covering(A, B)
    PROVE  Reach(A) \cap Reach(B) = {}
<1>1. ~ScopesIntersect(A, B)
    BY DEF Covering, ScopesIntersect
<1> QED BY <1>1, ScopesAreApart

LEMMA BehavioralFilesAreApart ==
    ASSUME NEW A, NEW B, \A g \in A \cup B : IsGlob(g), ~Intersecting(A, B)
    PROVE  Reach(A) \cap Reach(B) \subseteq UNION {HiddenAtRoot(g) : g \in A \cup B}
<1> SUFFICES ASSUME NEW p \in Reach(A), p \in Reach(B)
             PROVE  \E g \in A \cup B : p \in HiddenAtRoot(g)
    OBVIOUS
<1>1. p \in Paths /\ Len(p) \in Nat
    BY PathsAreGlobs DEF Reach
<1>2. PICK g \in A : GlobMatch(g, p)
    BY DEF Reach
<1>3. PICK h \in B : GlobMatch(h, p)
    BY DEF Reach
<1>4. HeadsOverlap(LiteralHead(g), LiteralHead(h))
    BY <1>1, <1>2, <1>3, HeadsMeet
<1>5. ScopesIntersect({g}, {h})
    BY <1>4 DEF ScopesIntersect
<1>6. ApartByDepth(g, h)
    BY <1>2, <1>3, <1>5 DEF Intersecting
<1>7. IsGlob(g) /\ IsGlob(h)
    BY <1>2, <1>3
<1>8. CASE RootLevelOnly(g)
    <2>1. ~RootLevelOnly(h) /\ ~ReachesRootLevel(h)
        BY <1>6, <1>8, Zenon DEF ApartByDepth
    <2>2. p \in HiddenAtRoot(h)
        BY <1>1, <1>2, <1>3, <1>7, <1>8, <2>1, ApartHides
    <2> QED BY <1>3, <2>2
<1>9. CASE ~RootLevelOnly(g)
    <2>1. RootLevelOnly(h) /\ ~ReachesRootLevel(g)
        <3>1. RootLevelOnly(g) = FALSE /\ RootLevelOnly(h) \in BOOLEAN
            BY <1>9 DEF RootLevelOnly
        <3> QED BY <1>6, <1>9, <3>1, Zenon DEF ApartByDepth
    <2>2. p \in HiddenAtRoot(g)
        BY <1>1, <1>2, <1>3, <1>7, <1>9, <2>1, ApartHides
    <2> QED BY <1>2, <2>2
<1> QED BY <1>8, <1>9

-----------------------------------------------------------------------------
(* The walk that looks for cycles. *)

Edges(q) == UNION {e.deps : e \in Entries(q)}
Colours == {"white", "grey", "black"}
Walks(I, D) ==
    [colour : [I -> Colours], left : [I -> SUBSET D], path : Seq(I), cycles : SUBSET SUBSET I]

\* The ids of a queue and the edges between them are finite.
LEMMA QueuesAreFinite ==
    ASSUME NEW q \in Seq(QueueItems)
    PROVE  IsFiniteSet(IdsOf(q)) /\ IsFiniteSet(Edges(q))
<1> DEFINE S == 1..Len(q)
           T == IdsOf(q)
           W == {e.deps : e \in Entries(q)}
           f == [k \in S |-> q[k].id]
           g == [k \in S |-> q[k].deps]
<1>1. Len(q) \in Nat /\ DOMAIN q = S /\ \A e \in Entries(q) : e \in QueueItems
    BY DEF Entries
<1>2. IsFiniteSet(S)
    <2>1. ASSUME NEW n \in Nat PROVE IsFiniteSet(1..n)
        BY ONLY <2>1, FS_Interval
    <2> QED BY ONLY <1>1, <2>1
<1>3. f \in [S -> T] /\ \A t \in T : \E k \in S : f[k] = t
    BY <1>1 DEF IdsOf, Entries
<1>4. g \in [S -> W] /\ \A t \in W : \E k \in S : g[k] = t
    BY <1>1 DEF Entries
<1>5. \A t \in W : IsFiniteSet(t)
    BY <1>1, DecomposeAssumption
<1> HIDE DEF f, g, S, T, W
<1>6. f \in Surjection(S, T) /\ g \in Surjection(S, W)
    BY ONLY <1>3, <1>4, Fun_IsSurj
<1>7. IsFiniteSet(T) /\ IsFiniteSet(W)
    BY ONLY <1>2, <1>6, FS_Surjection
<1>8. IsFiniteSet(UNION W)
    BY ONLY <1>5, <1>7, FS_UNION
<1> QED BY <1>7, <1>8 DEF Edges, T, W

LEMMA DepsAreEdges ==
    ASSUME NEW q
    PROVE  /\ BuildDeps(q) \in [IdsOf(q) -> SUBSET Edges(q)]
           /\ \A e \in Entries(q) : e.id \in IdsOf(q) /\ e.deps \subseteq BuildDeps(q)[e.id]
<1> DEFINE S(id) == {e.deps : e \in {f \in Entries(q) : f.id = id}}
<1>1. BuildDeps(q) = [id \in IdsOf(q) |-> UNION S(id)]
    BY DEF BuildDeps
<1>2. ASSUME NEW id PROVE (UNION S(id)) \in SUBSET Edges(q)
    BY DEF Edges
<1>3. ASSUME NEW e \in Entries(q) PROVE e.id \in IdsOf(q) /\ e.deps \subseteq UNION S(e.id)
    BY DEF IdsOf
<1> HIDE DEF S
<1> QED BY <1>1, <1>2, <1>3

-----------------------------------------------------------------------------
(* One turn of the walk. *)

Top(w) == w.path[Len(w.path)]
LeftAfter(w, dep) == [w.left EXCEPT ![Top(w)] = w.left[Top(w)] \ {dep}]

Finished(w) == w.path = <<>> /\ \A id \in DOMAIN w.colour : w.colour[id] # "white"
Recoloured(w, v, id, c) ==
    /\ DOMAIN v.colour = DOMAIN w.colour
    /\ \A x \in DOMAIN w.colour : v.colour[x] = IF x = id THEN c ELSE w.colour[x]
Enters(w, v, id, left) ==
    /\ id \in DOMAIN w.colour /\ w.colour[id] = "white"
    /\ Recoloured(w, v, id, "grey")
    /\ Len(v.path) = Len(w.path) + 1 /\ Top(v) = id
    /\ \A k \in 1..Len(w.path) : v.path[k] = w.path[k]
    /\ v.left = left /\ v.cycles = w.cycles
Leaves(w, v) ==
    /\ w.path # <<>> /\ w.left[Top(w)] = {}
    /\ Recoloured(w, v, Top(w), "black")
    /\ Len(v.path) = Len(w.path) - 1
    /\ \A k \in 1..(Len(w.path) - 1) : v.path[k] = w.path[k]
    /\ v.left = w.left /\ v.cycles = w.cycles
Passes(w, v, dep) ==
    /\ dep \notin DOMAIN w.colour \/ w.colour[dep] = "black"
    /\ v.colour = w.colour /\ v.path = w.path
    /\ v.left = LeftAfter(w, dep) /\ v.cycles = w.cycles
Closes(w, v, dep) ==
    /\ dep \in DOMAIN w.colour /\ w.colour[dep] = "grey"
    /\ v.colour = w.colour /\ v.path = w.path
    /\ v.left = LeftAfter(w, dep) /\ v.cycles # {}
Follows(w, v) ==
    /\ w.path # <<>>
    /\ \E dep \in w.left[Top(w)] :
          Passes(w, v, dep) \/ Enters(w, v, dep, LeftAfter(w, dep)) \/ Closes(w, v, dep)

LEMMA EnterNodeEffect ==
    ASSUME NEW I, NEW D, NEW w \in Walks(I, D), NEW id \in I, w.colour[id] = "white"
    PROVE  EnterNode(w, id) \in Walks(I, D) /\ Enters(w, EnterNode(w, id), id, w.left)
<1> DEFINE v == [w EXCEPT !.colour = [w.colour EXCEPT ![id] = "grey"], !.path = Append(w.path, id)]
<1>1. EnterNode(w, id) = v
    BY DEF EnterNode
<1>2. w.path \in Seq(I) /\ w.colour \in [I -> Colours] /\ Len(w.path) \in Nat
    BY DEF Walks
<1>3. Append(w.path, id) \in Seq(I) /\ [w.colour EXCEPT ![id] = "grey"] \in [I -> Colours]
    BY <1>2 DEF Colours
<1>4. /\ v.path = Append(w.path, id) /\ v.colour = [w.colour EXCEPT ![id] = "grey"]
      /\ v.left = w.left /\ v.cycles = w.cycles
    BY DEF Walks
<1>5. v \in Walks(I, D)
    BY <1>3 DEF Walks
<1> HIDE DEF v
<1>6. Recoloured(w, v, id, "grey")
    BY <1>2, <1>4 DEF Recoloured
<1>7. Len(v.path) = Len(w.path) + 1 /\ v.path[Len(v.path)] = id /\ \A k \in 1..Len(w.path) : v.path[k] = w.path[k]
    BY <1>2, <1>4
<1> QED BY <1>1, <1>2, <1>4, <1>5, <1>6, <1>7 DEF Enters, Top

LEMMA LeaveNodeEffect ==
    ASSUME NEW I, NEW D, NEW w \in Walks(I, D), w.path # <<>>, w.left[Top(w)] = {}
    PROVE  LeaveNode(w, Top(w)) \in Walks(I, D) /\ Leaves(w, LeaveNode(w, Top(w)))
<1> DEFINE id == Top(w)
           p == SubSeq(w.path, 1, Len(w.path) - 1)
           v == [w EXCEPT !.colour = [w.colour EXCEPT ![id] = "black"], !.path = p]
<1>1. LeaveNode(w, id) = v
    BY DEF LeaveNode, Front
<1>2. w.path \in Seq(I) /\ w.colour \in [I -> Colours] /\ Len(w.path) \in Nat \ {0}
    BY DEF Walks
<1>3. id \in I
    BY <1>2 DEF Top
<1> HIDE DEF id
<1>4. /\ p \in Seq(I) /\ Len(p) = Len(w.path) - 1 /\ \A k \in 1..(Len(w.path) - 1) : p[k] = w.path[k]
      /\ [w.colour EXCEPT ![id] = "black"] \in [I -> Colours]
    BY <1>2, <1>3 DEF Colours
<1> HIDE DEF p
<1>5. /\ v.path = p /\ v.colour = [w.colour EXCEPT ![id] = "black"]
      /\ v.left = w.left /\ v.cycles = w.cycles
    BY DEF Walks
<1>6. v \in Walks(I, D)
    BY <1>4 DEF Walks
<1> HIDE DEF v
<1>7. Recoloured(w, v, id, "black")
    BY <1>2, <1>5 DEF Recoloured
<1> QED BY <1>1, <1>4, <1>5, <1>6, <1>7 DEF Leaves, id

LEMMA FollowEdgeEffect ==
    ASSUME NEW I, NEW D, NEW w \in Walks(I, D), w.path # <<>>, NEW dep \in w.left[Top(w)]
    PROVE  FollowEdge(w, Top(w), dep) \in Walks(I, D) /\ Follows(w, FollowEdge(w, Top(w), dep))
<1> DEFINE top == Top(w)
           on == [w EXCEPT !.left = LeftAfter(w, dep)]
           loop == {w.path[k] : k \in {j \in DOMAIN w.path : \E i \in 1..j : w.path[i] = dep}}
           closed == [on EXCEPT !.cycles = w.cycles \cup {loop}]
           r == FollowEdge(w, top, dep)
<1>1. w.path \in Seq(I) /\ w.colour \in [I -> Colours] /\ w.left \in [I -> SUBSET D]
      /\ w.cycles \in SUBSET SUBSET I /\ DOMAIN w.colour = I
    BY DEF Walks
<1>2. top \in I
    BY <1>1 DEF Top
<1>3. LeftAfter(w, dep) \in [I -> SUBSET D]
    BY <1>1, <1>2 DEF LeftAfter
<1>4. /\ on.path = w.path /\ on.colour = w.colour
      /\ on.left = LeftAfter(w, dep) /\ on.cycles = w.cycles
    BY DEF Walks
<1>5. on \in Walks(I, D)
    BY <1>3 DEF Walks
<1>6. r = IF dep \notin DOMAIN w.colour \/ w.colour[dep] = "black" THEN on
          ELSE IF w.colour[dep] = "white" THEN EnterNode(on, dep)
          ELSE closed
    <2>1. [w EXCEPT !.left[top] = @ \ {dep}] = on
        BY DEF LeftAfter, Walks
    <2> QED BY <1>4, <2>1 DEF FollowEdge
<1>7. loop \in SUBSET I
    BY <1>1
<1> HIDE DEF loop
<1>8. /\ closed.path = w.path /\ closed.colour = w.colour
      /\ closed.left = LeftAfter(w, dep) /\ closed.cycles = w.cycles \cup {loop}
    BY <1>4, <1>5 DEF Walks
<1>9. closed \in Walks(I, D)
    BY <1>1, <1>5, <1>7 DEF Walks
<1> HIDE DEF on, closed, r
<1>10. CASE dep \notin I \/ w.colour[dep] = "black"
    <2>1. r = on
        BY <1>1, <1>6, <1>10
    <2>2. Passes(w, r, dep)
        BY <1>1, <1>4, <1>10, <2>1 DEF Passes
    <2> QED BY <1>5, <2>1, <2>2 DEF r, Follows
<1>11. CASE dep \in I /\ w.colour[dep] = "white"
    <2>1. r = EnterNode(on, dep)
        BY <1>1, <1>6, <1>11
    <2>2. r \in Walks(I, D) /\ Enters(on, r, dep, on.left)
        BY <1>4, <1>5, <1>11, <2>1, EnterNodeEffect
    <2>3. Enters(w, r, dep, LeftAfter(w, dep))
        BY <1>4, <2>2 DEF Enters, Recoloured
    <2> QED BY <2>2, <2>3 DEF r, Follows
<1>12. CASE dep \in I /\ w.colour[dep] # "white" /\ w.colour[dep] # "black"
    <2>1. r = closed /\ w.colour[dep] = "grey"
        BY <1>1, <1>6, <1>12 DEF Colours
    <2>2. Closes(w, r, dep)
        BY <1>1, <1>8, <1>12, <2>1 DEF Closes
    <2> QED BY <1>9, <2>1, <2>2 DEF r, Follows
<1> QED BY <1>10, <1>11, <1>12

LEMMA WalkOnEffect ==
    ASSUME NEW I, NEW D, NEW w \in Walks(I, D)
    PROVE  LET v == WalkOn(w) IN
           /\ v \in Walks(I, D)
           /\ \/ Finished(w) /\ v = w
              \/ w.path = <<>> /\ \E id \in I : Enters(w, v, id, w.left)
              \/ Leaves(w, v)
              \/ Follows(w, v)
<1> DEFINE v == WalkOn(w)
           roots == {id \in DOMAIN w.colour : w.colour[id] = "white"}
<1>1. DOMAIN w.colour = I
    BY DEF Walks
<1>2. v = IF w.path = <<>>
          THEN IF roots = {} THEN w ELSE EnterNode(w, CHOOSE id \in roots : TRUE)
          ELSE IF w.left[Top(w)] = {} THEN LeaveNode(w, Top(w))
          ELSE FollowEdge(w, Top(w), CHOOSE dep \in w.left[Top(w)] : TRUE)
    BY Zenon DEF WalkOn, Last, Top
<1> HIDE DEF v
<1>3. CASE w.path = <<>> /\ roots = {}
    BY <1>2, <1>3 DEF v, Finished
<1>4. CASE w.path = <<>> /\ roots # {}
    <2> DEFINE id == CHOOSE id \in roots : TRUE
    <2>1. id \in roots
        BY <1>4
    <2> HIDE DEF id
    <2>2. v = EnterNode(w, id)
        BY <1>2, <1>4 DEF id
    <2> QED BY <1>1, <1>4, <2>1, <2>2, EnterNodeEffect DEF v
<1>5. CASE w.path # <<>> /\ w.left[Top(w)] = {}
    <2>1. v = LeaveNode(w, Top(w))
        BY <1>2, <1>5
    <2> QED BY <1>5, <2>1, LeaveNodeEffect DEF v
<1>6. CASE w.path # <<>> /\ w.left[Top(w)] # {}
    <2> DEFINE dep == CHOOSE dep \in w.left[Top(w)] : TRUE
    <2>1. dep \in w.left[Top(w)]
        BY <1>6
    <2> HIDE DEF dep
    <2>2. v = FollowEdge(w, Top(w), dep)
        BY <1>2, <1>6 DEF dep
    <2> QED BY <1>6, <2>1, <2>2, FollowEdgeEffect DEF v
<1> QED BY <1>3, <1>4, <1>5, <1>6

-----------------------------------------------------------------------------
(* What every turn keeps. *)

\* The path holds the grey nodes, each once, by its edges; what a node has left to
\* follow is among its edges.
OnItsWay(w, deps) ==
    /\ \A i, j \in 1..Len(w.path) : w.path[i] = w.path[j] => i = j
    /\ \A x \in DOMAIN w.colour : w.colour[x] = "grey" <=> \E k \in 1..Len(w.path) : w.path[k] = x
    /\ \A k \in 1..(Len(w.path) - 1) : w.path[k + 1] \in deps[w.path[k]]
    /\ \A x \in DOMAIN w.colour : /\ w.left[x] \subseteq deps[x]
                                  /\ w.colour[x] = "black" => w.left[x] = {}

\* While no cycle is closed, an edge that was followed leads to a black node, or on
\* along the path.
NextOnPath(w, x, d) == \E k \in 1..(Len(w.path) - 1) : w.path[k] = x /\ w.path[k + 1] = d
EdgesAreDone(w, deps) ==
    \A x \in DOMAIN w.colour : \A d \in (deps[x] \cap DOMAIN w.colour) \ w.left[x] :
        w.colour[d] = "black" \/ NextOnPath(w, x, d)

Blacks(w) == {x \in DOMAIN w.colour : w.colour[x] = "black"}
\* The black nodes have an order.
IsOrder(r, S, deps, I) ==
    /\ r \in [S -> 1..Cardinality(S)]
    /\ \A x \in S : \A d \in deps[x] \cap I : d \in S /\ r[d] < r[x]

WalkInv(w, deps) ==
    /\ OnItsWay(w, deps)
    /\ w.cycles = {} => /\ EdgesAreDone(w, deps)
                        /\ \E r : IsOrder(r, Blacks(w), deps, DOMAIN w.colour)

LEMMA WalkTypes ==
    ASSUME NEW I, NEW D, NEW w \in Walks(I, D)
    PROVE  /\ w.path \in Seq(I) /\ Len(w.path) \in Nat
           /\ w.path # <<>> => Len(w.path) \in Nat \ {0} /\ Top(w) \in I
           /\ w.path = <<>> => Len(w.path) = 0
           /\ w.colour \in [I -> Colours] /\ DOMAIN w.colour = I
           /\ w.left \in [I -> SUBSET D]
           /\ \A k \in 1..Len(w.path) : w.path[k] \in I
BY DEF Walks, Top

LEMMA EntersKeeps ==
    ASSUME NEW I, NEW D, NEW deps \in [I -> SUBSET D], NEW w \in Walks(I, D), NEW v \in Walks(I, D),
           WalkInv(w, deps), NEW id, NEW left, Enters(w, v, id, left),
           w.path = <<>> \/ id \in deps[Top(w)],
           \A x \in I : left[x] \subseteq w.left[x],
           \A x \in I : \A d \in w.left[x] : d \in left[x] \/ (w.path # <<>> /\ x = Top(w) /\ d = id)
    PROVE  WalkInv(v, deps)
<1> DEFINE n == Len(w.path)
<1>1. /\ n \in Nat /\ (w.path # <<>> => n \in Nat \ {0}) /\ (w.path = <<>> => n = 0)
      /\ DOMAIN w.colour = I /\ \A k \in 1..n : w.path[k] \in I
    BY WalkTypes
<1>2. /\ id \in I /\ w.colour[id] = "white" /\ DOMAIN v.colour = I
      /\ \A x \in I : v.colour[x] = IF x = id THEN "grey" ELSE w.colour[x]
      /\ Len(v.path) = n + 1 /\ v.path[n + 1] = id
      /\ \A k \in 1..n : v.path[k] = w.path[k]
      /\ v.left = left /\ v.cycles = w.cycles
    BY <1>1 DEF Enters, Recoloured, Top
<1> HIDE DEF n
<1>3. /\ \A i, j \in 1..n : w.path[i] = w.path[j] => i = j
      /\ \A x \in I : w.colour[x] = "grey" <=> \E k \in 1..n : w.path[k] = x
      /\ \A k \in 1..(n - 1) : w.path[k + 1] \in deps[w.path[k]]
      /\ \A x \in I : w.left[x] \subseteq deps[x] /\ (w.colour[x] = "black" => w.left[x] = {})
    BY <1>1 DEF WalkInv, OnItsWay, n
<1>4. \A k \in 1..(n + 1) : k \in 1..n \/ k = n + 1
    BY <1>1
<1>5. \A k \in 1..n : v.path[k] # id
    BY <1>2, <1>3
<1>6. \A i, j \in 1..(n + 1) : v.path[i] = v.path[j] => i = j
    BY <1>2, <1>3, <1>4, <1>5
<1>7. ASSUME NEW x \in I PROVE v.colour[x] = "grey" <=> \E k \in 1..(n + 1) : v.path[k] = x
    <2>1. n + 1 \in 1..(n + 1) /\ \A k \in 1..n : k \in 1..(n + 1)
        BY <1>1
    <2>2. CASE x = id
        BY <1>2, <2>1, <2>2
    <2>3. CASE x # id
        <3>1. v.colour[x] = w.colour[x]
            BY <1>2, <2>3
        <3>2. (\E k \in 1..(n + 1) : v.path[k] = x) <=> \E k \in 1..n : w.path[k] = x
            BY <1>2, <1>4, <2>1, <2>3
        <3> QED BY <1>3, <3>1, <3>2
    <2> QED BY <2>2, <2>3
<1>8. ASSUME NEW k \in 1..n PROVE v.path[k + 1] \in deps[v.path[k]]
    <2>1. CASE k = n
        <3>1. w.path # <<>> /\ v.path[k] = Top(w) /\ v.path[k + 1] = id
            BY <1>1, <1>2, <2>1 DEF Top, n
        <3> QED BY <3>1
    <2>2. CASE k # n
        <3>1. k \in 1..(n - 1) /\ k + 1 \in 1..n
            BY <1>1, <2>2
        <3> QED BY <1>2, <1>3, <3>1
    <2> QED BY <2>1, <2>2
<1>9. \A x \in I : v.left[x] \subseteq deps[x] /\ (v.colour[x] = "black" => v.left[x] = {})
    <2> TAKE x \in I
    <2>1. v.left[x] \subseteq w.left[x] /\ w.left[x] \subseteq deps[x]
        BY <1>2, <1>3
    <2>2. v.colour[x] = "black" => w.colour[x] = "black"
        BY <1>2
    <2> QED BY <1>3, <2>1, <2>2
<1>10. OnItsWay(v, deps)
    <2>1. (n + 1) - 1 = n
        BY <1>1
    <2> QED BY <1>2, <1>6, <1>7, <1>8, <1>9, <2>1 DEF OnItsWay
<1>11. ASSUME w.cycles = {} PROVE EdgesAreDone(v, deps)
    <2> SUFFICES ASSUME NEW x \in I, NEW d \in (deps[x] \cap I) \ v.left[x]
                 PROVE  v.colour[d] = "black" \/ NextOnPath(v, x, d)
        BY <1>2 DEF EdgesAreDone
    <2>0. (n + 1) - 1 = n
        BY <1>1
    <2>1. CASE d \in w.left[x]
        <3>1. w.path # <<>> /\ x = Top(w) /\ d = id
            BY <1>2, <2>1
        <3>2. n \in 1..n /\ v.path[n] = x /\ v.path[n + 1] = d
            BY <1>1, <1>2, <3>1 DEF Top, n
        <3> QED BY <1>2, <2>0, <3>2 DEF NextOnPath
    <2>2. CASE d \notin w.left[x]
        <3>1. w.colour[d] = "black" \/ NextOnPath(w, x, d)
            BY <1>1, <1>11, <2>2 DEF WalkInv, EdgesAreDone
        <3>2. CASE w.colour[d] = "black"
            <4>1. d # id
                BY <1>2, <3>2
            <4> QED BY <1>2, <3>2, <4>1
        <3>3. CASE NextOnPath(w, x, d)
            <4>1. PICK k \in 1..(n - 1) : w.path[k] = x /\ w.path[k + 1] = d
                BY <3>3 DEF NextOnPath, n
            <4>2. k \in 1..n /\ k + 1 \in 1..n
                BY <1>1
            <4>3. v.path[k] = x /\ v.path[k + 1] = d
                BY <1>2, <4>1, <4>2
            <4> QED BY <1>2, <2>0, <4>2, <4>3 DEF NextOnPath
        <3> QED BY <3>1, <3>2, <3>3
    <2> QED BY <2>1, <2>2
<1>12. Blacks(v) = Blacks(w)
    BY <1>1, <1>2 DEF Blacks
<1> QED BY <1>1, <1>2, <1>10, <1>11, <1>12 DEF WalkInv

LEMMA LeavesKeeps ==
    ASSUME NEW I, IsFiniteSet(I), NEW D, NEW deps \in [I -> SUBSET D], NEW w \in Walks(I, D),
           NEW v \in Walks(I, D), WalkInv(w, deps), Leaves(w, v)
    PROVE  WalkInv(v, deps)
<1> DEFINE n == Len(w.path)
           id == Top(w)
<1>1. /\ n \in Nat \ {0} /\ id \in I
      /\ DOMAIN w.colour = I /\ \A k \in 1..n : w.path[k] \in I
    BY WalkTypes DEF Leaves
<1>2. /\ w.left[id] = {} /\ DOMAIN v.colour = I
      /\ \A x \in I : v.colour[x] = IF x = id THEN "black" ELSE w.colour[x]
      /\ Len(v.path) = n - 1
      /\ \A k \in 1..(n - 1) : v.path[k] = w.path[k]
      /\ v.left = w.left /\ v.cycles = w.cycles
    BY <1>1 DEF Leaves, Recoloured
<1>0. w.path[n] = id
    BY DEF Top
<1> HIDE DEF n, id
<1>3. /\ \A i, j \in 1..n : w.path[i] = w.path[j] => i = j
      /\ \A x \in I : w.colour[x] = "grey" <=> \E k \in 1..n : w.path[k] = x
      /\ \A k \in 1..(n - 1) : w.path[k + 1] \in deps[w.path[k]]
      /\ \A x \in I : w.left[x] \subseteq deps[x] /\ (w.colour[x] = "black" => w.left[x] = {})
    BY <1>1 DEF WalkInv, OnItsWay, n
<1>4. /\ \A k \in 1..n : k \in 1..(n - 1) \/ k = n
      /\ \A k \in 1..(n - 1) : k \in 1..n /\ k # n
      /\ \A k \in 1..((n - 1) - 1) : k \in 1..(n - 1) /\ k + 1 \in 1..(n - 1)
      /\ n \in 1..n
    BY <1>1
<1>5. \A k \in 1..(n - 1) : w.path[k] # id
    BY <1>0, <1>3, <1>4
<1>6. w.colour[id] = "grey"
    BY <1>0, <1>1, <1>3, <1>4
<1>7. ASSUME NEW x \in I PROVE v.colour[x] = "grey" <=> \E k \in 1..(n - 1) : v.path[k] = x
    <2>1. CASE x = id
        BY <1>2, <1>5, <2>1
    <2>2. CASE x # id
        <3>1. v.colour[x] = w.colour[x]
            BY <1>2, <2>2
        <3>2. (\E k \in 1..(n - 1) : v.path[k] = x) <=> \E k \in 1..n : w.path[k] = x
            BY <1>0, <1>2, <1>4, <2>2
        <3> QED BY <1>3, <3>1, <3>2
    <2> QED BY <2>1, <2>2
<1>8. \A i, j \in 1..(n - 1) : v.path[i] = v.path[j] => i = j
    BY <1>2, <1>3, <1>4
<1>9. \A k \in 1..((n - 1) - 1) : v.path[k + 1] \in deps[v.path[k]]
    BY <1>2, <1>3, <1>4
<1>10. \A x \in I : v.left[x] \subseteq deps[x] /\ (v.colour[x] = "black" => v.left[x] = {})
    BY <1>2, <1>3
<1>11. OnItsWay(v, deps)
    BY <1>2, <1>7, <1>8, <1>9, <1>10 DEF OnItsWay
<1>12. ASSUME w.cycles = {}, NEW x \in I, NEW d \in (deps[x] \cap I) \ w.left[x]
       PROVE  w.colour[d] = "black" \/ \E k \in 1..(n - 1) : w.path[k] = x /\ w.path[k + 1] = d
    BY <1>1, <1>12 DEF WalkInv, EdgesAreDone, NextOnPath, n
<1>13. ASSUME w.cycles = {} PROVE EdgesAreDone(v, deps)
    <2> SUFFICES ASSUME NEW x \in I, NEW d \in (deps[x] \cap I) \ w.left[x]
                 PROVE  v.colour[d] = "black" \/ NextOnPath(v, x, d)
        BY <1>2 DEF EdgesAreDone
    <2>1. CASE w.colour[d] = "black" \/ d = id
        BY <1>1, <1>2, <2>1
    <2>2. CASE ~(w.colour[d] = "black" \/ d = id)
        <3>1. PICK k \in 1..(n - 1) : w.path[k] = x /\ w.path[k + 1] = d
            BY <1>12, <1>13, <2>2
        <3>2. k + 1 # n
            BY <1>0, <2>2, <3>1
        <3>3. k \in 1..((n - 1) - 1)
            BY <1>1, <3>2
        <3>4. v.path[k] = x /\ v.path[k + 1] = d
            BY <1>2, <1>4, <3>1, <3>3
        <3> QED BY <1>2, <3>3, <3>4 DEF NextOnPath
    <2> QED BY <2>1, <2>2
<1>14. Blacks(v) = Blacks(w) \cup {id} /\ id \notin Blacks(w) /\ Blacks(w) \subseteq I
    BY <1>1, <1>2, <1>6 DEF Blacks
<1>15. \A x \in Blacks(w) : x \in I /\ w.colour[x] = "black"
    BY <1>1 DEF Blacks
<1>16. ASSUME w.cycles = {} PROVE \E r : IsOrder(r, Blacks(v), deps, I)
    <2> DEFINE S == Blacks(w)
               T == Blacks(v)
               c == Cardinality(S)
    <2>1. PICK r : IsOrder(r, S, deps, I)
        BY <1>1, <1>16 DEF WalkInv
    <2>2. IsFiniteSet(S) /\ c \in Nat
        BY <1>14, FS_Subset, FS_CardinalityType
    <2>3. Cardinality(T) = c + 1
        BY <1>14, <2>2, FS_AddElement
    <2>4. \A d \in deps[id] \cap I : d \in S
        <3> SUFFICES ASSUME NEW d \in deps[id] \cap I PROVE w.colour[d] = "black"
            BY <1>1 DEF Blacks
        <3>1. d \in (deps[id] \cap I) \ w.left[id]
            BY <1>2
        <3> QED BY <1>1, <1>5, <1>12, <1>16, <3>1
    <2> DEFINE s == [x \in T |-> IF x = id THEN c + 1 ELSE r[x]]
    <2>5. T = S \cup {id} /\ id \notin S
        BY <1>14
    <2>6. r \in [S -> 1..c] /\ \A x \in S : \A d \in deps[x] \cap I : d \in S /\ r[d] < r[x]
        BY <2>1 DEF IsOrder
    <2> HIDE DEF S, T, c
    <2>7. s \in [T -> 1..(c + 1)]
        BY <2>2, <2>5, <2>6
    <2>8. ASSUME NEW x \in T, NEW d \in deps[x] \cap I PROVE d \in T /\ s[d] < s[x]
        <3>1. CASE x = id
            <4>1. d \in S /\ d # id
                BY <2>4, <2>5, <3>1
            <4>2. s[d] = r[d] /\ s[x] = c + 1 /\ r[d] \in 1..c
                BY <2>5, <2>6, <3>1, <4>1
            <4> QED BY <2>2, <2>5, <4>1, <4>2
        <3>2. CASE x # id
            <4>1. x \in S /\ d \in S /\ r[d] < r[x] /\ d # id
                BY <2>5, <2>6, <2>8, <3>2
            <4>2. s[d] = r[d] /\ s[x] = r[x]
                BY <2>5, <3>2, <4>1
            <4> QED BY <2>5, <4>1, <4>2
        <3> QED BY <3>1, <3>2
    <2> HIDE DEF s
    <2>9. IsOrder(s, T, deps, I)
        BY <2>3, <2>7, <2>8 DEF IsOrder
    <2> QED BY <2>9 DEF T
<1> QED BY <1>2, <1>11, <1>13, <1>16 DEF WalkInv

LEMMA PassesKeeps ==
    ASSUME NEW I, NEW D, NEW deps \in [I -> SUBSET D], NEW w \in Walks(I, D), NEW v \in Walks(I, D),
           WalkInv(w, deps), w.path # <<>>, NEW dep \in w.left[Top(w)], Passes(w, v, dep)
    PROVE  WalkInv(v, deps)
<1>1. /\ DOMAIN w.colour = I /\ Top(w) \in I /\ w.left \in [I -> SUBSET D]
    BY WalkTypes
<1>2. /\ v.colour = w.colour /\ v.path = w.path /\ v.cycles = w.cycles
      /\ \A x \in I : v.left[x] = IF x = Top(w) THEN w.left[x] \ {dep} ELSE w.left[x]
      /\ dep \notin I \/ w.colour[dep] = "black"
    BY <1>1 DEF Passes, LeftAfter
<1>3. OnItsWay(v, deps)
    <2>1. \A x \in I : v.left[x] \subseteq deps[x] /\ (v.colour[x] = "black" => v.left[x] = {})
        <3> TAKE x \in I
        <3>1. v.left[x] \subseteq w.left[x]
            BY <1>1, <1>2
        <3>2. w.left[x] \subseteq deps[x] /\ (w.colour[x] = "black" => w.left[x] = {})
            BY <1>1 DEF WalkInv, OnItsWay
        <3> QED BY <1>2, <3>1, <3>2
    <2> QED BY <1>1, <1>2, <2>1 DEF WalkInv, OnItsWay
<1>4. ASSUME w.cycles = {} PROVE EdgesAreDone(v, deps)
    <2> SUFFICES ASSUME NEW x \in I, NEW d \in (deps[x] \cap I) \ v.left[x]
                 PROVE  w.colour[d] = "black" \/ NextOnPath(w, x, d)
        BY <1>1, <1>2 DEF EdgesAreDone, NextOnPath
    <2>1. CASE d = dep
        BY <1>2, <2>1
    <2>2. CASE d # dep
        <3>1. d \notin w.left[x]
            BY <1>2, <2>2
        <3> QED BY <1>1, <1>4, <3>1 DEF WalkInv, EdgesAreDone
    <2> QED BY <2>1, <2>2
<1>5. Blacks(v) = Blacks(w)
    BY <1>2 DEF Blacks
<1> QED BY <1>2, <1>3, <1>4, <1>5 DEF WalkInv

LEMMA ClosesKeeps ==
    ASSUME NEW I, NEW D, NEW deps \in [I -> SUBSET D], NEW w \in Walks(I, D), NEW v \in Walks(I, D),
           WalkInv(w, deps), w.path # <<>>, NEW dep \in w.left[Top(w)], Closes(w, v, dep)
    PROVE  WalkInv(v, deps)
<1>1. /\ DOMAIN w.colour = I /\ Top(w) \in I /\ w.left \in [I -> SUBSET D]
    BY WalkTypes
<1>2. /\ v.colour = w.colour /\ v.path = w.path /\ v.cycles # {}
      /\ \A x \in I : v.left[x] = IF x = Top(w) THEN w.left[x] \ {dep} ELSE w.left[x]
    BY <1>1 DEF Closes, LeftAfter
<1>3. OnItsWay(v, deps)
    <2>1. \A x \in I : v.left[x] \subseteq deps[x] /\ (v.colour[x] = "black" => v.left[x] = {})
        <3> TAKE x \in I
        <3>1. v.left[x] \subseteq w.left[x]
            BY <1>1, <1>2
        <3>2. w.left[x] \subseteq deps[x] /\ (w.colour[x] = "black" => w.left[x] = {})
            BY <1>1 DEF WalkInv, OnItsWay
        <3> QED BY <1>2, <3>1, <3>2
    <2> QED BY <1>1, <1>2, <2>1 DEF WalkInv, OnItsWay
<1> QED BY <1>2, <1>3 DEF WalkInv

LEMMA WalkOnKeeps ==
    ASSUME NEW I, IsFiniteSet(I), NEW D, NEW deps \in [I -> SUBSET D], NEW w \in Walks(I, D),
           WalkInv(w, deps)
    PROVE  WalkInv(WalkOn(w), deps)
<1> DEFINE v == WalkOn(w)
<1>1. /\ v \in Walks(I, D)
      /\ \/ Finished(w) /\ v = w
         \/ w.path = <<>> /\ \E id \in I : Enters(w, v, id, w.left)
         \/ Leaves(w, v)
         \/ Follows(w, v)
    BY WalkOnEffect
<1> HIDE DEF v
<1>2. CASE w.path = <<>> /\ \E id \in I : Enters(w, v, id, w.left)
    <2>1. PICK id \in I : Enters(w, v, id, w.left)
        BY <1>2
    <2> QED BY <1>1, <1>2, <2>1, EntersKeeps DEF v
<1>3. CASE Leaves(w, v)
    BY <1>1, <1>3, LeavesKeeps DEF v
<1>4. CASE Follows(w, v)
    <2>1. PICK dep \in w.left[Top(w)] :
              Passes(w, v, dep) \/ Enters(w, v, dep, LeftAfter(w, dep)) \/ Closes(w, v, dep)
        BY <1>4 DEF Follows
    <2>2. w.path # <<>>
        BY <1>4 DEF Follows
    <2>3. CASE Passes(w, v, dep)
        BY <1>1, <2>2, <2>3, PassesKeeps DEF v
    <2>4. CASE Closes(w, v, dep)
        BY <1>1, <2>2, <2>4, ClosesKeeps DEF v
    <2>5. CASE Enters(w, v, dep, LeftAfter(w, dep))
        <3>1. Top(w) \in I /\ w.left \in [I -> SUBSET D] /\ DOMAIN w.colour = I
            BY <2>2, WalkTypes
        <3>2. \A x \in I : LeftAfter(w, dep)[x] = IF x = Top(w) THEN w.left[x] \ {dep} ELSE w.left[x]
            BY <3>1 DEF LeftAfter
        <3>3. dep \in deps[Top(w)]
            BY <2>1, <3>1 DEF WalkInv, OnItsWay
        <3>4. \A x \in I : LeftAfter(w, dep)[x] \subseteq w.left[x]
            BY <3>2
        <3>5. \A x \in I : \A d \in w.left[x] :
                  d \in LeftAfter(w, dep)[x] \/ (w.path # <<>> /\ x = Top(w) /\ d = dep)
            BY <2>2, <3>2
        <3> QED BY <1>1, <2>5, <3>3, <3>4, <3>5, EntersKeeps DEF v
    <2> QED BY <2>1, <2>3, <2>4, <2>5
<1> QED BY <1>1, <1>2, <1>3, <1>4 DEF v

-----------------------------------------------------------------------------
(* How long the walk takes. *)

\* What the walk has still to do: nodes to enter, nodes to leave, edges to follow.
Unentered(w, I) == {x \in I : w.colour[x] = "white"}
Unleft(w, I) == {x \in I : w.colour[x] # "black"}
Unfollowed(w, I, D) == {x \in I \X D : x[2] \in w.left[x[1]]}
ToDo(w, I, D) ==
    Cardinality(Unentered(w, I)) + Cardinality(Unleft(w, I)) + Cardinality(Unfollowed(w, I, D))

LEMMA ToDoIsFinite ==
    ASSUME NEW I, IsFiniteSet(I), NEW D, IsFiniteSet(D), NEW w
    PROVE  /\ IsFiniteSet(Unentered(w, I)) /\ Cardinality(Unentered(w, I)) \in 0..Cardinality(I)
           /\ IsFiniteSet(Unleft(w, I)) /\ Cardinality(Unleft(w, I)) \in 0..Cardinality(I)
           /\ IsFiniteSet(Unfollowed(w, I, D))
           /\ Cardinality(Unfollowed(w, I, D)) \in 0..(Cardinality(I) * Cardinality(D))
<1>1. IsFiniteSet(I \X D) /\ Cardinality(I \X D) = Cardinality(I) * Cardinality(D)
    BY FS_Product
<1>2. Unentered(w, I) \in SUBSET I /\ Unleft(w, I) \in SUBSET I /\ Unfollowed(w, I, D) \in SUBSET (I \X D)
    BY DEF Unentered, Unleft, Unfollowed
<1>3. ASSUME NEW S, IsFiniteSet(S), NEW T \in SUBSET S
      PROVE  IsFiniteSet(T) /\ Cardinality(T) \in 0..Cardinality(S)
    <2>1. IsFiniteSet(T) /\ Cardinality(T) <= Cardinality(S)
        BY ONLY <1>3, FS_Subset
    <2>2. Cardinality(T) \in Nat /\ Cardinality(S) \in Nat
        BY ONLY <1>3, <2>1, FS_CardinalityType
    <2> QED BY ONLY <2>1, <2>2
<1>4. /\ IsFiniteSet(Unentered(w, I)) /\ Cardinality(Unentered(w, I)) \in 0..Cardinality(I)
      /\ IsFiniteSet(Unleft(w, I)) /\ Cardinality(Unleft(w, I)) \in 0..Cardinality(I)
    BY <1>2, <1>3
<1>5. /\ IsFiniteSet(Unfollowed(w, I, D))
      /\ Cardinality(Unfollowed(w, I, D)) \in 0..Cardinality(I \X D)
    BY <1>1, <1>2, <1>3
<1> QED BY ONLY <1>1, <1>4, <1>5, Zenon

\* Taking an element out, and leaving a set alone.
LEMMA OneLess ==
    ASSUME NEW S, IsFiniteSet(S), NEW T, NEW x, x \in S, T = S \ {x}
    PROVE  Cardinality(T) = Cardinality(S) - 1
BY FS_RemoveElement

\* Every turn leaves less to do, until the walk is finished.
LEMMA TurnsAreUsed ==
    ASSUME NEW I, IsFiniteSet(I), NEW D, IsFiniteSet(D), NEW deps \in [I -> SUBSET D],
           NEW w \in Walks(I, D), WalkInv(w, deps), ~Finished(w)
    PROVE  ToDo(WalkOn(w), I, D) + 1 <= ToDo(w, I, D)
<1> DEFINE v == WalkOn(w)
           a(u) == Cardinality(Unentered(u, I))
           b(u) == Cardinality(Unleft(u, I))
           c(u) == Cardinality(Unfollowed(u, I, D))
<1>1. /\ v \in Walks(I, D)
      /\ \/ \E id \in I : Enters(w, v, id, w.left)
         \/ Leaves(w, v)
         \/ Follows(w, v)
    BY WalkOnEffect
<1> HIDE DEF v
<1>2. /\ IsFiniteSet(Unentered(w, I)) /\ IsFiniteSet(Unleft(w, I)) /\ IsFiniteSet(Unfollowed(w, I, D))
      /\ a(w) \in Nat /\ b(w) \in Nat /\ c(w) \in Nat
    BY ToDoIsFinite, FS_CardinalityType
<1>3. /\ DOMAIN w.colour = I /\ w.colour \in [I -> Colours] /\ w.left \in [I -> SUBSET D]
    BY WalkTypes
<1>4. ASSUME NEW id \in I, w.colour[id] = "white", Recoloured(w, v, id, "grey")
      PROVE  a(v) = a(w) - 1 /\ b(v) = b(w)
    <2>1. Unentered(v, I) = Unentered(w, I) \ {id} /\ id \in Unentered(w, I)
        BY <1>3, <1>4 DEF Recoloured, Unentered
    <2>2. Unleft(v, I) = Unleft(w, I)
        BY <1>3, <1>4 DEF Recoloured, Unleft
    <2>3. a(v) = a(w) - 1
        BY ONLY <1>2, <2>1, OneLess
    <2> QED BY <2>2, <2>3
<1>5. ASSUME NEW dep \in w.left[Top(w)], w.path # <<>>, v.left = LeftAfter(w, dep)
      PROVE  c(v) = c(w) - 1
    <2>1. Top(w) \in I /\ dep \in D
        BY <1>3, <1>5, WalkTypes
    <2>2. \A x \in I : v.left[x] = IF x = Top(w) THEN w.left[x] \ {dep} ELSE w.left[x]
        BY <1>3, <1>5, <2>1 DEF LeftAfter
    <2>3. <<Top(w), dep>> \in Unfollowed(w, I, D)
        BY <2>1 DEF Unfollowed
    <2>4. Unfollowed(v, I, D) = Unfollowed(w, I, D) \ {<<Top(w), dep>>}
        <3>1. ASSUME NEW x \in I, NEW d \in D
              PROVE  d \in v.left[x] <=> d \in w.left[x] /\ <<x, d>> # <<Top(w), dep>>
            BY <2>2
        <3> QED BY <3>1 DEF Unfollowed
    <2> QED BY ONLY <1>2, <2>3, <2>4, OneLess
<1>6. CASE \E id \in I : Enters(w, v, id, w.left)
    <2>1. PICK id \in I : Enters(w, v, id, w.left)
        BY <1>6
    <2>2. a(v) = a(w) - 1 /\ b(v) = b(w)
        BY <1>4, <2>1 DEF Enters
    <2>3. Unfollowed(v, I, D) = Unfollowed(w, I, D)
        BY <2>1 DEF Enters, Unfollowed
    <2>4. c(v) = c(w)
        BY <2>3
    <2> QED BY <1>2, <2>2, <2>4 DEF ToDo, v
<1>7. CASE Leaves(w, v)
    <2>1. /\ Top(w) \in I /\ w.path # <<>> /\ v.left = w.left
          /\ Recoloured(w, v, Top(w), "black")
        BY <1>7, WalkTypes DEF Leaves
    <2>2. w.colour[Top(w)] = "grey"
        <3>1. Len(w.path) \in 1..Len(w.path)
            BY <2>1, WalkTypes
        <3> QED BY <1>3, <2>1, <3>1 DEF WalkInv, OnItsWay, Top
    <2>3. Unentered(v, I) = Unentered(w, I)
        BY <1>3, <2>1, <2>2 DEF Recoloured, Unentered
    <2>4. Unleft(v, I) = Unleft(w, I) \ {Top(w)} /\ Top(w) \in Unleft(w, I)
        BY <1>3, <2>1, <2>2 DEF Recoloured, Unleft
    <2>5. Unfollowed(v, I, D) = Unfollowed(w, I, D)
        BY <2>1 DEF Unfollowed
    <2>6. b(v) = b(w) - 1
        BY ONLY <1>2, <2>4, OneLess
    <2>7. a(v) = a(w) /\ c(v) = c(w)
        BY <2>3, <2>5
    <2> QED BY <1>2, <2>6, <2>7 DEF ToDo, v
<1>8. CASE Follows(w, v)
    <2>1. PICK dep \in w.left[Top(w)] :
              Passes(w, v, dep) \/ Enters(w, v, dep, LeftAfter(w, dep)) \/ Closes(w, v, dep)
        BY <1>8 DEF Follows
    <2>2. c(v) = c(w) - 1
        BY <1>5, <1>8, <2>1 DEF Follows, Passes, Enters, Closes
    <2>3. a(v) <= a(w) /\ b(v) <= b(w)
        <3>1. CASE v.colour = w.colour
            <4>1. Unentered(v, I) = Unentered(w, I) /\ Unleft(v, I) = Unleft(w, I)
                BY <3>1 DEF Unentered, Unleft
            <4> QED BY <1>2, <4>1
        <3>2. CASE Enters(w, v, dep, LeftAfter(w, dep))
            <4>1. a(v) = a(w) - 1 /\ b(v) = b(w)
                BY <1>3, <1>4, <3>2 DEF Enters
            <4> QED BY <1>2, <4>1
        <3> QED BY <2>1, <3>1, <3>2 DEF Passes, Closes
    <2>4. a(v) \in Nat /\ b(v) \in Nat
        BY ToDoIsFinite
    <2> QED BY <1>2, <2>2, <2>3, <2>4 DEF ToDo, v
<1> QED BY <1>1, <1>6, <1>7, <1>8

\* Where the nodes have an order, no edge leads back into the path.
IsRank(rank, deps, I) ==
    rank \in [I -> Nat] /\ \A x \in I : \A d \in deps[x] \cap I : rank[d] < rank[x]

LEMMA PathsDescend ==
    ASSUME NEW I, NEW D, NEW deps \in [I -> SUBSET D], NEW rank, IsRank(rank, deps, I),
           NEW w \in Walks(I, D), WalkInv(w, deps)
    PROVE  \A j \in 1..Len(w.path) : \A i \in 1..j : rank[w.path[j]] <= rank[w.path[i]]
<1> DEFINE n == Len(w.path)
           p == w.path
           Low(j) == \A i \in 1..j : rank[p[j]] <= rank[p[i]]
           Wrong == {j \in 1..n : ~Low(j)}
<1>1. n \in Nat /\ \A k \in 1..n : p[k] \in I
    BY WalkTypes
<1>2. \A k \in 1..(n - 1) : p[k + 1] \in deps[p[k]]
    BY DEF WalkInv, OnItsWay
<1> HIDE DEF n, p
<1>3. Wrong = {}
    <2> SUFFICES ASSUME Wrong # {} PROVE FALSE
        OBVIOUS
    <2>1. PICK j \in Wrong : \A l \in Wrong : j <= l
        <3>1. Wrong \in SUBSET Nat
            OBVIOUS
        <3> HIDE DEF Wrong
        <3> QED BY <3>1, NatMin
    <2>2. j \in 1..n /\ ~Low(j)
        BY <2>1
    <2>3. rank[p[j]] \in Nat
        BY <1>1, <2>2 DEF IsRank
    <2>4. PICK i \in 1..j : ~(rank[p[j]] <= rank[p[i]])
        BY <2>2
    <2>5. i # j
        BY <2>3, <2>4
    <2>6. j - 1 \in 1..n /\ j - 1 \in 1..(n - 1) /\ i \in 1..(j - 1) /\ (j - 1) + 1 = j /\ ~(j <= j - 1)
        BY <1>1, <2>2, <2>4, <2>5
    <2>7. Low(j - 1)
        <3> HIDE DEF Low
        <3> QED BY <2>1, <2>6
    <2>8. rank[p[j - 1]] <= rank[p[i]]
        BY <2>6, <2>7
    <2>9. p[j] \in deps[p[j - 1]] /\ p[j] \in I /\ p[j - 1] \in I
        BY <1>1, <1>2, <2>2, <2>6
    <2>10. rank[p[j]] < rank[p[j - 1]]
        BY <2>9 DEF IsRank
    <2>11. rank[p[j - 1]] \in Nat /\ rank[p[i]] \in Nat
        <3>1. i \in 1..n
            BY <1>1, <2>2
        <3> QED BY <1>1, <2>6, <3>1 DEF IsRank
    <2> QED BY ONLY <2>3, <2>4, <2>8, <2>10, <2>11
<1> QED BY <1>3 DEF n, p

LEMMA OrdersCloseNoCycle ==
    ASSUME NEW I, NEW D, NEW deps \in [I -> SUBSET D], NEW rank, IsRank(rank, deps, I),
           NEW w \in Walks(I, D), WalkInv(w, deps), w.cycles = {}
    PROVE  WalkOn(w).cycles = {}
<1> DEFINE v == WalkOn(w)
<1>1. \/ Finished(w) /\ v = w
      \/ \E id \in I : Enters(w, v, id, w.left)
      \/ Leaves(w, v)
      \/ Follows(w, v)
    BY WalkOnEffect
<1> HIDE DEF v
<1>2. ASSUME w.path # <<>>, NEW dep \in w.left[Top(w)], Closes(w, v, dep) PROVE FALSE
    <2>1. DOMAIN w.colour = I /\ Top(w) \in I /\ Len(w.path) \in Nat \ {0}
        BY <1>2, WalkTypes
    <2>2. dep \in I /\ w.colour[dep] = "grey"
        BY <1>2, <2>1 DEF Closes
    <2>3. PICK i \in 1..Len(w.path) : w.path[i] = dep
        BY <2>1, <2>2 DEF WalkInv, OnItsWay
    <2>4. dep \in deps[Top(w)]
        BY <1>2, <2>1 DEF WalkInv, OnItsWay
    <2>5. rank[dep] < rank[Top(w)]
        BY <2>1, <2>2, <2>4 DEF IsRank
    <2>6. rank[Top(w)] <= rank[dep]
        BY <2>1, <2>3, PathsDescend DEF Top
    <2>7. rank[dep] \in Nat /\ rank[Top(w)] \in Nat
        BY <2>1, <2>2 DEF IsRank
    <2> QED BY ONLY <2>5, <2>6, <2>7
<1>3. v.cycles = {}
    BY <1>1, <1>2 DEF Enters, Leaves, Follows, Passes
<1> QED BY <1>3 DEF v

-----------------------------------------------------------------------------
(* The whole walk. *)

Start(q) ==
    [colour |-> [id \in IdsOf(q) |-> "white"], left |-> BuildDeps(q), path |-> <<>>, cycles |-> {}]

LEMMA TurnsAreNatural ==
    ASSUME NEW q \in Seq(QueueItems)
    PROVE  /\ Turns(q) \in Nat
           /\ Turns(q) = Cardinality(IdsOf(q)) * (Cardinality(Edges(q)) + 2)
           /\ Cardinality(IdsOf(q)) \in Nat /\ Cardinality(Edges(q)) \in Nat
<1>1. Cardinality(IdsOf(q)) \in Nat /\ Cardinality(Edges(q)) \in Nat
    BY QueuesAreFinite, FS_CardinalityType
<1>2. Turns(q) = Cardinality(IdsOf(q)) * (Cardinality(Edges(q)) + 2)
    BY Zenon DEF Turns, Edges
<1>3. ASSUME NEW m \in Nat, NEW n \in Nat PROVE m * (n + 2) \in Nat
    BY ONLY <1>3
<1> QED BY <1>1, <1>2, <1>3

LEMMA StartIsAWalk ==
    ASSUME NEW q \in Seq(QueueItems)
    PROVE  Start(q) \in Walks(IdsOf(q), Edges(q)) /\ WalkInv(Start(q), BuildDeps(q))
<1> DEFINE s == Start(q)
<1>1. BuildDeps(q) \in [IdsOf(q) -> SUBSET Edges(q)]
    BY DepsAreEdges
<1>2. /\ s.path = <<>> /\ s.left = BuildDeps(q) /\ s.cycles = {} /\ DOMAIN s.colour = IdsOf(q)
      /\ \A x \in IdsOf(q) : s.colour[x] = "white"
    BY DEF Start
<1>3. <<>> \in Seq(IdsOf(q))
    OBVIOUS
<1>4. s \in Walks(IdsOf(q), Edges(q))
    BY <1>1, <1>3 DEF Start, Walks, Colours
<1> HIDE DEF s
<1>5. OnItsWay(s, BuildDeps(q)) /\ EdgesAreDone(s, BuildDeps(q))
    BY <1>2 DEF OnItsWay, EdgesAreDone
<1>6. Blacks(s) = {}
    BY <1>2 DEF Blacks
<1>7. IsOrder(<<>>, Blacks(s), BuildDeps(q), DOMAIN s.colour)
    BY <1>6 DEF IsOrder
<1> QED BY <1>4, <1>5, <1>7 DEF WalkInv, s

LEMMA WalkedIsTheRecursion ==
    ASSUME NEW q \in Seq(QueueItems)
    PROVE  \A k \in 0..Turns(q) :
               /\ Walked(q)[k] \in Walks(IdsOf(q), Edges(q))
               /\ Walked(q)[k] = IF k = 0 THEN Start(q) ELSE WalkOn(Walked(q)[k - 1])
<1> DEFINE V == Walks(IdsOf(q), Edges(q))
           n == Turns(q)
           start == Start(q)
           next == [x \in V \X (1..n) |-> WalkOn(x[1])]
           Value(f, k) == IF k = 0 THEN start ELSE WalkOn(f[k - 1])
<1>0. n \in Nat
    BY TurnsAreNatural
<1>1. start \in V
    BY StartIsAWalk
<1>2. ASSUME NEW b \in V PROVE WalkOn(b) \in V
    BY <1>2, WalkOnEffect
<1>3. next \in [V \X (1..n) -> V]
    <2> HIDE DEF V
    <2> QED BY <1>2
<1> HIDE DEF start, n
<1>4. PICK f : Iterates(f, V, n, start, next)
    <2> HIDE DEF V, next
    <2>1. CanIterate(V, n, start, next)
        BY <1>0, <1>1, <1>3 DEF CanIterate
    <2> QED BY <2>1, Iteration
<1>5. \A k \in 0..n : f[k] = Value(f, k)
    <2>1. ASSUME NEW k \in 0..n, k # 0 PROVE next[<<f[k - 1], k>>] = WalkOn(f[k - 1])
        <3>1. f[k - 1] \in V /\ k \in 1..n
            BY <1>0, <1>4, <2>1 DEF Iterates
        <3> HIDE DEF V
        <3> QED BY <3>1
    <2> HIDE DEF next, V
    <2> QED BY <1>4, <2>1 DEF Iterates
<1>6. f = [k \in 0..n |-> Value(f, k)]
    <2>1. f \in [0..n -> V]
        BY <1>4 DEF Iterates
    <2> HIDE DEF Value, V
    <2> QED BY <1>5, <2>1
<1> DEFINE after == Walked(q)
<1>7. after = [k \in 0..n |-> Value(after, k)]
    BY <1>6, Zenon DEF Walked, start, Start, n
<1>8. \A k \in 0..n : after[k] = Value(after, k)
    <2> HIDE DEF after, Value
    <2> QED BY <1>7
<1> HIDE DEF after, V
<1> DEFINE Wrong == {k \in 0..n : after[k] \notin V}
<1>9. Wrong = {}
    <2> SUFFICES ASSUME Wrong # {} PROVE FALSE
        OBVIOUS
    <2>1. PICK k \in Wrong : \A j \in Wrong : k <= j
        <3>1. Wrong \in SUBSET Nat
            OBVIOUS
        <3> HIDE DEF Wrong
        <3> QED BY <3>1, NatMin
    <2>2. CASE k = 0
        <3>1. after[0] = start
            BY <1>0, <1>8
        <3> QED BY <1>1, <2>1, <2>2, <3>1
    <2>3. CASE k # 0
        <3>1. k - 1 \in 0..n /\ ~(k <= k - 1)
            BY <1>0, <2>1, <2>3
        <3>2. after[k - 1] \in V
            BY <2>1, <3>1
        <3>3. after[k] = WalkOn(after[k - 1])
            BY <1>8, <2>1, <2>3
        <3> QED BY <1>2, <2>1, <3>2, <3>3
    <2> QED BY <2>2, <2>3
<1>10. \A k \in 0..n : after[k] \in V
    BY <1>9
<1> QED BY <1>8, <1>10 DEF after, V, start, n

\* The walk keeps its invariant, and has no more to do than turns left.
LEMMA WalkedInv ==
    ASSUME NEW q \in Seq(QueueItems)
    PROVE  \A k \in 0..Turns(q) :
               /\ WalkInv(Walked(q)[k], BuildDeps(q))
               /\ Finished(Walked(q)[k])
                  \/ ToDo(Walked(q)[k], IdsOf(q), Edges(q)) + k <= Turns(q)
<1> DEFINE I == IdsOf(q)
           D == Edges(q)
           deps == BuildDeps(q)
           n == Turns(q)
           after == Walked(q)
           Good(k) == /\ WalkInv(after[k], deps)
                      /\ Finished(after[k]) \/ ToDo(after[k], I, D) + k <= n
           Wrong == {k \in 0..n : ~Good(k)}
<1>1. /\ n \in Nat /\ n = Cardinality(I) * (Cardinality(D) + 2)
      /\ Cardinality(I) \in Nat /\ Cardinality(D) \in Nat
    BY TurnsAreNatural
<1>2. IsFiniteSet(I) /\ IsFiniteSet(D) /\ deps \in [I -> SUBSET D]
    BY QueuesAreFinite, DepsAreEdges
<1>3. \A k \in 0..n : /\ after[k] \in Walks(I, D)
                      /\ after[k] = IF k = 0 THEN Start(q) ELSE WalkOn(after[k - 1])
    BY WalkedIsTheRecursion
<1>4. WalkInv(Start(q), deps)
    BY StartIsAWalk
<1> HIDE DEF I, D, deps, n, after
<1>5. \A w : ToDo(w, I, D) \in Nat /\ ToDo(w, I, D) <= n
    <2> TAKE w
    <2> DEFINE a == Cardinality(Unentered(w, I))
               b == Cardinality(Unleft(w, I))
               c == Cardinality(Unfollowed(w, I, D))
               i == Cardinality(I)
               d == Cardinality(D)
    <2>1. a \in 0..i /\ b \in 0..i /\ c \in 0..(i * d)
        BY <1>2, ToDoIsFinite
    <2>2. i \in Nat /\ d \in Nat /\ n = i * (d + 2)
        BY <1>1
    <2> HIDE DEF a, b, c, i, d
    <2>3. i * d \in Nat /\ n = i * d + i + i
        BY ONLY <2>2
    <2> DEFINE m == i * d
    <2>4. m \in Nat /\ n = m + i + i /\ c \in 0..m
        BY <2>1, <2>3
    <2> HIDE DEF m
    <2>5. a + b + c \in Nat /\ a + b + c <= n
        BY ONLY <2>1, <2>2, <2>4
    <2> QED BY <2>5 DEF ToDo, a, b, c
<1>6. Wrong = {}
    <2> SUFFICES ASSUME Wrong # {} PROVE FALSE
        OBVIOUS
    <2>1. PICK k \in Wrong : \A j \in Wrong : k <= j
        <3>1. Wrong \in SUBSET Nat
            OBVIOUS
        <3> HIDE DEF Wrong
        <3> QED BY <3>1, NatMin
    <2>2. k \in 0..n /\ ~Good(k)
        BY <2>1
    <2>3. CASE k = 0
        <3>1. after[k] = Start(q)
            BY <1>3, <2>2, <2>3
        <3>2. ToDo(after[k], I, D) + k <= n
            BY <1>1, <1>5, <2>3
        <3> QED BY <1>4, <2>2, <3>1, <3>2
    <2>4. CASE k # 0
        <3> DEFINE w == after[k - 1]
        <3>1. k - 1 \in 0..n /\ ~(k <= k - 1) /\ k \in Nat
            BY <1>1, <2>2, <2>4
        <3>2. Good(k - 1)
            <4> HIDE DEF Good
            <4> QED BY <2>1, <3>1
        <3>3. w \in Walks(I, D) /\ after[k] = WalkOn(w)
            BY <1>3, <2>2, <2>4, <3>1
        <3>4. WalkInv(w, deps) /\ (Finished(w) \/ ToDo(w, I, D) + (k - 1) <= n)
            BY <3>2
        <3> HIDE DEF w
        <3>5. WalkInv(after[k], deps)
            BY <1>2, <3>3, <3>4, WalkOnKeeps
        <3>6. CASE Finished(w)
            <4>1. WalkOn(w) = w
                <5>1. w.path = <<>> /\ \A id \in DOMAIN w.colour : w.colour[id] # "white"
                    BY <3>6 DEF Finished
                <5>2. {id \in DOMAIN w.colour : w.colour[id] = "white"} = {}
                    BY <5>1
                <5> QED BY <5>1, <5>2 DEF WalkOn
            <4> QED BY <2>2, <3>3, <3>5, <3>6, <4>1
        <3>7. CASE ~Finished(w)
            <4>1. ToDo(after[k], I, D) + 1 <= ToDo(w, I, D)
                BY <1>2, <3>3, <3>4, <3>7, TurnsAreUsed
            <4>2. ToDo(after[k], I, D) \in Nat /\ ToDo(w, I, D) \in Nat
                BY <1>5
            <4>3. ToDo(after[k], I, D) + k <= n
                BY ONLY <1>1, <3>1, <3>4, <3>7, <4>1, <4>2
            <4> QED BY <2>2, <3>5, <4>3
        <3> QED BY <3>6, <3>7
    <2> QED BY <2>3, <2>4
<1> QED BY <1>6 DEF I, D, deps, n, after

\* The walk finds no cycle where there is an order, and an order where it finds none.
LEMMA CyclesAreFound ==
    ASSUME NEW q \in Seq(QueueItems)
    PROVE  /\ FindDependsOnCycles(q) = {} =>
                  \E rank : IsOrder(rank, IdsOf(q), BuildDeps(q), IdsOf(q))
           /\ (\E rank : IsRank(rank, BuildDeps(q), IdsOf(q))) => FindDependsOnCycles(q) = {}
<1> DEFINE I == IdsOf(q)
           D == Edges(q)
           deps == BuildDeps(q)
           n == Turns(q)
           after == Walked(q)
           last == after[n]
<1>1. n \in Nat
    BY TurnsAreNatural
<1>2. IsFiniteSet(I) /\ IsFiniteSet(D) /\ deps \in [I -> SUBSET D]
    BY QueuesAreFinite, DepsAreEdges
<1>3. \A k \in 0..n : /\ after[k] \in Walks(I, D)
                      /\ after[k] = IF k = 0 THEN Start(q) ELSE WalkOn(after[k - 1])
    BY WalkedIsTheRecursion
<1>4. \A k \in 0..n : /\ WalkInv(after[k], deps)
                      /\ Finished(after[k]) \/ ToDo(after[k], I, D) + k <= n
    BY WalkedInv
<1>5. FindDependsOnCycles(q) = last.cycles
    BY DEF FindDependsOnCycles
<1>6. Start(q).cycles = {}
    BY DEF Start
<1> HIDE DEF I, D, deps, n, after
<1>7. ASSUME last.cycles = {} PROVE \E rank : IsOrder(rank, I, deps, I)
    <2>1. /\ last \in Walks(I, D) /\ WalkInv(last, deps)
          /\ Finished(last) \/ ToDo(last, I, D) + n <= n
        BY <1>1, <1>3, <1>4
    <2> HIDE DEF last
    <2>2. DOMAIN last.colour = I /\ last.colour \in [I -> Colours]
        BY <2>1, WalkTypes
    <2>3. \A x \in I : last.colour[x] = "black"
        <3>1. CASE Finished(last)
            <4>1. Len(last.path) = 0 /\ \A x \in I : last.colour[x] # "white"
                BY <2>1, <2>2, <3>1, WalkTypes DEF Finished
            <4>2. \A x \in I : last.colour[x] # "grey"
                BY <2>1, <2>2, <4>1 DEF WalkInv, OnItsWay
            <4> QED BY <2>2, <4>1, <4>2 DEF Colours
        <3>2. CASE ToDo(last, I, D) + n <= n
            <4> DEFINE a == Cardinality(Unentered(last, I))
                       b == Cardinality(Unleft(last, I))
                       c == Cardinality(Unfollowed(last, I, D))
            <4>1. a \in Nat /\ b \in Nat /\ c \in Nat /\ IsFiniteSet(Unleft(last, I))
                BY <1>2, ToDoIsFinite, FS_CardinalityType
            <4>2. a + b + c + n <= n
                BY <3>2 DEF ToDo
            <4>3. b = 0
                <5> HIDE DEF a, b, c
                <5> QED BY ONLY <1>1, <4>1, <4>2
            <4>4. Unleft(last, I) = {}
                BY <4>1, <4>3, FS_EmptySet
            <4> QED BY <4>4 DEF Unleft
        <3> QED BY <2>1, <3>1, <3>2
    <2>4. Blacks(last) = I
        BY <2>2, <2>3 DEF Blacks
    <2> QED BY <1>7, <2>1, <2>2, <2>4 DEF WalkInv
<1>8. ASSUME NEW rank, IsRank(rank, deps, I) PROVE last.cycles = {}
    <2> DEFINE Wrong == {k \in 0..n : after[k].cycles # {}}
    <2>1. Wrong = {}
        <3> SUFFICES ASSUME Wrong # {} PROVE FALSE
            OBVIOUS
        <3>1. PICK k \in Wrong : \A j \in Wrong : k <= j
            <4>1. Wrong \in SUBSET Nat
                OBVIOUS
            <4> HIDE DEF Wrong
            <4> QED BY <4>1, NatMin
        <3>2. k # 0
            BY <1>1, <1>3, <1>6, <3>1
        <3>3. k - 1 \in 0..n /\ ~(k <= k - 1)
            BY <1>1, <3>1, <3>2
        <3>4. after[k - 1].cycles = {} /\ after[k] = WalkOn(after[k - 1])
            BY <1>3, <3>1, <3>2, <3>3
        <3>5. WalkOn(after[k - 1]).cycles = {}
            BY <1>2, <1>3, <1>4, <1>8, <3>3, <3>4, OrdersCloseNoCycle
        <3> QED BY <3>1, <3>4, <3>5
    <2> QED BY <1>1, <2>1
<1> QED BY <1>5, <1>7, <1>8 DEF I, deps

LEMMA CyclesSeen ==
    ASSUME candidate \in Seq(QueueItems)
    PROVE  CyclesAreSeen
<1> DEFINE I == IdsOf(candidate)
           deps == BuildDeps(candidate)
<1>1. Cardinality(I) \in Nat
    BY TurnsAreNatural
<1>2. ASSUME FindDependsOnCycles(candidate) = {}
      PROVE  \E rank \in [I -> 1..Cardinality(I)] : \A id \in I : \A d \in deps[id] \cap I : rank[d] < rank[id]
    <2>1. PICK rank : IsOrder(rank, I, deps, I)
        BY <1>2, CyclesAreFound
    <2> QED BY <2>1 DEF IsOrder
<1>3. ASSUME NEW rank \in [I -> 1..Cardinality(I)],
             \A id \in I : \A d \in deps[id] \cap I : rank[d] < rank[id]
      PROVE  FindDependsOnCycles(candidate) = {}
    <2>1. rank \in [I -> Nat]
        BY <1>1
    <2>2. IsRank(rank, deps, I)
        BY <1>3, <2>1 DEF IsRank
    <2> QED BY <2>2, CyclesAreFound
<1> QED BY <1>2, <1>3 DEF CyclesAreSeen

LEMMA ValidQueuesAreExecutable ==
    ASSUME DecomposeInv
    PROVE  QueuesAreExecutable
<1>1. candidate \in Seq(QueueItems) /\ queued \in Seq(QueueItems) /\ behavioralPaths \in BehavioralSets
    BY DEF DecomposeInv, DecomposeTypes
<1>2. CyclesAreSeen
    BY <1>1, CyclesSeen
<1> SUFFICES ASSUME queued # <<>>
             PROVE  /\ \E rank \in [IdsOf(queued) -> 1..Len(queued)] :
                          \A e \in Entries(queued) : \A d \in e.deps : rank[d] < rank[e.id]
                    /\ \A e, f \in Entries(queued) : e.id # f.id => Reach(e.scope) \cap Reach(f.scope) = {}
                    /\ \A e \in Entries(queued) :
                          /\ Reach(e.scope) \cap Reach(e.tests) = {}
                          /\ ~e.behavioral => Reach(e.scope) \cap Reach(behavioralPaths) \subseteq
                                 UNION {HiddenAtRoot(g) : g \in e.scope \cup behavioralPaths}
    BY <1>2 DEF QueuesAreExecutable
<1>3. ValidQueue(queued, behavioralPaths)
    BY DEF DecomposeInv, QueuesAreValid
<1>4. /\ Cardinality(IdsOf(queued)) = Len(queued)
      /\ \A e \in Entries(queued) : e.deps \subseteq IdsOf(queued)
      /\ FindDependsOnCycles(queued) = {}
      /\ \A e \in Entries(queued) : EntryOK(e, behavioralPaths)
      /\ \A e, f \in Entries(queued) : e.id # f.id => ~ScopesIntersect(e.scope, f.scope)
    BY <1>3 DEF ValidQueue
<1>5. \A e \in Entries(queued) : e \in QueueItems
    BY <1>1, IdsOfEntries
<1>6. \E rank \in [IdsOf(queued) -> 1..Len(queued)] :
          \A e \in Entries(queued) : \A d \in e.deps : rank[d] < rank[e.id]
    <2>1. PICK rank : IsOrder(rank, IdsOf(queued), BuildDeps(queued), IdsOf(queued))
        BY <1>1, <1>4, CyclesAreFound
    <2>2. rank \in [IdsOf(queued) -> 1..Len(queued)]
        BY <1>4, <2>1 DEF IsOrder
    <2>3. ASSUME NEW e \in Entries(queued), NEW d \in e.deps PROVE rank[d] < rank[e.id]
        <3>1. e.id \in IdsOf(queued) /\ d \in BuildDeps(queued)[e.id] /\ d \in IdsOf(queued)
            BY <1>4, <2>3, DepsAreEdges
        <3> QED BY <2>1, <3>1 DEF IsOrder
    <2> QED BY <2>2, <2>3
<1>7. ASSUME NEW e \in Entries(queued), NEW f \in Entries(queued), e.id # f.id
      PROVE  Reach(e.scope) \cap Reach(f.scope) = {}
    <2>1. \A g \in e.scope \cup f.scope : IsGlob(g)
        BY <1>5, GlobsOfItems
    <2> QED BY <1>4, <1>7, <2>1, ScopesAreApart
<1>8. ASSUME NEW e \in Entries(queued) PROVE Reach(e.scope) \cap Reach(e.tests) = {}
    <2>1. \A g \in e.scope \cup e.tests : IsGlob(g)
        BY <1>5, GlobsOfItems
    <2>2. ~Covering(e.scope, e.tests)
        BY <1>4 DEF EntryOK
    <2> QED BY <2>1, <2>2, TestsAreApart
<1>9. ASSUME NEW e \in Entries(queued), ~e.behavioral
      PROVE  Reach(e.scope) \cap Reach(behavioralPaths) \subseteq
                 UNION {HiddenAtRoot(g) : g \in e.scope \cup behavioralPaths}
    <2>1. \A g \in e.scope \cup behavioralPaths : IsGlob(g)
        BY <1>1, <1>5, GlobsOfItems, GlobsOfConfigurations
    <2>2. ~Intersecting(e.scope, behavioralPaths)
        BY <1>4, <1>9 DEF EntryOK
    <2> QED BY <2>1, <2>2, BehavioralFilesAreApart
<1> QED BY <1>6, <1>7, <1>8, <1>9

\* In every queue that is executed there is an order of the items, their scopes are
\* apart, and a queue is refused for a cycle exactly where there is one.
THEOREM QueuesAreExecuted == DecomposeSpec => []QueuesAreExecutable
<1>1. DecomposeInv => QueuesAreExecutable
    BY ValidQueuesAreExecutable
<1> QED BY <1>1, DecomposeInvHolds, PTL

-----------------------------------------------------------------------------
(* The words of a criterion. *)

LEMMA FirstPlace ==
    ASSUME NEW places \in SUBSET Nat, places # {}
    PROVE  FirstAt(places) \in places /\ \A j \in places : FirstAt(places) <= j
<1>1. \E k \in places : \A j \in places : k <= j
    BY NatMin
<1> QED BY <1>1 DEF FirstAt

LEMMA LastPlace ==
    ASSUME NEW n \in Nat, NEW places \in SUBSET (1..n), places # {}
    PROVE  LastAt(places) \in places
<1>1. IsFiniteSet(1..n)
    BY FS_Interval
<1>2. IsFiniteSet(places)
    BY <1>1, FS_Subset
<1>3. \E k \in places : \A j \in places : j <= k
    <2>1. places \in SUBSET Int
        OBVIOUS
    <2> QED BY <1>2, <2>1, FiniteMax
<1> QED BY <1>3 DEF LastAt

LEMMA FirstWord ==
    ASSUME NEW text \in Seq(Vocabulary), NEW n, NEW these
    PROVE  FirstOf(text, n, these) \in Vocabulary \cup {NoSubject}
<1> DEFINE at == {k \in DOMAIN text : k <= n /\ text[k] \in these}
<1>1. CASE at = {}
    BY <1>1 DEF FirstOf
<1>2. CASE at # {}
    <2>1. at \in SUBSET Nat
        OBVIOUS
    <2> HIDE DEF at
    <2>2. FirstAt(at) \in at
        BY <1>2, <2>1, FirstPlace
    <2>3. text[FirstAt(at)] \in Vocabulary
        BY <2>2 DEF at
    <2> QED BY <1>2, <2>3 DEF FirstOf, at
<1> QED BY <1>1, <1>2

LEMMA SubjectsAreWords ==
    ASSUME NEW clause \in Clauses
    PROVE  CriterionSubject(clause) \in Vocabulary \cup {NoSubject}
<1> DEFINE text == clause.words
<1>1. text \in Seq(Vocabulary) /\ clause.agent \in Vocabulary \cup {NoSubject}
    BY DEF Clauses
<1>2. text # <<>> => Head(text) \in Vocabulary
    BY <1>1
<1>3. /\ FirstOf(text, SubjectWindow, Corroborated) \in Vocabulary \cup {NoSubject}
      /\ FirstOf(text, SubjectWindow, NameMarked) \in Vocabulary \cup {NoSubject}
    BY <1>1, FirstWord
<1> HIDE DEF text
<1> QED BY <1>1, <1>2, <1>3, Zenon DEF CriterionSubject, text

Joined(c) ==
    LET upto[k \in 0..Len(c)] == IF k = 0 THEN <<>> ELSE upto[k - 1] \o c[k].words
    IN  upto

LEMMA WordsAreOfTheVocabulary ==
    ASSUME NEW c \in Seq(Clauses)
    PROVE  Words(c) \in Seq(Vocabulary)
<1> DEFINE V == Seq(Vocabulary)
           n == Len(c)
           next == [x \in V \X (1..n) |-> x[1] \o c[x[2]].words]
           Value(f, k) == IF k = 0 THEN <<>> ELSE f[k - 1] \o c[k].words
<1>0. n \in Nat
    OBVIOUS
<1>1. <<>> \in V
    OBVIOUS
<1>2. ASSUME NEW b \in V, NEW k \in 1..n PROVE b \o c[k].words \in V
    <2>1. c[k] \in Clauses
        OBVIOUS
    <2>2. c[k].words \in V
        BY <2>1 DEF Clauses
    <2> QED BY <2>2
<1>3. next \in [V \X (1..n) -> V]
    <2> HIDE DEF V, n
    <2> QED BY <1>2
<1> HIDE DEF n
<1>4. PICK f : Iterates(f, V, n, <<>>, next)
    <2> HIDE DEF V, next
    <2>1. CanIterate(V, n, <<>>, next)
        BY <1>0, <1>1, <1>3 DEF CanIterate
    <2> QED BY <2>1, Iteration
<1>5. f \in [0..n -> V] /\ \A k \in 0..n : f[k] = Value(f, k)
    <2>1. ASSUME NEW k \in 0..n, k # 0 PROVE next[<<f[k - 1], k>>] = f[k - 1] \o c[k].words
        <3>1. f[k - 1] \in V /\ k \in 1..n
            BY <1>0, <1>4, <2>1 DEF Iterates
        <3> HIDE DEF V
        <3> QED BY <3>1
    <2> HIDE DEF next, V
    <2> QED BY <1>4, <2>1 DEF Iterates
<1>6. f = [k \in 0..n |-> Value(f, k)]
    <2> HIDE DEF Value, V
    <2> QED BY <1>5
<1> DEFINE upto == Joined(c)
<1>7. upto = [k \in 0..n |-> Value(upto, k)]
    BY <1>6, Zenon DEF Joined, n
<1>8. \A k \in 0..n : upto[k] = Value(upto, k)
    <2> HIDE DEF upto, Value
    <2> QED BY <1>7
<1> HIDE DEF upto, V
<1> DEFINE Fine == {k \in 0..n : upto[k] \in V}
<1>9. 0 \in Fine
    BY <1>0, <1>1, <1>8
<1>10. ASSUME NEW k \in 1..n, k - 1 \in Fine PROVE k \in Fine
    <2>1. k \in 0..n /\ k # 0
        BY <1>0
    <2>2. upto[k] = upto[k - 1] \o c[k].words
        BY <1>8, <2>1, Zenon
    <2>3. upto[k - 1] \o c[k].words \in V
        BY <1>2, <1>10
    <2> QED BY <2>1, <2>2, <2>3
<1>11. upto[n] \in V
    <2> HIDE DEF Fine
    <2>1. n \in 0..n
        BY <1>0
    <2>2. 0..n \subseteq Fine
        BY <1>0, <1>9, <1>10, StepByStep
    <2>3. n \in Fine
        BY <2>1, <2>2
    <2> QED BY <2>3 DEF Fine
<1> QED BY <1>11 DEF Words, Joined, upto, V, n

\* The texts that deliver something are clauses.
IsTexts(texts, n) == DOMAIN texts \in SUBSET (1..n) /\ \A k \in DOMAIN texts : texts[k] \in Clauses

LEMMA TextsAreClauses ==
    ASSUME NEW acc \in Seq(Criteria)
    PROVE  IsTexts(Delivered(acc), Len(acc))
<1>1. DOMAIN Delivered(acc) \in SUBSET (1..Len(acc))
    BY DEF Delivered
<1>2. ASSUME NEW k \in DOMAIN Delivered(acc) PROVE Delivered(acc)[k] \in Clauses
    <2> DEFINE c == acc[k]
    <2>1. k \in 1..Len(acc) /\ Delivers(c) /\ Delivered(acc)[k] = DeliverableText(c)
        BY DEF Delivered
    <2>2. c \in Seq(Clauses) /\ c # <<>>
        BY <2>1, ClustersAssumption
    <2> HIDE DEF c
    <2>3. CASE PreservationClaim(c)
        <3>1. Delivering(c) # {} /\ Delivering(c) \in SUBSET Nat
            BY <2>1, <2>2, <2>3 DEF Delivers, Delivering
        <3>2. FirstAt(Delivering(c)) \in Delivering(c)
            BY <3>1, FirstPlace
        <3>3. FirstAt(Delivering(c)) \in DOMAIN c
            BY <3>2 DEF Delivering
        <3> QED BY <2>1, <2>2, <2>3, <3>3 DEF DeliverableText
    <2>4. CASE ~PreservationClaim(c)
        <3>1. c[1] \in Clauses /\ Words(c) \in Seq(Vocabulary)
            BY <2>2, WordsAreOfTheVocabulary
        <3>2. [c[1] EXCEPT !.words = Words(c)] \in Clauses
            BY <3>1 DEF Clauses
        <3> QED BY <2>1, <2>4, <3>2 DEF DeliverableText
    <2> QED BY <2>3, <2>4
<1> QED BY <1>1, <1>2 DEF IsTexts

\* A cluster is named for a word or for a declared file; that of a declared file is
\* the file.
LEMMA FilesOfWords ==
    ASSUME NEW w \in Vocabulary
    PROVE  /\ ResolveFile(w) \in Vocabulary \cup DeclaredFiles \cup {NoSubject}
           /\ w \in FileWords => ResolveFile(w) = Declared[w] /\ Declared[w] # NoSubject
<1>1. w \in FileWords => Declared[w] \in DeclaredFiles
    BY DEF DeclaredFiles
<1>2. NoSubject \notin DeclaredFiles
    BY ClustersAssumption
<1>3. CASE w \in FileWords
    <2>1. ResolveFile(w) = Declared[w]
        BY <1>3 DEF ResolveFile, FileWords, OfKinds
    <2> QED BY <1>1, <1>2, <1>3, <2>1
<1>4. CASE w \notin FileWords
    <2>1. ResolveFile(w) \in {w, NoSubject}
        BY <1>4 DEF ResolveFile
    <2> QED BY <1>4, <2>1
<1> QED BY <1>3, <1>4

LEMMA HomesAreFiles ==
    ASSUME NEW text \in Seq(Vocabulary), NEW w
    PROVE  Home(text, w) \in Vocabulary \cup DeclaredFiles \cup {NoSubject}
<1> DEFINE homes == {k \in DOMAIN text : ResolveFile(text[k]) # NoSubject}
<1>1. CASE homes = {}
    BY <1>1 DEF Home
<1>2. CASE homes # {}
    <2>1. homes \in SUBSET Nat
        OBVIOUS
    <2> HIDE DEF homes
    <2>2. FirstAt(homes) \in homes
        BY <1>2, <2>1, FirstPlace
    <2>3. text[FirstAt(homes)] \in Vocabulary
        BY <2>2 DEF homes
    <2>4. ResolveFile(text[FirstAt(homes)]) \in Vocabulary \cup DeclaredFiles \cup {NoSubject}
        BY <2>3, FilesOfWords
    <2>5. Home(text, w) \in {ResolveFile(text[FirstAt(homes)]), NoSubject}
        BY Zenon DEF Home, homes
    <2> QED BY <2>4, <2>5
<1> QED BY <1>1, <1>2

LEMMA KeysOfWords ==
    ASSUME NEW n \in Nat, NEW texts, IsTexts(texts, n), NEW w \in Vocabulary
    PROVE  /\ KeyOf(texts, w) \in Vocabulary \cup DeclaredFiles
           /\ w \in FileWords => KeyOf(texts, w) = Declared[w]
<1>1. SymbolHome(texts, w) \in Vocabulary \cup DeclaredFiles \cup {NoSubject}
    <2> DEFINE says == {k \in DOMAIN texts : Home(texts[k].words, w) # NoSubject}
    <2>1. CASE says = {}
        BY <2>1 DEF SymbolHome
    <2>2. CASE says # {}
        <3>1. says \in SUBSET (1..n)
            BY DEF IsTexts
        <3> HIDE DEF says
        <3>2. LastAt(says) \in says
            BY <2>2, <3>1, LastPlace
        <3>3. texts[LastAt(says)].words \in Seq(Vocabulary)
            BY <3>2 DEF says, IsTexts, Clauses
        <3>4. Home(texts[LastAt(says)].words, w) \in Vocabulary \cup DeclaredFiles \cup {NoSubject}
            BY <3>3, HomesAreFiles
        <3> QED BY <2>2, <3>4 DEF SymbolHome, says
    <2> QED BY <2>1, <2>2
<1> QED BY <1>1, FilesOfWords DEF KeyOf

LEMMA SubjectsAreOfTheVocabulary ==
    ASSUME NEW n \in Nat, NEW texts, IsTexts(texts, n)
    PROVE  Subjects(texts) \in SUBSET Vocabulary
<1>1. ASSUME NEW k \in DOMAIN texts
      PROVE  CriterionSubject(texts[k]) \in Vocabulary \cup {NoSubject}
    BY SubjectsAreWords DEF IsTexts
<1> QED BY <1>1 DEF Subjects

-----------------------------------------------------------------------------
(* Folding. *)

LEMMA FoldsAreSubsets ==
    ASSUME NEW clusters, NEW text
    PROVE  FoldText(clusters, text) \in SUBSET clusters
BY DEF FoldText

\* What the texts leave of the clusters is the recursion it is defined as.
LEMMA FoldingIsTheRecursion ==
    ASSUME NEW texts, NEW clusters, NEW n \in Nat
    PROVE  \A k \in 0..n :
               /\ Folding(texts, clusters, n)[k] \in SUBSET clusters
               /\ Folding(texts, clusters, n)[k] =
                      IF k = 0 THEN clusters
                      ELSE IF k \in DOMAIN texts
                           THEN FoldText(Folding(texts, clusters, n)[k - 1], texts[k].words)
                           ELSE Folding(texts, clusters, n)[k - 1]
<1> DEFINE V == SUBSET clusters
           Step(b, k) == IF k \in DOMAIN texts THEN FoldText(b, texts[k].words) ELSE b
           next == [x \in V \X (1..n) |-> Step(x[1], x[2])]
           Value(f, k) ==
               IF k = 0 THEN clusters
               ELSE IF k \in DOMAIN texts THEN FoldText(f[k - 1], texts[k].words) ELSE f[k - 1]
<1>1. clusters \in V
    OBVIOUS
<1>2. ASSUME NEW b \in V, NEW k PROVE Step(b, k) \in V
    BY FoldsAreSubsets
<1>3. next \in [V \X (1..n) -> V]
    <2> HIDE DEF V, Step
    <2> QED BY <1>2
<1>4. PICK f : Iterates(f, V, n, clusters, next)
    <2> HIDE DEF V, next
    <2>1. CanIterate(V, n, clusters, next)
        BY <1>1, <1>3 DEF CanIterate
    <2> QED BY <2>1, Iteration
<1>5. f \in [0..n -> V] /\ \A k \in 0..n : f[k] = Value(f, k)
    <2>1. ASSUME NEW k \in 0..n, k # 0 PROVE next[<<f[k - 1], k>>] = Step(f[k - 1], k)
        <3>1. f[k - 1] \in V /\ k \in 1..n
            BY <1>4, <2>1 DEF Iterates
        <3> HIDE DEF V, Step
        <3> QED BY <3>1
    <2> HIDE DEF next, V
    <2> QED BY <1>4, <2>1 DEF Iterates
<1>6. f = [k \in 0..n |-> Value(f, k)]
    <2> HIDE DEF Value, V
    <2> QED BY <1>5
<1> DEFINE after == Folding(texts, clusters, n)
<1>7. after = [k \in 0..n |-> Value(after, k)]
    BY <1>6, Zenon DEF Folding
<1>8. \A k \in 0..n : after[k] = Value(after, k)
    <2> HIDE DEF after, Value
    <2> QED BY <1>7
<1> HIDE DEF after, V
<1> DEFINE Fine == {k \in 0..n : after[k] \in V}
<1>9. 0 \in Fine
    BY <1>1, <1>8
<1>10. ASSUME NEW k \in 1..n, k - 1 \in Fine PROVE k \in Fine
    <2>1. k \in 0..n /\ k # 0 /\ after[k - 1] \in V
        BY <1>10
    <2>2. after[k] = Step(after[k - 1], k)
        BY <1>8, <2>1, Zenon
    <2> HIDE DEF Step
    <2> QED BY <1>2, <2>1, <2>2
<1>11. 0..n \subseteq Fine
    <2> HIDE DEF Fine
    <2> QED BY <1>9, <1>10, StepByStep
<1> QED BY <1>8, <1>11 DEF after, V

\* A prefix of the criteria folds as it does in the whole.
LEMMA FoldingOfAPrefix ==
    ASSUME NEW texts, NEW clusters, NEW n \in Nat, NEW m \in 0..n
    PROVE  Folding(texts, clusters, n)[m] = Folding(texts, clusters, m)[m]
<1> DEFINE f == Folding(texts, clusters, n)
           g == Folding(texts, clusters, m)
           Value(h, k) ==
               IF k = 0 THEN clusters
               ELSE IF k \in DOMAIN texts THEN FoldText(h[k - 1], texts[k].words) ELSE h[k - 1]
           Same == {k \in 0..m : f[k] = g[k]}
<1>1. m \in Nat /\ 0..m \subseteq 0..n
    OBVIOUS
<1>2. \A k \in 0..m : f[k] = Value(f, k) /\ g[k] = Value(g, k)
    BY <1>1, FoldingIsTheRecursion
<1> HIDE DEF f, g
<1>3. 0 \in Same
    BY <1>1, <1>2
<1>4. ASSUME NEW k \in 1..m, k - 1 \in Same PROVE k \in Same
    <2>1. k \in 0..m /\ f[k - 1] = g[k - 1]
        BY <1>1, <1>4
    <2>2. Value(f, k) = Value(g, k)
        BY <1>1, <2>1
    <2> HIDE DEF Value
    <2> QED BY <1>2, <2>1, <2>2
<1>5. 0..m \subseteq Same
    <2> HIDE DEF Same
    <2> QED BY <1>1, <1>3, <1>4, StepByStep
<1> QED BY <1>1, <1>5 DEF f, g

\* A group is closed under the ties, and is the same from each of its files.
LEMMA GroupsAreClasses ==
    ASSUME NEW texts, NEW f \in DeclaredFiles, NEW g \in DeclaredFiles, NEW x \in DeclaredFiles
    PROVE  /\ InOneGroup(texts, f, f)
           /\ InOneGroup(texts, f, x) /\ Tied(texts, x, g) => InOneGroup(texts, f, g)
           /\ InOneGroup(texts, f, x) /\ InOneGroup(texts, g, x) => InOneGroup(texts, f, g)
<1>1. InOneGroup(texts, f, f)
    BY DEF InOneGroup
<1>2. InOneGroup(texts, f, x) /\ Tied(texts, x, g) => InOneGroup(texts, f, g)
    BY DEF InOneGroup
<1>3. ASSUME NEW a, NEW b, Tied(texts, a, b) PROVE Tied(texts, b, a)
    BY <1>3 DEF Tied
<1>4. ASSUME InOneGroup(texts, f, x), InOneGroup(texts, g, x) PROVE InOneGroup(texts, f, g)
    <2> SUFFICES ASSUME NEW group \in SUBSET DeclaredFiles, f \in group,
                        \A y \in group, z \in DeclaredFiles : Tied(texts, y, z) => z \in group,
                        g \notin group
                 PROVE  FALSE
        BY DEF InOneGroup
    <2> DEFINE others == DeclaredFiles \ group
    <2>1. x \in group
        BY <1>4 DEF InOneGroup
    <2>2. others \in SUBSET DeclaredFiles /\ g \in others
        OBVIOUS
    <2>3. ASSUME NEW y \in others, NEW z \in DeclaredFiles, Tied(texts, y, z) PROVE z \in others
        BY <1>3, <2>3
    <2>4. x \in others
        <3> HIDE DEF others
        <3> QED BY <1>4, <2>2, <2>3 DEF InOneGroup
    <2> QED BY <2>1, <2>4
<1> QED BY <1>1, <1>2, <1>4

\* Every file the criteria are about has a cluster that is a file of its group.
Stood(texts, about, clusters) ==
    \A f \in about : \E c \in clusters : c \in DeclaredFiles /\ InOneGroup(texts, f, c)

\* A text that folds a file leaves the one it folds it onto, and ties the two.
LEMMA FoldsAreTies ==
    ASSUME NEW n \in Nat, NEW texts, IsTexts(texts, n), NEW k \in DOMAIN texts,
           NEW clusters \in SUBSET (Vocabulary \cup DeclaredFiles),
           NEW c \in clusters, c \in DeclaredFiles, c \notin FoldText(clusters, texts[k].words)
    PROVE  \E f \in FoldText(clusters, texts[k].words) : f \in DeclaredFiles /\ Tied(texts, c, f)
<1> DEFINE w == texts[k].words
           named == NamedAt(w)
           first == FirstAt(named)
           folded == {Declared[w[i]] : i \in {j \in named : Related(named, j)}}
<1>1. w \in Seq(Vocabulary)
    BY DEF IsTexts, Clauses
<1> HIDE DEF w
<1>2. /\ named # {} /\ Declared[w[first]] \in clusters /\ c \in folded
      /\ FoldText(clusters, w) = clusters \ folded
    BY DEF FoldText, w
<1>3. /\ named \in SUBSET (1..Len(w)) /\ Len(w) \in Nat
      /\ \A i \in named : w[i] \in Corroborated /\ Declared[w[i]] \in FileScope
      /\ \A i \in named : \A j \in 1..(i - 1) :
             w[j] \in Corroborated => Declared[w[j]] # Declared[w[i]]
    BY <1>1 DEF NamedAt
<1>4. PICK i \in named : Related(named, i) /\ c = Declared[w[i]]
    BY <1>2
<1> HIDE DEF named
<1>5. first \in named /\ \A j \in named : first <= j
    BY <1>2, <1>3, FirstPlace
<1> HIDE DEF first
<1>6. first + 2 <= i /\ first \in 1..Len(w) /\ i \in 1..Len(w) /\ first \in 1..(i - 1)
    <2>1. i # first /\ i - 1 \notin named
        BY <1>4 DEF Related, first
    <2>2. Len(w) \in Nat /\ i \in 1..Len(w) /\ first \in 1..Len(w)
        BY <1>3, <1>5
    <2>3. first <= i /\ i - 1 # first
        BY <1>5, <2>1
    <2> QED BY <2>1, <2>2, <2>3
<1>7. \A v \in Corroborated : Declared[v] \in Vocabulary \cup DeclaredFiles => v \in FileWords
    <2> SUFFICES ASSUME NEW v \in Corroborated, v \notin FileWords
                 PROVE  Declared[v] \notin Vocabulary \cup DeclaredFiles
        OBVIOUS
    <2>1. v \in OfKinds({"land"})
        BY DEF Corroborated, FileWords, OfKinds
    <2>2. Declared[v] \in Directories
        BY <2>1 DEF Directories
    <2> QED BY <2>2, ClustersAssumption
<1>8. w[i] \in FileWords /\ w[first] \in FileWords
    BY <1>2, <1>3, <1>4, <1>5, <1>7
<1>9. Declared[w[first]] \in DeclaredFiles
    BY <1>8 DEF DeclaredFiles
<1>10. Tied(texts, c, Declared[w[first]])
    <2>1. i \in DOMAIN w /\ first \in DOMAIN w
        BY <1>1, <1>6
    <2>2. /\ {Declared[w[first]], Declared[w[i]]} = {c, Declared[w[first]]}
          /\ {c, Declared[w[first]]} \subseteq FileScope
        BY <1>3, <1>4, <1>5
    <2> QED BY <1>6, <1>8, <2>1, <2>2 DEF Tied, w
<1>11. Declared[w[first]] \notin folded
    <2> SUFFICES ASSUME NEW j \in named, Related(named, j), Declared[w[first]] = Declared[w[j]]
                 PROVE  FALSE
        OBVIOUS
    <2>1. j # first
        BY DEF Related, first
    <2>2. Len(w) \in Nat /\ j \in 1..Len(w) /\ first \in 1..Len(w)
        BY <1>3, <1>5
    <2>3. first <= j
        BY <1>5
    <2>4. first \in 1..(j - 1)
        BY <2>1, <2>2, <2>3
    <2> QED BY <1>3, <1>5, <2>4
<1> HIDE DEF folded
<1> QED BY <1>2, <1>9, <1>10, <1>11 DEF w

LEMMA FoldsKeepGroups ==
    ASSUME NEW n \in Nat, NEW texts, IsTexts(texts, n), NEW about \in SUBSET DeclaredFiles,
           NEW clusters \in SUBSET (Vocabulary \cup DeclaredFiles), Stood(texts, about, clusters),
           NEW m \in Nat
    PROVE  LET left == Folding(texts, clusters, m)[m]
           IN  left \in SUBSET clusters /\ Stood(texts, about, left)
<1> DEFINE after == Folding(texts, clusters, m)
           Fine == {k \in 0..m : Stood(texts, about, after[k])}
<1>1. \A k \in 0..m : after[k] \in SUBSET clusters
    BY FoldingIsTheRecursion
<1>2. after[0] = clusters
    BY FoldingIsTheRecursion
<1>3. ASSUME NEW k \in 1..m, k \notin DOMAIN texts PROVE after[k] = after[k - 1]
    <2>1. k \in 0..m /\ k # 0
        OBVIOUS
    <2> QED BY <1>3, <2>1, FoldingIsTheRecursion
<1>4. ASSUME NEW k \in 1..m, k \in DOMAIN texts
      PROVE  after[k] = FoldText(after[k - 1], texts[k].words)
    <2>1. k \in 0..m /\ k # 0
        OBVIOUS
    <2> QED BY <1>4, <2>1, FoldingIsTheRecursion
<1> HIDE DEF after
<1>5. 0 \in Fine
    BY <1>2
<1>6. ASSUME NEW k \in 1..m, k - 1 \in Fine PROVE k \in Fine
    <2>1. k \in 0..m /\ k - 1 \in 0..m /\ Stood(texts, about, after[k - 1])
        BY <1>6
    <2>2. CASE k \notin DOMAIN texts
        BY <1>3, <2>1, <2>2
    <2>3. CASE k \in DOMAIN texts
        <3> DEFINE before == after[k - 1]
        <3>1. before \in SUBSET (Vocabulary \cup DeclaredFiles)
            BY <1>1, <2>1
        <3>2. after[k] = FoldText(before, texts[k].words)
            BY <1>4, <2>3
        <3> HIDE DEF before
        <3>3. ASSUME NEW f \in about
              PROVE  \E c \in after[k] : c \in DeclaredFiles /\ InOneGroup(texts, f, c)
            <4>1. PICK c \in before : c \in DeclaredFiles /\ InOneGroup(texts, f, c)
                BY <2>1 DEF Stood, before
            <4>2. CASE c \in after[k]
                BY <4>1, <4>2
            <4>3. CASE c \notin after[k]
                <5>1. PICK g \in after[k] : g \in DeclaredFiles /\ Tied(texts, c, g)
                    BY <2>3, <3>1, <3>2, <4>1, <4>3, FoldsAreTies
                <5>2. InOneGroup(texts, f, g)
                    BY <4>1, <5>1, GroupsAreClasses
                <5> QED BY <5>1, <5>2
            <4> QED BY <4>2, <4>3
        <3> QED BY <2>1, <3>3 DEF Stood
    <2> QED BY <2>2, <2>3
<1>7. 0..m \subseteq Fine
    <2> HIDE DEF Fine
    <2> QED BY <1>5, <1>6, StepByStep
<1>8. m \in 0..m
    OBVIOUS
<1> QED BY <1>1, <1>7, <1>8 DEF after

\* Files of different groups have different clusters.
LEMMA GroupsAreCounted ==
    ASSUME NEW texts, NEW about \in SUBSET DeclaredFiles, NEW clusters, IsFiniteSet(clusters),
           Stood(texts, about, clusters),
           NEW parts \in SUBSET about, \A f, g \in parts : f # g => ~InOneGroup(texts, f, g)
    PROVE  Cardinality(parts) <= Cardinality(clusters)
<1> DEFINE of == [f \in parts |-> CHOOSE c \in clusters : c \in DeclaredFiles /\ InOneGroup(texts, f, c)]
<1>1. ASSUME NEW f \in parts
      PROVE  of[f] \in clusters /\ of[f] \in DeclaredFiles /\ InOneGroup(texts, f, of[f])
    <2>1. \E c \in clusters : c \in DeclaredFiles /\ InOneGroup(texts, f, c)
        BY DEF Stood
    <2> QED BY <2>1
<1> HIDE DEF of
<1>2. ASSUME NEW f \in parts, NEW g \in parts, of[f] = of[g] PROVE f = g
    <2>1. /\ f \in DeclaredFiles /\ g \in DeclaredFiles /\ of[f] \in DeclaredFiles
          /\ InOneGroup(texts, f, of[f]) /\ InOneGroup(texts, g, of[f])
        BY <1>1, <1>2
    <2>2. InOneGroup(texts, f, g)
        BY <2>1, GroupsAreClasses
    <2> QED BY <2>2
<1>3. of \in Injection(parts, clusters)
    <2>1. of \in [parts -> clusters]
        BY <1>1 DEF of
    <2> QED BY <1>2, <2>1 DEF Injection, IsInjective
<1> QED BY <1>3, FS_Injection

-----------------------------------------------------------------------------
(* What the row counts. *)

Keys(texts) == {KeyOf(texts, w) : w \in Subjects(texts)}

LEMMA KeysAreFinite ==
    ASSUME NEW n \in Nat, NEW texts, IsTexts(texts, n)
    PROVE  /\ IsFiniteSet(Keys(texts)) /\ Keys(texts) \in SUBSET (Vocabulary \cup DeclaredFiles)
           /\ IsFiniteSet(Subjects(texts)) /\ IsFiniteSet(PositionalSubjects(texts))
<1>1. IsFiniteSet(DOMAIN texts)
    <2>1. IsFiniteSet(1..n)
        BY FS_Interval
    <2>2. DOMAIN texts \in SUBSET (1..n)
        BY DEF IsTexts
    <2> QED BY <2>1, <2>2, FS_Subset
<1>2. IsFiniteSet(Subjects(texts))
    <2> DEFINE all == {CriterionSubject(texts[k]) : k \in DOMAIN texts}
               of == [k \in DOMAIN texts |-> CriterionSubject(texts[k])]
    <2>1. of \in Surjection(DOMAIN texts, all)
        BY DEF Surjection
    <2>2. IsFiniteSet(all)
        <3> HIDE DEF of, all
        <3> QED BY <1>1, <2>1, FS_Surjection
    <2>3. Subjects(texts) \in SUBSET all
        BY DEF Subjects
    <2> HIDE DEF all
    <2> QED BY <2>2, <2>3, FS_Subset
<1>3. IsFiniteSet(Keys(texts))
    <2> DEFINE of == [w \in Subjects(texts) |-> KeyOf(texts, w)]
    <2>1. of \in Surjection(Subjects(texts), Keys(texts))
        BY DEF Surjection, Keys
    <2> HIDE DEF of
    <2> QED BY <1>2, <2>1, FS_Surjection
<1>4. Keys(texts) \in SUBSET (Vocabulary \cup DeclaredFiles)
    <2>1. \A w \in Subjects(texts) : KeyOf(texts, w) \in Vocabulary \cup DeclaredFiles
        BY KeysOfWords, SubjectsAreOfTheVocabulary
    <2> QED BY <2>1 DEF Keys
<1>5. IsFiniteSet(PositionalSubjects(texts))
    <2> DEFINE at == {j \in DOMAIN texts : texts[j].words # <<>>}
               of == [k \in at |-> texts[k].words[1]]
    <2>1. IsFiniteSet(at)
        <3>1. at \in SUBSET DOMAIN texts
            OBVIOUS
        <3> HIDE DEF at
        <3> QED BY <1>1, <3>1, FS_Subset
    <2>2. of \in Surjection(at, PositionalSubjects(texts))
        BY DEF Surjection, PositionalSubjects
    <2> HIDE DEF of, at
    <2> QED BY <2>1, <2>2, FS_Surjection
<1> QED BY <1>2, <1>3, <1>4, <1>5

\* The clusters of texts alone, and how many criteria they come from.
ClustersOf(texts, n) ==
    IF Keys(texts) = {} THEN PositionalSubjects(texts)
    ELSE IF Cardinality(Keys(texts)) < 2 THEN Keys(texts)
    ELSE Folding(texts, Keys(texts), n)[n]

LEMMA ClustersAreOfTexts ==
    ASSUME NEW acc
    PROVE  AcceptanceClusters(acc) = ClustersOf(Delivered(acc), Len(acc))
BY Zenon DEF AcceptanceClusters, ClustersOf, Keys

LEMMA ClustersAreFinite ==
    ASSUME NEW acc \in Seq(Criteria)
    PROVE  IsFiniteSet(AcceptanceClusters(acc))
<1> DEFINE texts == Delivered(acc)
           n == Len(acc)
<1>1. n \in Nat /\ IsTexts(texts, n)
    BY TextsAreClauses
<1> HIDE DEF texts, n
<1>2. IsFiniteSet(Keys(texts)) /\ IsFiniteSet(PositionalSubjects(texts))
    BY <1>1, KeysAreFinite
<1>3. IsFiniteSet(Folding(texts, Keys(texts), n)[n])
    <2>1. n \in 0..n
        BY <1>1
    <2>2. Folding(texts, Keys(texts), n)[n] \in SUBSET Keys(texts)
        BY <1>1, <2>1, FoldingIsTheRecursion
    <2> QED BY <1>2, <2>2, FS_Subset
<1>4. IsFiniteSet(ClustersOf(texts, n))
    BY <1>2, <1>3 DEF ClustersOf
<1> QED BY <1>4, ClustersAreOfTexts DEF texts, n

\* A criterion that delivers nothing leaves texts and clusters as they were.
LEMMA GuardsAreFree ==
    ASSUME NEW acc \in Seq(Criteria), acc # <<>>, ~Delivers(Last(acc))
    PROVE  AcceptanceClusters(acc) = AcceptanceClusters(Front(acc))
<1> DEFINE n == Len(acc)
           m == n - 1
           texts == Delivered(acc)
<1>1. n \in Nat \ {0} /\ m \in 0..n /\ m \in Nat
    OBVIOUS
<1>2. /\ Len(Front(acc)) = m /\ DOMAIN Front(acc) = 1..m
      /\ \A k \in 1..m : Front(acc)[k] = acc[k]
      /\ Last(acc) = acc[n]
    <2>1. Last(acc) = acc[n] /\ Front(acc) = SubSeq(acc, 1, m)
        BY DEF Front, Last
    <2>2. m <= Len(acc)
        BY <1>1
    <2> HIDE DEF m
    <2>3. SubSeq(acc, 1, m) \in Seq(Criteria) /\ Len(SubSeq(acc, 1, m)) = m
        BY <1>1, <2>2
    <2>4. \A k \in 1..m : SubSeq(acc, 1, m)[k] = acc[k]
        BY <1>1, <2>2
    <2>5. DOMAIN SubSeq(acc, 1, m) = 1..m
        BY <1>1, <2>3
    <2> QED BY <2>1, <2>3, <2>4, <2>5
<1>3. n \notin DOMAIN texts /\ DOMAIN texts \in SUBSET (1..m)
    BY <1>2 DEF Delivered
<1>4. Delivered(Front(acc)) = texts
    <2>1. {j \in DOMAIN acc : Delivers(acc[j])} = {j \in 1..m : Delivers(Front(acc)[j])}
        BY <1>1, <1>2
    <2> QED BY <1>1, <1>2, <2>1 DEF Delivered
<1> HIDE DEF texts
<1>5. Folding(texts, Keys(texts), n)[n] = Folding(texts, Keys(texts), m)[m]
    <2>1. n \in 0..n /\ n # 0
        BY <1>1
    <2>2. Folding(texts, Keys(texts), n)[n] = Folding(texts, Keys(texts), n)[m]
        BY <1>1, <1>3, <2>1, FoldingIsTheRecursion
    <2>3. Folding(texts, Keys(texts), n)[m] = Folding(texts, Keys(texts), m)[m]
        BY <1>1, FoldingOfAPrefix
    <2> QED BY <2>2, <2>3
<1>6. ClustersOf(texts, n) = ClustersOf(texts, m)
    BY <1>5 DEF ClustersOf
<1> QED BY <1>2, <1>4, <1>6, ClustersAreOfTexts DEF texts

LEMMA ThingsCounted ==
    ASSUME acceptance \in Seq(Criteria)
    PROVE  CountsTheThings
<1> SUFFICES ASSUME acceptance # <<>> PROVE CountsTheThings
    BY DEF CountsTheThings
<1> DEFINE n == Len(acceptance)
           texts == Delivered(acceptance)
           keys == Keys(texts)
           about == {Declared[w] : w \in Subjects(texts) \cap FileWords}
<1>1. n \in Nat /\ IsTexts(texts, n)
    BY TextsAreClauses
<1>2. IsFiniteSet(AcceptanceClusters(acceptance))
    BY ClustersAreFinite
<1>3. AcceptanceClusters(acceptance) = ClustersOf(texts, n)
    BY ClustersAreOfTexts
<1>4. GuardsCostNothing
    <2> SUFFICES ASSUME ~Delivers(Last(acceptance))
                 PROVE  ClusterCount(acceptance) <= ClusterCount(Front(acceptance))
        BY DEF GuardsCostNothing
    <2>1. ClusterCount(acceptance) = ClusterCount(Front(acceptance))
        BY GuardsAreFree DEF ClusterCount
    <2>2. ClusterCount(acceptance) \in Nat
        BY <1>2, FS_CardinalityType DEF ClusterCount
    <2> QED BY <2>1, <2>2
<1> HIDE DEF texts, n
<1>5. IsFiniteSet(keys) /\ keys \in SUBSET (Vocabulary \cup DeclaredFiles)
    BY <1>1, KeysAreFinite
<1>6. ASSUME NEW w \in Subjects(texts) \cap FileWords
      PROVE  KeyOf(texts, w) = Declared[w] /\ Declared[w] \in keys /\ Declared[w] \in DeclaredFiles
    <2>1. w \in Vocabulary
        BY <1>1, SubjectsAreOfTheVocabulary
    <2>2. KeyOf(texts, w) = Declared[w]
        BY <1>1, <2>1, KeysOfWords
    <2> QED BY <2>2 DEF Keys, DeclaredFiles
<1>7. about \in SUBSET DeclaredFiles /\ about \in SUBSET keys
    BY <1>6
<1>8. ASSUME Cardinality(about) = 1, Subjects(texts) \subseteq FileWords
      PROVE  ClusterCount(acceptance) = 1
    <2>1. keys = about
        BY <1>6, <1>8 DEF Keys
    <2>2. keys # {} /\ Cardinality(keys) = 1
        <3> HIDE DEF about, keys
        <3> QED BY <1>8, <2>1, FS_EmptySet
    <2>3. ClustersOf(texts, n) = keys
        BY <2>2 DEF ClustersOf
    <2> QED BY <1>3, <2>2, <2>3 DEF ClusterCount
<1>9. ASSUME NEW parts \in SUBSET about, \A f, g \in parts : f # g => ~InOneGroup(texts, f, g)
      PROVE  ClusterCount(acceptance) >= Cardinality(parts)
    <2> HIDE DEF about, keys
    <2>1. Stood(texts, about, keys)
        BY <1>7, GroupsAreClasses DEF Stood
    <2>2. IsFiniteSet(about)
        BY <1>5, <1>7, FS_Subset
    <2>3. CASE keys = {}
        <3>1. parts = {}
            BY <1>7, <2>3
        <3>2. ClusterCount(acceptance) \in Nat
            BY <1>2, FS_CardinalityType DEF ClusterCount
        <3> QED BY <3>1, <3>2, FS_EmptySet
    <2>4. CASE keys # {}
        <3> DEFINE left == AcceptanceClusters(acceptance)
        <3>1. Stood(texts, about, left)
            <4>1. Stood(texts, about, Folding(texts, keys, n)[n])
                BY <1>1, <1>5, <1>7, <2>1, FoldsKeepGroups
            <4> QED BY <1>3, <2>1, <2>4, <4>1 DEF ClustersOf, keys
        <3> HIDE DEF left
        <3>2. Cardinality(parts) <= Cardinality(left)
            BY <1>2, <1>7, <1>9, <3>1, GroupsAreCounted DEF left
        <3>3. IsFiniteSet(parts)
            BY <2>2, FS_Subset
        <3>4. Cardinality(left) \in Nat /\ Cardinality(parts) \in Nat
            BY <1>2, <3>3, FS_CardinalityType DEF left
        <3> QED BY <3>2, <3>4 DEF ClusterCount, left
    <2> QED BY <2>3, <2>4
<1> QED BY <1>4, <1>8, <1>9 DEF CountsTheThings, texts

CriteriaAreWritten == acceptance \in Seq(Criteria)

\* The size row keeps its teeth, and charges one thing once: whatever the criteria, the
\* count is at least the number of groups of declared files they are about, one for one
\* file, and no larger for a guard (planning.ts, acceptanceClusters).
THEOREM ThingsAreCounted == ClustersSpec => []CountsTheThings
<1>1. ClustersInit => CriteriaAreWritten
    BY DEF ClustersInit, CriteriaAreWritten
<1>2. CriteriaAreWritten /\ [ClustersNext]_acceptance => CriteriaAreWritten'
    BY DEF ClustersNext, WriteCriterion, CriteriaAreWritten
<1>3. CriteriaAreWritten => CountsTheThings
    BY ThingsCounted DEF CriteriaAreWritten
<1> QED BY <1>1, <1>2, <1>3, PTL DEF ClustersSpec
==============================================================================
