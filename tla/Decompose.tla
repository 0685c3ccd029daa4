----------------------------- MODULE Decompose -----------------------------
(* The queue of a run: what conductor_decompose accepts of a planner, and what *)
(* conductor_queue_amend may make of it while the run executes                 *)
(* (conductor/core/planning.ts, core/queue-amend.ts, the globs of              *)
(* core/shell-parse.ts, and their handlers in adapter/tools.ts).               *)
(*                                                                             *)
(* A glob is the set of its brace expansions, each a sequence of segments: a   *)
(* name, "*" for one segment, "**" for any number.  What `validateQueue` says  *)
(* of an item's wording and of its read set (ids, acceptance criteria, the     *)
(* ponytail note, tokens) is one bit of a proposal, `sound`.                   *)
EXTENDS Naturals, Sequences, FiniteSets, SequencesExt

CONSTANTS
    Names,          \* the names of files and directories
    Proposals,      \* the queues a planner may reply with, sequences of entries
    BehavioralSets, \* the possible values of verify.behavioralPaths
    Tree,           \* the files that exist
    ItemMaxFiles,   \* ITEM_MAX_FILES
    OpLists,        \* the amendments that may be asked for
    Findings,       \* what a surviving finding may cite
    MaxAmends, MaxKills  \* bounds

VARIABLES
    behavioralPaths, \* the configuration
    tries,           \* the planner's attempt under way, 0 when none is
    candidate,       \* the queue that the last call ended on, accepted or not
    queued,          \* queue.json
    files,           \* item file -> the item's state
    proven,          \* item -> the scopes its evidence was made under
    applied,         \* the amendment that is being written
    writing,         \* its next write
    orphans,         \* item files known to be left behind
    amends, kills    \* counted against the bounds

decomposeVars ==
    <<behavioralPaths, tries, candidate, queued, files, proven, applied, writing, orphans,
      amends, kills>>

Entries(q) == {q[k] : k \in DOMAIN q}
IdsOf(q) == {e.id : e \in Entries(q)}
\* The first entry of an id.
IndexOf(q, id) == CHOOSE k \in DOMAIN q : q[k].id = id /\ \A j \in DOMAIN q : j < k => q[j].id # id
EntryOf(q, id) == q[IndexOf(q, id)]
Amendments == UNION {Entries(l) : l \in OpLists}
Rewrites == {o \in Amendments : o.op # "remove"}
QueueItems == (UNION {Entries(q) : q \in Proposals}) \cup {o.entry : o \in Rewrites}
Ids == {e.id : e \in QueueItems} \cup {o.id : o \in Amendments}
Paths == UNION {[1..n -> Names] : n \in 1..3}
Nothing == [scope |-> {}, tests |-> {}]
PlannerAttempts == 2
NoAmendment ==
    [ok |-> FALSE, queue |-> <<>>, added |-> {}, updated |-> {}, removed |-> {}]

Wildcards == {"*", "**"}
IsGlob(g) == g # {} /\ \A e \in g : e \in Seq(Names \cup Wildcards) /\ e # <<>>

\* The shapes of a reply, of an op, and of a citation: one of a file with its
\* directory has no wildcard (pathLikeTokens).
ASSUME DecomposeAssumption ==
    /\ BehavioralSets # {} /\ \A b \in BehavioralSets : \A g \in b : IsGlob(g)
    /\ Tree \subseteq Paths
    /\ ItemMaxFiles \in Nat \ {0} /\ MaxAmends \in Nat /\ MaxKills \in Nat
    /\ Proposals \subseteq Seq(QueueItems) /\ OpLists \subseteq Seq(Amendments)
    /\ \A e \in QueueItems : IsFiniteSet(e.deps) /\ \A g \in e.scope \cup e.tests : IsGlob(g)
    /\ \A o \in Amendments : o.op \in {"add", "update", "remove"}
    /\ \A o \in Rewrites : o.entry.id = o.id
    /\ \A f \in Findings :
          f.kind = "path" => Len(f.path) > 1 /\ \A k \in DOMAIN f.path : f.path[k] \notin Wildcards
-----------------------------------------------------------------------------
(* Globs.                                                                      *)

\* matchSegments: how many segments of a path the first i segments of a glob can
\* stand for; "**" stands for zero or more.
MatchSegments(e, p) ==
    LET upto[i \in 0..Len(e)] ==
            IF i = 0 THEN {0}
            ELSE LET before == upto[i - 1] IN
                 IF e[i] = "**" THEN {k \in 0..Len(p) : \E j \in before : j <= k}
                 ELSE {k \in 1..Len(p) : k - 1 \in before /\ e[i] \in {"*", p[k]}}
    IN  Len(p) \in upto[Len(e)]

\* globMatch.
GlobMatch(g, p) == \E e \in g : MatchSegments(e, p)

\* literalHead: the segments in front of the first wildcard or brace.
Shared(g, n) ==
    \A e, f \in g : n <= Len(e) /\ \A k \in 1..n : e[k] \notin Wildcards /\ e[k] = f[k]
LiteralHead(g) ==
    LET e == CHOOSE e \in g : TRUE
        n == CHOOSE n \in 0..Len(e) : Shared(g, n) /\ \A m \in 0..Len(e) : Shared(g, m) => m <= n
    IN  SubSeq(e, 1, n)

WildcardHeaded(g) == LiteralHead(g) = <<>>

HeadsOverlap(a, b) == \A k \in DOMAIN a \cap DOMAIN b : a[k] = b[k]

\* scopesIntersect: the heads decide, so that it never misses an overlap.
ScopesIntersect(A, B) == \E a \in A, b \in B : HeadsOverlap(LiteralHead(a), LiteralHead(b))

\* Mutant: only the glob of everything climbs out of its directory.
ReachesRootAlone(g) == g = {<<"**">>}
RootLevelOnly(g) == \A e \in g : Len(e) = 1 /\ e[1] # "**"
ReachesRootLevel(g) ==
    \A e \in g : e[1] = "**" /\ Cardinality({k \in DOMAIN e : e[k] # "**"}) <= 1

\* firstIntersectingGlob: a glob of root files only and one of a directory are
\* apart, unless the latter climbs out of its directory.
ApartByDepth(a, b) ==
    /\ RootLevelOnly(a) # RootLevelOnly(b)
    /\ ~ReachesRootLevel(IF RootLevelOnly(a) THEN b ELSE a)
Intersecting(scope, behavioral) ==
    \E s \in scope, b \in behavioral : ~ApartByDepth(s, b) /\ ScopesIntersect({s}, {b})

\* firstCoveringGlob.
Covering(scope, tests) ==
    \E s \in scope, t \in tests :
        \/ \E e \in t : GlobMatch(s, e)
        \/ \E e \in s : GlobMatch(t, e)
        \/ ScopesIntersect({s}, {t})
-----------------------------------------------------------------------------
(* validateQueue.                                                              *)

\* buildDeps: entries of one id share their edges.
BuildDeps(q) ==
    [id \in IdsOf(q) |-> UNION {e.deps : e \in {f \in Entries(q) : f.id = id}}]

\* findDependsOnCycles: a depth-first walk in three colours, and the members of
\* every cycle it closes.  `path` holds the grey nodes, `left` the edges that are
\* still to follow from each.
EnterNode(walk, id) == [walk EXCEPT !.colour[id] = "grey", !.path = Append(@, id)]
LeaveNode(walk, id) == [walk EXCEPT !.colour[id] = "black", !.path = Front(@)]
FollowEdge(walk, id, dep) ==
    LET on == [walk EXCEPT !.left[id] = @ \ {dep}]
        loop == {walk.path[k] : k \in {j \in DOMAIN walk.path : \E i \in 1..j : walk.path[i] = dep}}
    IN  IF dep \notin DOMAIN walk.colour \/ walk.colour[dep] = "black" THEN on
        ELSE IF walk.colour[dep] = "white" THEN EnterNode(on, dep)
        ELSE [on EXCEPT !.cycles = @ \cup {loop}]

\* One turn of its loops: the next root, or the node on top of the path.
WalkOn(walk) ==
    LET roots == {id \in DOMAIN walk.colour : walk.colour[id] = "white"}
        top == Last(walk.path)
    IN  IF walk.path = <<>>
        THEN IF roots = {} THEN walk ELSE EnterNode(walk, CHOOSE id \in roots : TRUE)
        ELSE IF walk.left[top] = {} THEN LeaveNode(walk, top)
        ELSE FollowEdge(walk, top, CHOOSE dep \in walk.left[top] : TRUE)

\* As many turns as there are nodes to enter and to leave, and edges to follow.
Turns(q) == Cardinality(IdsOf(q)) * (Cardinality(UNION {e.deps : e \in Entries(q)}) + 2)
Walked(q) ==
    LET start == [colour |-> [id \in IdsOf(q) |-> "white"], left |-> BuildDeps(q),
                  path |-> <<>>, cycles |-> {}]
        after[k \in 0..Turns(q)] == IF k = 0 THEN start ELSE WalkOn(after[k - 1])
    IN  after

FindDependsOnCycles(q) == Walked(q)[Turns(q)].cycles

\* measureQueueScopes, and the files an item is charged for.
MatchedFiles(entry) ==
    LET found == {p \in Tree : \E g \in entry.scope : ~WildcardHeaded(g) /\ GlobMatch(g, p)}
        named == Cardinality(entry.scope)
    IN  IF named > Cardinality(found) THEN named ELSE Cardinality(found)

\* The rows about one item.
EntryOK(entry, behavioral) ==
    /\ entry.sound
    /\ entry.scope # {}
    /\ entry.behavioral <=> entry.tests # {}
    /\ ~entry.behavioral => ~Intersecting(entry.scope, behavioral)
    /\ \A g \in entry.scope : ~WildcardHeaded(g)
    /\ ~Covering(entry.scope, entry.tests)
    /\ MatchedFiles(entry) <= ItemMaxFiles

\* The whole table: ids, edges, cycles, the items, and two items on one file.
ValidQueue(q, behavioral) ==
    /\ q # <<>>
    /\ Cardinality(IdsOf(q)) = Len(q)
    /\ \A e \in Entries(q) : e.deps \subseteq IdsOf(q)
    /\ FindDependsOnCycles(q) = {}
    /\ \A e \in Entries(q) : EntryOK(e, behavioral)
    /\ \A e, f \in Entries(q) : e.id # f.id => ~ScopesIntersect(e.scope, f.scope)
-----------------------------------------------------------------------------
(* conductor_decompose.                                                        *)

DecomposeInit ==
    /\ behavioralPaths \in BehavioralSets
    /\ tries = 0
    /\ candidate = <<>>
    /\ queued = <<>>
    /\ files = <<>>
    /\ proven = [i \in Ids |-> Nothing]
    /\ applied = NoAmendment /\ writing = "nothing"
    /\ orphans = {}
    /\ amends = 0 /\ kills = 0

Call ==
    /\ queued = <<>> /\ tries = 0
    /\ tries' = 1
    /\ candidate' = <<>>
    /\ UNCHANGED <<behavioralPaths, queued, files, proven, applied, writing, orphans,
                   amends, kills>>

\* The planner replies: accepted and persisted, asked once more, or rejected.
\* (A kill between the writes leaves the run at INTAKE, see RunLifecycle.)
PlannerReplies ==
    /\ tries > 0
    /\ \E q \in Proposals : LET ok == ValidQueue(q, behavioralPaths) IN
          /\ candidate' = IF ok \/ tries = PlannerAttempts THEN q ELSE <<>>
          /\ tries' = IF ok \/ tries = PlannerAttempts THEN 0 ELSE tries + 1
          /\ queued' = IF ok THEN q ELSE queued
          /\ files' = IF ok THEN [i \in IdsOf(q) |-> "PENDING"] ELSE files
    /\ UNCHANGED <<behavioralPaths, proven, applied, writing, orphans, amends, kills>>

\* An item's stages: evidence is made under the scopes the queue gives it.
Advance(id) ==
    /\ writing = "nothing"
    /\ id \in IdsOf(queued) /\ id \in DOMAIN files
    /\ \/ /\ files[id] = "PENDING"
          /\ files' = [files EXCEPT ![id] = "RED"]
          /\ proven' = [proven EXCEPT ![id] = [scope |-> EntryOf(queued, id).scope,
                                               tests |-> EntryOf(queued, id).tests]]
       \/ files[id] = "RED" /\ files' = [files EXCEPT ![id] = "VALIDATED"] /\ UNCHANGED proven
    /\ UNCHANGED <<behavioralPaths, tries, candidate, queued, applied, writing, orphans, amends, kills>>
-----------------------------------------------------------------------------
(* conductor_queue_amend.                                                      *)

AmendableStates == {"PENDING", "RED"}

\* Mutant: an update may move the scopes of an item with evidence.
ApplicableAtAnyScope(op, sofar) ==
    IF op.op = "add" THEN op.id \notin IdsOf(sofar.queue)
    ELSE op.id \in IdsOf(sofar.queue) /\ (op.id \notin sofar.added => files[op.id] \in AmendableStates)

\* What refuses one op, given what the list has done so far: the update of an
\* item past PENDING keeps its evidence, so it must keep its scopes.
Applicable(op, sofar) ==
    IF op.op = "add" THEN op.id \notin IdsOf(sofar.queue)
    ELSE /\ op.id \in IdsOf(sofar.queue)
         /\ op.id \notin sofar.added =>
                /\ files[op.id] \in AmendableStates
                /\ op.op = "update" /\ files[op.id] # "PENDING" =>
                       LET before == EntryOf(sofar.queue, op.id) IN
                       op.entry.scope = before.scope /\ op.entry.tests = before.tests

\* applyAmendOps for one op: the net effect on the queue and on the item files.
ApplyOp(sofar, op) ==
    IF ~sofar.ok \/ ~Applicable(op, sofar) THEN [sofar EXCEPT !.ok = FALSE]
    ELSE CASE op.op = "add" ->
              [sofar EXCEPT !.queue = Append(@, op.entry), !.added = @ \cup {op.id},
                            !.removed = @ \ {op.id}]
           [] op.op = "update" ->
              [sofar EXCEPT !.queue[IndexOf(sofar.queue, op.id)] = op.entry,
                            !.updated = IF op.id \in sofar.added THEN @ ELSE @ \cup {op.id}]
           [] op.op = "remove" ->
              [sofar EXCEPT !.queue = RemoveAt(@, IndexOf(@, op.id)),
                            !.updated = @ \ {op.id},
                            !.added = @ \ {op.id},
                            !.removed = IF op.id \in sofar.added THEN @ ELSE @ \cup {op.id}]

Applied(ops) ==
    LET start == [ok |-> ops # <<>>, queue |-> queued, added |-> {}, updated |-> {}, removed |-> {}]
        after[k \in 0..Len(ops)] == IF k = 0 THEN start ELSE ApplyOp(after[k - 1], ops[k])
    IN  after

ApplyAmendOps(ops) == Applied(ops)[Len(ops)]

\* A legal amendment, about to be written; every refusal writes nothing.  The
\* net effect forgets an id that the list removes, adds and removes.
QueueAmend(ops) ==
    /\ queued # <<>> /\ writing = "nothing" /\ amends < MaxAmends
    /\ IdsOf(queued) \subseteq DOMAIN files
    /\ LET result == ApplyAmendOps(ops) IN
       /\ result.ok /\ ValidQueue(result.queue, behavioralPaths)
       /\ candidate' = result.queue
       /\ applied' = result
       /\ orphans' = orphans \cup (IdsOf(queued) \ (IdsOf(result.queue) \cup result.removed))
    /\ writing' = "births"
    /\ amends' = amends + 1
    /\ UNCHANGED <<behavioralPaths, tries, queued, files, proven, kills>>

\* saveItem for every item that is added, a reborn one included.
WriteBirths ==
    /\ writing = "births"
    /\ files' = [i \in DOMAIN files \cup applied.added |->
                     IF i \in applied.added THEN "PENDING" ELSE files[i]]
    /\ proven' = [i \in Ids |-> IF i \in applied.added THEN Nothing ELSE proven[i]]
    /\ orphans' = orphans \ applied.added
    /\ writing' = "queue"
    /\ UNCHANGED <<behavioralPaths, tries, candidate, queued, applied, amends, kills>>

WriteQueue ==
    /\ writing = "queue"
    /\ queued' = applied.queue
    /\ writing' = "removals"
    /\ UNCHANGED <<behavioralPaths, tries, candidate, files, proven, applied, orphans, amends, kills>>

\* removeItem for every item that is gone.
WriteRemovals ==
    /\ writing = "removals"
    /\ files' = [i \in DOMAIN files \ applied.removed |-> files[i]]
    /\ proven' = [i \in Ids |-> IF i \in applied.removed THEN Nothing ELSE proven[i]]
    /\ writing' = "nothing"
    /\ applied' = NoAmendment
    /\ UNCHANGED <<behavioralPaths, tries, candidate, queued, orphans, amends, kills>>

\* The process dies between two writes, or while the planner works.
Kill ==
    /\ kills < MaxKills
    /\ writing # "nothing" \/ tries > 0
    /\ tries' = 0
    /\ writing' = "nothing"
    /\ applied' = NoAmendment
    /\ orphans' = orphans \cup (DOMAIN files \ IdsOf(queued))
    /\ kills' = kills + 1
    /\ UNCHANGED <<behavioralPaths, candidate, queued, files, proven, amends>>
-----------------------------------------------------------------------------
(* Findings that cite the queue's items: a file by its path, a bare file name, *)
(* an item's id, or only a directory or a wildcard.                            *)

\* pathLikeTokens: the citations that name a file.
FileTokens(f) == IF f.kind \in {"path", "name"} THEN {f.path} ELSE {}

NamedBy(f, scope) ==
    \E p \in FileTokens(f) :
        IF Len(p) > 1 THEN ScopesIntersect({{p}}, scope)
        ELSE \E g \in scope, e \in UNION scope : e \in g /\ Last(e) = p[1]

\* findingBlocksItems: the items a surviving finding of the plan's review blocks.
FindingBlocksItems(f, q) ==
    {e.id : e \in {x \in Entries(q) : (f.kind = "id" /\ f.id = x.id) \/ NamedBy(f, x.scope)}}

\* Mutant: the fix has to quote an entry of the scope.
FixQuotesScope(f, scope) == \E p \in FileTokens(f) : {p} \in scope

\* fixNamesScope, routeFix: who is sent to fix a surviving finding of an item.
FixNamesScope(f, scope) == \E p \in FileTokens(f), g \in scope : GlobMatch(g, p)
RouteFix(f, entry, testAdequacy) ==
    IF testAdequacy \/ FixNamesScope(f, entry.tests)
    THEN {"test-writer"} \cup (IF FixNamesScope(f, entry.scope) THEN {"implementer"} ELSE {})
    ELSE {"implementer"}
-----------------------------------------------------------------------------
DecomposeNext ==
    \/ Call
    \/ PlannerReplies
    \/ \E id \in Ids : Advance(id)
    \/ \E ops \in OpLists : QueueAmend(ops)
    \/ WriteBirths \/ WriteQueue \/ WriteRemovals
    \/ Kill

DecomposeSpec == DecomposeInit /\ [][DecomposeNext]_decomposeVars
-----------------------------------------------------------------------------
Reach(scope) == {p \in Paths : \E g \in scope : GlobMatch(g, p)}

\* Where an expansion of a glob has its paths: at the root, at any depth, or below.
Reaching(e) ==
    IF Len(e) = 1 /\ e[1] # "**" THEN "root"
    ELSE IF e[1] = "**" /\ Cardinality({k \in DOMAIN e : e[k] # "**"}) <= 1 THEN "any"
    ELSE "below"

\* ApartByDepth takes two globs for ones that stay in a directory: one whose braces
\* mix depths ("{src/**,main.ts}"), and one that matches its own directory ("src/**").
HiddenAtRoot(g) ==
    {p \in Reach({g}) :
        /\ Len(p) = 1
        /\ \/ \E e, f \in g : Reaching(e) # Reaching(f)
           \/ \E e \in g : Len(e) > 1 /\ e[1] # "**" /\ MatchSegments(e, p)}

\* In what was accepted there is an order to execute the items in, and no cycle
\* is seen where there is one.
CyclesAreSeen ==
    LET ids == IdsOf(candidate)
        deps == BuildDeps(candidate)
    IN  (FindDependsOnCycles(candidate) = {}) <=>
            (\E rank \in [ids -> 1..Cardinality(ids)] :
                \A id \in ids : \A d \in deps[id] \cap ids : rank[d] < rank[id])

\* In every queue a run executes, and after every amendment of it, there is an
\* order to execute the items in, no two items can write one file, an item that
\* declares no behavior can write no behavioral production file, and no
\* implementer can write the tests its item is judged by; and a queue is refused
\* for a cycle only where there is one.
QueuesAreExecutable ==
    /\ CyclesAreSeen
    /\ queued # <<>> =>
          /\ \E rank \in [IdsOf(queued) -> 1..Len(queued)] :
                \A e \in Entries(queued) : \A d \in e.deps : rank[d] < rank[e.id]
          /\ \A e, f \in Entries(queued) : e.id # f.id => Reach(e.scope) \cap Reach(f.scope) = {}
          /\ \A e \in Entries(queued) :
                /\ Reach(e.scope) \cap Reach(e.tests) = {}
                /\ ~e.behavioral => Reach(e.scope) \cap Reach(behavioralPaths) \subseteq
                       UNION {HiddenAtRoot(g) : g \in e.scope \cup behavioralPaths}

\* Every item of the queue has its file at every instant, a kill included; a file
\* without an entry is one a kill or a remove-add-remove left behind; and an item
\* past PENDING still has the scopes its evidence was made under.
AmendedItemsAreWhole ==
    queued # <<>> /\ tries = 0 =>
        /\ IdsOf(queued) \subseteq DOMAIN files
        /\ DOMAIN files \ IdsOf(queued) \subseteq orphans \cup applied.added \cup applied.removed
        /\ \A e \in Entries(queued) : files[e.id] # "PENDING" =>
               proven[e.id] = [scope |-> e.scope, tests |-> e.tests]

\* A finding that cites a file, with its directory, blocks every item that may
\* write the file; one that cites an item's id blocks that item; one that cites
\* only a directory or a wildcard blocks nobody.  A fix that cites a file goes to
\* a role whose scope has it, whenever one of the item's scopes has it.
FindingsReachTheirItems ==
    \A f \in Findings :
        /\ \A e \in Entries(queued) :
              \/ f.kind = "id" /\ f.id = e.id
              \/ f.kind = "path" /\ f.path \in Reach(e.scope)
              => e.id \in FindingBlocksItems(f, queued)
        /\ f.kind \in {"directory", "wildcard"} => FindingBlocksItems(f, queued) = {}
        /\ \A e \in Entries(queued), lens \in BOOLEAN :
              f.kind = "path" =>
                  /\ f.path \in Reach(e.tests) => "test-writer" \in RouteFix(f, e, lens)
                  /\ f.path \in Reach(e.scope) => "implementer" \in RouteFix(f, e, lens)
=============================================================================
