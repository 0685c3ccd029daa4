------------------------------- MODULE Gates -------------------------------
(* What a tool call meets before it runs (plugin/index.ts, adapter/tools.ts,  *)
(* core/gates-edit.ts, core/gates-git.ts): the tool surface, the session      *)
(* registry, the git gate and the edit scopes, each refusal of which a        *)
(* one-shot grant converts; and the override hatch that mints those grants    *)
(* against two budgets, leaving a taint.  A path is its tree and whose source *)
(* or test it is; a command is what the parsers find in it.                   *)
EXTENDS Integers, FiniteSets, Sequences, SequencesExt

CONSTANTS
    Sessions,
    Prompted,       \* the sessions a user talks to; the fan-out creates the others
    Items,
    NoItem,         \* the item of a session that has none
    Behavioral,     \* items that owe a failing test
    Housed,         \* items with a worktree of their own
    BranchPolicy,   \* "pin" or "check-only"
    MaxOverridesPerItem, MaxOverridesPerRun,
    MaxRestarts     \* bound: deaths of the process

ASSUME GatesAssumption ==
    /\ Prompted \subseteq Sessions
    /\ NoItem \notin Items /\ "main" \notin Items
    /\ Behavioral \subseteq Items /\ Housed \subseteq Items
    /\ BranchPolicy \in {"pin", "check-only"}
    /\ MaxOverridesPerItem \in Nat /\ MaxOverridesPerRun \in Nat /\ MaxRestarts \in Nat

VARIABLES
    seats,      \* the session registry
    grants,     \* the one-shot grants: session, gate, item
    stage,      \* of an item: before its red, before its verification, after it, published
    claims,     \* the items with an inline claim
    taints,     \* overrides in an item's file, which its budget counts
    used,       \* counters.overridesUsed of the run
    anomalies,  \* override anomalies per item, a ledger that only grows
    stopped,    \* the run has a stop
    marked,     \* the trees with a live verify marker
    strays,     \* ghost: calls that ran although they were out of the session's lane
    restarts

gateVars == <<seats, grants, stage, claims, taints, used, anomalies, stopped, marked, strays, restarts>>

NoSeat == [role |-> "none", item |-> NoItem, tree |-> "none"]
TreeFor(i) == IF i \in Housed THEN i ELSE "main"
GuardedTrees == {"main"} \cup Housed
PathsSeen == [tree : GuardedTrees, place : {"source", "test", "state"}, item : Items]
            \cup [tree : {"none of them"}, place : {"other"}, item : {NoItem}]
Refusers == {"session", "git", "edit"}

-----------------------------------------------------------------------------
(* Calls. *)

Shape(tool, git, net, script, targets) ==
    [tool |-> tool, git |-> git, net |-> net, script |-> script, targets |-> targets]

\* The shapes the parsers tell apart: a git segment that reads, moves HEAD or writes, a
\* command word only the shell can resolve, a network program, an interpreter program
\* that names the state area, and the paths written (collectWriteTargets()).
Calls ==
    {Shape(t, "none", FALSE, FALSE, <<>>) :
        t \in {"read", "edit", "conductor", "task", "webfetch", "undeclared", "patch", "question"}}
    \cup {Shape("edit", "none", FALSE, FALSE, <<f>>) : f \in PathsSeen}
    \cup {Shape("bash", g, FALSE, FALSE, <<>>) : g \in {"none", "read", "move", "form", "write", "obscure"}}
    \cup {Shape("bash", "none", n, ~n, <<>>) : n \in BOOLEAN}
    \cup {Shape("bash", g, g = "none", FALSE, <<f>>) : g \in {"none", "write"}, f \in PathsSeen}
    \cup {Shape("bash", "none", FALSE, FALSE, <<f, h>>) :
            f \in PathsSeen, h \in {x \in PathsSeen : x.tree # "main" \/ x.place = "test"}}

\* classifyTool().
ToolClass(c) ==
    CASE c.tool = "task" -> "spawn"
      [] c.tool = "conductor" -> "conductor"
      [] c.tool \in {"edit", "patch", "question"} -> "write"
      [] c.tool = "bash" /\ (c.targets # <<>> \/ c.script) -> "write"
      [] OTHER -> "read"

\* bashSideEffect() and BUILTIN_SIDE_EFFECT: a command that writes is judged as a write,
\* whatever else it reaches.
ReachesNetwork(c) ==
    \/ c.tool = "webfetch"
    \/ c.net /\ c.targets = <<>> /\ ~c.script

\* What fails closed when a gate crashes; hasGitSegment() sees no git in a word it
\* cannot resolve.
Guarded(c) ==
    \/ c.git \notin {"none", "obscure"}
    \/ ToolClass(c) # "read"
    \/ ReachesNetwork(c)
    \/ c.tool = "undeclared"

-----------------------------------------------------------------------------
(* The gates. *)

\* decideBuiltinSurface(), with both lanes on.
SurfaceRefuses(c) == c.tool = "undeclared" \/ ReachesNetwork(c)

\* decideSession().
SessionRefuses(s, c) ==
    \/ ToolClass(c) = "spawn"
    \/ seats[s] = NoSeat /\ ToolClass(c) # "read"

\* decideGitSegment(): staging, committing, pushing, destroying, an execution route in an
\* option or the environment, and every verb the tables do not name.
VerbRefused(c) == c.git = "write"

\* decideStash(), decideWorktree(), decideRemote(), decideConfig(), decideReflog(),
\* decideBranch(): the verbs of two words in any form but the one that lists.
FormRefused(c) == c.git = "form"

\* decideCheckout(), decideSwitch(): what moves HEAD follows the branch policy, of a run
\* that the plugin always calls active; what discards work is a refused verb.
MoveRefused(c) == c.git = "move" /\ BranchPolicy = "pin"

\* decideGit(), which refuses a command word that only the shell can resolve.
GitRefuses(c) == VerbRefused(c) \/ FormRefused(c) \/ MoveRefused(c) \/ c.git = "obscure"

\* gateScopesFor(): what the item of the session owns; the orchestrator has no item, and
\* all tests are others'.
GateScopes(s) ==
    [file |-> {f \in PathsSeen : f.place = "source" /\ f.item = seats[s].item},
     test |-> {f \in PathsSeen : f.place = "test" /\ seats[s].item \in {NoItem, f.item}}]

\* activeInlineClaimScope(): the sources of every claimed item that is not published.
ClaimScope == {f \in PathsSeen : f.place = "source" /\ f.item \in claims /\ stage[f.item] # "published"}

\* decideEdit(): the tree, the freeze, the state area, then the role.
EditRefuses(s, f) ==
    \/ f.tree # seats[s].tree
    \/ seats[s].tree \in marked
    \/ f.place = "state"
    \/ f \notin CASE seats[s].role = "orchestrator" -> ClaimScope
                  [] seats[s].role = "implementer" -> GateScopes(s).file \ GateScopes(s).test
                  [] seats[s].role = "testWriter" -> GateScopes(s).test
                  [] OTHER -> {}

\* gateBeforeToolCall(): the gates that refuse the call, in the order they are asked.
\* A gate that crashes refuses what is guarded and lets the rest through.
Refusals(s, c, crash) ==
    LET Refusal(gate, refused) == IF refused THEN <<gate>> ELSE <<>>
        Decided(site, gate, refused) ==
            Refusal(gate, IF crash = site THEN Guarded(c) ELSE refused)
        Edits == {k \in DOMAIN c.targets :
                    IF crash = "edit" THEN Guarded(c) ELSE EditRefuses(s, c.targets[k])}
    IN  IF c.tool \in {"patch", "question"} THEN <<"tool">>
        ELSE Decided("surface", "session", SurfaceRefuses(c))
             \o Decided("session", "session", SessionRefuses(s, c))
             \o (IF c.tool = "bash"
                   THEN Decided("git", "git", GitRefuses(c)) \o Refusal("edit", c.script)
                   ELSE <<>>)
             \o [k \in 1..Cardinality(Edits) |-> "edit"]

\* consumeOverrideGrant(): how many refusals the grants of the session convert, each of
\* them one; only a session with an item has any.
Converted(s, refusals) ==
    LET Convertible(n) ==
            /\ \A k \in 1..n : <<s, refusals[k], seats[s].item>> \in grants
            /\ IsInjective(SubSeq(refusals, 1, n))
    IN  IF grants = {} THEN 0
        ELSE CHOOSE n \in 0..Len(refusals) :
                Convertible(n) /\ (n < Len(refusals) => ~Convertible(n + 1))

-----------------------------------------------------------------------------
(* The lane of a session, for the properties: what the roles are for. *)

Territory(s) ==
    {f \in PathsSeen : f.tree = seats[s].tree /\ f.tree \notin marked /\
        \/ seats[s].role = "implementer" /\ f.place = "source" /\ f.item = seats[s].item
        \/ seats[s].role = "testWriter" /\ f.place = "test" /\ f.item = seats[s].item
        \/ seats[s].role = "orchestrator" /\ f.place = "source"
           /\ f.item \in claims /\ stage[f.item] # "published"}

InLane(s, c) ==
    /\ c.tool \in {"bash", "edit", "read", "conductor"}
    /\ c.tool \in {"edit", "conductor"} => seats[s] # NoSeat
    /\ ToSet(c.targets) \subseteq Territory(s)
    /\ ~c.script
    /\ c.git \in {"none", "read"} \/ (c.git = "move" /\ BranchPolicy # "pin")
    /\ c.net => c.targets # <<>>

-----------------------------------------------------------------------------
(* Steps. *)

\* What a call at the gates comes to: the grants its refusals take, and whether it runs
\* although it is out of the session's lane.
Effect(s, c, crash) ==
    LET refusals == Refusals(s, c, crash)
        spent == Converted(s, refusals)
    IN  [spent |-> {<<s, refusals[k], seats[s].item>> : k \in 1..spent},
         astray |-> spent = Len(refusals) /\ ~InLane(s, c) /\ ~(crash = "git" /\ c.git = "obscure")]

Effects(s) ==
    {Effect(s, c, crash) : c \in Calls, crash \in {"no", "surface", "session", "git", "edit"}}

\* Mutant: a converted refusal leaves its grant in the map.
KeepTheGrant(s) ==
    \E effect \in Effects(s) :
        /\ effect.astray
        /\ strays' = [strays EXCEPT ![seats[s].item] = @ + 1]
        /\ UNCHANGED <<seats, grants, stage, claims, taints, used, anomalies, stopped, marked, restarts>>

\* A call at the gates.  One that all let through, or are made to, runs; a grant that
\* converted a refusal is gone even if a later gate refuses the call.  Calls that spend
\* nothing and stay in their lane change nothing here and are stuttering steps.
ToolCall(s) ==
    \E effect \in Effects(s) :
        /\ effect.spent # {} \/ effect.astray
        /\ grants' = grants \ effect.spent
        /\ strays' = IF effect.astray THEN [strays EXCEPT ![seats[s].item] = @ + 1] ELSE strays
        /\ UNCHANGED <<seats, stage, claims, taints, used, anomalies, stopped, marked, restarts>>

\* A session is registered: the fan-out before its first prompt, the orchestrator by its
\* prompt or from the run it belongs to.
Register(s, seat) ==
    /\ seats[s] = NoSeat
    /\ seats' = [seats EXCEPT ![s] = seat]
    /\ UNCHANGED <<grants, stage, claims, taints, used, anomalies, stopped, marked, strays, restarts>>

\* A sub-session ends.
Leave(s) ==
    /\ seats[s].item # NoItem
    /\ seats' = [seats EXCEPT ![s] = NoSeat]
    /\ UNCHANGED <<grants, stage, claims, taints, used, anomalies, stopped, marked, strays, restarts>>

\* handleInlineClaim().
Claim(s, i) ==
    /\ seats[s].role = "orchestrator" /\ ~stopped
    /\ ~(i \in Behavioral /\ stage[i] = "pending")
    /\ claims' = claims \cup {i}
    /\ UNCHANGED <<seats, grants, stage, taints, used, anomalies, stopped, marked, strays, restarts>>

\* The item's pipeline: its red, its verification, its publication.
Proceed(i) ==
    /\ stage[i] # "published" /\ ~stopped
    /\ stage' = [stage EXCEPT ![i] =
                    CASE @ = "pending" -> "open" [] @ = "open" -> "verified" [] OTHER -> "published"]
    /\ UNCHANGED <<seats, grants, claims, taints, used, anomalies, stopped, marked, strays, restarts>>

\* handleQueueAmend() with a remove and an add of one id: the item is born again.
Rebirth(s, i) ==
    /\ seats[s].role = "orchestrator" /\ ~stopped
    /\ stage[i] \in {"pending", "open"}
    /\ stage' = [stage EXCEPT ![i] = "pending"]
    /\ claims' = claims \ {i}
    /\ taints' = [taints EXCEPT ![i] = 0]
    /\ UNCHANGED <<seats, grants, used, anomalies, stopped, marked, strays, restarts>>

\* A verify marker appears on a tree, or goes.
Mark(t) ==
    /\ marked' = IF t \in marked THEN marked \ {t} ELSE marked \cup {t}
    /\ UNCHANGED <<seats, grants, stage, claims, taints, used, anomalies, stopped, strays, restarts>>

\* What a death takes: the registry and the grants are in memory.
Die ==
    /\ restarts < MaxRestarts
    /\ restarts' = restarts + 1
    /\ seats' = [s \in Sessions |-> NoSeat] /\ grants' = {}

\* handleOverride(): the anomaly, the item's file, the run's, then the grant; a death may
\* follow any of the three writes.
Override(s, gate, written) ==
    LET i == seats[s].item
    IN  /\ i # NoItem /\ ~stopped
        /\ ~(seats[s].role = "reader" /\ gate = "edit")
        /\ taints[i] < MaxOverridesPerItem /\ used < MaxOverridesPerRun
        /\ anomalies' = [anomalies EXCEPT ![i] = @ + 1]
        /\ taints' = IF written >= 2 THEN [taints EXCEPT ![i] = @ + 1] ELSE taints
        /\ used' = IF written >= 3 THEN used + 1 ELSE used
        /\ \/ /\ written = 4
              /\ grants' = grants \cup {<<s, gate, i>>}
              /\ UNCHANGED <<seats, restarts>>
           \/ written < 4 /\ Die
        /\ UNCHANGED <<stage, claims, stopped, marked, strays>>

\* handleOverride() over either budget: the run stops, and nothing else is written.
Exhaust(s, gate) ==
    /\ seats[s].item # NoItem /\ ~stopped
    /\ ~(seats[s].role = "reader" /\ gate = "edit")
    /\ taints[seats[s].item] >= MaxOverridesPerItem \/ used >= MaxOverridesPerRun
    /\ stopped' = TRUE
    /\ UNCHANGED <<seats, grants, stage, claims, taints, used, anomalies, marked, strays, restarts>>

Restart ==
    /\ Die
    /\ UNCHANGED <<stage, claims, taints, used, anomalies, stopped, marked, strays>>

GatesInit ==
    /\ seats = [s \in Sessions |-> NoSeat] /\ grants = {}
    /\ stage = [i \in Items |-> "pending"] /\ claims = {}
    /\ taints = [i \in Items |-> 0] /\ used = 0 /\ anomalies = [i \in Items |-> 0]
    /\ stopped = FALSE /\ marked = {}
    /\ strays = [i \in Items \cup {NoItem} |-> 0] /\ restarts = 0

GatesNext ==
    \/ \E s \in Sessions : ToolCall(s)
    \/ \E s \in Prompted : Register(s, [role |-> "orchestrator", item |-> NoItem, tree |-> "main"])
    \/ \E s \in Sessions \ Prompted, i \in Items, r \in {"implementer", "testWriter", "reader"} :
            Register(s, [role |-> r, item |-> i, tree |-> TreeFor(i)])
    \/ \E s \in Sessions : Leave(s)
    \/ \E s \in Sessions, i \in Items : Claim(s, i) \/ Rebirth(s, i)
    \/ \E i \in Items : Proceed(i)
    \/ \E t \in GuardedTrees : Mark(t)
    \/ \E s \in Sessions, g \in Refusers, w \in 1..4 : Override(s, g, w)
    \/ \E s \in Sessions, g \in Refusers : Exhaust(s, g)
    \/ Restart

GatesSpec == GatesInit /\ [][GatesNext]_gateVars

-----------------------------------------------------------------------------
(* Correctness. *)

\* The calls that ran out of a lane, over all the items.
AllStrays == UNION {{i} \X (1..strays[i]) : i \in Items}

\* No call leaves the lane of its session but by an override that is on record: a grant
\* converts one refusal and is gone, a session without an item converts none, and what a
\* death cuts short never leaves a bypass that no ledger and no budget knows of.
StraysAreOnRecord ==
    /\ strays[NoItem] = 0
    /\ \A i \in Items :
        strays[i] + Cardinality({g \in grants : g[3] = i}) <= anomalies[i]
    /\ Cardinality(AllStrays) <= used
    /\ used <= MaxOverridesPerRun
=============================================================================
