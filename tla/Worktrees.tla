------------------------------ MODULE Worktrees ------------------------------
(* parallel.writes "worktrees": one linked worktree for each item of a wave,   *)
(* created at wave setup, published on a branch of its own, merged back into   *)
(* the workspace and verified there (conductor/adapter/worktrees.ts, and its   *)
(* callers in tools.ts and continuation.ts).  Every git command is one action. *)
(* The stages between setup and publication are ItemStages; here an item at    *)
(* REVIEWED has a green verify of the head it was taken at.                    *)
EXTENDS Naturals, FiniteSets

CONSTANTS
    Members,     \* the items of the run
    MaxWork,     \* bound: commits of an item
    MaxTreeKills,    \* bound
    MaxLosses    \* bound: worktree directories that vanish

ASSUME WorktreesAssumption == IsFiniteSet(Members) /\ {MaxWork, MaxTreeKills, MaxLosses} \subseteq Nat

VARIABLES
    branch,     \* item -> the commits on conductor/<run>/<item>, or NoBranch
    dir,        \* items whose worktree directory exists
    entry,      \* items whose worktree git has an administrative entry of
    bound,      \* items whose item.worktree is set
    main,       \* the commits of the workspace's branch
    merging,    \* the item whose merge stands unconcluded (MERGE_HEAD), or "none"
    level,      \* item.state: "working", "reviewed", "published"
    head,       \* item -> the branch's commits when its verify ran
    unsaved,    \* items with work on their paths that is not committed
    untracked,  \* items none of whose paths is in the last commit of their branch
    act,        \* the handler under way: its step and item
    closed,     \* the run was archived
    count       \* the bounds used up

worktreeVars ==
    <<branch, dir, entry, bound, main, merging, level, head, unsaved, untracked, act, closed,
      count>>
git == <<branch, dir, entry, main, merging>>
items == <<bound, level, head, unsaved, untracked>>

NoBranch == {<<"no branch", 0>>}
Commits == Members \X (1..MaxWork)
Own(i) == {c \in branch[i] : c[1] = i}
AtRest == [step |-> "rest", item |-> "none"]
At(step, i) == act = [step |-> step, item |-> i]
Goto(step, i) == act' = [step |-> step, item |-> i]
Count(what) == count' = [count EXCEPT ![what] = @ + 1]

-----------------------------------------------------------------------------
(* Wave setup: createWorktree() for a member without a standing tree. *)

\* "git worktree prune" first: the entry of a vanished directory goes.
Setup(i) ==
    /\ act = AtRest /\ ~closed
    /\ level[i] = "working"
    /\ ~(i \in bound /\ i \in dir)
    /\ entry' = entry \cap dir
    /\ Goto("add", i)
    /\ UNCHANGED <<branch, dir, main, merging, items, closed, count>>

\* Mutant: a branch that is left over is cut anew.
AddAfresh(i) ==
    /\ At("add", i)
    /\ dir' = dir \cup {i}
    /\ entry' = entry \cup {i}
    /\ branch' = [branch EXCEPT ![i] = IF i \in entry THEN @ ELSE main]
    /\ Goto("bind", i)
    /\ UNCHANGED <<main, merging, items, closed, count>>

\* A worktree that is still registered stands; a branch that survived is reused,
\* for it may be the only copy of the item's commits; else one is cut from HEAD.
Add(i) ==
    /\ At("add", i)
    /\ dir' = dir \cup {i}
    /\ entry' = entry \cup {i}
    /\ branch' = [branch EXCEPT ![i] = IF @ = NoBranch THEN main ELSE @]
    /\ Goto("bind", i)
    /\ UNCHANGED <<main, merging, items, closed, count>>

Bind(i) ==
    /\ At("bind", i)
    /\ bound' = bound \cup {i}
    /\ act' = AtRest
    /\ UNCHANGED <<git, level, head, unsaved, untracked, closed, count>>

-----------------------------------------------------------------------------
(* The item is worked on in its tree, verified there and reviewed. *)

Edit(i) ==
    /\ act = AtRest /\ ~closed
    /\ level[i] = "working" /\ i \in dir /\ i \in bound
    /\ unsaved' = unsaved \cup {i}
    /\ UNCHANGED <<git, bound, level, head, untracked, act, closed, count>>

ReviewItem(i) ==
    /\ act = AtRest /\ ~closed
    /\ level[i] = "working" /\ i \in dir /\ i \in bound
    /\ level' = [level EXCEPT ![i] = "reviewed"]
    /\ head' = [head EXCEPT ![i] = branch[i]]
    /\ UNCHANGED <<git, bound, unsaved, untracked, act, closed, count>>

-----------------------------------------------------------------------------
(* handlePublish() in worktree mode. *)

\* demoteReviewedToGreen(): the item is to be verified and reviewed again.
Demote(i) == level' = [level EXCEPT ![i] = "working"] /\ act' = AtRest

\* Up to the commit on the item's branch.  The verify must describe the worktree's
\* HEAD; what is staged are the item's paths that exist or are tracked, so that a
\* deletion is committed (and then `remain` may be false); without a difference git
\* refuses the commit, and the call is denied.
Commit(i, remain) ==
    /\ act = AtRest /\ ~closed
    /\ level[i] = "reviewed" /\ i \in dir /\ i \in bound
    /\ head[i] = branch[i]
    /\ i \in unsaved /\ Cardinality(Own(i)) < MaxWork
    /\ remain \/ i \notin untracked
    /\ branch' = [branch EXCEPT ![i] = @ \cup {<<i, Cardinality(Own(i)) + 1>>}]
    /\ unsaved' = unsaved \ {i}
    /\ untracked' = IF remain THEN untracked \ {i} ELSE untracked \cup {i}
    /\ Goto("merge", i)
    /\ UNCHANGED <<dir, entry, main, merging, bound, level, head, closed, count>>

\* None of the item's paths exists or is tracked: nothing is staged, nothing committed,
\* and without a commit of this call nothing is merged or verified, whatever the branch
\* holds of an earlier one.
PublishNothing(i) ==
    /\ act = AtRest /\ ~closed
    /\ level[i] = "reviewed" /\ i \in dir /\ i \in bound
    /\ head[i] = branch[i] /\ i \notin unsaved /\ i \in untracked
    /\ level' = [level EXCEPT ![i] = "published"]
    /\ UNCHANGED <<git, bound, head, unsaved, untracked, act, closed, count>>

\* The auto re-verify went red on the worktree.
Reverified(i) ==
    /\ act = AtRest /\ ~closed
    /\ level[i] = "reviewed" /\ i \in dir /\ i \in bound /\ head[i] = branch[i]
    /\ Demote(i)
    /\ UNCHANGED <<git, bound, head, unsaved, untracked, closed, count>>

\* mergeBack(): a fast-forward or a merge of the whole branch; nothing to merge is a success.
Merge(i) ==
    /\ At("merge", i) /\ merging = "none"
    /\ main' = main \cup branch[i]
    /\ Goto("integrate", i)
    /\ UNCHANGED <<branch, dir, entry, merging, items, closed, count>>

\* The merge stops at a conflict with what another item brought in.
Conflict(i) ==
    /\ At("merge", i) /\ merging = "none"
    /\ ~(main \subseteq branch[i])
    /\ merging' = i
    /\ Goto("abort", i)
    /\ UNCHANGED <<branch, dir, entry, main, items, closed, count>>

\* A merge that a kill left unconcluded makes both merges fail, and MERGE_HEAD is
\* there: it is taken for a conflict of this item.
OldConflict(i) ==
    /\ At("merge", i) /\ merging # "none"
    /\ Goto("abort", i)
    /\ UNCHANGED <<git, items, closed, count>>

\* Neither merged nor conflicted: an environment fault is thrown, the item keeps its state.
MergeFault(i) ==
    /\ At("merge", i) /\ merging = "none"
    /\ act' = AtRest
    /\ UNCHANGED <<git, items, closed, count>>

AbortMerge(i) ==
    /\ At("abort", i)
    /\ merging' = "none"
    /\ Goto("demote", i)
    /\ UNCHANGED <<branch, dir, entry, main, items, closed, count>>

\* Mutant: a conflict is reported, the item published.
DemotedNot(i) ==
    /\ At("demote", i)
    /\ level' = [level EXCEPT ![i] = "published"] /\ act' = AtRest
    /\ UNCHANGED <<git, bound, head, unsaved, untracked, closed, count>>

Demoted(i) ==
    /\ At("demote", i)
    /\ Demote(i)
    /\ UNCHANGED <<git, bound, head, unsaved, untracked, closed, count>>

\* The verify of the integrated tree: only green publishes; red leaves the merge
\* and demotes the item.
IntegratedGreen(i) ==
    /\ At("integrate", i)
    /\ level' = [level EXCEPT ![i] = "published"]
    /\ act' = AtRest
    /\ UNCHANGED <<git, bound, head, unsaved, untracked, closed, count>>

IntegratedRed(i) ==
    /\ At("integrate", i)
    /\ Demote(i)
    /\ UNCHANGED <<git, bound, head, unsaved, untracked, closed, count>>

\* The integrated tree cannot be verified: the call is denied, the merge stands.
IntegratedRefused(i) ==
    /\ At("integrate", i)
    /\ act' = AtRest
    /\ UNCHANGED <<git, items, closed, count>>

-----------------------------------------------------------------------------
(* The end of the run, and what may befall it. *)

\* removeWorktree(): the tree, git's entry and the branch, merged or not.
Removed(S) ==
    /\ dir' = dir \ S
    /\ entry' = entry \ S
    /\ branch' = [i \in Members |-> IF i \in S THEN NoBranch ELSE branch[i]]
    /\ unsaved' = unsaved \ S

\* The archive: removeWorktree() of every item that has one, its branch with it.
Archive ==
    /\ act = AtRest /\ ~closed
    /\ closed' = TRUE
    /\ Removed(bound)
    /\ UNCHANGED <<main, merging, bound, level, head, untracked, act, count>>

\* The process dies between two commands.
HarnessDies ==
    /\ act # AtRest
    /\ count.kills < MaxTreeKills /\ Count("kills")
    /\ act' = AtRest
    /\ UNCHANGED <<git, items, closed>>

\* A worktree's directory is removed by hand or lost; the entry and the branch stay.
Lose(i) ==
    /\ i \in dir /\ act = AtRest /\ ~closed
    /\ count.losses < MaxLosses /\ Count("losses")
    /\ dir' = dir \ {i}
    /\ unsaved' = unsaved \ {i}
    /\ UNCHANGED <<branch, entry, main, merging, bound, level, head, untracked, act, closed>>

-----------------------------------------------------------------------------
WorktreesInit ==
    /\ branch = [i \in Members |-> NoBranch]
    /\ dir = {} /\ entry = {} /\ bound = {}
    /\ main = {} /\ merging = "none"
    /\ level = [i \in Members |-> "working"]
    /\ head = [i \in Members |-> {}]
    /\ unsaved = {} /\ untracked \in SUBSET Members
    /\ act = AtRest
    /\ closed = FALSE
    /\ count = [kills |-> 0, losses |-> 0]

WorktreesNext ==
    \/ \E i \in Members :
          \/ Setup(i) \/ Add(i) \/ Bind(i) \/ Edit(i) \/ ReviewItem(i)
          \/ Commit(i, TRUE) \/ Commit(i, FALSE) \/ PublishNothing(i) \/ Reverified(i)
          \/ Merge(i) \/ Conflict(i) \/ OldConflict(i) \/ MergeFault(i)
          \/ AbortMerge(i) \/ Demoted(i) \/ IntegratedGreen(i) \/ IntegratedRed(i) \/ IntegratedRefused(i)
          \/ Lose(i)
    \/ Archive \/ HarnessDies

WorktreesSpec == WorktreesInit /\ [][WorktreesNext]_worktreeVars

-----------------------------------------------------------------------------
\* What an item published is part of the workspace's branch, merges of other items,
\* aborts of their conflicts and kills in between notwithstanding, unless the last
\* commit of its branch holds none of its paths.
PublishedIsIntegrated ==
    \A i \in Members :
        level[i] = "published" /\ branch[i] # NoBranch /\ i \notin untracked => Own(i) \subseteq main

\* Until the run is archived, no commit is lost: it is on its item's branch or
\* merged, whatever vanished and was created again (worktrees.ts:155-162).
CommitsSurvive ==
    [][closed' = closed => \A i \in Members :
          branch[i] # NoBranch => branch[i] \subseteq branch'[i] \cup main']_worktreeVars
=============================================================================
