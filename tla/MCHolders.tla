----------------------------- MODULE MCHolders ------------------------------
(* Who holds what, in one run: the run that holds the pointer, the process    *)
(* that holds the workspace, the request that holds a model's slot, the item  *)
(* that holds a worktree, the trial that holds a cell, the download that      *)
(* holds a file.  The parts share no state: a behaviour explores one of them  *)
(* (`part`) and leaves the others as they started.                            *)
EXTENDS RunLifecycle, WorkspaceLock, Admission, Worktrees, Campaign, Fetch, TLC

VARIABLE part

allVars == <<part, runVars, lockVars, vars, worktreeVars, campaignVars, fetchVars>>

HoldersInit ==
    /\ part \in {"pointer", "workspace", "slots", "trees", "cells", "files"}
    /\ RunInit /\ LockInit /\ Init /\ WorktreesInit /\ CampaignInit /\ FetchInit
    /\ lock # NoFile => part = "workspace"
    /\ untracked # {} => part = "trees"

\* Every part but p.
Rest(p) ==
    /\ IF p = "pointer" THEN TRUE ELSE UNCHANGED runVars
    /\ IF p = "workspace" THEN TRUE ELSE UNCHANGED lockVars
    /\ IF p = "slots" THEN TRUE ELSE UNCHANGED vars
    /\ IF p = "trees" THEN TRUE ELSE UNCHANGED worktreeVars
    /\ IF p = "cells" THEN TRUE ELSE UNCHANGED campaignVars
    /\ IF p = "files" THEN TRUE ELSE UNCHANGED fetchVars

HoldersNext ==
    /\ UNCHANGED part
    /\ \/ part = "pointer" /\ RunNext /\ Rest("pointer")
       \/ part = "workspace" /\ LockNext /\ Rest("workspace")
       \/ part = "slots" /\ Next /\ Rest("slots")
       \/ part = "trees" /\ WorktreesNext /\ Rest("trees")
       \/ part = "cells" /\ CampaignNext /\ Rest("cells")
       \/ part = "files" /\ FetchNext /\ Rest("files")

HoldersSpec == HoldersInit /\ [][HoldersNext]_allVars

\* Values for TLC.
TwoRuns == {1, 2}
TwoClasses == [interactive |-> 0, batch |-> 2]

\* A fresh workspace, one left by a dead process, one with an unreadable lock.
MCInitialLocks == {NoFile, Garbage, GhostToken}

\* Every step but those between the rename of the lock and its put-back.
MCCrashSteps == {"claim", "verify", "read", "mint", "orphan", "clear", "reread", "exists",
                 "rename", "discard", "drop", "held", "check", "delete"}

\* The two arms that are compared.
MCArms == <<"baseline", "conductor">>

\* Two shards, and the projector, which is fetched with them and not validated.
MCParts == <<"first", "second", "projector">>

\* Nothing orders the processes.
MCSymmetry == Permutations(Procs)
=============================================================================
