----------------------------- MODULE Quarantine -----------------------------
(* A verify that moves the test files of other items out of the repository    *)
(* and back (conductor/adapter/quarantine.ts, runVerify in evidence.ts).  Each *)
(* call on the file system is one action, so that a kill or a failing call can *)
(* come between any two.  A file is its version; the verdict of the scopes and *)
(* what the evidence ledger says of it are left out.                          *)
EXTENDS Naturals, FiniteSets

CONSTANTS
    Files,        \* the files that may be excluded
    Runs,         \* run ids: each has a quarantine directory of its own
    CrossDevice,  \* whether a move is a copy and an unlink (EXDEV)
    MayRefill,    \* whether somebody writes a file whose slot is empty
    MaxVerifies, MaxCrashes, MaxFaults   \* bounds

QuarantineAssumption ==
    /\ IsFiniteSet(Files) /\ IsFiniteSet(Runs)
    /\ {CrossDevice, MayRefill} \subseteq BOOLEAN
    /\ {MaxVerifies, MaxCrashes, MaxFaults} \subseteq Nat

VARIABLES
    home,      \* the version of a file in its slot in the repository, or "none"
    stored,    \* the version under a run's quarantine directory, or "none"
    manifest,  \* the manifest of a run: its owner, the entries not yet restored
    freeze,    \* the marker of the tree: "none", "mine", or a "dead" process's
    at,        \* where runVerify stands, and what it keeps in local variables
    written,   \* history: the versions of a file that somebody wrote
    reused,    \* history: a run quarantined into a directory that still held files
    tally      \* the bounds used up

quarantineVars == <<home, stored, manifest, freeze, at, written, reused, tally>>
history == <<written, reused>>
disk == <<home, stored, manifest>>

NoManifest == [owner |-> "none", pending |-> {}]
Versions == {"original", "refilled"}
\* `dir` is the directory at hand, `files` the exclusion of this verify, `left` the
\* entries still to handle, `sweep` the directories still to heal.
Idle == [step |-> "idle", run |-> "none", dir |-> "none", files |-> {}, left |-> {},
         conflicts |-> {}, sweep |-> {}]
Spend(what) == tally' = [tally EXCEPT ![what] = @ + 1]

-----------------------------------------------------------------------------
(* runVerify() up to the moves. *)

\* The marker gate: a marker of a dead process is broken.  replayPendingRestores()
\* leaves the directories of a live owner alone.
Verify(r, exclude) ==
    /\ at = Idle
    /\ tally.verifies < MaxVerifies
    /\ freeze' = "none"
    /\ at' = [Idle EXCEPT !.step = "sweep", !.run = r, !.files = exclude,
                          !.sweep = {d \in Runs : manifest[d].owner = "dead"}]
    /\ Spend("verifies")
    /\ UNCHANGED <<disk, history>>

Heal(d) ==
    /\ at.step = "sweep" /\ d \in at.sweep
    /\ at' = [at EXCEPT !.step = "heal", !.dir = d, !.sweep = @ \ {d},
                        !.left = manifest[d].pending, !.conflicts = {}]
    /\ UNCHANGED <<disk, freeze, history, tally>>

\* The manifest is written before the first move; it replaces the one of an earlier
\* quarantine of the run.
WriteManifest ==
    /\ at.step = "sweep" /\ at.sweep = {}
    /\ at' = [at EXCEPT !.step = IF at.files = {} THEN "mark" ELSE "move",
                        !.dir = at.run, !.left = at.files]
    /\ manifest' = IF at.files = {} THEN manifest
                   ELSE [manifest EXCEPT ![at.run] = [owner |-> "mine", pending |-> at.files]]
    /\ reused' = (reused \/ (at.files # {} /\ \E f \in Files : stored[at.run][f] # "none"))
    /\ UNCHANGED <<home, stored, freeze, written, tally>>

\* moveFilePreservingMtime(): a rename, or a copy that ends with the unlink.
MoveOut(f) ==
    /\ at.step = "move" /\ f \in at.left
    /\ home[f] # "none"
    /\ stored' = [stored EXCEPT ![at.dir][f] = home[f]]
    /\ home' = [home EXCEPT ![f] = "none"]
    /\ at' = [at EXCEPT !.left = @ \ {f}, !.step = IF at.left = {f} THEN "mark" ELSE @]
    /\ UNCHANGED <<manifest, freeze, history, tally>>

\* A move throws, because the file is gone or the call fails: what moved goes back.
MoveFails(f) ==
    /\ at.step = "move" /\ f \in at.left
    /\ \/ home[f] = "none" /\ UNCHANGED tally
       \/ home[f] # "none" /\ tally.faults < MaxFaults /\ Spend("faults")
    /\ at' = [at EXCEPT !.step = "rollback", !.left = at.files \ at.left]
    /\ UNCHANGED <<disk, freeze, history>>

RollBack(f) ==
    /\ at.step = "rollback" /\ f \in at.left
    /\ home' = [home EXCEPT ![f] = stored[at.dir][f]]
    /\ stored' = [stored EXCEPT ![at.dir][f] = "none"]
    /\ at' = [at EXCEPT !.left = @ \ {f}]
    /\ UNCHANGED <<manifest, freeze, history, tally>>

\* rmSync() of a directory, with everything in it.
RemoveDirectory(d) ==
    /\ stored' = [stored EXCEPT ![d] = [f \in Files |-> "none"]]
    /\ manifest' = [manifest EXCEPT ![d] = NoManifest]

RolledBack ==
    /\ at.step = "rollback" /\ at.left = {}
    /\ RemoveDirectory(at.dir)
    /\ at' = Idle
    /\ UNCHANGED <<home, freeze, history, tally>>

\* Rolling back fails in its turn: the directory stays, under its manifest.
RollBackFails ==
    /\ at.step = "rollback" /\ at.left # {}
    /\ tally.faults < MaxFaults /\ Spend("faults")
    /\ at' = Idle
    /\ UNCHANGED <<disk, freeze, history>>

-----------------------------------------------------------------------------
(* The scopes run on what is left, and the files come back. *)

\* The start stamp and the marker; the scopes run until Measured.
SetMarker ==
    /\ at.step = "mark"
    /\ freeze' = "mine"
    /\ at' = [at EXCEPT !.step = "scopes"]
    /\ UNCHANGED <<disk, history, tally>>

\* The marker is removed and the record appended; if that throws, the files come
\* back all the same.
Measured ==
    /\ at.step = "scopes"
    /\ freeze' = "none"
    /\ at' = IF at.files = {} THEN Idle
             ELSE [at EXCEPT !.step = "restore", !.left = manifest[at.run].pending,
                             !.conflicts = {}]
    /\ UNCHANGED <<disk, history, tally>>

\* restoreEntries(), one entry.  An occupied slot is left alone: with a copy in the
\* directory it is a conflict, without one the file never moved.
Restoring == at.step \in {"heal", "restore"}

Restore(f) ==
    /\ Restoring /\ f \in at.left
    /\ IF home[f] # "none"
       THEN /\ at' = [at EXCEPT !.left = @ \ {f},
                                !.conflicts = IF stored[at.dir][f] # "none" THEN @ \cup {f} ELSE @]
            /\ UNCHANGED <<home, stored>>
       ELSE /\ at' = [at EXCEPT !.left = @ \ {f}]
            /\ home' = [home EXCEPT ![f] = stored[at.dir][f]]
            /\ stored' = [stored EXCEPT ![at.dir][f] = "none"]
    /\ UNCHANGED <<manifest, freeze, history, tally>>

\* Where a restore leads: the sweep goes on, the verify returns.
Onwards == at' = IF at.step = "heal" THEN [at EXCEPT !.step = "sweep", !.left = {}] ELSE Idle

\* Mutant: the directory goes although files are parked in it.
RestoredRegardless ==
    /\ Restoring /\ at.left = {}
    /\ RemoveDirectory(at.dir)
    /\ Onwards
    /\ UNCHANGED <<home, freeze, history, tally>>

\* The directory goes when nothing is parked in it; a conflict keeps it, and its
\* manifest names what is left.
Restored ==
    /\ Restoring /\ at.left = {}
    /\ IF at.conflicts = {}
       THEN RemoveDirectory(at.dir)
       ELSE /\ manifest' = [manifest EXCEPT ![at.dir].pending = at.conflicts]
            /\ UNCHANGED stored
    /\ Onwards
    /\ UNCHANGED <<home, freeze, history, tally>>

\* A call of the restore throws: the sweep goes to the next directory, the verify
\* throws.  The directory stays as it is.
RestoreFails ==
    /\ Restoring /\ at.left # {}
    /\ tally.faults < MaxFaults /\ Spend("faults")
    /\ Onwards
    /\ UNCHANGED <<disk, freeze, history>>

-----------------------------------------------------------------------------
(* Kills, and other writers. *)

\* A copy that a kill cuts leaves a torn file where it writes, and its source.
Torn ==
    \/ UNCHANGED <<home, stored>>
    \/ /\ CrossDevice
       /\ \E f \in at.left :
             \/ /\ at.step = "move" /\ home[f] # "none"
                /\ stored' = [stored EXCEPT ![at.dir][f] = "torn"]
                /\ UNCHANGED home
             \/ /\ at.step \in {"heal", "restore"} /\ home[f] = "none" /\ stored[at.dir][f] # "none"
                /\ home' = [home EXCEPT ![f] = "torn"]
                /\ UNCHANGED stored
             \/ /\ at.step = "rollback"
                /\ home' = [home EXCEPT ![f] = "torn"]
                /\ UNCHANGED stored

\* The process dies and another opens the workspace.
Crash ==
    /\ tally.crashes < MaxCrashes /\ Spend("crashes")
    /\ Torn
    /\ manifest' = [d \in Runs |-> IF manifest[d].owner = "none" THEN NoManifest
                                   ELSE [manifest[d] EXCEPT !.owner = "dead"]]
    /\ freeze' = IF freeze = "none" THEN "none" ELSE "dead"
    /\ at' = Idle
    /\ UNCHANGED history

\* Somebody writes a test whose slot is empty: the item's writer after a kill, or
\* a test run while the files are away.
Refill(f) ==
    /\ MayRefill /\ "refilled" \notin written[f]
    /\ at.step \in {"idle", "scopes"} /\ home[f] = "none"
    /\ home' = [home EXCEPT ![f] = "refilled"]
    /\ written' = [written EXCEPT ![f] = @ \cup {"refilled"}]
    /\ UNCHANGED <<stored, manifest, freeze, at, reused, tally>>

-----------------------------------------------------------------------------
QuarantineInit ==
    /\ home = [f \in Files |-> "original"]
    /\ stored = [d \in Runs |-> [f \in Files |-> "none"]]
    /\ manifest = [d \in Runs |-> NoManifest]
    /\ freeze = "none"
    /\ at = Idle
    /\ reused = FALSE
    /\ written = [f \in Files |-> {"original"}]
    /\ tally = [verifies |-> 0, crashes |-> 0, faults |-> 0]

QuarantineNext ==
    \/ \E r \in Runs, exclude \in SUBSET Files : Verify(r, exclude)
    \/ \E d \in Runs : Heal(d)
    \/ \E f \in Files : MoveOut(f) \/ MoveFails(f) \/ RollBack(f) \/ Restore(f) \/ Refill(f)
    \/ WriteManifest \/ RolledBack \/ RollBackFails
    \/ SetMarker \/ Measured \/ Restored \/ RestoreFails
    \/ Crash

QuarantineSpec == QuarantineInit /\ [][QuarantineNext]_quarantineVars

-----------------------------------------------------------------------------
\* What a manifest still names can be found again.
Parked(f, v) == \E d \in Runs : stored[d][f] = v /\ f \in manifest[d].pending

\* No version of a test file is lost, wherever the process dies and whichever call
\* fails: it is in the repository, or parked under a manifest that names it.
NothingIsLost == \A f \in Files : \A v \in written[f] : home[f] = v \/ Parked(f, v)

\* Between two verifies a file is away only for a kill or a failed call to be
\* healed, or for a slot that was refilled meanwhile: no verify leaves the next
\* stage a tree without the tests of the others.
FilesAreHome ==
    at = Idle => \A f \in Files : home[f] = "none" => \E d \in Runs :
        /\ f \in manifest[d].pending
        /\ manifest[d].owner = "dead" \/ tally.faults > 0

\* A run that quarantines again while files are parked is the one exception: its
\* manifest and its moves replace what the directory held.
FilesSurviveVerifies == ~reused => NothingIsLost /\ FilesAreHome

\* "Preserve the quarantine dir so nothing is lost" (quarantine.ts:376): every
\* version of a test is still on the disk somewhere.
ConflictsAreKept == \A f \in Files : \A v \in written[f] :
    home[f] = v \/ \E d \in Runs : stored[d][f] = v
=============================================================================
