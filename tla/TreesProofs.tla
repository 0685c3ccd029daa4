------------------------------ MODULE TreesProofs -----------------------------
(***************************************************************************)
(* What becomes of the trees that processes share: proofs about Quarantine *)
(* (no verify and no kill loses a test file), Worktrees (no publication is *)
(* without its merge, and no commit is lost), WorkspaceLock (one writer at *)
(* a time, dead openers block nobody, racing ones are not all refused) and *)
(* Fanout (the sub-sessions of a wave: one model at a time, and an owner   *)
(* for each).                                                              *)
(***************************************************************************)
EXTENDS Quarantine, Worktrees, WorkspaceLock, Fanout, IntegerSets

-----------------------------------------------------------------------------
(* What every state satisfies, whatever a run does with its directory. *)

Contents == Versions \cup {"none", "torn"}
Dirs == Runs \cup {"none"}
StepNames == {"idle", "sweep", "heal", "move", "mark", "scopes", "restore", "rollback"}

Owners == {"none", "mine", "dead"}
Directories == [Runs -> [Files -> Contents]]
Manifests == [Runs -> [owner : Owners, pending : SUBSET Files]]
Positions == [step : StepNames, run : Dirs, dir : Dirs, files : SUBSET Files,
              left : SUBSET Files, conflicts : SUBSET Files, sweep : SUBSET Runs]

FileTypes ==
    /\ home \in [Files -> Contents]
    /\ stored \in Directories
    /\ manifest \in Manifests
    /\ at \in Positions
    /\ written \in [Files -> SUBSET Versions]
    /\ reused \in BOOLEAN
    /\ tally \in [verifies : Nat, crashes : Nat, faults : Nat]

\* Where runVerify stands says which run it verifies and which directory it uses.
Placed ==
    /\ at.step # "idle" => at.run \in Runs
    /\ at.step = "heal" => at.dir \in Runs
    /\ at.step \in {"move", "mark", "scopes", "restore", "rollback"} => at.dir = at.run

\* Every file was written once at least, a manifest that is not there names none, and
\* a restore handles entries of a manifest.
Grounded ==
    /\ \A f \in Files : "original" \in written[f]
    /\ \A d \in Runs : manifest[d].owner = "none" => manifest[d].pending = {}
    /\ Restoring => at.left \cup at.conflicts \subseteq manifest[at.dir].pending

-----------------------------------------------------------------------------
(* What holds until a run quarantines into a directory that still holds files. *)

\* A parked file is named by the manifest of its directory.
ParkedIsNamed ==
    \A d \in Runs, f \in Files : stored[d][f] # "none" => f \in manifest[d].pending

\* What moved is away and parked, what has not is not in the directory.
MovesAreRecorded ==
    at.step = "move" =>
        /\ at.left \subseteq at.files /\ manifest[at.run].pending = at.files
        /\ \A f \in at.files \ at.left : home[f] = "none" /\ stored[at.run][f] # "none"
        /\ \A f \in Files : f \in at.files \ at.left \/ stored[at.run][f] = "none"

\* While the scopes run, what was excluded is parked.
ExcludedIsParked ==
    at.step \in {"mark", "scopes"} /\ at.files # {} =>
        /\ manifest[at.run].pending = at.files
        /\ \A f \in at.files : stored[at.run][f] # "none"

\* A restore has handled what is not in `left`: only a conflict is still parked.
RestoresAreComplete ==
    at.step \in {"heal", "restore"} =>
        \A f \in Files : stored[at.dir][f] # "none" => f \in at.left \cup at.conflicts

\* What a rollback has yet to move back is away, and nothing else is parked.
RollbacksAreComplete ==
    at.step = "rollback" =>
        \A f \in Files :
            IF f \in at.left THEN home[f] = "none" /\ stored[at.run][f] # "none"
            ELSE stored[at.run][f] = "none"

\* The files this verify has taken away and will bring back.
TakenAway(f) ==
    \/ at.step = "move" /\ f \in at.files \ at.left
    \/ at.step \in {"mark", "scopes"} /\ f \in at.files
    \/ at.step \in {"restore", "rollback"} /\ f \in at.left /\ stored[at.run][f] # "none"

\* As long as no call fails, a file is away for this verify, or for one that a kill ended.
AwayForAReason ==
    tally.faults = 0 => \A f \in Files : home[f] = "none" =>
        \/ TakenAway(f)
        \/ \E d \in Runs : manifest[d].owner = "dead" /\ stored[d][f] # "none"

FilesSafe ==
    /\ NothingIsLost
    /\ ParkedIsNamed
    /\ MovesAreRecorded /\ ExcludedIsParked
    /\ RestoresAreComplete /\ RollbacksAreComplete
    /\ AwayForAReason

FilesInv == FileTypes /\ Placed /\ Grounded /\ (~reused => FilesSafe)

-----------------------------------------------------------------------------
LEMMA FilesInvInit == QuarantineInit => FilesInv
<1> SUFFICES ASSUME QuarantineInit PROVE FilesInv
    OBVIOUS
<1> USE DEF QuarantineInit
<1>1. FileTypes
    BY DEF FileTypes, Idle, NoManifest, Contents, Dirs, StepNames, Versions, Owners, Directories, Manifests, Positions
<1>2. at.step = "idle" /\ \A f \in Files : home[f] = "original" /\ written[f] = {"original"}
    BY DEF Idle
<1>3. Placed /\ Grounded
    BY <1>2 DEF Placed, Grounded, NoManifest, Restoring
<1>4. \A d \in Runs, f \in Files : stored[d][f] = "none"
    OBVIOUS
<1>5. NothingIsLost /\ ParkedIsNamed /\ AwayForAReason
    BY <1>2, <1>4 DEF NothingIsLost, ParkedIsNamed, AwayForAReason
<1>6. MovesAreRecorded /\ ExcludedIsParked /\ RestoresAreComplete /\ RollbacksAreComplete
    BY <1>2 DEF MovesAreRecorded, ExcludedIsParked, RestoresAreComplete, RollbacksAreComplete
<1> QED BY <1>1, <1>3, <1>5, <1>6 DEF FilesInv, FilesSafe

\* The directories with one slot changed or one directory emptied, the manifests with
\* one replaced.
Slotted(s, d, f, v) == [s EXCEPT ![d][f] = v]
Emptied(s, d) == [s EXCEPT ![d] = [f \in Files |-> "none"]]
Replaced(m, d, record) == [m EXCEPT ![d] = record]
Trimmed(m, d, pending) == [m EXCEPT ![d].pending = pending]
Entry(owner, pending) == [owner |-> owner, pending |-> pending]

LEMMA SlotChanged ==
    ASSUME NEW s \in Directories, NEW d \in Runs, NEW f \in Files, NEW v \in Contents
    PROVE  /\ Slotted(s, d, f, v) \in Directories
           /\ \A e \in Runs, g \in Files :
                 Slotted(s, d, f, v)[e][g] = IF e = d /\ g = f THEN v ELSE s[e][g]
<1>1. s[d] \in [Files -> Contents]
    BY DEF Directories
<1>2. PICK row \in [Files -> Contents] : row = [s[d] EXCEPT ![f] = v]
    BY <1>1
<1>3. Slotted(s, d, f, v) = [s EXCEPT ![d] = row]
    BY <1>2 DEF Directories, Slotted
<1> QED BY <1>1, <1>2, <1>3 DEF Directories

LEMMA DirectoryEmptied ==
    ASSUME NEW s \in Directories, NEW d \in Runs
    PROVE  /\ Emptied(s, d) \in Directories
           /\ \A e \in Runs, g \in Files : Emptied(s, d)[e][g] = IF e = d THEN "none" ELSE s[e][g]
<1>1. PICK row \in [Files -> Contents] : row = [f \in Files |-> "none"]
    BY DEF Contents
<1> QED BY <1>1 DEF Directories, Emptied

LEMMA ManifestReplaced ==
    ASSUME NEW m \in Manifests, NEW d \in Runs, NEW record \in [owner : Owners, pending : SUBSET Files]
    PROVE  /\ Replaced(m, d, record) \in Manifests
           /\ \A e \in Runs : Replaced(m, d, record)[e] = IF e = d THEN record ELSE m[e]
BY DEF Manifests, Replaced

LEMMA EntryIsTyped ==
    /\ \A owner \in Owners, pending \in SUBSET Files :
          /\ Entry(owner, pending) \in [owner : Owners, pending : SUBSET Files]
          /\ Entry(owner, pending).owner = owner
          /\ Entry(owner, pending).pending = pending
    /\ NoManifest \in [owner : Owners, pending : SUBSET Files]
    /\ NoManifest.owner = "none" /\ NoManifest.pending = {}
BY DEF Entry, NoManifest, Owners

LEMMA ManifestTrimmed ==
    ASSUME NEW m \in Manifests, NEW d \in Runs, NEW pending \in SUBSET Files
    PROVE  Trimmed(m, d, pending) = Replaced(m, d, Entry(m[d].owner, pending))
<1>1. m[d] \in [owner : Owners, pending : SUBSET Files]
    BY DEF Manifests
<1>2. [m[d] EXCEPT !.pending = pending] = Entry(m[d].owner, pending)
    BY <1>1 DEF Entry
<1> QED BY <1>2 DEF Manifests, Trimmed, Replaced
-----------------------------------------------------------------------------
(* What the steps do, file by file. *)

LEMMA Located ==
    ASSUME FileTypes, Placed, at.step \in {"move", "mark", "scopes", "restore", "rollback", "heal"}
    PROVE  at.dir \in Runs
BY DEF FileTypes, Placed, Positions

LEMMA MoveOutEffect ==
    ASSUME FileTypes, Placed, NEW f \in Files, MoveOut(f)
    PROVE  /\ at.dir \in Runs /\ at.dir = at.run /\ at.run \in Runs
           /\ at'.run = at.run /\ at'.dir = at.dir /\ at'.files = at.files
           /\ at'.left = at.left \ {f} /\ at'.step = IF at.left = {f} THEN "mark" ELSE "move"
           /\ stored' \in Directories
           /\ \A d \in Runs, g \in Files :
                 stored'[d][g] = IF d = at.dir /\ g = f THEN home[f] ELSE stored[d][g]
           /\ \A g \in Files : home'[g] = IF g = f THEN "none" ELSE home[g]
<1>1. at.dir \in Runs /\ at.dir = at.run
    BY Located DEF MoveOut, Placed
<1>2. home[f] \in Contents /\ stored \in Directories
    BY DEF FileTypes
<1>3. stored' = Slotted(stored, at.dir, f, home[f])
    BY DEF MoveOut, Slotted
<1>4. stored' \in Directories /\ \A d \in Runs, g \in Files :
        stored'[d][g] = IF d = at.dir /\ g = f THEN home[f] ELSE stored[d][g]
    BY <1>1, <1>2, <1>3, SlotChanged
<1> QED BY <1>1, <1>4 DEF MoveOut, FileTypes, Positions

LEMMA RollBackEffect ==
    ASSUME FileTypes, Placed, NEW f \in Files, RollBack(f)
    PROVE  /\ at.dir \in Runs /\ at.dir = at.run
           /\ at'.run = at.run /\ at'.dir = at.dir /\ at'.files = at.files
           /\ at'.left = at.left \ {f} /\ at'.step = "rollback"
           /\ stored' \in Directories
           /\ \A d \in Runs, g \in Files :
                 stored'[d][g] = IF d = at.dir /\ g = f THEN "none" ELSE stored[d][g]
           /\ \A g \in Files : home'[g] = IF g = f THEN stored[at.dir][f] ELSE home[g]
           /\ home' \in [Files -> Contents]
<1>1. at.dir \in Runs /\ at.dir = at.run
    BY Located DEF RollBack, Placed
<1>2. stored[at.dir][f] \in Contents /\ stored \in Directories /\ "none" \in Contents
    BY <1>1 DEF FileTypes, Directories, Contents
<1>3. stored' = Slotted(stored, at.dir, f, "none")
    BY DEF RollBack, Slotted
<1>4. stored' \in Directories /\ \A d \in Runs, g \in Files :
        stored'[d][g] = IF d = at.dir /\ g = f THEN "none" ELSE stored[d][g]
    BY <1>1, <1>2, <1>3, SlotChanged
<1> QED BY <1>1, <1>2, <1>4 DEF RollBack, FileTypes, Positions

LEMMA RestoreEffect ==
    ASSUME FileTypes, Placed, NEW f \in Files, Restore(f)
    PROVE  /\ at.dir \in Runs
           /\ at'.run = at.run /\ at'.dir = at.dir /\ at'.files = at.files
           /\ at'.left = at.left \ {f} /\ at'.step = at.step /\ at'.sweep = at.sweep
           /\ at'.conflicts = IF home[f] # "none" /\ stored[at.dir][f] # "none"
                              THEN at.conflicts \cup {f} ELSE at.conflicts
           /\ at'.conflicts \subseteq at.conflicts \cup {f}
           /\ stored' \in Directories
           /\ \A d \in Runs, g \in Files :
                 stored'[d][g] = IF home[f] = "none" /\ d = at.dir /\ g = f THEN "none" ELSE stored[d][g]
           /\ \A g \in Files : home'[g] = IF home[f] = "none" /\ g = f THEN stored[at.dir][f] ELSE home[g]
           /\ home' \in [Files -> Contents]
<1>1. at.dir \in Runs
    BY Located DEF Restore, Restoring
<1>2. stored[at.dir][f] \in Contents /\ stored \in Directories /\ "none" \in Contents
    BY <1>1 DEF FileTypes, Directories, Contents
<1>3. PICK c : /\ c = IF home[f] # "none" /\ stored[at.dir][f] # "none"
                      THEN at.conflicts \cup {f} ELSE at.conflicts
               /\ at' = [at EXCEPT !.left = @ \ {f}, !.conflicts = c]
    <2>1. CASE home[f] # "none" /\ stored[at.dir][f] # "none"
        BY <2>1 DEF Restore
    <2>2. CASE home[f] # "none" /\ stored[at.dir][f] = "none"
        <3>1. at' = [at EXCEPT !.left = @ \ {f}, !.conflicts = at.conflicts]
            BY <2>2 DEF Restore
        <3> QED BY <2>2, <3>1
    <2>3. CASE home[f] = "none"
        <3>1. at' = [at EXCEPT !.left = @ \ {f}]
            BY <2>3 DEF Restore
        <3>2. at' = [at EXCEPT !.left = @ \ {f}, !.conflicts = at.conflicts]
            BY <3>1 DEF FileTypes, Positions
        <3> QED BY <2>3, <3>2
    <2> QED BY <2>1, <2>2, <2>3
<1>4. stored' \in Directories /\ \A d \in Runs, g \in Files :
        stored'[d][g] = IF home[f] = "none" /\ d = at.dir /\ g = f THEN "none" ELSE stored[d][g]
    <2>1. CASE home[f] = "none"
        <3>1. stored' = Slotted(stored, at.dir, f, "none")
            BY <2>1 DEF Restore, Slotted
        <3> QED BY <1>1, <1>2, <2>1, <3>1, SlotChanged
    <2>2. CASE home[f] # "none"
        BY <1>2, <2>2 DEF Restore
    <2> QED BY <2>1, <2>2
<1>5. home' \in [Files -> Contents] /\ \A g \in Files :
        home'[g] = IF home[f] = "none" /\ g = f THEN stored[at.dir][f] ELSE home[g]
    <2>1. CASE home[f] = "none"
        BY <1>2, <2>1 DEF Restore, FileTypes
    <2>2. CASE home[f] # "none"
        BY <2>2 DEF Restore, FileTypes
    <2> QED BY <2>1, <2>2
<1>6. at \in Positions
    BY DEF FileTypes
<1>7. /\ at'.run = at.run /\ at'.dir = at.dir /\ at'.files = at.files /\ at'.sweep = at.sweep
      /\ at'.left = at.left \ {f} /\ at'.step = at.step /\ at'.conflicts = c
    BY <1>3, <1>6 DEF Positions
<1> QED BY <1>1, <1>3, <1>4, <1>5, <1>7

LEMMA MeasuredEffect ==
    ASSUME FileTypes, Placed, Measured
    PROVE  /\ at.files = {} => at'.step = "idle"
           /\ at.files # {} => /\ at'.step = "restore" /\ at'.run = at.run /\ at'.dir = at.run
                              /\ at'.left = manifest[at.run].pending /\ at'.conflicts = {}
                              /\ at'.files = at.files
<1>1. CASE at.files = {}
    BY <1>1 DEF Measured, Idle
<1>2. CASE at.files # {}
    <2>1. at' = [at EXCEPT !.step = "restore", !.left = manifest[at.run].pending, !.conflicts = {}]
        BY <1>2 DEF Measured
    <2>2. PICK left : left = manifest[at.run].pending
        OBVIOUS
    <2>3. at' = [at EXCEPT !.step = "restore", !.left = left, !.conflicts = {}]
        BY <2>1, <2>2
    <2>4. at.dir = at.run
        BY DEF Measured, Placed
    <2>5. at \in Positions
        BY DEF FileTypes
    <2> QED BY <1>2, <2>2, <2>3, <2>4, <2>5 DEF Positions
<1> QED BY <1>1, <1>2

LEMMA OnwardsEffect ==
    ASSUME FileTypes, Onwards
    PROVE  /\ at'.step \in {"idle", "sweep"}
           /\ at.step = "heal" => at'.step = "sweep" /\ at'.run = at.run
<1>1. CASE at.step = "heal"
    <2>1. at' = [at EXCEPT !.step = "sweep", !.left = {}]
        BY <1>1 DEF Onwards
    <2> QED BY <1>1, <2>1 DEF FileTypes, Positions
<1>2. CASE at.step # "heal"
    BY <1>2 DEF Onwards, Idle
<1> QED BY <1>1, <1>2

LEMMA RestoredEffect ==
    ASSUME FileTypes, Placed, Grounded, Restored
    PROVE  /\ at.dir \in Runs
           /\ at.conflicts = {} =>
                 /\ \A d \in Runs, g \in Files :
                       stored'[d][g] = IF d = at.dir THEN "none" ELSE stored[d][g]
                 /\ \A d \in Runs : manifest'[d] = IF d = at.dir THEN NoManifest ELSE manifest[d]
           /\ at.conflicts # {} =>
                 /\ stored' = stored
                 /\ manifest[at.dir].owner # "none"
                 /\ \A d \in Runs :
                       manifest'[d] = IF d = at.dir
                                      THEN Entry(manifest[at.dir].owner, at.conflicts)
                                      ELSE manifest[d]
           /\ stored' \in Directories /\ manifest' \in Manifests
<1>1. at.dir \in Runs /\ stored \in Directories /\ manifest \in Manifests
    BY Located DEF Restored, Restoring, FileTypes
<1>2. CASE at.conflicts = {}
    <2>1. stored' = Emptied(stored, at.dir) /\ manifest' = Replaced(manifest, at.dir, NoManifest)
        BY <1>2 DEF Restored, RemoveDirectory, Emptied, Replaced
    <2>2. /\ stored' \in Directories
          /\ \A d \in Runs, g \in Files : stored'[d][g] = IF d = at.dir THEN "none" ELSE stored[d][g]
        BY ONLY <1>1, <2>1, DirectoryEmptied
    <2>3. /\ manifest' \in Manifests
          /\ \A d \in Runs : manifest'[d] = IF d = at.dir THEN NoManifest ELSE manifest[d]
        BY ONLY <1>1, <2>1, ManifestReplaced, EntryIsTyped
    <2> QED BY ONLY <1>1, <1>2, <2>2, <2>3
<1>3. CASE at.conflicts # {}
    <2>1. at.conflicts \in SUBSET Files
        BY DEF FileTypes, Positions
    <2>2. PICK d \in Runs : d = at.dir
        BY <1>1
    <2>3. PICK c \in SUBSET Files : c = at.conflicts
        BY <2>1
    <2>4. PICK old \in Owners : old = manifest[d].owner
        BY <1>1 DEF Manifests
    <2>5. manifest' = Trimmed(manifest, at.dir, at.conflicts)
        BY <1>3 DEF Restored, Trimmed
    <2>6. manifest' = Replaced(manifest, d, Entry(old, c))
        BY <1>1, <2>2, <2>3, <2>4, <2>5, ManifestTrimmed
    <2>7. /\ manifest' \in Manifests
          /\ \A e \in Runs : manifest'[e] = IF e = d THEN Entry(old, c) ELSE manifest[e]
        BY <1>1, <2>4, <2>6, ManifestReplaced, EntryIsTyped
    <2>8. old # "none"
        BY <1>3, <2>2, <2>4 DEF Restored, Grounded
    <2> QED BY <1>1, <1>3, <2>2, <2>3, <2>4, <2>7, <2>8 DEF Restored
<1> QED BY <1>2, <1>3, <1>1

LEMMA WriteManifestEffect ==
    ASSUME FileTypes, Placed, WriteManifest
    PROVE  /\ at.run \in Runs /\ at.files \in SUBSET Files
           /\ at'.run = at.run /\ at'.dir = at.run /\ at'.files = at.files /\ at'.left = at.files
           /\ at'.step = IF at.files = {} THEN "mark" ELSE "move"
           /\ manifest' \in Manifests
           /\ \A d \in Runs : manifest'[d] = IF at.files # {} /\ d = at.run
                                            THEN Entry("mine", at.files) ELSE manifest[d]
<1>1. at.run \in Runs /\ at.files \in SUBSET Files /\ manifest \in Manifests /\ at \in Positions
    BY DEF WriteManifest, FileTypes, Placed, Positions
<1>2. at'.run = at.run /\ at'.dir = at.run /\ at'.files = at.files /\ at'.left = at.files
      /\ at'.step = IF at.files = {} THEN "mark" ELSE "move"
    <2>1. PICK step : step = IF at.files = {} THEN "mark" ELSE "move"
        OBVIOUS
    <2>2. at' = [at EXCEPT !.step = step, !.dir = at.run, !.left = at.files]
        BY <2>1 DEF WriteManifest
    <2> QED BY <1>1, <2>1, <2>2 DEF Positions
<1>3. CASE at.files = {}
    BY <1>1, <1>2, <1>3 DEF WriteManifest
<1>4. CASE at.files # {}
    <2>1. manifest' = Replaced(manifest, at.run, Entry("mine", at.files))
        BY <1>4 DEF WriteManifest, Replaced, Entry
    <2> QED BY <1>1, <1>2, <1>4, <2>1, ManifestReplaced, EntryIsTyped DEF Owners
<1> QED BY <1>3, <1>4

LEMMA RolledBackEffect ==
    ASSUME FileTypes, Placed, RolledBack
    PROVE  /\ at.dir \in Runs /\ at.dir = at.run
           /\ stored' \in Directories /\ manifest' \in Manifests
           /\ \A d \in Runs, g \in Files :
                 stored'[d][g] = IF d = at.dir THEN "none" ELSE stored[d][g]
           /\ \A d \in Runs : manifest'[d] = IF d = at.dir THEN NoManifest ELSE manifest[d]
<1>1. at.dir \in Runs /\ at.dir = at.run /\ stored \in Directories /\ manifest \in Manifests
    BY Located DEF RolledBack, FileTypes, Placed
<1>2. stored' = Emptied(stored, at.dir) /\ manifest' = Replaced(manifest, at.dir, NoManifest)
    BY DEF RolledBack, RemoveDirectory, Emptied, Replaced
<1> QED BY <1>1, <1>2, DirectoryEmptied, ManifestReplaced, EntryIsTyped

\* A kill tears at most one file, in a slot whose content is written elsewhere.
TornInDirectory(f) ==
    /\ at.step = "move" /\ home[f] # "none" /\ home' = home
    /\ \A d \in Runs, g \in Files :
          stored'[d][g] = IF d = at.dir /\ g = f THEN "torn" ELSE stored[d][g]

TornAtHome(f) ==
    /\ at.step \in {"heal", "restore", "rollback"}
    /\ at.step = "rollback" \/ (home[f] = "none" /\ stored[at.dir][f] # "none")
    /\ stored' = stored
    /\ \A g \in Files : home'[g] = IF g = f THEN "torn" ELSE home[g]

LEMMA CrashEffect ==
    ASSUME FileTypes, Placed, Crash
    PROVE  /\ home' \in [Files -> Contents] /\ stored' \in Directories
           /\ \/ UNCHANGED <<home, stored>>
              \/ \E f \in at.left : f \in Files /\ at.dir \in Runs /\ (TornInDirectory(f) \/ TornAtHome(f))
           /\ \A d \in Runs : manifest'[d] = IF manifest[d].owner = "none" THEN NoManifest
                                            ELSE Entry("dead", manifest[d].pending)
           /\ at'.step = "idle"
<1>0. at.left \in SUBSET Files /\ stored \in Directories /\ home \in [Files -> Contents]
      /\ "torn" \in Contents
    BY DEF FileTypes, Positions, Contents
<1>2. ASSUME NEW f \in at.left, at.step = "move", home[f] # "none", UNCHANGED home,
             stored' = [stored EXCEPT ![at.dir][f] = "torn"]
      PROVE  /\ at.dir \in Runs /\ f \in Files /\ stored' \in Directories /\ home' \in [Files -> Contents]
             /\ TornInDirectory(f)
    <2>1. stored' = Slotted(stored, at.dir, f, "torn")
        BY <1>2 DEF Slotted
    <2>2. at.dir \in Runs /\ f \in Files
        BY <1>0, <1>2, Located
    <2>3. PICK there \in Runs : there = at.dir
        BY <2>2
    <2>4. /\ Slotted(stored, there, f, "torn") \in Directories
          /\ \A d \in Runs, g \in Files :
                Slotted(stored, there, f, "torn")[d][g] =
                    IF d = there /\ g = f THEN "torn" ELSE stored[d][g]
        BY ONLY <1>0, <2>2, SlotChanged
    <2>5. stored' = Slotted(stored, there, f, "torn")
        BY <2>1, <2>3
    <2>6. stored' \in Directories
        BY ONLY <2>4, <2>5
    <2>7. \A d \in Runs, g \in Files :
              stored'[d][g] = IF d = at.dir /\ g = f THEN "torn" ELSE stored[d][g]
        BY ONLY <2>3, <2>4, <2>5
    <2>8. home' = home /\ at.step = "move" /\ home[f] # "none"
        BY <1>2
    <2>9. TornInDirectory(f)
        BY ONLY <2>7, <2>8 DEF TornInDirectory
    <2> QED BY ONLY <1>0, <2>2, <2>6, <2>8, <2>9
<1>3. ASSUME NEW f \in at.left, at.step \in {"heal", "restore", "rollback"}, UNCHANGED stored,
             at.step = "rollback" \/ (home[f] = "none" /\ stored[at.dir][f] # "none"),
             home' = [home EXCEPT ![f] = "torn"]
      PROVE  /\ at.dir \in Runs /\ f \in Files /\ stored' \in Directories /\ home' \in [Files -> Contents]
             /\ TornAtHome(f)
    BY <1>0, <1>3, Located DEF TornAtHome
<1>4. \A d \in Runs : manifest'[d] = IF manifest[d].owner = "none" THEN NoManifest
                                     ELSE Entry("dead", manifest[d].pending)
    <2>1. ASSUME NEW d \in Runs PROVE [manifest[d] EXCEPT !.owner = "dead"] = Entry("dead", manifest[d].pending)
        BY DEF FileTypes, Manifests, Entry
    <2> QED BY <2>1 DEF Crash
<1>5. at'.step = "idle"
    BY DEF Crash, Idle
<1> DEFINE TearsCopy(f) == /\ at.step = "move" /\ home[f] # "none" /\ UNCHANGED home
                           /\ stored' = [stored EXCEPT ![at.dir][f] = "torn"]
<1> DEFINE TearsTarget(f) == /\ at.step \in {"heal", "restore", "rollback"} /\ UNCHANGED stored
                             /\ at.step = "rollback" \/ (home[f] = "none" /\ stored[at.dir][f] # "none")
                             /\ home' = [home EXCEPT ![f] = "torn"]
<1>6. UNCHANGED <<home, stored>> \/ \E f \in at.left : TearsCopy(f) \/ TearsTarget(f)
    BY DEF Crash, Torn
<1>7. \A f \in at.left : TearsCopy(f) \/ TearsTarget(f) =>
          /\ f \in Files /\ at.dir \in Runs /\ (TornInDirectory(f) \/ TornAtHome(f))
          /\ home' \in [Files -> Contents] /\ stored' \in Directories
    BY <1>2, <1>3
<1> HIDE DEF TearsCopy, TearsTarget
<1> QED BY <1>0, <1>4, <1>5, <1>6, <1>7

LEMMA TypesStep ==
    ASSUME FileTypes, Placed, Grounded, [QuarantineNext]_quarantineVars
    PROVE  FileTypes'
<1> USE DEF FileTypes
<1>1. ASSUME NEW r \in Runs, NEW exclude \in SUBSET Files, Verify(r, exclude) PROVE FileTypes'
    <2>1. at' \in Positions
        BY <1>1 DEF Verify, Idle, Positions, Dirs, StepNames
    <2> QED BY <1>1, <2>1 DEF Verify, disk, history, Spend, Owners
<1>2. ASSUME NEW d \in Runs, Heal(d) PROVE FileTypes'
    <2>0. manifest[d].pending \subseteq Files
        BY DEF Manifests
    <2>1. at' \in Positions
        BY <1>2, <2>0 DEF Heal, Positions, Dirs, StepNames
    <2> QED BY <1>2, <2>1 DEF Heal, disk, history
<1>3. CASE WriteManifest
    <2>1. at' \in Positions
        BY <1>3 DEF WriteManifest, Positions, StepNames
    <2>2. at.run \in Runs /\ at.files \in SUBSET Files
        BY <1>3 DEF WriteManifest, Placed, Positions
    <2>3. manifest' \in Manifests
        BY <1>3, WriteManifestEffect
    <2>4. reused' \in BOOLEAN
        BY <1>3 DEF WriteManifest
    <2> QED BY <1>3, <2>1, <2>3, <2>4 DEF WriteManifest
<1>4. ASSUME NEW f \in Files, MoveOut(f) PROVE FileTypes'
    <2>1. at' \in Positions
        BY <1>4 DEF MoveOut, Positions, StepNames
    <2>2. stored' \in Directories
        BY <1>4, MoveOutEffect
    <2>3. home' \in [Files -> Contents]
        BY <1>4 DEF MoveOut, Contents
    <2> QED BY <1>4, <2>1, <2>2, <2>3 DEF MoveOut, history
<1>5. ASSUME NEW f \in Files, MoveFails(f) PROVE FileTypes'
    <2>1. at' \in Positions
        BY <1>5 DEF MoveFails, Positions, StepNames
    <2> QED BY <1>5, <2>1 DEF MoveFails, disk, history, Spend
<1>6. ASSUME NEW f \in Files, RollBack(f) PROVE FileTypes'
    <2>1. at' \in Positions
        BY <1>6 DEF RollBack, Positions, StepNames
    <2>2. stored' \in Directories /\ home' \in [Files -> Contents]
        BY <1>6, RollBackEffect
    <2> QED BY <1>6, <2>1, <2>2 DEF RollBack, history
<1>7. CASE RolledBack
    <2>1. at' \in Positions
        BY <1>7 DEF RolledBack, Idle, Positions, Dirs, StepNames
    <2>2. stored' \in Directories /\ manifest' \in Manifests
        BY <1>7, RolledBackEffect
    <2> QED BY <1>7, <2>1, <2>2 DEF RolledBack, history
<1>8. CASE RollBackFails
    <2>1. at' \in Positions
        BY <1>8 DEF RollBackFails, Idle, Positions, Dirs, StepNames
    <2> QED BY <1>8, <2>1 DEF RollBackFails, disk, history, Spend
<1>9. CASE SetMarker
    <2>1. at' \in Positions
        BY <1>9 DEF SetMarker, Positions, StepNames
    <2> QED BY <1>9, <2>1 DEF SetMarker, disk, history
<1>10. CASE Measured
    <2>1. at.run \in Runs
        BY <1>10 DEF Measured, Placed
    <2>2. manifest[at.run].pending \subseteq Files
        BY <2>1 DEF Manifests
    <2>3. at' \in Positions
        BY <1>10, <2>2 DEF Measured, Idle, Positions, Dirs, StepNames
    <2> QED BY <1>10, <2>3 DEF Measured, disk, history
<1>11. ASSUME NEW f \in Files, Restore(f) PROVE FileTypes'
    <2>0. PICK c \in SUBSET Files : at' = [at EXCEPT !.left = @ \ {f}, !.conflicts = c]
        <3>1. at.conflicts \cup {f} \in SUBSET Files /\ at.conflicts \in SUBSET Files
            BY DEF Positions
        <3>2. CASE home[f] # "none" /\ stored[at.dir][f] # "none"
            BY <1>11, <3>1, <3>2 DEF Restore
        <3>3. CASE ~(home[f] # "none" /\ stored[at.dir][f] # "none")
            <4>1. at' = [at EXCEPT !.left = @ \ {f}, !.conflicts = at.conflicts]
                BY <1>11, <3>3 DEF Restore, Positions
            <4> QED BY <3>1, <4>1
        <3> QED BY <3>2, <3>3
    <2>1. at' \in Positions
        BY <2>0 DEF Positions
    <2>2. stored' \in Directories /\ home' \in [Files -> Contents]
        BY <1>11, RestoreEffect
    <2> QED BY <1>11, <2>1, <2>2 DEF Restore, history
<1>12. CASE Restored
    <2>1. at' \in Positions
        BY <1>12 DEF Restored, Onwards, Idle, Positions, Dirs, StepNames
    <2>3. stored' \in Directories /\ manifest' \in Manifests
        BY <1>12, RestoredEffect
    <2> QED BY <1>12, <2>1, <2>3 DEF Restored, history
<1>13. CASE RestoreFails
    <2>1. at' \in Positions
        BY <1>13 DEF RestoreFails, Onwards, Idle, Positions, Dirs, StepNames
    <2> QED BY <1>13, <2>1 DEF RestoreFails, disk, history, Spend
<1>14. CASE Crash
    <2>1. at' \in Positions
        BY <1>14 DEF Crash, Idle, Positions, Dirs, StepNames
    <2>2. home' \in [Files -> Contents] /\ stored' \in Directories
        BY <1>14, CrashEffect
    <2>3. manifest' \in Manifests
        <3>1. ASSUME NEW d \in Runs PROVE manifest'[d] \in [owner : Owners, pending : SUBSET Files]
            BY <1>14 DEF Crash, Manifests, NoManifest, Owners
        <3> QED BY <1>14, <3>1 DEF Crash, Manifests
    <2> QED BY <1>14, <2>1, <2>2, <2>3 DEF Crash, history, Spend
<1>15. ASSUME NEW f \in Files, Refill(f) PROVE FileTypes'
    BY <1>15 DEF Refill, Contents, Versions
<1>16. CASE UNCHANGED quarantineVars
    BY <1>16 DEF quarantineVars
<1> QED
    BY <1>1, <1>2, <1>3, <1>4, <1>5, <1>6, <1>7, <1>8, <1>9, <1>10, <1>11, <1>12, <1>13, <1>14, <1>15, <1>16
    DEF QuarantineNext

LEMMA PlacesStep ==
    ASSUME FileTypes, Placed, [QuarantineNext]_quarantineVars
    PROVE  Placed'
<1> USE DEF FileTypes, Placed, Positions
<1>1. ASSUME NEW r \in Runs, NEW exclude \in SUBSET Files, Verify(r, exclude) PROVE Placed'
    BY <1>1 DEF Verify, Idle
<1>2. ASSUME NEW d \in Runs, Heal(d) PROVE Placed'
    BY <1>2 DEF Heal
<1>3. ASSUME NEW f \in Files, MoveOut(f) \/ MoveFails(f) \/ RollBack(f) \/ Restore(f) \/ Refill(f)
      PROVE  Placed'
    BY <1>3 DEF MoveOut, MoveFails, RollBack, Restore, Restoring, Refill
<1>4. CASE RolledBack \/ RollBackFails \/ Crash
    BY <1>4 DEF RolledBack, RollBackFails, Crash, Idle
<1>5. CASE WriteManifest
    <2>1. at.run \in Runs
        BY <1>5 DEF WriteManifest
    <2>2. at'.run = at.run /\ at'.dir = at.run
        BY <1>5 DEF WriteManifest
    <2>3. at'.step \in {"mark", "move"}
        BY <1>5 DEF WriteManifest
    <2> QED BY <2>1, <2>2, <2>3
<1>6. CASE SetMarker
    BY <1>6 DEF SetMarker
<1>7. CASE Measured
    <2>1. at.run \in Runs
        BY <1>7 DEF Measured
    <2>2. CASE at.files = {}
        BY <1>7, <2>2 DEF Measured, Idle
    <2>3. CASE at.files # {}
        <3>1. at' = [at EXCEPT !.step = "restore", !.left = manifest[at.run].pending, !.conflicts = {}]
            BY <1>7, <2>3 DEF Measured
        <3>2. PICK left : left = manifest[at.run].pending
            OBVIOUS
        <3>3. at' = [at EXCEPT !.step = "restore", !.left = left, !.conflicts = {}]
            BY <3>1, <3>2
        <3>4. at.dir = at.run
            BY <1>7 DEF Measured
        <3> QED BY <2>1, <3>3, <3>4
    <2> QED BY <2>2, <2>3
<1>8. CASE Restored \/ RestoreFails
    <2>1. CASE at.step = "heal"
        <3>1. at' = [at EXCEPT !.step = "sweep", !.left = {}]
            BY <1>8, <2>1 DEF Restored, RestoreFails, Onwards
        <3> QED BY <2>1, <3>1
    <2>2. CASE at.step # "heal"
        BY <1>8, <2>2 DEF Restored, RestoreFails, Onwards, Idle
    <2> QED BY <2>1, <2>2
<1>9. CASE UNCHANGED quarantineVars
    BY <1>9 DEF quarantineVars
<1> QED
    BY <1>1, <1>2, <1>3, <1>4, <1>5, <1>6, <1>7, <1>8, <1>9 DEF QuarantineNext

LEMMA GroundedStep ==
    ASSUME FileTypes, Placed, Grounded, [QuarantineNext]_quarantineVars
    PROVE  Grounded'
<1>1. \A f \in Files : written[f] \subseteq written'[f]
    <2>1. ASSUME NEW f \in Files, Refill(f) PROVE \A g \in Files : written[g] \subseteq written'[g]
        BY <2>1 DEF Refill, FileTypes
    <2>2. CASE UNCHANGED written
        BY <2>2
    <2> QED
        BY <2>1, <2>2 DEF QuarantineNext, quarantineVars, Verify, Heal, WriteManifest, MoveOut, MoveFails,
            RollBack, RolledBack, RollBackFails, SetMarker, Measured, Restore, Restored, RestoreFails, Crash, history
<1>2. \A d \in Runs : manifest'[d].owner = "none" => manifest'[d].pending = {}
    <2> USE DEF FileTypes
    <2>1. CASE UNCHANGED manifest
        BY <2>1 DEF Grounded
    <2>2. CASE WriteManifest
        BY <2>2, WriteManifestEffect, EntryIsTyped DEF Owners, Grounded
    <2>3. CASE RolledBack
        BY <2>3, RolledBackEffect, EntryIsTyped DEF Grounded
    <2>4. CASE Restored
        <3>1. at.conflicts \in SUBSET Files /\ \A d \in Runs : manifest[d].owner \in Owners
            BY <2>4 DEF Positions, Manifests
        <3> QED BY <2>4, <3>1, RestoredEffect, EntryIsTyped DEF Grounded
    <2>5. CASE Crash
        BY <2>5 DEF Crash, NoManifest, Manifests
    <2> QED
        BY <2>1, <2>2, <2>3, <2>4, <2>5 DEF QuarantineNext, quarantineVars, Verify, Heal, MoveOut, MoveFails,
            RollBack, RolledBack, RollBackFails, SetMarker, Measured, Restore, Restored, RestoreFails, Refill,
            disk, RemoveDirectory
<1>3. Restoring' => at'.left \cup at'.conflicts \subseteq manifest'[at'.dir].pending
    <2> USE DEF FileTypes
    <2>1. ASSUME NEW f \in Files, Restore(f) PROVE at'.left \cup at'.conflicts \subseteq manifest'[at'.dir].pending
        <3>1. at'.dir = at.dir /\ at'.left \subseteq at.left /\ at'.conflicts \subseteq at.conflicts \cup {f}
            BY <2>1, RestoreEffect
        <3>2. manifest' = manifest /\ f \in at.left /\ Restoring
            BY <2>1 DEF Restore
        <3> QED BY <3>1, <3>2 DEF Grounded
    <2>2. ASSUME NEW d \in Runs, Heal(d) PROVE at'.left \cup at'.conflicts \subseteq manifest'[at'.dir].pending
        <3>1. at'.dir = d /\ at'.left = manifest[d].pending /\ at'.conflicts = {}
            BY <2>2 DEF Heal, Positions
        <3> QED BY <2>2, <3>1 DEF Heal, disk
    <2>3. CASE Measured
        <3>1. at'.step # "idle" => at'.dir = at.run /\ at'.left = manifest[at.run].pending /\ at'.conflicts = {}
            BY <2>3, MeasuredEffect
        <3> QED BY <2>3, <3>1 DEF Measured, disk, Restoring
    <2>4. CASE ~ Restoring'
        BY <2>4
    <2>5. CASE UNCHANGED <<at, manifest>>
        BY <2>5 DEF Grounded, Restoring
    <2>6. ASSUME NEW f \in Files, Refill(f) PROVE UNCHANGED <<at, manifest>>
        BY <2>6 DEF Refill
    <2>7. ASSUME NEW r \in Runs, NEW exclude \in SUBSET Files, Verify(r, exclude) PROVE ~ Restoring'
        BY <2>7 DEF Verify, Idle, Restoring
    <2>8. ASSUME NEW f \in Files, MoveOut(f) \/ MoveFails(f) \/ RollBack(f) PROVE ~ Restoring'
        BY <2>8 DEF MoveOut, MoveFails, RollBack, Positions, Restoring
    <2>9. CASE WriteManifest
        <3>1. at'.step \in {"mark", "move"}
            BY <2>9 DEF WriteManifest, Positions
        <3> QED BY <3>1, <2>4 DEF Restoring
    <2>10. CASE RolledBack \/ RollBackFails \/ Crash \/ SetMarker
        BY <2>4, <2>10 DEF RolledBack, RollBackFails, Crash, SetMarker, Idle, Positions, Restoring
    <2>11. CASE Restored \/ RestoreFails
        BY <2>4, <2>11, OnwardsEffect DEF Restored, RestoreFails, Restoring
    <2> QED BY <2>1, <2>2, <2>3, <2>4, <2>5, <2>6, <2>7, <2>8, <2>9, <2>10, <2>11 DEF QuarantineNext, quarantineVars
<1> QED BY <1>1, <1>2, <1>3 DEF Grounded
-----------------------------------------------------------------------------
(* Nothing is lost: one lemma per step that moves a file or a manifest. *)

LEMMA MoveOutKeepsFilesSafe ==
    ASSUME FileTypes, Placed, Grounded, FilesSafe, NEW f \in Files, MoveOut(f)
    PROVE  FilesSafe'
<1> USE DEF FilesSafe
<1>1. /\ manifest' = manifest /\ written' = written /\ tally' = tally
      /\ at.step = "move" /\ f \in at.left /\ home[f] # "none"
    BY DEF MoveOut, history
<1>2. at.left \subseteq at.files /\ at.files \subseteq Files /\ at.left \subseteq Files
    BY <1>1 DEF MovesAreRecorded, FileTypes, Positions
<1>3. stored[at.run][f] = "none" /\ f \in manifest[at.run].pending
    BY <1>1, <1>2 DEF MovesAreRecorded
<1>4. NothingIsLost'
    <2>1. ASSUME NEW g \in Files, NEW v \in written[g], v # "none"
          PROVE  home'[g] = v \/ \E d \in Runs : stored'[d][g] = v /\ g \in manifest'[d].pending
        <3>1. CASE g = f /\ home[f] = v
            BY <1>1, <1>3, <3>1, MoveOutEffect
        <3>2. CASE home[g] = v /\ g # f
            BY <3>2, MoveOutEffect
        <3>3. CASE \E d \in Runs : stored[d][g] = v /\ g \in manifest[d].pending
            BY <1>1, <1>3, <2>1, <3>3, MoveOutEffect
        <3> QED BY <3>1, <3>2, <3>3 DEF NothingIsLost, Parked
    <2> QED BY <1>1, <2>1 DEF NothingIsLost, Parked, FileTypes, Versions
<1>5. ParkedIsNamed'
    BY <1>1, <1>3, MoveOutEffect DEF ParkedIsNamed
<1>6. MovesAreRecorded'
    BY <1>1, <1>2, MoveOutEffect DEF MovesAreRecorded
<1>7. ExcludedIsParked'
    <2>1. CASE at.left = {f}
        BY <1>1, <1>2, <2>1, MoveOutEffect DEF MovesAreRecorded, ExcludedIsParked
    <2>2. CASE at.left # {f}
        BY <2>2, MoveOutEffect DEF ExcludedIsParked
    <2> QED BY <2>1, <2>2
<1>8. RestoresAreComplete' /\ RollbacksAreComplete'
    BY MoveOutEffect DEF RestoresAreComplete, RollbacksAreComplete
<1>9. AwayForAReason'
    <2>1. ASSUME NEW g \in Files, TakenAway(g) PROVE TakenAway(g)'
        BY <1>1, <1>2, <2>1, MoveOutEffect DEF TakenAway
    <2>2. TakenAway(f)'
        BY <1>1, <1>2, MoveOutEffect DEF TakenAway
    <2>3. ASSUME NEW g \in Files, NEW d \in Runs, stored[d][g] # "none" PROVE stored'[d][g] # "none"
        BY <1>1, <2>3, MoveOutEffect
    <2> QED BY <1>1, <2>1, <2>2, <2>3, MoveOutEffect DEF AwayForAReason
<1> QED BY <1>4, <1>5, <1>6, <1>7, <1>8, <1>9

\* A step that goes from one place to another and touches neither files nor manifests.
LEMMA MoveFailsKeepsFilesSafe ==
    ASSUME FileTypes, Placed, Grounded, FilesSafe, NEW f \in Files, MoveFails(f)
    PROVE  FilesSafe'
<1> USE DEF FilesSafe
<1>1. /\ UNCHANGED <<home, stored, manifest, written>>
      /\ at.step = "move" /\ f \in at.left
      /\ tally'.faults = 0 => tally' = tally /\ home[f] = "none"
    BY DEF MoveFails, disk, history, Spend, FileTypes
<1>2. /\ at'.step = "rollback" /\ at'.left = at.files \ at.left /\ at'.run = at.run
      /\ at.files \subseteq Files /\ at.left \subseteq at.files
    BY <1>1 DEF MoveFails, FileTypes, Positions, MovesAreRecorded
<1>3. NothingIsLost' /\ ParkedIsNamed'
    BY <1>1 DEF NothingIsLost, Parked, ParkedIsNamed
<1>4. MovesAreRecorded' /\ ExcludedIsParked' /\ RestoresAreComplete'
    BY <1>2 DEF MovesAreRecorded, ExcludedIsParked, RestoresAreComplete
<1>5. RollbacksAreComplete'
    BY <1>1, <1>2 DEF RollbacksAreComplete, MovesAreRecorded
<1>6. AwayForAReason'
    <2>1. ASSUME NEW g \in Files, TakenAway(g) PROVE TakenAway(g)'
        BY <1>1, <1>2, <2>1 DEF TakenAway, MovesAreRecorded
    <2> QED BY <1>1, <2>1 DEF AwayForAReason
<1> QED BY <1>3, <1>4, <1>5, <1>6

LEMMA RollBackKeepsFilesSafe ==
    ASSUME FileTypes, Placed, Grounded, FilesSafe, NEW f \in Files, RollBack(f)
    PROVE  FilesSafe'
<1> USE DEF FilesSafe
<1>1. /\ manifest' = manifest /\ written' = written /\ tally' = tally
      /\ at.step = "rollback" /\ f \in at.left
    BY DEF RollBack, history
<1>2. home[f] = "none" /\ stored[at.run][f] # "none"
    BY <1>1 DEF RollbacksAreComplete
<1>3. NothingIsLost'
    <2>1. ASSUME NEW g \in Files, NEW v \in written[g], v # "none"
          PROVE  home'[g] = v \/ \E d \in Runs : stored'[d][g] = v /\ g \in manifest'[d].pending
        <3>1. CASE home[g] = v
            BY <1>2, <2>1, <3>1, RollBackEffect
        <3>2. CASE \E d \in Runs : stored[d][g] = v /\ g \in manifest[d].pending
            BY <1>1, <3>2, RollBackEffect
        <3> QED BY <3>1, <3>2 DEF NothingIsLost, Parked
    <2> QED BY <1>1, <2>1 DEF NothingIsLost, Parked, FileTypes, Versions
<1>4. ParkedIsNamed'
    BY <1>1, RollBackEffect DEF ParkedIsNamed
<1>5. MovesAreRecorded' /\ ExcludedIsParked' /\ RestoresAreComplete'
    BY RollBackEffect DEF MovesAreRecorded, ExcludedIsParked, RestoresAreComplete
<1>6. RollbacksAreComplete'
    BY <1>1, RollBackEffect DEF RollbacksAreComplete
<1>7. AwayForAReason'
    <2>1. ASSUME NEW g \in Files, home'[g] = "none" PROVE home[g] = "none" /\ g # f
        BY <1>2, <2>1, RollBackEffect
    <2>2. ASSUME NEW g \in Files, TakenAway(g), g # f PROVE TakenAway(g)'
        BY <1>1, <2>2, RollBackEffect DEF TakenAway
    <2>3. ASSUME NEW g \in Files, g # f, NEW d \in Runs PROVE stored'[d][g] = stored[d][g]
        BY <2>3, RollBackEffect
    <2> QED BY <1>1, <2>1, <2>2, <2>3 DEF AwayForAReason
<1> QED BY <1>3, <1>4, <1>5, <1>6, <1>7

LEMMA RestoreKeepsFilesSafe ==
    ASSUME FileTypes, Placed, Grounded, FilesSafe, NEW f \in Files, Restore(f)
    PROVE  FilesSafe'
<1> USE DEF FilesSafe
<1>1. /\ manifest' = manifest /\ written' = written /\ tally' = tally
      /\ at.step \in {"heal", "restore"} /\ f \in at.left
    BY DEF Restore, Restoring, history
<1>2. /\ at.dir \in Runs /\ at'.run = at.run /\ at'.dir = at.dir /\ at'.step = at.step
      /\ at'.left = at.left \ {f} /\ at.conflicts \subseteq at'.conflicts
      /\ home[f] # "none" /\ stored[at.dir][f] # "none" => f \in at'.conflicts
    <2>1. /\ at.dir \in Runs /\ at'.run = at.run /\ at'.dir = at.dir /\ at'.step = at.step
          /\ at'.left = at.left \ {f}
        BY RestoreEffect
    <2>2. at'.conflicts = IF home[f] # "none" /\ stored[at.dir][f] # "none"
                          THEN at.conflicts \cup {f} ELSE at.conflicts
        BY RestoreEffect
    <2>3. CASE home[f] # "none" /\ stored[at.dir][f] # "none"
        <3>1. at'.conflicts = at.conflicts \cup {f}
            BY ONLY <2>2, <2>3
        <3> QED BY ONLY <2>1, <3>1
    <2>4. CASE ~(home[f] # "none" /\ stored[at.dir][f] # "none")
        <3>1. at'.conflicts = at.conflicts
            BY ONLY <2>2, <2>4
        <3> QED BY ONLY <2>1, <2>4, <3>1
    <2> QED BY ONLY <2>3, <2>4
<1>3. \A d \in Runs, g \in Files :
        stored'[d][g] = IF home[f] = "none" /\ d = at.dir /\ g = f THEN "none" ELSE stored[d][g]
    BY RestoreEffect
<1>4. \A g \in Files : home'[g] = IF home[f] = "none" /\ g = f THEN stored[at.dir][f] ELSE home[g]
    BY RestoreEffect
<1>5. NothingIsLost'
    <2>1. ASSUME NEW g \in Files, NEW v \in written[g], v # "none"
          PROVE  home'[g] = v \/ \E d \in Runs : stored'[d][g] = v /\ g \in manifest'[d].pending
        <3>1. CASE home[g] = v
            BY <2>1, <3>1, <1>2, <1>3, <1>4
        <3>2. CASE \E d \in Runs : stored[d][g] = v /\ g \in manifest[d].pending
            BY <1>1, <3>2, <1>2, <1>3, <1>4
        <3> QED BY <3>1, <3>2 DEF NothingIsLost, Parked
    <2> QED BY <1>1, <2>1 DEF NothingIsLost, Parked, FileTypes, Versions
<1>6. ParkedIsNamed'
    BY <1>1, <1>2, <1>3, <1>4 DEF ParkedIsNamed
<1>7. MovesAreRecorded' /\ ExcludedIsParked' /\ RollbacksAreComplete'
    BY <1>1, <1>2, <1>3, <1>4 DEF MovesAreRecorded, ExcludedIsParked, RollbacksAreComplete
<1>8. RestoresAreComplete'
    <2>1. ASSUME NEW g \in Files, stored'[at.dir][g] # "none" PROVE g \in at'.left \cup at'.conflicts
        <3>1. stored[at.dir][g] # "none" /\ (g = f => home[f] # "none")
            BY <2>1, <1>2, <1>3, <1>4
        <3>2. g \in at.left \cup at.conflicts
            BY <1>1, <3>1 DEF RestoresAreComplete
        <3> QED BY <3>1, <3>2, <1>2, <1>3, <1>4
    <2> QED BY <2>1, <1>2, <1>3, <1>4 DEF RestoresAreComplete
<1>9. AwayForAReason'
    <2>1. ASSUME NEW g \in Files, home'[g] = "none"
          PROVE  home[g] = "none" /\ (g = f => stored[at.dir][f] = "none")
        BY <2>1, <1>2, <1>3, <1>4
    <2>2. ASSUME NEW g \in Files, home'[g] = "none", TakenAway(g) PROVE TakenAway(g)'
        BY <1>1, <2>1, <2>2, <1>2, <1>3, <1>4 DEF TakenAway, Placed
    <2>3. ASSUME NEW g \in Files, home'[g] = "none", NEW d \in Runs, stored[d][g] # "none"
          PROVE  stored'[d][g] # "none"
        BY <2>1, <2>3, <1>2, <1>3, <1>4
    <2> QED BY <1>1, <2>1, <2>2, <2>3 DEF AwayForAReason
<1> QED BY <1>5, <1>6, <1>7, <1>8, <1>9

\* Between two directories, and between two verifies, nothing is under way.
Resting == at'.step \in {"idle", "sweep"}

LEMMA RestHasNoDuties ==
    ASSUME Resting
    PROVE  MovesAreRecorded' /\ ExcludedIsParked' /\ RestoresAreComplete' /\ RollbacksAreComplete'
BY DEF Resting, MovesAreRecorded, ExcludedIsParked, RestoresAreComplete, RollbacksAreComplete

LEMMA RestoredKeepsFilesSafe ==
    ASSUME FileTypes, Placed, Grounded, FilesSafe, Restored
    PROVE  FilesSafe'
<1> USE DEF FilesSafe
<1>1. /\ home' = home /\ written' = written /\ tally' = tally /\ Resting
      /\ at.step \in {"heal", "restore"} /\ at.left = {}
    BY OnwardsEffect DEF Restored, Restoring, Resting, history
<1>2. \A g \in Files : stored[at.dir][g] # "none" => g \in at.conflicts
    BY <1>1 DEF RestoresAreComplete
<1>3. \A g \in Files : ~ TakenAway(g)
    BY <1>1 DEF TakenAway
<1>4. at.conflicts \subseteq Files
    BY DEF FileTypes, Positions
<1>5. CASE at.conflicts = {}
    <2>1. stored' = stored /\ \A d \in Runs : manifest'[d] = IF d = at.dir THEN NoManifest ELSE manifest[d]
        <3>1. \A d \in Runs, g \in Files : stored'[d][g] = stored[d][g]
            BY <1>2, <1>5, RestoredEffect
        <3>2. stored \in Directories /\ stored' \in Directories
            BY RestoredEffect DEF FileTypes
        <3>3. \A d \in Runs : stored'[d] = stored[d]
            BY <3>1, <3>2 DEF Directories
        <3> QED BY <1>5, <3>2, <3>3, RestoredEffect DEF Directories
    <2>2. \A g \in Files : stored[at.dir][g] = "none"
        BY <1>2, <1>5
    <2>3. NothingIsLost'
        <3>1. ASSUME NEW g \in Files, NEW v \in written[g], v # "none"
              PROVE  home'[g] = v \/ \E d \in Runs : stored'[d][g] = v /\ g \in manifest'[d].pending
            BY <1>1, <2>1, <2>2, <3>1 DEF NothingIsLost, Parked
        <3> QED BY <1>1, <3>1 DEF NothingIsLost, Parked, FileTypes, Versions
    <2>4. ParkedIsNamed'
        BY <2>1, <2>2 DEF ParkedIsNamed
    <2>5. AwayForAReason'
        BY <1>1, <1>3, <2>1, <2>2 DEF AwayForAReason
    <2> QED BY <1>1, <2>3, <2>4, <2>5, RestHasNoDuties
<1>6. CASE at.conflicts # {}
    <2>1. /\ stored' = stored
          /\ \A d \in Runs : /\ d # at.dir => manifest'[d] = manifest[d]
                             /\ manifest'[d].owner = manifest[d].owner
          /\ at.dir \in Runs /\ manifest'[at.dir].pending = at.conflicts
        <3>1. \A d \in Runs : manifest[d].owner \in Owners
            BY DEF FileTypes, Manifests
        <3> QED BY <1>4, <1>6, <3>1, RestoredEffect, EntryIsTyped
    <2>2. NothingIsLost'
        BY <1>1, <1>2, <2>1 DEF NothingIsLost, Parked, FileTypes, Versions
    <2>3. ParkedIsNamed'
        BY <1>2, <2>1 DEF ParkedIsNamed
    <2>4. AwayForAReason'
        BY <1>1, <1>3, <2>1 DEF AwayForAReason
    <2> QED BY <1>1, <2>2, <2>3, <2>4, RestHasNoDuties
<1> QED BY <1>5, <1>6

LEMMA RolledBackKeepsFilesSafe ==
    ASSUME FileTypes, Placed, Grounded, FilesSafe, RolledBack
    PROVE  FilesSafe'
<1> USE DEF FilesSafe
<1>1. /\ home' = home /\ written' = written /\ tally' = tally /\ Resting
      /\ at.step = "rollback" /\ at.left = {}
    BY DEF RolledBack, Resting, Idle, history
<1>2. \A g \in Files : stored[at.dir][g] = "none"
    BY <1>1, RolledBackEffect DEF RollbacksAreComplete
<1>3. \A g \in Files : ~ TakenAway(g)
    BY <1>1 DEF TakenAway
<1>4. \A d \in Runs, g \in Files : stored'[d][g] = stored[d][g]
    BY <1>2, RolledBackEffect
<1>5. \A d \in Runs : d # at.dir => manifest'[d] = manifest[d]
    BY RolledBackEffect
<1>6. NothingIsLost'
    <2>1. ASSUME NEW g \in Files, NEW v \in written[g], v # "none"
          PROVE  home'[g] = v \/ \E d \in Runs : stored'[d][g] = v /\ g \in manifest'[d].pending
        BY <1>1, <1>2, <1>4, <1>5, <2>1 DEF NothingIsLost, Parked
    <2> QED BY <1>1, <2>1 DEF NothingIsLost, Parked, FileTypes, Versions
<1>7. ParkedIsNamed'
    BY <1>2, <1>4, <1>5 DEF ParkedIsNamed
<1>8. AwayForAReason'
    BY <1>1, <1>2, <1>3, <1>4, <1>5 DEF AwayForAReason
<1> QED BY <1>1, <1>6, <1>7, <1>8, RestHasNoDuties

\* The manifest of a new quarantine replaces one that names no parked file.
LEMMA WriteManifestKeepsFilesSafe ==
    ASSUME FileTypes, Placed, Grounded, FilesSafe, WriteManifest, ~ reused'
    PROVE  FilesSafe'
<1> USE DEF FilesSafe
<1>1. UNCHANGED <<home, stored, written, tally>> /\ at.step = "sweep"
    BY DEF WriteManifest
<1>2. at.files # {} => \A f \in Files : stored[at.run][f] = "none"
    BY DEF WriteManifest
<1>3. \A g \in Files : ~ TakenAway(g)
    BY <1>1 DEF TakenAway
<1>4. \A d \in Runs : manifest'[d] = manifest[d] \/ \A f \in Files : stored[d][f] = "none"
    BY <1>2, WriteManifestEffect
<1>5. NothingIsLost'
    <2>1. ASSUME NEW g \in Files, NEW v \in written[g], v # "none"
          PROVE  home'[g] = v \/ \E d \in Runs : stored'[d][g] = v /\ g \in manifest'[d].pending
        BY <1>1, <1>4, <2>1 DEF NothingIsLost, Parked
    <2> QED BY <1>1, <2>1 DEF NothingIsLost, Parked, FileTypes, Versions
<1>6. ParkedIsNamed'
    BY <1>1, <1>4 DEF ParkedIsNamed
<1>7. AwayForAReason'
    BY <1>1, <1>3, <1>4 DEF AwayForAReason
<1>8. MovesAreRecorded' /\ ExcludedIsParked'
    <2>1. at.files # {} => manifest'[at.run].pending = at.files
        BY WriteManifestEffect, EntryIsTyped DEF Owners
    <2> QED BY <1>1, <1>2, <2>1, WriteManifestEffect DEF MovesAreRecorded, ExcludedIsParked
<1>9. RestoresAreComplete' /\ RollbacksAreComplete'
    BY WriteManifestEffect DEF RestoresAreComplete, RollbacksAreComplete
<1> QED BY <1>5, <1>6, <1>7, <1>8, <1>9

\* A kill tears a copy whose source is whole, and the manifest it leaves is a dead
\* process's: the next verify heals it.
LEMMA CrashKeepsFilesSafe ==
    ASSUME FileTypes, Placed, Grounded, FilesSafe, Crash
    PROVE  FilesSafe'
<1> USE DEF FilesSafe
<1>1. written' = written /\ Resting /\ (tally'.faults = 0 => tally.faults = 0)
    BY CrashEffect DEF Crash, history, Resting, Spend, FileTypes
<1>2. \A d \in Runs : /\ manifest'[d].pending = manifest[d].pending
                      /\ manifest'[d].owner = IF manifest[d].owner = "none" THEN "none" ELSE "dead"
    <2>1. \A d \in Runs : manifest[d].pending \in SUBSET Files
        BY DEF FileTypes, Manifests
    <2>2. "dead" \in Owners
        BY DEF Owners
    <2>3. ASSUME NEW d \in Runs
          PROVE  /\ manifest'[d].pending = manifest[d].pending
                 /\ manifest'[d].owner = IF manifest[d].owner = "none" THEN "none" ELSE "dead"
        <3>1. CASE manifest[d].owner = "none"
            <4>1. manifest'[d] = NoManifest
                BY <3>1, CrashEffect
            <4> QED BY <3>1, <4>1, EntryIsTyped DEF Grounded
        <3>2. CASE manifest[d].owner # "none"
            <4>1. manifest'[d] = Entry("dead", manifest[d].pending)
                BY <3>2, CrashEffect
            <4> QED BY <2>1, <2>2, <3>2, <4>1, EntryIsTyped
        <3> QED BY <3>1, <3>2
    <2> QED BY <2>3
<1>3. \A d \in Runs, g \in Files :
        \/ stored'[d][g] = stored[d][g]
        \/ stored[d][g] = "none" /\ stored'[d][g] = "torn" /\ g \in manifest[d].pending
    <2>1. ASSUME NEW f \in at.left, f \in Files, at.dir \in Runs, TornInDirectory(f)
          PROVE  stored[at.dir][f] = "none" /\ f \in manifest[at.dir].pending
        BY <2>1 DEF TornInDirectory, MovesAreRecorded, Placed
    <2> QED BY <2>1, CrashEffect DEF TornInDirectory, TornAtHome
<1>4. \A g \in Files : home'[g] = home[g] \/ (home[g] = "none" /\ home'[g] = "torn")
    <2>1. ASSUME NEW f \in at.left, f \in Files, TornAtHome(f) PROVE home[f] = "none"
        BY <2>1 DEF TornAtHome, RollbacksAreComplete
    <2> QED BY <2>1, CrashEffect DEF TornInDirectory, TornAtHome
<1>5. NothingIsLost'
    <2>1. ASSUME NEW g \in Files, NEW v \in written[g], v # "none"
          PROVE  home'[g] = v \/ \E d \in Runs : stored'[d][g] = v /\ g \in manifest'[d].pending
        BY <1>2, <1>3, <1>4, <2>1 DEF NothingIsLost, Parked
    <2> QED BY <1>1, <2>1 DEF NothingIsLost, Parked, FileTypes, Versions
<1>6. ParkedIsNamed'
    BY <1>2, <1>3 DEF ParkedIsNamed
<1>7. AwayForAReason'
    <2>1. ASSUME NEW g \in Files, TakenAway(g) PROVE \E d \in Runs : stored[d][g] # "none"
        BY <2>1 DEF TakenAway, Placed, MovesAreRecorded, ExcludedIsParked
    <2>2. ASSUME NEW g \in Files, NEW d \in Runs, stored[d][g] # "none"
          PROVE  manifest'[d].owner = "dead" /\ stored'[d][g] # "none"
        <3>1. g \in manifest[d].pending
            BY <2>2 DEF ParkedIsNamed
        <3>2. manifest[d].owner # "none"
            BY <3>1 DEF Grounded
        <3> QED BY <1>2, <1>3, <2>2, <3>2
    <2> QED BY <1>1, <1>4, <2>1, <2>2 DEF AwayForAReason
<1> QED BY <1>1, <1>5, <1>6, <1>7, RestHasNoDuties

\* The steps that touch neither a file nor a manifest.
LEMMA TheRestKeepsFilesSafe ==
    ASSUME FileTypes, Placed, Grounded, FilesSafe, UNCHANGED <<home, stored, manifest, written>>,
           \/ \E r \in Runs, exclude \in SUBSET Files : Verify(r, exclude)
           \/ \E d \in Runs : Heal(d)
           \/ RollBackFails \/ SetMarker \/ Measured \/ RestoreFails
    PROVE  FilesSafe'
<1> USE DEF FilesSafe
<1>1. NothingIsLost' /\ ParkedIsNamed'
    BY DEF NothingIsLost, Parked, ParkedIsNamed
<1>2. CASE \E r \in Runs, exclude \in SUBSET Files : Verify(r, exclude)
    <2>1. Resting /\ (tally'.faults = 0 => tally.faults = 0) /\ at.step = "idle"
        <3>1. PICK r \in Runs, exclude \in SUBSET Files : Verify(r, exclude)
            BY <1>2
        <3>2. at.step = "idle" /\ Resting
            BY <3>1 DEF Verify, Idle, Resting
        <3>3. tally'.faults = tally.faults
            BY <3>1 DEF Verify, Spend, FileTypes
        <3> QED BY <3>2, <3>3
    <2>2. AwayForAReason'
        BY <2>1 DEF AwayForAReason, TakenAway
    <2> QED BY <1>1, <2>1, <2>2, RestHasNoDuties
<1>3. CASE \E d \in Runs : Heal(d)
    <2>1. PICK d \in Runs : Heal(d)
        BY <1>3
    <2>2. at.step = "sweep" /\ at'.step = "heal" /\ at'.dir = d /\ at'.left = manifest[d].pending /\ tally' = tally
        BY <2>1 DEF Heal, FileTypes, Positions
    <2>3. RestoresAreComplete'
        BY <2>2 DEF RestoresAreComplete, ParkedIsNamed
    <2>4. MovesAreRecorded' /\ ExcludedIsParked' /\ RollbacksAreComplete'
        BY <2>2 DEF MovesAreRecorded, ExcludedIsParked, RollbacksAreComplete
    <2>5. AwayForAReason'
        BY <2>2 DEF AwayForAReason, TakenAway
    <2> QED BY <1>1, <2>3, <2>4, <2>5
<1>4. CASE RollBackFails \/ RestoreFails
    <2>1. Resting /\ tally'.faults # 0
        BY <1>4, OnwardsEffect DEF RollBackFails, RestoreFails, Idle, Resting, Spend, FileTypes
    <2>2. AwayForAReason'
        BY <2>1 DEF AwayForAReason
    <2> QED BY <1>1, <2>1, <2>2, RestHasNoDuties
<1>5. CASE SetMarker
    <2>1. /\ at.step = "mark" /\ at'.step = "scopes" /\ at'.run = at.run /\ at'.files = at.files
          /\ tally' = tally
        BY <1>5 DEF SetMarker, FileTypes, Positions
    <2>2. MovesAreRecorded' /\ ExcludedIsParked' /\ RestoresAreComplete' /\ RollbacksAreComplete'
        BY <2>1 DEF MovesAreRecorded, ExcludedIsParked, RestoresAreComplete, RollbacksAreComplete
    <2>3. AwayForAReason'
        BY <2>1 DEF AwayForAReason, TakenAway
    <2> QED BY <1>1, <2>2, <2>3
<1>6. CASE Measured
    <2>1. at.step = "scopes" /\ tally' = tally /\ at.run \in Runs
        BY <1>6 DEF Measured, Placed
    <2>2. CASE at.files = {}
        <3>1. Resting
            BY <1>6, <2>2, MeasuredEffect DEF Resting
        <3>2. AwayForAReason'
            BY <2>1, <2>2 DEF AwayForAReason, TakenAway
        <3> QED BY <1>1, <3>1, <3>2, RestHasNoDuties
    <2>3. CASE at.files # {}
        <3>1. /\ at'.step = "restore" /\ at'.dir = at.run /\ at'.run = at.run
              /\ at'.left = manifest[at.run].pending
            BY <1>6, <2>3, MeasuredEffect
        <3>2. RestoresAreComplete'
            BY <2>1, <3>1 DEF RestoresAreComplete, ParkedIsNamed
        <3>3. MovesAreRecorded' /\ ExcludedIsParked' /\ RollbacksAreComplete'
            BY <3>1 DEF MovesAreRecorded, ExcludedIsParked, RollbacksAreComplete
        <3>4. ASSUME NEW g \in Files, TakenAway(g) PROVE TakenAway(g)'
            BY <2>1, <2>3, <3>1, <3>4 DEF TakenAway, ExcludedIsParked
        <3>5. AwayForAReason'
            BY <2>1, <3>4 DEF AwayForAReason
        <3> QED BY <1>1, <3>2, <3>3, <3>5
    <2> QED BY <2>2, <2>3
<1> QED BY <1>2, <1>3, <1>4, <1>5, <1>6

LEMMA RefillKeepsFilesSafe ==
    ASSUME FileTypes, Placed, Grounded, FilesSafe, NEW f \in Files, Refill(f)
    PROVE  FilesSafe'
<1> USE DEF FilesSafe
<1>1. /\ UNCHANGED <<stored, manifest, at, tally>> /\ at.step \in {"idle", "scopes"} /\ home[f] = "none"
      /\ \A g \in Files : home'[g] = IF g = f THEN "refilled" ELSE home[g]
      /\ \A g \in Files : written'[g] = IF g = f THEN written[f] \cup {"refilled"} ELSE written[g]
    BY DEF Refill, FileTypes
<1>2. NothingIsLost'
    BY <1>1 DEF NothingIsLost, Parked, FileTypes, Versions
<1>3. ParkedIsNamed' /\ ExcludedIsParked'
    BY <1>1 DEF ParkedIsNamed, ExcludedIsParked
<1>4. MovesAreRecorded' /\ RestoresAreComplete' /\ RollbacksAreComplete'
    BY <1>1 DEF MovesAreRecorded, RestoresAreComplete, RollbacksAreComplete
<1>5. AwayForAReason'
    BY <1>1 DEF AwayForAReason, TakenAway
<1> QED BY <1>2, <1>3, <1>4, <1>5

-----------------------------------------------------------------------------
LEMMA FilesInvStep == FilesInv /\ [QuarantineNext]_quarantineVars => FilesInv'
<1> SUFFICES ASSUME FilesInv, [QuarantineNext]_quarantineVars PROVE FilesInv'
    OBVIOUS
<1> USE DEF FilesInv
<1>1. FileTypes' /\ Placed' /\ Grounded'
    BY TypesStep, PlacesStep, GroundedStep
<1>2. ASSUME ~ reused' PROVE FilesSafe'
    <2>1. ~ reused
        BY <1>2 DEF QuarantineNext, quarantineVars, Verify, Heal, WriteManifest, MoveOut, MoveFails,
            RollBack, RolledBack, RollBackFails, SetMarker, Measured, Restore, Restored, RestoreFails, Crash,
            Refill, history
    <2>2. FilesSafe
        BY <2>1
    <2>3. CASE UNCHANGED quarantineVars
        BY <2>2, <2>3 DEF quarantineVars, FilesSafe, NothingIsLost, Parked, ParkedIsNamed, MovesAreRecorded,
            ExcludedIsParked, RestoresAreComplete, RollbacksAreComplete, AwayForAReason, TakenAway
    <2>4. ASSUME NEW f \in Files, MoveOut(f) \/ MoveFails(f) \/ RollBack(f) \/ Restore(f) \/ Refill(f)
          PROVE  FilesSafe'
        BY <2>2, <2>4, MoveOutKeepsFilesSafe, MoveFailsKeepsFilesSafe, RollBackKeepsFilesSafe, RestoreKeepsFilesSafe,
            RefillKeepsFilesSafe
    <2>5. CASE WriteManifest \/ RolledBack \/ Restored \/ Crash
        BY <1>2, <2>2, <2>5, WriteManifestKeepsFilesSafe, RolledBackKeepsFilesSafe, RestoredKeepsFilesSafe,
            CrashKeepsFilesSafe
    <2>6. CASE \/ \E r \in Runs, exclude \in SUBSET Files : Verify(r, exclude)
               \/ \E d \in Runs : Heal(d)
               \/ RollBackFails \/ SetMarker \/ Measured \/ RestoreFails
        <3>1. UNCHANGED <<home, stored, manifest, written>>
            BY <2>6 DEF Verify, Heal, RollBackFails, SetMarker, Measured, RestoreFails, disk, history
        <3> QED BY <2>2, <2>6, <3>1, TheRestKeepsFilesSafe
    <2> QED BY <2>3, <2>4, <2>5, <2>6 DEF QuarantineNext
<1> QED BY <1>1, <1>2

LEMMA FilesInvSuffices == FilesInv => FilesSurviveVerifies
<1> SUFFICES ASSUME FilesInv, ~ reused PROVE NothingIsLost /\ FilesAreHome
    BY DEF FilesSurviveVerifies
<1>1. FilesSafe
    BY DEF FilesInv
<1>2. ASSUME at = Idle, NEW f \in Files, home[f] = "none"
      PROVE  \E d \in Runs : /\ f \in manifest[d].pending
                             /\ manifest[d].owner = "dead" \/ tally.faults > 0
    <2>1. CASE tally.faults > 0
        <3>1. "original" \in written[f] /\ home[f] # "original"
            BY <1>2 DEF FilesInv, Grounded
        <3> QED BY <1>1, <2>1, <3>1 DEF FilesSafe, NothingIsLost, Parked
    <2>2. CASE tally.faults = 0
        <3>1. ~ TakenAway(f)
            BY <1>2 DEF TakenAway, Idle
        <3> QED BY <1>1, <1>2, <2>2, <3>1 DEF FilesSafe, AwayForAReason, ParkedIsNamed
    <2> QED BY <2>1, <2>2 DEF FilesInv, FileTypes
<1> QED BY <1>1, <1>2 DEF FilesSafe, FilesAreHome

\* No verify loses a version of a test file, and none leaves the tree without one,
\* unless a kill or a failed call is yet to be healed: wherever the process dies,
\* whichever move fails and whoever refills a slot, as long as no run quarantines
\* into a directory that still holds files.
THEOREM VerifiesLoseNothing == QuarantineSpec => []FilesSurviveVerifies
<1>1. QuarantineInit => FilesInv
    BY FilesInvInit
<1>2. FilesInv /\ [QuarantineNext]_quarantineVars => FilesInv'
    BY FilesInvStep
<1> QED BY <1>1, <1>2, FilesInvSuffices, PTL DEF QuarantineSpec

-----------------------------------------------------------------------------
(* Worktrees: the branches of the items, and what is merged. *)

Levels == {"working", "reviewed", "published"}
TreeSteps == {"rest", "add", "bind", "merge", "integrate", "abort", "demote"}

Branches == (SUBSET Commits) \cup {NoBranch}

\* Every commit is an item's, and numbered within the bound.
TreeTypes ==
    /\ branch \in [Members -> Branches]
    /\ dir \subseteq Members /\ entry \subseteq Members /\ bound \subseteq Members
    /\ main \subseteq Commits
    /\ merging \in Members \cup {"none"}
    /\ level \in [Members -> Levels]
    /\ unsaved \subseteq Members /\ untracked \subseteq Members
    /\ act \in [step : TreeSteps, item : Members \cup {"none"}]
    /\ closed \in BOOLEAN

\* A directory is checked out from a branch, and so is what is about to be merged.
TreesHaveBranches ==
    /\ \A i \in dir : branch[i] # NoBranch
    /\ \A i \in Members : At("merge", i) \/ At("integrate", i) => branch[i] # NoBranch

\* The integrated tree is verified when the branch is in it.
VerifiedIsMerged == \A i \in Members : At("integrate", i) => branch[i] \subseteq main

TreesInv == TreeTypes /\ TreesHaveBranches /\ VerifiedIsMerged /\ PublishedIsIntegrated

LEMMA CommitsAreFinite ==
    /\ IsFiniteSet(Commits) /\ NoBranch \notin SUBSET Commits
    /\ \A b \in Branches : b # NoBranch => b \in SUBSET Commits
    /\ SUBSET Commits \subseteq Branches /\ NoBranch \in Branches
<1>1. IsFiniteSet(1 .. MaxWork)
    BY FS_Interval, WorktreesAssumption
<1>2. IsFiniteSet(Commits)
    BY <1>1, FS_Product, WorktreesAssumption DEF Commits
<1>3. <<"no branch", 0>> \notin Commits
    <2>1. \A c \in Commits : c[2] \in 1 .. MaxWork
        BY DEF Commits
    <2>2. <<"no branch", 0>>[2] = 0 /\ 0 \notin 1 .. MaxWork
        BY WorktreesAssumption
    <2> QED BY <2>1, <2>2
<1>4. NoBranch \notin SUBSET Commits
    BY <1>3 DEF NoBranch
<1>5. \A b \in Branches : b # NoBranch => b \in SUBSET Commits
    BY DEF Branches
<1>6. SUBSET Commits \subseteq Branches /\ NoBranch \in Branches
    BY DEF Branches
<1> QED BY <1>2, <1>4, <1>5, <1>6

LEMMA TreesInvInit == WorktreesInit => TreesInv
<1> SUFFICES ASSUME WorktreesInit PROVE TreesInv
    OBVIOUS
<1>1. TreeTypes
    BY CommitsAreFinite DEF WorktreesInit, TreeTypes, Levels, TreeSteps, AtRest
<1>2. act.step = "rest" /\ dir = {} /\ \A i \in Members : level[i] = "working"
    BY DEF WorktreesInit, AtRest
<1>3. TreesHaveBranches /\ VerifiedIsMerged /\ PublishedIsIntegrated
    BY <1>2 DEF TreesHaveBranches, VerifiedIsMerged, PublishedIsIntegrated, At
<1> QED BY <1>1, <1>3 DEF TreesInv

LEMMA TreesInvStep ==
    ASSUME TreesInv, [WorktreesNext]_worktreeVars
    PROVE  TreesInv'
<1>0. /\ NoBranch \notin SUBSET Commits
      /\ \A b \in Branches : b # NoBranch => b \in SUBSET Commits
      /\ SUBSET Commits \subseteq Branches /\ NoBranch \in Branches
    BY CommitsAreFinite
<1> USE DEF TreesInv, TreeTypes, TreesHaveBranches, VerifiedIsMerged, PublishedIsIntegrated, At, Own
<1>1. ASSUME NEW i \in Members, Setup(i) PROVE TreesInv'
    BY <1>1 DEF Setup, Goto, AtRest, items, TreeSteps
<1>2. ASSUME NEW i \in Members, Add(i) PROVE TreesInv'
    <2>1. \A j \in Members : branch'[j] = IF j = i /\ branch[i] = NoBranch THEN main ELSE branch[j]
        BY <1>2 DEF Add
    <2>2. branch' \in [Members -> Branches]
        BY <1>0, <1>2 DEF Add
    <2>3. act'.step = "bind" /\ act' \in [step : TreeSteps, item : Members \cup {"none"}]
        BY <1>2 DEF Add, Goto, TreeSteps
    <2>4. TreeTypes'
        BY <1>2, <2>2, <2>3 DEF Add, items
    <2>5. TreesHaveBranches'
        BY <1>0, <1>2, <2>1, <2>3 DEF Add
    <2>6. VerifiedIsMerged' /\ PublishedIsIntegrated'
        BY <1>2, <2>1, <2>3 DEF Add, items
    <2> QED BY <2>4, <2>5, <2>6
<1>3. ASSUME NEW i \in Members, Bind(i) PROVE TreesInv'
    BY <1>3 DEF Bind, AtRest, git, TreeSteps
<1>4. ASSUME NEW i \in Members, Edit(i) PROVE TreesInv'
    BY <1>4 DEF Edit, git
<1>5. ASSUME NEW i \in Members, ReviewItem(i) PROVE TreesInv'
    BY <1>5 DEF ReviewItem, git, Levels
<1>6. ASSUME NEW i \in Members, NEW remain \in BOOLEAN, Commit(i, remain) PROVE TreesInv'
    <2> DEFINE new == <<i, Cardinality(Own(i)) + 1>>
    <2>1. branch[i] # NoBranch /\ branch[i] \in SUBSET Commits
        <3>1. branch[i] \in Branches
            OBVIOUS
        <3>2. i \in dir
            BY <1>6 DEF Commit
        <3> QED BY <3>1, <3>2, <1>0
    <2>2. IsFiniteSet(Own(i))
        BY <2>1, CommitsAreFinite, FS_Subset
    <2>3. Cardinality(Own(i)) \in Nat
        BY <2>2, FS_CardinalityType
    <2>4. new \in Commits
        BY <1>6, <2>3, WorktreesAssumption DEF Commit, Commits
    <2>5. branch' = [branch EXCEPT ![i] = branch[i] \cup {new}]
        BY <1>6 DEF Commit
    <2>6. branch[i] \cup {new} \in SUBSET Commits
        BY <2>1, <2>4
    <2> HIDE DEF new
    <2>7. branch' \in [Members -> Branches]
        BY <1>0, <2>5, <2>6
    <2>8. \A j \in Members : j # i => branch'[j] = branch[j]
        BY <2>5
    <2>9. branch'[i] # NoBranch
        BY <1>0, <2>5, <2>6
    <2>10. /\ act' = [step |-> "merge", item |-> i]
           /\ act' \in [step : TreeSteps, item : Members \cup {"none"}]
        BY <1>6 DEF Commit, Goto, TreeSteps
    <2>11. TreeTypes'
        BY <1>6, <2>7, <2>10 DEF Commit
    <2>12. TreesHaveBranches'
        BY <1>6, <2>5, <2>9, <2>10 DEF Commit
    <2>13. VerifiedIsMerged' /\ PublishedIsIntegrated'
        <3>1. /\ level' = level /\ main' = main /\ level[i] = "reviewed"
              /\ \A j \in Members : j # i => (j \in untracked' <=> j \in untracked)
            BY <1>6 DEF Commit
        <3> QED BY <2>8, <2>10, <3>1
    <2> QED BY <2>11, <2>12, <2>13
<1>7. ASSUME NEW i \in Members, PublishNothing(i) \/ Reverified(i) PROVE TreesInv'
    BY <1>7 DEF PublishNothing, Reverified, Demote, AtRest, git, Levels, TreeSteps
<1>8. ASSUME NEW i \in Members, Merge(i) PROVE TreesInv'
    <2>1. branch[i] \in SUBSET Commits
        <3>1. branch[i] \in Branches
            OBVIOUS
        <3>2. branch[i] # NoBranch
            BY <1>8 DEF Merge
        <3> QED BY <3>1, <3>2, <1>0
    <2> QED BY <1>8, <2>1 DEF Merge, Goto, items, TreeSteps
<1>9. ASSUME NEW i \in Members, Conflict(i) \/ OldConflict(i) \/ MergeFault(i) \/ AbortMerge(i) PROVE TreesInv'
    BY <1>9 DEF Conflict, OldConflict, MergeFault, AbortMerge, Goto, AtRest, git, items, TreeSteps
<1>10. ASSUME NEW i \in Members, Demoted(i) \/ IntegratedRed(i) \/ IntegratedRefused(i) PROVE TreesInv'
    BY <1>10 DEF Demoted, IntegratedRed, IntegratedRefused, Demote, AtRest, git, items, Levels, TreeSteps
<1>11. ASSUME NEW i \in Members, IntegratedGreen(i) PROVE TreesInv'
    BY <1>11 DEF IntegratedGreen, AtRest, git, Levels, TreeSteps
<1>12. ASSUME NEW i \in Members, Lose(i) PROVE TreesInv'
    BY <1>12 DEF Lose
<1>13. CASE Archive
    <2>1. branch' = [i \in Members |-> IF i \in bound THEN NoBranch ELSE branch[i]] /\ dir' = dir \ bound
        BY <1>13 DEF Archive, Removed
    <2>2. act' = act /\ act.step = "rest" /\ UNCHANGED <<main, merging, bound, level, untracked>>
          /\ entry' \subseteq entry /\ unsaved' \subseteq unsaved /\ closed' = TRUE
        BY <1>13 DEF Archive, Removed, AtRest
    <2>3. TreeTypes'
        <3>1. branch' \in [Members -> Branches]
            BY <1>0, <2>1
        <3> QED BY <2>1, <2>2, <3>1
    <2>4. TreesHaveBranches'
        BY <2>1, <2>2
    <2>5. VerifiedIsMerged' /\ PublishedIsIntegrated'
        BY <2>1, <2>2
    <2> QED BY <2>3, <2>4, <2>5
<1>14. CASE HarnessDies
    BY <1>14 DEF HarnessDies, AtRest, git, items, TreeSteps
<1>15. CASE UNCHANGED worktreeVars
    BY <1>15 DEF worktreeVars
<1> QED
    BY <1>1, <1>2, <1>3, <1>4, <1>5, <1>6, <1>7, <1>8, <1>9, <1>10, <1>11, <1>12, <1>13, <1>14, <1>15
    DEF WorktreesNext

LEMMA TreesInvAlways == WorktreesSpec => []TreesInv
<1>1. TreesInv /\ [WorktreesNext]_worktreeVars => TreesInv'
    BY TreesInvStep
<1> QED BY <1>1, TreesInvInit, PTL DEF WorktreesSpec

\* An item that is published is merged, its whole branch, however the publications of
\* the items interleave with conflicts, aborted merges, kills and lost directories,
\* unless its branch ends without any of its paths (handlePublish(), mergeBack()).
THEOREM PublicationsAreMerged == WorktreesSpec => []PublishedIsIntegrated
BY TreesInvAlways, PTL DEF TreesInv

\* Until the archive, no step of any handler drops a commit from both the item's
\* branch and the workspace's: creating a worktree again, after a kill or a loss,
\* reuses the branch (createWorktree()).
THEOREM NoCommitIsLost == WorktreesSpec => CommitsSurvive
<1>1. ASSUME TreesInv, [WorktreesNext]_worktreeVars, closed' = closed, NEW i \in Members, branch[i] # NoBranch
      PROVE  branch[i] \subseteq branch'[i] \cup main'
    <2> USE DEF TreesInv, TreeTypes
    <2>1. ASSUME NEW j \in Members, Add(j) \/ Commit(j, TRUE) \/ Commit(j, FALSE) PROVE branch[i] \subseteq branch'[i]
        BY <1>1, <2>1 DEF Add, Commit
    <2>2. ~ Archive
        BY <1>1 DEF Archive
    <2>3. CASE UNCHANGED branch
        BY <2>3
    <2> QED
        BY <1>1, <2>1, <2>2, <2>3 DEF WorktreesNext, worktreeVars, Setup, Bind, Edit, ReviewItem, PublishNothing,
            Reverified, Merge, Conflict, OldConflict, MergeFault, AbortMerge, Demoted, IntegratedGreen,
            IntegratedRed, IntegratedRefused, Lose, HarnessDies, git
<1>2. TreesInv /\ [WorktreesNext]_worktreeVars =>
          [closed' = closed => \A i \in Members :
              branch[i] # NoBranch => branch[i] \subseteq branch'[i] \cup main']_worktreeVars
    BY <1>1
<1> QED BY <1>2, TreesInvAlways, PTL DEF WorktreesSpec, CommitsSurvive

-----------------------------------------------------------------------------
(* WorkspaceLock: what every state satisfies. *)

LockTypes ==
    /\ lock \in LockKeys \cup {Garbage}
    /\ right \in [LockKeys -> Procs \cup {NoFile}]
    /\ aside \in [LockKeys -> LockKeys \cup {Garbage}]
    /\ pc \in [Procs -> Steps]
    /\ attempt \in [Procs -> 1 .. MaxAttempts]
    /\ judged \in [Procs -> LockKeys]
    /\ held \in [Procs -> LockKeys]
    /\ \A p \in Procs : pc[p] = "held" => held[p] \in Token
    /\ aged \subseteq Token

\* The processes that are between their opening and their end.
Busy == {p \in Procs : pc[p] \notin Closed \cup {"start"}}

Dead(p) == p = Ghost \/ (p \in Procs /\ pc[p] = "crashed")

Breaking == {"mint", "orphan", "clear", "reread", "exists", "rename", "inspect", "putback",
             "discard", "drop"}

-----------------------------------------------------------------------------
(* With two processes at most, and none that dies between the rename of a  *)
(* lock and its put-back, as long as no lock outlives its day.             *)

\* No three processes are busy.
TwoAtMost ==
    \A p, q, r \in Procs : {p, q, r} \subseteq Busy => p = q \/ p = r \/ q = r

\* What a breaker judged stale is of a dead process, or no record at all.
JudgedAreDead ==
    \A p \in Procs : pc[p] \in Breaking /\ judged[p] # NoFile => Dead(judged[p].owner)

\* The lock of a process that has it is at the path, or another process has moved it
\* aside and will put it back, having judged another.
Secured(p) ==
    /\ held[p] \in Token /\ held[p].owner = p
    /\ \/ lock = held[p]
       \/ /\ lock = NoFile
          /\ \E q \in Procs \ {p} :
                pc[q] \in {"inspect", "putback"} /\ aside[judged[q]] = held[p]

HoldersAreSecured == \A p \in Procs : pc[p] \in {"held", "check", "delete"} => Secured(p)

TwoOpenersInv ==
    LockTypes /\ TwoAtMost /\ (aged = {} => JudgedAreDead /\ HoldersAreSecured)

-----------------------------------------------------------------------------
(* With one process at a time, wherever processes die.                     *)

OneAtMost == \A p, q \in Busy : p = q

\* The lock is of a dead process, or of the one that took it and has it still.
LockIsAccountedFor ==
    lock \in Token =>
        \/ Dead(lock.owner)
        \/ /\ lock.owner \in Procs
           /\ pc[lock.owner] \in {"verify", "held", "check", "delete"}

TakersHaveTheLock ==
    \A p \in Procs :
        /\ pc[p] \in {"verify", "held", "check", "delete"} => lock = Mine(p)
        /\ pc[p] \in {"held", "check", "delete"} => held[p] = Mine(p)

\* A break right is of a dead process, or of the one that uses it.
RightsAreAccountedFor ==
    \A k \in LockKeys : right[k] # NoFile =>
        \/ Dead(right[k])
        \/ /\ pc[right[k]] \in {"reread", "exists", "rename", "inspect", "putback", "discard", "drop"}
           /\ judged[right[k]] = k

\* What an opener has behind it: no pass, one spent on the right of a dead process, or
\* those and the one that removed the lock.
Unhindered(p) == attempt[p] = 1 \/ (attempt[p] = 2 /\ right[Parse(lock)] = NoFile)

AtTheLock(p) == lock # NoFile /\ judged[p] = Parse(lock)

Budget(p) ==
    /\ pc[p] = "start" => attempt[p] = 1
    /\ pc[p] = "claim" => Unhindered(p) \/ (attempt[p] <= 3 /\ lock = NoFile)
    /\ pc[p] = "read" => lock # NoFile /\ Unhindered(p)
    /\ pc[p] = "mint" => AtTheLock(p) /\ Unhindered(p)
    /\ pc[p] \in {"orphan", "clear"} => AtTheLock(p) /\ attempt[p] = 1
    /\ pc[p] \in {"reread", "exists", "rename"} => AtTheLock(p) /\ attempt[p] <= 2
    /\ pc[p] \in {"inspect", "discard", "drop"} => lock = NoFile /\ attempt[p] <= 2
    /\ pc[p] = "inspect" => Parse(aside[judged[p]]) = judged[p]
    /\ pc[p] \notin {"putback", "refused", "exhausted"}

WithinBudget == \A p \in Procs : Budget(p)

LoneOpenerInv ==
    /\ LockTypes /\ OneAtMost /\ LockIsAccountedFor /\ TakersHaveTheLock
    /\ RightsAreAccountedFor /\ WithinBudget
-----------------------------------------------------------------------------
(* One step of one opener. *)

LockStepOf(p) ==
    OpenLock(p) \/ Acquire(p) \/ BeginRelease(p) \/ CloseLock(p) \/ OpenerDies(p) \/ GrowOld(p)

LEMMA LockInitTypes == LockInit => LockTypes
  BY LockAssumption, LockFilesAssumption
  DEF LockInit, LockTypes, LockKeys, Steps, Opening, Closed, Token, GhostToken

\* The end of a pass: the next one, or none is left.
LEMMA RetryEffect ==
  ASSUME LockTypes, NEW p \in Procs, Retry(p)
  PROVE  /\ pc' \in [Procs -> Steps] /\ attempt' \in [Procs -> 1 .. MaxAttempts]
         /\ \A q \in Procs \ {p} : pc'[q] = pc[q] /\ attempt'[q] = attempt[q]
         /\ \/ pc'[p] = "claim" /\ attempt'[p] = attempt[p] + 1
            \/ pc'[p] = "exhausted" /\ attempt[p] >= MaxAttempts
  BY LockAssumption DEF Retry, LockTypes, StepTo, Steps, Opening, Closed

\* A step of one opener leaves what the others hold alone.
Apart(p) ==
    \A q \in Procs \ {p} :
        pc'[q] = pc[q] /\ attempt'[q] = attempt[q] /\ judged'[q] = judged[q] /\ held'[q] = held[q]

LEMMA LockTypesStep ==
  ASSUME LockTypes, NEW p \in Procs, LockStepOf(p)
  PROVE  LockTypes' /\ Apart(p)
<1> USE LockAssumption, LockFilesAssumption DEF LockTypes, Apart, StepTo
<1>t. Mine(p) \in Token /\ Token \subseteq LockKeys /\ NoFile \in LockKeys
  BY DEF Mine, Token, LockKeys
<1>k. Parse(lock) \in LockKeys /\ \A q \in Procs : Parse(aside[judged[q]]) \in LockKeys
  BY DEF Parse, LockKeys
<1>s. Opening \subseteq Steps /\ Closed \subseteq Steps
      /\ {"start", "held", "check", "delete"} \subseteq Steps
  BY DEF Steps
<1>1. CASE OpenLock(p) BY <1>1, <1>s DEF OpenLock, Opening
<1>2. CASE ClaimLock(p) BY <1>2, <1>s, <1>t DEF ClaimLock, Opening
<1>3. CASE VerifyClaim(p)
  <2>1. CASE Parse(lock) = Mine(p) BY <1>3, <2>1, <1>s, <1>t DEF VerifyClaim
  <2>2. CASE Parse(lock) # Mine(p) BY <1>3, <2>2, RetryEffect DEF VerifyClaim
  <2> QED BY <2>1, <2>2
<1>4. CASE ReadExisting(p) BY <1>4, <1>s, <1>k DEF ReadExisting, OwnedBy, Opening, Closed
<1>5. CASE MintRight(p) BY <1>5, <1>s DEF MintRight, Opening
<1>6. CASE JudgeRight(p)
  <2>1. CASE Retry(p) BY <1>6, <2>1, RetryEffect DEF JudgeRight
  <2>2. CASE ~Retry(p) BY <1>6, <2>2, <1>s DEF JudgeRight, Opening
  <2> QED BY <2>1, <2>2
<1>7. CASE ClearRight(p) BY <1>7, RetryEffect DEF ClearRight
<1>8. CASE Reread(p) BY <1>8, <1>s DEF Reread, Opening
<1>9. CASE CheckPresent(p) BY <1>9, <1>s DEF CheckPresent, Opening
<1>10. CASE RenameAside(p) BY <1>10, <1>s, <1>t DEF RenameAside, Opening
<1>11. CASE Inspect(p) BY <1>11, <1>s DEF Inspect, Opening
<1>12. CASE PutBack(p) BY <1>12, <1>s DEF PutBack, Opening
<1>13. CASE Discard(p) BY <1>13, <1>s, <1>t DEF Discard, Opening
<1>14. CASE BeginRelease(p) BY <1>14, <1>s DEF BeginRelease
<1>15. CASE CheckOwn(p) BY <1>15, <1>s DEF CheckOwn, Closed
<1>16. CASE DeleteLock(p) BY <1>16, <1>s, <1>t DEF DeleteLock, Closed
<1>17. CASE OpenerDies(p) BY <1>17, <1>s DEF OpenerDies, Closed
<1>18. CASE GrowOld(p) BY <1>18 DEF GrowOld
<1> QED
  BY <1>1, <1>2, <1>3, <1>4, <1>5, <1>6, <1>7, <1>8, <1>9, <1>10, <1>11, <1>12, <1>13,
     <1>14, <1>15, <1>16, <1>17, <1>18 DEF LockStepOf, Acquire, CloseLock

\* The dead stay dead.
LEMMA DeadStay ==
  ASSUME LockTypes, NEW p \in Procs, LockStepOf(p)
  PROVE  \A o : Dead(o) => Dead(o)'
<1> SUFFICES ASSUME NEW o, Dead(o) PROVE Dead(o)'
  OBVIOUS
<1>1. CASE o = Ghost BY <1>1 DEF Dead
<1>2. CASE o \in Procs /\ pc[o] = "crashed" /\ o # p
  BY <1>2, LockTypesStep DEF Dead, Apart
<1>3. CASE o = p /\ pc[p] = "crashed"
  <2>1. OpenerDies(p)
    BY <1>3 DEF LockStepOf, Acquire, CloseLock, OpenLock, ClaimLock, VerifyClaim, ReadExisting,
                MintRight, JudgeRight, ClearRight, Reread, CheckPresent, RenameAside, Inspect,
                PutBack, Discard, BeginRelease, CheckOwn, DeleteLock, GrowOld
  <2> QED BY <1>3, <2>1 DEF OpenerDies, StepTo, Dead, LockTypes
<1> QED BY <1>1, <1>2, <1>3 DEF Dead

\* Only an opening makes a process busy, and it finds room.
LEMMA OnlyOpeningAdds ==
  ASSUME LockTypes, NEW p \in Procs, LockStepOf(p)
  PROVE  Busy' \subseteq Busy \/ (OpenLock(p) /\ Busy' \subseteq Busy \cup {p})
<1>1. Busy' \subseteq Busy \cup {p} BY LockTypesStep DEF Busy, Apart
<1>2. CASE OpenLock(p) BY <1>1, <1>2
<1>3. CASE ~OpenLock(p)
  <2>1. p \in Busy \/ pc'[p] \in Closed
    BY <1>3 DEF Busy, LockStepOf, Acquire, CloseLock, ClaimLock, VerifyClaim, ReadExisting,
                MintRight, JudgeRight, ClearRight, Reread, CheckPresent, RenameAside, Inspect,
                PutBack, Discard, BeginRelease, CheckOwn, DeleteLock, GrowOld, OpenerDies,
                StepTo, LockTypes, Closed
  <2> QED BY <1>1, <2>1 DEF Busy
<1> QED BY <1>2, <1>3

LEMMA OpeningFindsRoom ==
  ASSUME LockTypes, NEW p \in Procs, OpenLock(p)
  PROVE  /\ MaxAlive = 1 => Busy = {}
         /\ MaxAlive <= 2 => \A q, r \in Busy : q = r
<1>1. Busy \subseteq Procs /\ IsFiniteSet(Busy) /\ Cardinality(Busy) \in Nat
  BY LockAssumption, FS_Subset, FS_CardinalityType DEF Busy
<1>2. Cardinality(Busy) < MaxAlive /\ MaxAlive \in Nat BY LockAssumption DEF OpenLock, Busy
<1>3. ASSUME MaxAlive = 1 PROVE Busy = {} BY <1>1, <1>2, <1>3, FS_EmptySet
<1>4. ASSUME MaxAlive <= 2, NEW q \in Busy, NEW r \in Busy PROVE q = r
  <2>1. IsFiniteSet(Busy \ {q}) /\ Cardinality(Busy \ {q}) = Cardinality(Busy) - 1
    BY <1>1, <1>4, FS_RemoveElement
  <2>2. Cardinality(Busy \ {q}) = 0 BY <1>1, <1>2, <1>4, <2>1, FS_CardinalityType
  <2>3. Busy \ {q} = {} BY <2>1, <2>2, FS_EmptySet
  <2> QED BY <2>3
<1> QED BY <1>3, <1>4

-----------------------------------------------------------------------------
(* With two processes at most.                                             *)

LEMMA TwoAtMostStep ==
  ASSUME LockTypes, TwoAtMost, MaxAlive <= 2, NEW p \in Procs, LockStepOf(p)
  PROVE  TwoAtMost'
<1>1. CASE Busy' \subseteq Busy BY <1>1 DEF TwoAtMost
<1>2. CASE OpenLock(p) /\ Busy' \subseteq Busy \cup {p}
  <2>1. \A q, r \in Busy : q = r BY <1>2, OpeningFindsRoom
  <2> QED BY <1>2, <2>1 DEF TwoAtMost
<1> QED BY <1>1, <1>2, OnlyOpeningAdds

LEMMA JudgedAreDeadStep ==
  ASSUME LockTypes, JudgedAreDead, aged = {}, NEW p \in Procs, LockStepOf(p)
  PROVE  JudgedAreDead'
<1> SUFFICES ASSUME NEW q \in Procs, pc'[q] \in Breaking, judged'[q] # NoFile
             PROVE  (Dead(judged[q].owner))'
  BY DEF JudgedAreDead
<1>1. CASE judged'[q] = judged[q] /\ pc[q] \in Breaking BY <1>1, DeadStay DEF JudgedAreDead, Dead
<1>2. CASE q = p /\ ReadExisting(p)
  <2>1. pc'[p] = "mint" /\ judged'[p] = Parse(lock) /\ Parse(lock) \notin OwnedBy(p) \cup Honored(p)
    BY <1>2 DEF ReadExisting, StepTo, LockTypes, Breaking
  <2>2. Parse(lock) \in Token BY <1>2, <2>1 DEF Parse, LockTypes, LockKeys
  <2>3. ~PidAlive(Parse(lock).owner) BY <2>1, <2>2 DEF OwnedBy, Honored
  <2>4. Dead(Parse(lock).owner) BY <2>2, <2>3 DEF PidAlive, Dead, Token
  <2> QED BY <1>2, <2>1, <2>4, DeadStay DEF Dead
<1>3. CASE q = p /\ ~ReadExisting(p)
  <2>1. judged'[p] = judged[p]
    BY <1>3 DEF LockStepOf, Acquire, CloseLock, ClaimLock, VerifyClaim, OpenLock,
                MintRight, JudgeRight, ClearRight, Reread, CheckPresent, RenameAside, Inspect,
                PutBack, Discard, BeginRelease, CheckOwn, DeleteLock, GrowOld, OpenerDies
  <2>2. pc[p] \in Breaking
    BY <1>3 DEF LockStepOf, Acquire, CloseLock, ClaimLock, VerifyClaim, OpenLock, Retry,
                MintRight, JudgeRight, ClearRight, Reread, CheckPresent, RenameAside, Inspect,
                PutBack, Discard, BeginRelease, CheckOwn, DeleteLock, GrowOld, OpenerDies,
                StepTo, LockTypes, Breaking
  <2> QED BY <1>1, <1>3, <2>1, <2>2
<1>4. CASE q # p BY <1>1, <1>4, LockTypesStep DEF Apart
<1> QED BY <1>2, <1>3, <1>4

Having == {"held", "check", "delete"}

\* A step that moves no lock leaves the others as secure as they were.
LEMMA StaysSecured ==
  ASSUME LockTypes, NEW p \in Procs, Apart(p), NEW q \in Procs, Secured(q), held'[q] = held[q],
         UNCHANGED <<lock, aside>>, q = p \/ pc[p] \notin {"inspect", "putback"}
  PROVE  Secured(q)'
<1>1. CASE lock = held[q] BY <1>1 DEF Secured
<1>2. CASE lock = NoFile /\ \E r \in Procs \ {q} :
                pc[r] \in {"inspect", "putback"} /\ aside[judged[r]] = held[q]
  <2>1. PICK r \in Procs \ {q} : pc[r] \in {"inspect", "putback"} /\ aside[judged[r]] = held[q]
    BY <1>2
  <2>2. r # p BY <2>1
  <2>3. pc'[r] = pc[r] /\ judged'[r] = judged[r] BY <2>2 DEF Apart
  <2> QED BY <1>2, <2>1, <2>3 DEF Secured
<1> QED BY <1>1, <1>2 DEF Secured

\* The one who moved a lock aside is the only one that can be busy besides its owner.
LEMMA OnlyTheMover ==
  ASSUME LockTypes, TwoAtMost, NEW p \in Procs, p \in Busy, NEW q \in Procs \ {p},
         pc[q] \in Having, Secured(q), lock # held[q]
  PROVE  /\ lock = NoFile /\ pc[p] \in {"inspect", "putback"}
         /\ aside[judged[p]] = held[q]
<1>1. PICK r \in Procs \ {q} : pc[r] \in {"inspect", "putback"} /\ aside[judged[r]] = held[q]
  BY DEF Secured
<1>2. q \in Busy /\ r \in Busy BY <1>1 DEF Busy, Having, Closed
<1>3. r = p BY <1>1, <1>2 DEF TwoAtMost
<1> QED BY <1>1, <1>3 DEF Secured

\* A step of another process.
LEMMA OthersStaySecured ==
  ASSUME LockTypes, TwoAtMost, JudgedAreDead, HoldersAreSecured,
         CrashSteps \cap {"inspect", "putback"} = {},
         NEW p \in Procs, LockStepOf(p), NEW q \in Procs \ {p}, pc[q] \in Having
  PROVE  Secured(q)'
<1>1. Secured(q) /\ held[q] \in Token /\ held[q].owner = q BY DEF HoldersAreSecured, Having, Secured
<1>2. Apart(p) /\ held'[q] = held[q] /\ LockTypes' BY LockTypesStep DEF Apart
<1>3. q \in Busy BY DEF Busy, Having, Closed
<1>4. held[q] # NoFile /\ held[q] # Garbage BY <1>1, LockFilesAssumption
<1>5. CASE UNCHANGED <<lock, aside>> /\ pc[p] \notin {"inspect", "putback"}
  BY <1>1, <1>2, <1>5, StaysSecured
<1>6. CASE ClaimLock(p)
  <2>1. p \in Busy /\ pc[p] = "claim" BY <1>6 DEF ClaimLock, Busy, Closed
  <2>2. lock = held[q] BY <1>1, <2>1, OnlyTheMover
  <2>3. lock' = lock BY <1>4, <1>6, <2>2 DEF ClaimLock
  <2> QED BY <1>1, <1>2, <2>2, <2>3 DEF Secured
<1>7. CASE RenameAside(p)
  <2>1. p \in Busy /\ pc[p] = "rename" BY <1>7 DEF RenameAside, Busy, Closed
  <2>2. lock = held[q] BY <1>1, <2>1, OnlyTheMover
  <2>3. lock' = NoFile /\ aside' = [aside EXCEPT ![judged[p]] = lock] /\ pc'[p] = "inspect"
        /\ judged' = judged
    BY <1>4, <1>7, <2>2 DEF RenameAside, StepTo, LockTypes
  <2>4. aside'[judged'[p]] = held'[q] BY <1>2, <2>2, <2>3 DEF LockTypes
  <2> QED BY <1>1, <1>2, <2>3, <2>4 DEF Secured
<1>8. CASE Inspect(p)
  <2>1. p \in Busy /\ pc[p] = "inspect" BY <1>8 DEF Inspect, Busy, Closed
  <2>2. CASE lock = held[q] BY <1>1, <1>2, <1>8, <2>2 DEF Secured, Inspect
  <2>3. CASE lock # held[q]
    <3>1. lock = NoFile /\ aside[judged[p]] = held[q] BY <1>1, <2>1, <2>3, OnlyTheMover
    <3>2. Parse(held[q]) = held[q] BY <1>4 DEF Parse
    <3>3. judged[p] # held[q]
      <4> SUFFICES ASSUME judged[p] = held[q] PROVE FALSE
        OBVIOUS
      <4>1. Dead(q) BY <1>1, <1>4, <2>1 DEF JudgedAreDead, Breaking
      <4> QED BY <4>1, LockAssumption DEF Dead, Having
    <3>4. pc'[p] = "putback" /\ UNCHANGED <<lock, aside, judged>>
      BY <1>8, <3>1, <3>2, <3>3 DEF Inspect, StepTo, LockTypes
    <3> QED BY <1>1, <1>2, <3>1, <3>4 DEF Secured
  <2> QED BY <2>2, <2>3
<1>9. CASE PutBack(p)
  <2>1. p \in Busy /\ pc[p] = "putback" BY <1>9 DEF PutBack, Busy, Closed
  <2>2. CASE lock = held[q] BY <1>1, <1>2, <1>4, <1>9, <2>2 DEF Secured, PutBack
  <2>3. CASE lock # held[q]
    <3>1. lock = NoFile /\ aside[judged[p]] = held[q] BY <1>1, <2>1, <2>3, OnlyTheMover
    <3> QED BY <1>1, <1>2, <1>9, <3>1 DEF Secured, PutBack
  <2> QED BY <2>2, <2>3
<1>10. CASE Discard(p)
  <2>1. p \in Busy /\ pc[p] = "discard" BY <1>10 DEF Discard, Busy, Closed
  <2>2. lock = held[q] BY <1>1, <2>1, OnlyTheMover
  <2> QED BY <1>1, <1>2, <1>10, <2>2 DEF Secured, Discard
<1>11. CASE DeleteLock(p)
  <2>1. p \in Busy /\ pc[p] \in Having BY <1>11 DEF DeleteLock, Busy, Closed, Having
  <2>2. lock = held[q] BY <1>1, <2>1, OnlyTheMover DEF Having
  <2>3. lock = held[p] BY <1>3, <1>4, <2>1, <2>2, OnlyTheMover DEF HoldersAreSecured, Having
  <2>4. held[p].owner = p BY <2>1 DEF HoldersAreSecured, Secured, Having
  <2> QED BY <1>1, <2>2, <2>3, <2>4
<1>12. CASE OpenerDies(p) BY <1>5, <1>12 DEF OpenerDies
<1>13. CASE OpenLock(p) \/ VerifyClaim(p) \/ ReadExisting(p) \/ MintRight(p) \/ JudgeRight(p)
            \/ ClearRight(p) \/ Reread(p) \/ CheckPresent(p) \/ BeginRelease(p) \/ CheckOwn(p)
            \/ GrowOld(p)
  BY <1>5, <1>13 DEF OpenLock, VerifyClaim, ReadExisting, MintRight, JudgeRight, ClearRight,
                     Reread, CheckPresent, BeginRelease, CheckOwn, GrowOld
<1> QED
  BY <1>6, <1>7, <1>8, <1>9, <1>10, <1>11, <1>12, <1>13 DEF LockStepOf, Acquire, CloseLock

\* Its own step: it gets the lock that carries its token, or keeps the one it has.
LEMMA HolderIsSecured ==
  ASSUME LockTypes, HoldersAreSecured, NEW p \in Procs, LockStepOf(p), pc'[p] \in Having
  PROVE  Secured(p)'
<1>1. LockTypes' /\ Apart(p) BY LockTypesStep
<1>2. Mine(p) \in Token /\ Mine(p).owner = p BY DEF Mine, Token, LockTypes
<1>3. CASE VerifyClaim(p)
  <2>1. Parse(lock) = Mine(p) BY <1>3, RetryEffect DEF VerifyClaim, Having
  <2>2. lock = Mine(p) BY <1>2, <2>1, LockFilesAssumption DEF Parse
  <2> QED BY <1>2, <1>3, <2>1, <2>2 DEF VerifyClaim, Secured, LockTypes
<1>4. CASE ReadExisting(p)
  <2>1. Parse(lock) \in OwnedBy(p) /\ held'[p] = Parse(lock) /\ lock' = lock
    BY <1>4 DEF ReadExisting, StepTo, LockTypes, Having
  <2>2. lock = Parse(lock) BY <2>1, LockFilesAssumption DEF Parse, OwnedBy
  <2> QED BY <2>1, <2>2 DEF Secured, OwnedBy
<1>5. CASE BeginRelease(p) \/ CheckOwn(p) \/ GrowOld(p)
  <2>1. Secured(p) /\ UNCHANGED <<lock, aside, held>>
    BY <1>5 DEF BeginRelease, CheckOwn, GrowOld, HoldersAreSecured
  <2> QED BY <1>1, <2>1, StaysSecured
<1>6. CASE ClearRight(p) \/ JudgeRight(p)
  BY <1>6, RetryEffect DEF ClearRight, JudgeRight, StepTo, LockTypes, Having
<1> QED
  BY <1>3, <1>4, <1>5, <1>6
  DEF LockStepOf, Acquire, CloseLock, OpenLock, ClaimLock, MintRight, Reread, CheckPresent,
      RenameAside, Inspect, PutBack, Discard, DeleteLock, OpenerDies, StepTo, LockTypes, Having

LEMMA HoldersAreSecuredStep ==
  ASSUME LockTypes, TwoAtMost, JudgedAreDead, HoldersAreSecured,
         CrashSteps \cap {"inspect", "putback"} = {}, NEW p \in Procs, LockStepOf(p)
  PROVE  HoldersAreSecured'
<1> SUFFICES ASSUME NEW q \in Procs, pc'[q] \in Having PROVE Secured(q)'
  BY DEF HoldersAreSecured, Having
<1>1. CASE q = p BY <1>1, HolderIsSecured
<1>2. CASE q # p
  <2>1. pc[q] \in Having BY <1>2, LockTypesStep DEF Apart
  <2> QED BY <1>2, <2>1, OthersStaySecured
<1> QED BY <1>1, <1>2

LEMMA TwoOpenersInvInit == LockInit => TwoOpenersInv
  BY LockInitTypes, LockAssumption
  DEF LockInit, TwoOpenersInv, TwoAtMost, Busy, JudgedAreDead, Breaking, HoldersAreSecured

LEMMA TwoOpenersInvStep ==
  ASSUME MaxAlive <= 2, CrashSteps \cap {"inspect", "putback"} = {},
         TwoOpenersInv, [LockNext]_lockVars
  PROVE  TwoOpenersInv'
<1>1. CASE UNCHANGED lockVars
  BY <1>1 DEF lockVars, TwoOpenersInv, LockTypes, TwoAtMost, Busy, JudgedAreDead, Dead,
              HoldersAreSecured, Secured
<1>2. ASSUME NEW p \in Procs, LockStepOf(p) PROVE TwoOpenersInv'
  <2>1. LockTypes' /\ TwoAtMost' BY <1>2, LockTypesStep, TwoAtMostStep DEF TwoOpenersInv
  <2>2. aged \subseteq aged'
    BY <1>2 DEF LockStepOf, Acquire, CloseLock, OpenLock, ClaimLock, VerifyClaim, ReadExisting,
                MintRight, JudgeRight, ClearRight, Reread, CheckPresent, RenameAside, Inspect,
                PutBack, Discard, BeginRelease, CheckOwn, DeleteLock, OpenerDies, GrowOld
  <2>3. ASSUME aged' = {} PROVE JudgedAreDead' /\ HoldersAreSecured'
    BY <1>2, <2>2, <2>3, JudgedAreDeadStep, HoldersAreSecuredStep DEF TwoOpenersInv
  <2> QED BY <2>1, <2>3 DEF TwoOpenersInv
<1> QED BY <1>1, <1>2 DEF LockNext, LockStepOf

LEMMA TwoOpenersInvSuffices == TwoOpenersInv => SingleWriter
<1> SUFFICES ASSUME TwoOpenersInv, aged = {} PROVE Cardinality(Holding) <= 1
  BY DEF SingleWriter
<1>1. \A p, q \in Holding : p = q
  <2> SUFFICES ASSUME NEW p \in Holding, NEW q \in Holding, p # q PROVE FALSE
    OBVIOUS
  <2>1. p \in Busy /\ q \in Busy /\ pc[p] \in Having /\ pc[q] \in Having /\ p \in Procs /\ q \in Procs
    BY DEF Holding, Busy, Having, Closed
  <2>2. Secured(p) /\ Secured(q) BY <2>1 DEF TwoOpenersInv, HoldersAreSecured, Having
  <2>3. lock = held[p] /\ lock = held[q]
    BY <2>1, <2>2, OnlyTheMover DEF TwoOpenersInv, Holding
  <2> QED BY <2>2, <2>3 DEF Secured
<1>2. CASE Holding = {} BY <1>2, FS_EmptySet
<1>3. CASE Holding # {}
  <2>1. PICK p : Holding = {p} BY <1>1, <1>3
  <2> QED BY <2>1, FS_Singleton
<1> QED BY <1>2, <1>3

\* Whatever processes open the workspace and wherever they die but between the rename of a
\* lock and its put-back, two that are open at the same time are never both its writer, as
\* long as no live lock has outlived its day (acquireLock() and breakStaleLock()).
THEOREM WritersAreSingle ==
  ASSUME MaxAlive <= 2, CrashSteps \cap {"inspect", "putback"} = {}
  PROVE  LockSpec => []SingleWriter
<1>1. LockInit => TwoOpenersInv BY TwoOpenersInvInit
<1>2. TwoOpenersInv /\ [LockNext]_lockVars => TwoOpenersInv' BY TwoOpenersInvStep
<1>3. TwoOpenersInv => SingleWriter BY TwoOpenersInvSuffices
<1> QED BY <1>1, <1>2, <1>3, PTL DEF LockSpec

-----------------------------------------------------------------------------
(* With two processes at most, while none of them has had the workspace and *)
(* none has died: somebody is about to get it.                             *)

\* Nobody has had the lock, and nobody died.
Untaken == \A p \in Procs : held[p] = NoFile /\ pc[p] # "crashed"

\* Whoever got the lock remembers it.
TakersRemember ==
    \A p \in Procs : pc[p] \in {"held", "check", "delete", "released"} => held[p] # NoFile

\* What may be at the path before the first opener changed anything.
LeftBehind == {NoFile, Garbage, GhostToken}

\* Nobody has changed anything yet.
Undisturbed ==
    /\ lock \in LeftBehind
    /\ right[Parse(lock)] = NoFile
    /\ \A p \in Procs :
          /\ attempt[p] = 1 /\ pc[p] \in {"start", "claim", "read", "mint"}
          /\ pc[p] \in {"read", "mint"} => lock # NoFile
          /\ pc[p] = "mint" => judged[p] = Parse(lock)

\* p has the right to break the lock that was left; the others wait for it.
BreaksWhatWasLeft(p) ==
    /\ lock \in LeftBehind \ {NoFile}
    /\ right[Parse(lock)] = p /\ judged[p] = Parse(lock)
    /\ attempt[p] = 1 /\ pc[p] \in {"reread", "exists", "rename"}
    /\ \A q \in Procs \ {p} :
          /\ pc[q] \in {"start", "claim", "read", "mint", "orphan", "exhausted"}
          /\ pc[q] \in {"mint", "orphan"} => judged[q] = Parse(lock)

\* p broke it in its first pass and has two more, and the path is free.
FreedThePath(p) ==
    /\ lock = NoFile
    /\ \/ attempt[p] = 1 /\ pc[p] \in {"inspect", "discard", "drop"}
       \/ attempt[p] <= 2 /\ pc[p] = "claim"
    /\ pc[p] = "inspect" => Parse(aside[judged[p]]) = judged[p]
    /\ \A q \in Procs \ {p} : pc[q] \notin {"inspect", "putback", "discard"}

\* The lock is p's claim, and the one who may still move it costs p no more than its second
\* pass.
ClaimIsAtThePath(p) ==
    /\ lock \in OwnedBy(p)
    /\ \/ pc[p] = "verify" /\ lock = Mine(p)
       \/ pc[p] \in {"claim", "read"}
    /\ (pc[p] = "verify" /\ attempt[p] <= 2)
          \/ \A q \in Procs \ {p} : pc[q] \notin {"exists", "rename"}

\* Another process moved p's claim aside, and will put it back unless p claims again.
ClaimWasMoved(p) ==
    /\ lock = NoFile
    /\ \/ pc[p] = "verify" /\ attempt[p] <= 2
       \/ pc[p] = "claim"
    /\ \E q \in Procs \ {p} :
          /\ pc[q] \in {"inspect", "putback"} /\ aside[judged[q]] \in OwnedBy(p)
          /\ pc[p] = "verify" => aside[judged[q]] = Mine(p)

IsNext(p) ==
    BreaksWhatWasLeft(p) \/ FreedThePath(p) \/ ClaimIsAtThePath(p) \/ ClaimWasMoved(p)

SomebodyIsNext ==
    /\ LockTypes /\ TwoAtMost /\ TakersRemember
    /\ Untaken =>
          /\ aged = {} /\ JudgedAreDead
          /\ Undisturbed \/ \E p \in Procs : IsNext(p)

LEMMA SomebodyIsNextInit == Procs # {} /\ LockInit => SomebodyIsNext
<1> SUFFICES ASSUME Procs # {}, LockInit PROVE SomebodyIsNext
  OBVIOUS
<1>1. LockTypes /\ TwoAtMost /\ JudgedAreDead /\ aged = {}
  BY TwoOpenersInvInit DEF TwoOpenersInv, LockInit
<1>2. TakersRemember BY DEF LockInit, TakersRemember
<1>3. Undisturbed
  BY <1>1, LockFilesAssumption
  DEF LockInit, Undisturbed, LeftBehind, Parse, LockTypes, LockKeys, Token, GhostToken
<1> QED BY <1>1, <1>2, <1>3 DEF SomebodyIsNext

LEMMA TakersRememberStep ==
  ASSUME LockTypes, TakersRemember, NEW p \in Procs, LockStepOf(p)
  PROVE  TakersRemember' /\ (Untaken' => Untaken)
<1> DEFINE Taking == {"held", "check", "delete", "released"}
<1>1. LockTypes' /\ Apart(p) BY LockTypesStep
<1>2. held'[p] = NoFile => held[p] = NoFile
  <2>1. CASE VerifyClaim(p) \/ ReadExisting(p)
    <3>1. Mine(p) \in Token /\ OwnedBy(p) \subseteq Token BY DEF Mine, Token, LockTypes, OwnedBy
    <3> QED BY <2>1, <3>1, LockFilesAssumption DEF VerifyClaim, ReadExisting, LockTypes
  <2>2. CASE ~(VerifyClaim(p) \/ ReadExisting(p))
    BY <2>2
    DEF LockStepOf, Acquire, CloseLock, OpenLock, ClaimLock, MintRight, JudgeRight, ClearRight,
        Reread, CheckPresent, RenameAside, Inspect, PutBack, Discard, BeginRelease, CheckOwn,
        DeleteLock, OpenerDies, GrowOld
  <2> QED BY <2>1, <2>2
<1>3. pc'[p] \in Taking => held'[p] # NoFile
  <2>1. CASE VerifyClaim(p)
    <3>1. Mine(p) # NoFile BY LockFilesAssumption DEF Mine, Token, LockTypes
    <3> QED BY <2>1, <3>1, RetryEffect DEF VerifyClaim, LockTypes
  <2>2. CASE ReadExisting(p)
    BY <2>2, LockFilesAssumption DEF ReadExisting, OwnedBy, StepTo, LockTypes
  <2>3. CASE JudgeRight(p) \/ ClearRight(p)
    BY <2>3, RetryEffect DEF JudgeRight, ClearRight, StepTo, LockTypes
  <2>4. CASE ~(VerifyClaim(p) \/ ReadExisting(p) \/ JudgeRight(p) \/ ClearRight(p))
    BY <2>4
    DEF LockStepOf, Acquire, CloseLock, OpenLock, ClaimLock, MintRight, TakersRemember,
        Reread, CheckPresent, RenameAside, Inspect, PutBack, Discard, BeginRelease, CheckOwn,
        DeleteLock, OpenerDies, GrowOld, StepTo, LockTypes
  <2> QED BY <2>1, <2>2, <2>3, <2>4
<1>4. pc[p] = "crashed" => pc'[p] = "crashed"
  BY <1>1, DeadStay, LockAssumption DEF Dead
<1> QED BY <1>1, <1>2, <1>3, <1>4 DEF TakersRemember, Untaken, Apart

\* While nobody has had it, no lock grows old, nobody releases one and nobody dies.
LEMMA OpenersOnly ==
  ASSUME LockTypes, TakersRemember, NEW p \in Procs, LockStepOf(p), Untaken, Untaken'
  PROVE  (OpenLock(p) \/ Acquire(p)) /\ aged' = aged /\ held' = held
<1>1. LockTypes' BY LockTypesStep
<1>2. ~OpenerDies(p) BY DEF OpenerDies, StepTo, LockTypes, Untaken
<1>3. pc[p] \notin {"held", "check", "delete", "released"} BY DEF Untaken, TakersRemember
<1>4. OpenLock(p) \/ Acquire(p)
  BY <1>2, <1>3 DEF LockStepOf, BeginRelease, CloseLock, CheckOwn, DeleteLock, GrowOld
<1>5. aged' = aged
  BY <1>4
  DEF Acquire, OpenLock, ClaimLock, VerifyClaim, ReadExisting,
      MintRight, JudgeRight, ClearRight, Reread, CheckPresent, RenameAside, Inspect,
      PutBack, Discard
<1>6. held' = held BY <1>1 DEF Untaken, LockTypes
<1> QED BY <1>4, <1>5, <1>6

\* What the first openers do to the lock that was left.
LEMMA UndisturbedStep ==
  ASSUME LockTypes, TwoAtMost, NEW p \in Procs, LockStepOf(p), OpenLock(p) \/ Acquire(p),
         Untaken, Untaken', Undisturbed
  PROVE  Undisturbed' \/ IsNext(p)'
<1>1. LockTypes' /\ Apart(p) BY LockTypesStep
<1>2. pc[p] \in {"start", "claim", "read", "mint"} /\ attempt[p] = 1 BY DEF Undisturbed
<1>3. CASE OpenLock(p)
  BY <1>1, <1>3 DEF OpenLock, StepTo, LockTypes, Undisturbed, Apart, Parse
<1>4. CASE ClaimLock(p) /\ lock = NoFile
  <2>1. lock' = Mine(p) /\ pc'[p] = "verify" /\ attempt' = attempt
    BY <1>4 DEF ClaimLock, StepTo, LockTypes
  <2>2. Mine(p)' = Mine(p) /\ Mine(p) \in OwnedBy(p) BY <2>1 DEF Mine, OwnedBy, Token, LockTypes
  <2> QED BY <1>2, <2>1, <2>2 DEF IsNext, ClaimIsAtThePath, OwnedBy
<1>5. CASE ClaimLock(p) /\ lock # NoFile
  BY <1>1, <1>5 DEF ClaimLock, StepTo, LockTypes, Undisturbed, Apart, Parse
<1>6. CASE ReadExisting(p)
  <2>1. Parse(lock) \notin OwnedBy(p) \cup Honored(p)
    BY LockAssumption, LockFilesAssumption
    DEF Undisturbed, LeftBehind, Parse, OwnedBy, Honored, GhostToken, PidAlive
  <2>2. pc'[p] = "mint" /\ judged'[p] = Parse(lock) /\ UNCHANGED <<lock, right, attempt>>
    BY <1>6, <2>1 DEF ReadExisting, StepTo, LockTypes
  <2>3. lock # NoFile BY <1>6 DEF ReadExisting, Undisturbed
  <2> QED BY <1>1, <2>2, <2>3 DEF Undisturbed, Apart, Parse
<1>7. CASE MintRight(p)
  <2>1. judged[p] = Parse(lock) /\ lock # NoFile /\ right[judged[p]] = NoFile
    BY <1>7 DEF MintRight, Undisturbed
  <2>2. pc'[p] = "reread" /\ right'[judged[p]] = p /\ UNCHANGED <<lock, attempt, judged>>
    BY <1>7, <2>1 DEF MintRight, StepTo, LockTypes
  <2>3. Parse(lock)' = Parse(lock) BY <2>2 DEF Parse
  <2>4. \A q \in Procs \ {p} :
          /\ pc'[q] \in {"start", "claim", "read", "mint", "orphan", "exhausted"}
          /\ pc'[q] \in {"mint", "orphan"} => judged'[q] = Parse(lock)
    BY <1>1 DEF Undisturbed, Apart
  <2> QED BY <1>2, <2>1, <2>2, <2>3, <2>4 DEF IsNext, BreaksWhatWasLeft, Undisturbed
<1> QED
  BY <1>2, <1>3, <1>4, <1>5, <1>6, <1>7
  DEF Acquire, VerifyClaim, JudgeRight, ClearRight, Reread, CheckPresent, RenameAside, Inspect,
      PutBack, Discard

\* Nobody takes the right of the one that breaks the lock, and it breaks it.
LEMMA BreakerStep ==
  ASSUME LockTypes, TwoAtMost, NEW p \in Procs, LockStepOf(p), OpenLock(p) \/ Acquire(p),
         Untaken, NEW o \in Procs, BreaksWhatWasLeft(o)
  PROVE  IsNext(o)'
<1> USE DEF BreaksWhatWasLeft
<1>1. LockTypes' /\ Apart(p) BY LockTypesStep
<1>2. lock # NoFile /\ lock \in {Garbage, GhostToken} /\ o # NoFile
  BY LockAssumption DEF LeftBehind
<1>3. CASE p = o
  <2>1. CASE Reread(p) \/ CheckPresent(p)
    BY <1>1, <1>2, <1>3, <2>1
    DEF Reread, CheckPresent, StepTo, LockTypes, Parse, IsNext, Apart
  <2>2. CASE RenameAside(p)
    <3>1. lock' = NoFile /\ aside'[judged[p]] = lock /\ pc'[p] = "inspect"
          /\ UNCHANGED <<attempt, judged>>
      BY <1>2, <2>2 DEF RenameAside, StepTo, LockTypes
    <3>2. Parse(aside[judged[p]])' = judged'[p] BY <1>3, <3>1 DEF Parse
    <3>3. \A q \in Procs \ {p} : pc'[q] \notin {"inspect", "putback", "discard"}
      BY <1>1, <1>3 DEF Apart
    <3> QED BY <1>3, <3>1, <3>2, <3>3 DEF IsNext, FreedThePath
  <2> QED
    BY <1>3, <2>1, <2>2
    DEF OpenLock, Acquire, ClaimLock, VerifyClaim, ReadExisting, MintRight, JudgeRight,
        ClearRight, Inspect, PutBack, Discard
<1>4. CASE p # o
  <2>1. pc'[o] = pc[o] /\ attempt'[o] = attempt[o] /\ judged'[o] = judged[o]
    BY <1>1, <1>4 DEF Apart
  <2> SUFFICES /\ lock' = lock /\ right'[Parse(lock)] = right[Parse(lock)]
               /\ pc'[p] \in {"start", "claim", "read", "mint", "orphan", "exhausted"}
               /\ pc'[p] \in {"mint", "orphan"} => judged'[p] = Parse(lock)
    BY <1>1, <1>4, <2>1 DEF IsNext, Apart, Parse
  <2>2. CASE OpenLock(p) \/ ClaimLock(p)
    BY <1>1, <1>2, <2>2 DEF OpenLock, ClaimLock, StepTo, LockTypes
  <2>3. CASE ReadExisting(p)
    <3>1. Parse(lock) \notin OwnedBy(p) \cup Honored(p)
      BY <1>2, LockAssumption, LockFilesAssumption DEF Parse, OwnedBy, Honored, GhostToken, PidAlive
    <3> QED BY <2>3, <3>1 DEF ReadExisting, StepTo, LockTypes
  <2>4. CASE MintRight(p)
    BY <1>2, <1>4, <2>4 DEF MintRight, StepTo, LockTypes
  <2>5. CASE JudgeRight(p)
    <3>1. judged[p] = Parse(lock) /\ PidAlive(o)
      BY <1>4, <2>5 DEF JudgeRight, PidAlive, Untaken
    <3>2. Retry(p) /\ UNCHANGED <<lock, right, judged>> BY <2>5, <3>1 DEF JudgeRight
    <3> QED BY <3>2, RetryEffect
  <2> QED
    BY <1>4, <2>2, <2>3, <2>4, <2>5
    DEF Acquire, VerifyClaim, ClearRight, Reread, CheckPresent, RenameAside, Inspect, PutBack,
        Discard
<1> QED BY <1>3, <1>4

\* The one who freed the path claims it, unless another does.
LEMMA FreedStep ==
  ASSUME LockTypes, TwoAtMost, MaxAttempts >= 3, NEW p \in Procs, LockStepOf(p),
         OpenLock(p) \/ Acquire(p), Untaken, NEW o \in Procs, FreedThePath(o)
  PROVE  IsNext(o)' \/ IsNext(p)'
<1> USE DEF FreedThePath
<1>1. LockTypes' /\ Apart(p) BY LockTypesStep
<1>2. CASE ClaimLock(p)
  <2>1. lock' = Mine(p) /\ pc'[p] = "verify" /\ UNCHANGED attempt
    BY <1>2 DEF ClaimLock, StepTo, LockTypes
  <2>2. Mine(p)' = Mine(p) /\ Mine(p) \in OwnedBy(p)
    BY <2>1 DEF Mine, OwnedBy, Token, LockTypes
  <2>3. \A q \in Procs \ {p} : pc[q] \notin {"exists", "rename"} \/ p = o
    BY <1>2 DEF TwoAtMost, Busy, Closed, ClaimLock
  <2>4. p = o => attempt'[p] <= 2 BY <1>2, <2>1 DEF ClaimLock
  <2> QED BY <1>1, <2>1, <2>2, <2>3, <2>4 DEF IsNext, ClaimIsAtThePath, OwnedBy, Apart
<1>3. CASE p = o /\ ~ClaimLock(p)
  <2>1. CASE Inspect(p)
    BY <1>1, <1>3, <2>1 DEF Inspect, StepTo, LockTypes, IsNext, Apart
  <2>2. CASE Discard(p)
    BY <1>1, <1>3, <2>2 DEF Discard, StepTo, LockTypes, IsNext, Apart
  <2>3. CASE ClearRight(p)
    <3>1. Retry(p) /\ lock' = lock /\ attempt[p] = 1 BY <1>3, <2>3 DEF ClearRight
    <3>2. pc'[p] = "claim" /\ attempt'[p] = 2 BY <3>1, RetryEffect, LockAssumption
    <3> QED BY <1>1, <1>3, <3>1, <3>2 DEF IsNext, Apart
  <2> QED
    BY <1>3, <2>1, <2>2, <2>3
    DEF OpenLock, Acquire, VerifyClaim, ReadExisting, MintRight, JudgeRight,
        PutBack, Reread, CheckPresent, RenameAside
<1>4. CASE p # o /\ ~ClaimLock(p)
  <2>1. pc'[o] = pc[o] /\ attempt'[o] = attempt[o] /\ judged'[o] = judged[o]
    BY <1>1, <1>4 DEF Apart
  <2> SUFFICES /\ lock' = lock /\ aside' = aside /\ pc'[p] \notin {"inspect", "putback", "discard"}
    BY <1>1, <1>4, <2>1 DEF IsNext, Apart, Parse
  <2>2. CASE ClearRight(p) \/ JudgeRight(p) \/ VerifyClaim(p)
    BY <2>2, RetryEffect DEF ClearRight, JudgeRight, VerifyClaim, StepTo, LockTypes
  <2>3. CASE OpenLock(p) \/ ReadExisting(p) \/ MintRight(p) \/ Reread(p) \/ CheckPresent(p)
             \/ RenameAside(p)
    BY <2>3
    DEF OpenLock, ReadExisting, MintRight, Reread, CheckPresent, RenameAside, StepTo, LockTypes
  <2>4. ~(Inspect(p) \/ PutBack(p) \/ Discard(p)) BY <1>4 DEF Inspect, PutBack, Discard
  <2> QED BY <1>4, <2>2, <2>3, <2>4 DEF Acquire
<1> QED BY <1>2, <1>3, <1>4

\* A claim stays at the path until its owner is sure of it, or is moved aside once.
LEMMA ClaimStep ==
  ASSUME LockTypes, TwoAtMost, MaxAttempts >= 3, JudgedAreDead, aged = {},
         NEW p \in Procs, LockStepOf(p), OpenLock(p) \/ Acquire(p), Untaken, Untaken',
         NEW o \in Procs, ClaimIsAtThePath(o)
  PROVE  IsNext(o)'
<1> USE DEF ClaimIsAtThePath
<1>1. LockTypes' /\ Apart(p) BY LockTypesStep
<1>2. lock \in Token /\ lock.owner = o /\ Parse(lock) = lock /\ lock # NoFile /\ o \in Busy
  BY LockFilesAssumption DEF OwnedBy, Parse, Busy, Closed
<1>3. CASE p = o
  <2>1. ~VerifyClaim(p)
    BY <1>2, <1>3, LockFilesAssumption DEF VerifyClaim, Untaken, LockTypes
  <2>2. ~ReadExisting(p)
    <3> SUFFICES ASSUME ReadExisting(p) PROVE FALSE
      OBVIOUS
    <3>1. Parse(lock) \in OwnedBy(p) BY <1>2, <1>3
    <3>2. p \in Procs /\ held'[p] = Parse(lock)
      BY <3>1 DEF ReadExisting, LockTypes, Honored, OwnedBy
    <3> QED BY <1>2, <3>2, LockFilesAssumption DEF Untaken
  <2>3. ClaimLock(p)
    BY <1>3, <2>1, <2>2
    DEF OpenLock, Acquire, MintRight, JudgeRight, ClearRight,
        PutBack, Reread, CheckPresent, RenameAside, Inspect, Discard
  <2> QED BY <1>1, <1>2, <1>3, <2>3 DEF ClaimLock, StepTo, LockTypes, IsNext, Apart, OwnedBy
<1>4. CASE p # o /\ RenameAside(p)
  <2>1. pc[o] = "verify" /\ attempt[o] <= 2 /\ lock = Mine(o) BY <1>4 DEF RenameAside
  <2>2. lock' = NoFile /\ aside'[judged[p]] = lock /\ pc'[p] = "inspect"
        /\ UNCHANGED <<attempt, judged>>
    BY <1>2, <1>4 DEF RenameAside, StepTo, LockTypes
  <2>3. Mine(o)' = Mine(o) BY <2>2 DEF Mine
  <2>4. pc'[o] = "verify" /\ attempt'[o] <= 2 BY <1>1, <1>4, <2>1 DEF Apart
  <2> QED BY <1>2, <1>4, <2>1, <2>2, <2>3, <2>4 DEF IsNext, ClaimWasMoved, OwnedBy
<1>5. CASE p # o /\ ~RenameAside(p)
  <2>1. pc'[o] = pc[o] /\ attempt'[o] = attempt[o] /\ Mine(o)' = Mine(o)
    BY <1>1, <1>5 DEF Apart, Mine
  <2> SUFFICES lock' = lock /\ (pc'[p] \in {"exists", "rename"} => pc[p] = "exists")
    BY <1>1, <1>5, <2>1 DEF IsNext, Apart, OwnedBy
  <2>2. CASE ClearRight(p) \/ JudgeRight(p) \/ VerifyClaim(p)
    BY <2>2, RetryEffect DEF ClearRight, JudgeRight, VerifyClaim, StepTo, LockTypes
  <2>3. CASE Reread(p)
    <3>1. judged[p] # lock
      BY <1>2, <2>3, LockAssumption DEF Reread, JudgedAreDead, Breaking, Dead, Untaken
    <3> QED BY <1>2, <2>3, <3>1 DEF Reread, StepTo, LockTypes
  <2>4. CASE OpenLock(p) \/ ClaimLock(p) \/ ReadExisting(p) \/ MintRight(p) \/ CheckPresent(p)
             \/ Inspect(p) \/ PutBack(p) \/ Discard(p)
    BY <1>2, <2>4
    DEF OpenLock, ClaimLock, ReadExisting, MintRight, CheckPresent, Inspect, PutBack, Discard,
        StepTo, LockTypes
  <2> QED BY <1>5, <2>2, <2>3, <2>4 DEF Acquire
<1> QED BY <1>3, <1>4, <1>5

\* A claim that was moved aside goes back, or its owner claims again.
LEMMA MovedStep ==
  ASSUME LockTypes, TwoAtMost, MaxAttempts >= 3, JudgedAreDead,
         NEW p \in Procs, LockStepOf(p), OpenLock(p) \/ Acquire(p), Untaken, Untaken',
         NEW o \in Procs, ClaimWasMoved(o)
  PROVE  IsNext(o)'
<1>1. LockTypes' /\ Apart(p) BY LockTypesStep
<1>2. PICK q \in Procs \ {o} :
          /\ pc[q] \in {"inspect", "putback"} /\ aside[judged[q]] \in OwnedBy(o)
          /\ pc[o] = "verify" => aside[judged[q]] = Mine(o)
  BY DEF ClaimWasMoved
<1>3. lock = NoFile /\ pc[o] \in {"verify", "claim"} /\ (pc[o] = "verify" => attempt[o] <= 2)
  BY DEF ClaimWasMoved
<1>4. \A r \in Procs \ {o, q} : r \notin Busy
  BY <1>2, <1>3 DEF TwoAtMost, Busy, Closed
<1>5. CASE p = o
  <2>1. CASE ClaimLock(p)
    <3>1. lock' = Mine(p) /\ pc'[p] = "verify" /\ UNCHANGED attempt
      BY <1>3, <2>1 DEF ClaimLock, StepTo, LockTypes
    <3>2. Mine(p)' = Mine(p) /\ Mine(p) \in OwnedBy(p)
      BY <3>1 DEF Mine, OwnedBy, Token, LockTypes
    <3>3. \A r \in Procs \ {p} : pc'[r] \notin {"exists", "rename"}
      BY <1>1, <1>2, <1>4, <1>5 DEF Apart, Busy, Closed
    <3> QED BY <1>5, <3>1, <3>2, <3>3 DEF IsNext, ClaimIsAtThePath, OwnedBy
  <2>2. CASE VerifyClaim(p)
    <3>1. Retry(p) /\ UNCHANGED <<lock, aside, judged>>
      <4>1. Mine(p) \in Token BY DEF Mine, Token, LockTypes
      <4> QED BY <1>5, <2>2, <4>1, LockFilesAssumption DEF VerifyClaim, Untaken, LockTypes
    <3>2. attempt[p] <= 2 BY <1>3, <1>5, <2>2 DEF VerifyClaim
    <3>3. pc'[p] = "claim" BY <3>1, <3>2, RetryEffect, LockAssumption DEF LockTypes
    <3> QED BY <1>1, <1>2, <1>3, <1>5, <3>1, <3>3 DEF IsNext, ClaimWasMoved, Apart, OwnedBy
  <2> QED
    BY <1>3, <1>5, <2>1, <2>2
    DEF OpenLock, Acquire, ReadExisting, MintRight, JudgeRight, ClearRight,
        PutBack, Reread, CheckPresent, RenameAside, Inspect, Discard
<1>6. CASE p = q
  <2>1. pc'[o] = pc[o] /\ attempt'[o] = attempt[o] /\ Mine(o)' = Mine(o)
    BY <1>1, <1>2, <1>6 DEF Apart, Mine
  <2>2. aside[judged[q]] \in Token /\ aside[judged[q]].owner = o
    BY <1>2 DEF OwnedBy
  <2>3. CASE Inspect(p)
    <3>1. Parse(aside[judged[q]]) = aside[judged[q]]
      BY <2>2, LockFilesAssumption DEF Parse
    <3>2. judged[q] # aside[judged[q]]
      BY <1>2, <2>2, LockAssumption, LockFilesAssumption DEF JudgedAreDead, Breaking, Dead, Untaken
    <3>3. pc'[q] = "putback" /\ UNCHANGED <<lock, aside, judged>>
      BY <1>6, <2>3, <3>1, <3>2 DEF Inspect, StepTo, LockTypes
    <3> QED BY <1>2, <1>3, <2>1, <3>3 DEF IsNext, ClaimWasMoved, OwnedBy
  <2>4. CASE PutBack(p)
    <3>1. lock' = aside[judged[q]] /\ pc'[q] = "discard"
      BY <1>3, <1>6, <2>4 DEF PutBack, StepTo, LockTypes
    <3>2. \A r \in Procs \ {o} : pc'[r] \notin {"exists", "rename"}
      BY <1>1, <1>4, <1>6, <3>1 DEF Apart, Busy, Closed
    <3> QED BY <1>2, <1>3, <2>1, <3>1, <3>2 DEF IsNext, ClaimIsAtThePath, OwnedBy
  <2> QED
    BY <1>2, <1>6, <2>3, <2>4
    DEF OpenLock, Acquire, ClaimLock, VerifyClaim, ReadExisting, MintRight, JudgeRight,
        ClearRight, Reread, CheckPresent, RenameAside, Discard
<1>7. CASE p # o /\ p # q
  <2>1. OpenLock(p)
    BY <1>4, <1>7
    DEF Busy, Closed, Acquire, ClaimLock, VerifyClaim, ReadExisting, MintRight, JudgeRight,
        ClearRight, Reread, CheckPresent, RenameAside, Inspect, PutBack, Discard
  <2>2. UNCHANGED <<lock, aside, judged, attempt>> BY <2>1 DEF OpenLock
  <2>3. pc'[o] = pc[o] /\ pc'[q] = pc[q] BY <1>1, <1>2, <1>7 DEF Apart
  <2> QED BY <1>2, <1>3, <2>2, <2>3 DEF IsNext, ClaimWasMoved, OwnedBy, Mine
<1> QED BY <1>5, <1>6, <1>7

LEMMA SomebodyIsNextStep ==
  ASSUME MaxAlive <= 2, MaxAttempts >= 3, SomebodyIsNext, [LockNext]_lockVars
  PROVE  SomebodyIsNext'
<1>1. CASE UNCHANGED lockVars
  <2>1. LockTypes' /\ TwoAtMost' /\ TakersRemember' /\ (Untaken' => Untaken)
    BY <1>1 DEF lockVars, SomebodyIsNext, LockTypes, TwoAtMost, Busy, TakersRemember, Untaken
  <2>2. Untaken => aged' = {} /\ JudgedAreDead'
    BY <1>1 DEF lockVars, SomebodyIsNext, JudgedAreDead, Dead
  <2>3. Undisturbed => Undisturbed' BY <1>1 DEF lockVars, Undisturbed, Parse
  <2>4. \A o \in Procs : IsNext(o) => IsNext(o)'
    BY <1>1 DEF lockVars, IsNext, BreaksWhatWasLeft, FreedThePath, ClaimIsAtThePath, ClaimWasMoved,
                OwnedBy, Mine, Parse
  <2> QED BY <2>1, <2>2, <2>3, <2>4 DEF SomebodyIsNext
<1>2. ASSUME NEW p \in Procs, LockStepOf(p) PROVE SomebodyIsNext'
  <2>1. LockTypes /\ TwoAtMost /\ TakersRemember BY DEF SomebodyIsNext
  <2>2. LockTypes' /\ TwoAtMost' /\ TakersRemember' /\ (Untaken' => Untaken)
    BY <1>2, <2>1, LockTypesStep, TwoAtMostStep, TakersRememberStep
  <2>3. ASSUME Untaken'
        PROVE  /\ aged' = {} /\ JudgedAreDead'
               /\ Undisturbed' \/ \E r \in Procs : IsNext(r)'
    <3>1. Untaken /\ aged = {} /\ JudgedAreDead /\ (Undisturbed \/ \E r \in Procs : IsNext(r))
      BY <2>2, <2>3 DEF SomebodyIsNext
    <3>2. (OpenLock(p) \/ Acquire(p)) /\ aged' = aged BY <1>2, <2>1, <2>3, <3>1, OpenersOnly
    <3>3. JudgedAreDead' BY <1>2, <2>1, <3>1, JudgedAreDeadStep
    <3>4. CASE Undisturbed
      BY <1>2, <2>1, <2>3, <3>1, <3>2, <3>3, <3>4, UndisturbedStep
    <3>5. ASSUME NEW o \in Procs, IsNext(o) PROVE IsNext(o)' \/ IsNext(p)'
      <4>1. CASE BreaksWhatWasLeft(o) BY <1>2, <2>1, <3>1, <3>2, <4>1, BreakerStep
      <4>2. CASE FreedThePath(o) BY <1>2, <2>1, <3>1, <3>2, <4>2, FreedStep
      <4>3. CASE ClaimIsAtThePath(o) BY <1>2, <2>1, <2>3, <3>1, <3>2, <4>3, ClaimStep
      <4>4. CASE ClaimWasMoved(o) BY <1>2, <2>1, <2>3, <3>1, <3>2, <4>4, MovedStep
      <4> QED BY <3>5, <4>1, <4>2, <4>3, <4>4 DEF IsNext
    <3> QED BY <1>2, <3>1, <3>2, <3>3, <3>4, <3>5
  <2> QED BY <2>2, <2>3 DEF SomebodyIsNext
<1> QED BY <1>1, <1>2 DEF LockNext, LockStepOf

LEMMA SomebodyIsNextSuffices == Procs # {} /\ SomebodyIsNext => SomebodyWins
<1> SUFFICES ASSUME Procs # {}, SomebodyIsNext,
                    \A p \in Procs : pc[p] \in Closed \ {"crashed"},
                    \A p \in Procs : held[p] = NoFile
             PROVE  FALSE
  BY DEF SomebodyWins
<1>1. Untaken BY DEF Untaken
<1>2. ~Undisturbed BY DEF Undisturbed, Closed
<1>3. \A p \in Procs : ~IsNext(p)
  BY DEF Closed, IsNext, BreaksWhatWasLeft, FreedThePath, ClaimIsAtThePath, ClaimWasMoved
<1> QED BY <1>1, <1>2, <1>3 DEF SomebodyIsNext

\* Of the processes that race for the workspace, two at a time, somebody gets it: when all are
\* through and none died, one of them had the lock, whatever lock was left at the start.  Three
\* passes are enough, because a claim is moved aside only by the one process that found the path
\* free a moment before, and only once (acquireLock() and breakStaleLock()).
THEOREM OpenersAreNotAllRefused ==
  ASSUME MaxAlive <= 2, MaxAttempts >= 3, Procs # {}
  PROVE  LockSpec => []SomebodyWins
<1>1. LockInit => SomebodyIsNext BY SomebodyIsNextInit
<1>2. SomebodyIsNext /\ [LockNext]_lockVars => SomebodyIsNext' BY SomebodyIsNextStep
<1>3. SomebodyIsNext => SomebodyWins BY SomebodyIsNextSuffices
<1> QED BY <1>1, <1>2, <1>3, PTL DEF LockSpec

-----------------------------------------------------------------------------
(* With one process at a time.                                             *)

LEMMA OneAtMostStep ==
  ASSUME LockTypes, OneAtMost, MaxAlive = 1, NEW p \in Procs, LockStepOf(p)
  PROVE  OneAtMost'
<1>1. CASE Busy' \subseteq Busy BY <1>1 DEF OneAtMost
<1>2. CASE OpenLock(p) /\ Busy' \subseteq Busy \cup {p}
  <2>1. Busy = {} BY <1>2, OpeningFindsRoom
  <2> QED BY <1>2, <2>1 DEF OneAtMost
<1> QED BY <1>1, <1>2, OnlyOpeningAdds

\* A step of an opener that was open: the others are not busy.
LEMMA StepsAlone ==
  ASSUME OneAtMost, NEW p \in Procs, LockStepOf(p), ~OpenLock(p), ~OpenerDies(p)
  PROVE  p \in Busy /\ \A q \in Procs \ {p} : pc[q] \in Closed \cup {"start"}
<1>1. p \in Busy
  BY DEF Busy, LockStepOf, Acquire, CloseLock, ClaimLock, VerifyClaim, ReadExisting, MintRight,
         JudgeRight, ClearRight, Reread, CheckPresent, RenameAside, Inspect, PutBack, Discard,
         BeginRelease, CheckOwn, DeleteLock, GrowOld, Closed
<1> QED BY <1>1 DEF OneAtMost, Busy

LEMMA TakersStep ==
  ASSUME LoneOpenerInv, NEW p \in Procs, LockStepOf(p)
  PROVE  TakersHaveTheLock'
<1> USE DEF LoneOpenerInv
<1> DEFINE Taking == {"verify", "held", "check", "delete"}
<1> SUFFICES ASSUME NEW q \in Procs
             PROVE  /\ pc'[q] \in Taking => lock' = Mine(q)'
                    /\ pc'[q] \in Having => held'[q] = Mine(q)'
  BY DEF TakersHaveTheLock, Having
<1>1. LockTypes' /\ Apart(p) BY LockTypesStep
<1>2. CASE OpenLock(p) \/ OpenerDies(p)
  <2>1. pc'[q] \in Taking => pc'[q] = pc[q]
    BY <1>2 DEF OpenLock, OpenerDies, StepTo, LockTypes
  <2>2. UNCHANGED <<lock, held, attempt>> BY <1>2 DEF OpenLock, OpenerDies
  <2> QED BY <2>1, <2>2 DEF TakersHaveTheLock, Mine, Having
<1>3. CASE ~OpenLock(p) /\ ~OpenerDies(p)
  <2>1. CASE q # p
    <3>1. pc'[q] \in Closed \cup {"start"} BY <1>1, <1>3, <2>1, StepsAlone DEF Apart
    <3> QED BY <3>1 DEF Closed, Having
  <2>2. CASE q = p
    <3>1. CASE ClaimLock(p) BY <2>2, <3>1 DEF ClaimLock, StepTo, Mine, LockTypes, Having
    <3>2. CASE VerifyClaim(p)
      BY <2>2, <3>2 DEF VerifyClaim, TakersHaveTheLock, Parse, StepTo, Mine, LockTypes, Having, Retry
    <3>3. CASE ReadExisting(p)
      <4>1. Parse(lock) \notin OwnedBy(p)
        <5> SUFFICES ASSUME Parse(lock) \in OwnedBy(p) PROVE FALSE
          OBVIOUS
        <5>1. lock \in Token /\ lock.owner = p
          BY LockFilesAssumption DEF Parse, OwnedBy
        <5>2. pc[p] = "read" /\ p # Ghost BY <3>3, LockAssumption DEF ReadExisting
        <5> QED BY <5>1, <5>2 DEF LockIsAccountedFor, Dead
      <4> QED BY <2>2, <3>3, <4>1 DEF ReadExisting, StepTo, LockTypes, Having
    <3>4. CASE ClearRight(p) \/ JudgeRight(p)
      BY <2>2, <3>4, RetryEffect DEF ClearRight, JudgeRight, StepTo, LockTypes, Having
    <3>5. CASE BeginRelease(p) \/ CheckOwn(p) \/ GrowOld(p)
      BY <2>2, <3>5 DEF BeginRelease, CheckOwn, GrowOld, StepTo, LockTypes, Mine, TakersHaveTheLock,
                        Having
    <3> QED
      BY <1>3, <2>2, <3>1, <3>2, <3>3, <3>4, <3>5
      DEF LockStepOf, Acquire, CloseLock, MintRight, Reread, CheckPresent, RenameAside, Inspect,
          PutBack, Discard, DeleteLock, StepTo, LockTypes, Having
  <2> QED BY <2>1, <2>2
<1> QED BY <1>2, <1>3

LEMMA LockAccountedStep ==
  ASSUME LoneOpenerInv, NEW p \in Procs, LockStepOf(p)
  PROVE  LockIsAccountedFor'
<1> USE DEF LoneOpenerInv
<1> SUFFICES ASSUME lock' \in Token
             PROVE  \/ (Dead(lock.owner))'
                    \/ /\ lock'.owner \in Procs
                       /\ pc'[lock'.owner] \in {"verify", "held", "check", "delete"}
  BY DEF LockIsAccountedFor, Dead
<1>1. LockTypes' /\ Apart(p) /\ \A o : Dead(o) => Dead(o)' BY LockTypesStep, DeadStay
<1>2. CASE ClaimLock(p) /\ lock = NoFile
  BY <1>2 DEF ClaimLock, Mine, StepTo, LockTypes
<1>3. CASE lock' = lock /\ lock.owner # p BY <1>1, <1>3 DEF LockIsAccountedFor, Apart, Dead
<1>4. CASE lock' = lock /\ lock.owner = p /\ ~Dead(p)
  <2>1. pc[p] \in {"verify", "held", "check", "delete"}
    BY <1>4 DEF LockIsAccountedFor
  <2>2. lock = Mine(p) /\ (pc[p] \in Having => held[p] = lock)
    BY <2>1 DEF TakersHaveTheLock, Having
  <2>3. Parse(lock) = lock BY <1>4, LockFilesAssumption DEF Parse
  <2>4. pc'[p] \in {"verify", "held", "check", "delete"} \/ pc'[p] = "crashed"
    BY <1>4, <2>1, <2>2, <2>3, LockFilesAssumption
    DEF LockStepOf, Acquire, CloseLock, OpenLock, ClaimLock, VerifyClaim, ReadExisting,
        MintRight, JudgeRight, ClearRight, Reread, CheckPresent, RenameAside, Inspect, PutBack,
        Discard, BeginRelease, CheckOwn, DeleteLock, OpenerDies, GrowOld, StepTo, LockTypes, Having
  <2> QED BY <1>4, <2>4 DEF Dead
<1>5. CASE lock' = lock /\ Dead(lock.owner) BY <1>1, <1>5 DEF Dead
<1>6. CASE lock' # lock /\ ~(ClaimLock(p) /\ lock = NoFile)
  <2>1. ~PutBack(p) BY DEF PutBack, WithinBudget, Budget
  <2>2. lock' = NoFile
    BY <1>6, <2>1
    DEF LockStepOf, Acquire, CloseLock, OpenLock, ClaimLock, VerifyClaim, ReadExisting,
        MintRight, JudgeRight, ClearRight, Reread, CheckPresent, RenameAside, Inspect,
        Discard, BeginRelease, CheckOwn, DeleteLock, OpenerDies, GrowOld
  <2> QED BY <2>2, LockFilesAssumption
<1> QED BY <1>2, <1>3, <1>4, <1>5, <1>6

LEMMA RightsStep ==
  ASSUME LoneOpenerInv, NEW p \in Procs, LockStepOf(p)
  PROVE  RightsAreAccountedFor'
<1> USE DEF LoneOpenerInv
<1> DEFINE Using == {"reread", "exists", "rename", "inspect", "putback", "discard", "drop"}
<1> SUFFICES ASSUME NEW k \in LockKeys, right'[k] # NoFile
             PROVE  (Dead(right[k]))' \/ (pc'[right'[k]] \in Using /\ judged'[right'[k]] = k)
  BY DEF RightsAreAccountedFor, Dead
<1>1. LockTypes' /\ Apart(p) /\ \A o : Dead(o) => Dead(o)' BY LockTypesStep, DeadStay
<1>2. CASE MintRight(p) /\ right'[k] # right[k]
  BY <1>2 DEF MintRight, StepTo, LockTypes
<1>3. CASE ~MintRight(p) /\ right'[k] # right[k]
  BY <1>3
  DEF LockStepOf, Acquire, CloseLock, OpenLock, ClaimLock, VerifyClaim, ReadExisting,
      JudgeRight, ClearRight, Reread, CheckPresent, RenameAside, Inspect, PutBack,
      Discard, BeginRelease, CheckOwn, DeleteLock, OpenerDies, GrowOld, LockTypes
<1>4. CASE right'[k] = right[k] /\ Dead(right[k]) BY <1>1, <1>4 DEF Dead
<1>5. CASE right'[k] = right[k] /\ ~Dead(right[k])
  <2>1. right[k] \in Procs BY <1>5 DEF LockTypes
  <2>2. pc[right[k]] \in Using /\ judged[right[k]] = k BY <1>5 DEF RightsAreAccountedFor
  <2>3. CASE right[k] # p BY <1>1, <1>5, <2>1, <2>2, <2>3 DEF Apart
  <2>4. CASE right[k] = p
    <3>1. ~ClearRight(p) BY <1>5, <2>2, <2>4, LockAssumption DEF ClearRight, LockTypes
    <3> QED
      BY <1>5, <2>2, <2>4, <3>1
      DEF LockStepOf, Acquire, CloseLock, OpenLock, ClaimLock, VerifyClaim, ReadExisting,
          MintRight, JudgeRight, Reread, CheckPresent, RenameAside, Inspect, PutBack,
          Discard, BeginRelease, CheckOwn, DeleteLock, OpenerDies, GrowOld, StepTo, LockTypes, Dead
  <2> QED BY <2>3, <2>4
<1> QED BY <1>2, <1>3, <1>4, <1>5

\* The right on what an opener judged is nobody's, its own, or of a dead process.
LEMMA RightOfTheJudged ==
  ASSUME LoneOpenerInv, NEW p \in Procs, pc[p] = "orphan", right[judged[p]] # NoFile
  PROVE  right[judged[p]] \in Procs /\ ~PidAlive(right[judged[p]])
<1>1. judged[p] \in LockKeys /\ right[judged[p]] \in Procs
  BY DEF LoneOpenerInv, LockTypes
<1>2. right[judged[p]] # p /\ p \in Busy
  BY <1>1, LockAssumption DEF LoneOpenerInv, RightsAreAccountedFor, Dead, Busy, Closed
<1>3. pc[right[judged[p]]] \in Closed \cup {"start"}
  BY <1>1, <1>2 DEF LoneOpenerInv, OneAtMost, Busy
<1>4. Dead(right[judged[p]])
  BY <1>1, <1>3 DEF LoneOpenerInv, RightsAreAccountedFor, Closed
<1> QED BY <1>1, <1>4, LockAssumption DEF Dead, PidAlive

\* What stands in the way of an opener that is alone is not honored.
LEMMA NobodyIsHonored ==
  ASSUME LoneOpenerInv, NEW p \in Procs, pc[p] = "read"
  PROVE  Parse(lock) \notin OwnedBy(p) \cup Honored(p)
<1> SUFFICES ASSUME Parse(lock) \in Token,
                    Parse(lock).owner = p \/ PidAlive(Parse(lock).owner)
             PROVE  FALSE
  BY DEF OwnedBy, Honored
<1>1. lock \in Token /\ Parse(lock) = lock BY LockFilesAssumption DEF Parse
<1>2. ~Dead(lock.owner) BY <1>1, LockAssumption DEF Dead, PidAlive
<1>3. lock.owner \in Procs /\ pc[lock.owner] \in {"verify", "held", "check", "delete"}
  BY <1>1, <1>2 DEF LoneOpenerInv, LockIsAccountedFor
<1>4. lock.owner = p
  BY <1>3 DEF LoneOpenerInv, OneAtMost, Busy, Closed
<1> QED BY <1>3, <1>4

LEMMA BudgetStep ==
  ASSUME LoneOpenerInv, MaxAttempts >= 3, NEW p \in Procs, LockStepOf(p)
  PROVE  Budget(p)'
<1> USE DEF LoneOpenerInv
<1>a. LockTypes /\ Budget(p) /\ MaxAttempts \in Nat BY LockAssumption DEF WithinBudget
<1>m. Mine(p) \in Token BY <1>a DEF Mine, Token, LockTypes
<1>1. CASE OpenLock(p)
  BY <1>1, <1>a DEF OpenLock, StepTo, LockTypes, Budget, Unhindered
<1>2. CASE ClaimLock(p)
  BY <1>2, <1>a DEF ClaimLock, StepTo, LockTypes, Budget, Unhindered
<1>3. CASE VerifyClaim(p)
  <2>1. Parse(lock) = Mine(p)
    BY <1>3, <1>m, LockFilesAssumption DEF VerifyClaim, TakersHaveTheLock, Parse
  <2> QED BY <1>3, <1>a, <2>1 DEF VerifyClaim, StepTo, LockTypes, Budget
<1>4. CASE ReadExisting(p)
  <2>1. pc'[p] = "mint" /\ judged'[p] = Parse(lock)
    BY <1>4, NobodyIsHonored DEF ReadExisting, StepTo, LockTypes
  <2>2. UNCHANGED <<lock, right, attempt>> BY <1>4 DEF ReadExisting
  <2>3. lock # NoFile /\ Unhindered(p) BY <1>4, <1>a DEF ReadExisting, Budget
  <2> QED BY <2>1, <2>2, <2>3 DEF Budget, Unhindered, AtTheLock, Parse
<1>5. CASE MintRight(p)
  <2>1. AtTheLock(p) /\ Unhindered(p) /\ UNCHANGED <<lock, attempt, judged>>
    BY <1>5, <1>a DEF MintRight, Budget
  <2>2. CASE right[judged[p]] = NoFile
    <3>1. pc'[p] = "reread" BY <1>5, <2>2 DEF MintRight, StepTo, LockTypes
    <3> QED BY <2>1, <3>1, <1>a DEF Budget, AtTheLock, Unhindered, Parse, LockTypes
  <2>3. CASE right[judged[p]] # NoFile
    <3>1. pc'[p] = "orphan" BY <1>5, <2>3 DEF MintRight, StepTo, LockTypes
    <3>2. attempt[p] = 1 BY <2>1, <2>3 DEF AtTheLock, Unhindered
    <3> QED BY <2>1, <3>1, <3>2 DEF Budget, AtTheLock, Parse
  <2> QED BY <2>2, <2>3
<1>6. CASE JudgeRight(p)
  <2>1. AtTheLock(p) /\ attempt[p] = 1 /\ UNCHANGED <<lock, right, judged>> /\ pc[p] = "orphan"
    BY <1>6, <1>a DEF JudgeRight, Budget
  <2>2. CASE right[judged[p]] # NoFile
    <3>1. pc'[p] = "clear" /\ attempt' = attempt
      BY <1>6, <2>1, <2>2, RightOfTheJudged DEF JudgeRight, StepTo, LockTypes
    <3> QED BY <2>1, <3>1 DEF Budget, AtTheLock, Parse
  <2>3. CASE right[judged[p]] = NoFile
    <3>1. Retry(p) BY <1>6, <2>1, <2>3 DEF JudgeRight, AtTheLock
    <3>2. pc'[p] = "claim" /\ attempt'[p] = 2 BY <1>a, <2>1, <3>1, RetryEffect
    <3> QED BY <2>1, <2>3, <3>2 DEF Budget, Unhindered, AtTheLock, Parse
  <2> QED BY <2>2, <2>3
<1>7. CASE ClearRight(p)
  <2>1. Retry(p) /\ UNCHANGED <<lock, judged>> /\ right'[judged[p]] = NoFile
    BY <1>7, <1>a DEF ClearRight, LockTypes
  <2>2. attempt[p] <= 2 /\ attempt[p] \in Nat BY <1>7, <1>a DEF ClearRight, Budget, LockTypes
  <2>3. pc'[p] = "claim" /\ attempt'[p] = attempt[p] + 1 BY <1>a, <2>1, <2>2, RetryEffect
  <2>4. CASE pc[p] = "clear"
    <3>1. judged[p] = Parse(lock) /\ attempt[p] = 1 BY <1>a, <2>4 DEF Budget, AtTheLock
    <3> QED BY <2>1, <2>3, <3>1 DEF Budget, Unhindered, Parse
  <2>5. CASE pc[p] = "drop"
    <3>1. lock = NoFile BY <1>a, <2>5 DEF Budget
    <3> QED BY <2>1, <2>2, <2>3, <3>1 DEF Budget
  <2> QED BY <1>7, <2>4, <2>5 DEF ClearRight
<1>8. CASE Reread(p)
  BY <1>8, <1>a DEF Reread, StepTo, LockTypes, Budget, AtTheLock, Parse
<1>9. CASE CheckPresent(p)
  BY <1>9, <1>a DEF CheckPresent, StepTo, LockTypes, Budget, AtTheLock, Parse
<1>10. CASE RenameAside(p)
  BY <1>10, <1>a DEF RenameAside, StepTo, LockTypes, Budget, AtTheLock, Parse
<1>11. CASE Inspect(p)
  BY <1>11, <1>a DEF Inspect, StepTo, LockTypes, Budget
<1>12. CASE PutBack(p) BY <1>12, <1>a DEF PutBack, Budget
<1>13. CASE Discard(p)
  BY <1>13, <1>a DEF Discard, StepTo, LockTypes, Budget
<1>14. CASE BeginRelease(p) \/ CheckOwn(p) \/ DeleteLock(p) \/ OpenerDies(p)
  BY <1>14, <1>a DEF BeginRelease, CheckOwn, DeleteLock, OpenerDies, StepTo, LockTypes, Budget
<1>15. CASE GrowOld(p) BY <1>15, <1>a DEF GrowOld, Budget
<1> QED
  BY <1>1, <1>2, <1>3, <1>4, <1>5, <1>6, <1>7, <1>8, <1>9, <1>10, <1>11, <1>12, <1>13, <1>14,
     <1>15 DEF LockStepOf, Acquire, CloseLock

LEMMA WithinBudgetStep ==
  ASSUME LoneOpenerInv, MaxAttempts >= 3, NEW p \in Procs, LockStepOf(p)
  PROVE  WithinBudget'
<1> SUFFICES ASSUME NEW q \in Procs \ {p} PROVE Budget(q)'
  BY BudgetStep DEF WithinBudget
<1>1. pc'[q] = pc[q] /\ attempt'[q] = attempt[q] /\ Budget(q)
  BY LockTypesStep DEF Apart, LoneOpenerInv, WithinBudget
<1>2. CASE pc[q] \in Closed \cup {"start"} BY <1>1, <1>2 DEF Budget, Closed
<1>3. CASE pc[q] \notin Closed \cup {"start"}
  <2>1. OpenLock(p) \/ OpenerDies(p) BY <1>3, StepsAlone DEF LoneOpenerInv
  <2>2. UNCHANGED <<lock, right, aside, judged>> BY <2>1 DEF OpenLock, OpenerDies
  <2> QED BY <1>1, <2>2 DEF Budget, AtTheLock, Unhindered, Parse
<1> QED BY <1>2, <1>3

LEMMA LoneOpenerInvInit == LockInit => LoneOpenerInv
  BY LockInitTypes, LockAssumption, LockFilesAssumption
  DEF LockInit, LoneOpenerInv, OneAtMost, Busy, LockIsAccountedFor, Dead, GhostToken,
      TakersHaveTheLock, RightsAreAccountedFor, WithinBudget, Budget

LEMMA LoneOpenerInvStep ==
  ASSUME MaxAlive = 1, MaxAttempts >= 3, LoneOpenerInv, [LockNext]_lockVars
  PROVE  LoneOpenerInv'
<1>1. CASE UNCHANGED lockVars
  BY <1>1 DEF lockVars, LoneOpenerInv, LockTypes, OneAtMost, Busy, LockIsAccountedFor, Dead,
              TakersHaveTheLock, Mine, RightsAreAccountedFor, WithinBudget, Budget, AtTheLock,
              Unhindered, Parse
<1>2. ASSUME NEW p \in Procs, LockStepOf(p) PROVE LoneOpenerInv'
  <2>1. LockTypes' /\ OneAtMost' BY <1>2, LockTypesStep, OneAtMostStep DEF LoneOpenerInv
  <2> QED
    BY <1>2, <2>1, LockAccountedStep, TakersStep, RightsStep, WithinBudgetStep DEF LoneOpenerInv
<1> QED BY <1>1, <1>2 DEF LockNext, LockStepOf

LEMMA LoneOpenerInvSuffices == LoneOpenerInv => LoneOpenerGetsIn
  BY DEF LoneOpenerInv, WithinBudget, Budget, LoneOpenerGetsIn

\* Wherever the processes before it died, and whatever lock, break right or moved file they
\* left, an opener that is alone is neither refused nor out of attempts: three passes are
\* enough, one for a dead process's right and one for a dead process's lock.
THEOREM DeadOpenersBlockNobody ==
  ASSUME MaxAlive = 1, MaxAttempts >= 3
  PROVE  LockSpec => []LoneOpenerGetsIn
<1>1. LockInit => LoneOpenerInv BY LoneOpenerInvInit
<1>2. LoneOpenerInv /\ [LockNext]_lockVars => LoneOpenerInv' BY LoneOpenerInvStep
<1>3. LoneOpenerInv => LoneOpenerGetsIn BY LoneOpenerInvSuffices
<1> QED BY <1>1, <1>2, <1>3, PTL DEF LockSpec

-----------------------------------------------------------------------------
(* Fan-out: one model at a time, and no session without an owner.           *)

\* A number's place among the members of a finite set, of which every place is some
\* member's.
LEMMA EveryPlaceIsTaken ==
    ASSUME NEW S \in SUBSET Nat, IsFiniteSet(S), NEW k \in 1..Cardinality(S)
    PROVE  \E i \in S : Cardinality({h \in S : h <= i}) = k
<1> DEFINE UpTo(i) == {h \in S : h <= i}
           Late == {i \in S : Cardinality(UpTo(i)) >= k}
<1>1. Cardinality(S) \in Nat /\ k \in Nat \ {0}
    BY FS_CardinalityType
<1>2. \A i \in S : IsFiniteSet(UpTo(i)) /\ Cardinality(UpTo(i)) \in Nat
    <2> TAKE i \in S
    <2>1. UpTo(i) \subseteq S
        OBVIOUS
    <2> HIDE DEF UpTo
    <2> QED BY <2>1, FS_Subset, FS_CardinalityType
<1>3. Late # {}
    <2>1. S # {}
        BY <1>1, FS_EmptySet
    <2>2. PICK m \in S : \A i \in S : i <= m
        BY <2>1, FiniteMax
    <2>3. UpTo(m) = S
        BY <2>2
    <2> QED BY <1>1, <2>3
<1>4. PICK first \in Late : \A h \in Late : first <= h
    BY <1>3, NatMin
<1>10. first \in Nat /\ first \in S /\ \A h \in S : h \in Nat
    OBVIOUS
<1>11. Cardinality(UpTo(first)) >= k /\ \A h \in S : h \notin Late => ~(Cardinality(UpTo(h)) >= k)
    OBVIOUS
<1> HIDE DEF Late
<1> DEFINE Below == {h \in S : h < first}
<1>5. IsFiniteSet(Below) /\ Cardinality(Below) \in Nat
    <2>1. Below \subseteq S
        OBVIOUS
    <2> HIDE DEF Below
    <2> QED BY <2>1, FS_Subset, FS_CardinalityType
<1>6. Cardinality(UpTo(first)) = Cardinality(Below) + 1
    <2>1. \A h \in S : h \in Int /\ (h <= first <=> h < first \/ h = first)
        BY <1>10
    <2>2. UpTo(first) = Below \cup {first}
        BY <1>10, <2>1
    <2>3. first \notin Below
        BY <1>10
    <2> HIDE DEF UpTo, Below
    <2> QED BY <1>5, <2>2, <2>3, FS_AddElement
<1>7. Cardinality(Below) < k
    <2>1. CASE Below = {}
        BY <1>1, <2>1, FS_EmptySet
    <2>2. CASE Below # {}
        <3>1. Below \subseteq S /\ S \subseteq Int
            BY <1>10
        <3>2. PICK b \in Below : \A h \in Below : h <= b
            BY <1>5, <2>2, <3>1, FiniteMax
        <3>3. b \in S /\ b < first /\ \A h \in S : h < first => h <= b
            BY <1>10, <3>2
        <3>4. \A h \in S : h <= b <=> h < first
            BY <1>10, <3>3
        <3>5. UpTo(b) = Below
            BY <3>4
        <3>6. b \notin Late
            BY <1>4, <1>10, <3>3
        <3> QED BY <1>1, <1>2, <1>11, <3>3, <3>5, <3>6
    <2> QED BY <2>1, <2>2
<1> HIDE DEF Below
<1>8. Cardinality(UpTo(first)) = k
    BY <1>1, <1>5, <1>6, <1>7, <1>11
<1> QED BY <1>8, <1>10

\* The members of a set in order: each at one place.
LEMMA OrderedMembers ==
    ASSUME NEW S \in SUBSET Nat, IsFiniteSet(S)
    PROVE  Ordered(S) \in Seq(S) /\ IsInjective(Ordered(S)) /\ Range(Ordered(S)) = S
<1> DEFINE Place(i) == Cardinality({h \in S : h <= i})
           Member(k) == CHOOSE i \in S : Place(i) = k
<1>1. Cardinality(S) \in Nat
    BY FS_CardinalityType
<1>2. ASSUME NEW k \in 1..Cardinality(S) PROVE Member(k) \in S /\ Place(Member(k)) = k
    <2>1. \E i \in S : Place(i) = k
        BY EveryPlaceIsTaken
    <2> HIDE DEF Place
    <2> QED BY <2>1, Zenon
<1>3. Ordered(S) = [k \in 1..Cardinality(S) |-> Member(k)]
    BY DEF Ordered
<1> HIDE DEF Member, Place
<1>4. Ordered(S) \in Seq(S)
    BY <1>1, <1>2, <1>3
<1>5. ASSUME NEW a \in DOMAIN Ordered(S), NEW b \in DOMAIN Ordered(S), Ordered(S)[a] = Ordered(S)[b]
      PROVE  a = b
    <2>1. a \in 1..Cardinality(S) /\ b \in 1..Cardinality(S) /\ Member(a) = Member(b)
        BY <1>3, <1>5
    <2> QED BY <1>2, <2>1
<1>6. IsInjective(Ordered(S))
    BY <1>5 DEF IsInjective
<1>7. Range(Ordered(S)) = S
    <2>1. Ordered(S) \in [1..Cardinality(S) -> S]
        BY <1>2, <1>3
    <2>2. Ordered(S) \in Injection(1..Cardinality(S), S)
        BY <1>6, <2>1 DEF Injection
    <2>3. Cardinality(1..Cardinality(S)) = Cardinality(S)
        BY <1>1, FS_Interval
    <2>4. Ordered(S) \in Surjection(1..Cardinality(S), S)
        BY <2>2, <2>3, FS_Injection
    <2> QED BY <2>1, <2>4 DEF Surjection, Range
<1> QED BY <1>4, <1>6, <1>7

\* What a sequence has of a set: elements of both, each as often as before.
LEMMA WithinBoth ==
    ASSUME NEW T, NEW s \in Seq(T), IsInjective(s), NEW S
    PROVE  /\ Within(s, S) \in Seq(T) /\ IsInjective(Within(s, S))
           /\ Range(Within(s, S)) \subseteq Range(s) \cap S
<1> DEFINE of == {i \in DOMAIN s : s[i] \in S}
           places == Ordered(of)
<1>1. DOMAIN s = 1..Len(s) /\ Len(s) \in Nat
    OBVIOUS
<1>2. of \in SUBSET Nat /\ IsFiniteSet(of)
    <2>1. IsFiniteSet(1..Len(s))
        BY <1>1, FS_Interval
    <2>2. of \subseteq 1..Len(s)
        BY <1>1
    <2>3. of \in SUBSET Nat
        BY <1>1, <2>2
    <2> HIDE DEF of
    <2> QED BY <2>1, <2>2, <2>3, FS_Subset
<1>3. Within(s, S) = [k \in DOMAIN places |-> s[places[k]]]
    BY DEF Within
<1>4. places \in Seq(of) /\ IsInjective(places)
    <2> HIDE DEF of
    <2> QED BY <1>2, OrderedMembers
<1> HIDE DEF places
<1>5. DOMAIN places = 1..Len(places) /\ Len(places) \in Nat /\ \A k \in DOMAIN places : places[k] \in of
    BY <1>4
<1>6. \A k \in DOMAIN places : s[places[k]] \in T /\ s[places[k]] \in S
    BY <1>5
<1>7. Within(s, S) \in Seq(T)
    BY <1>3, <1>5, <1>6
<1>8. IsInjective(Within(s, S))
    BY <1>3, <1>4, <1>5 DEF IsInjective
<1>9. Range(Within(s, S)) \subseteq Range(s) \cap S
    BY <1>3, <1>5, <1>6 DEF Range
<1> QED BY <1>7, <1>8, <1>9

\* Two sequences without a common element, one after the other.
LEMMA OneAfterTheOther ==
    ASSUME NEW T, NEW s \in Seq(T), NEW r \in Seq(T), IsInjective(s), IsInjective(r),
           Range(s) \cap Range(r) = {}
    PROVE  s \o r \in Seq(T) /\ IsInjective(s \o r) /\ Range(s \o r) = Range(s) \cup Range(r)
<1>1. /\ s \o r \in Seq(T) /\ Len(s \o r) = Len(s) + Len(r) /\ Len(s) \in Nat /\ Len(r) \in Nat
      /\ DOMAIN s = 1..Len(s) /\ DOMAIN r = 1..Len(r) /\ DOMAIN (s \o r) = 1..(Len(s) + Len(r))
      /\ \A k \in 1..Len(s) : (s \o r)[k] = s[k]
      /\ \A k \in 1..(Len(s) + Len(r)) : k > Len(s) => k - Len(s) \in 1..Len(r) /\ (s \o r)[k] = r[k - Len(s)]
    OBVIOUS
<1>2. ASSUME NEW a \in DOMAIN (s \o r), NEW b \in DOMAIN (s \o r), (s \o r)[a] = (s \o r)[b] PROVE a = b
    <2>1. CASE a <= Len(s) /\ b <= Len(s)
        BY <1>1, <1>2, <2>1 DEF IsInjective
    <2>2. CASE a > Len(s) /\ b > Len(s)
        BY <1>1, <1>2, <2>2 DEF IsInjective
    <2>3. CASE a <= Len(s) /\ b > Len(s)
        <3>1. s[a] \in Range(s) /\ r[b - Len(s)] \in Range(r) /\ s[a] = r[b - Len(s)]
            BY <1>1, <1>2, <2>3 DEF Range
        <3> QED BY <3>1
    <2>4. CASE a > Len(s) /\ b <= Len(s)
        <3>1. s[b] \in Range(s) /\ r[a - Len(s)] \in Range(r) /\ s[b] = r[a - Len(s)]
            BY <1>1, <1>2, <2>4 DEF Range
        <3> QED BY <3>1
    <2> QED BY <1>1, <2>1, <2>2, <2>3, <2>4
<1>3. Range(s \o r) = Range(s) \cup Range(r)
    <2>1. Range(s \o r) \subseteq Range(s) \cup Range(r)
        BY <1>1 DEF Range
    <2>2. Range(s) \subseteq Range(s \o r)
        BY <1>1 DEF Range
    <2>3. ASSUME NEW k \in DOMAIN r PROVE r[k] \in Range(s \o r)
        <3>1. k + Len(s) \in DOMAIN (s \o r) /\ (s \o r)[k + Len(s)] = r[k]
            BY <1>1
        <3> QED BY <3>1 DEF Range
    <2> QED BY <2>1, <2>2, <2>3 DEF Range
<1> QED BY <1>1, <1>2, <1>3 DEF IsInjective

\* A sequence cut in two.
LEMMA CutInTwo ==
    ASSUME NEW T, NEW s \in Seq(T), IsInjective(s), NEW n \in 0..Len(s)
    PROVE  LET front == SubSeq(s, 1, n)
               back == SubSeq(s, n + 1, Len(s))
           IN  /\ front \in Seq(T) /\ IsInjective(front) /\ back \in Seq(T) /\ IsInjective(back)
               /\ Range(front) = {s[i] : i \in 1..n}
               /\ Range(back) = {s[i] : i \in (n + 1)..Len(s)}
               /\ Range(front) \cap Range(back) = {} /\ Range(front) \cup Range(back) = Range(s)
<1> DEFINE front == SubSeq(s, 1, n)
           back == SubSeq(s, n + 1, Len(s))
<1>1. /\ Len(s) \in Nat /\ n \in Nat /\ n <= Len(s) /\ DOMAIN s = 1..Len(s)
      /\ front \in Seq(T) /\ DOMAIN front = 1..n /\ \A k \in 1..n : front[k] = s[k]
    OBVIOUS
<1>2. /\ back \in Seq(T) /\ DOMAIN back = 1..(Len(s) - n)
      /\ \A k \in 1..(Len(s) - n) : back[k] = s[n + k]
    OBVIOUS
<1> HIDE DEF front, back
<1>3. IsInjective(front) /\ IsInjective(back)
    <2>1. IsInjective(front)
        BY <1>1 DEF IsInjective
    <2>2. ASSUME NEW a \in DOMAIN back, NEW b \in DOMAIN back, back[a] = back[b] PROVE a = b
        <3>1. a \in Int /\ b \in Int /\ n + a \in DOMAIN s /\ n + b \in DOMAIN s /\ s[n + a] = s[n + b]
            BY <1>1, <1>2, <2>2
        <3>2. n + a = n + b
            BY <3>1 DEF IsInjective
        <3> QED BY <1>1, <3>1, <3>2
    <2> QED BY <2>1, <2>2 DEF IsInjective
<1>4. Range(front) = {s[i] : i \in 1..n}
    BY <1>1 DEF Range
<1>5. Range(back) = {s[i] : i \in (n + 1)..Len(s)}
    <2>1. \A k \in DOMAIN back : n + k \in (n + 1)..Len(s)
        BY <1>1, <1>2
    <2>2. ASSUME NEW i \in (n + 1)..Len(s) PROVE s[i] \in Range(back)
        <3>1. i - n \in DOMAIN back /\ back[i - n] = s[n + (i - n)] /\ n + (i - n) = i
            BY <1>1, <1>2
        <3> QED BY <3>1 DEF Range
    <2>3. ASSUME NEW e \in Range(back) PROVE e \in {s[i] : i \in (n + 1)..Len(s)}
        <3>1. PICK k \in DOMAIN back : e = back[k]
            BY DEF Range
        <3> QED BY <1>2, <2>1, <3>1
    <2> QED BY <2>2, <2>3
<1>6. Range(front) \cap Range(back) = {}
    BY <1>1, <1>4, <1>5 DEF IsInjective
<1>7. Range(front) \cup Range(back) = Range(s)
    <2>1. 1..Len(s) = (1..n) \cup ((n + 1)..Len(s))
        BY <1>1
    <2>2. Range(s) = {s[i] : i \in 1..Len(s)}
        BY <1>1 DEF Range
    <2> QED BY <1>4, <1>5, <2>1, <2>2
<1> QED BY <1>1, <1>2, <1>3, <1>4, <1>5, <1>6, <1>7 DEF front, back

Phases == {"waiting", "queued", "held", "creating", "prompting", "done"}
States == {"none", "creating", "prompted", "idle", "aborting"}
Active(ph) == {j \in Jobs : ph[j] \in {"queued", "held", "creating", "prompting"}}

\* A group begins whole.
BegunWhole(ph) == \A i, j \in Jobs : GroupOf(i) = GroupOf(j) /\ ph[i] = "waiting" => ph[j] = "waiting"

\* The jobs of a group have one model.
LEMMA GroupsAreOfAModel ==
    ASSUME NEW i \in Jobs, NEW j \in Jobs, GroupOf(i) = GroupOf(j)
    PROVE  ModelOf[i] = ModelOf[j]
<1> DEFINE First(l, k) == ModelOf[k] = ModelOf[l] /\ \A m \in Jobs : ModelOf[m] = ModelOf[l] => k <= m
<1>1. ASSUME NEW l \in Jobs PROVE ModelOf[GroupOf(l)] = ModelOf[l]
    <2> DEFINE same == {k \in Jobs : ModelOf[k] = ModelOf[l]}
    <2>1. same \in SUBSET Nat /\ l \in same
        BY FanoutAssumption
    <2>2. PICK k \in same : \A m \in same : k <= m
        <3> HIDE DEF same
        <3> QED BY <2>1, NatMin
    <2>3. \E m \in Jobs : First(l, m)
        BY <2>2
    <2>4. GroupOf(l) = CHOOSE m \in Jobs : First(l, m)
        BY Zenon DEF GroupOf
    <2> HIDE DEF First
    <2>5. (CHOOSE m \in Jobs : First(l, m)) \in Jobs /\ First(l, CHOOSE m \in Jobs : First(l, m))
        BY <2>3, Zenon
    <2>6. First(l, GroupOf(l))
        BY <2>4, <2>5, Zenon
    <2> QED BY <2>6 DEF First
<1> QED BY <1>1

\* What is queued and held is of the group that runs, each job once, and the readers are
\* within their number.
GroupInv(ph, ses, q, wait) ==
    /\ ph \in [Jobs -> Phases] /\ ses \in [Jobs -> States]
    /\ q \in Seq(Jobs) /\ IsInjective(q) /\ \A j \in Range(q) : ph[j] = "queued"
    /\ wait \in Seq(Jobs) /\ IsInjective(wait) /\ \A j \in Range(wait) : ph[j] = "held"
    /\ \A i, j \in Active(ph) : GroupOf(i) = GroupOf(j)
    /\ Cardinality(InFlight(ph)) <= MaxReaders

FanoutInv ==
    /\ GroupInv(phase, session, queue, heldJobs) /\ BegunWhole(phase)
    /\ registered \subseteq Jobs /\ outcome \in [Jobs -> {outcome[j] : j \in Jobs}]
    /\ SessionsAreAccountedFor

LEMMA OneMore ==
    ASSUME NEW S, IsFiniteSet(S), NEW x
    PROVE  /\ IsFiniteSet(S \cup {x})
           /\ Cardinality(S) \in Nat /\ Cardinality(S \cup {x}) \in Nat
           /\ Cardinality(S \cup {x}) <= Cardinality(S) + 1
<1>1. IsFiniteSet(S \cup {x}) /\ Cardinality(S) \in Nat
      /\ Cardinality(S \cup {x}) = IF x \in S THEN Cardinality(S) ELSE Cardinality(S) + 1
    BY FS_AddElement, FS_CardinalityType
<1> QED BY <1>1

\* The jobs a pump starts fit into the readers that are left.
LEMMA ReadersAreLeft ==
    ASSUME NEW q \in Seq(Jobs), NEW ph, Cardinality(InFlight(ph)) <= MaxReaders
    PROVE  LET taken == Cardinality(Taken(q, ph))
           IN  /\ taken \in 0..Len(q)
               /\ Cardinality(InFlight(ph) \cup ({q[i] : i \in 1..taken} \ HeldOut)) <= MaxReaders
<1> DEFINE free(n) == {i \in 1..n : q[i] \notin HeldOut}
           f == Cardinality(InFlight(ph))
<1>1. /\ MaxReaders \in Nat /\ Len(q) \in Nat /\ DOMAIN q = 1..Len(q)
      /\ IsFiniteSet(InFlight(ph)) /\ f \in Nat /\ f <= MaxReaders
    <2>1. InFlight(ph) \subseteq Jobs
        BY DEF InFlight
    <2>2. IsFiniteSet(InFlight(ph))
        BY <2>1, FS_Subset, FanoutAssumption
    <2> QED BY <2>2, FS_CardinalityType, FanoutAssumption
<1>2. \A n \in Nat : IsFiniteSet(free(n)) /\ Cardinality(free(n)) \in Nat
    <2> TAKE n \in Nat
    <2>1. free(n) \subseteq 1..n /\ IsFiniteSet(1..n)
        BY FS_Interval
    <2> HIDE DEF free
    <2> QED BY <2>1, FS_Subset, FS_CardinalityType
<1>3. Taken(q, ph) = {k \in 1..Len(q) : f + Cardinality(free(k - 1)) < MaxReaders}
    BY <1>1 DEF Taken
<1> HIDE DEF f
<1>4. ASSUME NEW n \in 0..Len(q), Taken(q, ph) = 1..n, n = 0 \/ n \in Taken(q, ph)
      PROVE  /\ Cardinality(Taken(q, ph)) = n
             /\ f + Cardinality(free(n)) <= MaxReaders
    <2>1. Cardinality(Taken(q, ph)) = n
        BY <1>1, <1>4, FS_Interval
    <2>2. CASE n = 0
        <3>1. free(0) = {}
            OBVIOUS
        <3>2. Cardinality(free(n)) = 0
            BY <2>2, <3>1, FS_EmptySet
        <3> HIDE DEF free
        <3> QED BY <1>1, <2>1, <3>2
    <2>3. CASE n # 0
        <3>1. n - 1 \in Nat /\ f + Cardinality(free(n - 1)) < MaxReaders
            BY <1>1, <1>3, <1>4, <2>3
        <3>2. 1..n = 1..(n - 1) \cup {n}
            BY <3>1
        <3>3. free(n) \subseteq free(n - 1) \cup {n}
            BY <3>2
        <3> DEFINE more == free(n - 1) \cup {n}
        <3> HIDE DEF free
        <3>4. IsFiniteSet(more) /\ Cardinality(more) <= Cardinality(free(n - 1)) + 1 /\ Cardinality(more) \in Nat
            BY <1>2, <3>1, OneMore
        <3>5. Cardinality(free(n)) <= Cardinality(more)
            <4> HIDE DEF more
            <4> QED BY <3>3, <3>4, FS_Subset DEF more
        <3>6. Cardinality(free(n)) \in Nat
            BY <1>2
        <3> HIDE DEF more
        <3> QED BY <1>1, <1>2, <2>1, <3>1, <3>4, <3>5, <3>6
    <2> QED BY <2>2, <2>3
<1>5. PICK n \in 0..Len(q) : Taken(q, ph) = 1..n /\ (n = 0 \/ n \in Taken(q, ph))
    <2>1. CASE Taken(q, ph) = {}
        BY <1>1, <2>1
    <2>2. CASE Taken(q, ph) # {}
        <3>1. Taken(q, ph) \subseteq 1..Len(q) /\ IsFiniteSet(1..Len(q))
            BY <1>1, <1>3, FS_Interval
        <3>2. IsFiniteSet(Taken(q, ph)) /\ Taken(q, ph) \subseteq Int
            BY <1>1, <3>1, FS_Subset
        <3>3. PICK m \in Taken(q, ph) : \A k \in Taken(q, ph) : k <= m
            BY <2>2, <3>2, FiniteMax
        <3>4. m \in 1..Len(q) /\ f + Cardinality(free(m - 1)) < MaxReaders
            BY <1>3, <3>3
        <3>5. ASSUME NEW k \in 1..m PROVE k \in Taken(q, ph)
            <4>1. k \in 1..Len(q) /\ k - 1 \in Nat /\ m - 1 \in Nat /\ 1..(k - 1) \subseteq 1..(m - 1)
                BY <1>1, <3>4
            <4>2. free(k - 1) \subseteq free(m - 1)
                BY <4>1
            <4> HIDE DEF free
            <4>3. Cardinality(free(k - 1)) <= Cardinality(free(m - 1))
                BY <1>2, <4>1, <4>2, FS_Subset
            <4>4. f + Cardinality(free(k - 1)) < MaxReaders
                <5>1. /\ f \in Nat /\ MaxReaders \in Nat
                      /\ Cardinality(free(k - 1)) \in Nat /\ Cardinality(free(m - 1)) \in Nat
                    BY ONLY <1>1, <1>2, <4>1
                <5> QED BY ONLY <3>4, <4>3, <5>1
            <4> QED BY <1>3, <4>1, <4>4
        <3>6. ASSUME NEW k \in Taken(q, ph) PROVE k \in 1..m
            BY <3>1, <3>3, <3>4
        <3>7. Taken(q, ph) = 1..m
            BY <3>5, <3>6
        <3> QED BY <1>1, <3>3, <3>4, <3>7
    <2> QED BY <2>1, <2>2
<1>6. Cardinality(Taken(q, ph)) = n /\ f + Cardinality(free(n)) <= MaxReaders /\ n \in Nat
    BY <1>1, <1>4, <1>5
<1> DEFINE starts == {q[i] : i \in 1..n} \ HeldOut
<1>7. IsFiniteSet(starts) /\ Cardinality(starts) <= Cardinality(free(n))
    <2> DEFINE g == [i \in free(n) |-> q[i]]
    <2>1. g \in Surjection(free(n), starts)
        BY DEF Surjection
    <2> HIDE DEF g, starts, free
    <2> QED BY <1>2, <1>6, <2>1, FS_Surjection
<1>8. Cardinality(InFlight(ph) \cup starts) <= f + Cardinality(starts)
    <2> HIDE DEF starts
    <2>1. IsFiniteSet(InFlight(ph) \cap starts)
        BY <1>1, FS_Intersection
    <2>2. Cardinality(InFlight(ph) \cap starts) \in Nat /\ Cardinality(starts) \in Nat
        BY <1>7, <2>1, FS_CardinalityType
    <2>3. Cardinality(InFlight(ph) \cup starts) = f + Cardinality(starts) - Cardinality(InFlight(ph) \cap starts)
        BY <1>1, <1>7, FS_Union DEF f
    <2> QED BY <1>1, <2>2, <2>3
<1>9. Cardinality(starts) \in Nat /\ Cardinality(InFlight(ph) \cup starts) \in Nat
    <2> HIDE DEF starts
    <2> QED BY <1>1, <1>7, FS_Union, FS_CardinalityType
<1> HIDE DEF starts, free
<1>10. Cardinality(InFlight(ph) \cup starts) <= MaxReaders
    BY <1>1, <1>2, <1>6, <1>7, <1>8, <1>9
<1> QED BY <1>1, <1>5, <1>6, <1>10 DEF starts

\* A pump over jobs of the group that runs: from a queue whose jobs are due to a queue
\* and holds that are in order again.
LEMMA PumpKeeps ==
    ASSUME NEW q \in Seq(Jobs), IsInjective(q), NEW wait \in Seq(Jobs), IsInjective(wait),
           NEW ph \in [Jobs -> Phases], NEW ses \in [Jobs -> States],
           \A j \in Range(q) : ph[j] \in {"waiting", "queued", "held"},
           \A j \in Range(wait) : ph[j] = "held", Range(q) \cap Range(wait) = {},
           \A i, j \in Active(ph) \cup Range(q) : GroupOf(i) = GroupOf(j),
           Cardinality(InFlight(ph)) <= MaxReaders,
           Pump(q, ph, ses, wait)
    PROVE  /\ GroupInv(phase', session', queue', heldJobs')
           /\ \A j \in Jobs : session'[j] = "prompted" => ses[j] = "prompted"
           /\ \A j \in Jobs : phase'[j] = "waiting" <=> ph[j] = "waiting" /\ j \notin Range(q)
<1> DEFINE taken == Cardinality(Taken(q, ph))
           front == SubSeq(q, 1, taken)
           back == SubSeq(q, taken + 1, Len(q))
           starts == Range(front) \ HeldOut
           holds == Within(front, HeldOut)
<1>1. /\ queue' = back /\ heldJobs' = wait \o holds
      /\ phase' = [j \in Jobs |-> IF j \in starts THEN "creating"
                                  ELSE IF j \in Range(front) THEN "held"
                                  ELSE IF j \in Range(q) THEN "queued" ELSE ph[j]]
      /\ session' = [j \in Jobs |-> IF j \in starts THEN "creating" ELSE ses[j]]
    BY Zenon DEF Pump
<1>2. /\ taken \in 0..Len(q)
      /\ Cardinality(InFlight(ph) \cup ({q[i] : i \in 1..taken} \ HeldOut)) <= MaxReaders
    BY ReadersAreLeft
<1> HIDE DEF taken
<1>3. /\ front \in Seq(Jobs) /\ IsInjective(front) /\ back \in Seq(Jobs) /\ IsInjective(back)
      /\ Range(front) = {q[i] : i \in 1..taken}
      /\ Range(front) \cap Range(back) = {} /\ Range(front) \cup Range(back) = Range(q)
    BY <1>2, CutInTwo
<1> HIDE DEF front, back
<1>4. /\ holds \in Seq(Jobs) /\ IsInjective(holds) /\ Range(holds) \subseteq Range(front) \cap HeldOut
    BY <1>3, WithinBoth
<1> HIDE DEF holds
<1>5. /\ wait \o holds \in Seq(Jobs) /\ IsInjective(wait \o holds)
      /\ Range(wait \o holds) = Range(wait) \cup Range(holds)
    <2>1. Range(wait) \cap Range(holds) = {}
        BY <1>3, <1>4
    <2> QED BY <1>4, <2>1, OneAfterTheOther
<1>6. Range(q) \subseteq Jobs /\ Range(wait) \subseteq Jobs
    BY DEF Range
<1>7. phase' \in [Jobs -> Phases] /\ session' \in [Jobs -> States]
    BY <1>1 DEF Phases, States
<1>8. \A j \in Range(back) : phase'[j] = "queued"
    BY <1>1, <1>3, <1>6
<1>9. \A j \in Range(wait \o holds) : phase'[j] = "held"
    BY <1>1, <1>3, <1>4, <1>5, <1>6
<1>10. Active(phase') \subseteq Active(ph) \cup Range(q)
    BY <1>1, <1>3 DEF Active
<1>11. \A i, j \in Active(phase') : GroupOf(i) = GroupOf(j)
    BY <1>10
<1>12. Cardinality(InFlight(phase')) <= MaxReaders
    <2> DEFINE running == InFlight(ph) \cup starts
    <2>1. InFlight(phase') \subseteq running
        BY <1>1 DEF InFlight
    <2>2. running \subseteq Jobs
        BY <1>3, <1>6 DEF InFlight
    <2>3. Cardinality(running) <= MaxReaders
        BY <1>2, <1>3
    <2> HIDE DEF running
    <2>4. IsFiniteSet(running)
        BY <2>2, FS_Subset, FanoutAssumption
    <2>5. IsFiniteSet(InFlight(phase')) /\ Cardinality(InFlight(phase')) <= Cardinality(running)
        BY <2>1, <2>4, FS_Subset
    <2>6. Cardinality(running) \in Nat /\ Cardinality(InFlight(phase')) \in Nat /\ MaxReaders \in Nat
        BY <2>4, <2>5, FS_CardinalityType, FanoutAssumption
    <2> QED BY <2>3, <2>5, <2>6
<1>13. \A j \in Jobs : /\ session'[j] = "prompted" => ses[j] = "prompted"
                       /\ phase'[j] = "waiting" <=> ph[j] = "waiting" /\ j \notin Range(q)
    BY <1>1, <1>3
<1>14. GroupInv(phase', session', queue', heldJobs')
    BY <1>1, <1>3, <1>5, <1>7, <1>8, <1>9, <1>11, <1>12 DEF GroupInv
<1> QED BY <1>13, <1>14

\* A group that begins: no other runs.
LEMMA NextGroupKeeps ==
    ASSUME NEW ph \in [Jobs -> Phases], NEW ses \in [Jobs -> States], Active(ph) = {}, BegunWhole(ph),
           queue = <<>> /\ heldJobs = <<>>, NextGroup(ph, ses)
    PROVE  /\ GroupInv(phase', session', queue', heldJobs') /\ BegunWhole(phase')
           /\ \A j \in Jobs : session'[j] = "prompted" => ses[j] = "prompted"
<1> DEFINE left == {j \in Jobs : ph[j] = "waiting"}
           first == CHOOSE j \in left : \A k \in left : j <= k
           g == GroupOf(first)
           members == {j \in Jobs : GroupOf(j) = g}
           row == Ordered(members)
<1>1. Cardinality(InFlight(ph)) <= MaxReaders
    <2>1. InFlight(ph) = {}
        BY DEF Active, InFlight
    <2> QED BY <2>1, FS_EmptySet, FanoutAssumption
<1>2. <<>> \in Seq(Jobs) /\ IsInjective(<<>>) /\ Range(<<>>) = {}
    BY DEF IsInjective, Range
<1>3. CASE left = {}
    <2>1. phase' = ph /\ session' = ses /\ queue' = queue /\ heldJobs' = heldJobs
        BY <1>3 DEF NextGroup
    <2> QED BY <1>1, <1>2, <2>1 DEF GroupInv
<1>4. CASE left # {}
    <2>1. Pump(row, ph, ses, <<>>)
        BY <1>4 DEF NextGroup, JobsOfGroup
    <2>2. first \in left
        <3>1. \E j \in left : \A k \in left : j <= k
            BY <1>4, NatMin, FanoutAssumption
        <3> HIDE DEF left
        <3> QED BY <3>1, Zenon
    <2> HIDE DEF first
    <2>3. \A j \in members : ph[j] = "waiting"
        BY <2>2 DEF BegunWhole
    <2> HIDE DEF g
    <2>4. members \in SUBSET Nat /\ IsFiniteSet(members) /\ members \subseteq Jobs
        BY FS_Subset, FanoutAssumption
    <2>5. \A i, j \in members : GroupOf(i) = GroupOf(j)
        OBVIOUS
    <2>6. \A i, j \in Jobs : GroupOf(i) = GroupOf(j) /\ i \in members => j \in members
        OBVIOUS
    <2> HIDE DEF members
    <2>7. row \in Seq(members) /\ IsInjective(row) /\ Range(row) = members
        BY <2>4, OrderedMembers
    <2> HIDE DEF row
    <2>8. row \in Seq(Jobs)
        <3>1. Len(row) \in Nat /\ row \in [1..Len(row) -> members]
            BY <2>7
        <3>2. row \in [1..Len(row) -> Jobs]
            BY <2>4, <3>1
        <3> QED BY <3>1, <3>2
    <2>9. /\ GroupInv(phase', session', queue', heldJobs')
          /\ \A j \in Jobs : session'[j] = "prompted" => ses[j] = "prompted"
          /\ \A j \in Jobs : phase'[j] = "waiting" <=> ph[j] = "waiting" /\ j \notin Range(row)
        <3>1. \A j \in Range(row) : ph[j] \in {"waiting", "queued", "held"}
            BY <2>3, <2>7
        <3>2. \A i, j \in Active(ph) \cup Range(row) : GroupOf(i) = GroupOf(j)
            BY <2>5, <2>7
        <3>3. \A j \in Range(<<>>) : ph[j] = "held"
            BY <1>2
        <3>4. Range(row) \cap Range(<<>>) = {}
            BY <1>2
        <3> QED BY <1>1, <1>2, <2>1, <2>7, <2>8, <3>1, <3>2, <3>3, <3>4, PumpKeeps
    <2>10. BegunWhole(phase')
        BY <2>6, <2>7, <2>9 DEF BegunWhole
    <2> QED BY <2>9, <2>10
<1> QED BY <1>3, <1>4

\* A job that ends: its group goes on with its readers, or the next group begins.
LEMMA FinishKeeps ==
    ASSUME FanoutInv, NEW j \in Jobs, phase[j] \in {"creating", "prompting"},
           NEW reason, NEW ses \in [Jobs -> States],
           \A k \in Jobs : k # j => ses[k] = session[k], reason = "engine" \/ ses[j] # "prompted",
           Finish(j, reason, ses)
    PROVE  FanoutInv'
<1> DEFINE ph == [phase EXCEPT ![j] = "done"]
<1>1. /\ outcome' = [outcome EXCEPT ![j] = reason]
      /\ registered' = registered \ {j}
      /\ \/ Pump(queue, ph, ses, heldJobs)
         \/ /\ \A k \in Jobs : GroupOf(k) = GroupOf(j) => ph[k] = "done"
            /\ NextGroup(ph, ses)
    BY DEF Finish
<1>2. /\ ph \in [Jobs -> Phases] /\ ph[j] = "done" /\ \A k \in Jobs : k # j => ph[k] = phase[k]
      /\ phase \in [Jobs -> Phases] /\ outcome \in [Jobs -> {outcome[k] : k \in Jobs}]
    BY DEF FanoutInv, GroupInv, Phases
<1> HIDE DEF ph
<1>3. Active(ph) \subseteq Active(phase) /\ j \in Active(phase) /\ InFlight(ph) \subseteq InFlight(phase)
    BY <1>2 DEF Active, InFlight
<1>4. Range(queue) \subseteq Jobs /\ Range(heldJobs) \subseteq Jobs
    BY DEF FanoutInv, GroupInv, Range
<1>5. (\A k \in Range(queue) : ph[k] = "queued") /\ \A k \in Range(heldJobs) : ph[k] = "held"
    BY <1>2, <1>4 DEF FanoutInv, GroupInv
<1>6. BegunWhole(ph)
    <2>1. \A k \in Jobs : GroupOf(k) = GroupOf(j) => phase[k] # "waiting"
        BY DEF FanoutInv, BegunWhole
    <2> QED BY <1>2, <2>1 DEF FanoutInv, BegunWhole
<1>7. Cardinality(InFlight(ph)) <= MaxReaders
    <2>1. IsFiniteSet(InFlight(phase))
        BY FS_Subset, FanoutAssumption DEF InFlight
    <2>2. IsFiniteSet(InFlight(ph)) /\ Cardinality(InFlight(ph)) <= Cardinality(InFlight(phase))
        BY <1>3, <2>1, FS_Subset
    <2>3. Cardinality(InFlight(ph)) \in Nat /\ Cardinality(InFlight(phase)) \in Nat /\ MaxReaders \in Nat
        BY <2>1, <2>2, FS_CardinalityType, FanoutAssumption
    <2> QED BY <2>2, <2>3 DEF FanoutInv, GroupInv
<1>8. /\ GroupInv(phase', session', queue', heldJobs') /\ BegunWhole(phase')
      /\ \A k \in Jobs : session'[k] = "prompted" => ses[k] = "prompted"
    <2>1. CASE Pump(queue, ph, ses, heldJobs)
        <3>1. \A i, k \in Active(ph) \cup Range(queue) : GroupOf(i) = GroupOf(k)
            <4>1. Range(queue) \subseteq Active(phase)
                BY <1>4 DEF FanoutInv, GroupInv, Active
            <4> QED BY <1>3, <4>1 DEF FanoutInv, GroupInv
        <3>2. Range(queue) \cap Range(heldJobs) = {}
            BY <1>5
        <3>3. /\ GroupInv(phase', session', queue', heldJobs')
              /\ \A k \in Jobs : session'[k] = "prompted" => ses[k] = "prompted"
              /\ \A k \in Jobs : phase'[k] = "waiting" <=> ph[k] = "waiting" /\ k \notin Range(queue)
            <4>1. /\ queue \in Seq(Jobs) /\ IsInjective(queue)
                  /\ heldJobs \in Seq(Jobs) /\ IsInjective(heldJobs)
                BY DEF FanoutInv, GroupInv
            <4>2. \A k \in Range(queue) : ph[k] \in {"waiting", "queued", "held"}
                BY <1>5
            <4> QED BY <1>2, <1>5, <1>7, <2>1, <3>1, <3>2, <4>1, <4>2, PumpKeeps
        <3>4. BegunWhole(phase')
            BY <1>5, <1>6, <3>3 DEF BegunWhole
        <3> QED BY <3>3, <3>4
    <2>2. CASE /\ \A k \in Jobs : GroupOf(k) = GroupOf(j) => ph[k] = "done"
               /\ NextGroup(ph, ses)
        <3>1. Active(ph) = {}
            <4>1. ASSUME NEW k \in Active(ph) PROVE FALSE
                <5>1. k \in Active(phase) /\ k \in Jobs /\ ph[k] # "done"
                    BY <1>3 DEF Active
                <5>2. GroupOf(k) = GroupOf(j)
                    BY <1>3, <5>1 DEF FanoutInv, GroupInv
                <5> QED BY <2>2, <5>1, <5>2
            <4> QED BY <4>1
        <3>2. queue = <<>> /\ heldJobs = <<>>
            <4>1. Range(queue) \subseteq Active(ph) /\ Range(heldJobs) \subseteq Active(ph)
                BY <1>4, <1>5 DEF Active
            <4>2. queue \in Seq(Jobs) /\ heldJobs \in Seq(Jobs)
                BY DEF FanoutInv, GroupInv
            <4> QED BY <3>1, <4>1, <4>2 DEF Range
        <3> QED BY <1>2, <1>6, <2>2, <3>1, <3>2, NextGroupKeeps
    <2> QED BY <1>1, <2>1, <2>2
<1>9. registered' \subseteq Jobs
    BY <1>1 DEF FanoutInv
<1>10. outcome' \in [Jobs -> {outcome'[k] : k \in Jobs}]
    BY <1>1, <1>2
<1>11. SessionsAreAccountedFor'
    BY <1>1, <1>2, <1>8 DEF FanoutInv, SessionsAreAccountedFor
<1> QED BY <1>8, <1>9, <1>10, <1>11 DEF FanoutInv

\* A tree that is announced: the jobs it held queue again, behind those that wait.
LEMMA AnnounceKeeps ==
    ASSUME FanoutInv, NEW trees, Announce(trees), UNCHANGED <<outcome, registered>>
    PROVE  FanoutInv'
<1> DEFINE freed == {j \in Jobs : TreeOf[j] \in trees \ frozen}
           back == Within(heldJobs, freed)
           kept == Within(heldJobs, Jobs \ freed)
           q == queue \o back
<1>1. Pump(q, phase, session, kept)
    BY DEF Announce
<1> HIDE DEF freed
<1>2. /\ queue \in Seq(Jobs) /\ IsInjective(queue) /\ \A j \in Range(queue) : phase[j] = "queued"
      /\ heldJobs \in Seq(Jobs) /\ IsInjective(heldJobs) /\ \A j \in Range(heldJobs) : phase[j] = "held"
      /\ phase \in [Jobs -> Phases] /\ session \in [Jobs -> States]
      /\ Cardinality(InFlight(phase)) <= MaxReaders /\ BegunWhole(phase)
    BY DEF FanoutInv, GroupInv
<1>3. /\ back \in Seq(Jobs) /\ IsInjective(back) /\ Range(back) \subseteq Range(heldJobs) \cap freed
      /\ kept \in Seq(Jobs) /\ IsInjective(kept) /\ Range(kept) \subseteq Range(heldJobs) \cap (Jobs \ freed)
    BY <1>2, WithinBoth
<1> HIDE DEF back, kept
<1>4. q \in Seq(Jobs) /\ IsInjective(q) /\ Range(q) = Range(queue) \cup Range(back)
    <2>1. Range(queue) \cap Range(back) = {}
        BY <1>2, <1>3
    <2> QED BY <1>2, <1>3, <2>1, OneAfterTheOther
<1> HIDE DEF q
<1>5. Range(q) \cap Range(kept) = {}
    BY <1>2, <1>3, <1>4
<1>6. \A j \in Range(q) : phase[j] \in {"waiting", "queued", "held"} /\ phase[j] # "waiting"
    BY <1>2, <1>3, <1>4
<1>7. \A i, j \in Active(phase) \cup Range(q) : GroupOf(i) = GroupOf(j)
    <2>1. Range(queue) \subseteq Jobs /\ Range(heldJobs) \subseteq Jobs
        BY <1>2 DEF Range
    <2>2. Range(q) \subseteq Active(phase)
        BY <1>2, <1>3, <1>4, <2>1 DEF Active
    <2> QED BY <2>2 DEF FanoutInv, GroupInv
<1>8. \A j \in Range(kept) : phase[j] = "held"
    BY <1>2, <1>3
<1>9. /\ GroupInv(phase', session', queue', heldJobs')
      /\ \A j \in Jobs : session'[j] = "prompted" => session[j] = "prompted"
      /\ \A j \in Jobs : phase'[j] = "waiting" <=> phase[j] = "waiting" /\ j \notin Range(q)
    <2>1. \A j \in Range(q) : phase[j] \in {"waiting", "queued", "held"}
        BY <1>6
    <2>2. q \in Seq(Jobs) /\ IsInjective(q)
        BY <1>4
    <2>3. kept \in Seq(Jobs) /\ IsInjective(kept)
        BY <1>3
    <2>4. /\ phase \in [Jobs -> Phases] /\ session \in [Jobs -> States]
          /\ Cardinality(InFlight(phase)) <= MaxReaders
        BY <1>2
    <2> QED BY ONLY <1>1, <1>5, <1>7, <1>8, <2>1, <2>2, <2>3, <2>4, PumpKeeps, FanoutAssumption
<1>10. BegunWhole(phase')
    BY <1>2, <1>6, <1>9 DEF BegunWhole
<1>11. SessionsAreAccountedFor'
    BY <1>9 DEF FanoutInv, SessionsAreAccountedFor
<1> QED BY <1>9, <1>10, <1>11 DEF FanoutInv

LEMMA FanoutInvInit == FanoutInit => FanoutInv
<1> SUFFICES ASSUME FanoutInit PROVE FanoutInv
    OBVIOUS
<1>1. Range(<<>>) = {} /\ IsInjective(<<>>) /\ <<>> \in Seq(Jobs)
    BY DEF Range, IsInjective
<1>2. InFlight(phase) = {} /\ Active(phase) = {}
    BY DEF FanoutInit, InFlight, Active
<1>3. Cardinality(InFlight(phase)) <= MaxReaders
    BY <1>2, FS_EmptySet, FanoutAssumption
<1>4. GroupInv(phase, session, queue, heldJobs)
    BY <1>1, <1>2, <1>3 DEF FanoutInit, GroupInv, Phases, States
<1> QED BY <1>4 DEF FanoutInit, FanoutInv, BegunWhole, SessionsAreAccountedFor

\* A step that moves one job between two places of the same standing, or none.
LEMMA StandingKept ==
    ASSUME FanoutInv, phase' \in [Jobs -> Phases], session' \in [Jobs -> States],
           \A j \in Jobs : phase'[j] = phase[j] \/ (phase[j] = "creating" /\ phase'[j] = "prompting"),
           UNCHANGED <<queue, heldJobs>>,
           registered' \subseteq Jobs, outcome' = outcome, SessionsAreAccountedFor'
    PROVE  FanoutInv'
<1>1. Active(phase') = Active(phase) /\ InFlight(phase') = InFlight(phase)
    BY DEF Active, InFlight
<1>2. Range(queue) \subseteq Jobs /\ Range(heldJobs) \subseteq Jobs
    BY DEF FanoutInv, GroupInv, Range
<1>3. GroupInv(phase', session', queue', heldJobs')
    BY <1>1, <1>2 DEF FanoutInv, GroupInv
<1>4. BegunWhole(phase')
    BY DEF FanoutInv, BegunWhole
<1> QED BY <1>3, <1>4 DEF FanoutInv

LEMMA SessionStepKeeps ==
    ASSUME FanoutInv, NEW j \in Jobs, SessionStep(j)
    PROVE  FanoutInv'
<1>1. phase \in [Jobs -> Phases] /\ session \in [Jobs -> States]
    BY DEF FanoutInv, GroupInv
<1>2. CASE Created(j)
    <2>1. /\ phase' = [phase EXCEPT ![j] = "prompting"] /\ phase[j] = "creating"
          /\ session' = [session EXCEPT ![j] = "prompted"]
          /\ registered' = registered \cup {j} /\ UNCHANGED <<queue, heldJobs, outcome>>
        BY <1>2 DEF Created
    <2>2. SessionsAreAccountedFor'
        BY <1>1, <2>1 DEF FanoutInv, SessionsAreAccountedFor
    <2> QED BY <1>1, <2>1, <2>2, StandingKept DEF FanoutInv, Phases, States
<1>3. CASE CreatedLate(j)
    <2>1. session' = [session EXCEPT ![j] = "aborting"]
          /\ UNCHANGED <<phase, queue, heldJobs, outcome, registered>>
        BY <1>3 DEF CreatedLate
    <2>2. SessionsAreAccountedFor'
        BY <1>1, <2>1 DEF FanoutInv, SessionsAreAccountedFor
    <2> QED BY <1>1, <2>1, <2>2, StandingKept DEF FanoutInv, States
<1>4. CASE CreateFails(j)
    <2> DEFINE ses == [session EXCEPT ![j] = "none"]
    <2>1. ses \in [Jobs -> States] /\ ses[j] # "prompted" /\ \A k \in Jobs : k # j => ses[k] = session[k]
        BY <1>1 DEF States
    <2>2. phase[j] \in {"creating", "prompting"} /\ Finish(j, "create", ses)
        BY <1>4 DEF CreateFails
    <2> HIDE DEF ses
    <2> QED BY <2>1, <2>2, FinishKeeps
<1>5. CASE CreateThrows(j)
    <2>1. PICK made \in {"none", "idle"} : Finish(j, "engine", [session EXCEPT ![j] = made])
        BY <1>5 DEF CreateThrows
    <2> DEFINE ses == [session EXCEPT ![j] = made]
    <2>2. ses \in [Jobs -> States] /\ \A k \in Jobs : k # j => ses[k] = session[k]
        BY <1>1 DEF States
    <2>3. phase[j] \in {"creating", "prompting"} /\ Finish(j, "engine", ses)
        BY <1>5, <2>1 DEF CreateThrows
    <2> HIDE DEF ses
    <2> QED BY <2>2, <2>3, FinishKeeps
<1>6. ASSUME NEW kind \in Kinds, Replied(j, kind) PROVE FanoutInv'
    <2>1. CASE MayRetry(j, kind)
        <3>1. UNCHANGED <<phase, outcome, session, registered, queue, heldJobs>>
            BY <1>6, <2>1 DEF Replied
        <3>2. SessionsAreAccountedFor'
            BY <3>1 DEF FanoutInv, SessionsAreAccountedFor
        <3> QED BY <1>1, <3>1, <3>2, StandingKept DEF FanoutInv
    <2>2. CASE ~MayRetry(j, kind)
        <3> DEFINE ses == [session EXCEPT ![j] = "idle"]
        <3>1. ses \in [Jobs -> States] /\ ses[j] # "prompted" /\ \A k \in Jobs : k # j => ses[k] = session[k]
            BY <1>1 DEF States
        <3>2. phase[j] \in {"creating", "prompting"} /\ Finish(j, kind, ses)
            BY <1>6, <2>2 DEF Replied
        <3> HIDE DEF ses
        <3> QED BY <3>1, <3>2, FinishKeeps
    <2> QED BY <2>1, <2>2
<1>7. CASE PromptThrows(j)
    <2>1. phase[j] \in {"creating", "prompting"} /\ Finish(j, "engine", session)
        BY <1>7 DEF PromptThrows
    <2> QED BY <1>1, <2>1, FinishKeeps
<1>8. CASE Watchdog(j)
    <2> DEFINE ses == [session EXCEPT ![j] = IF @ = "prompted" THEN "aborting" ELSE @]
    <2>1. ses \in [Jobs -> States] /\ ses[j] # "prompted" /\ \A k \in Jobs : k # j => ses[k] = session[k]
        BY <1>1 DEF States
    <2>2. phase[j] \in {"creating", "prompting"} /\ Finish(j, "timeout", ses)
        BY <1>8 DEF Watchdog
    <2> HIDE DEF ses
    <2> QED BY <2>1, <2>2, FinishKeeps
<1> QED BY <1>2, <1>3, <1>4, <1>5, <1>6, <1>7, <1>8 DEF SessionStep

LEMMA FanoutInvNext == FanoutInv /\ [FanoutNext]_fanoutVars => FanoutInv'
<1> SUFFICES ASSUME FanoutInv, [FanoutNext]_fanoutVars PROVE FanoutInv'
    OBVIOUS
<1>1. phase \in [Jobs -> Phases] /\ session \in [Jobs -> States]
    BY DEF FanoutInv, GroupInv
<1>2. CASE DispatchWave
    <2>1. /\ \A j \in Jobs : phase[j] = "waiting"
          /\ NextGroup(phase, session) /\ outcome' = outcome /\ registered' = registered
        BY <1>2 DEF DispatchWave
    <2>2. Active(phase) = {}
        BY <2>1 DEF Active
    <2>3. queue = <<>> /\ heldJobs = <<>>
        <3>1. /\ queue \in Seq(Jobs) /\ heldJobs \in Seq(Jobs)
              /\ \A j \in Range(queue) : phase[j] = "queued"
              /\ \A j \in Range(heldJobs) : phase[j] = "held"
            BY DEF FanoutInv, GroupInv
        <3>2. Range(queue) = {} /\ Range(heldJobs) = {}
            BY <2>1, <3>1 DEF Range
        <3> QED BY <3>1, <3>2 DEF Range
    <2>4. /\ GroupInv(phase', session', queue', heldJobs') /\ BegunWhole(phase')
          /\ \A j \in Jobs : session'[j] = "prompted" => session[j] = "prompted"
        BY <1>1, <2>1, <2>2, <2>3, NextGroupKeeps DEF FanoutInv
    <2>5. SessionsAreAccountedFor'
        BY <2>1, <2>4 DEF FanoutInv, SessionsAreAccountedFor
    <2> QED BY <2>1, <2>4, <2>5 DEF FanoutInv
<1>3. CASE Poll
    BY <1>3, AnnounceKeeps DEF Poll
<1>4. ASSUME NEW t \in Trees, NotifyClear(t) PROVE FanoutInv'
    BY <1>4, AnnounceKeeps DEF NotifyClear
<1>5. ASSUME NEW j \in Jobs, SessionStep(j) PROVE FanoutInv'
    BY <1>5, SessionStepKeeps
<1>6. ASSUME UNCHANGED <<phase, jobVars, queue, heldJobs>> PROVE FanoutInv'
    <2>1. UNCHANGED <<phase, outcome, session, registered, queue, heldJobs>>
        BY <1>6 DEF jobVars
    <2>2. SessionsAreAccountedFor'
        BY <2>1 DEF FanoutInv, SessionsAreAccountedFor
    <2> QED BY <1>1, <2>1, <2>2, StandingKept DEF FanoutInv
<1>7. CASE \E t \in Trees : Freeze(t) \/ Thaw(t)
    BY <1>6, <1>7 DEF Freeze, Thaw
<1>8. CASE UNCHANGED fanoutVars
    BY <1>6, <1>8 DEF fanoutVars, jobVars
<1> QED BY <1>2, <1>3, <1>4, <1>5, <1>7, <1>8 DEF FanoutNext

\* Whatever the host answers, or does not, and whichever of a reply, a watchdog and a late
\* create comes first, in a wave of any size: a session that was prompted has an owner in
\* the registry until it is idle or told to end, and the host serves one model at a time,
\* to no more jobs than readers (fanout.ts:535-630,819-925).
THEOREM WavesAreOrderly == FanoutSpec => []SessionsInOrder
<1>1. FanoutInv => SessionsInOrder
    <2> SUFFICES ASSUME FanoutInv PROVE SessionsInOrder
        OBVIOUS
    <2>1. ASSUME NEW i \in InFlight(phase), NEW j \in InFlight(phase) PROVE ModelOf[i] = ModelOf[j]
        <3>1. i \in Active(phase) /\ j \in Active(phase) /\ i \in Jobs /\ j \in Jobs
            BY DEF InFlight, Active
        <3>2. GroupOf(i) = GroupOf(j)
            BY <3>1 DEF FanoutInv, GroupInv
        <3> QED BY <3>1, <3>2, GroupsAreOfAModel
    <2> QED BY <2>1 DEF FanoutInv, GroupInv, SessionsInOrder, OneModelAtATime
<1>2. FanoutSpec => []FanoutInv
    BY FanoutInvInit, FanoutInvNext, PTL DEF FanoutSpec
<1> QED BY <1>1, <1>2, PTL
==============================================================================
