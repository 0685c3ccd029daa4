---------------------------- MODULE WorkspaceLock ---------------------------
(***************************************************************************)
(* The workspace's single-writer lock (conductor/adapter/state.ts): the    *)
(* file run.lock that openWorkspace() takes and release() deletes, and the *)
(* identity-keyed break of a stale lock.                                   *)
(*                                                                         *)
(* The actors are operating-system processes that share a directory.  Each *)
(* runs synchronous code, so the interleaving is between system calls: an  *)
(* action is one link, read, rename or unlink, together with the decisions *)
(* the code takes on its result.  link() publishes a whole file or fails   *)
(* (claimLockFile, createBreakRight), so no half-written file exists, and  *)
(* the private temporary files it starts from are left out.                *)
(*                                                                         *)
(* A token is one acquisition: the process and its attempt.  A lock file   *)
(* holds a token, or Garbage that does not parse.                          *)
(***************************************************************************)
EXTENDS Integers, FiniteSets

CONSTANTS
    Procs,        \* processes that open the workspace, each once
    Ghost,        \* the dead process whose lock may be left from before
    NoFile,       \* no file at a path; also the null of parseLockFile()
    Garbage,      \* a file that parses to no record
    MaxAttempts,  \* the retry budget of acquireLock() (8 in the code)
    MaxAlive,     \* how many processes may be open at the same time
    InitialLocks, \* what run.lock may hold at the start
    CrashSteps,   \* the steps at which a process may die
    MayAge        \* a lock may outlive staleLockMs (24 h) under a live owner

ASSUME LockAssumption ==
    /\ IsFiniteSet(Procs)
    /\ Ghost \notin Procs /\ NoFile \notin Procs
    /\ NoFile # Garbage
    /\ MaxAttempts \in Nat \ {0}
    /\ MaxAlive \in Nat \ {0}
    /\ CrashSteps \subseteq STRING
    /\ MayAge \in BOOLEAN

Token == [owner : Procs \cup {Ghost}, attempt : 1 .. MaxAttempts]

GhostToken == [owner |-> Ghost, attempt |-> 1]

ASSUME LockFilesAssumption ==
    /\ NoFile \notin Token
    /\ Garbage \notin Token
    /\ InitialLocks \subseteq {NoFile, Garbage, GhostToken}

VARIABLES
    lock,     \* run.lock
    right,    \* run.lock.break.<key>: the process that made it, or NoFile
    aside,    \* run.lock.stale.<key>: what was moved there
    pc,       \* where each process stands
    attempt,  \* its pass of the loop in acquireLock()
    judged,   \* the record it read and judged stale; NoFile is null
    held,     \* the token of the lock it was given
    aged      \* the tokens that are over-age

lockVars == <<lock, right, aside, pc, attempt, judged, held, aged>>

LockKeys == Token \cup {NoFile}

\* The steps of a process inside openWorkspace() and release().
Opening == {"claim", "verify", "read", "mint", "orphan", "clear", "reread", "exists",
            "rename", "inspect", "putback", "discard", "drop"}
Closed == {"refused", "exhausted", "released", "crashed"}
Steps == Opening \cup Closed \cup {"start", "held", "check", "delete"}

\* parseLockFile(): an absent and an unreadable file both give null.
Parse(file) == IF file = Garbage THEN NoFile ELSE file

\* pidIsAlive(): a process that was refused or released keeps running.
PidAlive(p) == p \in Procs /\ pc[p] # "crashed"

Mine(p) == [owner |-> p, attempt |-> attempt[p]]

\* A lock of the opener itself is adopted as it stands.
OwnedBy(p) == {t \in Token : t.owner = p}

\* A mutant of Honored that never asks whether the owner lives.
HonoredWhoever(p) == {t \in Token : t.owner # p /\ t \notin aged}

\* A foreign lock is honored while its owner lives and it is not over-age.
Honored(p) == {t \in Token : t.owner # p /\ PidAlive(t.owner) /\ t \notin aged}

Holding == {p \in Procs : pc[p] \in {"held", "check"}}

StepTo(p, step) == pc' = [pc EXCEPT ![p] = step]

\* The end of a pass: the next one, or the refusal when the budget is spent.
Retry(p) ==
    IF attempt[p] < MaxAttempts
    THEN StepTo(p, "claim") /\ attempt' = [attempt EXCEPT ![p] = @ + 1]
    ELSE StepTo(p, "exhausted") /\ UNCHANGED attempt
-----------------------------------------------------------------------------
LockInit ==
    /\ lock \in InitialLocks
    /\ right = [k \in LockKeys |-> NoFile]
    /\ aside = [k \in LockKeys |-> NoFile]
    /\ pc = [p \in Procs |-> "start"]
    /\ attempt = [p \in Procs |-> 1]
    /\ judged = [p \in Procs |-> NoFile]
    /\ held = [p \in Procs |-> NoFile]
    /\ aged = {}

OpenLock(p) ==
    /\ pc[p] = "start"
    /\ Cardinality({q \in Procs : pc[q] \notin Closed \cup {"start"}}) < MaxAlive
    /\ StepTo(p, "claim")
    /\ UNCHANGED <<lock, right, aside, attempt, judged, held, aged>>

\* claimLockFile(): link() wins the path or reports EEXIST.
ClaimLock(p) ==
    /\ pc[p] = "claim"
    /\ IF lock = NoFile
       THEN lock' = Mine(p) /\ StepTo(p, "verify")
       ELSE StepTo(p, "read") /\ UNCHANGED lock
    /\ UNCHANGED <<right, aside, attempt, judged, held, aged>>

\* The self-verify: the file must still carry this claim's token.
VerifyClaim(p) ==
    /\ pc[p] = "verify"
    /\ IF Parse(lock) = Mine(p)
       THEN /\ StepTo(p, "held")
            /\ held' = [held EXCEPT ![p] = Mine(p)]
            /\ UNCHANGED attempt
       ELSE Retry(p) /\ UNCHANGED held
    /\ UNCHANGED <<lock, right, aside, judged, aged>>

\* The decision on the lock that stood in the way.
ReadExisting(p) ==
    /\ pc[p] = "read"
    /\ LET existing == Parse(lock)
       IN  \/ /\ existing \in OwnedBy(p)
              /\ StepTo(p, "held")
              /\ held' = [held EXCEPT ![p] = existing]
              /\ UNCHANGED judged
           \/ /\ existing \in Honored(p)
              /\ StepTo(p, "refused")
              /\ UNCHANGED <<held, judged>>
           \/ /\ existing \notin OwnedBy(p) \cup Honored(p)
              /\ judged' = [judged EXCEPT ![p] = existing]
              /\ StepTo(p, "mint")
              /\ UNCHANGED held
    /\ UNCHANGED <<lock, right, aside, attempt, aged>>

\* createBreakRight(): the exclusive right to break the judged identity.
MintRight(p) ==
    /\ pc[p] = "mint"
    /\ IF right[judged[p]] = NoFile
       THEN right' = [right EXCEPT ![judged[p]] = p] /\ StepTo(p, "reread")
       ELSE StepTo(p, "orphan") /\ UNCHANGED right
    /\ UNCHANGED <<lock, aside, attempt, judged, held, aged>>

\* A mutant of JudgeRight that trusts a right whose maker has died.
JudgeRightByIdentity(p) ==
    /\ pc[p] = "orphan"
    /\ IF Parse(lock) # judged[p]
       THEN StepTo(p, "clear") /\ UNCHANGED attempt
       ELSE Retry(p)
    /\ UNCHANGED <<lock, right, aside, judged, held, aged>>

\* A right that stands already is cleared when its identity has left the path
\* or its maker is gone, and respected otherwise.  (A right older than a day is
\* cleared too: no maker lives in breakStaleLock() that long, so it is left out.)
JudgeRight(p) ==
    /\ pc[p] = "orphan"
    /\ LET maker == right[judged[p]]
       IN  IF Parse(lock) # judged[p] \/ (maker # NoFile /\ ~PidAlive(maker))
           THEN StepTo(p, "clear") /\ UNCHANGED attempt
           ELSE Retry(p)
    /\ UNCHANGED <<lock, right, aside, judged, held, aged>>

\* rmSync(breakRight): unlinks whatever is at the name by now.
ClearRight(p) ==
    /\ pc[p] \in {"clear", "drop"}
    /\ right' = [right EXCEPT ![judged[p]] = NoFile]
    /\ Retry(p)
    /\ UNCHANGED <<lock, aside, judged, held, aged>>

\* The re-read under the right.
Reread(p) ==
    /\ pc[p] = "reread"
    /\ IF Parse(lock) # judged[p]
       THEN StepTo(p, "drop")
       ELSE StepTo(p, IF judged[p] = NoFile THEN "exists" ELSE "rename")
    /\ UNCHANGED <<lock, right, aside, attempt, judged, held, aged>>

\* existsSync(): an absent file is not broken, only an unreadable one.
CheckPresent(p) ==
    /\ pc[p] = "exists"
    /\ StepTo(p, IF lock = NoFile THEN "drop" ELSE "rename")
    /\ UNCHANGED <<lock, right, aside, attempt, judged, held, aged>>

\* renameSync(lockPath, aside): moves whatever occupies the path, or fails.
RenameAside(p) ==
    /\ pc[p] = "rename"
    /\ IF lock = NoFile
       THEN StepTo(p, "drop") /\ UNCHANGED <<lock, aside>>
       ELSE /\ aside' = [aside EXCEPT ![judged[p]] = lock]
            /\ lock' = NoFile
            /\ StepTo(p, "inspect")
    /\ UNCHANGED <<right, attempt, judged, held, aged>>

\* A mutant of Inspect that deletes whatever it moved.
InspectNothing(p) ==
    /\ pc[p] = "inspect"
    /\ StepTo(p, "discard")
    /\ UNCHANGED <<lock, right, aside, attempt, judged, held, aged>>

\* The moved file is the one that was judged, or it must go back.
Inspect(p) ==
    /\ pc[p] = "inspect"
    /\ StepTo(p, IF Parse(aside[judged[p]]) = judged[p] THEN "discard" ELSE "putback")
    /\ UNCHANGED <<lock, right, aside, attempt, judged, held, aged>>

\* linkSync(aside, lockPath): refuses to displace a claim that stands.
PutBack(p) ==
    /\ pc[p] = "putback"
    /\ lock' = IF lock = NoFile THEN aside[judged[p]] ELSE lock
    /\ StepTo(p, "discard")
    /\ UNCHANGED <<right, aside, attempt, judged, held, aged>>

Discard(p) ==
    /\ pc[p] = "discard"
    /\ aside' = [aside EXCEPT ![judged[p]] = NoFile]
    /\ StepTo(p, "drop")
    /\ UNCHANGED <<lock, right, attempt, judged, held, aged>>

\* release() begins.
BeginRelease(p) ==
    /\ pc[p] = "held"
    /\ StepTo(p, "check")
    /\ UNCHANGED <<lock, right, aside, attempt, judged, held, aged>>

\* release() reads the lock: a lock that is not this claim's stays.
CheckOwn(p) ==
    /\ pc[p] = "check"
    /\ StepTo(p, IF Parse(lock) = held[p] THEN "delete" ELSE "released")
    /\ UNCHANGED <<lock, right, aside, attempt, judged, held, aged>>

\* rmSync(lockPath): deletes whatever is there by now.
DeleteLock(p) ==
    /\ pc[p] = "delete"
    /\ lock' = NoFile
    /\ StepTo(p, "released")
    /\ UNCHANGED <<right, aside, attempt, judged, held, aged>>

\* A process dies; its files stay.
OpenerDies(p) ==
    /\ pc[p] \in CrashSteps
    /\ StepTo(p, "crashed")
    /\ UNCHANGED <<lock, right, aside, attempt, judged, held, aged>>

\* A day passes for the lock a process holds.
GrowOld(p) ==
    /\ MayAge
    /\ pc[p] = "held"
    /\ held[p] \notin aged
    /\ aged' = aged \cup {held[p]}
    /\ UNCHANGED <<lock, right, aside, pc, attempt, judged, held>>

Acquire(p) ==
    \/ ClaimLock(p) \/ VerifyClaim(p) \/ ReadExisting(p)
    \/ MintRight(p) \/ JudgeRight(p) \/ ClearRight(p) \/ Reread(p) \/ CheckPresent(p)
    \/ RenameAside(p) \/ Inspect(p) \/ PutBack(p) \/ Discard(p)

CloseLock(p) == CheckOwn(p) \/ DeleteLock(p)

LockNext == \E p \in Procs :
    OpenLock(p) \/ Acquire(p) \/ BeginRelease(p) \/ CloseLock(p) \/ OpenerDies(p) \/ GrowOld(p)

LockSpec == LockInit /\ [][LockNext]_lockVars

-----------------------------------------------------------------------------
\* Two cold starts cannot both become writers (state.ts:655-660), as long as no
\* live lock has outlived its day, which lets it be broken.
SingleWriter == aged = {} => Cardinality(Holding) <= 1

\* Racing openers cannot all be turned away, over-age locks or not: when every
\* process is through with the workspace and none died, one of them had it.
SomebodyWins ==
    (\A p \in Procs : pc[p] \in Closed \ {"crashed"}) => \E p \in Procs : held[p] # NoFile

\* A crash never wedges the workspace: whatever lock, break right or moved file
\* dead processes left, an opener that is alone is neither refused nor does it run
\* out of attempts (MaxAlive is 1).
LoneOpenerGetsIn == \A p \in Procs : pc[p] \notin {"refused", "exhausted"}
=============================================================================
