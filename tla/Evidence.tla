------------------------------- MODULE Evidence -------------------------------
(* The evidence ledger of a run (adapter/evidence.ts): what a test run is      *)
(* worth, how its record gets its number, and which red the critics are given *)
(* (capturedRedOf() in adapter/tools.ts).  A process that lost the workspace   *)
(* lock because it held it for too long lives on, so the numbers are issued    *)
(* under a latch of their own.  Every call on the file system is an action;    *)
(* verifies and their markers are in Quarantine.                               *)
EXTENDS Integers, Sequences, FiniteSetsExt

CONSTANTS
    Writers,       \* processes; a process opens the workspace at most once
    LatchTries,    \* attempts to get the latch
    MaxRuns,       \* bound: test runs
    MaxWriterKills       \* bound: kills

NoWriter == "nobody"

ASSUME EvidenceAssumption ==
    /\ IsFiniteSet(Writers) /\ NoWriter \notin Writers
    /\ {LatchTries, MaxRuns, MaxWriterKills} \subseteq Nat \ {0}

VARIABLES
    up,        \* the processes that are running
    holder,    \* the process run.lock names
    latch,     \* evidence.seq.lock: its owner, and whether its content is there
    counter,   \* evidence.seq: the last number issued
    lines,     \* evidence.jsonl
    tail,      \* its last line has no end
    subject,   \* the item: its state, evidence.red, and whether it is blocked
    doing,     \* where a process is in a run, and its local variables
    issued,    \* history: how often a number was issued
    robbed,    \* history: somebody removed the latch of a running process
    handed,    \* history: the run whose red the critics got, and the last run by then
    spent      \* the bounds used up

evidenceVars ==
    <<up, holder, latch, counter, lines, tail, subject, doing, issued, robbed, handed, spent>>

NoLatch == [by |-> NoWriter, full |-> FALSE]
Numbers == 1..MaxRuns
Resting == [step |-> "rest", run |-> 0, verdict |-> "none", number |-> 0, tries |-> 0]
To(p, step) == doing' = [doing EXCEPT ![p].step = step]
AtStep(p, step) == p \in up /\ doing[p].step = step
diskVars == <<holder, latch, counter, lines, tail, subject>>
witnesses == <<issued, robbed, handed>>

-----------------------------------------------------------------------------
(* What a run of the item's test is worth. *)

Results == {"zero", "pass", "assertion", "error"}  \* `assertion`: missing-subject too

\* Without a template, or when the targeted run executed no test, the whole scope runs.
FellBack(template, first) == ~template \/ first = "zero"
Decisive(template, first, whole) == IF FellBack(template, first) THEN whole ELSE first
\* A red is legal if it failed for the right reason, in this item's test.
LegalRed(template, first, whole, names) ==
    /\ Decisive(template, first, whole) = "assertion"
    /\ ~FellBack(template, first) \/ names
Verdict(template, first, whole, names) ==
    CASE Decisive(template, first, whole) \in {"pass", "zero"} -> "green"
      [] LegalRed(template, first, whole, names) -> "red"
      [] Decisive(template, first, whole) = "error" -> "broken"
      [] OTHER -> "foreign"
Verdicts ==
    {Verdict(template, first, whole, names) :
        template \in BOOLEAN, first \in Results, whole \in Results, names \in BOOLEAN}

-----------------------------------------------------------------------------
(* Processes. *)

\* openWorkspace(): the lock is free, its holder is dead, or it is over-age.
OpenWorkspace(p) ==
    /\ p \notin up /\ doing[p].step = "new" /\ holder # p
    /\ up' = up \cup {p} /\ holder' = p /\ doing' = [doing EXCEPT ![p] = Resting]
    /\ UNCHANGED <<latch, counter, lines, tail, subject, witnesses, spent>>

\* A kill in the middle of an append leaves part of the line.
KillWriter(p) ==
    /\ p \in up /\ spent.kills < MaxWriterKills
    /\ up' = up \ {p} /\ doing' = [doing EXCEPT ![p] = [Resting EXCEPT !.step = "dead"]]
    /\ \/ UNCHANGED <<lines, tail>>
       \/ /\ doing[p].step = "append" /\ tail' = TRUE
          /\ lines' = IF tail THEN lines
                      ELSE Append(lines, [run |-> 0, number |-> 0, verdict |-> "torn"])
    /\ spent' = [spent EXCEPT !.kills = @ + 1]
    /\ UNCHANGED <<holder, latch, counter, subject, witnesses>>

\* conductor_submit_test, and the repairs of the vetting, run the test.
BeginRun(p, verdict) ==
    /\ AtStep(p, "rest") /\ spent.runs < MaxRuns /\ ~subject.blocked
    /\ doing' = [doing EXCEPT ![p] = [Resting EXCEPT !.step = "guard", !.run = spent.runs + 1,
                                                     !.verdict = verdict]]
    /\ spent' = [spent EXCEPT !.runs = @ + 1]
    /\ UNCHANGED <<up, diskVars, witnesses>>

-----------------------------------------------------------------------------
(* mintEvidenceSeq() *)

\* assertWorkspaceLockHeld(): not beside a running process that holds the lock.
Guard(p) ==
    /\ AtStep(p, "guard")
    /\ IF holder # p /\ holder \in up THEN doing' = [doing EXCEPT ![p] = Resting]
       ELSE To(p, "claim")
    /\ UNCHANGED <<up, diskVars, witnesses, spent>>

\* The exclusive create; its content follows.
ClaimLatch(p) ==
    /\ AtStep(p, "claim")
    /\ IF latch = NoLatch
       THEN latch' = [by |-> p, full |-> FALSE] /\ To(p, "fill")
       ELSE UNCHANGED latch /\ To(p, "judge")
    /\ UNCHANGED <<up, holder, counter, lines, tail, subject, witnesses, spent>>

Fill(p) ==
    /\ AtStep(p, "fill") /\ To(p, "read")
    /\ latch' = IF latch.by = p THEN [latch EXCEPT !.full = TRUE] ELSE latch
    /\ UNCHANGED <<up, holder, counter, lines, tail, subject, witnesses, spent>>

\* Unreadable, of a dead process, or older than thirty seconds.
Stale == latch = NoLatch \/ ~latch.full \/ latch.by \notin up

JudgeLatch(p) ==
    /\ AtStep(p, "judge")
    /\ \E aged \in BOOLEAN :
          LET tries == doing[p].tries + 1
              next == IF Stale \/ aged THEN "break"
                      ELSE IF tries < LatchTries THEN "claim" ELSE "rest"
          IN doing' = [doing EXCEPT ![p].step = next, ![p].tries = tries]
    /\ UNCHANGED <<up, diskVars, witnesses, spent>>

\* The latch goes, whoever took it in the meantime.
RemoveLatch(p) ==
    /\ latch' = NoLatch
    /\ robbed' = (robbed \/ latch.by \in up \ {p})

Break(p) ==
    /\ AtStep(p, "break") /\ RemoveLatch(p)
    /\ To(p, IF doing[p].tries < LatchTries THEN "claim" ELSE "rest")
    /\ UNCHANGED <<up, holder, counter, lines, tail, subject, issued, handed, spent>>

NumbersOnTheLedger == {lines[k].number : k \in DOMAIN lines}
\* Mutant: one more than the ledger shows.
NextOnTheLedger == 1 + Max(NumbersOnTheLedger \cup {0})
NextNumber == 1 + Max(NumbersOnTheLedger \cup {counter})

Read(p) ==
    /\ AtStep(p, "read")
    /\ doing' = [doing EXCEPT ![p].step = "commit", ![p].number = NextNumber]
    /\ UNCHANGED <<up, diskVars, witnesses, spent>>

\* The counter is replaced before the number is used.
CommitNumber(p) ==
    /\ AtStep(p, "commit") /\ counter' = doing[p].number /\ To(p, "release")
    /\ issued' = [issued EXCEPT ![doing[p].number] = @ + 1]
    /\ UNCHANGED <<up, holder, latch, lines, tail, subject, robbed, handed, spent>>

\* releaseSeqLatch(): a latch that names another process is left alone, ...
Release(p) ==
    /\ AtStep(p, "release")
    /\ To(p, IF latch.full /\ latch.by # p THEN "append" ELSE "unlink")
    /\ UNCHANGED <<up, diskVars, witnesses, spent>>

\* ... and by now it may be another one.
Unlink(p) ==
    /\ AtStep(p, "unlink") /\ RemoveLatch(p) /\ To(p, "append")
    /\ UNCHANGED <<up, holder, counter, lines, tail, subject, issued, handed, spent>>

-----------------------------------------------------------------------------
(* The record, and who reads it. *)

Record(p) == [run |-> doing[p].run, number |-> doing[p].number, verdict |-> doing[p].verdict]
CutShort(line) == [line EXCEPT !.number = 0, !.verdict = "torn"]

\* A record that follows an unfinished line is part of it.
AppendRecord(p) ==
    /\ AtStep(p, "append") /\ To(p, "settle") /\ tail' = FALSE
    /\ lines' = IF tail THEN [lines EXCEPT ![Len(lines)] = CutShort(Record(p))]
                ELSE Append(lines, Record(p))
    /\ UNCHANGED <<up, holder, latch, counter, subject, witnesses, spent>>

\* The handler that asked for the run: a legal red is what the item stands on from
\* now; at RED, anything else blocks it.
SettleRun(p) ==
    /\ AtStep(p, "settle") /\ doing' = [doing EXCEPT ![p] = Resting]
    /\ subject' = IF doing[p].verdict = "red"
                  THEN [subject EXCEPT !.state = "RED", !.red = doing[p].number]
                  ELSE [subject EXCEPT !.blocked = subject.state = "RED"]
    /\ UNCHANGED <<up, holder, latch, counter, lines, tail, witnesses, spent>>

\* The operator answers the question the block asked.
Unblock ==
    /\ subject.blocked /\ subject' = [subject EXCEPT !.blocked = FALSE]
    /\ UNCHANGED <<up, holder, latch, counter, lines, tail, doing, witnesses, spent>>

\* The records that may be the captured red.  Their class is what counts: a red of
\* somebody else's test is among them.
Reds == {k \in DOMAIN lines : lines[k].verdict \in {"red", "foreign"}}
Pointed == {k \in Reds : lines[k].number = subject.red}
Captured == IF Pointed # {} THEN Max(Pointed) ELSE Max(Reds)
LastReadable == Max({k \in DOMAIN lines : lines[k].verdict # "torn"})
Unreadable == \E k \in DOMAIN lines : lines[k].verdict = "torn"

\* Mutant: the later of two runs is the one with the higher number.
StaleByNumber == Unreadable \/ lines[Captured].number # Max(NumbersOnTheLedger)
\* capturedRedOf(): by position, as two records may carry one number.
StaleRed == Unreadable \/ Captured # LastReadable

\* conductor_vet_test: a stale red is established anew, any other goes to the critics.
Vet(p) ==
    /\ AtStep(p, "rest") /\ subject.state = "RED" /\ ~subject.blocked /\ Reds # {}
    /\ ~StaleRed
    /\ handed' = [run |-> lines[Captured].run, verdict |-> lines[Captured].verdict,
                  last |-> lines[Len(lines)].run]
    /\ UNCHANGED <<up, diskVars, doing, issued, robbed, spent>>

EvidenceInit ==
    /\ up = {} /\ holder = NoWriter /\ latch = NoLatch /\ counter = 0
    /\ lines = <<>> /\ tail = FALSE /\ subject = [state |-> "PENDING", red |-> 0, blocked |-> FALSE]
    /\ doing = [p \in Writers |-> [Resting EXCEPT !.step = "new"]]
    /\ issued = [n \in Numbers |-> 0] /\ robbed = FALSE
    /\ handed = [run |-> 0, verdict |-> "red", last |-> 0] /\ spent = [runs |-> 0, kills |-> 0]

EvidenceNext ==
    \/ Unblock
    \/ \E p \in Writers :
          \/ OpenWorkspace(p) \/ KillWriter(p) \/ Guard(p) \/ ClaimLatch(p) \/ Fill(p) \/ JudgeLatch(p) \/ Break(p)
          \/ Read(p) \/ CommitNumber(p) \/ Release(p) \/ Unlink(p)
          \/ AppendRecord(p) \/ SettleRun(p) \/ Vet(p)
          \/ \E verdict \in Verdicts : BeginRun(p, verdict)

EvidenceSpec == EvidenceInit /\ [][EvidenceNext]_evidenceVars

-----------------------------------------------------------------------------
\* No number is issued twice, whoever is killed between the counter and the ledger
\* and whatever line is torn, as long as nobody removes the latch of a process that
\* is still at work: two processes that find a stale latch may do that.
NumbersAreIssuedOnce == robbed \/ \A n \in Numbers : issued[n] <= 1

\* The red the critics judge a test against is that of the last run on record: no
\* later run of the test, readable or not, came to anything else.  This stands even
\* if two records carry one number; that it is a legal red of this test does not.
CriticsSeeTheLastRed == handed.run = handed.last /\ (robbed \/ handed.verdict = "red")
=============================================================================
