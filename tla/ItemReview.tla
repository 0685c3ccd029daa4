----------------------------- MODULE ItemReview -----------------------------
(***************************************************************************)
(* conductor_item_review (conductor/adapter/tools.ts handleItemReview):    *)
(* the rounds an item at VALIDATED goes through before it is REVIEWED.     *)
(*                                                                         *)
(* A round: the lenses read the item's diff, skeptics sit on each finding  *)
(* that gates, the survivors are fixed by the test-writer and then by the  *)
(* implementer, a changed test is vetted again, and the tree is verified.  *)
(*                                                                         *)
(* The awaits of the handler are the moments "lenses", "panel", "fix",     *)
(* "pushback", "redemand", "refix" and "revet"; the others are stretches   *)
(* of one synchronous step, told apart because a kill may cut it there.    *)
(* The tree is what has happened to its two halves, the files and the      *)
(* tests of the item; the kinds of file in its diff stay what they were.   *)
(* What the other tools do to the item meanwhile is in ItemStages.         *)
(***************************************************************************)
EXTENDS Naturals, FiniteSets, Sequences

CONSTANTS
    Raisable,         \* findings a lens may raise: lens, severity, and the paths they name
    Skeptics,         \* k, the seats of a panel
    ReviewMaxRounds,  \* workflow.reviewMaxRounds
    Changes,          \* what an item's diff may consist of: sets of kinds of file
    Stashes,          \* what the repository's stash may hold at the start
    MaxRaised,        \* bound: findings of one round
    MaxReviews        \* bound: calls of the tool

Halves == {"file", "test"}
Fixers == {"testWriter", "implementer"}

\* What a finding's path-like tokens fall into: one of the halves, or elsewhere.
ASSUME ItemReviewAssumption ==
    /\ \A f \in Raisable :
          /\ f.severity \in {"major", "minor", "nit"}
          /\ f.fix \subseteq Halves \cup {"elsewhere"}
          /\ f.prose \subseteq Halves \cup {"elsewhere"}
    /\ {Skeptics, ReviewMaxRounds} \subseteq Nat \ {0}
    /\ {MaxRaised, MaxReviews} \subseteq Nat

VARIABLES
    moment,      \* where the call stands; "idle" between calls
    ruling,      \* of the last call: none, asked (the item is blocked), reviewed
    rounds,
    change,      \* the kinds of file in the item's diff
    gating,      \* the findings of the round that gate
    survivors,   \* roundSurvivors
    setAside,    \* findings a panel upheld, discarded for a surviving spec finding
    dead,        \* survivors that a pushback's panel refuted
    fixer,       \* the role whose fix pass is under way
    touched,     \* the halves edited since the pass began
    pushed,      \* the findings the fixer pushed back on
    unseen,      \* the halves edited since the lenses were shown the diff
    unvetted,    \* were the tests edited since critics cleared them?
    unverified,  \* was the tree edited since a green verify?
    stash,       \* refs/stash, the newest entry first
    early,       \* history: a call ended on a tree it had not vetted or verified
    reviews      \* calls so far

roundVars == <<gating, survivors, setAside, dead, fixer, touched, pushed>>
treeVars == <<unseen, unvetted, unverified, stash>>
reviewVars == <<moment, ruling, rounds, change, roundVars, treeVars, early, reviews>>

ItemReviewInit ==
    /\ moment = "idle" /\ ruling = "none" /\ rounds = 0 /\ change \in Changes
    /\ gating = {} /\ survivors = {} /\ setAside = {} /\ dead = {}
    /\ fixer = "implementer" /\ touched = {} /\ pushed = {}
    /\ unseen = {} /\ unvetted = FALSE /\ unverified = FALSE /\ stash \in Stashes
    /\ early = FALSE /\ reviews = 0
-----------------------------------------------------------------------------
(* The read witness (core/review-witness.ts).                              *)

\* The hunks of a file's diff as post-image lines.  An emptied file has one hunk
\* without lines, anchored before the first; a created file is one hunk, unless it
\* is empty.  A removed file's header names no post-image, a binary one has none.
Hunks(kind) ==
    CASE kind = "edited" -> {<<1, 1>>, <<3, 3>>}
      [] kind = "created" -> {<<1, 2>>}
      [] kind = "emptied" -> {<<0, 0>>}
      [] OTHER -> {}

Headed(kind) == kind \in {"edited", "created", "emptied", "blank"}

\* A mutant of DiffContact: a header without a hunk stays.
DiffContactOfHeaders(files) == {f \in files : Headed(f)}

\* The files a reviewer must cite.  One without a hunk has no line to cite.
DiffContact(files) == {f \in files : Headed(f) /\ Hunks(f) # {}}

SpansOverlap(a, b) == a[1] <= b[2] /\ b[1] <= a[2]

\* Each cited range is a span within a hunk of a touched file, and each touched
\* file is cited.
CheckReadWitness(cited, files) ==
    /\ \A range \in cited :
          /\ range.file \in DiffContact(files)
          /\ 1 <= range.span[1] /\ range.span[1] <= range.span[2]
          /\ \E hunk \in Hunks(range.file) : SpansOverlap(hunk, range.span)
    /\ \A file \in DiffContact(files) : \E range \in cited : range.file = file

Spans == {<<0, 0>>, <<1, 1>>, <<2, 2>>, <<3, 2>>}

\* One range for each file that is cited at all.
Witnesses(files) ==
    UNION {{{[file |-> f, span |-> span[f]] : f \in some} : span \in [some -> Spans]} :
             some \in SUBSET files}

CanWitness(files) == \E cited \in Witnesses(files) : CheckReadWitness(cited, files)
-----------------------------------------------------------------------------
(* Adjudication, routing and the receipt floor.                            *)

QualityLenses == {"test-adequacy", "minimality", "perf"}

\* findingSurvives: seats that abstain, and seats still empty after one more
\* dispatch, count with those that uphold; a tie upholds.
FindingSurvives(refuting) == Skeptics - refuting >= (Skeptics + 1) \div 2

\* What a panel upholds of the findings before it.
Panel(findings) ==
    {{f \in findings : FindingSurvives(refuting[f])} :
       refuting \in [findings -> 0 .. Skeptics]}

\* A surviving spec finding discards the round's quality findings.
Retained(upheld) ==
    IF \E f \in upheld : f.lens = "spec/contract"
    THEN {f \in upheld : f.lens \notin QualityLenses}
    ELSE upheld

RoutedTo(f, role) ==
    LET testWriter == f.lens = "test-adequacy" \/ "test" \in f.fix
    IN  IF role = "testWriter" THEN testWriter ELSE ~testWriter \/ "file" \in f.fix

\* What the edit gate lets a role write, and the scope its findings fall back to.
WritableHalves(role) == IF role = "testWriter" THEN {"test"} ELSE {"file"}

FindingSubjects(f, role) ==
    IF f.prose \cup f.fix # {} THEN f.prose \cup f.fix ELSE WritableHalves(role)

FloorExclusions(role) == IF role = "implementer" THEN {"test"} ELSE {}

\* A receipt stands if the pass touched something the findings name.
ReceiptFloor(role, edits, findings) ==
    (edits \ FloorExclusions(role)) \cap UNION {FindingSubjects(f, role) : f \in findings} # {}

WriterSet == {f \in survivors : RoutedTo(f, "testWriter")}
ImplSet == {f \in survivors : RoutedTo(f, "implementer")}

\* implLive leaves out what the test-writer's pushback refuted.
Obliged == (IF fixer = "testWriter" THEN WriterSet ELSE ImplSet) \ dead
-----------------------------------------------------------------------------
(* The call.                                                               *)

EndsCall(how) ==
    /\ moment' = "idle" /\ ruling' = how
    /\ UNCHANGED <<rounds, change, reviews>>

\* What a call leaves behind that ends before its verify.
LeavesEarly == early' = (early \/ unvetted' \/ unverified')

\* The lenses are shown the diff as it stands.
Round(n) ==
    /\ moment' = "lenses" /\ rounds' = n
    /\ gating' = {} /\ survivors' = {} /\ setAside' = {} /\ dead' = {}
    /\ fixer' = "implementer" /\ touched' = {} /\ pushed' = {}
    /\ unseen' = {}
    /\ UNCHANGED <<ruling, change, stash, early>>

CallReview ==
    /\ moment = "idle" /\ ruling = "none" /\ reviews < MaxReviews
    /\ reviews' = reviews + 1
    /\ Round(1)
    /\ UNCHANGED <<unvetted, unverified>>

\* The human's answer unblocks the item, which is at VALIDATED still.
AnswerReview ==
    /\ moment = "idle" /\ ruling = "asked"
    /\ ruling' = "none"
    /\ UNCHANGED <<moment, rounds, change, roundVars, treeVars, early, reviews>>

AdvanceItem == EndsCall("reviewed") /\ UNCHANGED <<treeVars, early>>

\* A nit gates nothing.
LensesAnswer ==
    /\ moment = "lenses" /\ CanWitness(change)
    /\ \E raised \in SUBSET Raisable :
          /\ Cardinality(raised) <= MaxRaised
          /\ gating' = {f \in raised : f.severity # "nit"}
    /\ \/ gating' = {} /\ AdvanceItem
       \/ /\ gating' # {} /\ moment' = "panel"
          /\ UNCHANGED <<ruling, rounds, change, treeVars, early, reviews>>
    /\ UNCHANGED <<survivors, setAside, dead, fixer, touched, pushed>>

\* The test-writer's pass comes first.
PanelAnswers ==
    /\ moment = "panel"
    /\ \E upheld \in Panel(gating) :
          /\ survivors' = Retained(upheld)
          /\ setAside' = upheld \ Retained(upheld)
    /\ \/ survivors' = {} /\ AdvanceItem /\ UNCHANGED fixer
       \/ /\ survivors' # {} /\ moment' = "fix"
          /\ fixer' = IF WriterSet' # {} THEN "testWriter" ELSE "implementer"
          /\ UNCHANGED <<ruling, rounds, change, treeVars, early, reviews>>
    /\ UNCHANGED <<gating, dead, touched, pushed>>

\* A sub-session edits what its gate allows, whatever its receipt says.
Edits ==
    \E edits \in SUBSET WritableHalves(fixer) :
        /\ touched' = touched \cup edits /\ unseen' = unseen \cup edits
        /\ unvetted' = (unvetted \/ "test" \in edits)
        /\ unverified' = (unverified \/ edits # {})

\* BLOCKED, NEEDS_CONTEXT, a refused probe, re-vet or receipt: one question.
GivesUp == EndsCall("asked") /\ LeavesEarly

Goes(to) == moment' = to /\ UNCHANGED <<ruling, rounds, change, early, reviews>>

FixAnswers ==
    /\ moment = "fix" /\ Edits
    /\ \/ GivesUp /\ UNCHANGED pushed
       \/ Goes("measure") /\ UNCHANGED pushed
       \/ /\ pushed' \in (SUBSET Obliged) \ {{}}
          /\ Goes("pushback")
    /\ UNCHANGED <<gating, survivors, setAside, dead, fixer, stash>>

\* One more panel hears the fixer's reasoning: a finding dies or is demanded again.
PushbackAnswers ==
    /\ moment = "pushback"
    /\ \E upheld \in Panel(pushed) :
          /\ dead' = dead \cup (pushed \ upheld)
          /\ Goes(IF upheld = {} THEN "measure" ELSE "redemand")
    /\ UNCHANGED <<gating, survivors, setAside, fixer, touched, pushed, treeVars>>

RedemandAnswers ==
    /\ moment = "redemand" /\ Edits
    /\ GivesUp \/ Goes("measure")
    /\ UNCHANGED <<gating, survivors, setAside, dead, fixer, pushed, stash>>

\* A mutant of AfterThePass: a test-writer whose findings all died changed nothing.
AfterThePassUnlessPushedBack ==
    IF fixer = "testWriter" /\ Obliged # {} THEN "probe" ELSE "verify"

\* A changed test returns to its discipline, whatever became of the findings.
AfterThePass == IF fixer = "testWriter" THEN "probe" ELSE "verify"

Measure ==
    /\ moment = "measure"
    /\ Goes(IF Obliged = {} \/ ReceiptFloor(fixer, touched, Obliged)
            THEN AfterThePass ELSE "refix")
    /\ UNCHANGED <<roundVars, treeVars>>

\* A refused receipt is demanded once more, and then it is the human's.
RefixAnswers ==
    /\ moment = "refix" /\ Edits
    /\ \/ GivesUp
       \/ /\ ReceiptFloor(fixer, touched', Obliged)
          /\ Goes(AfterThePass)
    /\ UNCHANGED <<gating, survivors, setAside, dead, fixer, pushed, stash>>

\* git stash push over the file scope: it mints an entry for tracked changes only,
\* and without any it may succeed all the same.
Push ==
    /\ moment = "probe"
    /\ \/ Goes("revet") /\ UNCHANGED stash
       \/ /\ change \cap {"edited", "emptied", "removed", "binary"} # {}
          /\ stash' = <<"probe">> \o stash
          /\ Goes("probing")
       \/ /\ change \cap {"edited", "emptied", "removed", "binary"} = {}
          /\ Goes(IF stash = <<>> THEN "revet" ELSE "probing")
          /\ UNCHANGED stash
    /\ UNCHANGED <<roundVars, unseen, unvetted, unverified>>

\* The test runs, and the newest entry is popped, which may fail unnoticed: a test
\* that passes without the implementation is refused.
Pop ==
    /\ moment = "probing"
    /\ stash' \in {stash, Tail(stash)}
    /\ UNCHANGED <<roundVars, unseen, unvetted, unverified>>
    /\ GivesUp \/ Goes("revet")

RevetAnswers ==
    /\ moment = "revet"
    /\ UNCHANGED <<gating, survivors, setAside, dead, pushed, unseen, unverified, stash>>
    /\ \/ unvetted' = unvetted /\ GivesUp /\ UNCHANGED <<fixer, touched>>
       \/ /\ unvetted' = FALSE
          /\ IF ImplSet \ dead = {} THEN Goes("verify") /\ UNCHANGED <<fixer, touched>>
             ELSE Goes("fix") /\ fixer' = "implementer" /\ touched' = {}

\* A mutant of Verified: the cap is settled before the tree is verified.
VerifiedUnlessSettled == unverified' = (unverified /\ survivors \subseteq dead)

Verified == unverified' = FALSE

\* The re-validate; a red one is an error of the call.  At the cap the item
\* advances if every survivor died, and is the human's otherwise.
Revalidate ==
    /\ moment = "verify" /\ Verified
    /\ \/ rounds < ReviewMaxRounds /\ Round(rounds + 1) /\ UNCHANGED reviews
       \/ /\ rounds >= ReviewMaxRounds
          /\ EndsCall(IF survivors \subseteq dead THEN "reviewed" ELSE "asked")
          /\ UNCHANGED <<roundVars, unseen, stash, early>>
    /\ UNCHANGED unvetted

\* A sub-session without a valid reply, a witness that is refused and a red verify
\* throw; a kill may come anywhere.  The item stays at VALIDATED.
Broken ==
    /\ moment # "idle"
    /\ EndsCall("none")
    /\ early' = (early \/ unvetted \/ unverified)
    /\ UNCHANGED <<roundVars, treeVars>>

ItemReviewNext ==
    \/ CallReview \/ AnswerReview \/ LensesAnswer \/ PanelAnswers
    \/ FixAnswers \/ PushbackAnswers \/ RedemandAnswers \/ Measure \/ RefixAnswers
    \/ Push \/ Pop \/ RevetAnswers \/ Revalidate \/ Broken

ItemReviewSpec == ItemReviewInit /\ [][ItemReviewNext]_reviewVars
-----------------------------------------------------------------------------
\* The round cap with every survivor refuted on pushback: the last fixes stand,
\* and no lens has read them.
SettledByPushback ==
    rounds = ReviewMaxRounds /\ survivors # {} /\ survivors \subseteq dead

\* "Fix => re-validate => re-review": an item is REVIEWED on the tree its lenses
\* read, its tests cleared by critics and the whole verified green, whatever was
\* edited, pushed back or demanded again on the way, unless an earlier call was
\* cut short on a tree of its own making.
ApprovalIsOfTheTree ==
    ruling = "reviewed" =>
        /\ unseen = {} \/ SettledByPushback
        /\ early \/ (~unvetted /\ ~unverified)

\* A finding that names nothing the fixer it goes to may write.
NamesOnlyElsewhere(f, role) == FindingSubjects(f, role) \cap WritableHalves(role) = {}

\* No stage asks for what cannot be given, "how a floor becomes a wedge"
\* (review-witness.ts): a reviewer who read every file can show it, unless a file
\* was emptied, and a fixer who edits what it may can meet the floor, unless all
\* its findings name files it may not touch.
DemandsCanBeMet ==
    /\ moment = "lenses" => CanWitness(change) \/ "emptied" \in change
    /\ moment \in {"fix", "redemand", "refix"} =>
           \/ ReceiptFloor(fixer, WritableHalves(fixer), Obliged)
           \/ \A f \in Obliged : NamesOnlyElsewhere(f, fixer)

\* A quality finding set aside for a spec finding is "re-derived by the NEXT
\* round's fresh fan-out" (tools.ts step 2c): no item is REVIEWED over a finding
\* that its last panel upheld and nobody refuted.
NothingUpheldIsWavedThrough ==
    ruling = "reviewed" => survivors \cup setAside \subseteq dead

\* "ANY stash failure [...] SKIPS the probe" (tools.ts probeReverted): what the
\* user had stashed is there as long as no one but the tool touches the stash.
HoldsTheUsers(entries) == \E i \in DOMAIN entries : entries[i] = "user"

TheUsersStashStands == [][HoldsTheUsers(stash) => HoldsTheUsers(stash')]_stash
=============================================================================
