--------------------------- MODULE QuestionsProofs ---------------------------
(***************************************************************************)
(* Proofs about Questions, for every set of items and origins, every       *)
(* number of asks and every number of cuts.                                *)
(***************************************************************************)
EXTENDS Questions, IntegerSets

Question == [origin : Origins, names : SUBSET Items, human : BOOLEAN,
             via : {"open", "tool", "human-file"}]
SomeAsk == [n : Nat, origin : Origins, names : SUBSET Items, human : BOOLEAN]
SomeOperation ==
  [at : {"rest", "question", "block", "clear", "handoff"}, ask : SomeAsk,
   q : Nat, via : {"open", "tool", "human-file"},
   left : SUBSET Items, cleared : SUBSET Items]

\* TypeOK without the bounds, which only model checking needs.
TypeInv ==
  /\ questions \in Seq(Question)
  /\ blocked \in [Items -> Nat]
  /\ released \in [Items -> SUBSET Nat]
  /\ life \in [Items -> {"open", "published", "gone"}]
  /\ intents \in SUBSET SomeAsk
  /\ asks \in Nat
  /\ stop \in {"none", "resumable", "noop"}
  /\ pointer \in BOOLEAN
  /\ op \in SomeOperation
  /\ pass \in {"out", "replay", "reconcile", "ingest", "verdict", "archive"}

GoneInv == \A i \in Items : ~Live(i) => blocked[i] = 0

\* What the next write of an operation may rely on.
OpInv ==
  /\ op.at = "block" => op.q \in OpenIds /\ op.left \subseteq questions[op.q].names
  /\ op.at \in {"clear", "handoff"} => op.q \in Ids /\ op.via # "open"
  /\ op.at = "clear" => \A i \in Items : blocked[i] = op.q => i \in op.left
  /\ op.at = "handoff" => \A i \in op.left : OpenNaming(i) # {}
  /\ op.at \in {"block", "handoff"} => \A i \in op.left : Live(i)
  /\ op.at = "clear" => \A i \in op.left \cup op.cleared : Live(i)

Inv == TypeInv /\ GoneInv /\ OpInv /\ BlockedOnAnOpenQuestion

\* The oldest of a nonempty set of ids is one of them.
LEMMA OldestIsAMember ==
  ASSUME NEW S \in SUBSET Nat, S # {}
  PROVE  Oldest(S) \in S
BY NatMin DEF Oldest

\* Question ids are the positions of the ledger.
LEMMA IdsAreNumbers ==
  ASSUME TypeInv
  PROVE  /\ Ids = 1..Len(questions)
         /\ Len(questions) \in Nat
         /\ OpenIds \in SUBSET Nat
         /\ \A q \in Ids : questions[q] \in Question
         /\ \A q \in Ids : q \in Nat /\ q # 0
BY DEF TypeInv, Ids, OpenIds

\* Appending leaves the older records alone and adds an open one.
LEMMA AppendedQuestion ==
  ASSUME TypeInv, NEW a \in SomeAsk, questions' = Append(questions, Record(a))
  PROVE  /\ questions' \in Seq(Question)
         /\ Len(questions) + 1 \in OpenIds'
         /\ questions'[Len(questions) + 1] = Record(a)
         /\ OpenIds' = OpenIds \cup {Len(questions) + 1}
         /\ \A q \in Ids : q \in Ids' /\ questions'[q] = questions[q]
         /\ Ids' = Ids \cup {Len(questions) + 1}
         /\ Len(questions) + 1 \notin Ids
<1>1. Record(a) \in Question /\ Record(a).via = "open"
  BY DEF Record, SomeAsk, Question
<1>2. /\ questions' \in Seq(Question)
      /\ Len(questions') = Len(questions) + 1
      /\ questions'[Len(questions) + 1] = Record(a)
      /\ \A q \in 1..Len(questions) : questions'[q] = questions[q]
  BY <1>1 DEF TypeInv
<1> QED BY <1>1, <1>2, IdsAreNumbers DEF Ids, OpenIds, IsOpen

\* The invariant holds of a run without questions.
LEMMA InitInv == QuestionsAssumption /\ Init => Inv
BY DEF Init, Inv, TypeInv, GoneInv, OpInv, BlockedOnAnOpenQuestion, Live, Rest, NoAsk,
       SomeOperation, SomeAsk, Origins

\* The items an ask has yet to block are named by it and have a file.
LEMMA UndisposedAreLive ==
  ASSUME NEW names \in SUBSET Items
  PROVE  Undisposed(names) \in SUBSET names /\ \A i \in Undisposed(names) : Live(i)
BY DEF Undisposed

\* The values at rest are of the types of an ask and an operation.
LEMMA NoAskIsAnAsk == NoAsk \in SomeAsk /\ Rest \in SomeOperation
BY DEF NoAsk, Rest, SomeAsk, SomeOperation, Origins

-----------------------------------------------------------------------------
(* One lemma per group of actions. *)

\* Steps that touch neither the ledger nor the item files, and leave no
\* operation under way or one that has written nothing yet.
LEMMA QuietStep ==
  ASSUME Inv, UNCHANGED <<questions, blocked, life>>, TypeInv',
         op'.at \in {"rest", "question"} \/ op' = op
  PROVE  Inv'
BY DEF Inv, GoneInv, OpInv, BlockedOnAnOpenQuestion, OpenIds, Ids, IsOpen, OpenNaming, Live

\* Writing an intent preserves the invariant.
LEMMA AskStep ==
  ASSUME Inv, NEW origin \in Origins, NEW names \in SUBSET Items,
         NEW human \in BOOLEAN, Ask(origin, names, human)
  PROVE  Inv'
<1> DEFINE a == [n |-> asks + 1, origin |-> origin, names |-> names, human |-> human]
<1>a. a \in SomeAsk
  BY DEF Inv, TypeInv, SomeAsk
<1>b. /\ intents' = intents \cup {a}
      /\ op' = [Rest EXCEPT !.at = "question", !.ask = a]
  BY DEF Ask
<1>c. op' \in SomeOperation
  <2> HIDE DEF a
  <2> QED BY <1>a, <1>b, NoAskIsAnAsk DEF SomeOperation, Rest
<1>1. TypeInv'
  <2> HIDE DEF a
  <2> QED BY <1>a, <1>b, <1>c DEF Inv, TypeInv, Ask, itemFiles, run
<1>2. op'.at = "question"
  BY DEF Ask, Rest
<1> QED BY <1>1, <1>2, QuietStep DEF Ask, itemFiles

\* Adopting an open question preserves the invariant: it names the ask's items.
LEMMA AdoptStep ==
  ASSUME Inv, AdoptQuestion
  PROVE  Inv'
<1>1. Adoptable(op.ask) \in SUBSET OpenIds /\ Adoptable(op.ask) # {}
  BY DEF AdoptQuestion, Adoptable
<1>2. Oldest(Adoptable(op.ask)) \in Adoptable(op.ask)
  BY <1>1, IdsAreNumbers, OldestIsAMember DEF Inv
<1>3. op.ask.names \subseteq questions[Oldest(Adoptable(op.ask))].names
  BY <1>2 DEF Adoptable
<1>u. /\ op.ask.names \in SUBSET Items
      /\ Undisposed(op.ask.names) \in SUBSET op.ask.names
      /\ \A i \in Undisposed(op.ask.names) : Live(i)
  BY UndisposedAreLive DEF Inv, TypeInv, SomeOperation, SomeAsk
<1>4. op' \in SomeOperation /\ op'.at = "block" /\ op'.q = Oldest(Adoptable(op.ask))
        /\ op'.left = Undisposed(op.ask.names)
  BY <1>1, <1>2, <1>u, IdsAreNumbers DEF Inv, AdoptQuestion, TypeInv, SomeOperation
<1>5. TypeInv' /\ GoneInv' /\ BlockedOnAnOpenQuestion'
  BY <1>4 DEF Inv, TypeInv, GoneInv, BlockedOnAnOpenQuestion, AdoptQuestion, itemFiles, run,
      OpenIds, Ids, IsOpen, Live
<1>6. OpInv'
  BY <1>1, <1>2, <1>3, <1>4, <1>u
  DEF OpInv, AdoptQuestion, OpenIds, Ids, IsOpen, Live, itemFiles
<1> QED BY <1>5, <1>6 DEF Inv

\* A question is appended and its blocks are next: AppendQuestion and Surface.
LEMMA AppendStep ==
  ASSUME Inv, NEW a \in SomeAsk, questions' = Append(questions, Record(a)),
         UNCHANGED <<blocked, released, life>>, TypeInv',
         op'.at = "block", op'.q = Len(questions) + 1,
         op'.left = Undisposed(a.names)
  PROVE  Inv'
<1>1. /\ Len(questions) + 1 \in OpenIds'
      /\ questions'[Len(questions) + 1] = Record(a)
      /\ OpenIds' = OpenIds \cup {Len(questions) + 1}
      /\ \A q \in Ids : q \in Ids' /\ questions'[q] = questions[q]
  BY AppendedQuestion DEF Inv
<1>2. OpInv'
  BY <1>1, UndisposedAreLive DEF OpInv, Record, Live, SomeAsk
<1>3. BlockedOnAnOpenQuestion' /\ GoneInv'
  BY <1>1 DEF Inv, GoneInv, Live, BlockedOnAnOpenQuestion, OpenIds
<1> QED BY <1>2, <1>3 DEF Inv

\* Appending a question preserves the invariant: no id in use changes.
LEMMA AppendQuestionStep ==
  ASSUME Inv, AppendQuestion
  PROVE  Inv'
<1>1. op.ask \in SomeAsk
  BY DEF Inv, TypeInv, SomeOperation
<1>2. questions' \in Seq(Question)
  BY <1>1, AppendedQuestion DEF Inv, AppendQuestion
<1>u. Undisposed(op.ask.names) \in SUBSET Items
  BY <1>1, UndisposedAreLive DEF SomeAsk
<1>l. Len(questions) + 1 \in Nat
  BY IdsAreNumbers DEF Inv
<1>o. op' = [op EXCEPT !.at = "block", !.q = Len(questions) + 1,
                       !.left = Undisposed(op.ask.names)]
  BY DEF AppendQuestion
<1>3. op' \in SomeOperation /\ op'.at = "block" /\ op'.q = Len(questions) + 1
        /\ op'.left = Undisposed(op.ask.names)
  BY <1>o, <1>u, <1>l DEF Inv, TypeInv, SomeOperation
<1>4. TypeInv'
  BY <1>2, <1>3 DEF Inv, TypeInv, AppendQuestion, itemFiles, run
<1> QED BY <1>1, <1>3, <1>4, AppendStep DEF AppendQuestion, itemFiles

\* Surfacing a question preserves the invariant.
LEMMA SurfaceStep ==
  ASSUME Inv, QuestionsAssumption, Surface
  PROVE  Inv'
<1>1. PICK names \in SUBSET {i \in Items : Live(i)}, human \in HumanChoices :
        /\ asks' = asks + 1
        /\ questions' = Append(questions,
             Record([NoAsk EXCEPT !.names = names, !.human = human]))
        /\ op' = [Rest EXCEPT !.at = "block", !.q = Len(questions) + 1,
                              !.left = Undisposed(names)]
        /\ UNCHANGED <<itemFiles, intents, dropped, run, pass, cuts>>
  BY DEF Surface
<1> DEFINE a == [NoAsk EXCEPT !.names = names, !.human = human]
<1>2. a \in SomeAsk /\ a.names = names
  BY QuestionsAssumption DEF QuestionsAssumption, SomeAsk, NoAsk, Origins
<1>3. questions' \in Seq(Question)
  <2> HIDE DEF a
  <2> QED BY <1>1, <1>2, AppendedQuestion DEF Inv, a
<1>u. Undisposed(names) \in SUBSET Items
  BY UndisposedAreLive
<1>l. Len(questions) + 1 \in Nat
  BY IdsAreNumbers DEF Inv
<1>4. op' \in SomeOperation /\ op'.at = "block" /\ op'.q = Len(questions) + 1
        /\ op'.left = Undisposed(names)
  BY <1>1, <1>u, <1>l, NoAskIsAnAsk DEF SomeOperation, Rest
<1>5. TypeInv'
  BY <1>1, <1>3, <1>4 DEF Inv, TypeInv, itemFiles, run
<1> HIDE DEF a
<1> QED BY <1>1, <1>2, <1>4, <1>5, AppendStep DEF itemFiles, a

\* Blocking an item preserves the invariant: the question is open and names it.
LEMMA BlockStep ==
  ASSUME Inv, NEW i \in Items, Block(i)
  PROVE  Inv'
<1>1. TypeInv'
  BY DEF Inv, TypeInv, Block, SomeOperation, run
<1>2. /\ op.q \in OpenIds /\ i \in questions[op.q].names /\ Live(i)
      /\ op.left \subseteq questions[op.q].names
  BY DEF Inv, OpInv, Block
<1>3. /\ \A j \in Items : blocked'[j] = IF j = i THEN op.q ELSE blocked[j]
      /\ op'.at = "block" /\ op'.q = op.q /\ op'.left \subseteq op.left
      /\ questions' = questions /\ life' = life
  BY DEF Inv, TypeInv, Block, SomeOperation
<1>4. OpenIds' = OpenIds /\ \A j \in Items : Live(j)' = Live(j)
  BY <1>3 DEF OpenIds, Ids, IsOpen, Live
<1>5. GoneInv'
  BY <1>2, <1>3, <1>4 DEF Inv, GoneInv
<1>6. OpInv'
  <2>1. op'.q \in OpenIds' /\ op'.left \subseteq questions'[op'.q].names
    BY <1>2, <1>3, <1>4
  <2>2. \A j \in op'.left : Live(j)'
    <3>1. op.at = "block" /\ op'.left \subseteq Items
      BY DEF Block, Inv, TypeInv, SomeOperation
    <3>2. \A j \in op.left : Live(j)
      BY <3>1 DEF Inv, OpInv
    <3> QED BY <1>3, <1>4, <3>1, <3>2
  <2> QED BY <1>3, <2>1, <2>2 DEF OpInv
<1>7. BlockedOnAnOpenQuestion'
  BY <1>2, <1>3, <1>4 DEF Inv, BlockedOnAnOpenQuestion
<1> QED BY <1>1, <1>5, <1>6, <1>7 DEF Inv

\* Dropping the intent preserves the invariant.
LEMMA LandedStep ==
  ASSUME Inv, Landed
  PROVE  Inv'
<1>1. TypeInv'
  BY NoAskIsAnAsk DEF Inv, TypeInv, Landed, itemFiles, run
<1> QED BY <1>1, QuietStep DEF Landed, itemFiles, Rest

\* Starting an answer preserves the invariant.
LEMMA StartAnswerStep ==
  ASSUME Inv, NEW q \in Ids, NEW via \in {"tool", "human-file"}, StartAnswer(q, via)
  PROVE  Inv'
<1>1. op' \in SomeOperation
  BY NoAskIsAnAsk, IdsAreNumbers DEF Inv, StartAnswer, SomeOperation, Rest
<1>2. TypeInv'
  BY <1>1 DEF Inv, TypeInv, StartAnswer, itemFiles, run
<1>3. op'.at = "clear" /\ op'.q = q /\ op'.via = via /\ op'.cleared = {}
        /\ op'.left = {i \in Items : Live(i) /\ blocked[i] = q}
  BY DEF StartAnswer, Rest
<1>4. \A i \in Items : blocked[i] = q => Live(i)
  BY IdsAreNumbers DEF Inv, GoneInv
<1> QED BY <1>2, <1>3, <1>4 DEF Inv, GoneInv, OpInv, BlockedOnAnOpenQuestion, StartAnswer,
    itemFiles, OpenIds, Ids, IsOpen, Live

\* Clearing an item preserves the invariant.
LEMMA ClearStep ==
  ASSUME Inv, NEW i \in Items, Clear(i)
  PROVE  Inv'
<1>1. TypeInv'
  BY DEF Inv, TypeInv, Clear, SomeOperation, run
<1>2. op.q # 0
  BY IdsAreNumbers DEF Inv, OpInv, Clear
<1> QED BY <1>1, <1>2
  DEF Inv, TypeInv, GoneInv, OpInv, BlockedOnAnOpenQuestion, Clear, OpenIds, Ids, IsOpen,
      Live, SomeOperation

\* Recording an answer preserves the invariant: no item is left on its question.
LEMMA MarkStep ==
  ASSUME Inv, Mark
  PROVE  Inv'
<1>1. op.q \in Ids /\ op.at = "clear" /\ op.left = {} /\ op.via \in {"tool", "human-file"}
  BY DEF Inv, OpInv, Mark, TypeInv, SomeOperation
<1>r. /\ [questions[op.q] EXCEPT !.via = op.via] \in Question
      /\ questions' = [questions EXCEPT ![op.q] = [questions[op.q] EXCEPT !.via = op.via]]
  BY <1>1, IdsAreNumbers DEF Inv, Mark, Question
<1>2. questions' \in Seq(Question) /\ Ids' = Ids
  BY <1>1, <1>r DEF Inv, TypeInv, Ids
<1>3. \A q \in Ids : /\ questions'[q].names = questions[q].names
                     /\ q # op.q => questions'[q].via = questions[q].via
                     /\ q = op.q => questions'[q].via # "open"
  BY <1>1, IdsAreNumbers DEF Inv, TypeInv, Mark, Ids, Question
<1>4. OpenIds' = OpenIds \ {op.q}
  BY <1>1, <1>2, <1>3 DEF OpenIds, IsOpen
<1>5. \A i \in Items : OpenNaming(i)' = OpenNaming(i) \ {op.q}
  BY <1>2, <1>3, <1>4 DEF OpenNaming, OpenIds
<1>6. TypeInv'
  BY <1>2 DEF Inv, TypeInv, Mark, itemFiles, run, SomeOperation
<1>7. op'.at = "handoff" /\ op'.q = op.q /\ op'.via = op.via
        /\ op'.left = {i \in op.cleared : OpenNaming(i) \ {op.q} # {}}
  BY DEF Mark, Inv, TypeInv, SomeOperation
<1>8. op.cleared \in SUBSET Items /\ \A i \in op.cleared : Live(i)
  BY <1>1 DEF Inv, OpInv, TypeInv, SomeOperation
<1>9. UNCHANGED <<blocked, life>>
  BY DEF Mark, itemFiles
<1>10. OpInv'
  BY <1>1, <1>2, <1>5, <1>7, <1>8, <1>9 DEF OpInv, Live
<1>11. BlockedOnAnOpenQuestion'
  BY <1>1, <1>3, <1>4, <1>9 DEF Inv, OpInv, BlockedOnAnOpenQuestion, OpenIds
<1>12. GoneInv'
  BY <1>9 DEF Inv, GoneInv, Live
<1> QED BY <1>6, <1>10, <1>11, <1>12 DEF Inv

\* The item is put on an open question that names it: HandOff and Reconcile.
LEMMA GatingStep ==
  ASSUME Inv, NEW i \in Items, NEW q \in OpenNaming(i), Live(i),
         blocked' = [blocked EXCEPT ![i] = q],
         UNCHANGED <<questions, released, life>>
  PROVE  /\ blocked' \in [Items -> Nat]
         /\ GoneInv'
         /\ BlockedOnAnOpenQuestion'
<1>1. q \in OpenIds /\ i \in questions[q].names /\ q \in Nat
  BY IdsAreNumbers DEF Inv, OpenNaming, OpenIds
<1> QED BY <1>1 DEF Inv, TypeInv, GoneInv, Live, BlockedOnAnOpenQuestion, OpenIds, Ids, IsOpen

\* An item another open question names has an oldest such question.
LEMMA OldestNaming ==
  ASSUME Inv, NEW i \in Items, OpenNaming(i) # {}
  PROVE  Oldest(OpenNaming(i)) \in OpenNaming(i)
<1>1. OpenNaming(i) \in SUBSET Nat
  BY IdsAreNumbers DEF Inv, OpenNaming
<1> QED BY <1>1, OldestIsAMember

\* Handing an item to a successor preserves the invariant.
LEMMA HandOffStep ==
  ASSUME Inv, NEW i \in Items, HandOff(i)
  PROVE  Inv'
<1>1. OpenNaming(i) # {} /\ Live(i) /\ op.at = "handoff"
  BY DEF Inv, OpInv, HandOff
<1>2. blocked' \in [Items -> Nat] /\ GoneInv' /\ BlockedOnAnOpenQuestion'
  <2>1. Oldest(OpenNaming(i)) \in OpenNaming(i)
    BY <1>1, OldestNaming
  <2> QED BY <1>1, <2>1, GatingStep DEF HandOff
<1>3. TypeInv'
  BY <1>2 DEF Inv, TypeInv, HandOff, SomeOperation, run
<1>4. OpInv'
  BY <1>1 DEF Inv, TypeInv, OpInv, HandOff, SomeOperation, OpenNaming, OpenIds, Ids, IsOpen, Live
<1> QED BY <1>2, <1>3, <1>4 DEF Inv

\* Reviving the run preserves the invariant.
LEMMA ReviveStep ==
  ASSUME Inv, Revive
  PROVE  Inv'
<1>1. TypeInv'
  BY NoAskIsAnAsk DEF Inv, TypeInv, Revive, itemFiles
<1> QED BY <1>1, QuietStep DEF Revive, itemFiles, Rest

\* Amendments and publication touch one item file and no question.
LEMMA ItemFileSteps ==
  ASSUME Inv, NEW i \in Items,
         AmendUpdate(i) \/ AmendRebirth(i) \/ AmendRemove(i) \/ Publish(i)
  PROVE  Inv'
<1>1. op = Rest /\ UNCHANGED <<questions, intents, asks, run, op, pass>>
  BY DEF AmendUpdate, AmendRebirth, AmendRemove, Publish, ItemFileStep, CalledLive, Called
<1>2. TypeInv'
  <2>1. /\ blocked' \in [Items -> Nat]
        /\ released' \in [Items -> SUBSET Nat]
        /\ life' \in [Items -> {"open", "published", "gone"}]
    <3>1. CASE AmendUpdate(i)
      <4>1. released[i] \cup {blocked[i]} \in SUBSET Nat
        BY DEF Inv, TypeInv
      <4> QED BY <3>1, <4>1 DEF Inv, TypeInv, AmendUpdate
    <3>2. CASE AmendRebirth(i)
      BY <3>2 DEF Inv, TypeInv, AmendRebirth, FreshItem
    <3>3. CASE AmendRemove(i)
      BY <3>3 DEF Inv, TypeInv, AmendRemove, FreshItem
    <3>4. CASE Publish(i)
      BY <3>4 DEF Inv, TypeInv, Publish
    <3> QED BY <3>1, <3>2, <3>3, <3>4
  <2> QED BY <1>1, <2>1 DEF Inv, TypeInv, run
<1>3. \A j \in Items : \/ blocked'[j] = 0
                       \/ blocked'[j] = blocked[j] /\ Live(j)' = Live(j)
  BY DEF Inv, TypeInv, AmendUpdate, AmendRebirth, AmendRemove, Publish, FreshItem, Live
<1>4. GoneInv' /\ BlockedOnAnOpenQuestion'
  BY <1>1, <1>3 DEF Inv, GoneInv, BlockedOnAnOpenQuestion, OpenIds, Ids, IsOpen
<1>5. OpInv'
  BY <1>1 DEF OpInv, Rest
<1> QED BY <1>2, <1>4, <1>5 DEF Inv

\* Reconciling an orphan preserves the invariant: its question is open and names it.
LEMMA ReconcileStep ==
  ASSUME Inv, Reconcile
  PROVE  Inv'
<1>1. Oldest(Orphans) \in Orphans
  <2>1. Orphans \in SUBSET Nat /\ Orphans # {}
    BY IdsAreNumbers DEF Inv, Orphans, Reconcile
  <2> QED BY <2>1, OldestIsAMember
<1>2. PICK i \in Owed(Oldest(Orphans)) : blocked' = [blocked EXCEPT ![i] = Oldest(Orphans)]
  BY DEF Reconcile
<1>3. i \in Items /\ Live(i) /\ Oldest(Orphans) \in OpenNaming(i)
  <2>1. Oldest(Orphans) \in OpenIds /\ Oldest(Orphans) \in Ids
    BY <1>1 DEF Orphans, OpenIds
  <2>2. questions[Oldest(Orphans)].names \in SUBSET Items
    BY <2>1, IdsAreNumbers DEF Inv, Question
  <2>3. i \in questions[Oldest(Orphans)].names /\ Live(i)
    BY <1>2, <2>2, UndisposedAreLive DEF Owed
  <2> QED BY <2>1, <2>2, <2>3 DEF OpenNaming
<1>4. op = Rest /\ UNCHANGED <<questions, released, life, run, op, pass, intents, asks>>
  BY DEF Reconcile, PassStep
<1>5. blocked' \in [Items -> Nat] /\ GoneInv' /\ BlockedOnAnOpenQuestion'
  BY <1>2, <1>3, <1>4, GatingStep
<1>6. TypeInv' /\ OpInv'
  BY <1>4, <1>5 DEF Inv, TypeInv, run, OpInv, Rest
<1> QED BY <1>5, <1>6 DEF Inv

\* Taking in an answer file preserves the invariant.
LEMMA IngestStep ==
  ASSUME Inv, Ingest
  PROVE  Inv'
<1>1. PendingAnswers \in SUBSET Nat /\ PendingAnswers # {}
  BY IdsAreNumbers DEF Inv, PendingAnswers, Ingest
<1>2. Oldest(PendingAnswers) \in Ids
  BY <1>1, OldestIsAMember DEF PendingAnswers, OpenIds
<1> QED BY <1>2, StartAnswerStep DEF Ingest

\* The rest of the idle pass writes run.json and the pointer, or nothing.
LEMMA PassSteps ==
  ASSUME Inv,
         \/ StartPass \/ Replay \/ ReplayDone \/ ReconcileDone \/ IngestDone
         \/ Terminal \/ Settle \/ Futile \/ Archive \/ RePrompt \/ Cut \/ GiveUpAsk
  PROVE  Inv'
<1>1. UNCHANGED <<questions, blocked, released, life, intents, asks>>
  BY DEF StartPass, Replay, ReplayDone, ReconcileDone, IngestDone, Terminal, Settle, Futile,
         Archive, RePrompt, Cut, GiveUpAsk, PassStep, VerdictStep, itemFiles
<1>2. op' \in SomeOperation /\ (op'.at \in {"rest", "question"} \/ op' = op)
  <2>1. CASE Replay
    BY <2>1, NoAskIsAnAsk DEF Replay, ToReplay, Inv, TypeInv, SomeOperation, Rest
  <2>2. CASE Cut \/ GiveUpAsk
    <3>1. op' = Rest
      BY <2>2 DEF Cut, GiveUpAsk
    <3> QED BY <3>1, NoAskIsAnAsk DEF Rest
  <2>3. CASE ~Replay /\ ~Cut /\ ~GiveUpAsk
    <3>1. op' = op
      BY <2>3 DEF StartPass, ReplayDone, ReconcileDone, IngestDone, Terminal, Settle, Futile,
           Archive, RePrompt, VerdictStep
    <3> QED BY <3>1 DEF Inv, TypeInv
  <2> QED BY <2>1, <2>2, <2>3
<1>3. /\ stop' \in {"none", "resumable", "noop"} /\ pointer' \in BOOLEAN
      /\ pass' \in {"out", "replay", "reconcile", "ingest", "verdict", "archive"}
  BY DEF StartPass, Replay, ReplayDone, ReconcileDone, IngestDone, Terminal, Settle, Futile,
         Archive, RePrompt, Cut, GiveUpAsk, PassStep, VerdictStep, Inv, TypeInv, run
<1>4. TypeInv'
  BY <1>1, <1>2, <1>3 DEF Inv, TypeInv
<1> QED BY <1>1, <1>2, <1>4, QuietStep

\* Every step preserves the invariant: one step per action.
LEMMA NextInv == QuestionsAssumption /\ Inv /\ [Next]_vars => Inv'
<1> SUFFICES ASSUME QuestionsAssumption, Inv, [Next]_vars PROVE Inv'
  OBVIOUS
<1>1. CASE StageAsk
  BY <1>1, AskStep DEF StageAsk, Origins, QuestionsAssumption
<1>2. CASE CapAsk
  BY <1>2, AskStep DEF CapAsk, Origins, QuestionsAssumption
<1>3. CASE Surface
  BY <1>3, SurfaceStep
<1>4. CASE ToolAnswer
  BY <1>4, StartAnswerStep DEF ToolAnswer
<1>5. CASE \E i \in Items : AmendUpdate(i) \/ AmendRebirth(i) \/ AmendRemove(i) \/ Publish(i)
  BY <1>5, ItemFileSteps
<1>6. CASE OperationStep
  BY <1>6, AdoptStep, AppendQuestionStep, LandedStep, MarkStep, ReviveStep, BlockStep,
     ClearStep, HandOffStep DEF OperationStep
<1>7. CASE StartPass \/ PassProgress \/ Futile \/ Cut \/ GiveUpAsk
  BY <1>7, PassSteps, ReconcileStep, IngestStep DEF PassProgress
<1>8. CASE \E q \in Ids : DropAnswer(q)
  <2>1. UNCHANGED <<questions, blocked, life, op>> /\ TypeInv'
    BY <1>8 DEF DropAnswer, Inv, TypeInv, itemFiles, run
  <2> QED BY <2>1, QuietStep
<1>9. CASE UNCHANGED vars
  <2>1. UNCHANGED <<questions, blocked, life, op>> /\ TypeInv'
    BY <1>9 DEF vars, Inv, TypeInv, itemFiles, run
  <2> QED BY <2>1, QuietStep
<1> QED BY <1>1, <1>2, <1>3, <1>4, <1>5, <1>6, <1>7, <1>8, <1>9 DEF Next, ToolCall

\* The inductive invariant of the question ledger holds in every reachable state:
\* types, the record of the operation under way, and the block of every item.
THEOREM InvHolds == Spec => []Inv
<1>1. Init => Inv
  BY InitInv, QuestionsAssumption
<1>2. Inv /\ [Next]_vars => Inv'
  BY NextInv, QuestionsAssumption
<1> QED BY <1>1, <1>2, PTL DEF Spec

\* A blocked item can always be released by an answer: whatever operation was
\* cut short between two of its writes, the question an item is blocked on is in
\* the ledger, open, and names it.
THEOREM BlocksAreAnswerable == Spec => []BlockedOnAnOpenQuestion
<1>1. Inv => BlockedOnAnOpenQuestion
  BY DEF Inv
<1> QED BY <1>1, InvHolds, PTL

-----------------------------------------------------------------------------
(* The gates the verdict relies on. *)

\* While the answer files are ingested, an item an open question names is gated,
\* or is among those the answer under way has cleared and still has to hand off.
GateOrHandOff(q, i) ==
  \/ blocked[i] # 0
  \/ q \in released[i]
  \/ op.at = "clear" /\ i \in op.cleared
  \/ op.at = "handoff" /\ i \in op.left

GateInv ==
  /\ pass \in {"reconcile", "verdict", "archive"} => op = Rest
  /\ pass = "ingest" => op.at \in {"rest", "clear", "handoff"}
  /\ pass \in {"ingest", "verdict"} =>
       \A q \in OpenIds : \A i \in questions[q].names : Live(i) => GateOrHandOff(q, i)

\* Between two ingested answers every gate stands.
LEMMA IngestingStep ==
  ASSUME Inv, GateInv, pass = "ingest",
         Revive \/ Ingest \/ IngestDone
  PROVE  GateInv'
<1>1. UNCHANGED <<questions, blocked, released, life>>
  BY DEF Revive, Ingest, StartAnswer, IngestDone, PassStep, itemFiles
<1>2. /\ op.at = "rest" \/ (op.at = "handoff" /\ op.left = {})
      /\ op'.at \in {"rest", "clear"}
      /\ pass' = "ingest" \/ (pass' = "verdict" /\ op' = Rest)
  <2>1. CASE Revive
    BY <2>1 DEF Revive, Rest
  <2>2. CASE Ingest
    BY <2>2 DEF Ingest, StartAnswer, Rest
  <2>3. CASE IngestDone
    BY <2>3 DEF IngestDone, PassStep, Rest
  <2> QED BY <2>1, <2>2, <2>3
<1>3. \A q \in OpenIds : \A i \in questions[q].names :
        Live(i) => blocked[i] # 0 \/ q \in released[i]
  BY <1>2 DEF GateInv, GateOrHandOff
<1> QED BY <1>1, <1>2, <1>3 DEF GateInv, GateOrHandOff, OpenIds, Ids, IsOpen, Live

\* While an answer clears its items, only its own question loses its gate.
LEMMA IngestingClear ==
  ASSUME Inv, GateInv, pass = "ingest", NEW i \in Items, Clear(i)
  PROVE  GateInv'
BY DEF Inv, TypeInv, SomeOperation, GateInv, GateOrHandOff, Clear, OpenIds, Ids, IsOpen, Live

\* Recording the answer closes that question, and the items another open
\* question names are due a successor.
LEMMA IngestingMark ==
  ASSUME Inv, GateInv, pass = "ingest", Mark
  PROVE  GateInv'
<1>1. op.q \in Ids /\ op.via # "open" /\ op.at = "clear"
  BY DEF Inv, OpInv, Mark
<1>2. /\ Ids' = Ids
      /\ \A q \in Ids : /\ questions'[q].names = questions[q].names
                        /\ q # op.q => questions'[q].via = questions[q].via
                        /\ q = op.q => questions'[q].via # "open"
  BY <1>1, IdsAreNumbers DEF Inv, TypeInv, Mark, Ids, Question
<1>3. OpenIds' = OpenIds \ {op.q}
  BY <1>1, <1>2 DEF OpenIds, IsOpen
<1>4. op'.at = "handoff" /\ op'.left = {i \in op.cleared : OpenNaming(i) \ {op.q} # {}}
  BY DEF Mark, Inv, TypeInv, SomeOperation
<1>5. UNCHANGED <<blocked, released, life, pass>>
  BY DEF Mark, itemFiles
<1>6. ASSUME NEW q \in OpenIds', NEW i \in questions'[q].names, Live(i)'
      PROVE  GateOrHandOff(q, i)'
  <2>1. q \in OpenIds /\ q # op.q /\ q \in Ids /\ i \in questions[q].names /\ Live(i)
    BY <1>2, <1>3, <1>5, <1>6 DEF OpenIds, Live
  <2>2. GateOrHandOff(q, i)
    BY <2>1 DEF GateInv
  <2>3. CASE i \in op.cleared
    BY <1>4, <2>1, <2>3 DEF GateOrHandOff, OpenNaming
  <2>4. CASE i \notin op.cleared
    BY <1>1, <1>5, <2>2, <2>4 DEF GateOrHandOff
  <2> QED BY <2>3, <2>4
<1> QED BY <1>4, <1>5, <1>6 DEF GateInv

\* A hand-off restores the gate of every open question that names the item.
LEMMA IngestingHandOff ==
  ASSUME Inv, GateInv, pass = "ingest", NEW i \in Items, HandOff(i)
  PROVE  GateInv'
<1>1. Oldest(OpenNaming(i)) # 0
  <2>1. OpenNaming(i) # {}
    BY DEF Inv, OpInv, HandOff
  <2> QED BY <2>1, OldestNaming, IdsAreNumbers DEF Inv, OpenNaming, OpenIds
<1> QED BY <1>1
  DEF Inv, TypeInv, SomeOperation, GateInv, GateOrHandOff, HandOff, OpenIds, Ids, IsOpen, Live

\* When the reconciler finds no orphan, every gate stands.
LEMMA ReconcileDoneGates ==
  ASSUME Inv, ReconcileDone
  PROVE  GateInv'
<1>1. \A q \in OpenIds : \A i \in questions[q].names :
        Live(i) => blocked[i] # 0 \/ q \in released[i]
  BY DEF ReconcileDone, Orphans, Owed, Undisposed
<1>2. /\ UNCHANGED <<questions, blocked, released, life>>
      /\ op' = Rest /\ pass' = "ingest"
  BY DEF ReconcileDone, PassStep, itemFiles
<1>3. Rest.at = "rest"
  BY DEF Rest
<1> QED BY <1>1, <1>2, <1>3 DEF GateInv, GateOrHandOff, OpenIds, Ids, IsOpen, Live

\* Every step preserves the gates of the pass: one step per action.
LEMMA GateNext == QuestionsAssumption /\ Inv /\ GateInv /\ [Next]_vars => GateInv'
<1> SUFFICES ASSUME Inv, GateInv, [Next]_vars PROVE GateInv'
  OBVIOUS
<1>r. Rest.at = "rest"
  BY DEF Rest
<1>1. CASE ToolCall \/ StartPass \/ Cut \/ GiveUpAsk \/ (\E q \in Ids : DropAnswer(q))
  <2>1. pass' \in {"out", "replay"}
    BY <1>1 DEF ToolCall, StageAsk, CapAsk, Ask, Surface, ToolAnswer, StartAnswer, AmendUpdate,
         AmendRebirth, AmendRemove, Publish, ItemFileStep, CalledLive, Called, StartPass, Cut,
         GiveUpAsk, DropAnswer
  <2> QED BY <2>1 DEF GateInv
<1>2. CASE OperationStep
  <2>1. op.at # "rest" /\ pass' = pass
    BY <1>2 DEF OperationStep, AdoptQuestion, AppendQuestion, Landed, Mark, Revive, Block,
         Clear, HandOff
  <2>2. CASE pass = "ingest"
    <3>1. op.at \in {"clear", "handoff"}
      BY <2>1, <2>2 DEF GateInv
    <3>2. Mark \/ Revive \/ \E i \in Items : Clear(i) \/ HandOff(i)
      BY <1>2, <3>1 DEF OperationStep, AdoptQuestion, AppendQuestion, Landed, Block
    <3> QED BY <2>2, <3>2, IngestingMark, IngestingStep, IngestingClear, IngestingHandOff
  <2>3. CASE pass # "ingest"
    BY <1>r, <2>1, <2>3 DEF GateInv
  <2> QED BY <2>2, <2>3
<1>3. CASE ReconcileDone
  BY <1>3, ReconcileDoneGates
<1>4. CASE Ingest \/ IngestDone
  BY <1>4, IngestingStep DEF Ingest, IngestDone, PassStep
<1>5. CASE Settle \/ Futile
  BY <1>5, <1>r DEF Settle, Futile, VerdictStep, PassStep, GateInv, GateOrHandOff, itemFiles,
       OpenIds, Ids, IsOpen, Live
<1>6. CASE Replay \/ ReplayDone \/ Reconcile \/ Terminal \/ RePrompt \/ Archive
  <2>1. \/ pass' \in {"out", "replay"}
        \/ pass' = "reconcile" /\ op' = Rest
    BY <1>6 DEF Replay, ReplayDone, Reconcile, Terminal, RePrompt, Archive, VerdictStep, PassStep
  <2> QED BY <2>1 DEF GateInv
<1>7. CASE UNCHANGED vars
  BY <1>7 DEF vars, itemFiles, run, GateInv, GateOrHandOff, OpenIds, Ids, IsOpen, Live
<1> QED BY <1>1, <1>2, <1>3, <1>4, <1>5, <1>6, <1>7 DEF Next, PassProgress

\* Every time the idle pass comes to judge the run, each item an open question
\* names is blocked or was released from that question: what it counts as an open
\* item is one no standing question gates, whatever was cut short before.
THEOREM GatesStand == Spec => []GatesStandAtVerdict
<1>1. Init => GateInv
  BY DEF Init, GateInv
<1>2. Inv /\ GateInv /\ [Next]_vars => GateInv'
  BY GateNext, QuestionsAssumption
<1>3. GateInv => GatesStandAtVerdict
  BY DEF GateInv, GateOrHandOff, GatesStandAtVerdict, Rest
<1> QED BY <1>1, <1>2, <1>3, InvHolds, PTL DEF Spec

-----------------------------------------------------------------------------
(* One useful ask. *)

Single(a) == a.origin \in StageOrigins => \E i \in Items : a.names = {i}

\* Stage asks name one item, in the intents and in the ledger alike: this is why
\* adopting by the first item is adopting by all of them.
UsefulInv ==
  /\ OneUsefulAsk
  /\ \A q \in Ids : Single(questions[q])
  /\ \A a \in intents : Single(a)
  /\ Single(op.ask)

\* The ask at rest is no stage ask.
LEMMA NoAskIsSingle == QuestionsAssumption => Single(NoAsk) /\ Rest.ask = NoAsk
BY DEF QuestionsAssumption, Single, NoAsk, Rest

\* Appending an ask that adopts nothing adds the first open question of its
\* stage origin about its item.
LEMMA UsefulAppend ==
  ASSUME Inv, UsefulInv, NEW a \in SomeAsk, questions' = Append(questions, Record(a)),
         Single(a),
         a.origin \in StageOrigins => Adoptable(a) = {}
  PROVE  OneUsefulAsk' /\ \A q \in Ids' : Single(questions'[q])
<1> DEFINE n == Len(questions) + 1
<1>1. /\ questions'[n] = Record(a)
      /\ OpenIds' = OpenIds \cup {n}
      /\ \A q \in Ids : q \in Ids' /\ questions'[q] = questions[q]
      /\ Ids' = Ids \cup {n}
      /\ n \notin Ids
  BY AppendedQuestion DEF Inv
<1>2. Record(a).origin = a.origin /\ Record(a).names = a.names
  BY DEF Record
<1>3. ASSUME a.origin \in StageOrigins,
             NEW q \in OpenIds, questions[q].origin = a.origin
      PROVE  questions[q].names \cap a.names = {}
  <2>1. PICK i \in Items : a.names = {i}
    BY <1>3 DEF Single
  <2>2. q \notin Adoptable(a) /\ a.origin # CapOrigin
    BY <1>3, QuestionsAssumption DEF QuestionsAssumption
  <2>3. ~(a.names \subseteq questions[q].names)
    BY <1>3, <2>2 DEF Adoptable
  <2> QED BY <2>1, <2>3
<1>4. OneUsefulAsk'
  <2> SUFFICES ASSUME NEW q \in OpenIds', NEW r \in OpenIds', q # r,
                      questions'[q].origin = questions'[r].origin,
                      questions'[q].origin \in StageOrigins
               PROVE  questions'[q].names \cap questions'[r].names = {}
    BY DEF OneUsefulAsk
  <2> HIDE DEF n
  <2>1. CASE q = n
    <3>1. r \in OpenIds /\ questions'[r] = questions[r]
      BY <1>1, <2>1 DEF OpenIds
    <3> QED BY <1>1, <1>2, <1>3, <2>1, <3>1
  <2>2. CASE r = n
    <3>1. q \in OpenIds /\ questions'[q] = questions[q]
      BY <1>1, <2>2 DEF OpenIds
    <3> QED BY <1>1, <1>2, <1>3, <2>2, <3>1
  <2>3. CASE q # n /\ r # n
    <3>1. q \in OpenIds /\ r \in OpenIds /\ questions'[q] = questions[q] /\ questions'[r] = questions[r]
      BY <1>1, <2>3 DEF OpenIds
    <3> QED BY <3>1 DEF UsefulInv, OneUsefulAsk
  <2> QED BY <2>1, <2>2, <2>3
<1>5. \A q \in Ids' : Single(questions'[q])
  <2> HIDE DEF n
  <2>1. Single(Record(a))
    BY <1>2 DEF Single
  <2>2. \A q \in Ids : Single(questions'[q])
    BY <1>1 DEF UsefulInv
  <2> QED BY <1>1, <2>1, <2>2
<1> QED BY <1>4, <1>5

\* A step that leaves the ledger alone asks nothing twice.
LEMMA UsefulUnchanged ==
  ASSUME UsefulInv, UNCHANGED questions
  PROVE  OneUsefulAsk' /\ \A q \in Ids' : Single(questions'[q])
BY DEF UsefulInv, OneUsefulAsk, OpenIds, Ids, IsOpen, Single

\* Every step preserves the one useful ask: one step per action.
LEMMA UsefulNext == Inv /\ UsefulInv /\ [Next]_vars => UsefulInv'
<1> SUFFICES ASSUME Inv, UsefulInv, [Next]_vars PROVE UsefulInv'
  OBVIOUS
<1>n. Single(NoAsk) /\ Rest.ask = NoAsk
  BY NoAskIsSingle, QuestionsAssumption
<1>1. CASE StageAsk \/ CapAsk
  <2>1. PICK origin \in Origins, names \in SUBSET Items, human \in HumanChoices :
          /\ Ask(origin, names, human)
          /\ origin \in StageOrigins => \E i \in Items : names = {i}
    <3>1. CASE StageAsk
      BY <3>1 DEF StageAsk, Origins
    <3>2. CASE CapAsk
      <4>1. CapOrigin \in Origins /\ CapOrigin \notin StageOrigins
        BY QuestionsAssumption DEF Origins, QuestionsAssumption
      <4>2. PICK names \in (SUBSET Items) \ {{}}, human \in HumanChoices :
              Ask(CapOrigin, names, human)
        BY <3>2 DEF CapAsk
      <4> QED BY <4>1, <4>2
    <3> QED BY <1>1, <3>1, <3>2
  <2> DEFINE a == [n |-> asks + 1, origin |-> origin, names |-> names, human |-> human]
  <2>2. /\ intents' = intents \cup {a}
        /\ op' = [Rest EXCEPT !.at = "question", !.ask = a]
        /\ UNCHANGED questions
    BY <2>1 DEF Ask
  <2>3. Single(a) /\ op'.ask = a
    BY <2>1, <2>2 DEF Single, Rest
  <2> HIDE DEF a
  <2> QED BY <2>2, <2>3, UsefulUnchanged DEF UsefulInv
<1>2. CASE AppendQuestion
  <2>1. op.ask \in SomeAsk /\ op'.ask = op.ask /\ intents' = intents
    BY <1>2 DEF Inv, TypeInv, SomeOperation, AppendQuestion
  <2> QED BY <1>2, <2>1, UsefulAppend DEF AppendQuestion, UsefulInv
<1>3. CASE Surface
  <2>1. PICK names \in SUBSET {i \in Items : Live(i)}, human \in HumanChoices :
          /\ questions' = Append(questions,
               Record([NoAsk EXCEPT !.names = names, !.human = human]))
          /\ op' = [Rest EXCEPT !.at = "block", !.q = Len(questions) + 1,
                                !.left = Undisposed(names)]
          /\ UNCHANGED intents
    BY <1>3 DEF Surface
  <2> DEFINE a == [NoAsk EXCEPT !.names = names, !.human = human]
  <2>2. a \in SomeAsk /\ a.origin = SurfaceOrigin
    BY QuestionsAssumption DEF QuestionsAssumption, SomeAsk, NoAsk, Origins
  <2>3. a.origin \notin StageOrigins /\ Single(a)
    BY <2>2, QuestionsAssumption DEF QuestionsAssumption, Single
  <2>4. op'.ask = NoAsk
    BY <2>1, <1>n DEF Rest
  <2>5. OneUsefulAsk' /\ \A q \in Ids' : Single(questions'[q])
    <3> HIDE DEF a
    <3> QED BY <2>1, <2>2, <2>3, UsefulAppend DEF a
  <2> QED BY <1>n, <2>1, <2>4, <2>5 DEF UsefulInv
<1>4. CASE Mark
  <2>1. op.q \in Ids /\ op.via # "open" /\ op'.ask = op.ask /\ intents' = intents
    BY <1>4 DEF Inv, OpInv, TypeInv, SomeOperation, Mark
  <2>2. /\ Ids' = Ids
        /\ \A q \in Ids : /\ questions'[q].names = questions[q].names
                          /\ questions'[q].origin = questions[q].origin
                          /\ questions'[q].via = "open" => questions[q].via = "open"
    BY <1>4, <2>1, IdsAreNumbers DEF Inv, TypeInv, Mark, Ids, Question
  <2> QED BY <2>1, <2>2 DEF UsefulInv, OneUsefulAsk, OpenIds, IsOpen, Single
<1>5. CASE ToolAnswer \/ Ingest \/ AdoptQuestion \/ Landed \/ Revive \/ Cut \/ GiveUpAsk \/ Replay
           \/ (\E i \in Items : Block(i) \/ Clear(i) \/ HandOff(i))
  <2>1. intents' \subseteq intents /\ UNCHANGED questions
    BY <1>5 DEF ToolAnswer, Ingest, StartAnswer, AdoptQuestion, Landed, Revive, Cut, GiveUpAsk, Replay,
         Block, Clear, HandOff, PassStep
  <2>2. op'.ask \in intents \cup {NoAsk, op.ask}
    <3>1. CASE ToolAnswer \/ Ingest \/ Landed \/ Revive \/ Cut \/ GiveUpAsk
      BY <1>n, <3>1, NoAskIsAnAsk
      DEF ToolAnswer, Ingest, StartAnswer, Landed, Revive, Cut, GiveUpAsk, SomeOperation
    <3>2. CASE Replay
      BY <3>2 DEF Replay, ToReplay, Rest
    <3>3. CASE AdoptQuestion \/ \E i \in Items : Block(i) \/ Clear(i) \/ HandOff(i)
      BY <3>3 DEF AdoptQuestion, Block, Clear, HandOff, Inv, TypeInv, SomeOperation
    <3> QED BY <1>5, <3>1, <3>2, <3>3
  <2> QED BY <1>n, <2>1, <2>2, UsefulUnchanged DEF UsefulInv
<1>6. CASE \/ \E i \in Items : AmendUpdate(i) \/ AmendRebirth(i) \/ AmendRemove(i) \/ Publish(i)
           \/ StartPass \/ ReplayDone \/ Reconcile \/ ReconcileDone \/ IngestDone \/ Terminal
           \/ Settle \/ RePrompt \/ Archive \/ Futile
           \/ \E q \in Ids : DropAnswer(q)
           \/ UNCHANGED vars
  <2>1. UNCHANGED <<questions, intents, op>>
    BY <1>6 DEF AmendUpdate, AmendRebirth, AmendRemove, Publish, ItemFileStep, CalledLive, Called,
         StartPass, ReplayDone, Reconcile, ReconcileDone, IngestDone, Terminal, Settle, RePrompt,
         Archive, Futile, DropAnswer, VerdictStep, PassStep, vars
  <2> QED BY <2>1, UsefulUnchanged DEF UsefulInv
<1> QED BY <1>1, <1>2, <1>3, <1>4, <1>5, <1>6
      DEF Next, ToolCall, OperationStep, PassProgress

\* No two open questions of one stage origin name the same item, however often
\* an ask is raised again, cut short and replayed.
THEOREM AskedUsefully == Spec => []OneUsefulAsk
<1>1. Init => UsefulInv
  BY NoAskIsSingle, QuestionsAssumption DEF Init, UsefulInv, OneUsefulAsk, OpenIds, Ids
<1>2. Inv /\ UsefulInv /\ [Next]_vars => UsefulInv'
  BY UsefulNext
<1>3. UsefulInv => OneUsefulAsk
  BY DEF UsefulInv
<1> QED BY <1>1, <1>2, <1>3, InvHolds, PTL DEF Spec

-----------------------------------------------------------------------------
(* The pointer. *)

\* Nothing runs on a run without a pointer, so nothing asks on it either.
PointerInv ==
  /\ ~pointer => op = Rest /\ pass = "out" /\ OpenIds = {}
  /\ pass # "archive"

\* Without futile stops, every step keeps the pointer while a question is open.
LEMMA PointerNext == ~MayFutile /\ PointerInv /\ [Next]_vars => PointerInv'
<1> SUFFICES ASSUME ~MayFutile, PointerInv, [Next]_vars PROVE PointerInv'
  OBVIOUS
<1>r. Rest.at = "rest"
  BY DEF Rest
<1>1. pass' # "archive"
  BY DEF PointerInv, Next, ToolCall, OperationStep, PassProgress, StageAsk, CapAsk, Ask, Surface,
     ToolAnswer, StartAnswer, AmendUpdate, AmendRebirth, AmendRemove, Publish, ItemFileStep,
     AdoptQuestion, AppendQuestion, Landed, Mark, Revive, Block, Clear, HandOff, StartPass, Replay,
     ReplayDone, Reconcile, ReconcileDone, Ingest, IngestDone, Terminal, Settle, RePrompt, Archive,
     Futile, Cut, GiveUpAsk, DropAnswer, VerdictStep, vars
<1>2. CASE ~pointer
  <2>1. op = Rest /\ pass = "out" /\ OpenIds = {}
    BY <1>2 DEF PointerInv
  <2>2. (\E q \in Ids : DropAnswer(q)) \/ UNCHANGED vars
    BY <1>2, <1>r, <2>1
    DEF Next, ToolCall, OperationStep, PassProgress, StageAsk, CapAsk, Ask, Surface, ToolAnswer,
     AmendUpdate, AmendRebirth, AmendRemove, Publish, ItemFileStep, CalledLive, Called,
     AdoptQuestion, AppendQuestion, Landed, Mark, Revive, Block, Clear, HandOff, StartPass, Replay,
     ReplayDone, Reconcile, ReconcileDone, Ingest, IngestDone, Terminal, Settle, RePrompt, Archive,
     Futile, Cut, GiveUpAsk, VerdictStep, PassStep
  <2>3. UNCHANGED <<questions, op, pass>>
    BY <2>2 DEF DropAnswer, vars
  <2> QED BY <1>1, <2>1, <2>3 DEF PointerInv, OpenIds, Ids, IsOpen
<1>3. CASE pointer /\ Terminal
  <2>1. ~pointer' => OpenIds = {} /\ op' = Rest /\ pass' = "out" /\ UNCHANGED questions
    BY <1>3 DEF Terminal, VerdictStep, PassStep
  <2> QED BY <1>1, <2>1 DEF PointerInv, OpenIds, Ids, IsOpen
<1>4. CASE pointer /\ ~Terminal
  <2>1. pointer' = pointer
    BY <1>4
    DEF PointerInv, Next, ToolCall, OperationStep, PassProgress, StageAsk, CapAsk, Ask, Surface,
     ToolAnswer, StartAnswer, AmendUpdate, AmendRebirth, AmendRemove, Publish, ItemFileStep,
     AdoptQuestion, AppendQuestion, Landed, Mark, Revive, Block, Clear, HandOff, StartPass, Replay,
     ReplayDone, Reconcile, ReconcileDone, Ingest, IngestDone, Settle, RePrompt, Archive, Futile,
     Cut, GiveUpAsk, DropAnswer, VerdictStep, PassStep, run, vars
  <2> QED BY <1>1, <1>4, <2>1 DEF PointerInv
<1> QED BY <1>2, <1>3, <1>4

\* Where no futile stop happens, a run with an open question keeps its pointer,
\* so that the tool and the answer file can still answer it.
THEOREM PointerKept == ~MayFutile => (Spec => []OpenQuestionKeepsThePointer)
<1> SUFFICES ASSUME ~MayFutile PROVE Spec => []OpenQuestionKeepsThePointer
  OBVIOUS
<1>1. Init => PointerInv
  BY DEF Init, PointerInv
<1>2. PointerInv /\ [Next]_vars => PointerInv'
  BY PointerNext
<1>3. PointerInv => OpenQuestionKeepsThePointer
  BY DEF PointerInv, OpenQuestionKeepsThePointer
<1> QED BY <1>1, <1>2, <1>3, PTL DEF Spec

-----------------------------------------------------------------------------
(* The revival of a run that waits. *)

SomeAwaits == \E q \in Ids : Awaits(q)

\* While nothing was cut short, a run that stopped to wait has something to wait for:
\* an open question, a confirmation, or the end of the answer that will revive it.
\* A run without a pointer does nothing any more.
WaitsForSomething ==
  /\ stop = "resumable" => OpenIds # {} \/ SomeAwaits \/ op.at = "handoff"
  /\ pass = "archive" => stop = "noop" /\ op = Rest
  /\ ~pointer => op = Rest /\ pass = "out" /\ (stop # "noop" => SomeAwaits)

RevivalInv == cuts \in Nat /\ (cuts = 0 => WaitsForSomething)

\* What the steps of a kind leave alone.
LEMMA OperationFrame ==
  ASSUME OperationStep
  PROVE  op.at # "rest" /\ pass' = pass /\ pointer' = pointer /\ cuts' = cuts
<1>1. op.at # "rest"
  BY DEF OperationStep, AdoptQuestion, AppendQuestion, Landed, Mark, Revive, Block, Clear,
     HandOff
<1>2. pass' = pass
  BY DEF OperationStep, AdoptQuestion, AppendQuestion, Landed, Mark, Revive, Block, Clear,
     HandOff
<1>3. pointer' = pointer
  BY DEF OperationStep, AdoptQuestion, AppendQuestion, Landed, Mark, Revive, Block, Clear,
     HandOff, run
<1>4. cuts' = cuts
  BY DEF OperationStep, AdoptQuestion, AppendQuestion, Landed, Mark, Revive, Block, Clear,
     HandOff
<1> QED BY <1>1, <1>2, <1>3, <1>4

LEMMA ToolFrame ==
  ASSUME ToolCall
  PROVE  /\ op = Rest /\ pointer /\ pass = "out"
         /\ pass' = pass /\ run' = run /\ cuts' = cuts
<1>1. op = Rest /\ pointer /\ pass = "out"
  BY DEF ToolCall, StageAsk, CapAsk, Ask, Surface, ToolAnswer, StartAnswer, AmendUpdate,
     AmendRebirth, AmendRemove, Publish, ItemFileStep,
     CalledLive, Called
<1>2. pass' = pass
  BY DEF ToolCall, StageAsk, CapAsk, Ask, Surface, ToolAnswer, StartAnswer, AmendUpdate,
     AmendRebirth, AmendRemove, Publish, ItemFileStep
<1>3. run' = run
  BY DEF ToolCall, StageAsk, CapAsk, Ask, Surface, ToolAnswer, StartAnswer, AmendUpdate,
     AmendRebirth, AmendRemove, Publish, ItemFileStep
<1>4. cuts' = cuts
  BY DEF ToolCall, StageAsk, CapAsk, Ask, Surface, ToolAnswer, StartAnswer, AmendUpdate,
     AmendRebirth, AmendRemove, Publish, ItemFileStep
<1> QED BY <1>1, <1>2, <1>3, <1>4

CalmPassStep ==
  StartPass \/ Replay \/ ReplayDone \/ Reconcile \/ ReconcileDone \/ Ingest \/ IngestDone \/ RePrompt

LEMMA PassFrame ==
  ASSUME CalmPassStep
  PROVE  op = Rest /\ pass' # "archive" /\ run' = run /\ cuts' = cuts /\ questions' = questions
<1>1. op = Rest
  BY DEF CalmPassStep, StartPass, Replay, ReplayDone, Reconcile, ReconcileDone, Ingest, IngestDone,
     StartAnswer, RePrompt, VerdictStep, PassStep
<1>2. pass' # "archive"
  BY DEF CalmPassStep, StartPass, Replay, ReplayDone, Reconcile, ReconcileDone, Ingest, IngestDone,
     StartAnswer, RePrompt, VerdictStep, PassStep
<1>3. run' = run
  BY DEF CalmPassStep, StartPass, Replay, ReplayDone, Reconcile, ReconcileDone, Ingest, IngestDone,
     StartAnswer, RePrompt, VerdictStep, PassStep
<1>4. cuts' = cuts
  BY DEF CalmPassStep, StartPass, Replay, ReplayDone, Reconcile, ReconcileDone, Ingest, IngestDone,
     StartAnswer, RePrompt, VerdictStep, PassStep
<1>5. questions' = questions
  BY DEF CalmPassStep, StartPass, Replay, ReplayDone, Reconcile, ReconcileDone, Ingest, IngestDone,
     StartAnswer, RePrompt, VerdictStep, PassStep
<1> QED BY <1>1, <1>2, <1>3, <1>4, <1>5

\* A step of an operation, of a tool or of the pass up to its verdict, on a run that
\* has its pointer: it keeps the stop, or takes it when the answer that it ends allows.
LEMMA WaitingStep ==
  ASSUME Inv, WaitsForSomething, pointer,
         ToolCall \/ OperationStep \/ CalmPassStep \/ \E q \in Ids : DropAnswer(q)
  PROVE  WaitsForSomething'
<1>r. Rest.at = "rest"
  BY DEF Rest
<1>1. ASSUME OperationStep PROVE pointer' /\ pass' # "archive"
  BY <1>r, <1>1, OperationFrame DEF WaitsForSomething
<1>2. ASSUME \E q \in Ids : DropAnswer(q)
      PROVE  pointer' /\ pass' # "archive" /\ UNCHANGED <<questions, stop, op>> /\ op = Rest
  BY <1>2 DEF DropAnswer, run
<1>3. ASSUME ToolCall \/ CalmPassStep PROVE pointer' /\ pass' # "archive" /\ stop' = stop /\ op = Rest
  <2>1. run' = run /\ op = Rest /\ pass' # "archive"
    BY <1>3, ToolFrame, PassFrame
  <2> QED BY <2>1 DEF run
<1>4. pointer' /\ pass' # "archive"
  BY <1>1, <1>2, <1>3
<1>5. ASSUME stop' = "resumable"
      PROVE  OpenIds' # {} \/ SomeAwaits' \/ op'.at = "handoff"
  <2>1. CASE Revive
    <3>1. Awaits(op.q) /\ op.q \in Ids /\ questions' = questions
      BY <1>5, <2>1 DEF Revive, Inv, OpInv
    <3> QED BY <3>1 DEF SomeAwaits, Awaits, Ids
  <2>2. CASE AppendQuestion \/ Surface
    <3>1. PICK a \in SomeAsk : questions' = Append(questions, Record(a))
      <4>1. CASE AppendQuestion
        BY <4>1 DEF AppendQuestion, Inv, TypeInv, SomeOperation
      <4>2. CASE Surface
        <5>1. \E names \in SUBSET {i \in Items : Live(i)}, human \in HumanChoices :
                questions' = Append(questions,
                  Record([NoAsk EXCEPT !.names = names, !.human = human]))
          BY <4>2 DEF Surface
        <5>2. ASSUME NEW names \in SUBSET Items, NEW human \in BOOLEAN
              PROVE  [NoAsk EXCEPT !.names = names, !.human = human] \in SomeAsk
          BY NoAskIsAnAsk DEF NoAsk, SomeAsk
        <5> QED BY <5>1, <5>2, QuestionsAssumption
      <4> QED BY <2>2, <4>1, <4>2
    <3> QED BY <3>1, AppendedQuestion DEF Inv
  <2>3. CASE Mark \/ \E i \in Items : HandOff(i)
    <3>1. op \in SomeOperation
      BY DEF Inv, TypeInv
    <3> QED BY <2>3, <3>1 DEF Mark, HandOff, SomeOperation
  <2>4. CASE ~(Revive \/ AppendQuestion \/ Surface \/ Mark \/ \E i \in Items : HandOff(i))
    <3>1. CASE OperationStep
      <4>1. AdoptQuestion \/ Landed \/ \E i \in Items : Block(i) \/ Clear(i)
        BY <2>4, <3>1 DEF OperationStep
      <4>2. questions' = questions
        BY <4>1 DEF AdoptQuestion, Landed, Block, Clear
      <4>3. run' = run
        BY <4>1 DEF AdoptQuestion, Landed, Block, Clear
      <4>4. op.at # "handoff"
        BY <4>1 DEF AdoptQuestion, Landed, Block, Clear
      <4> QED BY <1>5, <4>2, <4>3, <4>4
              DEF run, WaitsForSomething, SomeAwaits, Awaits, OpenIds, Ids, IsOpen
    <3>2. CASE ToolCall
      <4>1. questions' = questions
        BY <2>4, <3>2 DEF ToolCall, StageAsk, CapAsk, Ask, ToolAnswer, StartAnswer, AmendUpdate,
           AmendRebirth, AmendRemove, Publish, ItemFileStep
      <4> QED BY <1>r, <1>3, <1>5, <3>2, <4>1
              DEF WaitsForSomething, SomeAwaits, Awaits, OpenIds, Ids, IsOpen
    <3>3. CASE CalmPassStep
      <4>1. questions' = questions
        BY <3>3, PassFrame
      <4> QED BY <1>r, <1>3, <1>5, <3>3, <4>1
              DEF WaitsForSomething, SomeAwaits, Awaits, OpenIds, Ids, IsOpen
    <3>4. CASE \E q \in Ids : DropAnswer(q)
      BY <1>r, <1>2, <1>5, <3>4 DEF WaitsForSomething, SomeAwaits, Awaits, OpenIds, Ids, IsOpen
    <3> QED BY <3>1, <3>2, <3>3, <3>4
  <2> QED BY <2>1, <2>2, <2>3, <2>4
<1> QED BY <1>4, <1>5 DEF WaitsForSomething

\* The verdict: a run settles on an open question, and is archived with a question
\* that awaits its confirmation or by a futile stop.
LEMMA VerdictSteps ==
  ASSUME Inv, WaitsForSomething, pointer, Terminal \/ Settle \/ Futile \/ Archive
  PROVE  WaitsForSomething'
<1>r. Rest.at = "rest"
  BY DEF Rest
<1>1. UNCHANGED questions /\ op = Rest /\ op' = Rest
  BY DEF Terminal, Settle, Futile, Archive, VerdictStep, PassStep
<1>2. OpenIds' = OpenIds /\ SomeAwaits' = SomeAwaits
  BY <1>1 DEF OpenIds, Ids, IsOpen, SomeAwaits, Awaits
<1>3. CASE Terminal
  <2>1. stop # "none" /\ stop' = stop /\ pass' = "out" /\ pointer' = (OpenIds # {})
    BY <1>3 DEF Terminal
  <2>2. stop \in {"none", "resumable", "noop"}
    BY DEF Inv, TypeInv
  <2> QED BY <1>r, <1>1, <1>2, <2>1, <2>2 DEF WaitsForSomething
<1>4. CASE Settle
  <2>1. stop' = "resumable" /\ pointer' = pointer /\ pass' = "verdict" /\ Settled
    BY <1>4 DEF Settle, VerdictStep, PassStep
  <2>2. OpenIds # {}
    BY <2>1 DEF Settled, BlockedItems, Inv, BlockedOnAnOpenQuestion
  <2> QED BY <1>2, <2>1, <2>2 DEF WaitsForSomething
<1>5. CASE Futile
  BY <1>1, <1>5 DEF Futile, WaitsForSomething
<1>6. CASE Archive
  BY <1>1, <1>6 DEF Archive, PassStep, WaitsForSomething, run
<1> QED BY <1>3, <1>4, <1>5, <1>6

LEMMA RevivalNext == Inv /\ RevivalInv /\ [Next]_vars => RevivalInv'
<1> SUFFICES ASSUME Inv, RevivalInv, [Next]_vars PROVE RevivalInv'
  OBVIOUS
<1>r. Rest.at = "rest"
  BY DEF Rest
<1>1. CASE Cut
  <2>1. cuts' = cuts + 1
    BY <1>1 DEF Cut
  <2> QED BY <2>1 DEF RevivalInv
<1>4. CASE GiveUpAsk
  <2>1. UNCHANGED <<questions, stop, pointer, pass, cuts>> /\ op' = Rest /\ pass = "replay"
    BY <1>4 DEF GiveUpAsk, run
  <2>2. op.at # "handoff" /\ op # Rest
    BY <1>r, <1>4 DEF GiveUpAsk
  <2>3. SomeAwaits' = SomeAwaits /\ OpenIds' = OpenIds
    BY <2>1 DEF SomeAwaits, Awaits, OpenIds, Ids, IsOpen
  <2>4. CASE cuts = 0
    BY <2>1, <2>2, <2>3, <2>4 DEF RevivalInv, WaitsForSomething
  <2>5. CASE cuts # 0
    BY <2>1, <2>5 DEF RevivalInv
  <2> QED BY <2>4, <2>5
<1>2. CASE UNCHANGED vars
  BY <1>2 DEF vars, run, RevivalInv, WaitsForSomething, SomeAwaits, Awaits, OpenIds, Ids, IsOpen
<1>3. CASE Next /\ ~Cut /\ ~GiveUpAsk
  <2>1. cuts' = cuts
    <3>1. ASSUME \E q \in Ids : DropAnswer(q) PROVE cuts' = cuts
      BY <3>1 DEF DropAnswer
    <3>2. ASSUME Terminal \/ Settle \/ Futile \/ Archive PROVE cuts' = cuts
      BY <3>2 DEF Terminal, Settle, Futile, Archive, VerdictStep, PassStep
    <3> QED BY <1>3, <3>1, <3>2, OperationFrame, ToolFrame, PassFrame
            DEF Next, PassProgress, CalmPassStep
  <2>2. CASE cuts = 0 /\ pointer
    BY <1>3, <2>1, <2>2, WaitingStep, VerdictSteps DEF RevivalInv, Next, PassProgress, CalmPassStep
  <2>3. CASE cuts = 0 /\ ~pointer
    <3>1. op = Rest /\ pass = "out"
      BY <2>3 DEF RevivalInv, WaitsForSomething
    <3>2. ~ToolCall /\ ~OperationStep
      BY <1>r, <2>3, <3>1, ToolFrame, OperationFrame
    <3>3. ~StartPass
      BY <2>3 DEF StartPass
    <3>4. ~PassProgress /\ ~Futile
      BY <3>1 DEF PassProgress, Replay, ReplayDone, Reconcile, ReconcileDone, Ingest, IngestDone,
         Terminal, Settle, RePrompt, Archive, Futile, VerdictStep, PassStep
    <3>5. UNCHANGED <<questions, op, pass, stop, pointer>>
      BY <1>3, <3>2, <3>3, <3>4 DEF Next, DropAnswer, run
    <3> QED BY <2>1, <3>5
            DEF RevivalInv, WaitsForSomething, SomeAwaits, Awaits, OpenIds, Ids, IsOpen
  <2>4. CASE cuts # 0
    BY <2>1, <2>4 DEF RevivalInv
  <2> QED BY <2>2, <2>3, <2>4
<1> QED BY <1>1, <1>2, <1>3, <1>4

\* The answer a run waits for revives it: without a kill in between, no run is archived
\* on an answered question, but for a futile stop or an unconfirmed answer.
THEOREM AnswersRevive == Spec => []AnsweredRunIsRevived
<1>1. Init => RevivalInv
  BY DEF Init, RevivalInv, WaitsForSomething
<1>2. Inv /\ RevivalInv /\ [Next]_vars => RevivalInv'
  BY RevivalNext
<1>3. RevivalInv => AnsweredRunIsRevived
  BY DEF RevivalInv, WaitsForSomething, SomeAwaits, AnsweredRunIsRevived
<1> QED BY <1>1, <1>2, <1>3, InvHolds, PTL DEF Spec

=============================================================================
