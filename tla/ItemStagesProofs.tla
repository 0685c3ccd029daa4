-------------------------- MODULE ItemStagesProofs --------------------------
(* What holds of the item pipeline for any queue and any caps: its types and  *)
(* counters, which job may be under way in which state, what a step of a      *)
(* handler may do to an item, and that the handlers implement ItemFsm.        *)
EXTENDS ItemStages, TLAPS
USE ItemsAssumption

\* The part of the types that the outcome of a handler may touch.
CoreOK ==
  /\ state \in [Items -> ItemStates]
  /\ blocked \subseteq Items
  /\ job \in [Items -> Jobs]
  /\ call \in Calls

\* The tools a stage may be are all known to the wave.
LEMMA StageToolTyped ==
  ASSUME NEW i \in Items
  PROVE  NextStageTool(i) \in Tools
BY DEF NextStageTool, Tools

\* Handing the stage's result to the call keeps the types.
LEMMA SettleTyped ==
  ASSUME TypeOK, NEW i \in Items, NEW ok, Settle(i, ok)
  PROVE  job' \in [Items -> Jobs] /\ call' \in Calls
<1>1. Idle \in Jobs /\ NoCall \in Calls
  BY DEF Idle, Jobs, NoCall, Calls
<1>2. job' \in [Items -> Jobs]
  BY <1>1 DEF TypeOK, Settle
<1>3. call' \in Calls
  <2>1. call \in Calls BY DEF TypeOK
  <2>2. CASE ~call.wave BY <2>2, <1>1 DEF Settle
  <2>3. CASE call.wave
    BY <2>1, <2>3 DEF Settle, Calls
  <2> QED BY <2>2, <2>3
<1> QED BY <1>2, <1>3

\* So does waiting for another sub-session.
LEMMA AwaitTyped ==
  ASSUME TypeOK, NEW i \in Items, NEW role \in Writers \cup Readers,
         NEW n \in Nat, NEW excluded \in SUBSET Items, Await(i, role, n, excluded)
  PROVE  job' \in [Items -> Jobs] /\ call' \in Calls
<1>1. [awaits |-> role, round |-> n, excluded |-> excluded] \in Jobs
  BY DEF Jobs
<1> QED BY <1>1 DEF Await, TypeOK

\* Every way a handler ends keeps the types.
LEMMA OutcomeTyped ==
  ASSUME TypeOK, NEW i \in Items, NEW to \in ItemStates, NEW ok
  PROVE  /\ Return(i, ok) => CoreOK'
         /\ Advance(i, to) => CoreOK'
         /\ AskAndBlock(i) => CoreOK'
         /\ AdvanceUnlessBlocked(i, to) => CoreOK'
<1>1. Return(i, ok) => CoreOK'
  BY SettleTyped DEF Return, CoreOK, TypeOK
<1>2. Return(i, FALSE) => CoreOK'
  BY SettleTyped DEF Return, CoreOK, TypeOK
<1>3. Advance(i, to) => CoreOK'
  BY SettleTyped DEF Advance, CoreOK, TypeOK
<1>4. AskAndBlock(i) => CoreOK'
  BY SettleTyped DEF AskAndBlock, CoreOK, TypeOK
<1> QED BY <1>1, <1>2, <1>3, <1>4 DEF AdvanceUnlessBlocked

\* A handler that waits again keeps the types.
LEMMA WaitTyped ==
  ASSUME TypeOK, NEW i \in Items, NEW role \in Writers \cup Readers,
         NEW n \in Nat, NEW excluded \in SUBSET Items,
         Await(i, role, n, excluded), UNCHANGED <<state, blocked>>
  PROVE  CoreOK'
BY AwaitTyped DEF CoreOK, TypeOK

LEMMA JobTyped ==
  ASSUME TypeOK, NEW i \in Items
  PROVE  job[i].round \in Nat /\ job[i].excluded \in SUBSET Items
BY DEF TypeOK, Jobs

LEMMA ProofTyped ==
  ASSUME TypeOK
  PROVE  /\ \A i \in Items : ProofEdited(i) \in [Items -> Proofs]
         /\ \A keep : HeadMoved(keep) \in [Items -> Proofs]
BY DEF TypeOK, ProofEdited, HeadMoved, Proofs

LEMMA VerifyTyped ==
  ASSUME TypeOK, NEW i \in Items, NEW excluded, NEW green, Verify(i, excluded, green)
  PROVE  measured' \subseteq Items /\ fouled' \subseteq Items
BY DEF TypeOK, Verify

----------------------------------------------------------------------------
LEMMA ValidateTyped ==
  ASSUME TypeOK, NEW i \in Items, NEW excluded \in SUBSET Items, NEW fixes \in Nat,
         VerifyAndValidate(i, excluded, fixes)
  PROVE  TypeOK'
<1>1. PICK green \in BOOLEAN :
        /\ Verify(i, excluded, green)
        /\ \/ /\ AdvanceUnlessBlocked(i, "VALIDATED")
              /\ proof' = [proof EXCEPT ![i] = IF i \in blocked THEN @ ELSE "current"]
           \/ AskAndBlock(i) /\ UNCHANGED proof
           \/ Await(i, "fixer", fixes + 1, excluded) /\ UNCHANGED <<state, blocked, proof>>
  BY DEF VerifyAndValidate
<1>2. UNCHANGED <<attempts, files, implemented>>
  BY DEF VerifyAndValidate
<1>3. CoreOK'
  <2>1. "VALIDATED" \in ItemStates /\ "fixer" \in Writers /\ fixes + 1 \in Nat
    BY DEF ItemStates, Writers
  <2> QED BY <1>1, <2>1, OutcomeTyped, WaitTyped
<1>4. proof' \in [Items -> Proofs]
  BY <1>1 DEF TypeOK, Proofs
<1>5. measured' \subseteq Items /\ fouled' \subseteq Items
  BY <1>1, VerifyTyped
<1> QED BY <1>2, <1>3, <1>4, <1>5 DEF CoreOK, TypeOK, files

LEMMA RevalidateTyped ==
  ASSUME TypeOK, NEW i \in Items, Revalidate(i)
  PROVE  /\ CoreOK'
         /\ measured' \subseteq Items /\ fouled' \subseteq Items
         /\ UNCHANGED implemented
<1>1. PICK green \in BOOLEAN :
        /\ Verify(i, job[i].excluded, green)
        /\ \/ Return(i, FALSE)
           \/ /\ Await(i, "panel", job[i].round + 1, job[i].excluded)
              /\ UNCHANGED <<state, blocked>>
           \/ AdvanceUnlessBlocked(i, "REVIEWED")
           \/ AskAndBlock(i)
  BY DEF Revalidate
<1>2. "REVIEWED" \in ItemStates /\ "panel" \in Readers /\ job[i].round + 1 \in Nat
  BY JobTyped DEF ItemStates, Readers
<1>3. CoreOK'
  BY <1>1, <1>2, JobTyped, OutcomeTyped, WaitTyped
<1> QED BY <1>1, <1>3, VerifyTyped DEF Revalidate

\* The three ways publish ends.
LEMMA PublishEnds ==
  ASSUME NEW i \in Items, Publish(i)
  PROVE  \E formatted, fresh, green, commits \in BOOLEAN :
           /\ fresh => Fresh(i, formatted)
           /\ \/ PublishFails(i, formatted, fresh, green)
              \/ PublishDemotes(i, formatted)
              \/ (fresh \/ green) /\ PublishAdvances(i, formatted, fresh, commits)
<1>1. PICK formatted, doubt, green, commits \in BOOLEAN :
        \/ PublishFails(i, formatted, Fresh(i, formatted) /\ ~doubt, green)
        \/ PublishDemotes(i, formatted)
        \/ /\ (Fresh(i, formatted) /\ ~doubt) \/ green
           /\ PublishAdvances(i, formatted, Fresh(i, formatted) /\ ~doubt, commits)
  BY DEF Publish
<1> DEFINE fresh == Fresh(i, formatted) /\ ~doubt
<1>2. fresh \in BOOLEAN /\ (fresh => Fresh(i, formatted))
  BY DEF Fresh
<1>3. \/ PublishFails(i, formatted, fresh, green)
      \/ PublishDemotes(i, formatted)
      \/ (fresh \/ green) /\ PublishAdvances(i, formatted, fresh, commits)
  BY <1>1
<1> HIDE DEF fresh
<1> QED BY <1>2, <1>3

LEMMA RemeasuredTyped ==
  ASSUME TypeOK, NEW i \in Items, NEW formatted \in BOOLEAN, NEW fresh \in BOOLEAN
  PROVE  /\ Held(i, formatted) \subseteq Items /\ Remeasured(i, formatted, fresh) \subseteq Items
         /\ Still(i, formatted) \in [Items -> Proofs]
<1>1. Held(i, formatted) \subseteq Items
  BY DEF Held, TypeOK
<1>2. Still(i, formatted) \in [Items -> Proofs]
  BY ProofTyped DEF Still, TypeOK
<1> QED BY <1>1, <1>2 DEF Remeasured

LEMMA PublishTyped ==
  ASSUME TypeOK, NEW i \in Items, Publish(i)
  PROVE  TypeOK'
<1> USE DEF CoreOK
<1>1. UNCHANGED <<attempts, files, implemented>>
  BY DEF Publish
<1>2. PICK formatted, fresh, green, commits \in BOOLEAN :
        \/ PublishFails(i, formatted, fresh, green)
        \/ PublishDemotes(i, formatted)
        \/ PublishAdvances(i, formatted, fresh, commits)
  BY PublishEnds
<1>3. "PUBLISHED" \in ItemStates /\ "GREEN" \in ItemStates
  BY DEF ItemStates
<1>4. fouled \subseteq Items /\ fouled \ {i} \subseteq Items
  BY DEF TypeOK
<1>5. CASE PublishFails(i, formatted, fresh, green)
  <2>1. CoreOK'
    BY <1>3, <1>5, OutcomeTyped DEF PublishFails
  <2>2. proof' \in [Items -> Proofs] /\ measured' \subseteq Items
    BY <1>5, RemeasuredTyped DEF PublishFails
  <2>3. fouled' \subseteq Items
    BY <1>4, <1>5 DEF PublishFails
  <2> QED BY <1>1, <2>1, <2>2, <2>3 DEF TypeOK, files
<1>6. CASE PublishDemotes(i, formatted)
  <2>1. job' \in [Items -> Jobs] /\ call' \in Calls
    BY <1>6, SettleTyped DEF PublishDemotes
  <2>2. state' \in [Items -> ItemStates] /\ blocked' \subseteq Items
    BY <1>3, <1>6 DEF PublishDemotes, TypeOK
  <2>3. proof' \in [Items -> Proofs] /\ measured' \subseteq Items
    BY <1>6, RemeasuredTyped DEF PublishDemotes
  <2>4. fouled' \subseteq Items
    BY <1>4, <1>6 DEF PublishDemotes
  <2> QED BY <1>1, <2>1, <2>2, <2>3, <2>4 DEF TypeOK, files
<1>7. CASE PublishAdvances(i, formatted, fresh, commits)
  <2>1. CoreOK'
    BY <1>3, <1>7, OutcomeTyped DEF PublishAdvances
  <2>2. proof' \in [Items -> Proofs]
    BY <1>7, RemeasuredTyped, ProofTyped DEF PublishAdvances
  <2>3. measured' \subseteq Items
    BY <1>7, RemeasuredTyped DEF PublishAdvances
  <2>4. fouled' \subseteq Items
    BY <1>4, <1>7 DEF PublishAdvances
  <2> QED BY <1>1, <2>1, <2>2, <2>3, <2>4 DEF TypeOK, files
<1> QED BY <1>2, <1>5, <1>6, <1>7

\* What starts a stage, and what a reply makes of it, keeps the types.
LEMMA StarterTyped ==
  ASSUME TypeOK, NEW i \in Items, Starter(i)
  PROVE  TypeOK'
<1> USE DEF files, history
<1>1. CASE StartSubmitTest(i)
  <2>1. "writer" \in Writers /\ 0 \in Nat BY DEF Writers
  <2>2. CoreOK' BY <1>1, <2>1, WaitTyped DEF StartSubmitTest
  <2> QED BY <1>1, <2>2 DEF StartSubmitTest, CoreOK, TypeOK
<1>2. CASE StartVetTest(i)
  <2>1. "critics" \in Readers /\ "RED" \in ItemStates BY DEF Readers, ItemStates
  <2>2. CoreOK' BY <1>2, <2>1, WaitTyped, OutcomeTyped DEF StartVetTest
  <2> QED BY <1>2, <2>2 DEF StartVetTest, CoreOK, TypeOK
<1>3. CASE StartMarkGreen(i)
  <2>1. "implementer" \in Writers /\ "RED" \in ItemStates BY DEF Writers, ItemStates
  <2>2. CoreOK' BY <1>3, <2>1, WaitTyped, OutcomeTyped DEF StartMarkGreen
  <2>3. attempts' \in [Items -> 0..AttemptBudget] /\ implemented' \in [Items -> Nat]
    BY <1>3 DEF StartMarkGreen, BudgetSpent, CountedBeforeDispatch, TypeOK
  <2> QED BY <1>3, <2>2, <2>3 DEF StartMarkGreen, CoreOK, TypeOK
<1>4. CASE StartValidate(i)
  <2>1. ForeignRedSet(i) \in SUBSET Items BY DEF ForeignRedSet, TypeOK
  <2> QED BY <1>4, <2>1, ValidateTyped DEF StartValidate
<1>5. CASE StartItemReview(i)
  <2>1. "panel" \in Readers BY DEF Readers
  <2>2. ForeignRedSet(i) \in SUBSET Items BY DEF ForeignRedSet, TypeOK
  <2>3. CoreOK' BY <1>5, <2>1, <2>2, WaitTyped DEF StartItemReview
  <2> QED BY <1>5, <2>3 DEF StartItemReview, CoreOK, TypeOK
<1>6. CASE RefusePublish(i)
  <2>1. "RED" \in ItemStates BY DEF ItemStates
  <2>2. CoreOK' BY <1>6, <2>1, OutcomeTyped DEF RefusePublish
  <2> QED BY <1>6, <2>2 DEF RefusePublish, CoreOK, TypeOK
<1>7. CASE Publish(i)
  BY <1>7, PublishTyped
<1>8. CASE StageRefused(i)
  <2>1. "RED" \in ItemStates BY DEF ItemStates
  <2>2. CoreOK' BY <1>8, <2>1, OutcomeTyped DEF StageRefused
  <2> QED BY <1>8, <2>2 DEF StageRefused, CoreOK, TypeOK
<1> QED BY <1>1, <1>2, <1>3, <1>4, <1>5, <1>6, <1>7, <1>8 DEF Starter

LEMMA ReplyTyped ==
  ASSUME TypeOK, NEW i \in Items, Reply(i)
  PROVE  TypeOK'
<1> USE DEF files, history
<1>0. job[i].round \in Nat /\ job[i].round + 1 \in Nat /\ job[i].excluded \in SUBSET Items
  BY JobTyped
<1>1. CASE SubmittedTest(i)
  <2>1. "writer" \in Writers /\ "RED" \in ItemStates BY DEF Writers, ItemStates
  <2>2. CASE Await(i, "writer", job[i].round + 1, {}) /\ UNCHANGED <<state, blocked>>
    <3>1. 0 \in Nat /\ {} \in SUBSET Items /\ "writer" \in Writers \cup Readers
      BY <2>1
    <3>2. CoreOK' BY <1>0, <2>2, <3>1, WaitTyped
    <3> QED BY <1>1, <3>2 DEF SubmittedTest, CoreOK, TypeOK
  <2>3. CASE AskAndBlock(i) \/ Return(i, FALSE) \/ Advance(i, "RED")
    <3>1. CoreOK' BY <2>1, <2>3, OutcomeTyped
    <3> QED BY <1>1, <3>1 DEF SubmittedTest, CoreOK, TypeOK
  <2> QED BY <1>1, <2>2, <2>3 DEF SubmittedTest
<1>2. CASE CriticsReplied(i)
  <2>1. "vetWriter" \in Writers /\ "TEST_VETTED" \in ItemStates BY DEF Writers, ItemStates
  <2>2. CoreOK' BY <1>0, <1>2, <2>1, WaitTyped, OutcomeTyped DEF CriticsReplied
  <2> QED BY <1>2, <2>2 DEF CriticsReplied, CoreOK, TypeOK
<1>3. CASE RepairedTest(i)
  <2>1. "critics" \in Readers /\ "RED" \in ItemStates BY DEF Readers, ItemStates
  <2>2. CoreOK' BY <1>0, <1>3, <2>1, WaitTyped, OutcomeTyped DEF RepairedTest
  <2> QED BY <1>3, <2>2 DEF RepairedTest, CoreOK, TypeOK
<1>4. CASE Implemented(i)
  <2>1. "GREEN" \in ItemStates BY DEF ItemStates
  <2>2. CoreOK' BY <1>4, <2>1, OutcomeTyped DEF Implemented
  <2> QED BY <1>4, <2>2 DEF Implemented, CoreOK, TypeOK
<1>5. CASE FixerReplied(i)
  BY <1>0, <1>5, ValidateTyped DEF FixerReplied
<1>6. CASE PanelReplied(i)
  <2>1. {"reviewWriter", "reviewImplementer"} \subseteq Writers /\ "REVIEWED" \in ItemStates
    BY DEF Writers, ItemStates
  <2>2. CoreOK' BY <1>0, <1>6, <2>1, WaitTyped, OutcomeTyped DEF PanelReplied, GoOn
  <2> QED BY <1>6, <2>2 DEF PanelReplied, CoreOK, TypeOK
<1>7. CASE ReviewWriterReplied(i)
  <2>1. "revet" \in Readers /\ "RED" \in ItemStates BY DEF Readers, ItemStates
  <2>2. CoreOK' BY <1>0, <1>7, <2>1, WaitTyped, OutcomeTyped DEF ReviewWriterReplied, GoOn
  <2> QED BY <1>7, <2>2 DEF ReviewWriterReplied, CoreOK, TypeOK
<1>8. CASE RevetReplied(i)
  <2>1. "reviewImplementer" \in Writers /\ "RED" \in ItemStates BY DEF Writers, ItemStates
  <2>2. CoreOK'
    BY <1>0, <1>8, <2>1, WaitTyped, OutcomeTyped, RevalidateTyped DEF RevetReplied, GoOn
  <2>3. measured' \subseteq Items /\ fouled' \subseteq Items /\ UNCHANGED implemented
    BY <1>8, RevalidateTyped DEF RevetReplied, TypeOK
  <2> QED BY <1>8, <2>2, <2>3 DEF RevetReplied, CoreOK, TypeOK
<1>9. CASE ReviewImplementerReplied(i)
  <2>1. "RED" \in ItemStates BY DEF ItemStates
  <2>2. CoreOK' BY <1>9, <2>1, OutcomeTyped, RevalidateTyped DEF ReviewImplementerReplied
  <2>3. measured' \subseteq Items /\ fouled' \subseteq Items /\ UNCHANGED implemented
    BY <1>9, RevalidateTyped DEF ReviewImplementerReplied, TypeOK
  <2> QED BY <1>9, <2>2, <2>3 DEF ReviewImplementerReplied, CoreOK, TypeOK
<1>10. CASE SubSessionFails(i)
  <2>1. "RED" \in ItemStates BY DEF ItemStates
  <2>2. CoreOK' BY <1>10, <2>1, OutcomeTyped DEF SubSessionFails
  <2> QED BY <1>10, <2>2 DEF SubSessionFails, CoreOK, TypeOK
<1> QED BY <1>1, <1>2, <1>3, <1>4, <1>5, <1>6, <1>7, <1>8, <1>9, <1>10 DEF Reply

\* The rest of the steps, which start calls and stages or come from outside.
LEMMA OtherTyped ==
  ASSUME TypeOK,
         \/ \E i \in Items : CallStage(i) \/ SubSessionEdits(i) \/ SubSessionSurfaces(i)
         \/ \E i \in Items : Answer(i) \/ OperatorEdit(i)
         \/ DispatchWave \/ NextGroup \/ Crash
  PROVE  TypeOK'
<1> USE DEF files, history
<1>1. Idle \in Jobs /\ NoCall \in Calls
  BY DEF Idle, Jobs, NoCall, Calls
<1>2. ASSUME NEW i \in Items, CallStage(i) PROVE TypeOK'
  BY <1>2 DEF CallStage, NoCall, Calls, TypeOK
<1>3. ASSUME NEW i \in Items, SubSessionEdits(i) PROVE TypeOK'
  BY <1>3, ProofTyped DEF SubSessionEdits, TypeOK
<1>4. ASSUME NEW i \in Items, SubSessionSurfaces(i) PROVE TypeOK'
  BY <1>4 DEF SubSessionSurfaces, TypeOK
<1>5. ASSUME NEW i \in Items, Answer(i) PROVE TypeOK'
  BY <1>5 DEF Answer, TypeOK
<1>6. ASSUME NEW i \in Items, OperatorEdit(i) PROVE TypeOK'
  BY <1>6, ProofTyped DEF OperatorEdit, TypeOK
<1>7. CASE DispatchWave
  BY <1>7 DEF DispatchWave, Candidates, NoCall, Calls, TypeOK
<1>8. CASE NextGroup
  <2> DEFINE next == {i \in call.active : GoesOn(i)}
  <2>1. next \subseteq Items /\ {NextStageTool(i) : i \in next} \subseteq Tools
    BY StageToolTyped DEF TypeOK, Calls
  <2>2. call' \in Calls
    <3>1. CASE next = {}
      BY <1>1, <1>8, <3>1 DEF NextGroup
    <3>2. CASE next # {}
      <4>1. call' = [call EXCEPT !.active = next, !.todo = next,
                                 !.entered = @ \cup {NextStageTool(i) : i \in next}]
        BY <1>8, <3>2 DEF NextGroup
      <4> HIDE DEF next
      <4> QED BY <2>1, <4>1 DEF TypeOK, Calls
    <3> QED BY <3>1, <3>2
  <2> QED BY <1>8, <2>2 DEF NextGroup, TypeOK
<1>9. CASE Crash
  <2>1. job' \in [Items -> Jobs] /\ call' \in Calls
    BY <1>1, <1>9 DEF Crash
  <2>2. proof' \in [Items -> Proofs] /\ measured' \subseteq Items
    <3>1. CASE UNCHANGED <<proof, measured>>
      BY <3>1 DEF TypeOK
    <3>2. CASE proof' = HeadMoved({}) /\ measured' = {}
      BY <3>2, ProofTyped
    <3> QED BY <1>9, <3>1, <3>2 DEF Crash
  <2> QED BY <1>9, <2>1, <2>2 DEF Crash, TypeOK
<1> QED BY <1>2, <1>3, <1>4, <1>5, <1>6, <1>7, <1>8, <1>9

\* Types, for any queue and caps.
THEOREM TypeCorrect == Spec => []TypeOK
<1>1. Init => TypeOK
  BY DEF Init, TypeOK, ItemStates, Proofs, Idle, Jobs, NoCall, Calls
<1>2. TypeOK /\ [Next]_vars => TypeOK'
  <2> SUFFICES ASSUME TypeOK, [Next]_vars PROVE TypeOK'
    OBVIOUS
  <2>1. CASE Next
    BY <2>1, StarterTyped, ReplyTyped, OtherTyped DEF Next
  <2>2. CASE UNCHANGED vars
    BY <2>2 DEF vars, files, history, TypeOK
  <2> QED BY <2>1, <2>2
<1> QED BY <1>1, <1>2, PTL DEF Spec

-----------------------------------------------------------------------------
(* Handlers and their awaits. *)

\* The sub-session a handler awaits is one of the stage its item is due for.
Fits(i, role) ==
  /\ role = "writer" => NextStageTool(i) = "submit_test"
  /\ role \in {"critics", "vetWriter"} => NextStageTool(i) = "vet_test"
  /\ role = "implementer" => NextStageTool(i) = "mark_green"
  /\ role = "fixer" => NextStageTool(i) = "validate"
  /\ role \in {"panel", "reviewWriter", "revet", "reviewImplementer"} =>
       NextStageTool(i) = "item_review"

SerialRoles == {"writer", "implementer"}

JobsBelongToTheCall == \A i \in Items : job[i].awaits # "nobody" => i \in call.todo
JobsFitTheirStages == \A i \in Items : Fits(i, job[i].awaits)
SerialJobsHaveTheirTurn == \A i \in Items : job[i].awaits \in SerialRoles => TurnHasCome(i)
OneItemOutsideWaves == ~call.wave => \A i, j \in call.todo : i = j

CallInv ==
  /\ JobsBelongToTheCall
  /\ JobsFitTheirStages
  /\ SerialJobsHaveTheirTurn
  /\ OneItemOutsideWaves

\* What evidence describes as the tree is what a green verify ran on.
EvidenceIsMeasured == \A i \in Items : proof[i] = "current" => i \in measured

Inv == TypeOK /\ CallInv /\ EvidenceIsMeasured

----------------------------------------------------------------------------
\* A stage that settles leaves the call, and no other member notices.
LEMMA SettleKeepsCallInv ==
  ASSUME TypeOK, CallInv, NEW i \in Items, i \in call.todo, NEW ok, Settle(i, ok),
         \A j \in Items : j # i => state'[j] = state[j]
  PROVE  CallInv'
<1>1. /\ job' = [job EXCEPT ![i] = Idle]
      /\ job'[i].awaits = "nobody"
      /\ \A j \in Items : j # i => job'[j] = job[j]
  BY DEF Settle, TypeOK, Idle
<1>2. call.todo \subseteq Items /\ call'.todo \subseteq call.todo \ {i}
  BY DEF Settle, TypeOK, Calls, NoCall
<1>3. \A j \in Items : j # i => NextStageTool(j)' = NextStageTool(j)
  BY DEF NextStageTool
<1>4. CASE ~call.wave
  <2>1. \A j \in Items : j # i => job[j].awaits = "nobody"
    BY <1>4 DEF CallInv, JobsBelongToTheCall, OneItemOutsideWaves
  <2>2. \A j \in Items : job'[j].awaits = "nobody"
    BY <1>1, <2>1
  <2>3. call' = NoCall
    BY <1>4 DEF Settle
  <2> QED
    BY <2>2, <2>3 DEF CallInv, JobsBelongToTheCall, JobsFitTheirStages, Fits, SerialRoles,
       SerialJobsHaveTheirTurn, OneItemOutsideWaves, NoCall
<1>5. CASE call.wave
  <2>1. call'.todo = call.todo \ {i} /\ call'.wave
    BY <1>5 DEF Settle, TypeOK, Calls
  <2>2. JobsBelongToTheCall'
    BY <1>1, <2>1 DEF CallInv, JobsBelongToTheCall
  <2>3. JobsFitTheirStages'
    BY <1>1, <1>3 DEF CallInv, JobsFitTheirStages, Fits
  <2>4. SerialJobsHaveTheirTurn'
    BY <1>1, <1>2, <1>3 DEF CallInv, SerialJobsHaveTheirTurn, TurnHasCome, SerialRoles
  <2> QED BY <2>1, <2>2, <2>3, <2>4 DEF CallInv, OneItemOutsideWaves
<1> QED BY <1>4, <1>5

\* A handler may await a sub-session of its own stage, a serial one in its turn.
LEMMA AwaitKeepsCallInv ==
  ASSUME TypeOK, CallInv, NEW i \in Items, i \in call.todo,
         NEW role, NEW n, NEW excluded, Await(i, role, n, excluded), state' = state,
         Fits(i, role), role \in SerialRoles => TurnHasCome(i)
  PROVE  CallInv'
<1>1. call' = call /\ \A j \in Items : j # i => job'[j] = job[j]
  BY DEF Await, TypeOK
<1>2. job'[i].awaits = role
  BY DEF Await, TypeOK
<1>3. \A j \in Items : NextStageTool(j)' = NextStageTool(j)
  BY DEF NextStageTool
<1>4. JobsBelongToTheCall'
  BY <1>1 DEF CallInv, JobsBelongToTheCall
<1>5. JobsFitTheirStages'
  BY <1>1, <1>2, <1>3 DEF CallInv, JobsFitTheirStages, Fits
<1>6. SerialJobsHaveTheirTurn'
  <2>1. \A j \in Items : TurnHasCome(j) => TurnHasCome(j)'
    <3>1. call.todo \subseteq Items BY DEF TypeOK, Calls
    <3> QED BY <1>1, <1>3, <3>1 DEF TurnHasCome
  <2> QED BY <1>1, <1>2, <2>1 DEF CallInv, SerialJobsHaveTheirTurn, SerialRoles
<1> QED BY <1>1, <1>4, <1>5, <1>6 DEF CallInv, OneItemOutsideWaves

\* However a handler ends, the call keeps its order.
LEMMA OutcomeKeepsCallInv ==
  ASSUME TypeOK, CallInv, NEW i \in Items, i \in call.todo, NEW to, NEW ok
  PROVE  /\ Return(i, ok) => CallInv'
         /\ Advance(i, to) => CallInv'
         /\ AskAndBlock(i) => CallInv'
         /\ AdvanceUnlessBlocked(i, to) => CallInv'
<1>1. ASSUME NEW answer, Return(i, answer) PROVE CallInv'
  BY <1>1, SettleKeepsCallInv DEF Return
<1>2. Advance(i, to) => CallInv'
  <2>1. SUFFICES ASSUME Advance(i, to) PROVE CallInv'
    OBVIOUS
  <2>2. \A j \in Items : j # i => state'[j] = state[j]
    BY <2>1 DEF Advance, TypeOK
  <2> QED BY <2>1, <2>2, SettleKeepsCallInv DEF Advance
<1>3. AskAndBlock(i) => CallInv'
  BY SettleKeepsCallInv DEF AskAndBlock
<1> QED BY <1>1, <1>2, <1>3 DEF AdvanceUnlessBlocked

\* A stage that starts, or whose sub-session replied, is one of the call, is due for
\* the tool it was called with, and has its turn if it is a serial one.
LEMMA StartsInTurn ==
  ASSUME NEW i \in Items, NEW tool, Starts(i, tool)
  PROVE  i \in call.todo /\ NextStageTool(i) = tool /\ TurnHasCome(i)
BY DEF Starts, Due

LEMMA RepliesInTurn ==
  ASSUME CallInv, NEW i \in Items, NEW role, role # "nobody", Replied(i, role)
  PROVE  i \in call.todo /\ Fits(i, role) /\ (role \in SerialRoles => TurnHasCome(i))
BY DEF Replied, CallInv, JobsBelongToTheCall, JobsFitTheirStages, SerialJobsHaveTheirTurn

LEMMA StarterKeepsCallInv ==
  ASSUME TypeOK, CallInv, NEW i \in Items, Starter(i)
  PROVE  CallInv'
<1> USE DEF Fits, SerialRoles
<1>1. CASE StartSubmitTest(i)
  BY <1>1, StartsInTurn, AwaitKeepsCallInv DEF StartSubmitTest
<1>2. CASE StartVetTest(i)
  BY <1>2, StartsInTurn, AwaitKeepsCallInv, OutcomeKeepsCallInv DEF StartVetTest
<1>3. CASE StartMarkGreen(i)
  BY <1>3, StartsInTurn, AwaitKeepsCallInv, OutcomeKeepsCallInv DEF StartMarkGreen
<1>4. CASE StartValidate(i)
  BY <1>4, StartsInTurn, AwaitKeepsCallInv, OutcomeKeepsCallInv
     DEF StartValidate, VerifyAndValidate
<1>5. CASE StartItemReview(i)
  BY <1>5, StartsInTurn, AwaitKeepsCallInv DEF StartItemReview
<1>6. CASE RefusePublish(i)
  BY <1>6, StartsInTurn, OutcomeKeepsCallInv DEF RefusePublish
<1>7. CASE Publish(i)
  <2>1. i \in call.todo
    BY <1>7, StartsInTurn DEF Publish
  <2>2. \/ Return(i, FALSE) \/ Advance(i, "PUBLISHED")
        \/ Settle(i, FALSE) /\ state' = [state EXCEPT ![i] = "GREEN"]
    BY <1>7, PublishEnds DEF PublishFails, PublishDemotes, PublishAdvances
  <2>3. CASE Settle(i, FALSE) /\ state' = [state EXCEPT ![i] = "GREEN"]
    <3>1. \A j \in Items : j # i => state'[j] = state[j]
      BY <2>3 DEF TypeOK
    <3> QED BY <2>1, <2>3, <3>1, SettleKeepsCallInv
  <2> QED BY <2>1, <2>2, <2>3, OutcomeKeepsCallInv
<1>8. CASE StageRefused(i)
  <2>1. i \in call.todo
    BY <1>8 DEF StageRefused, Due
  <2> QED BY <1>8, <2>1, OutcomeKeepsCallInv DEF StageRefused
<1> QED BY <1>1, <1>2, <1>3, <1>4, <1>5, <1>6, <1>7, <1>8 DEF Starter

LEMMA ReplyKeepsCallInv ==
  ASSUME TypeOK, CallInv, NEW i \in Items, Reply(i)
  PROVE  CallInv'
<1> USE DEF Fits, SerialRoles
<1>1. CASE SubmittedTest(i)
  BY <1>1, RepliesInTurn, AwaitKeepsCallInv, OutcomeKeepsCallInv DEF SubmittedTest
<1>2. CASE CriticsReplied(i)
  BY <1>2, RepliesInTurn, AwaitKeepsCallInv, OutcomeKeepsCallInv DEF CriticsReplied
<1>3. CASE RepairedTest(i)
  BY <1>3, RepliesInTurn, AwaitKeepsCallInv, OutcomeKeepsCallInv DEF RepairedTest
<1>4. CASE Implemented(i)
  BY <1>4, RepliesInTurn, OutcomeKeepsCallInv DEF Implemented
<1>5. CASE FixerReplied(i)
  BY <1>5, RepliesInTurn, AwaitKeepsCallInv, OutcomeKeepsCallInv
     DEF FixerReplied, VerifyAndValidate
<1>6. CASE PanelReplied(i)
  BY <1>6, RepliesInTurn, AwaitKeepsCallInv, OutcomeKeepsCallInv DEF PanelReplied, GoOn
<1>7. CASE ReviewWriterReplied(i)
  BY <1>7, RepliesInTurn, AwaitKeepsCallInv, OutcomeKeepsCallInv DEF ReviewWriterReplied, GoOn
<1>8. ASSUME i \in call.todo, NextStageTool(i) = "item_review", Revalidate(i)
      PROVE  CallInv'
  <2>1. \/ Return(i, FALSE) \/ AskAndBlock(i) \/ AdvanceUnlessBlocked(i, "REVIEWED")
        \/ /\ Await(i, "panel", job[i].round + 1, job[i].excluded)
           /\ UNCHANGED <<state, blocked>>
    BY <1>8 DEF Revalidate
  <2>2. CASE /\ Await(i, "panel", job[i].round + 1, job[i].excluded)
             /\ UNCHANGED <<state, blocked>>
    BY <1>8, <2>2, AwaitKeepsCallInv
  <2> QED BY <1>8, <2>1, <2>2, OutcomeKeepsCallInv
<1>9. CASE RevetReplied(i)
  <2>1. i \in call.todo /\ NextStageTool(i) = "item_review"
    BY <1>9, RepliesInTurn DEF RevetReplied
  <2>2. AskAndBlock(i) \/ GoOn(i, "reviewImplementer") \/ Revalidate(i)
    BY <1>9 DEF RevetReplied
  <2>3. CASE GoOn(i, "reviewImplementer")
    BY <2>1, <2>3, AwaitKeepsCallInv DEF GoOn
  <2>4. CASE AskAndBlock(i)
    BY <2>1, <2>4, OutcomeKeepsCallInv
  <2> QED BY <1>8, <2>1, <2>2, <2>3, <2>4
<1>10. CASE ReviewImplementerReplied(i)
  <2>1. i \in call.todo /\ NextStageTool(i) = "item_review"
    BY <1>10, RepliesInTurn DEF ReviewImplementerReplied
  <2>2. AskAndBlock(i) \/ Revalidate(i)
    BY <1>10 DEF ReviewImplementerReplied
  <2> QED BY <1>8, <2>1, <2>2, OutcomeKeepsCallInv
<1>11. CASE SubSessionFails(i)
  <2>1. i \in call.todo
    BY <1>11 DEF SubSessionFails, CallInv, JobsBelongToTheCall
  <2> QED BY <1>11, <2>1, OutcomeKeepsCallInv DEF SubSessionFails
<1> QED BY <1>1, <1>2, <1>3, <1>4, <1>5, <1>6, <1>7, <1>9, <1>10, <1>11 DEF Reply

LEMMA OtherKeepsCallInv ==
  ASSUME TypeOK, CallInv,
         \/ \E i \in Items : CallStage(i) \/ SubSessionEdits(i) \/ SubSessionSurfaces(i)
         \/ \E i \in Items : Answer(i) \/ OperatorEdit(i)
         \/ DispatchWave \/ NextGroup \/ Crash
  PROVE  CallInv'
<1> USE DEF Fits, SerialRoles
<1>1. CASE UNCHANGED <<state, job, call>>
  <2>1. \A j \in Items : NextStageTool(j)' = NextStageTool(j)
    BY <1>1 DEF NextStageTool
  <2>2. \A j \in Items : TurnHasCome(j)' <=> TurnHasCome(j)
    <3>1. call.todo \subseteq Items /\ call' = call
      BY <1>1 DEF TypeOK, Calls
    <3> QED BY ONLY <2>1, <3>1 DEF TurnHasCome
  <2> QED BY <1>1, <2>1, <2>2 DEF CallInv, JobsBelongToTheCall, JobsFitTheirStages,
                SerialJobsHaveTheirTurn, OneItemOutsideWaves
<1>2. ASSUME call.todo = {}, job' = job, call'.wave \/ \E i \in Items : call'.todo = {i}
      PROVE  CallInv'
  <2>1. \A j \in Items : job'[j].awaits = "nobody"
    BY <1>2 DEF CallInv, JobsBelongToTheCall
  <2> QED BY <1>2, <2>1 DEF CallInv, JobsBelongToTheCall, JobsFitTheirStages,
            SerialJobsHaveTheirTurn, OneItemOutsideWaves
<1>3. ASSUME \A j \in Items : job'[j].awaits = "nobody", call' = NoCall
      PROVE  CallInv'
  BY <1>3 DEF CallInv, JobsBelongToTheCall, JobsFitTheirStages,
     SerialJobsHaveTheirTurn, OneItemOutsideWaves, NoCall
<1>4. ASSUME NEW i \in Items, CallStage(i) PROVE CallInv'
  BY <1>2, <1>4 DEF CallStage, NoCall
<1>5. CASE DispatchWave
  BY <1>2, <1>5 DEF DispatchWave, NoCall
<1>6. CASE NextGroup
  <2>1. CASE call' = NoCall
    BY <1>3, <1>6, <2>1 DEF NextGroup, CallInv, JobsBelongToTheCall
  <2>2. CASE call' # NoCall
    BY <1>2, <1>6, <2>2 DEF NextGroup, TypeOK, Calls
  <2> QED BY <2>1, <2>2
<1>7. CASE Crash
  BY <1>3, <1>7 DEF Crash, Idle
<1>8. (\E i \in Items : \/ SubSessionEdits(i) \/ SubSessionSurfaces(i)
                        \/ Answer(i) \/ OperatorEdit(i)) => UNCHANGED <<state, job, call>>
  BY DEF SubSessionEdits, SubSessionSurfaces, Answer, OperatorEdit
<1> QED BY <1>1, <1>4, <1>5, <1>6, <1>7, <1>8

----------------------------------------------------------------------------
(* Evidence: what is recorded as the tree of a green verify is still there.  *)

LEMMA VerifyKeepsEvidence ==
  ASSUME TypeOK, EvidenceIsMeasured, NEW i \in Items, NEW excluded, NEW green,
         Verify(i, excluded, green), UNCHANGED proof
  PROVE  EvidenceIsMeasured'
BY DEF EvidenceIsMeasured, Verify

LEMMA ValidateKeepsEvidence ==
  ASSUME TypeOK, EvidenceIsMeasured, NEW i \in Items, NEW excluded, NEW fixes,
         VerifyAndValidate(i, excluded, fixes)
  PROVE  EvidenceIsMeasured'
<1>1. PICK green \in BOOLEAN :
        /\ Verify(i, excluded, green)
        /\ \/ green /\ proof' = [proof EXCEPT ![i] = IF i \in blocked THEN @ ELSE "current"]
           \/ UNCHANGED proof
  BY DEF VerifyAndValidate
<1>2. CASE UNCHANGED proof
  BY <1>1, <1>2, VerifyKeepsEvidence
<1>3. CASE green /\ proof' = [proof EXCEPT ![i] = IF i \in blocked THEN @ ELSE "current"]
  <2>1. measured' = measured \cup {i}
    BY <1>1, <1>3 DEF Verify
  <2>2. \A j \in Items : j # i => proof'[j] = proof[j]
    BY <1>3 DEF TypeOK
  <2> QED BY <2>1, <2>2 DEF EvidenceIsMeasured
<1> QED BY <1>1, <1>2, <1>3

LEMMA PublishKeepsEvidence ==
  ASSUME TypeOK, EvidenceIsMeasured, NEW i \in Items, Publish(i)
  PROVE  EvidenceIsMeasured' /\ (state'[i] = "PUBLISHED" => i \in measured')
<1>1. PICK formatted, fresh, green, commits \in BOOLEAN :
        /\ fresh => Fresh(i, formatted)
        /\ \/ PublishFails(i, formatted, fresh, green)
           \/ PublishDemotes(i, formatted)
           \/ (fresh \/ green) /\ PublishAdvances(i, formatted, fresh, commits)
  BY PublishEnds
<1> DEFINE still == Still(i, formatted)
           held  == Held(i, formatted)
           again == Remeasured(i, formatted, fresh)
<1>2. \A j \in Items : still[j] = "current" => j \in held
  BY DEF EvidenceIsMeasured, ProofEdited, TypeOK, Still, Held
<1>3. held \subseteq again /\ i \in again
  BY <1>1 DEF Fresh, EvidenceIsMeasured, Held, Remeasured
<1>4. state[i] # "PUBLISHED"
  BY DEF Publish, Starts, Offered
<1> HIDE DEF still, held, again
<1>5. CASE PublishFails(i, formatted, fresh, green)
  <2>1. proof' = still /\ (measured' = again \/ measured' = held) /\ state' = state
    BY <1>5 DEF PublishFails, Return, still, held, again
  <2> QED BY <1>2, <1>3, <1>4, <2>1 DEF EvidenceIsMeasured
<1>6. CASE PublishDemotes(i, formatted)
  <2>1. proof' = still /\ measured' = held /\ state'[i] = "GREEN"
    BY <1>6 DEF PublishDemotes, TypeOK, still, held
  <2> QED BY <1>2, <2>1 DEF EvidenceIsMeasured
<1>7. CASE PublishAdvances(i, formatted, fresh, commits) /\ ~commits
  <2>1. proof' = still /\ measured' = again
    BY <1>7 DEF PublishAdvances, still, again
  <2> QED BY <1>2, <1>3, <2>1 DEF EvidenceIsMeasured
<1>8. CASE PublishAdvances(i, formatted, fresh, commits) /\ commits
  <2>1. proof' = HeadMoved({i}) /\ measured' = again \cap {i}
    BY <1>8 DEF PublishAdvances, again
  <2>2. \A j \in Items : proof'[j] = "current" => j = i
    BY <2>1 DEF HeadMoved
  <2> QED BY <1>3, <2>1, <2>2 DEF EvidenceIsMeasured
<1> QED BY <1>1, <1>5, <1>6, <1>7, <1>8

LEMMA StepKeepsEvidence ==
  ASSUME TypeOK, EvidenceIsMeasured, Next
  PROVE  EvidenceIsMeasured'
<1> USE DEF history
<1>1. CASE UNCHANGED <<proof, measured>>
  BY <1>1 DEF EvidenceIsMeasured
<1>2. ASSUME NEW i \in Items, proof' = ProofEdited(i), measured' = measured \ {i}
      PROVE  EvidenceIsMeasured'
  BY <1>2 DEF EvidenceIsMeasured, ProofEdited, TypeOK
<1>3. ASSUME NEW i \in Items, Starter(i) PROVE EvidenceIsMeasured'
  <2>1. CASE StartValidate(i)
    BY <2>1, ValidateKeepsEvidence DEF StartValidate
  <2>2. CASE Publish(i)
    BY <2>2, PublishKeepsEvidence
  <2>3. CASE ~(StartValidate(i) \/ Publish(i))
    BY <1>1, <1>3, <2>3 DEF Starter, StartSubmitTest, StartVetTest, StartMarkGreen,
       StartItemReview, RefusePublish, StageRefused
  <2> QED BY <2>1, <2>2, <2>3
<1>4. ASSUME NEW i \in Items, Reply(i) PROVE EvidenceIsMeasured'
  <2>1. CASE FixerReplied(i)
    BY <2>1, ValidateKeepsEvidence DEF FixerReplied
  <2>2. CASE (RevetReplied(i) \/ ReviewImplementerReplied(i)) /\ Revalidate(i)
    BY <2>2, VerifyKeepsEvidence DEF RevetReplied, ReviewImplementerReplied, Revalidate
  <2>3. CASE (RevetReplied(i) \/ ReviewImplementerReplied(i)) /\ ~Revalidate(i)
    BY <1>1, <2>3 DEF RevetReplied, ReviewImplementerReplied
  <2>4. CASE \/ SubmittedTest(i) \/ CriticsReplied(i) \/ RepairedTest(i) \/ Implemented(i)
             \/ PanelReplied(i) \/ ReviewWriterReplied(i) \/ SubSessionFails(i)
    BY <1>1, <2>4 DEF SubmittedTest, CriticsReplied, RepairedTest, Implemented,
       PanelReplied, ReviewWriterReplied, SubSessionFails
  <2> QED BY <1>4, <2>1, <2>2, <2>3, <2>4 DEF Reply
<1>5. CASE Crash
  <2>1. CASE proof' = HeadMoved({})
    BY <2>1 DEF HeadMoved, EvidenceIsMeasured
  <2> QED BY <1>1, <1>5, <2>1 DEF Crash
<1>6. ASSUME NEW i \in Items,
             CallStage(i) \/ SubSessionSurfaces(i) \/ Answer(i)
      PROVE  EvidenceIsMeasured'
  BY <1>1, <1>6 DEF CallStage, SubSessionSurfaces, Answer
<1>7. CASE DispatchWave \/ NextGroup
  BY <1>1, <1>7 DEF DispatchWave, NextGroup
<1>8. ASSUME NEW i \in Items, SubSessionEdits(i) \/ OperatorEdit(i) PROVE EvidenceIsMeasured'
  BY <1>2, <1>8 DEF SubSessionEdits, OperatorEdit
<1> QED BY <1>3, <1>4, <1>5, <1>6, <1>7, <1>8 DEF Next

----------------------------------------------------------------------------
(* What a step may do to the state of an item.                              *)

\* The only transition of a blocked item is the red of its submit_test; the others
\* publish what was measured and make green what was vetted.
SoundFor(j) ==
  state'[j] # state[j] =>
    \/ state[j] = "PENDING" /\ state'[j] = "RED"
    \/ /\ j \notin blocked
       /\ state'[j] = "PUBLISHED" => j \in measured'
       /\ j \in Behavioral /\ state[j] = "TEST_VETTED" /\ state'[j] = "GREEN" => j \notin drifted

SoundStep == \A j \in Items : SoundFor(j)

LEMMA AdvanceIsSound ==
  ASSUME TypeOK, NEW i \in Items, NEW to, AdvanceUnlessBlocked(i, to), to # "PUBLISHED",
         to = "GREEN" /\ state[i] = "TEST_VETTED" => i \notin Behavioral \/ i \notin drifted
  PROVE  SoundStep
BY DEF AdvanceUnlessBlocked, Advance, Return, TypeOK, SoundStep, SoundFor

LEMMA StarterIsSound ==
  ASSUME TypeOK, EvidenceIsMeasured, NEW i \in Items, Starter(i)
  PROVE  SoundStep
<1>1. CASE state' = state
  BY <1>1 DEF SoundStep, SoundFor
<1>2. CASE StartValidate(i)
  <2>1. AdvanceUnlessBlocked(i, "VALIDATED") \/ state' = state
    BY <1>2 DEF StartValidate, VerifyAndValidate, AskAndBlock
  <2> QED BY <1>1, <2>1, AdvanceIsSound
<1>3. CASE Publish(i)
  <2>1. i \notin blocked /\ NextStageTool(i) = "publish"
    BY <1>3 DEF Publish, Starts, Offered
  <2>2. state[i] # "TEST_VETTED"
    BY <2>1 DEF NextStageTool
  <2>3. \A j \in Items : j # i => state'[j] = state[j]
    <3>1. \/ Return(i, FALSE) \/ Advance(i, "PUBLISHED") \/ state' = [state EXCEPT ![i] = "GREEN"]
      BY <1>3, PublishEnds DEF PublishFails, PublishDemotes, PublishAdvances
    <3> QED BY <3>1 DEF Return, Advance, TypeOK
  <2> QED BY <1>3, <2>1, <2>2, <2>3, PublishKeepsEvidence DEF SoundStep, SoundFor
<1>4. CASE \/ StartSubmitTest(i) \/ StartVetTest(i) \/ StartMarkGreen(i)
           \/ StartItemReview(i) \/ RefusePublish(i) \/ StageRefused(i)
  BY <1>1, <1>4 DEF StartSubmitTest, StartVetTest, StartMarkGreen, StartItemReview,
     RefusePublish, StageRefused, Return, AskAndBlock
<1> QED BY <1>2, <1>3, <1>4 DEF Starter

LEMMA ReplyIsSound ==
  ASSUME TypeOK, CallInv, NEW i \in Items, Reply(i)
  PROVE  SoundStep
<1>1. CASE state' = state
  BY <1>1 DEF SoundStep, SoundFor
<1>2. CASE SubmittedTest(i)
  <2>1. CASE Advance(i, "RED")
    <3>1. NextStageTool(i) = "submit_test"
      BY <1>2, RepliesInTurn DEF SubmittedTest, Fits
    <3>2. state[i] = "PENDING"
      BY <3>1 DEF NextStageTool
    <3> QED BY <2>1, <3>2 DEF Advance, TypeOK, SoundStep, SoundFor
  <2> QED BY <1>1, <1>2, <2>1 DEF SubmittedTest, Return, AskAndBlock
<1>3. ASSUME Revalidate(i) PROVE SoundStep
  <2>1. AdvanceUnlessBlocked(i, "REVIEWED") \/ state' = state
    BY <1>3 DEF Revalidate, Return, AskAndBlock
  <2> QED BY <1>1, <2>1, AdvanceIsSound
<1>4. CASE CriticsReplied(i)
  <2>1. AdvanceUnlessBlocked(i, "TEST_VETTED") \/ state' = state
    BY <1>4 DEF CriticsReplied, AskAndBlock
  <2> QED BY <1>1, <2>1, AdvanceIsSound
<1>5. CASE Implemented(i)
  <2>1. \/ AdvanceUnlessBlocked(i, "GREEN") /\ (i \notin Behavioral \/ i \notin drifted)
        \/ state' = state
    BY <1>5 DEF Implemented, AskAndBlock, Return, VettedTestStands
  <2> QED BY <1>1, <2>1, AdvanceIsSound
<1>6. CASE FixerReplied(i)
  <2>1. AdvanceUnlessBlocked(i, "VALIDATED") \/ state' = state
    BY <1>6 DEF FixerReplied, VerifyAndValidate, AskAndBlock
  <2> QED BY <1>1, <2>1, AdvanceIsSound
<1>7. CASE PanelReplied(i)
  <2>1. AdvanceUnlessBlocked(i, "REVIEWED") \/ state' = state
    BY <1>7 DEF PanelReplied, GoOn
  <2> QED BY <1>1, <2>1, AdvanceIsSound
<1>8. CASE \/ RepairedTest(i) \/ ReviewWriterReplied(i) \/ RevetReplied(i)
           \/ ReviewImplementerReplied(i) \/ SubSessionFails(i)
  <2>1. Revalidate(i) \/ state' = state
    BY <1>8 DEF RepairedTest, ReviewWriterReplied, RevetReplied, ReviewImplementerReplied,
       SubSessionFails, GoOn, Return, AskAndBlock
  <2> QED BY <1>1, <1>3, <2>1
<1> QED BY <1>2, <1>4, <1>5, <1>6, <1>7, <1>8 DEF Reply

LEMMA StepIsSound ==
  ASSUME Inv, [Next]_vars
  PROVE  SoundStep
<1>1. CASE state' = state
  BY <1>1 DEF SoundStep, SoundFor
<1>2. CASE \E i \in Items : Starter(i) \/ Reply(i)
  BY <1>2, StarterIsSound, ReplyIsSound DEF Inv
<1>3. CASE \/ \E i \in Items : CallStage(i) \/ SubSessionEdits(i) \/ SubSessionSurfaces(i)
           \/ \E i \in Items : Answer(i) \/ OperatorEdit(i)
           \/ DispatchWave \/ NextGroup \/ Crash
  BY <1>1, <1>3 DEF CallStage, SubSessionEdits, SubSessionSurfaces, Answer, OperatorEdit,
     DispatchWave, NextGroup, Crash
<1>4. CASE UNCHANGED vars
  BY <1>1, <1>4 DEF vars
<1> QED BY <1>2, <1>3, <1>4 DEF Next

----------------------------------------------------------------------------
\* The invariant of the pipeline: types, the order of a call's stages, evidence.
THEOREM Invariance == Spec => []Inv
<1>1. Init => Inv
  BY DEF Init, Inv, TypeOK, ItemStates, Proofs, Idle, Jobs, NoCall, Calls, CallInv,
     JobsBelongToTheCall, JobsFitTheirStages, Fits, SerialJobsHaveTheirTurn, SerialRoles,
     OneItemOutsideWaves, EvidenceIsMeasured
<1>2. TypeOK /\ TypeOK' /\ Inv /\ [Next]_vars => Inv'
  <2> SUFFICES ASSUME TypeOK, TypeOK', Inv, [Next]_vars PROVE Inv'
    OBVIOUS
  <2>1. CASE Next
    <3>1. CallInv'
      BY <2>1, StarterKeepsCallInv, ReplyKeepsCallInv, OtherKeepsCallInv DEF Next, Inv
    <3> QED BY <2>1, <3>1, StepKeepsEvidence DEF Inv
  <2>2. CASE UNCHANGED vars
    BY <2>2 DEF vars, files, history, Inv, CallInv, JobsBelongToTheCall,
       JobsFitTheirStages, Fits, SerialJobsHaveTheirTurn, TurnHasCome, NextStageTool,
       OneItemOutsideWaves, EvidenceIsMeasured
  <2> QED BY <2>1, <2>2
<1> QED BY <1>1, <1>2, TypeCorrect, PTL DEF Spec

\* A blocked item stands still, whichever handlers of whichever wave are under way.
THEOREM BlockedItemsStandStill == Spec => BlockedStandsStill
<1>1. Inv /\ [Next]_vars =>
        [\A i \in Items : i \in blocked /\ state'[i] # state[i] =>
                            state[i] = "PENDING" /\ state'[i] = "RED"]_vars
  BY StepIsSound DEF SoundStep, SoundFor
<1> QED BY <1>1, Invariance, PTL DEF Spec, BlockedStandsStill

\* What is published is what a green verify ran on.
THEOREM PublishedWasMeasured == Spec => PublishedAsMeasured
<1>1. Inv /\ [Next]_vars =>
        [\A i \in Items : state[i] # "PUBLISHED" /\ state'[i] = "PUBLISHED" =>
                            i \in measured']_vars
  BY StepIsSound DEF SoundStep, SoundFor
<1> QED BY <1>1, Invariance, PTL DEF Spec, PublishedAsMeasured

\* A behavioral item turns green on the test its critics approved.
THEOREM GreenOnVetted == Spec => GreenOnTheVettedTest
<1>1. Inv /\ [Next]_vars =>
        [\A i \in Behavioral : state[i] = "TEST_VETTED" /\ state'[i] = "GREEN" =>
                                 i \notin drifted]_vars
  BY StepIsSound DEF SoundStep, SoundFor
<1> QED BY <1>1, Invariance, PTL DEF Spec, GreenOnTheVettedTest

\* Of the writers that wave stages chain, one is at work at a time.
THEOREM WritersTakeTurns == Spec => []OneSerialWriter
<1>1. ASSUME Inv, NEW i \in Items, NEW j \in Items, i < j,
             job[i].awaits \in SerialRoles, job[j].awaits \in SerialRoles
      PROVE  FALSE
  <2>1. TurnHasCome(j)
    BY <1>1 DEF Inv, CallInv, SerialJobsHaveTheirTurn
  <2>2. i \in call.todo /\ j \in call.todo
    BY <1>1 DEF Inv, CallInv, JobsBelongToTheCall, SerialRoles
  <2>3. NextStageTool(i) \in SerialStages /\ NextStageTool(j) \in SerialStages
    BY <1>1 DEF Inv, CallInv, JobsFitTheirStages, Fits, SerialRoles, SerialStages
  <2> QED BY <1>1, <2>1, <2>2, <2>3 DEF TurnHasCome
<1>2. Inv => OneSerialWriter
  <2> SUFFICES ASSUME Inv, NEW i \in Items, NEW j \in Items, i # j,
                      job[i].awaits \in SerialRoles, job[j].awaits \in SerialRoles
               PROVE  FALSE
    BY DEF OneSerialWriter, SerialRoles
  <2>1. i \in Nat /\ j \in Nat
    OBVIOUS
  <2>2. i < j \/ j < i
    BY <2>1
  <2> QED BY <1>1, <2>2
<1> QED BY <1>2, Invariance, PTL

\* Every dispatch of an implementer was counted, across kills: the budget holds.
THEOREM AttemptsBounded == Spec => []AttemptsWithinBudget
<1> DEFINE Counted == implemented = attempts
<1>1. Init => Counted
  BY DEF Init
<1>2. Counted /\ TypeOK /\ [Next]_vars => Counted'
  <2> SUFFICES ASSUME Counted, TypeOK, [Next]_vars PROVE Counted'
    OBVIOUS
  <2> USE DEF history
  <2>1. CASE UNCHANGED <<attempts, implemented>>
    BY <2>1
  <2>2. ASSUME NEW i \in Items, StartMarkGreen(i) PROVE Counted'
    BY <2>2 DEF StartMarkGreen, CountedBeforeDispatch
  <2>3. ASSUME NEW i \in Items, Starter(i) PROVE Counted'
    BY <2>1, <2>2, <2>3 DEF Starter, StartSubmitTest, StartVetTest, StartValidate,
       VerifyAndValidate, StartItemReview, RefusePublish, Publish, StageRefused
  <2>4. ASSUME NEW i \in Items, Reply(i) PROVE Counted'
    BY <2>1, <2>4 DEF Reply, SubmittedTest, CriticsReplied, RepairedTest, Implemented,
       FixerReplied, VerifyAndValidate, PanelReplied, ReviewWriterReplied, RevetReplied,
       ReviewImplementerReplied, Revalidate, SubSessionFails
  <2>5. ASSUME NEW i \in Items, \/ CallStage(i) \/ SubSessionEdits(i) \/ SubSessionSurfaces(i)
                                \/ Answer(i) \/ OperatorEdit(i)
        PROVE  Counted'
    BY <2>1, <2>5 DEF CallStage, SubSessionEdits, SubSessionSurfaces, Answer, OperatorEdit
  <2>6. CASE DispatchWave \/ NextGroup \/ Crash
    BY <2>1, <2>6 DEF DispatchWave, NextGroup, Crash
  <2>7. CASE UNCHANGED vars
    BY <2>1, <2>7 DEF vars
  <2> QED BY <2>3, <2>4, <2>5, <2>6, <2>7 DEF Next
<1>3. Counted /\ TypeOK => AttemptsWithinBudget
  BY DEF TypeOK, AttemptsWithinBudget
<1> QED BY <1>1, <1>2, <1>3, TypeCorrect, PTL DEF Spec

----------------------------------------------------------------------------
(* The handlers implement the item's state machine. *)

FsmStep == Fsm!ItemsNext \/ UNCHANGED Fsm!itemVars

\* An item a sub-session works on has its dependencies published.
WorkIsUnlocked == \A i \in Items : job[i].awaits # "nobody" => DepsReady(i)

LEMMA AdvanceIsAStep ==
  ASSUME TypeOK, NEW i \in Items, NEW to, AdvanceUnlessBlocked(i, to), DepsReady(i),
         state[i] # "PUBLISHED", to = Fsm!Successor(i)
  PROVE  FsmStep
<1>1. CASE i \in blocked
  BY <1>1 DEF AdvanceUnlessBlocked, Return, FsmStep, Fsm!itemVars
<1>2. CASE i \notin blocked
  <2>1. Fsm!Transition(i)
    BY <1>2 DEF AdvanceUnlessBlocked, Advance, Fsm!Transition, Fsm!Unlocked, DepsReady
  <2> QED BY <2>1 DEF FsmStep, Fsm!ItemsNext
<1> QED BY <1>1, <1>2

LEMMA EndIsAStep ==
  ASSUME NEW i \in Items, AskAndBlock(i) \/ UNCHANGED <<state, blocked>>
  PROVE  FsmStep
<1>1. CASE AskAndBlock(i)
  BY <1>1 DEF AskAndBlock, FsmStep, Fsm!ItemsNext, Fsm!Block
<1> QED BY <1>1 DEF FsmStep, Fsm!itemVars

LEMMA StarterIsAStep ==
  ASSUME TypeOK, NEW i \in Items, Starter(i)
  PROVE  FsmStep
<1>1. CASE AskAndBlock(i) \/ UNCHANGED <<state, blocked>>
  BY <1>1, EndIsAStep
<1>2. CASE StartValidate(i)
  <2>1. DepsReady(i) /\ NextStageTool(i) = "validate"
    BY <1>2 DEF StartValidate, Starts, Offered
  <2>2. state[i] = "GREEN"
    BY <2>1 DEF NextStageTool
  <2>3. AdvanceUnlessBlocked(i, "VALIDATED") \/ AskAndBlock(i) \/ UNCHANGED <<state, blocked>>
    BY <1>2 DEF StartValidate, VerifyAndValidate
  <2>4. "VALIDATED" = Fsm!Successor(i)
    BY <2>2 DEF Fsm!Successor
  <2> QED BY <1>1, <2>1, <2>2, <2>3, <2>4, AdvanceIsAStep
<1>3. CASE Publish(i)
  <2>1. /\ i \notin blocked /\ DepsReady(i) /\ state[i] # "PUBLISHED"
        /\ NextStageTool(i) = "publish"
    BY <1>3 DEF Publish, Starts, Offered
  <2>2. state[i] = "REVIEWED"
    BY <2>1 DEF NextStageTool, TypeOK, ItemStates
  <2>3. \/ Return(i, FALSE) \/ Advance(i, "PUBLISHED")
        \/ state' = [state EXCEPT ![i] = "GREEN"] /\ UNCHANGED blocked
    <3>1. PICK formatted \in BOOLEAN, fresh \in BOOLEAN, green \in BOOLEAN, commits \in BOOLEAN :
            \/ PublishFails(i, formatted, fresh, green)
            \/ PublishDemotes(i, formatted)
            \/ PublishAdvances(i, formatted, fresh, commits)
      <4>1. \A formatted, doubt \in BOOLEAN : (Fresh(i, formatted) /\ ~doubt) \in BOOLEAN
        BY DEF Fresh
      <4> QED BY <1>3, <4>1 DEF Publish
    <3>2. CASE PublishFails(i, formatted, fresh, green)
      BY <3>2 DEF PublishFails
    <3>3. CASE PublishDemotes(i, formatted)
      BY <3>3 DEF PublishDemotes
    <3>4. CASE PublishAdvances(i, formatted, fresh, commits)
      BY <3>4 DEF PublishAdvances
    <3> QED BY <3>1, <3>2, <3>3, <3>4
  <2>4. CASE Advance(i, "PUBLISHED")
    <3>1. Fsm!Transition(i)
      BY <2>1, <2>2, <2>4 DEF Advance, Fsm!Transition, Fsm!Successor, Fsm!Unlocked, DepsReady
    <3> QED BY <3>1 DEF FsmStep, Fsm!ItemsNext
  <2>5. CASE state' = [state EXCEPT ![i] = "GREEN"] /\ UNCHANGED blocked
    <3>1. Fsm!Demote(i)
      BY <2>1, <2>2, <2>5 DEF Fsm!Demote, Fsm!Unlocked, DepsReady
    <3> QED BY <3>1 DEF FsmStep, Fsm!ItemsNext
  <2> QED BY <1>1, <2>3, <2>4, <2>5 DEF Return
<1>4. CASE \/ StartSubmitTest(i) \/ StartVetTest(i) \/ StartMarkGreen(i)
           \/ StartItemReview(i) \/ RefusePublish(i) \/ StageRefused(i)
  BY <1>1, <1>4 DEF StartSubmitTest, StartVetTest, StartMarkGreen, StartItemReview,
     RefusePublish, StageRefused, Return
<1> QED BY <1>2, <1>3, <1>4 DEF Starter

LEMMA ReplyIsAStep ==
  ASSUME TypeOK, CallInv, WorkIsUnlocked, NEW i \in Items, Reply(i)
  PROVE  FsmStep
<1>1. CASE AskAndBlock(i) \/ UNCHANGED <<state, blocked>>
  BY <1>1, EndIsAStep
<1>2. Fits(i, job[i].awaits)
  BY DEF CallInv, JobsFitTheirStages
<1>3. job[i].awaits # "nobody" => DepsReady(i)
  BY DEF WorkIsUnlocked
<1>4. ASSUME NEW role, Replied(i, role), role # "nobody" PROVE DepsReady(i) /\ Fits(i, role)
  BY <1>2, <1>3, <1>4 DEF Replied
<1>5. CASE SubmittedTest(i)
  <2>1. CASE Advance(i, "RED")
    <3>1. DepsReady(i) /\ NextStageTool(i) = "submit_test"
      BY <1>4, <1>5 DEF SubmittedTest, Fits
    <3>2. state[i] = "PENDING" /\ i \in Behavioral
      BY <3>1 DEF NextStageTool
    <3>3. CASE i \in blocked
      <4>1. Fsm!LateRed(i)
        BY <2>1, <3>1, <3>2, <3>3 DEF Advance, Fsm!LateRed, Fsm!Unlocked, DepsReady
      <4> QED BY <4>1 DEF FsmStep, Fsm!ItemsNext
    <3>4. CASE i \notin blocked
      <4>1. Fsm!Transition(i)
        BY <2>1, <3>1, <3>2, <3>4 DEF Advance, Fsm!Transition, Fsm!Successor, Fsm!Unlocked,
           DepsReady
      <4> QED BY <4>1 DEF FsmStep, Fsm!ItemsNext
    <3> QED BY <3>3, <3>4
  <2> QED BY <1>1, <1>5, <2>1 DEF SubmittedTest, Return
<1>6. CASE CriticsReplied(i)
  <2>1. DepsReady(i) /\ NextStageTool(i) = "vet_test"
    BY <1>4, <1>6 DEF CriticsReplied, Fits
  <2>2. state[i] = "RED"
    BY <2>1 DEF NextStageTool
  <2>3. "TEST_VETTED" = Fsm!Successor(i)
    BY <2>2 DEF Fsm!Successor
  <2>4. AdvanceUnlessBlocked(i, "TEST_VETTED") \/ AskAndBlock(i) \/ UNCHANGED <<state, blocked>>
    BY <1>6 DEF CriticsReplied
  <2> QED BY <1>1, <2>1, <2>2, <2>3, <2>4, AdvanceIsAStep
<1>7. CASE Implemented(i)
  <2>1. DepsReady(i) /\ NextStageTool(i) = "mark_green"
    BY <1>4, <1>7 DEF Implemented, Fits
  <2>2. state[i] = "TEST_VETTED" \/ (state[i] = "PENDING" /\ i \notin Behavioral)
    BY <2>1 DEF NextStageTool
  <2>3. "GREEN" = Fsm!Successor(i)
    BY <2>2 DEF Fsm!Successor
  <2>4. AdvanceUnlessBlocked(i, "GREEN") \/ AskAndBlock(i) \/ UNCHANGED <<state, blocked>>
    BY <1>7 DEF Implemented, Return
  <2> QED BY <1>1, <2>1, <2>2, <2>3, <2>4, AdvanceIsAStep
<1>8. CASE FixerReplied(i)
  <2>1. DepsReady(i) /\ NextStageTool(i) = "validate"
    BY <1>4, <1>8 DEF FixerReplied, Fits
  <2>2. state[i] = "GREEN"
    BY <2>1 DEF NextStageTool
  <2>3. "VALIDATED" = Fsm!Successor(i)
    BY <2>2 DEF Fsm!Successor
  <2>4. AdvanceUnlessBlocked(i, "VALIDATED") \/ AskAndBlock(i) \/ UNCHANGED <<state, blocked>>
    BY <1>8 DEF FixerReplied, VerifyAndValidate
  <2> QED BY <1>1, <2>1, <2>2, <2>3, <2>4, AdvanceIsAStep
<1>9. CASE \/ PanelReplied(i) \/ ReviewWriterReplied(i)
           \/ RevetReplied(i) \/ ReviewImplementerReplied(i)
  <2>1. DepsReady(i) /\ NextStageTool(i) = "item_review"
    BY <1>4, <1>9 DEF PanelReplied, ReviewWriterReplied, RevetReplied, ReviewImplementerReplied,
       Fits
  <2>2. state[i] = "VALIDATED"
    BY <2>1 DEF NextStageTool
  <2>3. "REVIEWED" = Fsm!Successor(i)
    BY <2>2 DEF Fsm!Successor
  <2>4. AdvanceUnlessBlocked(i, "REVIEWED") \/ AskAndBlock(i) \/ UNCHANGED <<state, blocked>>
    BY <1>9 DEF PanelReplied, ReviewWriterReplied, RevetReplied, ReviewImplementerReplied,
       Revalidate, GoOn, Return
  <2> QED BY <1>1, <2>1, <2>2, <2>3, <2>4, AdvanceIsAStep
<1>10. CASE RepairedTest(i) \/ SubSessionFails(i)
  BY <1>1, <1>10 DEF RepairedTest, SubSessionFails, Return
<1> QED BY <1>5, <1>6, <1>7, <1>8, <1>9, <1>10 DEF Reply

LEMMA NextIsAStep ==
  ASSUME Inv, WorkIsUnlocked, [Next]_vars
  PROVE  FsmStep
<1>1. CASE UNCHANGED <<state, blocked>>
  BY <1>1 DEF FsmStep, Fsm!itemVars
<1>2. CASE \E i \in Items : Starter(i) \/ Reply(i)
  BY <1>2, StarterIsAStep, ReplyIsAStep DEF Inv
<1>3. CASE \E i \in Items : SubSessionSurfaces(i) \/ Answer(i)
  BY <1>3 DEF SubSessionSurfaces, Answer, FsmStep, Fsm!ItemsNext, Fsm!Block, Fsm!Unblock
<1>4. CASE \/ \E i \in Items : CallStage(i) \/ SubSessionEdits(i) \/ OperatorEdit(i)
           \/ DispatchWave \/ NextGroup \/ Crash
  BY <1>1, <1>4 DEF CallStage, SubSessionEdits, OperatorEdit, DispatchWave, NextGroup, Crash
<1>5. CASE UNCHANGED vars
  BY <1>1, <1>5 DEF vars
<1> QED BY <1>2, <1>3, <1>4, <1>5 DEF Next

\* No step of the machine takes a publication back.
LEMMA PublishedStays ==
  ASSUME state \in [Items -> ItemStates], FsmStep, NEW i \in Items, state[i] = "PUBLISHED"
  PROVE  state'[i] = "PUBLISHED"
BY DEF FsmStep, Fsm!ItemsNext, Fsm!itemVars, Fsm!Transition, Fsm!Demote, Fsm!LateRed, Fsm!Block,
   Fsm!Unblock

\* A sub-session that is at work after a step was so before, or its stage starts.
LEMMA WorkBegins ==
  ASSUME TypeOK, [Next]_vars, NEW i \in Items, job'[i].awaits # "nobody"
  PROVE  job[i].awaits # "nobody" \/ Offered(i)
<1> USE DEF Settle, Return, Advance, AskAndBlock, AdvanceUnlessBlocked, Await, Idle
<1>1. CASE job' = job
  BY <1>1
<1>2. ASSUME NEW k \in Items, Starter(k) PROVE job[i].awaits # "nobody" \/ Offered(i)
  <2>1. CASE Starts(k, "validate") \/ Starts(k, "submit_test") \/ Starts(k, "vet_test")
             \/ Starts(k, "mark_green") \/ Starts(k, "item_review")
    <3>1. Offered(k)
      BY <2>1 DEF Starts
    <3>2. k # i => job'[i] = job[i]
      BY <1>2 DEF TypeOK, Starter, StartSubmitTest, StartVetTest, StartMarkGreen, StartValidate,
         VerifyAndValidate, StartItemReview, RefusePublish, Publish, PublishFails, PublishDemotes,
         PublishAdvances, StageRefused
    <3> QED BY <3>1, <3>2
  <2>2. CASE RefusePublish(k) \/ Publish(k) \/ StageRefused(k)
    <3>1. job' = [job EXCEPT ![k] = Idle]
      BY <2>2 DEF RefusePublish, Publish, PublishFails, PublishDemotes, PublishAdvances,
         StageRefused
    <3> QED BY <3>1 DEF TypeOK
  <2> QED BY <1>2, <2>1, <2>2 DEF Starter, StartSubmitTest, StartVetTest, StartMarkGreen,
          StartValidate, StartItemReview
<1>3. ASSUME NEW k \in Items, Reply(k) PROVE job[i].awaits # "nobody"
  <2>1. job[k].awaits # "nobody"
    BY <1>3 DEF Reply, Replied, SubmittedTest, CriticsReplied, RepairedTest, Implemented,
       FixerReplied, PanelReplied, ReviewWriterReplied, RevetReplied, ReviewImplementerReplied,
       SubSessionFails
  <2>2. k # i => job'[i] = job[i]
    BY <1>3 DEF TypeOK, Reply, SubmittedTest, CriticsReplied, RepairedTest, Implemented,
       FixerReplied, VerifyAndValidate, PanelReplied, GoOn, ReviewWriterReplied, RevetReplied,
       Revalidate, ReviewImplementerReplied, SubSessionFails
  <2> QED BY <2>1, <2>2
<1>4. CASE Crash
  BY <1>4 DEF Crash
<1>5. CASE \/ \E k \in Items : CallStage(k) \/ SubSessionEdits(k) \/ SubSessionSurfaces(k)
           \/ \E k \in Items : Answer(k) \/ OperatorEdit(k)
           \/ DispatchWave \/ NextGroup
  BY <1>1, <1>5 DEF CallStage, SubSessionEdits, SubSessionSurfaces, Answer, OperatorEdit,
     DispatchWave, NextGroup
<1>6. CASE UNCHANGED vars
  BY <1>1, <1>6 DEF vars
<1> QED BY <1>2, <1>3, <1>4, <1>5, <1>6 DEF Next

LEMMA WorkStaysUnlocked ==
  ASSUME Inv, WorkIsUnlocked, [Next]_vars
  PROVE  WorkIsUnlocked'
<1>1. FsmStep
  BY NextIsAStep
<1>2. ASSUME NEW i \in Items, job'[i].awaits # "nobody" PROVE DepsReady(i)'
  <2>1. DepsReady(i)
    BY <1>2, WorkBegins DEF Inv, WorkIsUnlocked, Offered
  <2>2. DependsOn[i] \subseteq Items /\ state \in [Items -> ItemStates]
    BY DEF Inv, TypeOK
  <2>3. \A j \in DependsOn[i] : state'[j] = "PUBLISHED"
    BY <1>1, <2>1, <2>2, PublishedStays DEF DepsReady
  <2> QED BY <2>3 DEF DepsReady
<1> QED BY <1>2 DEF WorkIsUnlocked

\* The handlers, waves, questions and kills of the pipeline implement the state machine of
\* core/fsm-item.ts: past its table there are the demotion and the late red, nothing else.
THEOREM ImplementsItemFsm == Spec => ItemFsmSpec
<1>1. Init => Fsm!ItemsInit /\ WorkIsUnlocked
  BY DEF Init, Fsm!ItemsInit, WorkIsUnlocked, Idle
<1>2. Inv /\ WorkIsUnlocked /\ [Next]_vars => WorkIsUnlocked' /\ [Fsm!ItemsNext]_(Fsm!itemVars)
  BY WorkStaysUnlocked, NextIsAStep DEF FsmStep
<1> QED BY <1>1, <1>2, Invariance, PTL DEF Spec, ItemFsmSpec, Fsm!ItemsSpec

\* What holds of the state machine holds of the pipeline: no item is past PENDING before
\* all it depends on is published, and publications stand (gates-phase.ts:165-180).
THEOREM DependenciesComeFirst == Spec => []DependenciesFirst
<1>1. /\ Fsm!ItemsInit => DependenciesFirst
      /\ TypeOK /\ DependenciesFirst /\ [Fsm!ItemsNext]_(Fsm!itemVars) => DependenciesFirst'
  <2>1. Fsm!ItemsInit => DependenciesFirst
    BY DEF Fsm!ItemsInit, DependenciesFirst, Fsm!DependenciesFirst
  <2>2. ASSUME TypeOK, DependenciesFirst, [Fsm!ItemsNext]_(Fsm!itemVars) PROVE DependenciesFirst'
    <3>1. FsmStep /\ state \in [Items -> ItemStates]
      BY <2>2 DEF FsmStep, TypeOK
    <3>2. ASSUME NEW i \in Items, state'[i] # "PENDING" PROVE Fsm!Unlocked(i)
      <4>1. CASE state'[i] = state[i]
        BY <2>2, <3>2, <4>1 DEF DependenciesFirst, Fsm!DependenciesFirst
      <4>2. CASE state'[i] # state[i]
        BY <3>1, <4>2 DEF FsmStep, Fsm!ItemsNext, Fsm!itemVars, Fsm!Transition, Fsm!Demote,
           Fsm!LateRed, Fsm!Block, Fsm!Unblock
      <4> QED BY <4>1, <4>2
    <3>3. ASSUME NEW i \in Items, state'[i] # "PENDING", NEW j \in DependsOn[i]
          PROVE  state'[j] = "PUBLISHED"
      BY <3>1, <3>2, <3>3, PublishedStays DEF Fsm!Unlocked
    <3> QED BY <3>3 DEF DependenciesFirst, Fsm!DependenciesFirst, Fsm!Unlocked
  <2> QED BY <2>1, <2>2
<1> QED BY <1>1, ImplementsItemFsm, TypeCorrect, PTL DEF ItemFsmSpec, Fsm!ItemsSpec
=============================================================================
