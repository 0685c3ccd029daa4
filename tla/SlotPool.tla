------------------------------ MODULE SlotPool ------------------------------
(***************************************************************************)
(* What llama-router's admission promises its callers, whatever its queue  *)
(* does: each model has a fixed number of slots; a thread takes a free     *)
(* slot only when nobody wants one of that model; a slot given back goes   *)
(* to a thread that wants it in the same step, if there is one; a thread   *)
(* may give up wanting.  Admission implements this module.                 *)
(***************************************************************************)
EXTENDS Integers, FiniteSets

CONSTANTS Threads, Models, NoModel, Slots

VARIABLES
    owns,   \* the model whose slot a thread owns, or NoModel
    wants   \* the model a blocked thread waits for, or NoModel

poolVars == <<owns, wants>>

Owners(m) == {t \in Threads : owns[t] = m}

Wanting(m) == {t \in Threads : wants[t] = m}

Init ==
    /\ owns = [t \in Threads |-> NoModel]
    /\ wants = [t \in Threads |-> NoModel]

Free(t) == owns[t] = NoModel /\ wants[t] = NoModel

Take(t, m) ==
    /\ Free(t)
    /\ Cardinality(Owners(m)) < Slots
    /\ Wanting(m) = {}
    /\ owns' = [owns EXCEPT ![t] = m]
    /\ UNCHANGED wants

Want(t, m) ==
    /\ Free(t)
    /\ Cardinality(Owners(m)) = Slots
    /\ wants' = [wants EXCEPT ![t] = m]
    /\ UNCHANGED owns

GiveUp(t) ==
    /\ wants[t] # NoModel
    /\ wants' = [wants EXCEPT ![t] = NoModel]
    /\ UNCHANGED owns

HandOver(t, u) ==
    /\ owns[t] # NoModel
    /\ wants[u] = owns[t]
    /\ owns' = [owns EXCEPT ![t] = NoModel, ![u] = owns[t]]
    /\ wants' = [wants EXCEPT ![u] = NoModel]

GiveBack(t) ==
    /\ owns[t] # NoModel
    /\ Wanting(owns[t]) = {}
    /\ owns' = [owns EXCEPT ![t] = NoModel]
    /\ UNCHANGED wants

Next ==
    \E t \in Threads :
        \/ \E m \in Models : Take(t, m) \/ Want(t, m)
        \/ \E u \in Threads : HandOver(t, u)
        \/ GiveUp(t)
        \/ GiveBack(t)

Spec == Init /\ [][Next]_poolVars
=============================================================================
