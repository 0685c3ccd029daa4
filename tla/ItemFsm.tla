------------------------------- MODULE ItemFsm -------------------------------
(***************************************************************************)
(* What becomes of an item, whatever the handlers do: the state machine of *)
(* core/fsm-item.ts, its blocks and its dependencies.  An item goes along  *)
(* its chain one state at a time, not while a question blocks it, and not  *)
(* before the items it depends on are published.  Two writes go past the   *)
(* table: the drop of a reviewed item whose closing verify is red, and the *)
(* red of a test whose item was blocked meanwhile.  ItemStages implements  *)
(* this module.                                                            *)
(***************************************************************************)
CONSTANTS
    Items,
    Behavioral,   \* the items that owe a proven red first
    DependsOn     \* item -> the items it depends on

VARIABLES
    state,        \* item.state
    blocked       \* items with item.blocked # null

itemVars == <<state, blocked>>

\* The one successor the table has for the state of item i.
Successor(i) ==
    CASE state[i] = "PENDING" -> IF i \in Behavioral THEN "RED" ELSE "GREEN"
      [] state[i] = "RED" -> "TEST_VETTED"
      [] state[i] = "TEST_VETTED" -> "GREEN"
      [] state[i] = "GREEN" -> "VALIDATED"
      [] state[i] = "VALIDATED" -> "REVIEWED"
      [] state[i] = "REVIEWED" -> "PUBLISHED"
      [] OTHER -> state[i]

\* Nothing below PUBLISHED unlocks a dependent.
Unlocked(i) == \A j \in DependsOn[i] : state[j] = "PUBLISHED"

ItemsInit ==
    /\ state = [i \in Items |-> "PENDING"]
    /\ blocked = {}

Transition(i) ==
    /\ i \notin blocked
    /\ Unlocked(i)
    /\ state[i] # "PUBLISHED"
    /\ state' = [state EXCEPT ![i] = Successor(i)]
    /\ UNCHANGED blocked

\* demoteReviewedToGreen(): an administrative write, no edge of the table.
Demote(i) ==
    /\ i \notin blocked
    /\ Unlocked(i)
    /\ state[i] = "REVIEWED"
    /\ state' = [state EXCEPT ![i] = "GREEN"]
    /\ UNCHANGED blocked

\* redAdmission() asks the table without the block that the item may have by now.
LateRed(i) ==
    /\ i \in blocked \cap Behavioral
    /\ Unlocked(i)
    /\ state[i] = "PENDING"
    /\ state' = [state EXCEPT ![i] = "RED"]
    /\ UNCHANGED blocked

Block(i) == blocked' = blocked \cup {i} /\ UNCHANGED state

Unblock(i) == blocked' = blocked \ {i} /\ UNCHANGED state

ItemsNext ==
    \E i \in Items : Transition(i) \/ Demote(i) \/ LateRed(i) \/ Block(i) \/ Unblock(i)

ItemsSpec == ItemsInit /\ [][ItemsNext]_itemVars
-----------------------------------------------------------------------------
\* Work on an item starts after all it depends on is published, and what is published
\* stays so: no demotion, kill or late reply pulls a dependency from under an item.
DependenciesFirst == \A i \in Items : state[i] # "PENDING" => Unlocked(i)
=============================================================================
