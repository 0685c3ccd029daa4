---------------------------- MODULE MCItemStages ----------------------------
(* Values for TLC. *)
EXTENDS ItemStages

TwoItems == {1, 2}
Independent == [i \in TwoItems |-> {}]
Either == {TRUE, FALSE}
=============================================================================
