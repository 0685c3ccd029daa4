---------------------------- MODULE MCQuestions ----------------------------
(* Values for TLC. *)
EXTENDS Questions

OneOrigin == {"implementer-blocked"}
Machine == {FALSE}
=============================================================================
