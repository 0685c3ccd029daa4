---------------------------- MODULE MCQuarantine ----------------------------
(* Values for TLC. *)
EXTENDS Quarantine
=============================================================================
