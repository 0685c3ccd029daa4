------------------------------ MODULE MCRouter ------------------------------
(* Small instances of Router and of Ledger for TLC, in one run: a behaviour   *)
(* explores one of the two (`part`) and leaves the other as it started.       *)
EXTENDS Router, Ledger, TLC

VARIABLE part

BothInit == part \in {"requests", "lines"} /\ RouterInit /\ LedgerInit

BothNext ==
    /\ UNCHANGED part
    /\ \/ part = "requests" /\ RouterNext /\ UNCHANGED ledgerVars
       \/ part = "lines" /\ LedgerNext /\ UNCHANGED RouterVars

BothSpec == BothInit /\ [][BothNext]_<<part, RouterVars, ledgerVars>> /\ RouterFairness

MCOnePriority == [interactive |-> 0]
=============================================================================
