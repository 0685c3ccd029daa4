---------------------------- MODULE MCItemReview ----------------------------
(***************************************************************************)
(* Instances of ItemReview: a spec finding that sets two quality findings  *)
(* aside, a finding routed to the test-writer that names source files      *)
(* only, one that names both halves, one that names no path, and a nit.    *)
(***************************************************************************)
EXTENDS ItemReview

Finding(lens, severity, fix) ==
    [lens |-> lens, severity |-> severity, fix |-> fix, prose |-> {}]

MCRaisable ==
    {Finding("spec/contract", "major", {"file"}),
     Finding("test-adequacy", "minor", {"file"}),
     Finding("minimality", "major", {}),
     Finding("correctness", "minor", {"file", "test"}),
     Finding("perf", "nit", {"file"})}

MCChanges == {{"edited", "blank", "removed", "binary"}, {"created"}, {"emptied", "edited"}}
MCStashes == {<<>>, <<"user">>}
=============================================================================
