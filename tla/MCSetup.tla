------------------------------ MODULE MCSetup ------------------------------
(***************************************************************************)
(* Instances of Setup: a checkout of one ecosystem, one of two with files  *)
(* that belong to neither, one with a manifest and no source yet, and one  *)
(* that nothing recognises.                                                *)
(***************************************************************************)
EXTENDS Setup

MCEcosystems == {"node", "python"}
MCFileKinds == {"node", "python", "doc", "meta"}
MCUnmatchable == {"meta"}

MCCheckouts ==
    {[markers |-> {"node"}, missing |-> {"python"}, files |-> {"node", "doc", "meta"}],
     [markers |-> {"node", "python"}, missing |-> {}, files |-> {"python", "doc", "meta"}],
     [markers |-> {"node"}, missing |-> {}, files |-> {"doc"}],
     [markers |-> {}, missing |-> {}, files |-> {"doc"}]}

\* One checkout is enough to meet a stale workspace.
MCOneCheckout ==
    {[markers |-> {"node"}, missing |-> {}, files |-> {"node", "doc"}]}

MCAnswers ==
    {[mode |-> "commit", paths |-> {"node", "python"}, init |-> Nil, acknowledges |-> FALSE],
     [mode |-> "commit", paths |-> {"doc"}, init |-> "initialize", acknowledges |-> FALSE],
     [mode |-> Nil, paths |-> {}, init |-> "decline", acknowledges |-> TRUE]}

MCUpstreams ==
    {[up |-> TRUE, honours |-> TRUE, models |-> {"weights"}, slots |-> 2],
     [up |-> TRUE, honours |-> TRUE, models |-> {"weights", "others"}, slots |-> 1],
     [up |-> FALSE, honours |-> FALSE, models |-> {}, slots |-> 0]}

MCWantedModels == {Nil, "weights"}
=============================================================================
