------------------------------ MODULE MCFanout ------------------------------
(* Values for TLC: four jobs, two models, two trees. *)
EXTENDS Fanout

MCModels == <<"a", "b", "a", "a">>
MCOneModel == <<"a", "a", "a">>
MCTrees == <<"main", "main", "item", "main">>
=============================================================================
