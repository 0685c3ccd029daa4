----------------------------- MODULE MCClusters -----------------------------
(* Values for the constants of Clusters: three declared files, one of them also *)
(* spelled by its stem, a declared test, a declared directory, an undeclared    *)
(* path, two names and the words between them; the criteria that tell the rules *)
(* of the count apart.                                                          *)
EXTENDS FiniteSets

MCWordKind ==
    [a |-> "file", A |-> "stem", b |-> "file", c |-> "file", t |-> "file", l |-> "land", p |-> "path",
     f |-> "name", g |-> "name", w |-> "word", v |-> "word", of |-> "weak", not |-> "not"]
MCDeclared == [a |-> "a", A |-> "a", b |-> "b", c |-> "c", t |-> "t", l |-> "d"]
MCFileScope == {"a", "b", "c", "d"}

Clause(words, guard, passive, agent) ==
    [words |-> words, guard |-> guard, verb |-> TRUE, passive |-> passive, agent |-> agent]
Does(words) == Clause(words, FALSE, FALSE, "nobody")
Keeps(words) == Clause(words, TRUE, FALSE, "nobody")

\* One file, two files side by side or a word apart, names beside a file and in
\* front of or behind a negation, paths, words that are no subject, and files
\* related to a directory or to a test.
Sentences ==
    {<<"a", "v">>, <<"A", "v">>, <<"b", "v", "w">>, <<"c", "v">>, <<"a", "v", "b">>,
     <<"a", "b", "v">>, <<"b", "v", "c">>, <<"a", "b", "v", "c">>, <<"a", "f", "v">>,
     <<"f", "v">>, <<"f", "v", "not", "g">>, <<"b", "not", "f">>, <<"w", "v", "b">>,
     <<"of", "w">>, <<"of", "f">>, <<"p", "v">>, <<"l", "v">>, <<"g", "v">>,
     <<"l", "v", "b", "v", "c">>, <<"t", "v">>, <<"t", "v", "a">>}

\* Guards alone, guards beside a clause that delivers, and passives.
MCCriteria ==
    {<<Does(words)>> : words \in Sentences}
    \cup {<<Keeps(<<"b", "v">>)>>, <<Keeps(<<"w", "v">>)>>,
          <<Keeps(<<"b", "v">>), Does(<<"c", "v", "w">>)>>,
          <<Keeps(<<"b", "v">>), Does(<<"c", "v">>)>>,
          <<Clause(<<"w", "v">>, FALSE, TRUE, "g")>>,
          <<Clause(<<"w", "v">>, FALSE, TRUE, "nobody")>>}
=============================================================================
