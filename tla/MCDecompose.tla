---------------------------- MODULE MCDecompose ----------------------------
(* Values for the constants of Decompose: two families of queues, one of two   *)
(* items on overlapping territory, one of three items with any dependencies.   *)
EXTENDS Naturals, Sequences

MCNames == {"a", "b", "d"}
MCTree == {<<"a">>, <<"d", "a">>, <<"d", "d">>, <<"d", "d", "a">>}

RootFile == {<<"a">>}
DeepFile == {<<"d", "a">>}
DeepTest == {<<"d", "d">>}
FileGlobs ==
    {RootFile, DeepFile, {<<"d", "*">>}, {<<"d", "**">>}, {<<"d", "a">>, <<"d", "d">>},
     {<<"**", "a">>}}

\* "**/a"; "d/**" and "*"; and "{d/**,a}", whose braces mix depths.
MCBehavioralSets == {{{<<"**", "a">>}}, {{<<"d", "**">>}, {<<"*">>}}, {{<<"d", "**">>, <<"a">>}}}

Entry(id, deps, scope, tests, sound) ==
    [id |-> id, deps |-> deps, scope |-> scope, tests |-> tests, behavioral |-> tests # {},
     sound |-> sound]

Territories ==
    {<<Entry("i1", {}, {g}, t, TRUE), Entry("i2", {"i1"}, {h}, {}, TRUE)>> :
        g \in FileGlobs, h \in FileGlobs,
        t \in {{}, {RootFile}, {DeepTest}, {{<<"d", "*">>}}}}
    \cup {<<Entry("i1", {}, {g}, {}, TRUE)>> : g \in FileGlobs}

\* The three items' own files are apart; a chain that is not sound is judged for
\* its cycles and never accepted.
Chain(x, y, z, sound) ==
    <<Entry("i1", x, {RootFile}, {DeepTest}, TRUE),
      Entry("i2", y, {DeepFile}, {{<<"d", "d", "d">>}}, TRUE),
      Entry("i3", z, {{<<"b", "a">>}}, {{<<"b", "d">>}}, sound)>>
SubsetsOfThree == SUBSET {"i1", "i2", "i3"}

\* Two entries of one id, one of them with an edge to an item that is not there.
Twins ==
    {<<Entry("i1", x, {RootFile}, {DeepTest}, TRUE), Entry("i1", y, {DeepFile}, {DeepTest}, TRUE),
       Entry("i2", z, {{<<"b", "a">>}}, {{<<"b", "d">>}}, TRUE)>> :
        x \in SUBSET {"i1", "i2"}, y \in SUBSET {"i2", "i3"}, z \in SUBSET {"i1", "i2"}}

MCProposals ==
    Territories \cup Twins \cup {<<>>, Chain({}, {"i1"}, {"i1"}, TRUE)}
    \cup {Chain(x, y, z, FALSE) : x \in SubsetsOfThree, y \in SubsetsOfThree, z \in SubsetsOfThree}

\* Amendments of i1 (gone, reborn elsewhere, moved, rewritten) and a fourth item.
Retire == [op |-> "remove", id |-> "i1"]
Elsewhere == Entry("i1", {}, {{<<"b", "b">>}}, {{<<"b", "d">>}}, TRUE)
AddAgain == [op |-> "add", id |-> "i1", entry |-> Elsewhere]
Move == [op |-> "update", id |-> "i1", entry |-> Elsewhere]
Rewrite == [op |-> "update", id |-> "i1",
            entry |-> Entry("i1", {}, {RootFile}, {DeepTest}, TRUE)]
AddFourth == [op |-> "add", id |-> "i4",
              entry |-> Entry("i4", {"i2"}, {{<<"d", "b">>}}, {{<<"d", "d">>}}, TRUE)]
MCOpLists ==
    {<<Move>>, <<Rewrite>>, <<Retire, AddAgain>>, <<Retire, AddAgain, Move>>,
     <<Retire, AddAgain, Retire>>, <<Retire>>, <<AddFourth>>, <<AddFourth, Retire, AddAgain>>,
     <<Rewrite, Retire>>}

MCFindings ==
    {[kind |-> "path", path |-> p] :
        p \in {<<"d", "a">>, <<"d", "d">>, <<"d", "d", "a">>, <<"b", "a">>}}
    \cup {[kind |-> "name", path |-> <<"a">>], [kind |-> "id", id |-> "i1"],
          [kind |-> "directory"], [kind |-> "wildcard"]}
=============================================================================
