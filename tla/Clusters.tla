------------------------------ MODULE Clusters ------------------------------
(* How many things an item of the queue is about: the acceptance clusters that *)
(* `validateQueue` counts and refuses above one (conductor/core/planning.ts,   *)
(* `acceptanceClusters`), while a planner writes an item's criteria one by one.*)
(*                                                                             *)
(* A criterion is a sequence of clauses; a clause is its words without the     *)
(* determiners, and what the patterns of the module read off its prose:        *)
(* whether it promises that something does not change (`guard`), whether it    *)
(* has a finite verb, whether it is passive, and the agent its "by" names.     *)
(* A word has a kind:                                                          *)
(*   file     a path or file name of a file the item declares                  *)
(*   stem     a bare identifier that is the stem of such a file                *)
(*   land     a path inside a directory glob the item declares                 *)
(*   path     a path the item does not declare                                 *)
(*   name     a word with the marks of a name: call syntax, camel case, ...    *)
(*   word     any other word that may be a subject                             *)
(*   weak     a number, gerund, preposition, generic noun, "there", ...        *)
(*   not      a negation                                                       *)
EXTENDS Naturals, Sequences, FiniteSets, SequencesExt

CONSTANTS
    WordKind,    \* word -> kind
    Declared,    \* a file, stem or land -> the entry of the item's scopes it falls under
    FileScope,   \* the entries of its file scope; the others are of its test scope
    Criteria,    \* the criteria a planner may write
    MaxCriteria  \* a bound

VARIABLE acceptance  \* the item's criteria, in their order

NoSubject == "nobody"
SubjectWindow == 3
ClauseMinTokens == 3

Vocabulary == DOMAIN WordKind
OfKinds(kinds) == {w \in Vocabulary : WordKind[w] \in kinds}
FileWords == OfKinds({"file", "stem"})
DeclaredFiles == {Declared[w] : w \in FileWords}
Directories == {Declared[w] : w \in OfKinds({"land"})}
Clauses ==
    [words : Seq(Vocabulary), guard : BOOLEAN, verb : BOOLEAN, passive : BOOLEAN,
     agent : Vocabulary \cup {NoSubject}]

\* A directory glob is no file, and neither is a word of a criterion.
ASSUME ClustersAssumption ==
    /\ \A w \in Vocabulary :
          WordKind[w] \in {"file", "stem", "land", "path", "name", "word", "weak", "not"}
    /\ NoSubject \notin Vocabulary \cup DeclaredFiles
    /\ Directories \cap (Vocabulary \cup DeclaredFiles) = {}
    /\ Criteria \subseteq Seq(Clauses) /\ <<>> \notin Criteria
    /\ MaxCriteria \in Nat

\* The first and the last of a set of places.
FirstAt(places) == CHOOSE k \in places : \A j \in places : k <= j
LastAt(places) == CHOOSE k \in places : \A j \in places : j <= k
\* The first of the first n words of a text that is one of these, or NoSubject.
FirstOf(text, n, these) ==
    LET at == {k \in DOMAIN text : k <= n /\ text[k] \in these}
    IN  IF at = {} THEN NoSubject ELSE text[FirstAt(at)]
-----------------------------------------------------------------------------
(* Words.                                                                      *)

\* nameMarked, corroborated.
NameMarked == OfKinds({"file", "land", "path", "name"})
Corroborated == OfKinds({"file", "stem", "land"})

\* resolveFile: the file a word names.
ResolveFile(w) ==
    CASE w \in FileWords -> Declared[w]
      [] w \in OfKinds({"land", "path"}) -> w
      [] OTHER -> NoSubject
-----------------------------------------------------------------------------
(* Criteria.                                                                   *)

\* clauseTokens of a criterion: the words of its clauses.
Words(c) ==
    LET upto[k \in 0..Len(c)] == IF k = 0 THEN <<>> ELSE upto[k - 1] \o c[k].words
    IN  upto[Len(c)]

\* preservationClaim.
PreservationClaim(c) == \E k \in DOMAIN c : c[k].guard

\* criterionSubject: a word the item's scope corroborates, a head that is a name,
\* a head the grammar leaves standing, the agent of a passive, a name further on.
CriterionSubject(clause) ==
    LET text == clause.words
        declared == FirstOf(text, SubjectWindow, Corroborated)
        stands == ~clause.passive /\ WordKind[Head(text)] # "weak"
    IN  IF text = <<>> THEN NoSubject
        ELSE IF declared # NoSubject THEN declared
        ELSE IF Head(text) \in NameMarked \/ stands THEN Head(text)
        ELSE IF clause.passive /\ clause.agent # NoSubject THEN clause.agent
        ELSE FirstOf(text, SubjectWindow, NameMarked)

\* deliverableText: the criterion, or the one clause beside its guards that
\* delivers something; a criterion may only promise that nothing changes.
Delivering(c) ==
    {k \in DOMAIN c :
        /\ ~c[k].guard /\ c[k].verb
        /\ Len(c[k].words) >= ClauseMinTokens
        /\ CriterionSubject(c[k]) # NoSubject}
Delivers(c) == PreservationClaim(c) => Delivering(c) # {}
DeliverableText(c) ==
    IF PreservationClaim(c) THEN c[FirstAt(Delivering(c))] ELSE [c[1] EXCEPT !.words = Words(c)]

Delivered(acc) == [k \in {j \in DOMAIN acc : Delivers(acc[j])} |-> DeliverableText(acc[k])]
-----------------------------------------------------------------------------
(* acceptanceClusters, over the texts that deliver something.                  *)

\* positionalSubjects: the floor when no criterion names a subject.
PositionalSubjects(texts) ==
    {texts[k].words[1] : k \in {j \in DOMAIN texts : texts[j].words # <<>>}}

\* symbolHome: a name beside a file, and in front of any negation, lives in it;
\* the last text that says so counts.
Home(text, w) ==
    LET homes == {k \in DOMAIN text : ResolveFile(text[k]) # NoSubject}
        at == FirstAt(homes)
        beside == \E k \in DOMAIN text :
            /\ text[k] = w /\ WordKind[w] = "name"
            /\ k <= at + SubjectWindow /\ at <= k + SubjectWindow
            /\ \A j \in 1..k : WordKind[text[j]] # "not"
    IN  IF homes # {} /\ beside THEN ResolveFile(text[at]) ELSE NoSubject

SymbolHome(texts, w) ==
    LET says == {k \in DOMAIN texts : Home(texts[k].words, w) # NoSubject}
    IN  IF says = {} THEN NoSubject ELSE Home(texts[LastAt(says)].words, w)

KeyOf(texts, w) ==
    IF ResolveFile(w) # NoSubject THEN ResolveFile(w)
    ELSE IF SymbolHome(texts, w) # NoSubject THEN SymbolHome(texts, w) ELSE w

Subjects(texts) == {CriterionSubject(texts[k]) : k \in DOMAIN texts} \ {NoSubject}

\* Where a text names an entry of the file scope that it has not named before.
NamedAt(text) ==
    {k \in DOMAIN text :
        /\ text[k] \in Corroborated /\ Declared[text[k]] \in FileScope
        /\ \A j \in 1..(k - 1) : text[j] \in Corroborated => Declared[text[j]] # Declared[text[k]]}

\* Mutant: files that are only listed side by side are related too.
RelatedOrListed(named, k) == k # FirstAt(named)

\* An entry is related to the first one named, where a word separates it from the
\* entry in front of it.
Related(named, k) == k # FirstAt(named) /\ k - 1 \notin named

\* One text folds the files it relates onto the first one it names.
FoldText(clusters, text) ==
    LET named == NamedAt(text)
        folded == {Declared[text[k]] : k \in {j \in named : Related(named, j)}}
    IN  IF named # {} /\ Declared[text[FirstAt(named)]] \in clusters THEN clusters \ folded
        ELSE clusters

\* The clusters after the first n criteria have folded theirs.
Folding(texts, clusters, n) ==
    LET after[k \in 0..n] ==
            IF k = 0 THEN clusters
            ELSE IF k \in DOMAIN texts THEN FoldText(after[k - 1], texts[k].words) ELSE after[k - 1]
    IN  after

AcceptanceClusters(acc) ==
    LET texts == Delivered(acc)
        clusters == {KeyOf(texts, w) : w \in Subjects(texts)}
    IN  IF clusters = {} THEN PositionalSubjects(texts)
        ELSE IF Cardinality(clusters) < 2 THEN clusters
        ELSE Folding(texts, clusters, Len(acc))[Len(acc)]
-----------------------------------------------------------------------------
ClustersInit == acceptance = <<>>

\* The planner adds a criterion.
WriteCriterion(c) ==
    /\ Len(acceptance) < MaxCriteria
    /\ acceptance' = Append(acceptance, c)

ClustersNext == \E c \in Criteria : WriteCriterion(c)
ClustersSpec == ClustersInit /\ [][ClustersNext]_acceptance
-----------------------------------------------------------------------------
ClusterCount(acc) == Cardinality(AcceptanceClusters(acc))

\* Two files of the file scope that one text names, a word apart.
Tied(texts, f, g) ==
    \E k \in DOMAIN texts : \E i, j \in DOMAIN texts[k].words :
        LET w == texts[k].words IN
        /\ i + 2 <= j
        /\ w[i] \in FileWords /\ w[j] \in FileWords
        /\ {Declared[w[i]], Declared[w[j]]} = {f, g} /\ {f, g} \subseteq FileScope

\* Two files of one group: no set that the ties do not leave parts them.
InOneGroup(texts, f, g) ==
    \A group \in SUBSET DeclaredFiles :
        /\ f \in group
        /\ \A x \in group, y \in DeclaredFiles : Tied(texts, x, y) => y \in group
        => g \in group

\* A planner is never charged for discipline: a criterion that only promises that
\* something does not change does not raise the count.
GuardsCostNothing ==
    ~Delivers(Last(acceptance)) =>
        ClusterCount(acceptance) <= ClusterCount(Front(acceptance))

\* The row keeps its teeth, and charges one thing once: the count is at least the
\* number of groups into which the criteria tie the declared files they are about,
\* it is one when they are about one file only, and it is no larger for what the
\* criteria promise to leave alone.
CountsTheThings ==
    acceptance # <<>> =>
        LET texts == Delivered(acceptance)
            about == {Declared[w] : w \in Subjects(texts) \cap FileWords}
        IN  /\ GuardsCostNothing
            /\ Cardinality(about) = 1 /\ Subjects(texts) \subseteq FileWords =>
                   ClusterCount(acceptance) = 1
            /\ \A parts \in SUBSET about :
                  (\A f, g \in parts : f # g => ~InOneGroup(texts, f, g)) =>
                      ClusterCount(acceptance) >= Cardinality(parts)
=============================================================================
