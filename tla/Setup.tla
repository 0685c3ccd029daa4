------------------------------- MODULE Setup -------------------------------
(***************************************************************************)
(* The first run in a repository: conductor_setup detects what the         *)
(* checkout builds with, asks the two questions that have no default,      *)
(* proves the answers against the model server, and writes the config      *)
(* every later run is held to (conductor/adapter/tools.ts, config-io.ts,   *)
(* router-client.ts; conductor/plugin/index.ts).                           *)
(*                                                                         *)
(* The proofs are requests over the network, so prompts, edits of the      *)
(* config, deaths of the router and of the model server all fall between   *)
(* the moment setup is admitted and the moment it writes.  The plugin      *)
(* opens the workspace once per process and keeps what it read.            *)
(*                                                                         *)
(* Files are known by their kind, the extension or the whole name that a   *)
(* coverage glob is made from; an ecosystem owns the kind of its name.     *)
(* Left out: the walk's bound and the trees it does not enter, proposals   *)
(* and notes, wording, and two setup calls at once.                        *)
(***************************************************************************)
EXTENDS Naturals, FiniteSets

CONSTANTS
    Ecosystems,     \* the manifests detection knows
    FileKinds,      \* kinds of files, the ecosystems' own among them
    Unmatchable,    \* kinds whose name no glob can be derived from
    Checkouts,      \* [markers, missing : SUBSET Ecosystems, files : SUBSET FileKinds]
    Answers,        \* [mode, paths, init, acknowledges] as a caller may answer
    Upstreams,      \* [up, honours : BOOLEAN, models : a set, slots : Nat]
    WantedModels,   \* what the session's environment may name, Nil included
    Readers,        \* parallel.maxReaders of the default config
    Absent, Corrupt,  \* no config file, and one that cannot be read
    Nil

ASSUME SetupAssumption ==
    /\ Ecosystems \subseteq FileKinds /\ Unmatchable \subseteq FileKinds \ Ecosystems
    /\ IsFiniteSet(Ecosystems) /\ Readers \in Nat \ {0}
    /\ \A a \in Answers : a.acknowledges \in BOOLEAN
    /\ \A u \in Upstreams : IsFiniteSet(u.models) /\ Nil \notin u.models
    /\ \A c \in Checkouts : /\ c.markers \subseteq Ecosystems
                            /\ c.missing \subseteq Ecosystems
                            /\ c.files \subseteq FileKinds

VARIABLES
    checkout,   \* the files of the repository and the commands this machine has
    versioned,  \* it is a git repository
    config,     \* .conductor/config.json: Absent, Corrupt or a config
    opened,     \* the workspace this process keeps: Nil or what it read
    liveRun,    \* the current run: "none", "live", "over" or "unreadable"
    latched,    \* failoverState.useUpstream of this process
    failovers,  \* failoverState.failovers
    routerUp,   \* the router answers
    upstream,   \* the model server as it stands
    wanted,     \* the model the session's environment names, or Nil
    setup,      \* the call in progress
    probes,     \* its requests, by reader
    told,       \* how the last call ended
    steady,     \* history: the model server was good all through the call
    turned,     \* history: the router answered a request of the call with an error
    onRecord    \* history: what the config.updated record of the config on
                \* disk says was acknowledged, Nil when it has no record

placeVars == <<checkout, versioned, config, opened, liveRun>>
worldVars == <<routerUp, upstream, wanted>>
callVars == <<setup, probes, told, steady, turned, onRecord>>
setupVars == <<placeVars, latched, failovers, worldVars, callVars>>

-----------------------------------------------------------------------------
(* Detection.                                                              *)

\* The ecosystems whose manifest is there.
Detected == checkout.markers

\* Files an ecosystem that was detected owns.
Sources == checkout.files \cap Detected

\* Kinds nothing detected owns and a coverage glob can be made for.
Unowned == checkout.files \ (Detected \cup Unmatchable)

\* A slip: each ecosystem's glob is left as detected, and nothing covers the
\* files that belong to none.
OwnedOnly ==
    [e \in Detected |->
        IF Cardinality(Detected) = 1 THEN FileKinds ELSE {e}]

\* One scope per ecosystem, with the kinds that owe it: every kind when there
\* is one ecosystem, otherwise its own and all that belong to none.
RequiredScopes ==
    [e \in Detected |->
        IF Cardinality(Detected) = 1 THEN FileKinds ELSE {e} \cup Unowned]

\* A slip: what the widened globs match counts as source too.
CoversRouted(paths) ==
    IF Sources = {} THEN paths # {} ELSE paths \cap (Sources \cup Unowned) # {}

\* The answered paths make some source behavioural; with no source to judge
\* on, they must at least name something.
Covers(paths) ==
    IF Sources = {} THEN paths # {} ELSE paths \cap Sources # {}

-----------------------------------------------------------------------------
(* The config and its readers.                                             *)

Config(mode, paths, scopes, model, rules) ==
    [mode |-> mode, paths |-> paths, scopes |-> scopes, model |-> model,
     rules |-> rules, author |-> "setup"]

\* The config in force when a repository has none.
DefaultConfig == Config("read-only", FileKinds, [e \in {} |-> {}], Nil, "none")

IsConfig(c) == c \notin {Absent, Corrupt}

\* The format rules a new config inherits: "none", or some whose commands
\* "fail" to start.
RulesOf(c) == IF IsConfig(c) THEN c.rules ELSE "none"

\* The commands of an ecosystem, or what stands in for them, can be started.
Starts(e) == e \notin checkout.missing

\* Every command the config would hold starts on this machine, the format
\* rules it inherits included.
Smoked ==
    /\ \A e \in Detected : Starts(e)
    /\ RulesOf(config) # "fail"

\* loadConfig: absent is not an error, corrupt always is.  Of what is kept, the
\* git mode stands for all the gates read.
Load(c) ==
    IF c = Absent THEN [mode |-> DefaultConfig.mode, repoConfigured |-> FALSE]
    ELSE [mode |-> c.mode, repoConfigured |-> TRUE]

\* ensureWorkspace: what this process has opened stays; a config that cannot
\* be read leaves nothing opened and is tried again.
Opened == IF opened = Nil /\ config # Corrupt THEN Load(config) ELSE opened

-----------------------------------------------------------------------------
(* Requests.                                                               *)

\* A request is idle, on its way to the router, to the upstream, or to the
\* upstream after the router failed it; then served, refused or lost.
Travelling == {"router", "upstream", "second"}
ProbeStates == Travelling \cup {"idle", "served", "refused", "lost"}

Readings == 1..Readers

\* resolveBaseUrl over the latch.
Origin(isLatched) == IF isLatched THEN "upstream" ELSE "router"

Quiet == [r \in Readings |-> "idle"]
Single(isLatched) == [Quiet EXCEPT ![1] = Origin(isLatched)]
Together(isLatched) == [r \in Readings |-> Origin(isLatched)]

\* What can come back: a router that stands relays the upstream, is too slow,
\* or answers an error of its own (its queue is full or the wait in it too
\* long, router.hpp:757; it cannot start a relay, 885; it cannot reach the
\* upstream); a dead one loses the request, as does a dead upstream.
Replies(probe) ==
    IF probe = "router"
    THEN {"lost"} \cup IF ~routerUp THEN {}
                       ELSE {"refused"} \cup IF upstream.up THEN {"served"} ELSE {}
    ELSE {IF upstream.up THEN "served" ELSE "lost"}

\* A slip: a request that finds the latch already set takes its own failure
\* for an answer.
AfterTheFirst(probe, reply) ==
    IF reply = "lost" /\ probe = "router" /\ ~latched THEN "second" ELSE reply

\* setupProofRequest after a reply: a request the router lost goes to the
\* upstream, whoever set the latch; one the upstream lost has nowhere to go,
\* and any answer is taken for one, an error of the router's own included.
After(probe, reply) ==
    IF reply = "lost" /\ probe = "router" THEN "second" ELSE reply

\* The first failure of the router is noted, the others find the latch; an
\* error it answers is no failure.
NoteFailure(probe, reply) ==
    LET fails == reply = "lost" /\ probe = "router"
    IN /\ turned' = (turned \/ reply = "refused")
       /\ latched' = (latched \/ fails)
       /\ failovers' = IF fails /\ ~latched THEN failovers + 1 ELSE failovers

-----------------------------------------------------------------------------
(* The call.                                                               *)

NoCall == [phase |-> "none"]

\* Legality: a configured repository needs reconfigure, a reconfiguration
\* needs that no run is known to be live.
MaySetUp(reconfigure) ==
    /\ IsConfig(config) => reconfigure
    /\ reconfigure => liveRun \in {"none", "over"}

\* Every ask is answered: the repository first, then the mode, where git is
\* there to have one, and the paths.
AllAnswered(a, isRepo) ==
    /\ isRepo \/ a.init # Nil
    /\ isRepo => a.mode # Nil
    /\ a.paths # Nil

\* The model server would pass every proof.
Good(u) ==
    /\ u.up /\ u.honours /\ u.slots >= Readers
    /\ IF wanted = Nil THEN Cardinality(u.models) = 1 ELSE wanted \in u.models

\* handleSetup up to the first request.  The gate hook ran before it and
\* opened the workspace; a repository initialised stays so when a later check
\* ends the call.
BeginSetup(reconfigure, a) ==
    /\ setup = NoCall /\ MaySetUp(reconfigure)
    /\ opened' = Opened
    /\ versioned' = (versioned \/ a.init = "initialize")
    /\ IF /\ AllAnswered(a, versioned') /\ Smoked
          /\ Detected # {}
          /\ Covers(a.paths) \/ a.acknowledges
       THEN /\ setup' = [phase |-> "models", answers |-> a, failed |-> FALSE,
                         rules |-> RulesOf(config), noGit |-> ~versioned', model |-> Nil]
            /\ probes' = Single(latched)
            /\ told' = "none" /\ steady' = Good(upstream) /\ turned' = FALSE
       ELSE told' = "unconfigured" /\ UNCHANGED <<setup, probes, steady, turned>>
    /\ UNCHANGED <<checkout, config, liveRun, latched, failovers, worldVars, onRecord>>

\* The model to run: the one the session names, or the only one served.
Choice(models) ==
    IF wanted # Nil THEN IF wanted \in models THEN wanted ELSE Nil
    ELSE IF Cardinality(models) = 1 THEN CHOOSE m \in models : TRUE ELSE Nil

\* The next phase of the call with its requests sent.
NextPhase(phase, model, failed) ==
    /\ setup' = [setup EXCEPT !.phase = phase, !.model = model, !.failed = failed]
    /\ probes' = CASE phase = "schema" -> Single(latched')
                   [] phase = "slots" -> Together(latched')
                   [] OTHER -> Quiet

\* A reply to the request for the models served, or to the schema probe.  A
\* call without a model skips the probe and the readers.
SingleReply ==
    /\ setup.phase \in {"models", "schema"}
    /\ \E reply \in Replies(probes[1]) :
          LET next == After(probes[1], reply)
              served == IF next = "served" THEN Choice(upstream.models) ELSE Nil
          IN /\ NoteFailure(probes[1], reply)
             /\ IF next \in Travelling
                THEN probes' = [probes EXCEPT ![1] = next] /\ UNCHANGED setup
                ELSE IF setup.phase = "models"
                THEN NextPhase(IF served = Nil THEN "props" ELSE "schema", served,
                             served = Nil)
                ELSE NextPhase("slots", setup.model,
                             setup.failed \/ next # "served" \/ ~upstream.honours)
    /\ UNCHANGED <<placeVars, worldVars, told, steady, onRecord>>

\* A reader of the slot proof resumes; the last one ends the fan-out.
ReaderReply(r) ==
    /\ setup.phase = "slots" /\ probes[r] \in Travelling
    /\ \E reply \in Replies(probes[r]) :
          LET now == [probes EXCEPT ![r] = After(probes[r], reply)]
          IN /\ NoteFailure(probes[r], reply)
             /\ IF \E q \in Readings : now[q] \in Travelling
                THEN probes' = now /\ UNCHANGED setup
                ELSE NextPhase("props", setup.model,
                             setup.failed \/ \E q \in Readings : now[q] # "served")
    /\ UNCHANGED <<placeVars, worldVars, told, steady, onRecord>>

\* The config the answers and the proofs make.  Only the format rules of the
\* config that was there at the start are carried over.
Candidate ==
    LET a == setup.answers
    IN Config(IF setup.noGit THEN "read-only" ELSE a.mode, a.paths,
              RequiredScopes, setup.model,
              setup.rules)

\* The slot count, which only the model server itself publishes.
EnoughSlots == upstream.up /\ upstream.slots >= Readers

\* The slot count is read and the call ends: the config is written when every proof held, and then the
\* answers are recorded, unless the process dies between.
FinishSetup(dies) ==
    /\ setup.phase = "props"
    /\ IF setup.failed \/ ~EnoughSlots
       THEN ~dies /\ told' = "unproved" /\ UNCHANGED <<config, onRecord>>
       ELSE told' = "written" /\ config' = Candidate
            /\ onRecord' = IF dies THEN Nil ELSE setup.answers.acknowledges
    /\ setup' = NoCall /\ probes' = Quiet
    /\ opened' = (IF dies THEN Nil ELSE opened)
    /\ latched' = (latched /\ ~dies) /\ failovers' = (IF dies THEN 0 ELSE failovers)
    /\ UNCHANGED <<checkout, versioned, liveRun, worldVars, steady, turned>>

-----------------------------------------------------------------------------
(* Around the call.                                                        *)

\* A prompt opens the workspace and, in one that opened, starts a run when
\* none is live.
Prompt ==
    /\ opened' = Opened
    /\ liveRun' = IF Opened # Nil /\ liveRun \in {"none", "over"} THEN "live" ELSE liveRun
    /\ UNCHANGED <<checkout, versioned, config, latched, failovers, worldVars, callVars>>

\* A run ends.
RunEnds ==
    /\ liveRun = "live" /\ liveRun' = "over"
    /\ UNCHANGED <<checkout, versioned, config, opened, latched, failovers,
                   worldVars, callVars>>

\* Somebody edits the config by hand, badly or well, or deletes it.
HandEdit ==
    /\ IsConfig(config)
    /\ config' \in {Absent, Corrupt, [config EXCEPT !.rules = "fail", !.author = "hand"]}
    /\ onRecord' = Nil
    /\ UNCHANGED <<checkout, versioned, opened, liveRun, latched, failovers, worldVars,
                   setup, probes, told, steady, turned>>

\* The process ends and another begins: nothing it kept survives.
NewProcess ==
    /\ opened' = Nil /\ latched' = FALSE /\ failovers' = 0
    /\ setup' = NoCall /\ probes' = Quiet /\ told' = "none"
    /\ UNCHANGED <<checkout, versioned, config, liveRun, worldVars, steady, turned, onRecord>>

\* The router dies, or its supervisor brings it back.
RouterTurns ==
    /\ routerUp' = ~routerUp
    /\ UNCHANGED <<placeVars, latched, failovers, upstream, wanted, callVars>>

\* The model server goes or comes back, perhaps with something else to serve.
UpstreamTurns ==
    /\ upstream' \in Upstreams \ {upstream}
    /\ steady' = FALSE
    /\ UNCHANGED <<placeVars, latched, failovers, routerUp, wanted, setup, probes, told,
                   turned, onRecord>>

SetupInit ==
    /\ checkout \in Checkouts
    /\ versioned \in BOOLEAN
    /\ config = Absent
    /\ liveRun \in {"none", "unreadable"}
    /\ routerUp = TRUE
    /\ upstream \in Upstreams
    /\ wanted \in WantedModels
    /\ opened = Nil /\ latched = FALSE /\ failovers = 0
    /\ setup = NoCall /\ probes = Quiet
    /\ told = "none" /\ steady = FALSE /\ turned = FALSE /\ onRecord = Nil

SetupNext ==
    \/ \E reconfigure \in BOOLEAN, a \in Answers : BeginSetup(reconfigure, a)
    \/ SingleReply
    \/ \E r \in Readings : ReaderReply(r)
    \/ \E dies \in BOOLEAN : FinishSetup(dies)
    \/ Prompt \/ RunEnds \/ HandEdit \/ NewProcess \/ RouterTurns \/ UpstreamTurns

SetupSpec == SetupInit /\ [][SetupNext]_setupVars

-----------------------------------------------------------------------------
(* What is checked.                                                        *)

\* A dead or slow router fails no setup: where the model server stood, good
\* for every proof, from the beginning of the call to its end, and the router
\* answered no request of the call with an error of its own, the call is not
\* told that a proof failed, however the readers that the router let down
\* resume around the latch (tools.ts setupProofRequest).
OutageFailsNoSetup == told = "unproved" => ~steady \/ turned

\* What the config still lacks: nothing, but for kinds no glob names in a
\* repository of several ecosystems.
LeftUncovered ==
    {f \in checkout.files : \A e \in DOMAIN config.scopes : f \notin config.scopes[e]}
        \ (IF Cardinality(Detected) > 1 THEN Unmatchable ELSE {})

\* A config setup wrote can carry a run: every file owes some scope that can
\* test it, some source is behavioural unless the record says that it was
\* acknowledged (or the process died before the record), and only a
\* repository is given a mode that commits (tools.ts handleSetup).
TheConfigIsVouchedFor ==
    IsConfig(config) /\ config.author = "setup" =>
        /\ LeftUncovered = {}
        /\ \/ Sources = {} /\ config.paths # {}
           \/ config.paths \cap Sources # {}
           \/ onRecord = Nil
           \/ onRecord = TRUE
        /\ config.mode # "read-only" => versioned

\* "ONE derivation [...] so the gate's repoConfigured and this handler can
\* never disagree" (tools.ts setupCurrentConfig): what the process keeps of
\* the repository says that it is configured exactly when the config does.
GateAndSetupAgree ==
    opened # Nil => opened.repoConfigured = IsConfig(config)
=============================================================================
