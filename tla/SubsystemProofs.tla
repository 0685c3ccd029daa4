------------------------- MODULE SubsystemProofs -------------------------
(***************************************************************************)
(* Proofs about the parts of the system that share no state: what the      *)
(* starters, the watchdog and the supervisor leave behind (Serving), what  *)
(* a campaign counts (Campaign), what a download installs (Fetch), when    *)
(* the idle engine stops a run (Idle), what the evidence ledger numbers    *)
(* (Evidence), when a setup may fail (Setup), what the approval of an      *)
(* item's review is of (ItemReview), what a run may do next (Legality),    *)
(* and which calls run outside the lane of their session (Gates).          *)
(***************************************************************************)
EXTENDS Serving, Campaign, Fetch, Idle, Evidence, Setup, ItemReview, Legality, Gates, IntegerSets,
        FiniteSetTheorems, TLAPS

-----------------------------------------------------------------------------
(* The model's processes: Serving.                                          *)

Steps == {"start", "waiting", "window", "probing", "wiring", "handed", "shell", "leaving",
          "prompted", "measuring", "terminating", "gone"}
Endings == {"none", "refused", "raised", "interrupted", "killed", "done"}

ServingTypes ==
    /\ mode \in {"session", "campaign"} /\ mine \in BOOLEAN /\ plan \in {"launch", "direct"}
    /\ driver \in Steps
    /\ exit \in [how : Endings, at : Steps]
    /\ server \in {"none", "loading", "up", "asked", "gone"}
    /\ watchdog \in {"none", "watching", "killing", "gone"}
    /\ supervisor \in {"none", "spawning", "watching", "waiting", "stopping", "gone"}
    /\ relay \in {"none", "up", "asked", "gone"}
    /\ code \in {"clean", "fatal", "crash"}
    /\ crashes \in Nat
    /\ conf \in [Keys -> {"none", "old", "new"}] /\ heard \in [Keys -> {"none", "old", "new"}]
    /\ routed \in {"undecided", "router", "direct"}

\* Nothing but the server is started before the driver's window, and where the session
\* points is decided by the end of the probe.
StartsInOrder ==
    /\ driver = "start" /\ mine => server = "none"
    /\ driver \in {"start", "waiting", "window"} => supervisor = "none" /\ relay = "none"
    /\ driver \in {"start", "waiting", "window", "probing"} => routed = "undecided"

\* A campaign has no watchdog, and no watchdog acts while its driver lives.
WatchdogIsPatient ==
    /\ mode = "campaign" => watchdog = "none"
    /\ Alive => watchdog \in {"none", "watching"}

\* A server that was found is only ever measured.
FoundIsOnlyUsed == ~mine => mode = "campaign" /\ driver \in {"start", "measuring", "gone"}

\* Whoever starts a router has written this start's keys.
RouterIsConfigured ==
    /\ supervisor \in {"spawning", "watching", "waiting"} => \A k \in MachineKeys : conf[k] = "new"
    /\ RouterKnowsItsServer

ServingInv ==
    /\ ServingTypes
    /\ StartsInOrder /\ WatchdogIsPatient /\ FoundIsOnlyUsed /\ RouterIsConfigured
    /\ NothingIsLeftRunning

\* A configuration that was merged carries this start's keys.
LEMMA MergedIsOurs ==
    ASSUME NEW c \in [Keys -> {"none", "old", "new"}], NEW fresh \in BOOLEAN
    PROVE  /\ Merged(c, fresh) \in [Keys -> {"none", "old", "new"}]
           /\ \A k \in MachineKeys : Merged(c, fresh)[k] = "new"
BY DEF Merged, Generated, Keys, MachineKeys

LEMMA ServingInvInit == ServingInit => ServingInv
<1> SUFFICES ASSUME ServingInit PROVE ServingInv
    OBVIOUS
<1>1. plan \in {"launch", "direct"}
    BY DEF ServingInit, Preflight
<1>2. ServingTypes
    BY <1>1 DEF ServingInit, ServingTypes, Steps, Endings, NoConf
<1>3. StartsInOrder /\ WatchdogIsPatient /\ FoundIsOnlyUsed /\ RouterIsConfigured
    BY DEF ServingInit, StartsInOrder, WatchdogIsPatient, FoundIsOnlyUsed, RouterIsConfigured, RouterKnowsItsServer
<1>4. NothingIsLeftRunning
    BY DEF ServingInit, NothingIsLeftRunning, Serves
<1> QED BY <1>2, <1>3, <1>4 DEF ServingInv

LEMMA ServingInvStep == ServingInv /\ [ServingNext]_servingVars => ServingInv'
<1> SUFFICES ASSUME ServingInv, [ServingNext]_servingVars PROVE ServingInv'
    OBVIOUS
<1> USE DEF ServingInv, ServingTypes, StartsInOrder, WatchdogIsPatient, FoundIsOnlyUsed, RouterIsConfigured,
            RouterKnowsItsServer, NothingIsLeftRunning, Steps, Endings, Alive, Serves, Uncovered, Window
<1>1. CASE UseForeign
    BY <1>1 DEF UseForeign, routerVars
<1>2. CASE Refuse
    BY <1>2 DEF Refuse, Gone, routerVars
<1>3. CASE Launch
    BY <1>3 DEF Launch, routerVars
<1>4. CASE Ready
    BY <1>4 DEF Ready, routerVars
<1>5. CASE NotReady
    BY <1>5 DEF NotReady, Gone, KillServer, AskServer, routerVars
<1>6. ASSUME NEW fresh \in BOOLEAN, StartRouter(fresh) PROVE ServingInv'
    <2>1. conf' \in [Keys -> {"none", "old", "new"}] /\ \A k \in MachineKeys : conf'[k] = "new"
        BY <1>6, MergedIsOurs DEF StartRouter
    <2> QED BY <1>6, <2>1 DEF StartRouter, AskServer
<1>7. CASE NoRouter
    BY <1>7 DEF NoRouter, AskServer, routerVars
<1>8. CASE Answered
    BY <1>8 DEF Answered, routerVars
<1>9. CASE Fallback
    BY <1>9 DEF Fallback, StopSupervisor, AskServer
<1>10. ASSUME NEW started \in BOOLEAN, HandOver(started) PROVE ServingInv'
    BY <1>10 DEF HandOver, Watched, routerVars
<1>11. CASE Enter
    BY <1>11 DEF Enter, routerVars
<1>12. ASSUME NEW how \in {"raised", "interrupted"}, Raise(how) PROVE ServingInv'
    BY <1>12 DEF Raise, Gone, KillServer, AskServer, routerVars
<1>13. ASSUME NEW after \in {"leaving", "prompted"}, Trap(after) PROVE ServingInv'
    BY <1>13 DEF Trap, AskServer, routerVars
<1>14. CASE TrapEnds
    BY <1>14 DEF TrapEnds, KillServer, Gone, routerVars
<1>15. CASE StopServices
    BY <1>15 DEF StopServices, StopSupervisor, AskServer, Gone
<1>16. CASE Terminated
    BY <1>16 DEF Terminated, KillServer, Gone, routerVars
<1>17. CASE Killed
    BY <1>17 DEF Killed, Gone, routerVars
<1>18. CASE WatchdogSees \/ WatchdogEnds
    BY <1>18 DEF WatchdogSees, WatchdogEnds, AskServer, KillServer, routerVars
<1>19. ASSUME NEW able \in BOOLEAN, Spawn(able) PROVE ServingInv'
    BY <1>19 DEF Spawn
<1>20. CASE StopRelay \/ RelayStopped \/ BackOff
    BY <1>20 DEF StopRelay, RelayStopped, BackOff
<1>21. ASSUME NEW healthy \in BOOLEAN, Judge(healthy) PROVE ServingInv'
    BY <1>21 DEF Judge, CrashesAfter
<1>22. ASSUME NEW c \in {"clean", "fatal", "crash"}, RelayExits(c) PROVE ServingInv'
    BY <1>22 DEF RelayExits
<1>23. CASE ServerUp \/ ServerExits
    BY <1>23 DEF ServerUp, ServerExits, routerVars
<1>24. CASE UNCHANGED servingVars
    BY <1>24 DEF servingVars
<1> QED
    <2>1. \A fresh \in BOOLEAN : (fresh /\ mode = "session") \in BOOLEAN
        OBVIOUS
    <2> QED
        BY <1>1, <1>2, <1>3, <1>4, <1>5, <1>6, <1>7, <1>8, <1>9, <1>10, <1>11, <1>12, <1>13, <1>14, <1>15,
           <1>16, <1>17, <1>18, <1>19, <1>20, <1>21, <1>22, <1>23, <1>24, <2>1 DEF ServingNext

\* A model server that was started is told to stop, whichever of the starter, its
\* watchdog and the router's supervisor dies first and at whichever step, but for the
\* ends that no code covers; no router outlives its supervisor's watch, and a server
\* that was found is left alone (serve.py, run_and_watch.py).
THEOREM ServersAreReaped == ServingSpec => []NothingIsLeftRunning
<1>1. ServingInv => NothingIsLeftRunning
    BY DEF ServingInv
<1> QED BY <1>1, ServingInvInit, ServingInvStep, PTL DEF ServingSpec

\* A router that runs was started on the keys of this start, through restarts of it,
\* fallbacks and files that an earlier start left (write_router_config(), supervise()).
THEOREM RoutersAreConfigured == ServingSpec => []RouterKnowsItsServer
<1>1. ServingInv => RouterKnowsItsServer
    BY DEF ServingInv, RouterIsConfigured
<1> QED BY <1>1, ServingInvInit, ServingInvStep, PTL DEF ServingSpec

-----------------------------------------------------------------------------
(* The campaign: Campaign.                                                  *)

\* The model process of the trial under way.
Agent == [run |-> trial, cell |-> cell]

\* Processes are of trials that began; while no driver has died, of the one under way.
ProcessesOfTrials ==
    /\ trial \in Nat /\ deaths \in Nat
    /\ \A a \in agents : a.run \in Nat /\ a.run <= trial
    /\ step = "run" => \A a \in agents : a.run = trial => a = Agent
    /\ deaths = 0 => /\ step # "run" => agents = {}
                     /\ step = "run" => agents \subseteq {Agent}

\* Without a tenant the tree is this trial's, and without a stranger the router is.
OthersAreFound ==
    /\ step \in {"run", "check", "gauge", "write"} /\ "tenant" \notin found =>
          /\ \A a \in agents : a.cell = cell => step = "run" /\ a = Agent
          /\ hands \subseteq {trial}
    /\ step \in {"run", "check"} /\ "stranger" \notin found =>
          /\ \A a \in agents : a.run = trial
          /\ calling \subseteq {trial}
          /\ "blind" \notin found => window \subseteq {trial}
    /\ "tenant" \in found => deaths > 0

\* A row that is not excluded says of the arm what it seems to.
Sound(r) ==
    \/ r.outcome \in {"harness-error", "timeout"}
    \/ /\ "tenant" \notin r.found => r.alone = TRUE /\ r.private = TRUE
       /\ r.found \cap {"stranger", "blind"} = {} => r.own = TRUE

Explained(r) == "tenant" \in r.found => deaths > 0

RowsAreSound ==
    /\ DOMAIN results = Cells
    /\ \A c \in Cells : HasARow(c) => Sound(results[c]) /\ Explained(results[c])
    /\ step \in {"gauge", "write"} =>
          /\ DOMAIN row = {"outcome", "absent", "own", "alone", "private", "found"}
          /\ "tenant" \in row.found <=> "tenant" \in found
          /\ Sound(row)

CampaignInv == ProcessesOfTrials /\ OthersAreFound /\ RowsAreSound

LEMMA CampaignInvInit == CampaignInit => CampaignInv
BY DEF CampaignInit, CampaignInv, ProcessesOfTrials, OthersAreFound, RowsAreSound, HasARow, NoRow

\* The row of a trial, of what it found.
LEMMA CheckedRowIsSound ==
    ASSUME CampaignInv, NEW legible \in BOOLEAN, Check(legible)
    PROVE  /\ Sound(row') /\ ("tenant" \in row'.found <=> "tenant" \in found)
           /\ DOMAIN row' = {"outcome", "absent", "own", "alone", "private", "found"}
<1>1. row' = Row("fail", InTree = {}, legible) /\ step = "check"
    BY DEF Check
<1>2. /\ row'.outcome = Score("fail", legible) /\ row'.own = (trial \in window)
      /\ row'.alone = (hands \subseteq {trial}) /\ row'.private = (InTree = {})
      /\ row'.found = found \cup (IF legible THEN {} ELSE {"blind"})
    BY <1>1 DEF Row
<1>3. DOMAIN row' = {"outcome", "absent", "own", "alone", "private", "found"}
    BY <1>1 DEF Row
<1>4. "tenant" \in row'.found <=> "tenant" \in found
    BY <1>2
<1>5. "tenant" \notin found => row'.alone = TRUE /\ row'.private = TRUE
    BY <1>1, <1>2 DEF CampaignInv, OthersAreFound, InTree
<1>6. ASSUME row'.found \cap {"stranger", "blind"} = {}, row'.outcome # "harness-error"
      PROVE  row'.own = TRUE
    <2>1. legible /\ "stranger" \notin found /\ "blind" \notin found
        BY <1>2, <1>6
    <2>2. window \subseteq {trial}
        BY <1>1, <2>1 DEF CampaignInv, OthersAreFound
    <2>3. ~Fault(legible)
        BY <1>2, <1>6 DEF Score
    <2>4. window # {}
        BY <2>1, <2>3 DEF Fault
    <2> QED BY <1>2, <2>2, <2>4
<1> QED BY <1>3, <1>4, <1>5, <1>6 DEF Sound

LEMMA CampaignInvStep == CampaignInv /\ [CampaignNext]_campaignVars => CampaignInv'
<1> SUFFICES ASSUME CampaignInv, [CampaignNext]_campaignVars PROVE CampaignInv'
    OBVIOUS
<1> USE DEF CampaignInv, ProcessesOfTrials, OthersAreFound, RowsAreSound, HasARow, Agent, Explained
<1>1. CASE StartDriver
    BY <1>1 DEF StartDriver
<1>2. CASE Skip
    BY <1>2 DEF Skip
<1>3. CASE Finished
    BY <1>3 DEF Finished
<1>4. ASSUME NEW legible \in BOOLEAN, Check(legible) PROVE CampaignInv'
    <2>1. /\ step = "check" /\ step' \in {"write", "gauge"}
          /\ UNCHANGED <<results, cell, trial, agents, calling, window, hands, found, deaths>>
        BY <1>4 DEF Check
    <2>2. RowsAreSound'
        BY <1>4, <2>1, CheckedRowIsSound
    <2> QED BY <2>1, <2>2
<1>5. CASE Write
    <2>1. /\ step = "write" /\ step' = "pick" /\ results' = [results EXCEPT ![cell] = row] /\ found' = {}
          /\ UNCHANGED <<trial, agents, deaths>>
        BY <1>5 DEF Write
    <2>2. ProcessesOfTrials' /\ OthersAreFound'
        BY <2>1
    <2>3. \A c \in Cells : HasARow(c)' => Sound(results'[c]) /\ Explained(results[c])'
        BY <2>1 DEF Sound
    <2> QED BY <2>1, <2>2, <2>3
<1>6. CASE DriverDies
    <2>1. /\ step' = "down" /\ deaths' = deaths + 1 /\ found' = {}
          /\ UNCHANGED <<cell, trial, agents, calling, window, hands>>
          /\ results' = results \/ results' = [results EXCEPT ![cell] = TornRow]
        BY <1>6 DEF DriverDies
    <2>2. DOMAIN results' = Cells /\ \A c \in Cells : HasARow(c)' => Sound(results'[c]) /\ Explained(results[c])'
        BY <2>1 DEF TornRow
    <2> QED BY <2>1, <2>2
<1>7. CASE Falls
    BY <1>7 DEF Falls
<1>8. CASE Rises
    BY <1>8 DEF Rises
<1>9. ASSUME NEW spawned \in BOOLEAN, NEW legible \in BOOLEAN, BeginTrial(spawned, legible) PROVE CampaignInv'
    <2> DEFINE own == [run |-> trial + 1, cell |-> cell]
    <2>1. /\ step = "pick" /\ trial' = trial + 1 /\ hands' = {} /\ window' = IF legible THEN {} ELSE logged
          /\ UNCHANGED <<results, cell, calling, row, deaths>>
        BY <1>9 DEF BeginTrial
    <2>2. \/ step' = "run" /\ agents' = agents \cup {own}
          \/ step' = "check" /\ agents' = agents
        BY <1>9 DEF BeginTrial
    <2>3. /\ "tenant" \in found' <=> InTree # {}
          /\ "stranger" \notin found' => agents = {} /\ calling = {}
          /\ "blind" \notin found' => legible
        BY <1>9 DEF BeginTrial
    <2>4. Agent' = own /\ own.run = trial' /\ own.cell = cell /\ own.run \in Nat
        BY <2>1
    <2> HIDE DEF own
    <2>5. ProcessesOfTrials'
        <3>1. \A a \in agents : a.run # trial'
            BY <2>1
        <3>2. trial' \in Nat /\ deaths' \in Nat /\ \A a \in agents' : a.run \in Nat /\ a.run <= trial'
            BY <2>1, <2>2, <2>4
        <3>3. step' = "run" => \A a \in agents' : a.run = trial' => a = Agent'
            BY <2>2, <2>4, <3>1
        <3>4. deaths' = 0 => agents = {}
            BY <2>1
        <3> QED BY <2>2, <2>4, <3>2, <3>3, <3>4
    <2>6. "tenant" \notin found' => \A a \in agents' : a.cell = cell' => step' = "run" /\ a = Agent'
        BY <2>1, <2>2, <2>3, <2>4 DEF InTree
    <2>7. "stranger" \notin found' => /\ \A a \in agents' : a.run = trial'
                                      /\ calling' \subseteq {trial'}
        BY <2>1, <2>2, <2>3, <2>4
    <2>8. "tenant" \in found' => deaths' > 0
        BY <2>1, <2>3 DEF InTree
    <2>9. OthersAreFound'
        BY <2>1, <2>3, <2>6, <2>7, <2>8
    <2>10. RowsAreSound'
        BY <2>1, <2>2
    <2> QED BY <2>5, <2>9, <2>10
<1>10. ASSUME NEW verdict \in {"pass", "fail", "timeout", "harness-error"}, Gauge(verdict) PROVE CampaignInv'
    <2>1. /\ step = "gauge" /\ step' = "write"
          /\ row' = [row EXCEPT !.outcome = IF @ = "fail" THEN verdict ELSE @, !.alone = hands \subseteq {trial}]
          /\ UNCHANGED <<results, cell, trial, agents, calling, window, hands, found, deaths>>
        BY <1>10 DEF Gauge
    <2>2. DOMAIN row' = DOMAIN row /\ row'.own = row.own /\ row'.private = row.private /\ row'.found = row.found
          /\ row'.alone = (hands \subseteq {trial})
          /\ row'.outcome = IF row.outcome = "fail" THEN verdict ELSE row.outcome
        BY <2>1
    <2>3. Sound(row')
        BY <2>1, <2>2 DEF Sound
    <2> QED BY <2>1, <2>2, <2>3
<1>11. ASSUME NEW a \in agents, NEW how \in {"exited", "timed out"}, Ends(a, how) PROVE CampaignInv'
    <2>1. /\ agents' = agents \ {a} /\ calling' \subseteq calling
          /\ window' = window \/ window' = window \cup ({a.run} \cap calling)
          /\ UNCHANGED <<results, cell, trial, hands, found, row, deaths>>
          /\ IF a.run = trial /\ step = "run" THEN step' = "check" ELSE step' = step
        BY <1>11 DEF Ends, Dropped, Log
    <2>2. a.run = trial /\ step = "run" => a = Agent
        OBVIOUS
    <2>3. ProcessesOfTrials'
        BY <2>1, <2>2
    <2>4. OthersAreFound'
        BY <2>1, <2>2
    <2>5. RowsAreSound'
        BY <2>1
    <2> QED BY <2>3, <2>4, <2>5
<1>12. ASSUME NEW a \in agents, Ask(a) PROVE CampaignInv'
    BY <1>12 DEF Ask
<1>13. ASSUME NEW a \in agents, EditTree(a) PROVE CampaignInv'
    BY <1>13 DEF EditTree
<1>14. ASSUME NEW r \in calling, Logged(r) PROVE CampaignInv'
    BY <1>14 DEF Logged, Log
<1>15. CASE UNCHANGED campaignVars
    BY <1>15 DEF campaignVars
<1> QED
    BY <1>1, <1>2, <1>3, <1>4, <1>5, <1>6, <1>7, <1>8, <1>9, <1>10, <1>11, <1>12, <1>13, <1>14, <1>15
       DEF CampaignNext, Exit, KillTheGroup

\* The arms are compared on rows that say something of the arm, for any plan and any
\* deaths of the driver, processes that outlive it and lines that come late included: what
\* may be wrong with a row is what the trial found when it began, or a ledger that could
\* not be opened (run_cell(), summarize_ledger_window()).
THEOREM CountedRowsAreMeasured == CampaignSpec => []CountedRowsAreOfTheirRun
<1>1. CampaignInv => CountedRowsAreOfTheirRun
    BY DEF CampaignInv, RowsAreSound, Sound, Explained, CountedRowsAreOfTheirRun, Counted, Excluded, Stratum
<1> QED BY <1>1, CampaignInvInit, CampaignInvStep, PTL DEF CampaignSpec

-----------------------------------------------------------------------------
(* The downloads: Fetch.                                                    *)

Contents == [size : {"none", "full", "odd"}, body : [Chunks -> {"hole", "data", "junk"}]]

Steppings ==
    {"idle", "open", "fetch", "placed", "validate", "configure", "clear", "remove"}

FetchTypes ==
    /\ file \in [Shards -> Contents] /\ partial \in [Shards -> Contents]
    /\ DOMAIN ledger = Shards
    /\ card \in [kind : {"none", "torn", "card"}, validated : BOOLEAN, hashed : BOOLEAN,
                 unsized : SUBSET Shards]
    /\ order \in [step : Steppings, hash : BOOLEAN, at : DOMAIN Parts, unsized : SUBSET Shards]

\* The shards of which nothing is promised.
Marred == spoiled \cup outlived

\* The ranges of a body hold what was asked for.
Hold(body, ranges) == \A c \in Chunks : c \in ranges => body[c] = "data"

\* The ranges that a ledger names are in the part, when there is one; only an answer that
\* was not asked for makes it of another size.
PartsAreAsRecorded ==
    /\ \A s \in Shards \ spoiled : partial[s].size # "odd"
    /\ \A s \in Shards \ Marred :
          ledger[s] # NoLedger /\ partial[s].size # "none" => Hold(partial[s].body, ledger[s])

\* The ranges at hand: what the ledger names is done, and what is done is not fetched.
FetchedApart ==
    /\ order.step # "fetch" => busy = {}
    /\ busy \cap had = {}
    /\ order.step = "fetch" =>
          /\ partial[Cur].size # "none" /\ file[Cur].size # "full"
          /\ Cur \notin Marred => /\ ledger[Cur] = NoLedger \/ ledger[Cur] \subseteq had
                                  /\ Hold(partial[Cur].body, had)

FullIsWhole(s) == file[s].size = "full" => Whole(s)

FilesHold ==
    /\ \A s \in Shards \ Marred : FullIsWhole(s)
    /\ card.validated /\ card.hashed /\ vouched = "hash" => \A s \in Digested : FullIsWhole(s)

FetchInv == FetchTypes /\ PartsAreAsRecorded /\ FetchedApart /\ FilesHold

LEMMA CurIsAShard == FetchTypes => Cur \in Shards
BY DEF FetchTypes, Cur, Shards

\* On to the next shard, or to the verdict.
LEMMA NextShard ==
    ASSUME FetchTypes
    PROVE  /\ Next1 \in [step : {"open", "validate"}, hash : BOOLEAN, at : DOMAIN Parts,
                         unsized : SUBSET Shards]
           /\ Next1.step # "fetch"
<1>1. order.at \in 1..Len(Parts) /\ DOMAIN Parts = 1..Len(Parts) /\ Len(Parts) \in Nat
    BY FetchAssumption DEF FetchTypes
<1>2. order.at < Len(Parts) => order.at + 1 \in 1..Len(Parts)
    BY <1>1
<1> QED BY <1>1, <1>2 DEF FetchTypes, Next1

LEMMA FetchInvInit == FetchInit => FetchInv
<1> SUFFICES ASSUME FetchInit PROVE FetchInv
    OBVIOUS
<1>1. 1 \in DOMAIN Parts
    BY FetchAssumption
<1> QED BY <1>1 DEF FetchInit, FetchInv, FetchTypes, Steppings, PartsAreAsRecorded, FetchedApart, FilesHold,
          FullIsWhole, None, NoCard, NoOrder, Contents, Marred

LEMMA FetchInvStep == FetchInv /\ [FetchNext]_fetchVars => FetchInv'
<1> SUFFICES ASSUME FetchInv, [FetchNext]_fetchVars PROVE FetchInv'
    OBVIOUS
<1>a. Cur \in Shards
    BY CurIsAShard DEF FetchInv
<1>b. 0 \notin Chunks /\ 1 \in Chunks /\ 1 \in DOMAIN Parts
    BY FetchAssumption
<1> USE DEF FetchInv
<1>c. Digested \subseteq Shards
    BY FetchAssumption DEF Shards
<1>1. ASSUME NEW force \in BOOLEAN, NEW hash \in BOOLEAN, Install(force, hash) PROVE FetchInv'
    <2>1. /\ order' = [NoOrder EXCEPT !.step = IF force THEN "clear" ELSE "open", !.hash = hash]
          /\ order.step = "idle"
          /\ UNCHANGED <<file, partial, ledger, card, had, busy, listed, spoiled, outlived, vouched>>
        BY <1>1 DEF Install
    <2>2. FetchTypes' /\ order'.step # "fetch"
        BY <1>b, <2>1 DEF FetchTypes, NoOrder, Steppings
    <2> QED BY <2>1, <2>2 DEF PartsAreAsRecorded, FetchedApart, FilesHold, FullIsWhole, Whole, Marred
<1>2. ASSUME NEW hash \in BOOLEAN, VerifyModel(hash) PROVE FetchInv'
    <2> DEFINE ok == Valid(hash, card.unsized)
    <2>1. /\ card' = [card EXCEPT !.validated = ok] /\ vouched' = IF hash THEN "hash" ELSE "size"
          /\ UNCHANGED <<file, partial, ledger, order, had, busy, listed, spoiled, outlived>>
        BY <1>2 DEF VerifyModel
    <2>2. ok \in BOOLEAN
        BY DEF Valid
    <2>3. hash /\ ok => \A s \in Digested : Whole(s)
        BY DEF Valid
    <2> HIDE DEF ok
    <2>4. FetchTypes' /\ card'.validated = ok /\ card'.hashed = card.hashed
        BY <2>1, <2>2 DEF FetchTypes
    <2>5. FilesHold'
        BY <2>1, <2>3, <2>4 DEF FilesHold, FullIsWhole, Whole, Marred
    <2> QED BY <2>1, <2>4, <2>5 DEF PartsAreAsRecorded, FetchedApart, Cur, Marred
<1>3. CASE RemoveModel
    <2>1. /\ order' = [NoOrder EXCEPT !.step = "remove"] /\ order.step = "idle"
          /\ UNCHANGED <<file, partial, ledger, card, had, busy, listed, spoiled, outlived, vouched>>
        BY <1>3 DEF RemoveModel
    <2>2. FetchTypes' /\ order'.step # "fetch"
        BY <1>b, <2>1 DEF FetchTypes, NoOrder, Steppings
    <2> QED BY <2>1, <2>2 DEF PartsAreAsRecorded, FetchedApart, FilesHold, FullIsWhole, Whole, Marred
<1>4. CASE Present
    <2>1. order.step = "open" /\ order' = Next1
          /\ UNCHANGED <<file, partial, ledger, card, had, busy, listed, spoiled, outlived, vouched, bounds>>
        BY <1>4 DEF Present
    <2>2. FetchTypes' /\ order'.step # "fetch"
        BY <2>1, NextShard DEF FetchTypes, Steppings
    <2> QED BY <2>1, <2>2 DEF PartsAreAsRecorded, FetchedApart, FilesHold, FullIsWhole, Whole, Marred
<1>5. ASSUME NEW outcome \in {"whole", "short", "cut"}, Stream(outcome) PROVE FetchInv'
    <2> DEFINE whole == [size |-> "full", body |-> [c \in Chunks |-> "data"]]
               start == [size |-> "odd", body |-> [c \in Chunks |-> "hole"]]
               placed == IF outcome = "whole" THEN whole ELSE start
    <2>1. order.step = "open" /\ UNCHANGED <<ledger, card, had, busy, listed, outlived>>
        BY <1>5 DEF Stream
    <2>2. CASE outcome # "cut"
        <3>1. /\ file' = [file EXCEPT ![Cur] = placed]
              /\ partial' = [partial EXCEPT ![Cur] = None] /\ vouched' = "nothing"
              /\ spoiled' = spoiled \ {Cur} /\ order' = [Next1 EXCEPT !.unsized = Next1.unsized \cup {Cur}]
            BY <1>5, <2>2 DEF Stream, Place
        <3>2. placed \in Contents /\ (placed.size = "full" => placed.body = [c \in Chunks |-> "data"])
            BY DEF Contents
        <3> HIDE DEF placed
        <3>3. FetchTypes' /\ order'.step # "fetch"
            BY <1>a, <2>1, <3>1, <3>2, NextShard DEF FetchTypes, Contents, None, Steppings
        <3>4. \A s \in Shards : s # Cur => file'[s] = file[s] /\ partial'[s] = partial[s]
            BY <3>1 DEF FetchTypes
        <3>5. partial'[Cur].size = "none" /\ file'[Cur] = placed
            BY <1>a, <3>1 DEF FetchTypes, None
        <3>6. PartsAreAsRecorded' /\ FetchedApart'
            BY <2>1, <3>1, <3>3, <3>4, <3>5 DEF PartsAreAsRecorded, FetchedApart, Marred
        <3>7. FilesHold'
            BY <2>1, <3>1, <3>2, <3>4, <3>5 DEF FilesHold, FullIsWhole, Whole, Marred
        <3> QED BY <3>3, <3>6, <3>7
    <2>3. CASE outcome = "cut"
        <3>1. /\ partial' = [partial EXCEPT ![Cur] = start]
              /\ spoiled' = spoiled \cup {Cur} /\ order' = NoOrder /\ UNCHANGED <<file, vouched>>
            BY <1>5, <2>3 DEF Stream
        <3>2. FetchTypes' /\ order'.step = "idle"
            BY <1>b, <2>1, <3>1 DEF FetchTypes, NoOrder, Contents, Steppings
        <3>3. PartsAreAsRecorded' /\ FetchedApart'
            BY <1>a, <2>1, <3>1, <3>2 DEF PartsAreAsRecorded, FetchedApart, FetchTypes, Marred
        <3>4. FilesHold'
            BY <2>1, <3>1 DEF FilesHold, FullIsWhole, Whole, Marred
        <3> QED BY <3>2, <3>3, <3>4
    <2> QED BY <2>2, <2>3
<1>6. CASE OpenPart
    <2>1. /\ order.step = "open" /\ file[Cur].size # "full"
          /\ had' = RangesKept /\ busy' = {}
          /\ partial' = [partial EXCEPT ![Cur] = IF partial[Cur].size = "full" THEN partial[Cur] ELSE Sparse]
          /\ order' = [order EXCEPT !.step = "fetch"]
          /\ UNCHANGED <<file, ledger, card, listed, vouched, bounds>>
        BY <1>6 DEF OpenPart
    <2>2. /\ spoiled' = IF RangesKept = {} THEN spoiled \ {Cur} ELSE spoiled
          /\ outlived' = IF partial[Cur].size # "full" /\ ledger[Cur] # NoLedger THEN outlived \cup {Cur}
                         ELSE IF RangesKept = {} THEN outlived \ {Cur} ELSE outlived
        BY <1>6 DEF OpenPart
    <2>3. FetchTypes' /\ order'.step = "fetch" /\ Cur' = Cur
        BY <2>1 DEF FetchTypes, Sparse, Contents, Cur, Steppings
    <2>4. partial'[Cur] = IF partial[Cur].size = "full" THEN partial[Cur] ELSE Sparse
        BY <1>a, <2>1 DEF FetchTypes
    <2>5. \A s \in Shards : s # Cur => partial'[s] = partial[s]
        BY <2>1 DEF FetchTypes
    <2>6. partial'[Cur].size = "full"
        BY <2>4 DEF Sparse
    <2>7. RangesKept # {} => ledger[Cur] # NoLedger /\ RangesKept = ledger[Cur]
        BY DEF RangesKept
    <2>8. ASSUME Cur \notin Marred'
          PROVE  (ledger[Cur] = NoLedger \/ ledger[Cur] = RangesKept) /\ Hold(partial'[Cur].body, RangesKept)
        <3>1. partial[Cur].size = "full" \/ ledger[Cur] = NoLedger
            BY <2>2, <2>8 DEF Marred
        <3>2. CASE RangesKept = {}
            BY <3>1, <3>2 DEF Hold, RangesKept
        <3>3. CASE RangesKept # {}
            <4>1. partial[Cur].size = "full" /\ Cur \notin Marred
                BY <2>2, <2>7, <2>8, <3>1, <3>3 DEF Marred
            <4> QED BY <1>a, <2>4, <2>7, <3>3, <4>1 DEF PartsAreAsRecorded
        <3> QED BY <3>2, <3>3
    <2>9. FetchedApart'
        BY <2>1, <2>3, <2>6, <2>8 DEF FetchedApart
    <2>10. \A s \in Shards : s # Cur => (s \in spoiled' <=> s \in spoiled) /\ (s \in Marred' <=> s \in Marred)
        BY <2>2 DEF Marred
    <2>11. PartsAreAsRecorded'
        <3>1. \A s \in Shards \ spoiled' : partial'[s].size # "odd"
            BY <2>5, <2>6, <2>10 DEF PartsAreAsRecorded
        <3>2. ASSUME NEW s \in Shards \ Marred', ledger'[s] # NoLedger, partial'[s].size # "none"
              PROVE  Hold(partial'[s].body, ledger'[s])
            <4>1. CASE s = Cur
                BY <2>1, <2>8, <3>2, <4>1
            <4>2. CASE s # Cur
                BY <2>1, <2>5, <2>10, <3>2, <4>2 DEF PartsAreAsRecorded
            <4> QED BY <4>1, <4>2
        <3> QED BY <3>1, <3>2 DEF PartsAreAsRecorded
    <2>12. FilesHold'
        BY <1>a, <2>1, <2>10 DEF FilesHold, FullIsWhole, Whole
    <2> QED BY <2>3, <2>9, <2>11, <2>12
<1>7. CASE PlaceShard
    <2>1. /\ order.step = "fetch" /\ had = Chunks /\ busy = {} /\ had' = {}
          /\ UNCHANGED <<ledger, card, busy, listed, spoiled, outlived, bounds>>
        BY <1>7 DEF PlaceShard
    <2>2. CASE partial[Cur].size = "full"
        <3>1. /\ file' = [file EXCEPT ![Cur] = partial[Cur]] /\ partial' = [partial EXCEPT ![Cur] = None]
              /\ vouched' = "nothing" /\ order' = [order EXCEPT !.step = "placed"]
            BY <1>7, <2>2 DEF PlaceShard, Place
        <3>2. FetchTypes' /\ order'.step # "fetch"
            BY <1>a, <2>1, <3>1 DEF FetchTypes, Contents, None, Steppings
        <3>3. \A s \in Shards : s # Cur => file'[s] = file[s] /\ partial'[s] = partial[s]
            BY <3>1 DEF FetchTypes
        <3>4. partial'[Cur].size = "none"
            BY <1>a, <3>1 DEF FetchTypes, None
        <3>5. PartsAreAsRecorded' /\ FetchedApart'
            BY <2>1, <3>2, <3>3, <3>4 DEF PartsAreAsRecorded, FetchedApart, Marred
        <3>6. Cur \notin Marred => \A c \in Chunks : file'[Cur].body[c] = "data"
            BY <1>a, <2>1, <3>1 DEF FetchTypes, FetchedApart, Hold
        <3>7. FilesHold'
            BY <2>1, <3>1, <3>3, <3>6 DEF FilesHold, FullIsWhole, Whole, Marred
        <3> QED BY <3>2, <3>5, <3>7
    <2>3. CASE partial[Cur].size # "full"
        <3>1. UNCHANGED <<file, partial, vouched>> /\ order' = NoOrder
            BY <1>7, <2>3 DEF PlaceShard
        <3>2. FetchTypes' /\ order'.step = "idle"
            BY <1>b, <2>1, <3>1 DEF FetchTypes, NoOrder, Steppings
        <3> QED BY <2>1, <3>1, <3>2 DEF PartsAreAsRecorded, FetchedApart, FilesHold, FullIsWhole, Whole, Marred
    <2> QED BY <2>2, <2>3
<1>16. CASE DropLedger
    <2>1. /\ order.step = "placed" /\ ledger' = [ledger EXCEPT ![Cur] = NoLedger] /\ order' = Next1
          /\ UNCHANGED <<file, partial, card, had, busy, listed, spoiled, outlived, vouched, bounds>>
        BY <1>16 DEF DropLedger
    <2>2. FetchTypes' /\ order'.step # "fetch"
        BY <2>1, NextShard DEF FetchTypes, Steppings
    <2>3. \A s \in Shards : ledger'[s] = NoLedger \/ ledger'[s] = ledger[s]
        BY <2>1 DEF FetchTypes
    <2> QED BY <2>1, <2>2, <2>3 DEF PartsAreAsRecorded, FetchedApart, FilesHold, FullIsWhole, Whole, Marred
<1>17. ASSUME NEW s \in Shards, UnlinkFile(s) \/ UnlinkPart(s) \/ UnlinkLedger(s),
              order.step \in {"clear", "remove"},
              UNCHANGED <<card, order, had, busy, listed, spoiled, outlived, vouched, bounds>>
       PROVE  FetchInv'
    <2>1. /\ file' = file \/ file' = [file EXCEPT ![s] = None]
          /\ partial' = partial \/ partial' = [partial EXCEPT ![s] = None]
          /\ ledger' = ledger \/ ledger' = [ledger EXCEPT ![s] = NoLedger]
        BY <1>17 DEF UnlinkFile, UnlinkPart, UnlinkLedger
    <2>0. None \in Contents
        BY DEF None, Contents
    <2>2. FetchTypes'
        <3>1. file' \in [Shards -> Contents] /\ partial' \in [Shards -> Contents] /\ DOMAIN ledger' = Shards
            BY <2>0, <2>1 DEF FetchTypes
        <3> QED BY <1>17, <3>1 DEF FetchTypes
    <2>3. \A t \in Shards : /\ file'[t] = file[t] \/ file'[t].size = "none"
                            /\ partial'[t] = partial[t] \/ partial'[t].size = "none"
                            /\ ledger'[t] = ledger[t] \/ ledger'[t] = NoLedger
        BY <2>1 DEF FetchTypes, None
    <2>4. PartsAreAsRecorded' /\ FetchedApart'
        BY <1>17, <2>3 DEF PartsAreAsRecorded, FetchedApart, Marred
    <2>5. FilesHold'
        BY <1>c, <1>17, <2>3 DEF FilesHold, FullIsWhole, Whole, Marred
    <2> QED BY <2>2, <2>4, <2>5
<1>18. CASE Clear
    BY <1>a, <1>17, <1>18 DEF Clear
<1>19. CASE Cleared
    <2>1. /\ order.step = "clear"
          /\ order' = IF order.at < Len(Parts) THEN [order EXCEPT !.at = order.at + 1]
                      ELSE [order EXCEPT !.step = "open", !.at = 1]
          /\ UNCHANGED <<file, partial, ledger, card, had, busy, listed, spoiled, outlived, vouched, bounds>>
        BY <1>19 DEF Cleared
    <2>2. order.at \in 1..Len(Parts) /\ DOMAIN Parts = 1..Len(Parts) /\ Len(Parts) \in Nat
        BY FetchAssumption DEF FetchTypes
    <2>3. order.at < Len(Parts) => order.at + 1 \in DOMAIN Parts
        BY <2>2
    <2>4. FetchTypes' /\ order'.step # "fetch"
        BY <1>b, <2>1, <2>3 DEF FetchTypes, Steppings
    <2> QED BY <2>1, <2>4 DEF PartsAreAsRecorded, FetchedApart, FilesHold, FullIsWhole, Whole, Marred
<1>20. CASE RemoveOne
    <2>1. CASE \E s \in Shards : UnlinkFile(s) \/ UnlinkPart(s) \/ UnlinkLedger(s)
        <3>1. PICK s \in Shards : UnlinkFile(s) \/ UnlinkPart(s) \/ UnlinkLedger(s)
            BY <2>1
        <3>2. CASE UNCHANGED card
            BY <1>17, <1>20, <3>1, <3>2 DEF RemoveOne
        <3>3. CASE card' = NoCard /\ UNCHANGED <<file, partial, ledger>>
            BY <3>1, <3>3 DEF UnlinkFile, UnlinkPart, UnlinkLedger, FetchTypes
        <3> QED BY <1>20, <3>2, <3>3 DEF RemoveOne
    <2>2. CASE card' = NoCard /\ UNCHANGED <<file, partial, ledger>>
        <3>1. order.step = "remove" /\ UNCHANGED <<order, had, busy, listed, spoiled, outlived, vouched, bounds>>
            BY <1>20 DEF RemoveOne
        <3>2. FetchTypes'
            BY <2>2, <3>1 DEF FetchTypes, NoCard
        <3> QED BY <2>2, <3>1, <3>2 DEF PartsAreAsRecorded, FetchedApart, FilesHold, FullIsWhole, Whole, Marred, NoCard
    <2> QED BY <1>20, <2>1, <2>2 DEF RemoveOne
<1>21. CASE RemovalDone
    <2>1. /\ order.step = "remove" /\ order' = [order EXCEPT !.step = "configure"]
          /\ UNCHANGED <<file, partial, ledger, card, had, busy, listed, spoiled, outlived, vouched, bounds>>
        BY <1>21 DEF RemovalDone
    <2>2. FetchTypes' /\ order'.step # "fetch"
        BY <2>1 DEF FetchTypes, Steppings
    <2> QED BY <2>1, <2>2 DEF PartsAreAsRecorded, FetchedApart, FilesHold, FullIsWhole, Whole, Marred
<1>8. CASE Validate
    <2> DEFINE ok == Valid(order.hash, order.unsized)
    <2>1. /\ order.step = "validate"
          /\ card' = [kind |-> "card", validated |-> ok, hashed |-> order.hash /\ ok, unsized |-> order.unsized]
          /\ order' = [order EXCEPT !.step = "configure"]
          /\ UNCHANGED <<file, partial, ledger, had, busy, listed, spoiled, outlived, bounds>>
        BY <1>8 DEF Validate
    <2>2. ok \in BOOLEAN /\ (order.hash /\ ok) \in BOOLEAN
        BY DEF Valid
    <2>3. order.hash /\ ok => \A s \in Digested : Whole(s)
        BY DEF Valid
    <2> HIDE DEF ok
    <2>4. FetchTypes' /\ order'.step # "fetch"
        BY <2>1, <2>2 DEF FetchTypes, Steppings
    <2>5. FilesHold'
        BY <2>1, <2>3 DEF FilesHold, FullIsWhole, Whole, Marred
    <2> QED BY <2>1, <2>4, <2>5 DEF PartsAreAsRecorded, FetchedApart, Marred
<1>9. CASE Configure
    <2>1. order.step = "configure" /\ order' = NoOrder
          /\ UNCHANGED <<file, partial, ledger, card, had, busy, spoiled, outlived, vouched, bounds>>
        BY <1>9 DEF Configure
    <2>2. FetchTypes' /\ order'.step # "fetch"
        BY <1>b, <2>1 DEF FetchTypes, NoOrder, Steppings
    <2> QED BY <2>1, <2>2 DEF PartsAreAsRecorded, FetchedApart, FilesHold, FullIsWhole, Whole, Marred
<1>10. ASSUME NEW c \in Chunks, Take(c) PROVE FetchInv'
    <2>1. /\ c \notin had /\ busy' = busy \cup {c} /\ order.step = "fetch"
          /\ UNCHANGED <<file, partial, ledger, card, order, had, listed, spoiled, outlived, vouched, bounds>>
        BY <1>10 DEF Take
    <2> QED BY <2>1 DEF FetchTypes, PartsAreAsRecorded, FetchedApart, FilesHold, FullIsWhole, Whole, Cur, Marred
<1>11. ASSUME NEW c \in Chunks, Fetched(c) PROVE FetchInv'
    <2> DEFINE p == [partial[Cur] EXCEPT !.body = [partial[Cur].body EXCEPT ![c] = "data"]]
    <2>1. /\ order.step = "fetch" /\ c \in busy
          /\ busy' = busy \ {c} /\ had' = had \cup {c}
          /\ ledger' = [ledger EXCEPT ![Cur] = had']
          /\ outlived' = IF had = {} THEN outlived \ {Cur} ELSE outlived
          /\ UNCHANGED <<file, card, order, listed, spoiled, vouched, bounds>>
        BY <1>11 DEF Fetched
    <2>2. partial' = [partial EXCEPT ![Cur] = p]
        BY <1>11 DEF Fetched, Holds, FetchTypes
    <2>0. partial[Cur] \in Contents
        BY <1>a DEF FetchTypes
    <2>3. p \in Contents /\ p.size = partial[Cur].size
        BY ONLY <2>0 DEF Contents
    <2>4. \A d \in Chunks : p.body[d] = IF d = c THEN "data" ELSE partial[Cur].body[d]
        BY ONLY <2>0 DEF Contents
    <2> HIDE DEF p
    <2>5. Cur' = Cur /\ FetchTypes'
        BY <1>a, <2>1, <2>2, <2>3 DEF FetchTypes, Cur
    <2>6. partial'[Cur] = p /\ ledger'[Cur] = had' /\ \A s \in Shards : s # Cur => partial'[s] = partial[s] /\ ledger'[s] = ledger[s]
        BY <1>a, <2>1, <2>2 DEF FetchTypes
    <2>7. Cur \notin spoiled => p.size # "odd"
        BY <1>a, <2>3 DEF PartsAreAsRecorded
    <2>8. Cur \notin Marred' => Hold(p.body, had')
        <3>1. CASE had = {}
            BY <2>1, <2>4, <3>1 DEF Hold
        <3>2. CASE had # {}
            <4>1. Cur \in Marred' <=> Cur \in Marred
                BY <2>1, <3>2 DEF Marred
            <4> QED BY <1>a, <2>1, <2>4, <4>1 DEF FetchedApart, Hold
        <3> QED BY <3>1, <3>2
    <2>9. \A s \in Shards : s # Cur => (s \in Marred' <=> s \in Marred)
        BY <2>1 DEF Marred
    <2>10. FetchedApart'
        BY <2>1, <2>3, <2>5, <2>6, <2>8 DEF FetchedApart
    <2>11. PartsAreAsRecorded'
        BY <2>1, <2>6, <2>7, <2>8, <2>9 DEF PartsAreAsRecorded
    <2>12. FilesHold'
        BY <2>1, <2>9 DEF FilesHold, FullIsWhole, Whole, FetchedApart
    <2> QED BY <2>5, <2>10, <2>11, <2>12
<1>12. ASSUME NEW c \in Chunks, Short(c) PROVE FetchInv'
    <2> DEFINE p == [partial[Cur] EXCEPT !.body = [partial[Cur].body EXCEPT ![c] = "junk"]]
    <2>1. /\ order.step = "fetch" /\ c \in busy /\ busy' = busy \ {c}
          /\ UNCHANGED <<file, ledger, card, order, had, listed, spoiled, outlived, vouched>>
        BY <1>12 DEF Short
    <2>2. partial' = [partial EXCEPT ![Cur] = p]
        BY <1>12 DEF Short, Holds, FetchTypes
    <2>0. partial[Cur] \in Contents
        BY <1>a DEF FetchTypes
    <2>3. p \in Contents /\ p.size = partial[Cur].size
        BY ONLY <2>0 DEF Contents
    <2>4. \A d \in Chunks : d # c => p.body[d] = partial[Cur].body[d]
        BY ONLY <2>0 DEF Contents
    <2> HIDE DEF p
    <2>5. Cur' = Cur /\ FetchTypes'
        BY <1>a, <2>1, <2>2, <2>3 DEF FetchTypes, Cur
    <2>6. partial'[Cur] = p /\ \A s \in Shards : s # Cur => partial'[s] = partial[s]
        BY <1>a, <2>1, <2>2 DEF FetchTypes
    <2>7. (Cur \notin spoiled => p.size # "odd") /\ (Cur \notin Marred => Hold(p.body, had))
        BY <1>a, <2>1, <2>3, <2>4 DEF FetchedApart, Hold, PartsAreAsRecorded
    <2>8. FetchedApart'
        BY <2>1, <2>3, <2>5, <2>6, <2>7 DEF FetchedApart, Marred
    <2>9. Cur \notin Marred /\ ledger[Cur] # NoLedger => Hold(p.body, ledger[Cur])
        BY <2>1, <2>7 DEF FetchedApart, Hold
    <2>10. PartsAreAsRecorded'
        BY <2>1, <2>6, <2>7, <2>9 DEF PartsAreAsRecorded, Marred
    <2>11. FilesHold'
        BY <2>1 DEF FilesHold, FullIsWhole, Whole, Marred
    <2> QED BY <2>5, <2>8, <2>10, <2>11
<1>13. ASSUME NEW c \in Chunks, Misranged(c) PROVE FetchInv'
    <2> DEFINE p == [partial[Cur] EXCEPT
                       !.size = IF c = 1 THEN partial[Cur].size ELSE "odd",
                       !.body = [d \in Chunks |-> IF d < c THEN partial[Cur].body[d] ELSE IF c = 1 THEN "data" ELSE "junk"]]
    <2>1. /\ order.step = "fetch" /\ c \in busy /\ busy' = busy \ {c} /\ spoiled' = spoiled \cup {Cur}
          /\ UNCHANGED <<file, ledger, card, order, had, listed, outlived, vouched>>
        BY <1>13 DEF Misranged
    <2>2. partial' = [partial EXCEPT ![Cur] = p]
        BY <1>a, <1>13 DEF Misranged, FetchTypes
    <2>3. p \in Contents /\ (p.size = "none" => partial[Cur].size = "none")
        <3> DEFINE b == [d \in Chunks |-> IF d < c THEN partial[Cur].body[d] ELSE IF c = 1 THEN "data" ELSE "junk"]
        <3>1. b \in [Chunks -> {"hole", "data", "junk"}]
            BY <1>a DEF FetchTypes, Contents
        <3>2. partial[Cur] \in Contents
            BY <1>a DEF FetchTypes
        <3> HIDE DEF b
        <3> QED BY <3>1, <3>2 DEF Contents, b
    <2> HIDE DEF p
    <2>4. Cur' = Cur /\ FetchTypes'
        BY <1>a, <2>1, <2>2, <2>3 DEF FetchTypes, Cur
    <2>5. partial'[Cur] = p /\ \A s \in Shards : s # Cur => partial'[s] = partial[s]
        BY <1>a, <2>1, <2>2 DEF FetchTypes
    <2>6. FetchedApart' /\ PartsAreAsRecorded'
        BY <2>1, <2>3, <2>4, <2>5 DEF FetchedApart, PartsAreAsRecorded, Marred
    <2>7. FilesHold'
        BY <2>1 DEF FilesHold, FullIsWhole, Whole, Marred
    <2> QED BY <2>4, <2>6, <2>7
<1>14. ASSUME NEW torn \in BOOLEAN, NEW halves \in SUBSET busy, Interrupt(torn, halves) PROVE FetchInv'
    <2> DEFINE p == [partial[Cur] EXCEPT
                       !.body = [c \in Chunks |-> IF c \in halves THEN "junk" ELSE partial[Cur].body[c]]]
    <2>1. /\ card' = IF torn THEN [NoCard EXCEPT !.kind = "torn"] ELSE card
          /\ order' = NoOrder /\ had' = {} /\ busy' = {}
          /\ UNCHANGED <<file, ledger, listed, spoiled, outlived, vouched>>
        BY <1>14 DEF Interrupt
    <2>2. partial' = [partial EXCEPT ![Cur] = p]
        BY <1>14 DEF Interrupt, FetchTypes
    <2>3. p \in Contents /\ p.size = partial[Cur].size
        BY <1>a DEF FetchTypes, Contents
    <2>4. \A c \in Chunks : c \notin halves => p.body[c] = partial[Cur].body[c]
        BY <1>a DEF FetchTypes, Contents
    <2> HIDE DEF p
    <2>5. FetchTypes' /\ order'.step = "idle"
        BY <1>a, <1>b, <2>1, <2>2, <2>3 DEF FetchTypes, NoOrder, NoCard, Steppings
    <2>6. partial'[Cur] = p /\ \A s \in Shards : s # Cur => partial'[s] = partial[s]
        BY <1>a, <2>1, <2>2 DEF FetchTypes
    <2>7. Cur \notin Marred /\ ledger[Cur] # NoLedger /\ partial[Cur].size # "none" => Hold(p.body, ledger[Cur])
        <3>1. CASE order.step = "fetch"
            BY <1>a, <2>4, <3>1 DEF FetchedApart, PartsAreAsRecorded, Hold
        <3>2. CASE order.step # "fetch"
            BY <1>a, <2>4, <3>2 DEF FetchedApart, PartsAreAsRecorded, Hold
        <3> QED BY <3>1, <3>2
    <2>8. PartsAreAsRecorded' /\ FetchedApart'
        BY <1>a, <2>1, <2>3, <2>5, <2>6, <2>7 DEF PartsAreAsRecorded, FetchedApart, Marred
    <2>9. FilesHold'
        BY <2>1 DEF FilesHold, FullIsWhole, Whole, NoCard, Marred
    <2> QED BY <2>5, <2>8, <2>9
<1>15. CASE UNCHANGED fetchVars
    BY <1>15 DEF fetchVars, FetchTypes, PartsAreAsRecorded, FetchedApart, FilesHold, FullIsWhole, Whole, Cur, Marred
<1> QED
    BY <1>1, <1>2, <1>3, <1>4, <1>5, <1>6, <1>7, <1>8, <1>9, <1>10, <1>11, <1>12, <1>13, <1>14, <1>15, <1>16,
       <1>18, <1>19, <1>20, <1>21 DEF FetchNext

\* A shard of the right size holds every byte, however often installs were cut off at any
\* step, forced or removed half way and resumed, and in whatever order its ranges came, but
\* for answers that are not what was asked for and parts made under an older ledger; and a
\* manifest that says hash-checked stands for whole files, where a hash is published, until
\* one is fetched again (download_file(), validate_files()).
THEOREM InstalledFilesAreWhole == FetchSpec => []FilesAreWhole
<1>1. Digested \subseteq Shards
    BY FetchAssumption DEF Shards
<1>2. FetchInv => FilesAreWhole
    BY <1>1 DEF FetchInv, FilesHold, FullIsWhole, FilesAreWhole, Installed, Intact, Marred
<1> QED BY <1>2, FetchInvInit, FetchInvStep, PTL DEF FetchSpec

-----------------------------------------------------------------------------
(* The idle engine: Idle.                                                   *)

Positions == (Nat \X (Signatures \cup {Unseen}))

IdleTypes ==
    /\ current \in [id : Nat \ {0}, at : Signatures,
                    stop : {"none", "done", "interrupt", "noop", "blocked", "env"},
                    by : {"nobody", "report", "human", "idle", "turns"}, futile : Nat, prompted : BOOLEAN]
    /\ memory \in [last : Signatures \cup {Unseen}, failures : Nat, key : Positions, turns : Nat]
    /\ asked \in [at : Positions, times : 0..FutileLimit]
    /\ attended \in [at : Positions, times : 0..TurnLimit]
    /\ pointer \in BOOLEAN /\ blind \in BOOLEAN
    /\ current.stop = "none" => current.by = "nobody"

\* What the counter counts: the re-prompts that left this process, all of the position
\* the last of them found.
PromptsAreCounted ==
    ~blind /\ current.futile > 0 =>
        /\ memory.last # Unseen
        /\ asked.at = <<current.id, memory.last>>
        /\ asked.times >= current.futile \/ asked.times = FutileLimit

\* The sampler counts turns that found one position.
TurnsAreCounted ==
    \/ memory.turns = 0 /\ memory.key = <<0, Unseen>>
    \/ memory.turns > 0 /\ attended.at = memory.key /\ attended.times >= memory.turns

Underway == pending \cup riding \cup replying

\* A conversion is in one place, until it ends, and the prompt under way carries those of
\* its own run.
ConversionsAreInOnePlace ==
    /\ DOMAIN ends = Asks /\ DOMAIN under = Asks
    /\ Underway \subseteq adjudicated /\ adjudicated \subseteq Asks
    /\ pending \cap riding = {} /\ pending \cap replying = {} /\ riding \cap replying = {}
    /\ \A a \in Asks \ adjudicated : ends[a] = 0
    /\ \A a \in adjudicated \ forgotten : ends[a] = IF a \in Underway THEN 0 ELSE 1
    /\ \A a \in riding : under[a] = flight
    /\ flight = 0 => riding = {}

WedgeInv == IdleTypes /\ PromptsAreCounted /\ TurnsAreCounted /\ StopsOnlyAWedgedRun

LEMMA Limits == /\ FutileLimit \in Nat \ {0} /\ TurnLimit \in Nat \ {0} /\ SendLimit \in Nat \ {0}
                /\ Unseen \notin Signatures /\ Start \in Signatures
BY IdleAssumption DEF IdleAssumption

LEMMA IdleInvInit == IdleInit => WedgeInv /\ ConversionsAreInOnePlace
<1> SUFFICES ASSUME IdleInit PROVE WedgeInv /\ ConversionsAreInOnePlace
    OBVIOUS
<1>1. <<0, Unseen>> \in Positions /\ 0 \in 0..FutileLimit /\ 0 \in 0..TurnLimit
    BY Limits DEF Positions
<1>2. current \in [id : Nat \ {0}, at : Signatures,
                   stop : {"none", "done", "interrupt", "noop", "blocked", "env"},
                   by : {"nobody", "report", "human", "idle", "turns"}, futile : Nat, prompted : BOOLEAN]
    BY Limits DEF IdleInit, Fresh
<1>3. memory \in [last : Signatures \cup {Unseen}, failures : Nat, key : Positions, turns : Nat]
    BY <1>1 DEF IdleInit, Blank
<1>4. asked \in [at : Positions, times : 0..FutileLimit] /\ attended \in [at : Positions, times : 0..TurnLimit]
    BY <1>1 DEF IdleInit, Nobody
<1>5. PromptsAreCounted /\ TurnsAreCounted /\ StopsOnlyAWedgedRun
    BY DEF IdleInit, PromptsAreCounted, TurnsAreCounted, StopsOnlyAWedgedRun, Fresh, Blank
<1>6. ConversionsAreInOnePlace
    BY DEF IdleInit, ConversionsAreInOnePlace, Underway
<1>7. pointer \in BOOLEAN /\ blind \in BOOLEAN /\ current.by = "nobody"
    BY DEF IdleInit, Fresh
<1> QED BY <1>2, <1>3, <1>4, <1>5, <1>6, <1>7 DEF WedgeInv, IdleTypes
-----------------------------------------------------------------------------
\* Some of what is pending ends.
LEMMA EndingOnce ==
    ASSUME ConversionsAreInOnePlace, NEW gone \in SUBSET pending, pending' = pending \ gone, Ended(gone),
           UNCHANGED <<flight, riding, askVars>>
    PROVE  ConversionsAreInOnePlace'
BY DEF ConversionsAreInOnePlace, Underway, Ended, askVars

LEMMA ClosingOnce ==
    ASSUME ConversionsAreInOnePlace, Close({}), UNCHANGED <<flight, riding, askVars>>
    PROVE  ConversionsAreInOnePlace'
<1> DEFINE gone == {a \in pending \cup {} : under[a] = current.id}
<1>1. pending' = pending \ gone /\ Ended(gone) /\ gone \in SUBSET pending
    BY DEF Close
<1> HIDE DEF gone
<1> QED BY <1>1, EndingOnce

LEMMA EndOnce ==
    ASSUME ConversionsAreInOnePlace, NEW kind, NEW by, NEW archive \in BOOLEAN, End(kind, by, archive, {}),
           UNCHANGED <<flight, riding>>
    PROVE  ConversionsAreInOnePlace'
<1>1. CASE archive
    BY <1>1, ClosingOnce DEF End
<1>2. CASE ~archive
    BY <1>2 DEF End, ConversionsAreInOnePlace, Underway, askVars
<1> QED BY <1>1, <1>2

LEMMA ConversionsStep ==
    IdleTypes /\ ConversionsAreInOnePlace /\ [IdleNext]_idleVars => ConversionsAreInOnePlace'
<1> SUFFICES ASSUME IdleTypes, ConversionsAreInOnePlace, [IdleNext]_idleVars PROVE ConversionsAreInOnePlace'
    OBVIOUS
<1>1. CASE UNCHANGED <<flight, queueVars>>
    BY <1>1 DEF ConversionsAreInOnePlace, Underway, queueVars, askVars
<1>2. CASE Chat \/ Report \/ \E s \in Signatures : MoveTo(s) \/ Answer(s)
    BY <1>1, <1>2 DEF Chat, Report, MoveTo, Answer
<1>3. CASE Reboot
    BY <1>3 DEF Reboot, ConversionsAreInOnePlace, Underway
<1>4. ASSUME NEW a \in Asks, RefuseAsk(a) PROVE ConversionsAreInOnePlace'
    BY <1>4 DEF RefuseAsk, ConversionsAreInOnePlace, Underway
<1>5. ASSUME NEW a \in Asks, Convert(a) PROVE ConversionsAreInOnePlace'
    BY <1>5 DEF Convert, ConversionsAreInOnePlace, Underway
<1>6. CASE HaltPass
    BY <1>6, ClosingOnce DEF HaltPass
<1>7. CASE ClosedPass
    BY <1>7, ClosingOnce DEF ClosedPass
<1>8. CASE FutilePass
    BY <1>8, EndOnce DEF FutilePass
<1>9. CASE WaitsPass
    <2>1. (~Waiting("blocked")) \in BOOLEAN
        OBVIOUS
    <2> QED BY <1>9, <2>1, EndOnce DEF WaitsPass
<1>10. CASE SilentPass
    <2>1. CASE current.at \in Stuck
        BY <1>10, <2>1, EndOnce DEF SilentPass
    <2>2. CASE current.at \notin Stuck
        BY <1>1, <1>10, <2>2 DEF SilentPass, queueVars
    <2> QED BY <2>1, <2>2
<1>11. CASE HeldBackPass
    BY <1>1, <1>11 DEF HeldBackPass
<1>12. CASE ThrownPass
    <2>1. PICK gone \in {pending, Foreign} : pending' = pending \ gone /\ Ended(gone)
        <3> DEFINE givenUp == memory.failures + 1 >= SendLimit
        <3>1. pending' = (IF givenUp THEN {} ELSE Of(current.id)) /\ Ended(IF givenUp THEN pending ELSE Foreign)
            BY <1>12 DEF ThrownPass
        <3> HIDE DEF givenUp
        <3>2. CASE givenUp
            BY <3>1, <3>2
        <3>3. CASE ~givenUp
            <4>1. Of(current.id) = pending \ Foreign
                BY DEF Foreign, Of
            <4> QED BY <3>1, <3>3, <4>1
        <3> QED BY <3>2, <3>3
    <2>2. gone \in SUBSET pending
        BY DEF Foreign
    <2>3. UNCHANGED <<flight, riding, askVars>>
        BY <1>12 DEF ThrownPass
    <2> QED BY <2>1, <2>2, <2>3, EndingOnce
<1>13. CASE PromptPass
    <2>1. /\ flight = 0 /\ flight' = current.id /\ riding' = Of(current.id) /\ pending' = {} /\ Ended(Foreign)
          /\ UNCHANGED askVars
        BY <1>13 DEF PromptPass, Leaves
    <2>2. riding = {} /\ Underway' = Of(current.id) \cup replying /\ Underway = pending \cup replying
        BY <2>1 DEF ConversionsAreInOnePlace, Underway, askVars
    <2>3. Of(current.id) \subseteq pending /\ Foreign = pending \ Of(current.id)
        BY DEF Of, Foreign
    <2>4. \A a \in riding' : under'[a] = flight'
        BY <2>1 DEF Of, askVars
    <2>5. \A a \in Asks \ adjudicated' : ends'[a] = 0
        BY <2>1, <2>3 DEF ConversionsAreInOnePlace, Underway, Ended, askVars
    <2>6. ASSUME NEW a \in adjudicated' \ forgotten' PROVE ends'[a] = IF a \in Underway' THEN 0 ELSE 1
        <3>1. a \in Asks /\ ends'[a] = (IF a \in Foreign THEN ends[a] + 1 ELSE ends[a])
              /\ ends[a] = IF a \in Underway THEN 0 ELSE 1
            BY <2>1, <2>6 DEF ConversionsAreInOnePlace, Ended, askVars
        <3>2. a \in Foreign => a \notin Underway'
            BY <2>2, <2>3 DEF ConversionsAreInOnePlace
        <3> QED BY <2>2, <2>3, <3>1, <3>2
    <2>7. flight' = 0 => riding' = {}
        BY <2>1 DEF IdleTypes
    <2> QED BY <2>1, <2>2, <2>3, <2>4, <2>5, <2>6, <2>7 DEF ConversionsAreInOnePlace, Ended, askVars
<1>14. ASSUME NEW ok \in BOOLEAN, SettlePrompt(ok) PROVE ConversionsAreInOnePlace'
    <2>1. flight # 0 /\ flight' = 0 /\ riding' = {} /\ UNCHANGED askVars
        BY <1>14 DEF SettlePrompt
    <2>2. CASE ok
        <3>1. Ended(riding) /\ UNCHANGED pending
            BY <1>14, <2>2 DEF SettlePrompt
        <3> QED BY <2>1, <3>1 DEF ConversionsAreInOnePlace, Underway, Ended, askVars
    <2>3. CASE ~ok
        <3>1. pending' = pending \cup riding /\ UNCHANGED ends
            BY <1>14, <2>3 DEF SettlePrompt
        <3> QED BY <2>1, <3>1 DEF ConversionsAreInOnePlace, Underway, askVars
    <2> QED BY <2>2, <2>3
<1>15. ASSUME NEW m \in 1..MaxEvents, Turn(m) PROVE ConversionsAreInOnePlace'
    <2>1. \/ UNCHANGED queueVars
          \/ UNCHANGED <<riding, askVars>> /\ (UNCHANGED <<pending, ends>> \/ Close({}))
        BY <1>15 DEF Turn
    <2>2. UNCHANGED flight
        BY <1>15 DEF Turn
    <2>3. CASE UNCHANGED queueVars
        BY <1>1, <2>2, <2>3
    <2>4. CASE UNCHANGED <<riding, askVars>> /\ UNCHANGED <<pending, ends>>
        BY <1>1, <2>2, <2>4 DEF queueVars
    <2>5. CASE UNCHANGED <<riding, askVars>> /\ Close({})
        BY <2>2, <2>5, ClosingOnce
    <2> QED BY <2>1, <2>3, <2>4, <2>5
<1>16. CASE UNCHANGED idleVars
    BY <1>1, <1>16 DEF idleVars, queueVars, askVars
<1> QED
    BY <1>2, <1>3, <1>4, <1>5, <1>6, <1>7, <1>8, <1>9, <1>10, <1>11, <1>12, <1>13, <1>14, <1>15, <1>16 DEF IdleNext

-----------------------------------------------------------------------------
\* One more of the same position.
LEMMA AgainCounts ==
    ASSUME IdleTypes, NEW limit \in Nat \ {0}, NEW seen \in [at : Positions, times : 0..limit]
    PROVE  /\ Again(seen, limit) \in [at : Positions, times : 0..limit]
           /\ Again(seen, limit).at = Key /\ Again(seen, limit).times >= 1
           /\ seen.at = Key => \A n \in Nat : seen.times >= n \/ seen.times = limit =>
                  Again(seen, limit).times >= n + 1 \/ Again(seen, limit).times = limit
<1>1. Key \in Positions
    BY DEF IdleTypes, Key, Positions
<1>2. (IF seen.at # Key THEN 1 ELSE IF seen.times < limit THEN seen.times + 1 ELSE limit) \in 1..limit
    OBVIOUS
<1>3. seen.at = Key => \A n \in Nat : seen.times >= n \/ seen.times = limit =>
           \/ (IF seen.times < limit THEN seen.times + 1 ELSE limit) >= n + 1
           \/ (IF seen.times < limit THEN seen.times + 1 ELSE limit) = limit
    OBVIOUS
<1> QED BY <1>1, <1>2, <1>3 DEF Again

\* A run that is stopped is left as it stopped, and so are the counts.
LEMMA StoppedStays ==
    ASSUME StopsOnlyAWedgedRun, UNCHANGED <<current, asked, attended>>, ~blind' => ~blind
    PROVE  StopsOnlyAWedgedRun'
BY DEF StopsOnlyAWedgedRun, Key

\* The counter is put back to zero for a run that moved, and is otherwise as it was.
LEMMA CounterKept ==
    ASSUME WedgeInv, NEW kind \in {"blocked", "noop"}, NEW by \in {"idle"},
           UNCHANGED <<asked, attended, memory>>,
           current' = [current EXCEPT !.stop = kind, !.by = by, !.futile = Futile],
           ~blind' => ~blind \/ Moved, blind' \in BOOLEAN, pointer' \in BOOLEAN,
           by = "idle" /\ kind = "noop" => FutileReached
    PROVE  WedgeInv'
<1> USE DEF WedgeInv
<1>1. Futile \in Nat /\ (Moved => Futile = 0) /\ (~Moved => Futile = current.futile)
    BY DEF Futile, IdleTypes
<1>2. IdleTypes' /\ current'.futile = Futile /\ Key' = Key /\ current'.id = current.id /\ current'.stop = kind
      /\ current'.by = by
    BY <1>1 DEF IdleTypes, Key
<1>3. PromptsAreCounted'
    BY <1>1, <1>2 DEF PromptsAreCounted
<1>4. TurnsAreCounted'
    BY DEF TurnsAreCounted
<1>5. StopsOnlyAWedgedRun'
    <2>1. ASSUME kind = "noop", by = "idle", ~blind' PROVE asked.at = Key /\ asked.times = FutileLimit
        <3>1. Futile >= FutileLimit /\ FutileLimit \in Nat \ {0}
            BY <2>1, Limits DEF FutileReached
        <3>2. ~Moved /\ current.futile = Futile /\ ~blind
            BY <1>1, <2>1, <3>1
        <3>3. /\ memory.last = current.at /\ asked.at = Key
              /\ asked.times >= current.futile \/ asked.times = FutileLimit
            BY <1>1, <3>1, <3>2 DEF PromptsAreCounted, Moved, Key
        <3>4. asked.times \in 0..FutileLimit
            BY DEF IdleTypes
        <3> QED BY <1>1, <3>1, <3>2, <3>3, <3>4
    <2> QED BY <1>2, <2>1 DEF StopsOnlyAWedgedRun
<1> QED BY <1>2, <1>3, <1>4, <1>5

LEMMA WedgeStep == WedgeInv /\ [IdleNext]_idleVars => WedgeInv'
<1> SUFFICES ASSUME WedgeInv, [IdleNext]_idleVars PROVE WedgeInv'
    OBVIOUS
<1> USE DEF WedgeInv
<1>0. /\ FutileLimit \in Nat \ {0} /\ TurnLimit \in Nat \ {0}
      /\ Unseen \notin Signatures /\ Start \in Signatures
    BY Limits
<1>1. CASE UNCHANGED <<current, pointer, memory, asked, attended, blind>>
    BY <1>1 DEF IdleTypes, PromptsAreCounted, TurnsAreCounted, StopsOnlyAWedgedRun, Key
<1>2. CASE Chat
    <2>1. /\ current' = Fresh(current.id + 1) /\ pointer' = TRUE /\ blind' = FALSE
          /\ UNCHANGED <<memory, attended, asked>>
        BY <1>2 DEF Chat, turnVars
    <2>2. current'.id \in Nat \ {0}
        BY <2>1 DEF IdleTypes, Fresh
    <2>3. current' \in [id : Nat \ {0}, at : Signatures,
                        stop : {"none", "done", "interrupt", "noop", "blocked", "env"},
                        by : {"nobody", "report", "human", "idle", "turns"}, futile : Nat, prompted : BOOLEAN]
        BY <1>0, <2>1, <2>2 DEF Fresh
    <2>4. IdleTypes'
        BY <2>1, <2>3 DEF IdleTypes, Fresh
    <2> QED BY <2>1, <2>4 DEF PromptsAreCounted, TurnsAreCounted, StopsOnlyAWedgedRun, Fresh
<1>3. CASE Report
    <2>1. current' = [current EXCEPT !.stop = "done", !.by = "report"]
          /\ UNCHANGED <<pointer, memory, attended, asked, blind>>
        BY <1>3 DEF Report, turnVars
    <2>2. IdleTypes'
        BY <2>1 DEF IdleTypes
    <2> QED BY <2>1, <2>2 DEF IdleTypes, PromptsAreCounted, TurnsAreCounted, StopsOnlyAWedgedRun
<1>4. ASSUME NEW s \in Signatures, MoveTo(s) PROVE WedgeInv'
    <2>1. /\ current' = [current EXCEPT !.at = s] /\ current.stop = "none"
          /\ UNCHANGED <<pointer, memory, attended, asked, blind>>
        BY <1>4 DEF MoveTo, turnVars, Live
    <2>2. IdleTypes' /\ current'.stop = "none" /\ current'.by = current.by /\ current'.futile = current.futile
          /\ current'.id = current.id
        BY <2>1 DEF IdleTypes
    <2> QED BY <2>1, <2>2 DEF IdleTypes, PromptsAreCounted, TurnsAreCounted, StopsOnlyAWedgedRun
<1>5. ASSUME NEW s \in Signatures, Answer(s) PROVE WedgeInv'
    <2>1. /\ current' = [current EXCEPT !.at = s, !.stop = "none", !.by = "nobody"]
          /\ UNCHANGED <<pointer, memory, attended, asked, blind>>
        BY <1>5 DEF Answer, turnVars
    <2>2. IdleTypes' /\ current'.by = "nobody" /\ current'.futile = current.futile /\ current'.id = current.id
        BY <2>1 DEF IdleTypes
    <2> QED BY <2>1, <2>2 DEF PromptsAreCounted, TurnsAreCounted, StopsOnlyAWedgedRun
<1>6. CASE Reboot
    <2>1. memory' = Blank /\ blind' = TRUE /\ UNCHANGED <<current, pointer, attended, asked>>
        BY <1>6 DEF Reboot
    <2>2. IdleTypes'
        BY <2>1 DEF IdleTypes, Blank, Positions
    <2> QED BY <2>1, <2>2 DEF PromptsAreCounted, TurnsAreCounted, StopsOnlyAWedgedRun, Blank, Key
<1>7. CASE (\E a \in Asks : RefuseAsk(a) \/ Convert(a)) \/ \E ok \in BOOLEAN : SettlePrompt(ok)
    BY <1>1, <1>7 DEF RefuseAsk, Convert, SettlePrompt, turnVars
<1>8. CASE HaltPass
    <2>1. current' = [current EXCEPT !.stop = "interrupt", !.by = "human"] /\ pointer' = FALSE
          /\ UNCHANGED <<memory, attended, asked, blind>>
        BY <1>8 DEF HaltPass, turnVars
    <2>2. IdleTypes'
        BY <2>1 DEF IdleTypes
    <2> QED BY <2>1, <2>2 DEF IdleTypes, PromptsAreCounted, TurnsAreCounted, StopsOnlyAWedgedRun
<1>9. CASE ClosedPass
    <2>1. pointer' = FALSE /\ UNCHANGED <<current, memory, attended, asked, blind>>
        BY <1>9 DEF ClosedPass, turnVars
    <2>2. IdleTypes'
        BY <2>1 DEF IdleTypes
    <2>3. PromptsAreCounted' /\ TurnsAreCounted'
        BY <2>1 DEF PromptsAreCounted, TurnsAreCounted, Key
    <2>4. StopsOnlyAWedgedRun'
        BY <2>1 DEF StopsOnlyAWedgedRun, Key
    <2> QED BY <2>2, <2>3, <2>4
<1>10. ASSUME NEW kind \in {"noop", "blocked"}, NEW archive \in BOOLEAN, End(kind, "idle", archive, {}),
             kind = "noop" => FutileReached, UNCHANGED memory
       PROVE  WedgeInv'
    <2>1. /\ current' = [current EXCEPT !.stop = kind, !.by = "idle", !.futile = Futile]
          /\ UNCHANGED <<attended, asked, blind>> /\ pointer' \in {FALSE, pointer}
        BY <1>10 DEF End, Stopped, turnVars
    <2> QED BY <1>10, <2>1, CounterKept DEF IdleTypes
<1>11. CASE FutilePass
    BY <1>10, <1>11 DEF FutilePass
<1>12. CASE WaitsPass
    <2>1. (~Waiting("blocked")) \in BOOLEAN
        OBVIOUS
    <2> QED BY <1>10, <1>12, <2>1 DEF WaitsPass
<1>13. ASSUME current.stop = "none", current' = [current EXCEPT !.futile = Futile], blind' = (blind /\ ~Moved),
             UNCHANGED <<pointer, memory, attended, asked>>
       PROVE  WedgeInv'
    <2>1. Futile \in Nat /\ (Moved => Futile = 0) /\ (~Moved => Futile = current.futile)
        BY DEF Futile, IdleTypes
    <2>2. IdleTypes' /\ current'.futile = Futile /\ current'.stop = "none" /\ current'.id = current.id
          /\ current'.by = current.by
        BY <1>13, <2>1 DEF IdleTypes
    <2>3. PromptsAreCounted'
        <3>1. ASSUME ~blind', Futile > 0 PROVE ~blind /\ Futile = current.futile
            <4>1. ~Moved
                BY <2>1, <3>1
            <4> QED BY <1>13, <2>1, <3>1, <4>1, Zenon
        <3> QED BY <1>13, <2>2, <3>1 DEF PromptsAreCounted
    <2>4. TurnsAreCounted'
        BY <1>13 DEF TurnsAreCounted
    <2>5. current'.by = "nobody"
        BY <1>13, <2>2 DEF IdleTypes
    <2> QED BY <2>2, <2>3, <2>4, <2>5 DEF StopsOnlyAWedgedRun
<1>14. CASE SilentPass
    <2>1. CASE current.at \in Stuck
        BY <1>10, <1>14, <2>1 DEF SilentPass
    <2>2. CASE current.at \notin Stuck
        BY <1>13, <1>14, <2>2 DEF SilentPass, turnVars, Live
    <2> QED BY <2>1, <2>2
<1>15. CASE HeldBackPass
    BY <1>13, <1>15 DEF HeldBackPass, MayPrompt, Live, turnVars
<1>16. CASE ThrownPass
    <2> DEFINE givenUp == memory.failures + 1 >= SendLimit
    <2>1. /\ memory' = [memory EXCEPT !.failures = IF givenUp THEN 0 ELSE memory.failures + 1]
          /\ current.stop = "none" /\ blind' = (blind /\ ~Moved) /\ pointer' = ~givenUp
          /\ current' = IF givenUp THEN [current EXCEPT !.stop = "env", !.by = "idle", !.futile = Futile]
                        ELSE [current EXCEPT !.futile = Futile]
          /\ UNCHANGED <<asked, attended>>
        BY <1>16 DEF ThrownPass, MayPrompt, Live, Stopped, turnVars
    <2>2. Futile \in Nat /\ (Moved => Futile = 0) /\ (~Moved => Futile = current.futile)
        BY DEF Futile, IdleTypes
    <2>3. memory'.last = memory.last /\ memory'.key = memory.key /\ memory'.turns = memory.turns
          /\ memory' \in [last : Signatures \cup {Unseen}, failures : Nat, key : Positions, turns : Nat]
        <3>1. (IF givenUp THEN 0 ELSE memory.failures + 1) \in Nat
            BY DEF IdleTypes
        <3> QED BY <2>1, <3>1 DEF IdleTypes
    <2>4. /\ current' \in [id : Nat \ {0}, at : Signatures,
                           stop : {"none", "done", "interrupt", "noop", "blocked", "env"},
                           by : {"nobody", "report", "human", "idle", "turns"}, futile : Nat, prompted : BOOLEAN]
          /\ current'.futile = Futile /\ current'.id = current.id
          /\ (current'.stop = "none" => current'.by = "nobody")
          /\ current'.by # "turns" /\ (current'.by = "idle" => current'.stop # "noop")
        <3>1. CASE givenUp
            BY <2>1, <2>2, <3>1 DEF IdleTypes
        <3>2. CASE ~givenUp
            BY <2>1, <2>2, <3>2 DEF IdleTypes
        <3> QED BY <3>1, <3>2
    <2>5. IdleTypes'
        BY <2>1, <2>3, <2>4 DEF IdleTypes
    <2> HIDE DEF givenUp
    <2>6. PromptsAreCounted'
        <3>1. ASSUME ~blind', Futile > 0 PROVE ~blind /\ Futile = current.futile
            <4>1. ~Moved
                BY <2>2, <3>1
            <4> QED BY <2>1, <2>2, <3>1, <4>1, Zenon
        <3> QED BY <2>1, <2>3, <2>4, <3>1 DEF PromptsAreCounted
    <2>7. TurnsAreCounted'
        BY <2>1, <2>3 DEF TurnsAreCounted
    <2> QED BY <2>4, <2>5, <2>6, <2>7 DEF StopsOnlyAWedgedRun
<1>17. CASE PromptPass
    <2> DEFINE futile == IF ResumedMidCount THEN current.futile ELSE IF Moved THEN 0 ELSE current.futile + 1
    <2>1. /\ current.stop = "none" /\ current' = [current EXCEPT !.futile = futile, !.prompted = TRUE]
          /\ memory' = [memory EXCEPT !.last = current.at, !.failures = 0]
          /\ asked' = Again(asked, FutileLimit) /\ blind' = (blind /\ futile > 0)
          /\ UNCHANGED <<pointer, attended>>
        BY <1>17 DEF PromptPass, Leaves, MayPrompt, Live, turnVars
    <2>2. futile \in Nat
        BY DEF IdleTypes
    <2>3. futile > 0 /\ ~blind => \/ current.futile = 0 /\ futile = 1
                                  \/ /\ asked.at = Key /\ futile = current.futile + 1
                                     /\ asked.times >= current.futile \/ asked.times = FutileLimit
        <3> SUFFICES ASSUME futile > 0, ~blind, current.futile # 0
                     PROVE  /\ asked.at = Key /\ futile = current.futile + 1
                            /\ asked.times >= current.futile \/ asked.times = FutileLimit
            BY <2>2 DEF ResumedMidCount, PromptsAreCounted, IdleTypes
        <3>1. /\ memory.last # Unseen /\ asked.at = <<current.id, memory.last>>
              /\ asked.times >= current.futile \/ asked.times = FutileLimit
            BY DEF PromptsAreCounted, IdleTypes
        <3>2. ~ResumedMidCount /\ ~Moved
            BY <3>1 DEF ResumedMidCount
        <3> QED BY <3>1, <3>2 DEF Moved, Key
    <2> HIDE DEF futile
    <2>4. /\ asked' \in [at : Positions, times : 0..FutileLimit] /\ asked'.at = Key /\ asked'.times >= 1
          /\ asked.at = Key => \A n \in Nat : asked.times >= n \/ asked.times = FutileLimit =>
                 asked'.times >= n + 1 \/ asked'.times = FutileLimit
        <3>1. asked \in [at : Positions, times : 0..FutileLimit]
            BY DEF IdleTypes
        <3> QED BY <1>0, <2>1, <3>1, AgainCounts
    <2>5. /\ current' \in [id : Nat \ {0}, at : Signatures,
                           stop : {"none", "done", "interrupt", "noop", "blocked", "env"},
                           by : {"nobody", "report", "human", "idle", "turns"}, futile : Nat, prompted : BOOLEAN]
          /\ current'.futile = futile /\ current'.id = current.id /\ current'.by = "nobody"
          /\ memory' \in [last : Signatures \cup {Unseen}, failures : Nat, key : Positions, turns : Nat]
          /\ memory'.last = current.at /\ memory'.key = memory.key /\ memory'.turns = memory.turns
          /\ current.at # Unseen /\ current.futile \in Nat
        BY <1>0, <2>1, <2>2 DEF IdleTypes
    <2>6. IdleTypes'
        BY <2>1, <2>4, <2>5 DEF IdleTypes
    <2>7. PromptsAreCounted'
        <3> SUFFICES ASSUME ~blind', futile > 0
                     PROVE  asked'.times >= futile \/ asked'.times = FutileLimit
            BY <2>4, <2>5 DEF PromptsAreCounted, Key
        <3>1. ~blind
            BY <2>1, Zenon
        <3> QED BY <2>2, <2>3, <2>4, <2>5, <3>1
    <2>8. TurnsAreCounted'
        BY <2>1, <2>5 DEF TurnsAreCounted
    <2> QED BY <2>5, <2>6, <2>7, <2>8 DEF StopsOnlyAWedgedRun
<1>18. ASSUME NEW m \in 1..MaxEvents, Turn(m) PROVE WedgeInv'
    <2> DEFINE turns == IF memory.key = Key THEN memory.turns + 1 ELSE 1
               over == turns >= TurnLimit
    <2>1. UNCHANGED <<asked, blind>>
        BY <1>18 DEF Turn
    <2>2. CASE ~Live \/ AlreadyCounted(m)
        <3>1. UNCHANGED <<current, pointer, memory, attended>>
            BY <1>18, <2>2 DEF Turn
        <3> QED BY <1>1, <2>1, <3>1
    <2>3. CASE Live /\ ~AlreadyCounted(m)
        <3>1. /\ attended' = Again(attended, TurnLimit)
              /\ memory' = [memory EXCEPT !.turns = IF over THEN 0 ELSE turns,
                                          !.key = IF over THEN <<0, Unseen>> ELSE Key]
              /\ over => /\ current' = [current EXCEPT !.stop = "noop", !.by = "turns"]
                         /\ pointer' = Waiting("noop")
              /\ ~over => UNCHANGED <<current, pointer>>
            BY <1>18, <2>3 DEF Turn, AlreadyCounted
        <3>2. /\ attended' \in [at : Positions, times : 0..TurnLimit] /\ attended'.at = Key /\ attended'.times >= 1
              /\ attended.at = Key => \A n \in Nat : attended.times >= n \/ attended.times = TurnLimit =>
                     attended'.times >= n + 1 \/ attended'.times = TurnLimit
            <4>1. attended \in [at : Positions, times : 0..TurnLimit]
                BY DEF IdleTypes
            <4> QED BY <1>0, <3>1, <4>1, AgainCounts
        <3>3. turns \in Nat \ {0} /\ (attended'.times >= turns \/ attended'.times = TurnLimit)
            <4>1. CASE memory.key = Key
                <5>1. Key # <<0, Unseen>> /\ memory.turns \in Nat
                    BY DEF Key, IdleTypes
                <5>2. attended.at = Key /\ attended.times >= memory.turns
                    BY <4>1, <5>1 DEF TurnsAreCounted
                <5> QED BY <3>2, <4>1, <5>1, <5>2
            <4>2. CASE memory.key # Key
                BY <3>2, <4>2
            <4> QED BY <4>1, <4>2
        <3> HIDE DEF turns
        <3>4. Key \in Positions /\ <<0, Unseen>> \in Positions
            BY DEF Key, Positions, IdleTypes
        <3>5. memory' \in [last : Signatures \cup {Unseen}, failures : Nat, key : Positions, turns : Nat]
              /\ memory'.last = memory.last
              /\ memory'.turns = (IF over THEN 0 ELSE turns)
              /\ memory'.key = (IF over THEN <<0, Unseen>> ELSE Key)
            BY <3>1, <3>3, <3>4 DEF IdleTypes
        <3>6. attended'.times \in 0..TurnLimit
            BY <3>2
        <3>7. TurnsAreCounted'
            BY <1>0, <3>2, <3>3, <3>5, <3>6 DEF TurnsAreCounted
        <3>8. CASE over
            <4>1. /\ current' \in [id : Nat \ {0}, at : Signatures,
                                   stop : {"none", "done", "interrupt", "noop", "blocked", "env"},
                                   by : {"nobody", "report", "human", "idle", "turns"},
                                   futile : Nat, prompted : BOOLEAN]
                  /\ current'.stop = "noop" /\ current'.by = "turns" /\ current'.id = current.id
                  /\ current'.at = current.at /\ current'.futile = current.futile
                <5>1. current' = [current EXCEPT !.stop = "noop", !.by = "turns"]
                    BY <3>1, <3>8
                <5>2. current \in [id : Nat \ {0}, at : Signatures,
                                   stop : {"none", "done", "interrupt", "noop", "blocked", "env"},
                                   by : {"nobody", "report", "human", "idle", "turns"},
                                   futile : Nat, prompted : BOOLEAN]
                    BY DEF IdleTypes
                <5> QED BY <5>1, <5>2
            <4>2. pointer' \in BOOLEAN
                BY <3>1, <3>8 DEF Waiting
            <4>3. IdleTypes'
                BY <2>1, <3>2, <3>5, <4>1, <4>2 DEF IdleTypes
            <4>4. PromptsAreCounted'
                BY <2>1, <3>5, <4>1 DEF PromptsAreCounted
            <4>5. attended'.times = TurnLimit /\ attended'.at = Key'
                BY <1>0, <3>2, <3>3, <3>6, <3>8, <4>1 DEF Key
            <4> QED BY <3>7, <4>1, <4>3, <4>4, <4>5 DEF StopsOnlyAWedgedRun
        <3>9. CASE ~over
            <4>1. UNCHANGED <<current, pointer>> /\ current.by = "nobody"
                BY <2>3, <3>1, <3>9 DEF Live, IdleTypes
            <4>2. IdleTypes'
                BY <2>1, <3>2, <3>5, <4>1 DEF IdleTypes
            <4>3. PromptsAreCounted'
                BY <2>1, <3>5, <4>1 DEF PromptsAreCounted
            <4> QED BY <3>7, <4>1, <4>2, <4>3 DEF StopsOnlyAWedgedRun
        <3> QED BY <3>8, <3>9
    <2> QED BY <2>2, <2>3
<1>19. CASE UNCHANGED idleVars
    BY <1>1, <1>19 DEF idleVars, turnVars
<1> QED
    BY <1>2, <1>3, <1>4, <1>5, <1>6, <1>7, <1>8, <1>9, <1>11, <1>12, <1>14, <1>15, <1>16, <1>17, <1>18, <1>19
    DEF IdleNext

\* The engine stops a run for want of progress only where its last re-prompts, as many as
\* the limit, or its last turns, each counted once, all found it.
THEOREM OnlyWedgedRunsStop == IdleSpec => []StopsOnlyAWedgedRun
<1>1. WedgeInv => StopsOnlyAWedgedRun
    BY DEF WedgeInv
<1> QED BY <1>1, IdleInvInit, WedgeStep, PTL DEF IdleSpec

\* A refused ask's conversion is told once, or lost with the process: none is lost in
\* silence and none is told twice, whatever ends the run or rejects the prompt.
THEOREM RefusalsAreTold == IdleSpec => []RefusalsAreAccountedFor
<1>1. ConversionsAreInOnePlace => RefusalsAreAccountedFor
    <2> SUFFICES ASSUME ConversionsAreInOnePlace PROVE RefusalsAreAccountedFor
        OBVIOUS
    <2> DEFINE In(a) == {n \in 1..3 : a \in <<pending, riding, replying>>[n]}
    <2>1. ASSUME NEW a \in adjudicated \ forgotten PROVE ends[a] + Cardinality(In(a)) = 1
        <3>1. CASE a \in Underway
            <4>1. PICK n \in 1..3 : In(a) = {n}
                <5>1. CASE a \in pending
                    <6>1. In(a) = {1}
                        BY <5>1 DEF ConversionsAreInOnePlace
                    <6> QED BY <6>1
                <5>2. CASE a \in riding
                    <6>1. In(a) = {2}
                        BY <5>2 DEF ConversionsAreInOnePlace
                    <6> QED BY <6>1
                <5>3. CASE a \in replying
                    <6>1. In(a) = {3}
                        BY <5>3 DEF ConversionsAreInOnePlace
                    <6> QED BY <6>1
                <5> QED BY <3>1, <5>1, <5>2, <5>3 DEF Underway
            <4>2. Cardinality(In(a)) = 1
                BY <4>1, FS_Singleton
            <4>3. ends[a] = 0
                BY <3>1 DEF ConversionsAreInOnePlace
            <4> QED BY <4>2, <4>3
        <3>2. CASE a \notin Underway
            <4>1. In(a) = {}
                BY <3>2 DEF Underway
            <4>2. Cardinality(In(a)) = 0
                BY <4>1, FS_EmptySet
            <4>3. ends[a] = 1
                BY <3>2 DEF ConversionsAreInOnePlace
            <4> QED BY <4>2, <4>3
        <3> QED BY <3>1, <3>2
    <2> QED BY <2>1 DEF RefusalsAreAccountedFor, ConversionsAreInOnePlace
<1>2. WedgeInv => IdleTypes
    BY DEF WedgeInv
<1> QED BY <1>1, <1>2, IdleInvInit, WedgeStep, ConversionsStep, PTL DEF IdleSpec

-----------------------------------------------------------------------------
(* The evidence ledger: Evidence.                                           *)

Stages == {"new", "dead", "rest", "guard", "claim", "fill", "judge", "break", "read", "commit",
           "release", "unlink", "append", "settle"}
Words == {"none", "red", "green", "broken", "foreign", "torn"}

Lines == [run : Nat, number : Nat, verdict : Words]
Locals == [step : Stages, run : Nat, verdict : Words, number : Nat, tries : Nat]

\* A process between the create of its latch and its removal.
Latched == {"fill", "read", "commit", "release", "unlink"}
\* A process whose number is issued and not on the ledger yet.
Numbered == {"release", "unlink", "append"}

RecordTypes ==
    /\ up \subseteq Writers
    /\ latch \in [by : Writers \cup {NoWriter}, full : BOOLEAN]
    /\ counter \in Nat
    /\ lines \in Seq(Lines)
    /\ tail \in BOOLEAN
    /\ subject \in [state : {"PENDING", "RED"}, red : Nat, blocked : BOOLEAN]
    /\ doing \in [Writers -> Locals]
    /\ issued \in [Numbers -> Nat]
    /\ robbed \in BOOLEAN
    /\ handed \in [run : Nat, verdict : Words, last : Nat]
    /\ spent \in [runs : Nat, kills : Nat]

\* The latch is of the one process that is at work under it.
Exclusive == ~robbed => \A p \in up : doing[p].step \in Latched => latch.by = p

\* Every number is above those before it, until a latch is stolen.
NumbersGrow ==
    ~robbed =>
        /\ \A n \in Numbers : issued[n] <= 1 /\ (issued[n] > 0 => n <= counter)
        /\ \A p \in up : doing[p].step = "commit" => doing[p].number > counter
        /\ \A p \in up : doing[p].step \in Numbered =>
              /\ doing[p].number > 0 /\ doing[p].number <= counter
              /\ \A k \in DOMAIN lines : lines[k].number # doing[p].number
              /\ \A q \in up : doing[q].step \in Numbered /\ doing[q].number = doing[p].number => q = p
        /\ \A k \in DOMAIN lines :
              /\ lines[k].number <= counter
              /\ lines[k].verdict # "torn" => lines[k].number > 0
              /\ \A l \in DOMAIN lines : lines[l].number = lines[k].number /\ lines[k].number > 0 => l = k

\* A line without an end is the last and cannot be read.
TailIsTorn == tail => Len(lines) > 0 /\ lines[Len(lines)].verdict = "torn"

\* The red of that number is on the ledger, unless some line there cannot be read.
Backed(n) == Unreadable \/ \E k \in DOMAIN lines : lines[k].number = n /\ lines[k].verdict = "red"

RedsStand ==
    /\ subject.state = "RED" => Backed(subject.red)
    /\ \A p \in up : doing[p].step = "settle" /\ doing[p].verdict = "red" => Backed(doing[p].number)

EvidenceInv ==
    /\ RecordTypes /\ Exclusive /\ NumbersGrow /\ TailIsTorn /\ RedsStand
    /\ CriticsSeeTheLastRed

LEMMA SeqElement == ASSUME NEW T, NEW q \in Seq(T), NEW k \in DOMAIN q PROVE q[k] \in T
OBVIOUS

LEMMA MaxIsGreatest ==
    ASSUME NEW S \in SUBSET Int, S # {}, IsFiniteSet(S)
    PROVE  Max(S) \in S /\ \A y \in S : Max(S) >= y
<1>1. PICK x \in S : \A y \in S : y <= x
    BY FiniteMax
<1>2. \A y \in S : x >= y
    BY <1>1
<1> QED BY <1>2 DEF Max

LEMMA NextNumberIsNew ==
    ASSUME RecordTypes
    PROVE  NextNumber \in Nat /\ NextNumber > counter
<1> DEFINE S == NumbersOnTheLedger \cup {counter}
<1>1. ASSUME NEW k \in DOMAIN lines PROVE lines[k].number \in Nat
    <2>1. lines[k] \in Lines
        BY SeqElement DEF RecordTypes
    <2> QED BY <2>1 DEF Lines
<1>2. NumbersOnTheLedger \subseteq Nat /\ counter \in Nat
    BY <1>1 DEF NumbersOnTheLedger, RecordTypes
<1>3. IsFiniteSet(S)
    <2>1. IsFiniteSet(DOMAIN lines)
        BY FS_Interval DEF RecordTypes
    <2> DEFINE f == [k \in DOMAIN lines |-> lines[k].number]
    <2>2. NumbersOnTheLedger = {f[k] : k \in DOMAIN lines}
        BY DEF NumbersOnTheLedger
    <2>3. f \in Surjection(DOMAIN lines, NumbersOnTheLedger)
        BY <2>2 DEF Surjection
    <2>4. IsFiniteSet(NumbersOnTheLedger)
        <3> HIDE DEF f
        <3> QED BY <2>1, <2>3, FS_Surjection
    <2> QED BY <2>4, FS_AddElement
<1>4. S \in SUBSET Int /\ S # {} /\ counter \in S
    BY <1>2
<1> HIDE DEF S
<1>5. Max(S) \in S /\ Max(S) >= counter
    BY <1>3, <1>4, MaxIsGreatest
<1>6. Max(S) \in Nat
    BY <1>2, <1>5 DEF S
<1> QED BY <1>2, <1>5, <1>6 DEF NextNumber, S

LEMMA EvidenceInvInit == EvidenceInit => EvidenceInv
<1> SUFFICES ASSUME EvidenceInit PROVE EvidenceInv
    OBVIOUS
<1> USE DEF EvidenceInit
<1>1. RecordTypes
    <2>1. lines \in Seq(Lines)
        OBVIOUS
    <2>2. doing \in [Writers -> Locals]
        BY DEF Resting, Stages, Words, Locals
    <2>3. issued \in [Numbers -> Nat]
        OBVIOUS
    <2> QED BY <2>1, <2>2, <2>3 DEF RecordTypes, NoLatch, Words
<1>2. Exclusive /\ NumbersGrow /\ TailIsTorn
    BY EvidenceAssumption DEF Exclusive, NumbersGrow, TailIsTorn, Numbers
<1>3. RedsStand /\ CriticsSeeTheLastRed
    BY DEF RedsStand, CriticsSeeTheLastRed
<1> QED BY <1>1, <1>2, <1>3 DEF EvidenceInv

\* The verdicts of a run are words.
LEMMA VerdictsAreWords == Verdicts \subseteq Words \ {"torn", "none"}
BY DEF Verdicts, Verdict, Words

\* A process that only moves to another step keeps the rest of its record.
LEMMA SteppedTo ==
    ASSUME NEW d \in Locals, NEW s \in Stages
    PROVE  LET r == [d EXCEPT !.step = s]
           IN  r \in Locals /\ r.step = s /\ r.number = d.number /\ r.verdict = d.verdict
BY DEF Locals

\* A process that goes on without touching the number, the counter or the ledger.
LEMMA GoesOn ==
    ASSUME EvidenceInv, NEW p \in up, NEW r \in Locals, doing' = [doing EXCEPT ![p] = r],
           UNCHANGED <<up, counter, lines, tail, issued, handed>>,
           latch' \in [by : Writers \cup {NoWriter}, full : BOOLEAN], robbed' \in BOOLEAN, robbed => robbed',
           Exclusive', spent' \in [runs : Nat, kills : Nat],
           subject' \in [state : {"PENDING", "RED"}, red : Nat, blocked : BOOLEAN],
           subject'.state = "RED" => Backed(subject'.red),
           r.step = "commit" => r.number > counter,
           r.step \in Numbered => doing[p].step \in Numbered /\ r.number = doing[p].number,
           r.step # "settle"
    PROVE  EvidenceInv'
<1> USE DEF EvidenceInv
<1>1. RecordTypes'
    BY DEF RecordTypes
<1>2. doing'[p] = r /\ \A q \in up : q # p => doing'[q] = doing[q]
    BY DEF RecordTypes
<1>3. NumbersGrow'
    <2> SUFFICES ASSUME ~robbed' PROVE NumbersGrow'
        BY DEF NumbersGrow
    <2>1. \A n \in Numbers : issued'[n] <= 1 /\ (issued'[n] > 0 => n <= counter')
        BY DEF NumbersGrow
    <2>2. \A q \in up' : doing'[q].step = "commit" => doing'[q].number > counter'
        BY <1>2 DEF NumbersGrow
    <2>3. ASSUME NEW q \in up', doing'[q].step \in Numbered
          PROVE  doing[q].step \in Numbered /\ doing'[q].number = doing[q].number
        BY <1>2, <2>3
    <2>4. \A q \in up' : doing'[q].step \in Numbered =>
              /\ doing'[q].number > 0 /\ doing'[q].number <= counter'
              /\ \A k \in DOMAIN lines' : lines'[k].number # doing'[q].number
        BY <2>3 DEF NumbersGrow
    <2>5. \A q \in up' : doing'[q].step \in Numbered =>
              \A o \in up' : doing'[o].step \in Numbered /\ doing'[o].number = doing'[q].number => o = q
        BY <2>3 DEF NumbersGrow
    <2>6. \A k \in DOMAIN lines' :
              /\ lines'[k].number <= counter'
              /\ lines'[k].verdict # "torn" => lines'[k].number > 0
              /\ \A l \in DOMAIN lines' : lines'[l].number = lines'[k].number /\ lines'[k].number > 0 => l = k
        BY DEF NumbersGrow
    <2> QED BY <2>1, <2>2, <2>4, <2>5, <2>6 DEF NumbersGrow
<1>4. TailIsTorn'
    BY DEF TailIsTorn
<1>5. RedsStand'
    BY <1>2 DEF RedsStand, Backed, Unreadable
<1>6. CriticsSeeTheLastRed'
    BY DEF CriticsSeeTheLastRed, RecordTypes
<1> QED BY <1>1, <1>3, <1>4, <1>5, <1>6

\* The latch of another process at work is not taken from it.
LEMMA RemovalIsExclusive ==
    ASSUME EvidenceInv, NEW p \in up, RemoveLatch(p), NEW r \in Locals, doing' = [doing EXCEPT ![p] = r],
           UNCHANGED up, r.step \notin Latched
    PROVE  Exclusive' /\ latch' \in [by : Writers \cup {NoWriter}, full : BOOLEAN] /\ robbed' \in BOOLEAN
<1>1. doing'[p] = r /\ \A q \in up : q # p => doing'[q] = doing[q]
    BY DEF EvidenceInv, RecordTypes
<1>2. latch' = NoLatch /\ robbed' = (robbed \/ latch.by \in up \ {p})
    BY DEF RemoveLatch
<1> QED BY <1>1, <1>2 DEF EvidenceInv, Exclusive, RecordTypes, NoLatch

LEMMA EvidenceInvStep == EvidenceInv /\ [EvidenceNext]_evidenceVars => EvidenceInv'
<1> SUFFICES ASSUME EvidenceInv, [EvidenceNext]_evidenceVars PROVE EvidenceInv'
    OBVIOUS
<1> USE DEF EvidenceInv
<1>0. subject.state = "RED" => Backed(subject.red)
    BY DEF RedsStand
<1>l. \A p \in Writers : doing[p] \in Locals
    BY DEF RecordTypes
<1>1. ASSUME NEW p \in Writers, OpenWorkspace(p) PROVE EvidenceInv'
    <2>1. doing'[p] = Resting /\ (\A q \in up : doing'[q] \in {doing[q], Resting}) /\ up' = up \cup {p}
        BY <1>1 DEF OpenWorkspace, RecordTypes
    <2>2. RecordTypes'
        BY <1>1 DEF OpenWorkspace, RecordTypes, diskVars, witnesses, Locals, Resting, Stages, Words
    <2>3. \A q \in up' : (q \in up /\ doing'[q] = doing[q]) \/ doing'[q] = Resting
        BY <2>1
    <2>4. UNCHANGED <<latch, counter, lines, tail, subject, witnesses>>
        BY <1>1 DEF OpenWorkspace
    <2>5. Exclusive' /\ TailIsTorn' /\ CriticsSeeTheLastRed'
        BY <2>3, <2>4 DEF Exclusive, TailIsTorn, CriticsSeeTheLastRed, Resting, Latched, witnesses
    <2>6. RedsStand'
        BY <2>3, <2>4 DEF RedsStand, Backed, Unreadable, Resting
    <2>7. NumbersGrow'
        BY <2>3, <2>4 DEF NumbersGrow, Resting, Numbered, witnesses
    <2> QED BY <2>2, <2>5, <2>6, <2>7
<1>2. ASSUME NEW p \in Writers, KillWriter(p) PROVE EvidenceInv'
    <2> DEFINE torn == [run |-> 0, number |-> 0, verdict |-> "torn"]
    <2>1. /\ up' = up \ {p} /\ UNCHANGED <<holder, latch, counter, subject, witnesses>>
          /\ \A q \in up' : q \in up /\ doing'[q] = doing[q]
        BY <1>2 DEF KillWriter, RecordTypes
    <2>2. torn \in Lines
        BY DEF Lines, Words
    <2>3. \/ UNCHANGED <<lines, tail>>
          \/ tail' = TRUE /\ lines' = IF tail THEN lines ELSE Append(lines, torn)
        BY <1>2 DEF KillWriter
    <2>4. /\ lines' \in Seq(Lines) /\ tail' \in BOOLEAN
          /\ TailIsTorn'
          /\ \A k \in DOMAIN lines : k \in DOMAIN lines' /\ lines'[k] = lines[k]
          /\ \A k \in DOMAIN lines' : k \in DOMAIN lines \/ lines'[k] = torn
        <3>0. TailIsTorn
            OBVIOUS
        <3> HIDE DEF torn, EvidenceInv
        <3>1. lines \in Seq(Lines) /\ tail \in BOOLEAN
            BY DEF RecordTypes, EvidenceInv
        <3>2. torn.verdict = "torn"
            BY DEF torn
        <3>3. CASE UNCHANGED <<lines, tail>>
            <4>1. lines' = lines /\ tail' = tail
                BY <3>3
            <4>2. TailIsTorn'
                BY <3>0, <4>1 DEF TailIsTorn
            <4> QED BY <3>1, <4>1, <4>2
        <3>4. CASE tail' = TRUE /\ tail /\ lines' = lines
            <4>1. TailIsTorn'
                BY <3>0, <3>4 DEF TailIsTorn
            <4> QED BY <3>1, <3>4, <4>1
        <3>5. CASE tail' = TRUE /\ ~tail /\ lines' = Append(lines, torn)
            BY <2>2, <3>1, <3>2, <3>5 DEF TailIsTorn
        <3> QED BY <2>3, <3>1, <3>3, <3>4, <3>5
    <2>5. RecordTypes'
        <3>1. doing' \in [Writers -> Locals]
            <4>1. [Resting EXCEPT !.step = "dead"] \in Locals
                BY DEF Resting, Locals, Stages, Words
            <4> QED BY <1>2, <4>1 DEF KillWriter, RecordTypes
        <3>2. spent' \in [runs : Nat, kills : Nat]
            BY <1>2 DEF KillWriter, RecordTypes
        <3> QED BY <2>1, <2>4, <3>1, <3>2 DEF RecordTypes, witnesses
    <2>6. Exclusive' /\ CriticsSeeTheLastRed'
        BY <2>1 DEF Exclusive, CriticsSeeTheLastRed, witnesses
    <2>7. \A n : Backed(n) => Backed(n)'
        BY <2>4 DEF Backed, Unreadable
    <2>8. RedsStand'
        BY <2>1, <2>7 DEF RedsStand
    <2>9. NumbersGrow'
        <3> SUFFICES ASSUME ~robbed PROVE NumbersGrow'
            BY <2>1 DEF NumbersGrow, witnesses
        <3>1. torn.number = 0 /\ torn.verdict = "torn" /\ counter \in Nat
            BY DEF RecordTypes
        <3> HIDE DEF torn
        <3>2. \A n \in Numbers : issued'[n] <= 1 /\ (issued'[n] > 0 => n <= counter')
            BY <2>1 DEF NumbersGrow, witnesses
        <3>3. \A q \in up' : doing'[q].step = "commit" => doing'[q].number > counter'
            BY <2>1 DEF NumbersGrow
        <3>4. ASSUME NEW q \in up', doing'[q].step \in Numbered
              PROVE  /\ doing'[q].number > 0 /\ doing'[q].number <= counter'
                     /\ \A k \in DOMAIN lines' : lines'[k].number # doing'[q].number
                     /\ \A o \in up' : doing'[o].step \in Numbered /\ doing'[o].number = doing'[q].number => o = q
            <4>1. /\ doing[q].number > 0 /\ doing[q].number <= counter
                  /\ \A k \in DOMAIN lines : lines[k].number # doing[q].number
                  /\ \A o \in up : doing[o].step \in Numbered /\ doing[o].number = doing[q].number => o = q
                BY <2>1, <3>4 DEF NumbersGrow
            <4>2. \A k \in DOMAIN lines' : lines'[k].number # doing'[q].number
                BY <2>1, <2>4, <3>1, <4>1
            <4> QED BY <2>1, <4>1, <4>2
        <3>5. ASSUME NEW k \in DOMAIN lines'
              PROVE  /\ lines'[k].number <= counter'
                     /\ lines'[k].verdict # "torn" => lines'[k].number > 0
                     /\ \A l \in DOMAIN lines' : lines'[l].number = lines'[k].number /\ lines'[k].number > 0 => l = k
            BY <2>1, <2>4, <3>1 DEF NumbersGrow
        <3> QED BY <3>2, <3>3, <3>4, <3>5 DEF NumbersGrow
    <2> QED BY <2>4, <2>5, <2>6, <2>8, <2>9
<1>3. ASSUME NEW p \in Writers, NEW verdict \in Verdicts, BeginRun(p, verdict) PROVE EvidenceInv'
    <2> DEFINE r == [Resting EXCEPT !.step = "guard", !.run = spent.runs + 1, !.verdict = verdict]
    <2>1. r \in Locals /\ r.step = "guard"
        <3>1. spent.runs + 1 \in Nat /\ verdict \in Words
            BY VerdictsAreWords DEF RecordTypes
        <3> QED BY <3>1 DEF Resting, Locals, Stages
    <2>2. p \in up /\ doing' = [doing EXCEPT ![p] = r] /\ UNCHANGED <<up, diskVars, witnesses>>
        BY <1>3 DEF BeginRun, AtStep
    <2>3. spent' \in [runs : Nat, kills : Nat]
        BY <1>3 DEF BeginRun, RecordTypes
    <2> HIDE DEF r
    <2>4. Exclusive'
        BY <2>1, <2>2 DEF Exclusive, RecordTypes, diskVars, witnesses, Latched
    <2> QED BY <1>0, <2>1, <2>2, <2>3, <2>4, GoesOn DEF RecordTypes, diskVars, witnesses, Numbered
<1>4. ASSUME NEW p \in Writers, Guard(p) PROVE EvidenceInv'
    <2>1. PICK r \in Locals : /\ p \in up /\ doing' = [doing EXCEPT ![p] = r] /\ r.step \in {"rest", "claim"}
                              /\ UNCHANGED <<up, diskVars, witnesses, spent>>
        <3>1. CASE holder # p /\ holder \in up
            <4>1. Resting \in Locals
                BY DEF Resting, Locals, Stages, Words
            <4> QED BY <1>4, <3>1, <4>1 DEF Guard, AtStep, Resting
        <3>2. CASE ~(holder # p /\ holder \in up)
            <4> DEFINE r == [doing[p] EXCEPT !.step = "claim"]
            <4>1. r \in Locals /\ r.step = "claim"
                <5>1. doing[p] \in Locals /\ "claim" \in Stages
                    BY <1>l DEF Stages
                <5> QED BY ONLY <5>1, SteppedTo
            <4>2. doing' = [doing EXCEPT ![p] = r]
                BY <1>4, <3>2 DEF Guard, To, RecordTypes
            <4> HIDE DEF r
            <4> QED BY <1>4, <4>1, <4>2 DEF Guard, AtStep
        <3> QED BY <3>1, <3>2
    <2>2. Exclusive'
        BY <2>1 DEF Exclusive, RecordTypes, diskVars, witnesses, Latched
    <2> QED BY <1>0, <2>1, <2>2, GoesOn DEF RecordTypes, diskVars, witnesses, Numbered
<1>5. ASSUME NEW p \in Writers, ClaimLatch(p) PROVE EvidenceInv'
    <2> DEFINE s == IF latch = NoLatch THEN "fill" ELSE "judge"
               r == [doing[p] EXCEPT !.step = s]
    <2>1. /\ p \in up /\ doing' = [doing EXCEPT ![p] = r]
          /\ UNCHANGED <<up, holder, counter, lines, tail, subject, witnesses, spent>>
          /\ latch' = IF latch = NoLatch THEN [by |-> p, full |-> FALSE] ELSE latch
        BY <1>5 DEF ClaimLatch, AtStep, To, RecordTypes
    <2>2. r \in Locals /\ r.step = IF latch = NoLatch THEN "fill" ELSE "judge"
        <3>1. doing[p] \in Locals
            BY <1>l
        <3>2. s \in Stages
            BY ONLY DEF Stages
        <3> HIDE DEF s
        <3>3. r \in Locals /\ r.step = s /\ r.number = doing[p].number
            BY ONLY <3>1, <3>2, SteppedTo
        <3> HIDE DEF r
        <3> QED BY ONLY <3>2, <3>3 DEF s
    <2> HIDE DEF r
    <2>3. doing'[p] = r /\ \A q \in up : q # p => doing'[q] = doing[q]
        BY <2>1 DEF RecordTypes
    <2>4. Exclusive'
        <3>1. CASE latch = NoLatch
            <4>1. ~robbed => \A q \in up : doing[q].step \notin Latched
                BY <3>1, EvidenceAssumption DEF Exclusive, RecordTypes, NoLatch
            <4>2. latch'.by = p
                BY <2>1, <3>1
            <4> QED BY <2>1, <2>3, <4>1, <4>2 DEF Exclusive, witnesses
        <3>2. CASE latch # NoLatch
            BY <2>1, <2>2, <2>3, <3>2 DEF Exclusive, witnesses, Latched
        <3> QED BY <3>1, <3>2
    <2>5. latch' \in [by : Writers \cup {NoWriter}, full : BOOLEAN]
        BY <2>1 DEF RecordTypes
    <2> QED BY <1>0, <2>1, <2>2, <2>4, <2>5, GoesOn DEF RecordTypes, witnesses, Numbered
<1>6. ASSUME NEW p \in Writers, Fill(p) PROVE EvidenceInv'
    <2> DEFINE r == [doing[p] EXCEPT !.step = "read"]
    <2>1. /\ p \in up /\ doing[p].step = "fill" /\ doing' = [doing EXCEPT ![p] = r]
          /\ UNCHANGED <<up, holder, counter, lines, tail, subject, witnesses, spent>>
          /\ latch' = IF latch.by = p THEN [latch EXCEPT !.full = TRUE] ELSE latch
        BY <1>6 DEF Fill, AtStep, To, RecordTypes
    <2>2. r \in Locals /\ r.step = "read"
        BY ONLY <1>l, p \in Writers, SteppedTo DEF Stages
    <2> HIDE DEF r
    <2>3. doing'[p] = r /\ \A q \in up : q # p => doing'[q] = doing[q]
        BY <2>1 DEF RecordTypes
    <2>4. latch' \in [by : Writers \cup {NoWriter}, full : BOOLEAN] /\ latch'.by = latch.by
        BY <2>1 DEF RecordTypes
    <2>5. Exclusive'
        BY <2>1, <2>2, <2>3, <2>4 DEF Exclusive, witnesses, Latched
    <2> QED BY <1>0, <2>1, <2>2, <2>4, <2>5, GoesOn DEF RecordTypes, witnesses, Numbered
<1>7. ASSUME NEW p \in Writers, JudgeLatch(p) PROVE EvidenceInv'
    <2>1. PICK next \in {"break", "claim", "rest"} :
            doing' = [doing EXCEPT ![p].step = next, ![p].tries = doing[p].tries + 1]
        BY <1>7 DEF JudgeLatch
    <2>2. p \in up /\ UNCHANGED <<up, diskVars, witnesses, spent>>
        BY <1>7 DEF JudgeLatch, AtStep
    <2> DEFINE r == [doing[p] EXCEPT !.step = next, !.tries = doing[p].tries + 1]
    <2>3. r \in Locals /\ r.step = next
        <3>1. doing[p] \in Locals /\ doing[p].tries + 1 \in Nat
            BY DEF RecordTypes, Locals
        <3> QED BY <3>1 DEF Locals, Stages
    <2>4. doing' = [doing EXCEPT ![p] = r]
        BY <2>1, <2>2 DEF RecordTypes
    <2> HIDE DEF r
    <2>5. Exclusive'
        BY <2>2, <2>3, <2>4 DEF Exclusive, RecordTypes, diskVars, witnesses, Latched
    <2> QED BY <1>0, <2>2, <2>3, <2>4, <2>5, GoesOn DEF RecordTypes, diskVars, witnesses, Numbered
<1>8. ASSUME NEW p \in Writers, Break(p) PROVE EvidenceInv'
    <2> DEFINE s == IF doing[p].tries < LatchTries THEN "claim" ELSE "rest"
               r == [doing[p] EXCEPT !.step = s]
    <2>1. /\ p \in up /\ doing' = [doing EXCEPT ![p] = r] /\ RemoveLatch(p)
          /\ UNCHANGED <<up, holder, counter, lines, tail, subject, issued, handed, spent>>
        BY <1>8 DEF Break, AtStep, To, RecordTypes
    <2>2. r \in Locals /\ r.step \in {"claim", "rest"}
        <3>1. doing[p] \in Locals
            BY <1>l
        <3>2. s \in Stages /\ s \in {"claim", "rest"}
            BY ONLY DEF Stages
        <3> HIDE DEF s
        <3>3. r \in Locals /\ r.step = s /\ r.number = doing[p].number
            BY ONLY <3>1, <3>2, SteppedTo
        <3> HIDE DEF r
        <3> QED BY ONLY <3>2, <3>3 DEF s
    <2> HIDE DEF r
    <2>3. Exclusive' /\ latch' \in [by : Writers \cup {NoWriter}, full : BOOLEAN] /\ robbed' \in BOOLEAN
        BY <2>1, <2>2, RemovalIsExclusive DEF Latched
    <2>4. robbed => robbed'
        BY <2>1 DEF RemoveLatch
    <2> QED BY <1>0, <2>1, <2>2, <2>3, <2>4, GoesOn DEF RecordTypes, Numbered
<1>9. ASSUME NEW p \in Writers, Read(p) PROVE EvidenceInv'
    <2> DEFINE r == [doing[p] EXCEPT !.step = "commit", !.number = NextNumber]
    <2>1. /\ p \in up /\ doing[p].step = "read" /\ doing' = [doing EXCEPT ![p] = r]
          /\ UNCHANGED <<up, diskVars, witnesses, spent>>
        BY <1>9 DEF Read, AtStep, RecordTypes
    <2>2. r \in Locals /\ r.step = "commit" /\ r.number > counter
        <3>1. NextNumber \in Nat /\ NextNumber > counter
            BY NextNumberIsNew DEF RecordTypes
        <3>2. doing[p] \in Locals
            BY <1>l
        <3> QED BY ONLY <3>1, <3>2 DEF Locals, Stages
    <2> HIDE DEF r
    <2>3. doing'[p] = r /\ \A q \in up : q # p => doing'[q] = doing[q]
        BY <2>1 DEF RecordTypes
    <2>4. Exclusive'
        BY <2>1, <2>2, <2>3 DEF Exclusive, diskVars, witnesses, Latched
    <2> QED BY <1>0, <2>1, <2>2, <2>4, GoesOn DEF RecordTypes, diskVars, witnesses, Numbered
<1>10. ASSUME NEW p \in Writers, CommitNumber(p) PROVE EvidenceInv'
    <2> DEFINE n == doing[p].number
               r == [doing[p] EXCEPT !.step = "release"]
    <2>1. /\ p \in up /\ doing[p].step = "commit" /\ doing' = [doing EXCEPT ![p] = r]
          /\ counter' = n /\ issued' = [issued EXCEPT ![n] = @ + 1]
          /\ UNCHANGED <<up, holder, latch, lines, tail, subject, robbed, handed, spent>>
        BY <1>10 DEF CommitNumber, AtStep, To, RecordTypes
    <2>2. r \in Locals /\ r.step = "release" /\ r.number = n /\ n \in Nat
        <3>1. n \in Nat
            BY ONLY <1>l, p \in Writers DEF Locals
        <3> QED BY ONLY <1>l, <3>1, p \in Writers, SteppedTo DEF Stages
    <2> HIDE DEF r
    <2>3. doing'[p] = r /\ \A q \in up : q # p => doing'[q] = doing[q]
        BY <2>1 DEF RecordTypes
    <2>4. RecordTypes'
        <3>1. issued' \in [Numbers -> Nat]
            <4>1. issued \in [Numbers -> Nat]
                BY DEF RecordTypes
            <4>2. \A m \in Numbers : issued[m] + 1 \in Nat
                BY <4>1
            <4> QED BY <2>1, <4>1, <4>2
        <3>2. doing' \in [Writers -> Locals]
            BY <2>1, <2>2 DEF RecordTypes
        <3> QED BY <2>1, <2>2, <3>1, <3>2 DEF RecordTypes
    <2>5. Exclusive'
        BY <2>1, <2>2, <2>3 DEF Exclusive, Latched
    <2>6. TailIsTorn' /\ CriticsSeeTheLastRed'
        BY <2>1 DEF TailIsTorn, CriticsSeeTheLastRed
    <2>7. RedsStand'
        BY <2>1, <2>2, <2>3 DEF RedsStand, Backed, Unreadable
    <2>8. NumbersGrow'
        <3> SUFFICES ASSUME ~robbed PROVE NumbersGrow'
            BY <2>1 DEF NumbersGrow
        <3>1. n > counter /\ counter \in Nat
            BY <2>1 DEF NumbersGrow, RecordTypes
        <3>2. \A q \in up : q # p => doing[q].step # "commit"
            BY <2>1 DEF Exclusive, Latched
        <3>3. \A m \in Numbers : issued'[m] <= 1 /\ (issued'[m] > 0 => m <= counter')
            <4> SUFFICES ASSUME NEW m \in Numbers PROVE issued'[m] <= 1 /\ (issued'[m] > 0 => m <= counter')
                OBVIOUS
            <4>1. issued[m] \in Nat /\ m \in Nat /\ issued[m] <= 1 /\ (issued[m] > 0 => m <= counter)
                BY DEF NumbersGrow, RecordTypes, Numbers
            <4>2. issued'[m] = IF m = n THEN issued[m] + 1 ELSE issued[m]
                BY <2>1 DEF RecordTypes
            <4> QED BY <2>1, <2>2, <3>1, <4>1, <4>2
        <3>4. \A q \in up' : doing'[q].step = "commit" => doing'[q].number > counter'
            BY <2>1, <2>2, <2>3, <3>2
        <3>5. \A k \in DOMAIN lines : lines[k].number \in Nat /\ lines[k].number <= counter
            <4>1. \A k \in DOMAIN lines : lines[k] \in Lines
                BY SeqElement DEF RecordTypes
            <4> QED BY <4>1 DEF NumbersGrow, Lines
        <3>6. \A q \in up : doing[q].step \in Numbered =>
                  doing[q].number \in Nat /\ doing[q].number <= counter /\ doing[q].number > 0
            BY DEF NumbersGrow, RecordTypes, Locals
        <3>7. ASSUME NEW q \in up', doing'[q].step \in Numbered
              PROVE  /\ doing'[q].number > 0 /\ doing'[q].number <= counter'
                     /\ \A k \in DOMAIN lines' : lines'[k].number # doing'[q].number
                     /\ \A o \in up' : doing'[o].step \in Numbered /\ doing'[o].number = doing'[q].number => o = q
            <4>1. CASE q = p
                BY <2>1, <2>2, <2>3, <3>1, <3>5, <3>6, <4>1
            <4>2. CASE q # p
                <5>1. doing[q].step \in Numbered /\ doing'[q].number = doing[q].number
                    BY <2>1, <2>3, <3>7, <4>2
                <5>2. doing'[q].number > 0 /\ doing'[q].number <= counter' /\ doing'[q].number # n
                    BY <2>1, <2>2, <3>1, <3>6, <5>1
                <5>3. \A k \in DOMAIN lines' : lines'[k].number # doing'[q].number
                    BY <2>1, <5>1 DEF NumbersGrow
                <5>4. \A o \in up' : doing'[o].step \in Numbered /\ doing'[o].number = doing'[q].number => o = q
                    BY <2>1, <2>2, <2>3, <5>1, <5>2 DEF NumbersGrow
                <5> QED BY <5>2, <5>3, <5>4
            <4> QED BY <4>1, <4>2
        <3>8. \A k \in DOMAIN lines' :
                  /\ lines'[k].number <= counter'
                  /\ lines'[k].verdict # "torn" => lines'[k].number > 0
                  /\ \A l \in DOMAIN lines' : lines'[l].number = lines'[k].number /\ lines'[k].number > 0 => l = k
            BY <2>1, <2>2, <3>1, <3>5 DEF NumbersGrow
        <3> QED BY <3>3, <3>4, <3>7, <3>8 DEF NumbersGrow
    <2> QED BY <2>4, <2>5, <2>6, <2>7, <2>8
<1>11. ASSUME NEW p \in Writers, Release(p) PROVE EvidenceInv'
    <2> DEFINE s == IF latch.full /\ latch.by # p THEN "append" ELSE "unlink"
               r == [doing[p] EXCEPT !.step = s]
    <2>1. /\ p \in up /\ doing[p].step = "release" /\ doing' = [doing EXCEPT ![p] = r]
          /\ UNCHANGED <<up, diskVars, witnesses, spent>>
        BY <1>11 DEF Release, AtStep, To, RecordTypes
    <2>2. r \in Locals /\ r.step \in {"append", "unlink"} /\ r.number = doing[p].number
        <3>1. doing[p] \in Locals
            BY <1>l
        <3>2. s \in Stages /\ s \in {"append", "unlink"}
            BY ONLY DEF Stages
        <3> HIDE DEF s
        <3>3. r \in Locals /\ r.step = s /\ r.number = doing[p].number
            BY ONLY <3>1, <3>2, SteppedTo
        <3> HIDE DEF r
        <3> QED BY ONLY <3>2, <3>3 DEF s
    <2> HIDE DEF r
    <2>3. doing'[p] = r /\ \A q \in up : q # p => doing'[q] = doing[q]
        BY <2>1 DEF RecordTypes
    <2>4. Exclusive'
        BY <2>1, <2>2, <2>3 DEF Exclusive, diskVars, witnesses, Latched
    <2> QED BY <1>0, <2>1, <2>2, <2>4, GoesOn DEF RecordTypes, diskVars, witnesses, Numbered
<1>12. ASSUME NEW p \in Writers, Unlink(p) PROVE EvidenceInv'
    <2> DEFINE r == [doing[p] EXCEPT !.step = "append"]
    <2>1. /\ p \in up /\ doing[p].step = "unlink" /\ doing' = [doing EXCEPT ![p] = r] /\ RemoveLatch(p)
          /\ UNCHANGED <<up, holder, counter, lines, tail, subject, issued, handed, spent>>
        BY <1>12 DEF Unlink, AtStep, To, RecordTypes
    <2>2. r \in Locals /\ r.step = "append" /\ r.number = doing[p].number
        BY ONLY <1>l, p \in Writers, SteppedTo DEF Stages
    <2> HIDE DEF r
    <2>3. Exclusive' /\ latch' \in [by : Writers \cup {NoWriter}, full : BOOLEAN] /\ robbed' \in BOOLEAN
        BY <2>1, <2>2, RemovalIsExclusive DEF Latched
    <2>4. robbed => robbed'
        BY <2>1 DEF RemoveLatch
    <2> QED BY <1>0, <2>1, <2>2, <2>3, <2>4, GoesOn DEF RecordTypes, Numbered
<1>13. ASSUME NEW p \in Writers, AppendRecord(p) PROVE EvidenceInv'
    <2> DEFINE r == [doing[p] EXCEPT !.step = "settle"]
               line == IF tail THEN CutShort(Record(p)) ELSE Record(p)
               at == IF tail THEN Len(lines) ELSE Len(lines) + 1
    <2>1. /\ p \in up /\ doing[p].step = "append" /\ doing' = [doing EXCEPT ![p] = r] /\ tail' = FALSE
          /\ lines' = IF tail THEN [lines EXCEPT ![Len(lines)] = line] ELSE Append(lines, line)
          /\ UNCHANGED <<up, holder, latch, counter, subject, witnesses, spent>>
        BY <1>13 DEF AppendRecord, AtStep, To, RecordTypes
    <2>2. r \in Locals /\ r.step = "settle" /\ r.number = doing[p].number /\ r.verdict = doing[p].verdict
        BY ONLY <1>l, p \in Writers, SteppedTo DEF Stages
    <2>3. /\ line \in Lines
          /\ tail => line.verdict = "torn" /\ line.number = 0
          /\ ~tail => line.verdict = doing[p].verdict /\ line.number = doing[p].number
        BY DEF Record, CutShort, RecordTypes, Locals, Lines, Words
    <2> HIDE DEF r, line
    <2>4. /\ lines' \in Seq(Lines) /\ at \in DOMAIN lines' /\ lines'[at] = line
          /\ \A k \in DOMAIN lines : k \in DOMAIN lines' /\ (k # at => lines'[k] = lines[k])
          /\ \A k \in DOMAIN lines' : k # at => k \in DOMAIN lines
        <3>1. lines \in Seq(Lines) /\ tail \in BOOLEAN
            BY DEF RecordTypes
        <3>2. CASE tail
            BY <2>1, <2>3, <3>1, <3>2 DEF TailIsTorn
        <3>3. CASE ~tail
            BY <2>1, <2>3, <3>1, <3>3
        <3> QED BY <3>1, <3>2, <3>3
    <2>5. doing'[p] = r /\ \A q \in up : q # p => doing'[q] = doing[q]
        BY <2>1 DEF RecordTypes
    <2>6. \A n : Backed(n) => Backed(n)'
        <3>1. CASE tail
            BY <2>3, <2>4, <3>1 DEF Backed, Unreadable
        <3>2. CASE ~tail
            <4>1. at \notin DOMAIN lines
                BY <3>2 DEF RecordTypes
            <4> HIDE DEF at
            <4> QED BY <2>4, <4>1 DEF Backed, Unreadable
        <3> QED BY <3>1, <3>2 DEF RecordTypes
    <2>7. \A n : doing[p].verdict = "red" /\ n = doing[p].number => Backed(n)'
        <3> HIDE DEF at
        <3>1. tail \in BOOLEAN
            BY DEF RecordTypes
        <3> QED BY <2>3, <2>4, <3>1 DEF Backed, Unreadable
    <2>8. RedsStand'
        BY <2>1, <2>2, <2>5, <2>6, <2>7 DEF RedsStand
    <2>9. RecordTypes'
        BY <2>1, <2>2, <2>4 DEF RecordTypes, witnesses
    <2>10. Exclusive' /\ TailIsTorn' /\ CriticsSeeTheLastRed'
        BY <2>1, <2>2, <2>5 DEF Exclusive, TailIsTorn, CriticsSeeTheLastRed, witnesses, Latched
    <2>11. NumbersGrow'
        <3> SUFFICES ASSUME ~robbed PROVE NumbersGrow'
            BY <2>1 DEF NumbersGrow, witnesses
        <3>1. /\ doing[p].number \in Nat /\ doing[p].number > 0 /\ doing[p].number <= counter /\ counter \in Nat
              /\ \A k \in DOMAIN lines : lines[k].number # doing[p].number
              /\ \A q \in up : doing[q].step \in Numbered /\ doing[q].number = doing[p].number => q = p
            BY <2>1 DEF NumbersGrow, Numbered, RecordTypes, Locals
        <3>2. \A n \in Numbers : issued'[n] <= 1 /\ (issued'[n] > 0 => n <= counter')
            BY <2>1 DEF NumbersGrow, witnesses
        <3>3. \A q \in up' : doing'[q].step = "commit" => doing'[q].number > counter'
            BY <2>1, <2>2, <2>5 DEF NumbersGrow
        <3>4. line.number \in {0, doing[p].number} /\ (line.verdict # "torn" => line.number > 0)
            BY <2>3, <3>1 DEF RecordTypes
        <3>5. ASSUME NEW q \in up', doing'[q].step \in Numbered
              PROVE  /\ doing'[q].number > 0 /\ doing'[q].number <= counter'
                     /\ \A k \in DOMAIN lines' : lines'[k].number # doing'[q].number
                     /\ \A o \in up' : doing'[o].step \in Numbered /\ doing'[o].number = doing'[q].number => o = q
            <4>1. q \in up /\ q # p /\ doing'[q] = doing[q]
                BY <2>1, <2>2, <2>5, <3>5 DEF Numbered
            <4>2. /\ doing[q].number > 0 /\ doing[q].number <= counter
                  /\ \A k \in DOMAIN lines : lines[k].number # doing[q].number
                  /\ \A o \in up : doing[o].step \in Numbered /\ doing[o].number = doing[q].number => o = q
                BY <3>5, <4>1 DEF NumbersGrow
            <4>3. line.number # doing[q].number
                BY <3>1, <3>4, <3>5, <4>1, <4>2
            <4>4. \A k \in DOMAIN lines' : lines'[k].number # doing'[q].number
                BY <2>4, <4>1, <4>2, <4>3
            <4>5. \A o \in up' : doing'[o].step \in Numbered /\ doing'[o].number = doing'[q].number => o = q
                BY <2>1, <2>2, <2>5, <4>1, <4>2 DEF Numbered
            <4> QED BY <2>1, <4>1, <4>2, <4>4, <4>5
        <3>6. ASSUME NEW k \in DOMAIN lines'
              PROVE  /\ lines'[k].number <= counter'
                     /\ lines'[k].verdict # "torn" => lines'[k].number > 0
                     /\ \A l \in DOMAIN lines' : lines'[l].number = lines'[k].number /\ lines'[k].number > 0 => l = k
            <4> HIDE DEF at
            <4>1. CASE k = at
                BY <2>1, <2>4, <3>1, <3>4, <4>1
            <4>2. CASE k # at
                <5>1. k \in DOMAIN lines /\ lines'[k] = lines[k]
                    BY <2>4, <4>2
                <5>2. /\ lines[k].number <= counter
                      /\ lines[k].verdict # "torn" => lines[k].number > 0
                      /\ \A l \in DOMAIN lines : lines[l].number = lines[k].number /\ lines[k].number > 0 => l = k
                    BY <5>1 DEF NumbersGrow
                <5>3. lines[k].number > 0 => line.number # lines[k].number
                    BY <3>1, <3>4, <5>1
                <5> QED BY <2>1, <2>4, <5>1, <5>2, <5>3
            <4> QED BY <4>1, <4>2
        <3> QED BY <3>2, <3>3, <3>5, <3>6 DEF NumbersGrow
    <2> QED BY <2>8, <2>9, <2>10, <2>11
<1>14. ASSUME NEW p \in Writers, SettleRun(p) PROVE EvidenceInv'
    <2>1. /\ p \in up /\ doing[p].step = "settle" /\ doing' = [doing EXCEPT ![p] = Resting]
          /\ subject' = IF doing[p].verdict = "red"
                        THEN [subject EXCEPT !.state = "RED", !.red = doing[p].number]
                        ELSE [subject EXCEPT !.blocked = subject.state = "RED"]
          /\ UNCHANGED <<up, holder, latch, counter, lines, tail, witnesses, spent>>
        BY <1>14 DEF SettleRun, AtStep
    <2>2. Resting \in Locals /\ Resting.step = "rest"
        BY DEF Resting, Locals, Stages, Words
    <2>3. doing[p].number \in Nat /\ (subject.state = "RED") \in BOOLEAN
        BY <2>1 DEF RecordTypes, Locals
    <2>4. CASE doing[p].verdict = "red"
        <3>1. /\ subject' \in [state : {"PENDING", "RED"}, red : Nat, blocked : BOOLEAN]
              /\ subject'.red = doing[p].number
            BY <2>1, <2>3, <2>4 DEF RecordTypes
        <3>2. subject'.state = "RED" => Backed(subject'.red)
            BY <2>1, <2>4, <3>1 DEF RedsStand
        <3>3. Exclusive'
            BY <2>1, <2>2 DEF Exclusive, RecordTypes, witnesses, Latched
        <3> QED BY <2>1, <2>2, <3>1, <3>2, <3>3, GoesOn DEF RecordTypes, witnesses, Numbered
    <2>5. CASE doing[p].verdict # "red"
        <3>1. /\ subject' \in [state : {"PENDING", "RED"}, red : Nat, blocked : BOOLEAN]
              /\ subject'.red = subject.red /\ subject'.state = subject.state
            BY <2>1, <2>3, <2>5 DEF RecordTypes
        <3>2. Exclusive'
            BY <2>1, <2>2 DEF Exclusive, RecordTypes, witnesses, Latched
        <3> QED BY <1>0, <2>1, <2>2, <3>1, <3>2, GoesOn DEF RecordTypes, witnesses, Numbered
    <2> QED BY <2>4, <2>5
<1>15. CASE Unblock
    <2>1. /\ subject' = [subject EXCEPT !.blocked = FALSE]
          /\ UNCHANGED <<up, holder, latch, counter, lines, tail, doing, witnesses, spent>>
        BY <1>15 DEF Unblock
    <2>2. RecordTypes' /\ subject'.state = subject.state /\ subject'.red = subject.red
        BY <2>1 DEF RecordTypes, witnesses
    <2>3. Exclusive' /\ NumbersGrow' /\ TailIsTorn' /\ CriticsSeeTheLastRed'
        BY <2>1 DEF Exclusive, NumbersGrow, TailIsTorn, CriticsSeeTheLastRed, witnesses
    <2>4. RedsStand'
        BY <2>1, <2>2 DEF RedsStand, Backed, Unreadable
    <2> QED BY <2>2, <2>3, <2>4
<1>16. ASSUME NEW p \in Writers, Vet(p) PROVE EvidenceInv'
    <2>1. /\ subject.state = "RED" /\ Reds # {} /\ ~StaleRed
          /\ handed' = [run |-> lines[Captured].run, verdict |-> lines[Captured].verdict,
                        last |-> lines[Len(lines)].run]
          /\ UNCHANGED <<up, diskVars, doing, issued, robbed, spent>>
        BY <1>16 DEF Vet
    <2>2. ~Unreadable /\ Captured = LastReadable
        BY <2>1 DEF StaleRed
    <2>3. PICK k \in DOMAIN lines : lines[k].number = subject.red /\ lines[k].verdict = "red"
        BY <2>1, <2>2 DEF RedsStand, Backed
    <2>4. lines \in Seq(Lines) /\ Len(lines) \in Nat /\ DOMAIN lines = 1..Len(lines)
        BY DEF RecordTypes
    <2>5. IsFiniteSet(DOMAIN lines)
        BY <2>4, FS_Interval
    <2>6. Captured \in Pointed /\ lines[Captured].number = subject.red
        <3>1. k \in Pointed /\ Pointed \subseteq DOMAIN lines
            BY <2>3 DEF Pointed, Reds
        <3>2. Max(Pointed) \in Pointed
            BY <2>4, <2>5, <3>1, FS_Subset, MaxIsGreatest
        <3> QED BY <3>1, <3>2 DEF Captured, Pointed
    <2>7. LastReadable = Len(lines)
        <3>1. {l \in DOMAIN lines : lines[l].verdict # "torn"} = DOMAIN lines
            BY <2>2 DEF Unreadable
        <3>2. Max(DOMAIN lines) \in DOMAIN lines /\ \A y \in DOMAIN lines : Max(DOMAIN lines) >= y
            <4>1. DOMAIN lines \in SUBSET Int /\ DOMAIN lines # {}
                BY <2>3, <2>4
            <4> QED BY <2>5, <4>1, MaxIsGreatest
        <3>3. Len(lines) \in DOMAIN lines
            BY <2>3, <2>4
        <3>4. Max(DOMAIN lines) = Len(lines)
            BY <2>4, <3>2, <3>3
        <3> QED BY <3>1, <3>4 DEF LastReadable
    <2>8. robbed \/ lines[Captured].verdict = "red"
        <3> SUFFICES ASSUME ~robbed PROVE Captured = k
            BY <2>3
        <3>1. Captured \in DOMAIN lines /\ lines[Captured].number = lines[k].number
            BY <2>3, <2>6 DEF Pointed, Reds
        <3>2. lines[k].number > 0
            BY <2>3 DEF NumbersGrow
        <3> QED BY <3>1, <3>2 DEF NumbersGrow
    <2>9. CriticsSeeTheLastRed'
        BY <2>1, <2>2, <2>7, <2>8 DEF CriticsSeeTheLastRed
    <2>10. handed' \in [run : Nat, verdict : Words, last : Nat]
        <3>1. lines[Captured] \in Lines /\ lines[Len(lines)] \in Lines
            <4>1. Captured \in DOMAIN lines
                BY <2>6 DEF Pointed, Reds
            <4> HIDE DEF Captured, LastReadable
            <4> QED BY <2>2, <2>4, <2>7, <4>1, SeqElement
        <3> QED BY <2>1, <3>1 DEF Lines
    <2>11. RecordTypes'
        BY <2>1, <2>10 DEF RecordTypes, diskVars
    <2>12. Exclusive' /\ NumbersGrow' /\ TailIsTorn'
        BY <2>1 DEF Exclusive, NumbersGrow, TailIsTorn, diskVars
    <2>13. RedsStand'
        BY <2>1 DEF RedsStand, Backed, Unreadable, diskVars
    <2> QED BY <2>9, <2>11, <2>12, <2>13
<1>17. CASE UNCHANGED evidenceVars
    <2> USE <1>17 DEF evidenceVars
    <2>1. RecordTypes'
        BY DEF RecordTypes
    <2>2. Exclusive' /\ NumbersGrow' /\ TailIsTorn' /\ CriticsSeeTheLastRed'
        BY DEF Exclusive, NumbersGrow, TailIsTorn, CriticsSeeTheLastRed
    <2>3. RedsStand'
        BY DEF RedsStand, Backed, Unreadable
    <2> QED BY <2>1, <2>2, <2>3
<1> QED
    BY <1>1, <1>2, <1>3, <1>4, <1>5, <1>6, <1>7, <1>8, <1>9, <1>10, <1>11, <1>12, <1>13, <1>14, <1>15, <1>16, <1>17
       DEF EvidenceNext

LEMMA EvidenceInvHolds == EvidenceSpec => []EvidenceInv
BY EvidenceInvInit, EvidenceInvStep, PTL DEF EvidenceSpec

\* No number is issued twice, whoever is killed between the counter and the ledger and
\* whatever line is torn, until a latch is taken from a process at work
\* (mintEvidenceSeq(), releaseSeqLatch()).
THEOREM NumbersAreUnique == EvidenceSpec => []NumbersAreIssuedOnce
<1>1. EvidenceInv => NumbersAreIssuedOnce
    BY DEF EvidenceInv, NumbersGrow, NumbersAreIssuedOnce
<1> QED BY <1>1, EvidenceInvHolds, PTL

\* The critics are given the red of the last run on record, and until a latch is stolen
\* it is a legal one of the item (capturedRedOf()).
THEOREM CriticsAreUpToDate == EvidenceSpec => []CriticsSeeTheLastRed
<1>1. EvidenceInv => CriticsSeeTheLastRed
    BY DEF EvidenceInv
<1> QED BY <1>1, EvidenceInvHolds, PTL

-----------------------------------------------------------------------------
(* The workspace and the setup call: Setup.                                 *)

\* A call in progress has sent its requests; those of the slot proof all at once.
CallTypes ==
    /\ DOMAIN probes = Readings /\ \A r \in Readings : probes[r] \in ProbeStates
    /\ setup # NoCall =>
          /\ DOMAIN setup = {"phase", "answers", "failed", "rules", "noGit", "model"}
          /\ setup.phase \in {"models", "schema", "slots", "props"} /\ setup.answers \in Answers
          /\ setup.failed \in BOOLEAN /\ setup.noGit \in BOOLEAN
    /\ setup.phase = "slots" => \A r \in Readings : probes[r] # "idle"

\* Nothing but the router has let the call down, and the router with silence only.
Undisturbed == steady /\ ~turned

\* While the model server stays good and the router answers no error of its own, no
\* request is answered badly.
SteadyCall ==
    Undisturbed =>
        /\ Good(upstream)
        /\ setup # NoCall => ~setup.failed /\ \A r \in Readings : probes[r] \notin {"refused", "lost"}

\* What the answers were held to when they were given.
AnswersHold ==
    setup # NoCall =>
        /\ Detected # {}
        /\ Covers(setup.answers.paths) \/ setup.answers.acknowledges
        /\ setup.noGit \/ versioned

PlaceTypes ==
    /\ checkout \in Checkouts /\ upstream \in Upstreams /\ versioned \in BOOLEAN
    /\ IsConfig(config) => DOMAIN config = {"mode", "paths", "scopes", "model", "rules", "author"}

SetupInv ==
    /\ CallTypes /\ PlaceTypes /\ SteadyCall /\ AnswersHold
    /\ OutageFailsNoSetup /\ TheConfigIsVouchedFor

LEMMA SetupInvInit == SetupInit => SetupInv
BY SetupAssumption DEF SetupInit, SetupInv, CallTypes, PlaceTypes, SteadyCall, Undisturbed, AnswersHold, OutageFailsNoSetup,
   TheConfigIsVouchedFor, NoCall, Quiet, ProbeStates, Travelling, IsConfig

\* A reply that a request settles on: with a good model server, and no error of the
\* router's own, it is an answer.
LEMMA GoodReply ==
    ASSUME upstream.up = TRUE, NEW probe \in ProbeStates, NEW reply \in Replies(probe), reply # "refused"
    PROVE  /\ After(probe, reply) \in Travelling \cup {"served", "refused", "lost"}
           /\ After(probe, reply) \notin {"refused", "lost"}
BY DEF Replies, After, ProbeStates, Travelling

LEMMA AnyReply ==
    ASSUME NEW probe \in ProbeStates, NEW reply \in Replies(probe)
    PROVE  After(probe, reply) \in {"served", "refused", "lost", "second"}
BY DEF Replies, After, ProbeStates, Travelling

\* Good for the request for the models: one of them is chosen.
LEMMA GoodChoice ==
    ASSUME upstream \in Upstreams, Good(upstream), SetupAssumption
    PROVE  Choice(upstream.models) # Nil
<1>1. CASE wanted # Nil
    BY <1>1 DEF Good, Choice
<1>2. CASE wanted = Nil
    <2>1. Cardinality(upstream.models) = 1 /\ IsFiniteSet(upstream.models) /\ Nil \notin upstream.models
        BY <1>2 DEF Good, SetupAssumption
    <2>2. upstream.models # {}
        BY <2>1, FS_EmptySet
    <2> QED BY <1>2, <2>1, <2>2 DEF Choice
<1> QED BY <1>1, <1>2

\* The scopes that setup writes cover every file.
LEMMA ScopesCover ==
    ASSUME checkout \in Checkouts, SetupAssumption, Detected # {}, NEW f \in checkout.files,
           Cardinality(Detected) = 1 \/ f \notin Unmatchable
    PROVE  \E e \in DOMAIN RequiredScopes : f \in RequiredScopes[e]
<1>1. checkout.files \subseteq FileKinds
    BY DEF SetupAssumption
<1>2. PICK e \in Detected : TRUE
    OBVIOUS
<1>3. CASE Cardinality(Detected) = 1
    BY <1>1, <1>2, <1>3 DEF RequiredScopes
<1>4. CASE Cardinality(Detected) # 1 /\ f \in Detected
    BY <1>4 DEF RequiredScopes
<1>5. CASE Cardinality(Detected) # 1 /\ f \notin Detected
    BY <1>2, <1>5 DEF RequiredScopes, Unowned
<1> QED BY <1>3, <1>4, <1>5

LEMMA DetectedSize ==
    ASSUME checkout \in Checkouts, SetupAssumption, Detected # {}
    PROVE  Cardinality(Detected) = 1 \/ Cardinality(Detected) > 1
<1>1. Detected \subseteq Ecosystems
    BY DEF SetupAssumption, Detected
<1>2. IsFiniteSet(Detected)
    BY <1>1, FS_Subset DEF SetupAssumption
<1>3. Cardinality(Detected) \in Nat /\ Cardinality(Detected) # 0
    BY <1>2, FS_EmptySet, FS_CardinalityType
<1> QED BY <1>3

\* What setup writes can carry a run.
LEMMA CandidateIsVouchedFor ==
    ASSUME SetupInv, SetupAssumption, setup # NoCall, config' = Candidate, UNCHANGED <<checkout, versioned>>,
           onRecord' \in {Nil, setup.answers.acknowledges}
    PROVE  TheConfigIsVouchedFor'
<1> USE DEF SetupInv, CallTypes, PlaceTypes
<1>1. /\ config'.scopes = RequiredScopes /\ config'.paths = setup.answers.paths
      /\ config'.mode = IF setup.noGit THEN "read-only" ELSE setup.answers.mode
    BY DEF Candidate, Config
<1>2. LeftUncovered' = {}
    <2> SUFFICES ASSUME NEW f \in checkout.files, \A e \in DOMAIN RequiredScopes : f \notin RequiredScopes[e]
                 PROVE  Cardinality(Detected) > 1 /\ f \in Unmatchable
        BY <1>1 DEF LeftUncovered, Detected
    <2> QED BY ScopesCover, DetectedSize DEF AnswersHold
<1>3. \/ Sources = {} /\ config'.paths # {}
      \/ config'.paths \cap Sources # {}
      \/ onRecord' = Nil
      \/ onRecord' = TRUE
    <2>1. setup.answers.acknowledges \in BOOLEAN
        BY DEF SetupAssumption
    <2> QED BY <1>1, <2>1 DEF AnswersHold, Covers
<1>4. config'.mode # "read-only" => versioned'
    BY <1>1 DEF AnswersHold
<1>5. Sources' = Sources
    BY DEF Sources, Detected
<1> QED BY <1>2, <1>3, <1>4, <1>5 DEF TheConfigIsVouchedFor

\* A config that is still there stays vouched for.
LEMMA StillVouchedFor ==
    ASSUME SetupInv, UNCHANGED <<checkout, config, onRecord>>, versioned => versioned'
    PROVE  TheConfigIsVouchedFor'
BY DEF SetupInv, TheConfigIsVouchedFor, IsConfig, LeftUncovered, Sources, Detected

LEMMA SetupInvStep == SetupInv /\ [SetupNext]_setupVars => SetupInv'
<1> SUFFICES ASSUME SetupInv, [SetupNext]_setupVars PROVE SetupInv'
    OBVIOUS
<1>0. SetupAssumption
    BY SetupAssumption
<1> USE DEF SetupInv
<1>1. ASSUME NEW reconfigure \in BOOLEAN, NEW a \in Answers, BeginSetup(reconfigure, a) PROVE SetupInv'
    <2>1. TheConfigIsVouchedFor'
        BY <1>1, StillVouchedFor DEF BeginSetup
    <2>2. CASE /\ AllAnswered(a, versioned') /\ Smoked
               /\ Detected # {}
               /\ Covers(a.paths) \/ a.acknowledges
        <3>1. /\ setup' = [phase |-> "models", answers |-> a, failed |-> FALSE,
                           rules |-> RulesOf(config), noGit |-> ~versioned', model |-> Nil]
              /\ probes' = Single(latched) /\ told' = "none" /\ steady' = Good(upstream) /\ turned' = FALSE
            BY <1>1, <2>2 DEF BeginSetup
        <3>2. DOMAIN probes' = Readings /\ \A r \in Readings : probes'[r] \in ProbeStates \ {"refused", "lost"}
            BY <3>1 DEF Single, Quiet, Origin, ProbeStates, Travelling
        <3>3. CallTypes'
            BY <1>1, <3>1, <3>2 DEF CallTypes, PlaceTypes, BeginSetup
        <3>4. PlaceTypes'
            BY <1>1 DEF PlaceTypes, BeginSetup, worldVars
        <3>5. SteadyCall'
            BY <1>1, <3>1, <3>2 DEF SteadyCall, Undisturbed, BeginSetup, worldVars, Good
        <3>6. AnswersHold'
            BY <1>1, <2>2, <3>1 DEF AnswersHold, BeginSetup, Detected, Covers, Sources
        <3>7. OutageFailsNoSetup'
            BY <3>1 DEF OutageFailsNoSetup
        <3> QED BY <2>1, <3>3, <3>4, <3>5, <3>6, <3>7
    <2>3. CASE ~(/\ AllAnswered(a, versioned') /\ Smoked
                 /\ Detected # {}
                 /\ Covers(a.paths) \/ a.acknowledges)
        <3>1. told' = "unconfigured" /\ UNCHANGED <<setup, probes, steady, turned>>
            BY <1>1, <2>3 DEF BeginSetup
        <3>2. CallTypes' /\ PlaceTypes'
            BY <1>1, <3>1 DEF CallTypes, PlaceTypes, BeginSetup, worldVars
        <3>3. SteadyCall' /\ AnswersHold' /\ OutageFailsNoSetup'
            BY <1>1, <3>1 DEF SteadyCall, Undisturbed, AnswersHold, OutageFailsNoSetup, BeginSetup, worldVars, Good
        <3> QED BY <2>1, <3>2, <3>3
    <2> QED BY <2>2, <2>3
<1>2. CASE SingleReply
    <2>1. PICK reply \in Replies(probes[1]) :
            /\ turned' = (turned \/ reply = "refused")
            /\ LET next == After(probes[1], reply)
                   served == IF next = "served" THEN Choice(upstream.models) ELSE Nil
               IN IF next \in Travelling
                  THEN probes' = [probes EXCEPT ![1] = next] /\ UNCHANGED setup
                  ELSE IF setup.phase = "models"
                  THEN NextPhase(IF served = Nil THEN "props" ELSE "schema", served, served = Nil)
                  ELSE NextPhase("slots", setup.model, setup.failed \/ next # "served" \/ ~upstream.honours)
        BY <1>2 DEF SingleReply, NoteFailure
    <2>2. setup # NoCall /\ setup.phase \in {"models", "schema"} /\ UNCHANGED <<placeVars, worldVars, told, steady, onRecord>>
        BY <1>2 DEF SingleReply, NoCall
    <2>3. 1 \in Readings
        BY <1>0 DEF SetupAssumption, Readings
    <2> DEFINE next == After(probes[1], reply)
    <2>4. next \in {"served", "refused", "lost", "second"}
        BY <2>3, AnyReply DEF CallTypes
    <2>u. /\ turned => turned'
          /\ Undisturbed' => Undisturbed /\ reply # "refused"
        BY <2>1, <2>2 DEF Undisturbed
    <2>5. Undisturbed' => next \in {"served", "second"} /\ upstream.up /\ upstream.honours /\ Choice(upstream.models) # Nil
        BY <1>0, <2>3, <2>4, <2>u, GoodReply, GoodChoice DEF CallTypes, SteadyCall, PlaceTypes, Good, Travelling
    <2>6. PlaceTypes' /\ TheConfigIsVouchedFor' /\ OutageFailsNoSetup'
        BY <2>2, <2>u, StillVouchedFor DEF PlaceTypes, OutageFailsNoSetup, placeVars, worldVars
    <2>7. CASE next \in Travelling
        <3>1. probes' = [probes EXCEPT ![1] = next] /\ UNCHANGED setup
            BY <2>1, <2>7
        <3>2. CallTypes' /\ AnswersHold'
            BY <2>2, <2>4, <2>7, <3>1 DEF CallTypes, AnswersHold, ProbeStates, Travelling, placeVars, Detected, Covers, Sources
        <3>3. SteadyCall'
            BY <2>2, <2>5, <2>u, <3>1 DEF SteadyCall, CallTypes, worldVars, placeVars, Good
        <3> QED BY <2>6, <3>2, <3>3
    <2>8. CASE next \notin Travelling
        <3>1. PICK phase \in {"schema", "props", "slots"}, failed \in BOOLEAN :
                 (\E model : NextPhase(phase, model, failed)) /\ (Undisturbed' => ~failed)
            <4>1. CASE setup.phase = "models"
                <5> DEFINE served == IF next = "served" THEN Choice(upstream.models) ELSE Nil
                <5>1. NextPhase(IF served = Nil THEN "props" ELSE "schema", served, served = Nil)
                    BY <2>1, <2>8, <4>1
                <5>2. Undisturbed' => served # Nil
                    BY <2>5, <2>8 DEF Travelling
                <5> HIDE DEF served
                <5> QED BY <5>1, <5>2
            <4>2. CASE setup.phase # "models"
                <5>1. NextPhase("slots", setup.model, setup.failed \/ next # "served" \/ ~upstream.honours)
                    BY <2>1, <2>8, <4>2
                <5>2. Undisturbed' => ~(setup.failed \/ next # "served" \/ ~upstream.honours)
                    BY <2>2, <2>5, <2>8, <2>u DEF Travelling, SteadyCall
                <5> HIDE DEF next
                <5>3. (setup.failed \/ next # "served" \/ ~upstream.honours) \in BOOLEAN
                    OBVIOUS
                <5> QED BY <5>1, <5>2, <5>3
            <4> QED BY <4>1, <4>2
        <3> PICK model : NextPhase(phase, model, failed)
            BY <3>1
        <3>2. /\ setup' = [setup EXCEPT !.phase = phase, !.model = model, !.failed = failed]
              /\ probes' \in {Single(latched'), Together(latched'), Quiet}
              /\ phase = "slots" => probes' = Together(latched')
            BY DEF NextPhase
        <3>3. /\ DOMAIN probes' = Readings /\ \A r \in Readings : probes'[r] \in ProbeStates \ {"refused", "lost"}
              /\ phase = "slots" => \A r \in Readings : probes'[r] # "idle"
            BY <3>2 DEF Single, Together, Quiet, Origin, ProbeStates, Travelling
        <3>4. CallTypes'
            BY <2>2, <3>1, <3>2, <3>3 DEF CallTypes
        <3>5. AnswersHold'
            BY <2>2, <3>2 DEF CallTypes, AnswersHold, placeVars, Detected, Covers, Sources, NoCall
        <3>6. SteadyCall'
            BY <2>2, <2>u, <3>1, <3>2, <3>3 DEF SteadyCall, CallTypes, worldVars, Good
        <3> QED BY <2>6, <3>4, <3>5, <3>6
    <2> QED BY <2>7, <2>8
<1>3. ASSUME NEW q \in Readings, ReaderReply(q) PROVE SetupInv'
    <2>1. /\ setup # NoCall /\ setup.phase = "slots" /\ probes[q] \in Travelling
          /\ UNCHANGED <<placeVars, worldVars, told, steady, onRecord>>
        BY <1>3 DEF ReaderReply, NoCall
    <2>2. PICK reply \in Replies(probes[q]) :
            /\ turned' = (turned \/ reply = "refused")
            /\ LET now == [probes EXCEPT ![q] = After(probes[q], reply)]
               IN IF \E r \in Readings : now[r] \in Travelling
                  THEN probes' = now /\ UNCHANGED setup
                  ELSE NextPhase("props", setup.model, setup.failed \/ \E r \in Readings : now[r] # "served")
        BY <1>3 DEF ReaderReply, NoteFailure
    <2>u. /\ turned => turned'
          /\ Undisturbed' => Undisturbed /\ reply # "refused"
        BY <2>1, <2>2 DEF Undisturbed
    <2> DEFINE now == [probes EXCEPT ![q] = After(probes[q], reply)]
    <2>3. /\ DOMAIN now = Readings
          /\ \A r \in Readings : now[r] \in ProbeStates \ {"idle"}
          /\ Undisturbed' => \A r \in Readings : now[r] \notin {"refused", "lost"}
        <3>1. After(probes[q], reply) \in {"served", "refused", "lost", "second"}
            BY AnyReply DEF CallTypes
        <3>2. Undisturbed' => After(probes[q], reply) \notin {"refused", "lost"}
            BY <2>u, GoodReply DEF CallTypes, SteadyCall, Good
        <3> QED BY <2>1, <2>u, <3>1, <3>2 DEF CallTypes, SteadyCall, ProbeStates, Travelling
    <2>4. PlaceTypes' /\ TheConfigIsVouchedFor' /\ OutageFailsNoSetup'
        BY <2>1, <2>u, StillVouchedFor DEF PlaceTypes, OutageFailsNoSetup, placeVars, worldVars
    <2> HIDE DEF now
    <2>5. CASE \E r \in Readings : now[r] \in Travelling
        <3>1. probes' = now /\ UNCHANGED setup
            BY <2>2, <2>5 DEF now
        <3> QED BY <2>1, <2>3, <2>4, <2>u, <3>1
                DEF CallTypes, AnswersHold, SteadyCall, placeVars, worldVars, Detected, Covers, Sources, Good
    <2>6. CASE ~\E r \in Readings : now[r] \in Travelling
        <3> DEFINE failed == setup.failed \/ \E r \in Readings : now[r] # "served"
        <3>1. setup' = [setup EXCEPT !.phase = "props", !.model = setup.model, !.failed = failed] /\ probes' = Quiet
            BY <2>2, <2>6 DEF NextPhase, now
        <3>2. failed \in BOOLEAN
            OBVIOUS
        <3>3. Undisturbed' => ~failed
            BY <2>1, <2>3, <2>6, <2>u DEF SteadyCall, ProbeStates, Travelling
        <3> HIDE DEF failed
        <3>4. CallTypes' /\ AnswersHold'
            BY <2>1, <3>1, <3>2 DEF CallTypes, AnswersHold, Quiet, ProbeStates, placeVars, Detected, Covers, Sources, NoCall
        <3>5. SteadyCall'
            BY <2>1, <2>u, <3>1, <3>2, <3>3 DEF SteadyCall, CallTypes, worldVars, Good, Quiet
        <3> QED BY <2>4, <3>4, <3>5
    <2> QED BY <2>5, <2>6
<1>4. ASSUME NEW dies \in BOOLEAN, FinishSetup(dies) PROVE SetupInv'
    <2>1. /\ setup # NoCall /\ setup' = NoCall /\ probes' = Quiet
          /\ UNCHANGED <<checkout, versioned, liveRun, worldVars, steady, turned>>
        BY <1>4 DEF FinishSetup, NoCall
    <2>2. CallTypes' /\ AnswersHold'
        BY <2>1 DEF CallTypes, AnswersHold, Quiet, ProbeStates, NoCall
    <2>3. SteadyCall'
        BY <2>1 DEF SteadyCall, Undisturbed, worldVars, Good
    <2>4. CASE setup.failed \/ ~EnoughSlots
        <3>1. UNCHANGED <<config, onRecord>>
            BY <1>4, <2>4 DEF FinishSetup
        <3>2. ~Undisturbed
            BY <2>1, <2>4 DEF SteadyCall, Undisturbed, EnoughSlots, Good
        <3>3. PlaceTypes' /\ OutageFailsNoSetup'
            BY <2>1, <3>1, <3>2 DEF PlaceTypes, Undisturbed, OutageFailsNoSetup, worldVars, IsConfig
        <3> QED BY <2>1, <2>2, <2>3, <3>1, <3>3, StillVouchedFor
    <2>5. CASE ~(setup.failed \/ ~EnoughSlots)
        <3>1. /\ told' = "written" /\ config' = Candidate
              /\ onRecord' \in {Nil, setup.answers.acknowledges}
            BY <1>4, <2>5 DEF FinishSetup
        <3>2. PlaceTypes' /\ OutageFailsNoSetup'
            BY <2>1, <3>1 DEF PlaceTypes, OutageFailsNoSetup, worldVars, Candidate, Config
        <3>3. TheConfigIsVouchedFor'
            BY <1>0, <2>1, <3>1, CandidateIsVouchedFor
        <3> QED BY <2>2, <2>3, <3>2, <3>3
    <2> QED BY <2>4, <2>5
<1>5. CASE Prompt
    <2>1. TheConfigIsVouchedFor'
        BY <1>5, StillVouchedFor DEF Prompt, callVars
    <2> QED BY <1>5, <2>1 DEF Prompt, CallTypes, PlaceTypes, SteadyCall, Undisturbed, AnswersHold, OutageFailsNoSetup, Good,
            worldVars, callVars, IsConfig, Detected, Covers, Sources
<1>6. CASE RunEnds
    <2>1. TheConfigIsVouchedFor'
        BY <1>6, StillVouchedFor DEF RunEnds, callVars
    <2> QED BY <1>6, <2>1 DEF RunEnds, CallTypes, PlaceTypes, SteadyCall, Undisturbed, AnswersHold, OutageFailsNoSetup, Good,
            worldVars, callVars, IsConfig, Detected, Covers, Sources
<1>7. CASE HandEdit
    <2>1. IsConfig(config') => config'.author = "hand"
        BY <1>7 DEF HandEdit, PlaceTypes, IsConfig
    <2>2. TheConfigIsVouchedFor'
        BY <2>1 DEF TheConfigIsVouchedFor, IsConfig
    <2> QED BY <1>7, <2>2 DEF HandEdit, CallTypes, PlaceTypes, SteadyCall, Undisturbed, AnswersHold, OutageFailsNoSetup, Good,
            worldVars, IsConfig, Detected, Covers, Sources
<1>8. CASE NewProcess
    <2>1. TheConfigIsVouchedFor'
        BY <1>8, StillVouchedFor DEF NewProcess
    <2> QED BY <1>8, <2>1 DEF NewProcess, CallTypes, PlaceTypes, SteadyCall, Undisturbed, AnswersHold, OutageFailsNoSetup, Good,
            worldVars, IsConfig, Quiet, ProbeStates, NoCall
<1>9. CASE RouterTurns
    <2>1. TheConfigIsVouchedFor'
        BY <1>9, StillVouchedFor DEF RouterTurns, placeVars, callVars
    <2> QED BY <1>9, <2>1 DEF RouterTurns, CallTypes, PlaceTypes, SteadyCall, Undisturbed, AnswersHold, OutageFailsNoSetup, Good,
            placeVars, callVars, IsConfig, Detected, Covers, Sources
<1>10. CASE UpstreamTurns
    <2>1. TheConfigIsVouchedFor'
        BY <1>10, StillVouchedFor DEF UpstreamTurns, placeVars
    <2> QED BY <1>10, <2>1 DEF UpstreamTurns, CallTypes, PlaceTypes, SteadyCall, Undisturbed, AnswersHold, OutageFailsNoSetup,
            placeVars, IsConfig, Detected, Covers, Sources
<1>11. CASE UNCHANGED setupVars
    <2>1. TheConfigIsVouchedFor'
        BY <1>11, StillVouchedFor DEF setupVars, placeVars, callVars
    <2> QED BY <1>11, <2>1 DEF setupVars, CallTypes, PlaceTypes, SteadyCall, Undisturbed, AnswersHold, OutageFailsNoSetup, Good,
            placeVars, worldVars, callVars, IsConfig, Detected, Covers, Sources
<1> QED BY <1>1, <1>2, <1>3, <1>4, <1>5, <1>6, <1>7, <1>8, <1>9, <1>10, <1>11 DEF SetupNext

LEMMA SetupInvHolds == SetupSpec => []SetupInv
BY SetupInvInit, SetupInvStep, PTL DEF SetupSpec

\* A setup is told that a proof failed only if the model server was not good all through
\* the call or the router answered one of its requests with an error of its own, however
\* many readers a dead or slow router let down (tools.ts setupProofRequest).
THEOREM OutagesFailNoSetup == SetupSpec => []OutageFailsNoSetup
<1>1. SetupInv => OutageFailsNoSetup
    BY DEF SetupInv
<1> QED BY <1>1, SetupInvHolds, PTL

\* What a setup writes can carry a run: it covers the files of the checkout, and what it
\* leaves out was acknowledged (tools.ts handleSetup).
THEOREM ConfigsAreVouchedFor == SetupSpec => []TheConfigIsVouchedFor
<1>1. SetupInv => TheConfigIsVouchedFor
    BY DEF SetupInv
<1> QED BY <1>1, SetupInvHolds, PTL

-----------------------------------------------------------------------------
(* The review of an item: ItemReview.                                      *)

Moments == {"idle", "lenses", "panel", "fix", "pushback", "redemand", "measure", "refix",
            "probe", "probing", "revet", "verify"}

ReviewTypes ==
    /\ moment \in Moments /\ fixer \in Fixers /\ ruling \in {"none", "asked", "reviewed"}
    /\ moment # "idle" => ruling = "none"
    /\ rounds \in 0..ReviewMaxRounds
    /\ unvetted \in BOOLEAN /\ unverified \in BOOLEAN /\ early \in BOOLEAN

\* The lenses and the panel judge the tree they were shown.
ReadAsShown == moment \in {"lenses", "panel"} => unseen = {}

\* Tests are edited by the test-writer, whose pass ends at the critics'; between calls
\* and while nothing is fixed the tree is vetted and verified, or `early` says so.
\* No fix is under way without a finding to fix.
PassesAreFollowedUp ==
    /\ moment \in {"probe", "probing", "revet"} => fixer = "testWriter"
    /\ fixer # "testWriter" \/ moment \in {"idle", "lenses", "panel", "verify"} => early \/ ~unvetted
    /\ moment \in {"idle", "lenses", "panel"} => early \/ ~unverified
    /\ moment \notin {"idle", "lenses", "panel"} => survivors # {}

ReviewInv == ReviewTypes /\ ReadAsShown /\ PassesAreFollowedUp /\ ApprovalIsOfTheTree

LEMMA ReviewInvInit == ItemReviewInit => ReviewInv
<1>1. 0 \in 0..ReviewMaxRounds
    BY ItemReviewAssumption
<1> QED
   BY <1>1 DEF ItemReviewInit, ReviewInv, ReviewTypes, ReadAsShown, PassesAreFollowedUp, ApprovalIsOfTheTree, Moments, Fixers

\* A call that ends before its verify leaves the tree as good as it was, or says so.
LEMMA GivingUp ==
    ASSUME ReviewInv, GivesUp, unvetted' \in BOOLEAN, unverified' \in BOOLEAN, fixer' \in Fixers
    PROVE  ReviewInv'
BY DEF GivesUp, EndsCall, LeavesEarly, ReviewInv, ReviewTypes, ReadAsShown, PassesAreFollowedUp,
       ApprovalIsOfTheTree, Moments

\* What a fixer's edits leave of the tree.
LEMMA EditsOfAHalf ==
    ASSUME ReviewInv, Edits
    PROVE  /\ unvetted' \in BOOLEAN /\ unverified' \in BOOLEAN
           /\ fixer # "testWriter" => unvetted' = unvetted
BY DEF Edits, WritableHalves, ReviewInv, ReviewTypes, Fixers

\* A pass goes on with its tree, its fixer and its findings.
LEMMA PassGoesOn ==
    ASSUME ReviewInv, moment \notin {"idle", "lenses", "panel", "verify"},
           NEW to \in {"pushback", "redemand", "measure", "refix", "probe", "probing", "revet", "verify"}, Goes(to),
           unvetted' \in BOOLEAN, unverified' \in BOOLEAN, UNCHANGED <<fixer, survivors>>,
           fixer # "testWriter" => unvetted' = unvetted,
           to \in {"probe", "probing", "revet"} => fixer = "testWriter",
           to = "verify" => fixer # "testWriter"
    PROVE  ReviewInv'
BY DEF Goes, ReviewInv, ReviewTypes, ReadAsShown, PassesAreFollowedUp, ApprovalIsOfTheTree, Moments

LEMMA ReviewInvStep == ReviewInv /\ [ItemReviewNext]_reviewVars => ReviewInv'
<1> SUFFICES ASSUME ReviewInv, [ItemReviewNext]_reviewVars PROVE ReviewInv'
    OBVIOUS
<1>0. ReviewMaxRounds \in Nat \ {0}
    BY ItemReviewAssumption
<1>1. CASE CallReview
    BY <1>0, <1>1 DEF CallReview, Round, ReviewInv, ReviewTypes, ReadAsShown, PassesAreFollowedUp,
       ApprovalIsOfTheTree, Moments, Fixers
<1>2. CASE AnswerReview
    BY <1>2 DEF AnswerReview, ReviewInv, ReviewTypes, ReadAsShown, PassesAreFollowedUp, ApprovalIsOfTheTree,
       roundVars, treeVars
<1>3. CASE LensesAnswer
    BY <1>3 DEF LensesAnswer, AdvanceItem, EndsCall, ReviewInv, ReviewTypes, ReadAsShown, PassesAreFollowedUp,
       ApprovalIsOfTheTree, Moments, treeVars
<1>4. CASE PanelAnswers
    BY <1>4 DEF PanelAnswers, AdvanceItem, EndsCall, ReviewInv, ReviewTypes, ReadAsShown, PassesAreFollowedUp,
       ApprovalIsOfTheTree, Moments, Fixers, treeVars
<1>5. CASE FixAnswers
    <2>1. moment = "fix" /\ Edits /\ UNCHANGED <<survivors, fixer>> /\ fixer' \in Fixers
        BY <1>5 DEF FixAnswers, ReviewInv, ReviewTypes
    <2>2. GivesUp \/ \E to \in {"measure", "pushback"} : Goes(to)
        BY <1>5 DEF FixAnswers
    <2> QED BY <2>1, <2>2, EditsOfAHalf, GivingUp, PassGoesOn
<1>6. CASE PushbackAnswers
    <2>1. moment = "pushback" /\ UNCHANGED <<survivors, fixer, unvetted, unverified>>
        BY <1>6 DEF PushbackAnswers, treeVars
    <2>2. \E to \in {"measure", "redemand"} : Goes(to)
        BY <1>6 DEF PushbackAnswers
    <2> QED BY <2>1, <2>2, PassGoesOn DEF ReviewInv, ReviewTypes
<1>7. CASE RedemandAnswers
    <2>1. moment = "redemand" /\ Edits /\ UNCHANGED <<survivors, fixer>> /\ fixer' \in Fixers
        BY <1>7 DEF RedemandAnswers, ReviewInv, ReviewTypes
    <2>2. GivesUp \/ Goes("measure")
        BY <1>7 DEF RedemandAnswers
    <2> QED BY <2>1, <2>2, EditsOfAHalf, GivingUp, PassGoesOn
<1>8. CASE Measure
    <2>1. moment = "measure" /\ UNCHANGED <<survivors, fixer, unvetted, unverified>>
        BY <1>8 DEF Measure, roundVars, treeVars
    <2>2. Goes("refix") \/ (fixer = "testWriter" /\ Goes("probe")) \/ (fixer # "testWriter" /\ Goes("verify"))
        BY <1>8 DEF Measure, AfterThePass
    <2> QED BY <2>1, <2>2, PassGoesOn DEF ReviewInv, ReviewTypes
<1>9. CASE RefixAnswers
    <2>1. moment = "refix" /\ Edits /\ UNCHANGED <<survivors, fixer>> /\ fixer' \in Fixers
        BY <1>9 DEF RefixAnswers, ReviewInv, ReviewTypes
    <2>2. GivesUp \/ (fixer = "testWriter" /\ Goes("probe")) \/ (fixer # "testWriter" /\ Goes("verify"))
        BY <1>9 DEF RefixAnswers, AfterThePass
    <2> QED BY <2>1, <2>2, EditsOfAHalf, GivingUp, PassGoesOn
<1>10. CASE Push
    <2>1. moment = "probe" /\ UNCHANGED <<survivors, fixer, unvetted, unverified>>
        BY <1>10 DEF Push, roundVars
    <2>2. Goes("revet") \/ Goes("probing")
        BY <1>10 DEF Push
    <2>3. fixer = "testWriter"
        BY <2>1 DEF ReviewInv, PassesAreFollowedUp
    <2> QED BY <2>1, <2>2, <2>3, PassGoesOn DEF ReviewInv, ReviewTypes
<1>11. CASE Pop
    <2>1. moment = "probing" /\ UNCHANGED <<survivors, fixer, unvetted, unverified>>
        BY <1>11 DEF Pop, roundVars
    <2>2. GivesUp \/ Goes("revet")
        BY <1>11 DEF Pop
    <2>3. fixer = "testWriter"
        BY <2>1 DEF ReviewInv, PassesAreFollowedUp
    <2> QED BY <2>1, <2>2, <2>3, PassGoesOn, GivingUp DEF ReviewInv, ReviewTypes
<1>12. CASE RevetAnswers
    <2>1. moment = "revet" /\ UNCHANGED <<survivors, unverified>>
        BY <1>12 DEF RevetAnswers
    <2>2. CASE unvetted' = unvetted /\ GivesUp /\ UNCHANGED fixer
        BY <2>1, <2>2, GivingUp DEF ReviewInv, ReviewTypes
    <2>3. CASE unvetted' = FALSE /\ fixer' \in {fixer, "implementer"} /\ (Goes("verify") \/ Goes("fix"))
        BY <2>1, <2>3 DEF Goes, ReviewInv, ReviewTypes, ReadAsShown, PassesAreFollowedUp, ApprovalIsOfTheTree,
           Moments, Fixers
    <2> QED BY <1>12, <2>2, <2>3 DEF RevetAnswers
<1>13. CASE Revalidate
    <2>1. moment = "verify" /\ unverified' = FALSE /\ UNCHANGED unvetted /\ (early \/ ~unvetted)
          /\ unvetted \in BOOLEAN
        BY <1>13 DEF Revalidate, Verified, ReviewInv, ReviewTypes, PassesAreFollowedUp
    <2>2. CASE rounds < ReviewMaxRounds /\ Round(rounds + 1)
        <3>1. /\ moment' = "lenses" /\ rounds' = rounds + 1 /\ fixer' = "implementer" /\ unseen' = {}
              /\ UNCHANGED <<ruling, early>>
            BY <2>2 DEF Round
        <3>2. rounds' \in 0..ReviewMaxRounds
            BY <1>0, <2>2, <3>1 DEF ReviewInv, ReviewTypes
        <3>3. ruling = "none"
            BY <2>1 DEF ReviewInv, ReviewTypes
        <3>4. ReviewTypes'
            BY <2>1, <3>1, <3>2, <3>3 DEF ReviewInv, ReviewTypes, Moments, Fixers
        <3> QED BY <2>1, <3>1, <3>3, <3>4 DEF ReviewInv, ReadAsShown, PassesAreFollowedUp, ApprovalIsOfTheTree
    <2>3. CASE /\ rounds >= ReviewMaxRounds
               /\ EndsCall(IF survivors \subseteq dead THEN "reviewed" ELSE "asked")
               /\ UNCHANGED <<roundVars, unseen, stash, early>>
        <3>1. rounds = ReviewMaxRounds /\ survivors # {}
            BY <1>0, <2>1, <2>3 DEF ReviewInv, ReviewTypes, PassesAreFollowedUp
        <3>2. moment' = "idle" /\ UNCHANGED <<rounds, survivors, dead, fixer, unseen, early>>
              /\ ruling' = (IF survivors \subseteq dead THEN "reviewed" ELSE "asked")
            BY <2>3 DEF EndsCall, roundVars
        <3>3. ReviewTypes'
            BY <2>1, <3>2 DEF ReviewInv, ReviewTypes, Moments
        <3>4. ReadAsShown' /\ PassesAreFollowedUp'
            BY <2>1, <3>2 DEF ReadAsShown, PassesAreFollowedUp
        <3>5. ApprovalIsOfTheTree'
            BY <2>1, <3>1, <3>2 DEF ApprovalIsOfTheTree, SettledByPushback
        <3> QED BY <3>3, <3>4, <3>5 DEF ReviewInv
    <2> QED BY <1>13, <2>2, <2>3 DEF Revalidate
<1>14. CASE Broken
    BY <1>14 DEF Broken, EndsCall, ReviewInv, ReviewTypes, ReadAsShown, PassesAreFollowedUp,
       ApprovalIsOfTheTree, Moments, roundVars, treeVars
<1>15. CASE UNCHANGED reviewVars
    BY <1>15 DEF reviewVars, roundVars, treeVars, ReviewInv, ReviewTypes, ReadAsShown, PassesAreFollowedUp,
       ApprovalIsOfTheTree, SettledByPushback
<1> QED BY <1>1, <1>2, <1>3, <1>4, <1>5, <1>6, <1>7, <1>8, <1>9, <1>10, <1>11, <1>12, <1>13, <1>14, <1>15
        DEF ItemReviewNext

LEMMA ReviewInvHolds == ItemReviewSpec => []ReviewInv
BY ReviewInvInit, ReviewInvStep, PTL DEF ItemReviewSpec

\* An item is REVIEWED on the tree that its lenses read, its critics cleared and a green
\* verify saw, for any findings, panels, round caps and kills: what a call that was cut
\* short left behind is the one exception (tools.ts handleItemReview).
THEOREM ReviewsAreOfTheTree == ItemReviewSpec => []ApprovalIsOfTheTree
<1>1. ReviewInv => ApprovalIsOfTheTree
    BY DEF ReviewInv
<1> QED BY <1>1, ReviewInvHolds, PTL

\* The first line of a hunk is a citation of it, for the kinds of file that have hunks
\* and were not emptied.
LEMMA FirstLinesWitness == ASSUME NEW files, "emptied" \notin files PROVE CanWitness(files)
<1> DEFINE some == DiffContact(files)
           span == [f \in some |-> <<1, 1>>]
           cited == {[file |-> f, span |-> span[f]] : f \in some}
<1>1. some \subseteq files /\ some \subseteq {"edited", "created"}
    BY DEF DiffContact, Headed, Hunks
<1>2. cited \in Witnesses(files)
    <2>1. span \in [some -> Spans] /\ some \in SUBSET files
        BY <1>1 DEF Spans
    <2> HIDE DEF span, some
    <2> QED BY <2>1 DEF Witnesses
<1>3. ASSUME NEW range \in cited
      PROVE  /\ range.file \in DiffContact(files)
             /\ 1 <= range.span[1] /\ range.span[1] <= range.span[2]
             /\ \E hunk \in Hunks(range.file) : SpansOverlap(hunk, range.span)
    <2>1. PICK f \in some : range = [file |-> f, span |-> <<1, 1>>]
        OBVIOUS
    <2>2. range.file = f /\ range.span = <<1, 1>> /\ f \in {"edited", "created"}
        BY <1>1, <2>1
    <2>3. CASE f = "edited"
        <3>1. <<1, 1>> \in Hunks(f)
            BY <2>3 DEF Hunks
        <3> QED BY <2>2, <3>1 DEF SpansOverlap
    <2>4. CASE f = "created"
        <3>1. <<1, 2>> \in Hunks(f)
            BY <2>4 DEF Hunks
        <3> QED BY <2>2, <3>1 DEF SpansOverlap
    <2> QED BY <2>2, <2>3, <2>4
<1>4. ASSUME NEW f \in DiffContact(files) PROVE \E range \in cited : range.file = f
    <2>1. [file |-> f, span |-> span[f]] \in cited
        OBVIOUS
    <2> QED BY <2>1
<1> HIDE DEF cited
<1> QED BY <1>2, <1>3, <1>4 DEF CanWitness, CheckReadWitness

\* No stage of a review asks for what cannot be given: a reviewer can cite every file of
\* the diff unless one was emptied, and a fixer's edits can meet the floor unless none of
\* its findings names a file it may write (review-witness.ts).
THEOREM NoDemandIsAWedge == ItemReviewSpec => []DemandsCanBeMet
<1>1. ReviewInv => DemandsCanBeMet
    <2> SUFFICES ASSUME ReviewInv PROVE DemandsCanBeMet
        OBVIOUS
    <2>1. WritableHalves(fixer) \ FloorExclusions(fixer) = WritableHalves(fixer)
        BY DEF WritableHalves, FloorExclusions
    <2>2. \/ ReceiptFloor(fixer, WritableHalves(fixer), Obliged)
          \/ \A f \in Obliged : NamesOnlyElsewhere(f, fixer)
        BY <2>1 DEF ReceiptFloor, NamesOnlyElsewhere
    <2> QED BY <2>2, FirstLinesWitness DEF DemandsCanBeMet
<1> QED BY <1>1, ReviewInvHolds, PTL

-----------------------------------------------------------------------------
(* What a run may do next: Legality.                                         *)

ItemStates == {"PENDING", "RED", "TEST_VETTED", "GREEN", "VALIDATED", "REVIEWED", "PUBLISHED"}
Dispositions == {"settled", "actionable", "waiting-human", "stuck"}
Queues == Accepted \cup {TrivialQueue({}), TrivialQueue({1})}

LegalityValues ==
    /\ position \in Fields /\ classification \in {"work", "trivial", "question"}
    /\ classified \in BOOLEAN /\ publishEnabled \in BOOLEAN
    /\ plannedQueue \in Queues \cup {EmptyQueue}
    /\ DOMAIN stateOf = ItemIds /\ DOMAIN blockedOn = ItemIds
    /\ \A i \in ItemIds : stateOf[i] \in ItemStates /\ blockedOn[i] \in Nat \cup {NoOne}
    /\ questions \in Seq([blocks : SUBSET Nat, open : BOOLEAN])

\* Only work stays at intake once it is classified, and only a run past intake has items;
\* a run at work has.
PositionsFit ==
    /\ position = "INTAKE" /\ classified => classification = "work"
    /\ position \in {"DECOMPOSED", "PLANNED", "PLAN_REVIEWED", "EXECUTING"} => plannedQueue \in Queues

\* What an item is blocked on has not been answered.
BlocksAreOpen == \A i \in ItemIds : Blocked(i) => blockedOn[i] \in Open

\* An item moves after all it depends on are published, and without git none is.
PassedInOrder == \A i \in ItemIds : stateOf[i] # "PENDING" => DepsPublished(i)
GitPublishes == ~publishEnabled => \A i \in ItemIds : stateOf[i] # "PUBLISHED"

DoneIsAnEnd == closing = "done" => position \in Terminals

LegalityInv ==
    LegalityValues /\ PositionsFit /\ BlocksAreOpen /\ PassedInOrder /\ GitPublishes /\ DoneIsAnEnd /\ DoneIsDone

\* The items of a queue: finitely many, no cycle among them, and some once there is a queue.
LEMMA QueueFacts ==
    ASSUME LegalityValues
    PROVE  /\ ItemIds \subseteq Nat /\ IsFiniteSet(ItemIds)
           /\ \A i \in ItemIds : DependsOn(i) \subseteq ItemIds
           /\ \E n \in Nat : \E rank \in [ItemIds -> 0..n] :
                 \A i \in ItemIds : \A d \in DependsOn(i) : rank[d] < rank[i]
           /\ plannedQueue \in Queues => ItemIds # {}
<1>1. CASE plannedQueue \in Accepted
    <2>1. Cardinality(ItemIds) \in Nat /\ IsFiniteSet(ItemIds)
        BY <1>1, LegalityAssumption, FS_CardinalityType DEF ItemIds
    <2> QED BY <1>1, <2>1, LegalityAssumption DEF ItemIds, DependsOn
<1>2. CASE plannedQueue \in {TrivialQueue({}), TrivialQueue({1})}
    <2>1. ItemIds = {1} /\ DependsOn(1) = {}
        BY <1>2 DEF ItemIds, DependsOn, TrivialQueue
    <2>2. IsFiniteSet({1})
        BY FS_Singleton
    <2>3. \E rank \in [ItemIds -> 0..0] : \A i \in ItemIds : \A d \in DependsOn(i) : rank[d] < rank[i]
        <3>1. [i \in {1} |-> 0] \in [ItemIds -> 0..0]
            BY <2>1
        <3>2. \A i \in ItemIds : DependsOn(i) = {}
            BY <2>1
        <3> QED BY <3>1, <3>2
    <2>4. ItemIds \subseteq Nat /\ IsFiniteSet(ItemIds) /\ ItemIds # {}
        BY <2>1, <2>2
    <2>5. \A i \in ItemIds : DependsOn(i) \subseteq ItemIds
        BY <2>1
    <2> QED BY <2>3, <2>4, <2>5
<1>3. CASE plannedQueue = EmptyQueue /\ plannedQueue \notin Queues
    <2>1. ItemIds = {}
        BY <1>3 DEF ItemIds, EmptyQueue
    <2>2. IsFiniteSet({})
        BY FS_EmptySet
    <2>3. [i \in {} |-> 0] \in [ItemIds -> 0..0]
        BY <2>1
    <2> QED BY <1>3, <2>1, <2>2, <2>3
<1> QED BY <1>1, <1>2, <1>3 DEF LegalityValues, Queues

\* The dispositions are the fixpoint they are defined as.
LEMMA DispositionsAreTheFixpoint ==
    ASSUME LegalityValues, NEW publish, NEW live, NEW i \in ItemIds
    PROVE  LET of == DispositionsOf(publish, live) IN
           /\ of[i] \in Dispositions
           /\ of[i] = IF /\ Seed(i, publish, live) = "actionable"
                         /\ \E d \in DependsOn(i) : NeverPublishes(d, of[d])
                      THEN "stuck" ELSE Seed(i, publish, live)
<1> DEFINE V == Dispositions
           Value(f, j) == IF /\ Seed(j, publish, live) = "actionable"
                             /\ \E d \in DependsOn(j) : NeverPublishes(d, f[d])
                          THEN "stuck" ELSE Seed(j, publish, live)
           E == [p \in [ItemIds -> V] \X ItemIds |-> Value(p[1], p[2])]
<1>1. ASSUME NEW f, NEW j \in ItemIds PROVE Value(f, j) \in V
    BY DEF Seed, Dispositions
<1>2. E \in [[ItemIds -> V] \X ItemIds -> V]
    <2> HIDE DEF V, Value
    <2> QED BY <1>1
<1>0. PICK n \in Nat : \E rank \in [ItemIds -> 0..n] :
         \A j \in ItemIds : \A d \in DependsOn(j) : d \in ItemIds /\ rank[d] < rank[j]
    BY QueueFacts
<1>3. PICK rank \in [ItemIds -> 0..n] :
         \A j \in ItemIds : \A d \in DependsOn(j) : d \in ItemIds /\ rank[d] < rank[j]
    BY <1>0
<1>4. ASSUME NEW f \in [ItemIds -> V], NEW g \in [ItemIds -> V], NEW j \in ItemIds,
             \A k \in ItemIds : rank[k] < rank[j] => f[k] = g[k]
      PROVE  E[<<f, j>>] = E[<<g, j>>]
    <2>1. \A d \in DependsOn(j) : f[d] = g[d]
        BY <1>3, <1>4
    <2>2. Value(f, j) = Value(g, j)
        <3> HIDE DEF V
        <3> QED BY <2>1
    <2>3. E[<<f, j>>] = Value(f, j) /\ E[<<g, j>>] = Value(g, j)
        <3> HIDE DEF V, Value
        <3> QED OBVIOUS
    <2> QED BY <2>2, <2>3
<1>5. "stuck" \in V
    BY DEF Dispositions
<1>6. \E f \in [ItemIds -> V] : \A j \in ItemIds : f[j] = E[<<f, j>>]
    <2> HIDE DEF V, E
    <2>1. \A f, g \in [ItemIds -> V], j \in ItemIds :
             (\A k \in ItemIds : rank[k] < rank[j] => f[k] = g[k]) => E[<<f, j>>] = E[<<g, j>>]
        BY <1>4
    <2>2. IsRecursion(ItemIds, V, E, rank, n)
        BY <1>0, <1>2, <1>3, <1>5, <2>1 DEF IsRecursion
    <2> QED BY <2>2, RecursionAlongRanks
<1>7. PICK f \in [ItemIds -> V] : f = [j \in ItemIds |-> Value(f, j)]
    <2>1. PICK f \in [ItemIds -> V] : \A j \in ItemIds : f[j] = E[<<f, j>>]
        BY <1>6
    <2>2. \A j \in ItemIds : f[j] = Value(f, j)
        <3> HIDE DEF V, Value
        <3> QED BY <2>1
    <2> HIDE DEF V, Value
    <2> QED BY <2>2
<1> DEFINE of == DispositionsOf(publish, live)
<1>8. of = [j \in ItemIds |-> Value(of, j)]
    BY <1>7, Zenon DEF DispositionsOf
<1>9. of[i] = Value(of, i)
    <2> HIDE DEF of, Value
    <2> QED BY <1>8
<1>10. of[i] \in V
    <2> HIDE DEF of, Value, V
    <2> QED BY <1>1, <1>9
<1> QED BY <1>9, <1>10

\* The depth of an item is a number.
LEMMA DepthIsNatural == ASSUME LegalityValues PROVE Depth \in [ItemIds -> Nat]
<1> DEFINE E == [p \in [ItemIds -> Nat] \X ItemIds |-> DepthOver(p[1], p[2])]
<1>1. ASSUME NEW f, NEW j \in ItemIds, \A d \in DependsOn(j) : f[d] \in Nat PROVE DepthOver(f, j) \in Nat
    <2>1. CASE DependsOn(j) = {}
        BY <2>1 DEF DepthOver
    <2>2. CASE DependsOn(j) # {}
        <3> DEFINE S == {f[d] : d \in DependsOn(j)}
        <3>1. S # {} /\ S \in SUBSET Nat
            BY <1>1, <2>2
        <3>2. IsFiniteSet(S)
            <4>1. IsFiniteSet(DependsOn(j))
                BY QueueFacts, FS_Subset
            <4> DEFINE h == [d \in DependsOn(j) |-> f[d]]
            <4>2. h \in Surjection(DependsOn(j), S)
                BY DEF Surjection
            <4> HIDE DEF h, S
            <4> QED BY <4>1, <4>2, FS_Surjection
        <3> HIDE DEF S
        <3>3. \E x \in S : \A y \in S : x >= y
            BY <3>1, <3>2, FiniteMax
        <3>4. Max(S) \in S
            BY <3>3 DEF Max
        <3>5. DepthOver(f, j) = 1 + Max(S)
            BY <2>2 DEF S, DepthOver
        <3>6. Max(S) \in Nat
            BY <3>1, <3>4
        <3> QED BY <3>5, <3>6
    <2> QED BY <2>1, <2>2
<1>2. E \in [[ItemIds -> Nat] \X ItemIds -> Nat]
    <2>1. \A f \in [ItemIds -> Nat], j \in ItemIds : DepthOver(f, j) \in Nat
        BY <1>1, QueueFacts
    <2> QED BY <2>1
<1>0. PICK n \in Nat : \E rank \in [ItemIds -> 0..n] :
         \A j \in ItemIds : \A d \in DependsOn(j) : d \in ItemIds /\ rank[d] < rank[j]
    BY QueueFacts
<1>3. PICK rank \in [ItemIds -> 0..n] :
         \A j \in ItemIds : \A d \in DependsOn(j) : d \in ItemIds /\ rank[d] < rank[j]
    BY <1>0
<1>4. ASSUME NEW f \in [ItemIds -> Nat], NEW g \in [ItemIds -> Nat], NEW j \in ItemIds,
             \A k \in ItemIds : rank[k] < rank[j] => f[k] = g[k]
      PROVE  E[<<f, j>>] = E[<<g, j>>]
    <2>1. \A d \in DependsOn(j) : f[d] = g[d]
        BY <1>3, <1>4
    <2>2. {f[d] : d \in DependsOn(j)} = {g[d] : d \in DependsOn(j)}
        BY <2>1
    <2>3. DepthOver(f, j) = DepthOver(g, j)
        BY <2>2 DEF DepthOver
    <2>4. E[<<f, j>>] = DepthOver(f, j) /\ E[<<g, j>>] = DepthOver(g, j)
        <3> QED OBVIOUS
    <2> QED BY <2>3, <2>4
<1>5. \E f \in [ItemIds -> Nat] : \A j \in ItemIds : f[j] = E[<<f, j>>]
    <2> HIDE DEF E
    <2>1. \A f, g \in [ItemIds -> Nat], j \in ItemIds :
             (\A k \in ItemIds : rank[k] < rank[j] => f[k] = g[k]) => E[<<f, j>>] = E[<<g, j>>]
        BY <1>4
    <2>2. IsRecursion(ItemIds, Nat, E, rank, n)
        BY <1>0, <1>2, <1>3, <2>1 DEF IsRecursion
    <2> QED BY <2>2, RecursionAlongRanks
<1>6. PICK f \in [ItemIds -> Nat] : f = [j \in ItemIds |-> DepthOver(f, j)]
    <2>1. PICK f \in [ItemIds -> Nat] : \A j \in ItemIds : f[j] = E[<<f, j>>]
        BY <1>5
    <2>2. \A j \in ItemIds : f[j] = DepthOver(f, j)
        <3> QED BY <2>1
    <2> QED BY <2>2
<1>7. \E h : h = [j \in ItemIds |-> DepthOver(h, j)]
    BY <1>6
<1>8. Depth = [j \in ItemIds |-> DepthOver(Depth, j)]
    BY <1>7, Zenon DEF Depth
<1> DEFINE bad == {j \in ItemIds : Depth[j] \notin Nat}
<1>9. bad = {}
    <2> SUFFICES ASSUME bad # {} PROVE FALSE
        OBVIOUS
    <2> DEFINE R == {rank[j] : j \in bad}
    <2>1. R \in SUBSET Nat /\ R # {}
        BY <1>3
    <2>2. PICK j \in bad : \A k \in bad : rank[j] <= rank[k]
        <3>1. PICK r \in R : \A q \in R : r <= q
            <4> HIDE DEF R
            <4> QED BY <2>1, NatMin
        <3> QED BY <3>1
    <2>3. \A d \in DependsOn(j) : Depth[d] \in Nat
        BY <1>3, <2>2
    <2>4. Depth[j] = DepthOver(Depth, j)
        BY <1>8
    <2> QED BY <1>1, <2>2, <2>3, <2>4
<1> QED BY <1>8, <1>9

\* The head of the wave is a candidate: there is one of least depth, and among those of
\* that depth one of least id.
LEMMA WaveFirstIsACandidate ==
    ASSUME LegalityValues, Candidates # {}
    PROVE  WaveFirst \in Candidates
<1> DEFINE Depths == {Depth[i] : i \in Candidates}
<1>1. Candidates \subseteq ItemIds /\ ItemIds \subseteq Nat
    BY QueueFacts DEF Candidates
<1>2. PICK d \in Depths : \A e \in Depths : d <= e
    <2>1. Depths \in SUBSET Nat /\ Depths # {}
        BY <1>1, DepthIsNatural
    <2> HIDE DEF Depths
    <2> QED BY <2>1, NatMin
<1> DEFINE Shallowest == {i \in Candidates : Depth[i] = d}
<1>3. PICK i \in Shallowest : \A j \in Shallowest : i <= j
    <2>1. Shallowest \in SUBSET Nat /\ Shallowest # {}
        BY <1>1, <1>2
    <2> HIDE DEF Shallowest
    <2> QED BY <2>1, NatMin
<1>4. ASSUME NEW j \in Candidates PROVE Depth[i] < Depth[j] \/ (Depth[i] = Depth[j] /\ i <= j)
    <2>1. Depth[j] \in Nat /\ d \in Nat /\ d <= Depth[j] /\ Depth[i] = d
        BY <1>1, <1>2, <1>3, DepthIsNatural
    <2>2. CASE Depth[j] = d
        BY <1>3, <2>1, <2>2
    <2> QED BY <2>1, <2>2
<1>5. \E k \in Candidates : \A j \in Candidates : Depth[k] < Depth[j] \/ (Depth[k] = Depth[j] /\ k <= j)
    BY <1>3, <1>4
<1> QED BY <1>5, Zenon DEF WaveFirst

\* While nobody is asked and an item can move, the first that can, along the dependencies,
\* is ready, or waits, without git, for one that is reviewed and ready itself.
LEMMA AnItemCanMove ==
    ASSUME LegalityInv, Open = {}, NEW k \in ItemIds,
           DispositionsOf(publishEnabled, DOMAIN questions)[k] = "actionable"
    PROVE  \E i \in OpenItems :
              /\ publishEnabled \/ stateOf[i] # "REVIEWED"
              /\ \/ i \in Candidates
                 \/ ~publishEnabled /\ \E d \in DependsOn(i) : stateOf[d] = "REVIEWED" /\ d \in Candidates
<1> DEFINE of == DispositionsOf(publishEnabled, DOMAIN questions)
           Can == {i \in ItemIds : of[i] = "actionable"}
<1>1. PICK n \in Nat : \E rank \in [ItemIds -> 0..n] :
         \A j \in ItemIds : \A d \in DependsOn(j) : d \in ItemIds /\ rank[d] < rank[j]
    BY QueueFacts DEF LegalityInv
<1>2. PICK rank \in [ItemIds -> 0..n] :
         \A j \in ItemIds : \A d \in DependsOn(j) : d \in ItemIds /\ rank[d] < rank[j]
    BY <1>1
<1> HIDE DEF of
<1>3. PICK i \in Can : \A j \in Can : rank[i] <= rank[j]
    <2> DEFINE R == {rank[j] : j \in Can}
    <2>1. R \in SUBSET Nat /\ R # {}
        BY <1>2 DEF of
    <2>2. PICK r \in R : \A q \in R : r <= q
        <3> HIDE DEF R
        <3> QED BY <2>1, NatMin
    <2> QED BY <2>2
<1>4. \A j \in ItemIds : ~Blocked(j)
    BY DEF LegalityInv, BlocksAreOpen
<1>5. \A j \in ItemIds :
         /\ of[j] \in Dispositions
         /\ of[j] = IF /\ Seed(j, publishEnabled, DOMAIN questions) = "actionable"
                       /\ \E d \in DependsOn(j) : NeverPublishes(d, of[d])
                    THEN "stuck" ELSE Seed(j, publishEnabled, DOMAIN questions)
    BY DispositionsAreTheFixpoint DEF LegalityInv, of
<1>6. ~Settles(i, publishEnabled) /\ \A d \in DependsOn(i) : ~NeverPublishes(d, of[d])
    BY <1>3, <1>5 DEF Seed
<1>7. ASSUME NEW d \in DependsOn(i)
      PROVE  stateOf[d] = "PUBLISHED" \/ (~publishEnabled /\ stateOf[d] = "REVIEWED" /\ d \notin deferred)
    <2>1. d \in ItemIds /\ of[d] # "actionable"
        <3>1. d \in ItemIds /\ rank[d] < rank[i]
            BY <1>2, <1>3
        <3>2. d \notin Can
            BY <1>2, <1>3, <3>1
        <3> QED BY <3>1, <3>2
    <2>2. of[d] # "stuck"
        BY <1>6 DEF NeverPublishes
    <2>3. Seed(d, publishEnabled, DOMAIN questions) = "settled"
        BY <1>4, <1>5, <2>1, <2>2 DEF Seed
    <2>4. Settles(d, publishEnabled)
        BY <2>3 DEF Seed
    <2> QED BY <1>6, <2>4 DEF Settles, NeverPublishes
<1>8. i \in OpenItems /\ (publishEnabled \/ stateOf[i] # "REVIEWED")
    BY <1>3, <1>4, <1>6 DEF Settles, OpenItems
<1>9. CASE DepsPublished(i)
    BY <1>8, <1>9 DEF Candidates, OpenItems
<1>10. CASE ~DepsPublished(i)
    <2>1. PICK d \in DependsOn(i) : ~publishEnabled /\ stateOf[d] = "REVIEWED" /\ d \notin deferred
        BY <1>7, <1>10 DEF DepsPublished
    <2>2. d \in ItemIds
        BY <1>2, <1>3
    <2>3. d \in Candidates
        BY <1>4, <2>1, <2>2 DEF LegalityInv, PassedInOrder, Candidates
    <2> QED BY <1>8, <2>1, <2>3
<1> QED BY <1>9, <1>10

LEMMA LegalityInvInit == LegalityInit => LegalityInv
<1> SUFFICES ASSUME LegalityInit PROVE LegalityInv
    OBVIOUS
<1>1. ItemIds = {} /\ DOMAIN stateOf = {} /\ DOMAIN blockedOn = {}
    BY DEF LegalityInit, ItemIds, EmptyQueue
<1>2. LegalityValues
    <2>1. questions \in Seq([blocks : SUBSET Nat, open : BOOLEAN])
        BY DEF LegalityInit
    <2>2. position \in Fields /\ classification \in {"work", "trivial", "question"} /\ classified \in BOOLEAN
        BY DEF LegalityInit, Fields
    <2>3. publishEnabled \in BOOLEAN /\ plannedQueue \in Queues \cup {EmptyQueue}
        BY DEF LegalityInit
    <2> QED BY <1>1, <2>1, <2>2, <2>3 DEF LegalityValues
<1> QED BY <1>1, <1>2 DEF LegalityInit, LegalityInv, PositionsFit, BlocksAreOpen, PassedInOrder, GitPublishes,
                          DoneIsAnEnd, DoneIsDone, Running

\* A new queue: no item has moved and none is blocked.
LEMMA ANewQueue ==
    ASSUME LegalityInv, NEW q \in Queues, Enqueue(q), questions' = questions, publishEnabled' = publishEnabled,
           position' \in Fields, classification' \in {"work", "trivial", "question"}, classified' \in BOOLEAN
    PROVE  LegalityValues' /\ BlocksAreOpen' /\ PassedInOrder' /\ GitPublishes'
<1>1. /\ plannedQueue' = q /\ ItemIds' = DOMAIN q.dependsOn
      /\ stateOf' = [i \in ItemIds' |-> "PENDING"] /\ blockedOn' = [i \in ItemIds' |-> NoOne]
    BY DEF Enqueue, ItemIds
<1>2. \A i \in ItemIds' : stateOf'[i] = "PENDING" /\ blockedOn'[i] = NoOne
    BY <1>1
<1>3. LegalityValues'
    BY <1>1, <1>2 DEF LegalityInv, LegalityValues, ItemStates
<1> QED BY <1>2, <1>3 DEF BlocksAreOpen, Blocked, PassedInOrder, GitPublishes

\* A new question: it is open, and blocks what no earlier one holds.
LEMMA ANewQuestion ==
    ASSUME LegalityInv, NEW blocks \in SUBSET ItemIds, AskHuman(blocks), plannedQueue' = plannedQueue
    PROVE  /\ questions' \in Seq([blocks : SUBSET Nat, open : BOOLEAN])
           /\ DOMAIN blockedOn' = ItemIds' /\ \A i \in ItemIds' : blockedOn'[i] \in Nat \cup {NoOne}
           /\ BlocksAreOpen'
<1> DEFINE e == [blocks |-> blocks, open |-> TRUE]
<1>1. e \in [blocks : SUBSET Nat, open : BOOLEAN] /\ e.open
    BY QueueFacts DEF LegalityInv
<1>2. questions' = Append(questions, e) /\ questions \in Seq([blocks : SUBSET Nat, open : BOOLEAN])
    BY DEF AskHuman, LegalityInv, LegalityValues
<1>3. blockedOn' = [i \in ItemIds |-> IF i \in blocks /\ ~Blocked(i) THEN Len(questions) + 1 ELSE blockedOn[i]]
    BY DEF AskHuman
<1> HIDE DEF e
<1>4. /\ questions' \in Seq([blocks : SUBSET Nat, open : BOOLEAN]) /\ Len(questions) \in Nat
      /\ Len(questions') = Len(questions) + 1 /\ questions'[Len(questions) + 1] = e
      /\ \A k \in 1..Len(questions) : questions'[k] = questions[k]
    BY <1>1, <1>2
<1>5. DOMAIN questions = 1..Len(questions) /\ DOMAIN questions' = 1..(Len(questions) + 1)
    BY <1>2, <1>4
<1>6. Open' = Open \cup {Len(questions) + 1}
    BY <1>1, <1>4, <1>5 DEF Open
<1>7. ItemIds' = ItemIds
    BY DEF ItemIds
<1>8. ASSUME NEW i \in ItemIds PROVE /\ blockedOn'[i] \in Nat \cup {NoOne}
                                     /\ blockedOn'[i] = NoOne \/ blockedOn'[i] \in Open'
    BY <1>3, <1>4, <1>6 DEF LegalityInv, LegalityValues, BlocksAreOpen, Blocked
<1> QED BY <1>3, <1>4, <1>7, <1>8 DEF BlocksAreOpen, Blocked

\* A run that is over offers nothing but its status, and the answer to an open question.
LEMMA OverOffersNothing ==
    ASSUME IsTerminal, NEW o \in Legal
    PROVE  o = Offer("status", NoOne) \/ (Open # {} /\ o = Offer("answer", NoOne))
BY DEF Legal, Meta, Offer

LEMMA VerdictsAreOffered ==
    ASSUME NEW tool \in {"report", "surface", "answer", "defer", "decide"}, NEW caller, MayCall(tool, caller)
    PROVE  \E o \in Legal : o.tool = tool
BY DEF MayCall, PhaseRule, Offered

\* A run closed as done answers nothing: no question is open.
LEMMA DoneAllowsNothing ==
    ASSUME LegalityInv, closing = "done",
           NEW tool \in {"report", "surface", "answer", "defer", "decide"}, NEW caller, MayCall(tool, caller)
    PROVE  FALSE
<1>1. IsTerminal /\ Open = {}
    BY DEF LegalityInv, DoneIsDone, IsTerminal, Running
<1>2. PICK o \in Legal : o.tool = tool
    BY VerdictsAreOffered
<1>3. o = Offer("status", NoOne)
    BY <1>1, OverOffersNothing
<1> QED BY <1>2, <1>3 DEF Offer

\* What the gate offers a stage tool for: a candidate of a live run at work.
LEMMA StagesAreOfCandidates ==
    ASSUME LegalityValues, NEW i \in ItemIds, Offer(StageTool(i), i) \in Legal
    PROVE  ~IsTerminal /\ i \in Candidates /\ (publishEnabled \/ stateOf[i] # "REVIEWED")
<1>1. i # NoOne
    BY QueueFacts, LegalityAssumption
<1>2. \A tools : Offer(StageTool(i), i) \notin Meta(tools)
    BY <1>1 DEF Meta, Offer
<1>3. ~IsTerminal /\ Offer(StageTool(i), i) \in StageOffers
    BY <1>2 DEF Legal
<1> QED BY <1>3 DEF StageOffers, Offer

\* A step that leaves how the run closed, on a run that is not done, leaves it undone.
LEMMA NotDone ==
    ASSUME LegalityInv, closing # "done", closing' = closing
    PROVE  DoneIsAnEnd' /\ DoneIsDone'
BY DEF DoneIsAnEnd, DoneIsDone

LEMMA ClassifyKeeps ==
    ASSUME LegalityInv, NEW kind \in {"work", "trivial", "question"}, Classify(kind) PROVE LegalityInv'
<1>1. /\ position = "INTAKE" /\ ~classified /\ classification' = kind /\ classified' = TRUE
      /\ UNCHANGED <<closing, pointed, deferred, questions, publishEnabled>>
    BY DEF Classify, MayCall, PhaseRule
<1>2. position' = (CASE kind = "trivial" -> "EXECUTING" [] kind = "question" -> "ANSWERED" [] OTHER -> "INTAKE")
    BY DEF Classify
<1>3. closing # "done"
    BY <1>1 DEF LegalityInv, DoneIsAnEnd, Terminals
<1>4. DoneIsAnEnd' /\ DoneIsDone'
    BY <1>1, <1>3, NotDone
<1>5. position' \in Fields /\ classification' \in {"work", "trivial", "question"} /\ classified' \in BOOLEAN
    BY <1>1, <1>2 DEF Fields
<1>6. CASE kind = "trivial"
    <2>1. PICK behavioral \in SUBSET {1} : Enqueue(TrivialQueue(behavioral))
        BY <1>6 DEF Classify
    <2>2. behavioral \in {{}, {1}}
        OBVIOUS
    <2>3. TrivialQueue(behavioral) \in Queues
        BY <2>2 DEF Queues
    <2>4. LegalityValues' /\ BlocksAreOpen' /\ PassedInOrder' /\ GitPublishes'
        BY <1>1, <1>5, <2>1, <2>3, ANewQueue
    <2>5. plannedQueue' \in Queues
        BY <2>1, <2>3 DEF Enqueue
    <2> QED BY <1>2, <1>4, <1>6, <2>4, <2>5 DEF LegalityInv, PositionsFit
<1>7. CASE kind # "trivial"
    <2>1. UNCHANGED <<plannedQueue, stateOf, blockedOn>>
        BY <1>7 DEF Classify
    <2>2. LegalityValues'
        BY <1>1, <1>5, <2>1 DEF LegalityInv, LegalityValues, ItemIds
    <2>3. BlocksAreOpen' /\ PassedInOrder' /\ GitPublishes'
        BY <1>1, <2>1 DEF LegalityInv, BlocksAreOpen, PassedInOrder, GitPublishes, ItemIds, Blocked, Open,
                          DepsPublished, DependsOn
    <2>4. PositionsFit'
        BY <1>1, <1>2, <1>7 DEF PositionsFit
    <2> QED BY <1>4, <2>2, <2>3, <2>4 DEF LegalityInv
<1> QED BY <1>6, <1>7

LEMMA DecomposeKeeps ==
    ASSUME LegalityInv, NEW q \in Accepted, Decompose(q) PROVE LegalityInv'
<1>1. /\ position = "INTAKE" /\ position' = "DECOMPOSED" /\ Enqueue(q)
      /\ UNCHANGED <<classification, classified, closing, pointed, deferred, questions, publishEnabled>>
    BY DEF Decompose
<1>2. closing # "done"
    BY <1>1 DEF LegalityInv, DoneIsAnEnd, Terminals
<1>3. DoneIsAnEnd' /\ DoneIsDone'
    BY <1>1, <1>2, NotDone
<1>4. q \in Queues /\ plannedQueue' = q
    BY <1>1 DEF Queues, Enqueue
<1>5. LegalityValues' /\ BlocksAreOpen' /\ PassedInOrder' /\ GitPublishes'
    BY <1>1, <1>4, ANewQueue DEF LegalityInv, LegalityValues, Fields
<1>6. PositionsFit'
    BY <1>1, <1>4 DEF PositionsFit
<1> QED BY <1>3, <1>5, <1>6 DEF LegalityInv

\* What does not depend on the questions survives a step that only asks.
LEMMA AskingKeeps ==
    ASSUME LegalityInv, NEW blocks \in SUBSET ItemIds,
           AskHuman(blocks) \/ UNCHANGED <<questions, blockedOn>>,
           UNCHANGED <<plannedQueue, stateOf, classification, classified, publishEnabled, deferred>>,
           position' \in Fields, PositionsFit', DoneIsAnEnd', DoneIsDone'
    PROVE  LegalityInv'
<1>1. ItemIds' = ItemIds /\ \A i \in ItemIds : DependsOn(i)' = DependsOn(i)
    BY DEF ItemIds, DependsOn
<1>2. PassedInOrder' /\ GitPublishes'
    BY <1>1 DEF LegalityInv, PassedInOrder, GitPublishes, DepsPublished
<1>3. /\ questions' \in Seq([blocks : SUBSET Nat, open : BOOLEAN])
      /\ DOMAIN blockedOn' = ItemIds' /\ \A i \in ItemIds' : blockedOn'[i] \in Nat \cup {NoOne}
      /\ BlocksAreOpen'
    <2>1. CASE AskHuman(blocks)
        BY <2>1, ANewQuestion
    <2>2. CASE UNCHANGED <<questions, blockedOn>>
        BY <1>1, <2>2 DEF LegalityInv, LegalityValues, BlocksAreOpen, Blocked, Open
    <2> QED BY <2>1, <2>2
<1>4. LegalityValues'
    BY <1>1, <1>3 DEF LegalityInv, LegalityValues
<1> QED BY <1>2, <1>3, <1>4 DEF LegalityInv

LEMMA PlanOnKeeps == ASSUME LegalityInv, PlanOn PROVE LegalityInv'
<1>1. /\ AskHuman({}) \/ UNCHANGED <<questions, blockedOn>>
      /\ UNCHANGED <<plannedQueue, stateOf, classification, classified, closing, publishEnabled, deferred>>
      /\ position \in {"DECOMPOSED", "PLANNED", "PLAN_REVIEWED"}
      /\ position' \in {"PLANNED", "PLAN_REVIEWED", "EXECUTING"}
    <2>1. PICK hop \in {<<"DECOMPOSED", "PLANNED">>, <<"PLANNED", "PLAN_REVIEWED">>,
                        <<"PLAN_REVIEWED", "EXECUTING">>} : position = hop[1] /\ position' = hop[2]
        BY DEF PlanOn
    <2> QED BY <2>1 DEF PlanOn
<1>2. closing # "done"
    BY <1>1 DEF LegalityInv, DoneIsAnEnd, Terminals
<1>3. DoneIsAnEnd' /\ DoneIsDone'
    BY <1>1, <1>2, NotDone
<1>4. position' \in Fields /\ PositionsFit'
    BY <1>1 DEF LegalityInv, PositionsFit, Fields
<1> QED BY <1>1, <1>3, <1>4, AskingKeeps

LEMMA SurfaceKeeps == ASSUME LegalityInv, Surface PROVE LegalityInv'
<1>1. PICK tool \in {"surface", "decide"}, caller \in {Orchestrator, SubSession}, blocks \in SUBSET ItemIds :
         MayCall(tool, caller) /\ AskHuman(blocks)
    BY DEF Surface
<1>2. closing # "done"
    BY <1>1, DoneAllowsNothing
<1>3. UNCHANGED <<position, classification, classified, closing, pointed, plannedQueue, stateOf,
                  deferred, publishEnabled>>
    BY DEF Surface
<1>4. DoneIsAnEnd' /\ DoneIsDone' /\ position' \in Fields /\ PositionsFit'
    BY <1>2, <1>3, NotDone DEF LegalityInv, LegalityValues, PositionsFit
<1> QED BY <1>1, <1>3, <1>4, AskingKeeps

LEMMA DeferKeeps == ASSUME LegalityInv, NEW i \in ItemIds, Defer(i) PROVE LegalityInv'
<1>1. UNCHANGED <<position, classification, classified, closing, pointed, plannedQueue, stateOf,
                  blockedOn, questions, publishEnabled>>
    BY DEF Defer
<1>2. closing # "done"
    BY DoneAllowsNothing DEF Defer
<1>3. DoneIsAnEnd' /\ DoneIsDone'
    BY <1>1, <1>2, NotDone
<1> QED BY <1>1, <1>3 DEF LegalityInv, LegalityValues, PositionsFit, BlocksAreOpen, PassedInOrder, GitPublishes,
                          ItemIds, DependsOn, DepsPublished, Blocked, Open

LEMMA StageKeeps == ASSUME LegalityInv, NEW i \in ItemIds, Stage(i) PROVE LegalityInv'
<1>1. ~IsTerminal /\ i \in Candidates /\ (publishEnabled \/ stateOf[i] # "REVIEWED")
    BY StagesAreOfCandidates DEF LegalityInv, Stage
<1>2. UNCHANGED <<position, classification, classified, closing, pointed, plannedQueue, deferred, publishEnabled>>
    BY DEF Stage
<1>3. closing # "done"
    BY <1>1 DEF IsTerminal, Running
<1>4. DoneIsAnEnd' /\ DoneIsDone' /\ position' \in Fields /\ PositionsFit'
    BY <1>2, <1>3, NotDone DEF LegalityInv, LegalityValues, PositionsFit
<1>5. CASE AskHuman({i}) /\ UNCHANGED stateOf
    BY <1>2, <1>4, <1>5, AskingKeeps
<1>6. CASE ~(AskHuman({i}) /\ UNCHANGED stateOf)
    <2>1. /\ UNCHANGED <<blockedOn, questions>>
          /\ \/ stateOf' = [stateOf EXCEPT ![i] = Reached(StageTool(i))]
             \/ stateOf[i] = "REVIEWED" /\ stateOf' = [stateOf EXCEPT ![i] = "GREEN"]
        BY <1>6 DEF Stage
    <2>2. stateOf[i] \in ItemStates \ {"PUBLISHED"}
        BY <1>1 DEF LegalityInv, LegalityValues, Candidates
    <2>3. PICK to \in ItemStates : /\ stateOf' = [stateOf EXCEPT ![i] = to]
                                   /\ to = "PUBLISHED" => stateOf[i] = "REVIEWED"
        BY <2>1, <2>2 DEF StageTool, Reached, ItemStates
    <2>4. /\ ItemIds' = ItemIds /\ \A j \in ItemIds : DependsOn(j)' = DependsOn(j)
          /\ DOMAIN stateOf' = ItemIds /\ stateOf'[i] = to
          /\ \A j \in ItemIds : j # i => stateOf'[j] = stateOf[j]
        BY <1>2, <2>3 DEF ItemIds, DependsOn, LegalityInv, LegalityValues
    <2>5. LegalityValues'
        BY <1>2, <2>1, <2>4 DEF LegalityInv, LegalityValues
    <2>6. BlocksAreOpen'
        BY <2>1, <2>4 DEF LegalityInv, BlocksAreOpen, Blocked, Open
    <2>7. GitPublishes'
        BY <1>1, <1>2, <2>3, <2>4 DEF LegalityInv, GitPublishes
    <2>8. PassedInOrder'
        <3> SUFFICES ASSUME NEW j \in ItemIds, stateOf'[j] # "PENDING", NEW d \in DependsOn(j)
                     PROVE  stateOf'[d] = "PUBLISHED"
            BY <2>4 DEF PassedInOrder, DepsPublished
        <3>1. DepsPublished(j)
            BY <1>1, <2>4 DEF LegalityInv, PassedInOrder, Candidates
        <3>2. d \in ItemIds /\ stateOf[d] = "PUBLISHED"
            BY <3>1, QueueFacts DEF DepsPublished, LegalityInv
        <3> QED BY <2>2, <2>4, <3>2
    <2> QED BY <1>4, <2>5, <2>6, <2>7, <2>8 DEF LegalityInv
<1> QED BY <1>5, <1>6

LEMMA AnswerKeeps ==
    ASSUME LegalityInv, NEW q \in Open, NEW confirms \in BOOLEAN, AnswerQuestion(q, confirms) PROVE LegalityInv'
<1>1. /\ UNCHANGED <<position, classification, classified, pointed, plannedQueue, stateOf, deferred,
                     publishEnabled>>
      /\ questions' = [questions EXCEPT ![q].open = FALSE]
    BY DEF AnswerQuestion
<1>2. closing' # "done"
    <2>1. closing # "done"
        BY DEF LegalityInv, DoneIsDone
    <2> QED BY <2>1 DEF AnswerQuestion, Running
<1>3. questions \in Seq([blocks : SUBSET Nat, open : BOOLEAN]) /\ q \in DOMAIN questions
    BY DEF LegalityInv, LegalityValues, Open
<1>4. /\ questions' \in Seq([blocks : SUBSET Nat, open : BOOLEAN]) /\ DOMAIN questions' = DOMAIN questions
      /\ \A s \in DOMAIN questions : s # q => questions'[s] = questions[s]
      /\ questions'[q].open = FALSE
    <2> DEFINE e == [questions[q] EXCEPT !.open = FALSE]
    <2>1. questions[q] \in [blocks : SUBSET Nat, open : BOOLEAN]
        BY <1>3, SeqElement
    <2>2. e \in [blocks : SUBSET Nat, open : BOOLEAN] /\ e.open = FALSE
        BY <2>1
    <2>3. questions' = [questions EXCEPT ![q] = e]
        BY <1>1
    <2> HIDE DEF e
    <2> QED BY <1>3, <2>2, <2>3
<1>5. Open' = Open \ {q} /\ Open \subseteq Nat
    BY <1>3, <1>4 DEF Open
<1>6. ItemIds' = ItemIds /\ \A i \in ItemIds : DependsOn(i)' = DependsOn(i)
    BY <1>1 DEF ItemIds, DependsOn
<1> DEFINE Takers(i) == {s \in Open \ {q} : i \in questions[s].blocks}
<1>7. blockedOn' = [i \in ItemIds |->
                      IF blockedOn[i] # q THEN blockedOn[i] ELSE IF Takers(i) # {} THEN Min(Takers(i)) ELSE NoOne]
    <2>1. \A i \in ItemIds : (\E s \in Open \ {q} : i \in questions[s].blocks) <=> Takers(i) # {}
        OBVIOUS
    <2> QED BY <2>1 DEF AnswerQuestion
<1>8. ASSUME NEW i \in ItemIds, Takers(i) # {} PROVE Min(Takers(i)) \in Takers(i)
    <2> DEFINE S == Takers(i)
    <2>1. S \in SUBSET Nat /\ S # {}
        BY <1>5, <1>8
    <2> HIDE DEF S
    <2>2. \E x \in S : \A y \in S : x <= y
        BY <2>1, NatMin
    <2>3. Min(S) \in S
        BY <2>2, Zenon DEF Min
    <2> QED BY <2>3 DEF S
<1>9. ASSUME NEW i \in ItemIds PROVE /\ blockedOn'[i] \in Nat \cup {NoOne}
                                     /\ blockedOn'[i] = NoOne \/ blockedOn'[i] \in Open'
    <2>1. CASE blockedOn[i] # q
        BY <1>5, <1>7, <2>1 DEF LegalityInv, LegalityValues, BlocksAreOpen, Blocked
    <2>2. CASE blockedOn[i] = q /\ Takers(i) # {}
        <3>1. blockedOn'[i] = Min(Takers(i))
            BY <1>7, <2>2
        <3>2. blockedOn'[i] \in Open \ {q}
            BY <1>8, <2>2, <3>1
        <3> QED BY <1>5, <3>2
    <2>3. CASE blockedOn[i] = q /\ Takers(i) = {}
        BY <1>7, <2>3
    <2> QED BY <2>1, <2>2, <2>3
<1>10. LegalityValues'
    BY <1>1, <1>4, <1>6, <1>7, <1>9 DEF LegalityInv, LegalityValues
<1>11. BlocksAreOpen'
    BY <1>6, <1>9 DEF BlocksAreOpen, Blocked
<1>12. PositionsFit' /\ PassedInOrder' /\ GitPublishes'
    BY <1>1, <1>6 DEF LegalityInv, PositionsFit, PassedInOrder, GitPublishes, DepsPublished
<1> QED BY <1>2, <1>10, <1>11, <1>12 DEF LegalityInv, DoneIsAnEnd, DoneIsDone

\* What a closure counts none of there is none of.
LEMMA NoneIsCounted ==
    ASSUME NEW S, IsFiniteSet(S)
    PROVE  Cardinality(S) \in Nat /\ (Cardinality(S) = 0 <=> S = {})
BY FS_CardinalityType, FS_EmptySet

LEMMA ReportKeeps == ASSUME LegalityInv, NEW verify, ReportRun(verify) PROVE LegalityInv'
<1> DEFINE of == DispositionsOf(publishEnabled, Open)
           run == Closure(publishEnabled, of)
           Advanced == {i \in ItemIds : stateOf[i] = "PUBLISHED" \/ (~publishEnabled /\ stateOf[i] = "REVIEWED")}
<1>1. /\ closing' = StopKindOf(run, verify) /\ position' \in {"TRIVIAL_DONE", "REPORTED"}
      /\ UNCHANGED <<classification, classified, pointed, plannedQueue, stateOf, blockedOn, deferred,
                     questions, publishEnabled>>
    BY DEF ReportRun
<1>2. ItemIds' = ItemIds /\ Open' = Open /\ BlockedItems' = BlockedItems
    BY <1>1 DEF ItemIds, Open, BlockedItems, Blocked
<1>3. LegalityValues'
    BY <1>1, <1>2 DEF LegalityInv, LegalityValues, Fields
<1>4. PositionsFit' /\ BlocksAreOpen' /\ PassedInOrder' /\ GitPublishes' /\ DoneIsAnEnd'
    BY <1>1, <1>2 DEF LegalityInv, PositionsFit, BlocksAreOpen, PassedInOrder, GitPublishes, DoneIsAnEnd,
                      Terminals, Blocked, DepsPublished, DependsOn
<1>5. IsFiniteSet(BlockedItems) /\ IsFiniteSet(Open) /\ IsFiniteSet(Advanced)
    <2>1. Len(questions) \in Nat /\ DOMAIN questions = 1..Len(questions)
        BY DEF LegalityInv, LegalityValues
    <2>2. IsFiniteSet(ItemIds) /\ IsFiniteSet(1..Len(questions))
        BY <2>1, QueueFacts, FS_Interval DEF LegalityInv
    <2>3. BlockedItems \subseteq ItemIds /\ Advanced \subseteq ItemIds /\ Open \subseteq 1..Len(questions)
        BY <2>1 DEF BlockedItems, Open
    <2> HIDE DEF Advanced
    <2> QED BY <2>2, <2>3, FS_Subset
<1>6. /\ run.disposition = RunDispositionOf({of[i] : i \in ItemIds}, Cardinality(Open))
      /\ run.blockedItems = Cardinality(BlockedItems) /\ run.openQuestions = Cardinality(Open)
      /\ run.advancedItems = Cardinality(Advanced)
    BY DEF Closure, BlockedItems
<1>7. ASSUME closing' = "done" PROVE DoneIsDone'
    <2> HIDE DEF run, of, Advanced
    <2>1. ~(run.blockedItems > 0) /\ ~(run.openQuestions > 0) /\ run.advancedItems # 0
          /\ run.disposition \notin {"stuck", "actionable", "waiting-human"}
        BY <1>1, <1>7 DEF StopKindOf
    <2>2. BlockedItems = {} /\ Open = {} /\ Advanced # {}
        BY <1>5, <1>6, <2>1, NoneIsCounted
    <2>3. ASSUME NEW i \in ItemIds PROVE Settles(i, publishEnabled)
        <3>1. of[i] \notin {"stuck", "actionable", "waiting-human"}
            BY <1>6, <2>1 DEF RunDispositionOf
        <3>2. of[i] \in Dispositions /\ (of[i] = "stuck" \/ of[i] = Seed(i, publishEnabled, Open))
            BY DispositionsAreTheFixpoint DEF LegalityInv, of
        <3>3. Seed(i, publishEnabled, Open) = "settled"
            BY <3>1, <3>2 DEF Dispositions
        <3> QED BY <3>3 DEF Seed
    <2>4. \A i \in ItemIds' : Settles(i, publishEnabled)'
        BY <1>1, <1>2, <2>3 DEF Settles
    <2>5. PICK i \in Advanced : TRUE
        BY <2>2
    <2>6. i \in ItemIds' /\ stateOf'[i] = IF publishEnabled' THEN "PUBLISHED" ELSE "REVIEWED"
        BY <1>1, <1>2, <2>5 DEF Advanced, LegalityInv, GitPublishes, LegalityValues
    <2> QED BY <1>2, <2>2, <2>4, <2>6 DEF DoneIsDone
<1> QED BY <1>3, <1>4, <1>7 DEF LegalityInv, DoneIsDone

LEMMA IdleTickKeeps == ASSUME LegalityInv, IdleTick PROVE LegalityInv'
<1>1. UNCHANGED <<position, classification, classified, plannedQueue, stateOf, blockedOn, deferred,
                  questions, publishEnabled>>
    BY DEF IdleTick
<1>2. ItemIds' = ItemIds /\ Open' = Open /\ BlockedItems' = BlockedItems
    BY <1>1 DEF ItemIds, Open, BlockedItems, Blocked
<1>3. closing' = "done" => closing = "done"
    <2>1. CASE IdleStops
        <3>1. Outcome = "gives up" => IdleClosure.disposition = "stuck"
            BY DEF Outcome
        <3> HIDE DEF IdleClosure
        <3>2. Outcome = "gives up" => StopKindOf(IdleClosure, "green") = "blocked"
            BY <3>1 DEF StopKindOf
        <3> QED BY <2>1, <3>2 DEF IdleStops
    <2>2. CASE IdleDisengages
        BY <2>2 DEF IdleDisengages
    <2> QED BY <2>1, <2>2 DEF IdleTick
<1>4. DoneIsDone'
    BY <1>1, <1>2, <1>3 DEF LegalityInv, DoneIsDone, Settles
<1> QED BY <1>1, <1>2, <1>3, <1>4 DEF LegalityInv, LegalityValues, PositionsFit, BlocksAreOpen, PassedInOrder,
                                      GitPublishes, DoneIsAnEnd, DepsPublished, DependsOn, Blocked

LEMMA LegalityInvNext == ASSUME LegalityInv, [LegalityNext]_legalityVars PROVE LegalityInv'
<1>1. CASE \E kind \in {"work", "trivial", "question"} : Classify(kind)
    BY <1>1, ClassifyKeeps
<1>2. CASE \E q \in Accepted : Decompose(q)
    BY <1>2, DecomposeKeeps
<1>3. CASE PlanOn
    BY <1>3, PlanOnKeeps
<1>4. CASE Surface
    BY <1>4, SurfaceKeeps
<1>5. CASE IdleTick
    BY <1>5, IdleTickKeeps
<1>6. CASE \E i \in ItemIds : Stage(i) \/ Defer(i)
    BY <1>6, StageKeeps, DeferKeeps
<1>7. CASE \E q \in Open, confirms \in BOOLEAN : AnswerQuestion(q, confirms)
    BY <1>7, AnswerKeeps
<1>8. CASE \E verify \in {"green", "assertion", "error"} : ReportRun(verify)
    BY <1>8, ReportKeeps
<1>9. CASE UNCHANGED legalityVars
    BY <1>9 DEF legalityVars, LegalityInv, LegalityValues, PositionsFit, BlocksAreOpen, PassedInOrder, GitPublishes,
                DoneIsAnEnd, DoneIsDone, ItemIds, DependsOn, DepsPublished, Blocked, Open, BlockedItems, Settles
<1> QED BY <1>1, <1>2, <1>3, <1>4, <1>5, <1>6, <1>7, <1>8, <1>9 DEF LegalityNext

LEMMA LegalityInvHolds == LegalitySpec => []LegalityInv
BY LegalityInvInit, LegalityInvNext, PTL DEF LegalitySpec

\* A run that is closed as done is done: whatever was surfaced, deferred or answered on
\* the way, every item is settled, one got as far as the mode goes, and no question is
\* open (core/disposition's stopKindOf, handleReport).
THEOREM DoneRunsAreDone == LegalitySpec => []DoneIsDone
<1>1. LegalityInv => DoneIsDone
    BY DEF LegalityInv
<1> QED BY <1>1, LegalityInvHolds, PTL

\* The next step of a run before its work: the one pipeline tool of its position.
LEMMA PipelineGoesOn ==
    ASSUME LegalityInv, ~IsTerminal, position # "EXECUTING"
    PROVE  Recommended \in Legal /\ Recommended # NoOffer
<1>1. PICK tool \in {"classify", "decompose", "plan", "plan_review", "dispatch_wave"} : PipelineTool = {tool}
    BY DEF LegalityInv, LegalityValues, PositionsFit, PipelineTool, IsTerminal, Fields, Terminals
<1> DEFINE head == CHOOSE t \in PipelineTool : TRUE
<1>2. head \in PipelineTool
    BY <1>1
<1>3. Recommended = Offer(tool, NoOne)
    <2>1. Recommended = Offer(head, NoOne)
        BY <1>1 DEF Recommended
    <2> HIDE DEF head
    <2> QED BY <1>1, <1>2, <2>1
<1>4. Offer(tool, NoOne) \in Meta(PipelineTool)
    BY <1>1 DEF Meta
<1> QED BY <1>3, <1>4 DEF Legal, NoOffer, Offer

\* The first of the wave, or the report: what the gate recommends at work it offers.
LEMMA WorkIsOffered ==
    ASSUME LegalityInv, ~IsTerminal, position = "EXECUTING", Recommended # NoOffer
    PROVE  Recommended \in Legal
<1>1. CASE FirstOffer # NoOffer
    <2>1. Candidates # {} /\ (publishEnabled \/ stateOf[WaveFirst] # "REVIEWED")
          /\ FirstOffer = Offer(StageTool(WaveFirst), WaveFirst)
        BY <1>1 DEF FirstOffer
    <2>2. WaveFirst \in Candidates
        BY <2>1, WaveFirstIsACandidate DEF LegalityInv
    <2> HIDE DEF WaveFirst
    <2>3. FirstOffer \in StageOffers
        BY <2>1, <2>2 DEF StageOffers
    <2>4. Recommended = FirstOffer
        BY <1>1 DEF Recommended
    <2> QED BY <2>3, <2>4 DEF Legal
<1>2. CASE FirstOffer = NoOffer
    <2>1. AllSettled /\ Recommended = Offer("report", NoOne)
        BY <1>2 DEF Recommended
    <2> QED BY <2>1 DEF Legal, Meta
<1> QED BY <1>1, <1>2

\* A live run has something to do: an item can move, or the report is due, or a human is
\* waited for (gates-phase's legalTools and recommended, the idle engine's decision and
\* the dispositions agree).
LEMMA NobodyIsStranded == LegalityInv => NothingIsStranded
<1> SUFFICES ASSUME LegalityInv, pointed, ~IsTerminal
             PROVE  /\ Recommended # NoOffer => Recommended \in Legal
                    /\ Outcome # "says nothing"
                    /\ position = "EXECUTING" =>
                          StageOffers # {} \/ Offered("report") \/ Offered("answer") \/ HeldByReviewed
    BY DEF NothingIsStranded
<1>1. CASE position # "EXECUTING"
    <2>1. Recommended \in Legal /\ Recommended # NoOffer
        BY <1>1, PipelineGoesOn
    <2>2. Outcome # "says nothing"
        BY <2>1 DEF Outcome
    <2> QED BY <1>1, <2>1, <2>2
<1>2. CASE position = "EXECUTING" /\ AllSettled
    <2>1. Offer("report", NoOne) \in Legal
        BY <1>2 DEF Legal, Meta
    <2>2. Offered("report")
        BY <2>1 DEF Offered, Offer
    <2>3. Recommended # NoOffer
        BY <1>2 DEF Recommended, NoOffer, Offer
    <2>4. Outcome # "says nothing"
        BY <2>3 DEF Outcome
    <2> QED BY <1>2, <2>2, <2>3, <2>4, WorkIsOffered
<1>3. CASE position = "EXECUTING" /\ Open # {}
    <2>1. Offer("answer", NoOne) \in Legal
        BY <1>3 DEF Legal, Meta
    <2>2. Offered("answer")
        BY <2>1 DEF Offered, Offer
    <2>3. Offer("answer", NoOne) \in Levers
        BY <2>1 DEF Levers, Meta, Offer
    <2>4. Outcome # "says nothing"
        BY <1>3, <2>3 DEF Outcome
    <2> QED BY <1>3, <2>2, <2>4, WorkIsOffered
<1>4. CASE position = "EXECUTING" /\ ~AllSettled /\ Open = {}
    <2>1. ItemIds # {}
        BY <1>4, QueueFacts DEF LegalityInv, PositionsFit
    <2>2. PICK k \in ItemIds : DispositionsOf(publishEnabled, DOMAIN questions)[k] = "actionable"
        BY <1>4, <2>1 DEF AllSettled
    <2>3. PICK i \in OpenItems :
             /\ publishEnabled \/ stateOf[i] # "REVIEWED"
             /\ \/ i \in Candidates
                \/ ~publishEnabled /\ \E d \in DependsOn(i) : stateOf[d] = "REVIEWED" /\ d \in Candidates
        BY <1>4, <2>2, AnItemCanMove
    <2>4. Candidates # {}
        BY <2>3
    <2>5. Offer("dispatch_wave", NoOne) \in Levers
        BY <1>4, <2>4 DEF Levers, Legal, Meta, Offer
    <2>6. Outcome # "says nothing"
        BY <2>3, <2>5 DEF Outcome
    <2>7. StageOffers # {} \/ HeldByReviewed
        BY <2>3 DEF StageOffers, HeldByReviewed
    <2> QED BY <1>4, <2>6, <2>7, WorkIsOffered
<1> QED BY <1>1, <1>2, <1>3, <1>4

\* A live run never stands still for want of a next step: the dispositions, the wave and
\* the legal set, derived apart from one state, agree for every queue, however the items
\* depend on each other and whatever was asked, deferred or answered.
THEOREM RunsAreNotStranded == LegalitySpec => []NothingIsStranded
BY NobodyIsStranded, LegalityInvHolds, PTL

-----------------------------------------------------------------------------
(* Gates: no call strays from its lane but on an override's record. *)

CrashSites == {"no", "surface", "session", "git", "edit"}

\* Whoever is seated is the orchestrator, or a sub-session with an item.
Seated(s) ==
    \/ seats[s] = NoSeat
    \/ seats[s] = [role |-> "orchestrator", item |-> NoItem, tree |-> "main"]
    \/ \E i \in Items, r \in {"implementer", "testWriter", "reader"} :
          seats[s] = [role |-> r, item |-> i, tree |-> TreeFor(i)]

GrantsOf(i) == {g \in grants : g[3] = i}

\* What the budgets and the ledger must cover: a grant that is out may still become a
\* stray, and an anomaly is on record before its grant.
GatesInv ==
    /\ \A s \in Sessions : Seated(s)
    /\ seats \in [Sessions -> {seats[s] : s \in Sessions}]
    /\ grants \subseteq Sessions \X Refusers \X Items /\ IsFiniteSet(grants)
    /\ strays \in [Items \cup {NoItem} -> Nat] /\ anomalies \in [Items -> Nat] /\ used \in Nat
    /\ strays[NoItem] = 0
    /\ \A i \in Items : strays[i] + Cardinality(GrantsOf(i)) <= anomalies[i]
    /\ IsFiniteSet(AllStrays)
    /\ Cardinality(AllStrays) + Cardinality(grants) <= used
    /\ used <= MaxOverridesPerRun

\* The fields of a call that its shape fixes.
CallShape(c) ==
    /\ c.targets \in Seq(PathsSeen)
    /\ c.tool \in {"read", "edit", "conductor", "task", "webfetch", "undeclared", "patch", "question", "bash"}
    /\ c.git \in {"none", "read", "move", "form", "write", "obscure"}
    /\ c.net \in BOOLEAN /\ c.script \in BOOLEAN
    /\ c.tool # "bash" => c.git = "none" /\ ~c.script /\ ~c.net
    /\ c.tool \notin {"bash", "edit"} => c.targets = <<>>

LEMMA CallsHaveShape == ASSUME NEW c \in Calls PROVE CallShape(c)
<1> DEFINE PlainCalls == {Shape(t, "none", FALSE, FALSE, <<>>) :
               t \in {"read", "edit", "conductor", "task", "webfetch", "undeclared", "patch", "question"}}
           EditCalls == {Shape("edit", "none", FALSE, FALSE, <<f>>) : f \in PathsSeen}
           GitCalls == {Shape("bash", g, FALSE, FALSE, <<>>) : g \in {"none", "read", "move", "form", "write", "obscure"}}
           ProgramCalls == {Shape("bash", "none", n, ~n, <<>>) : n \in BOOLEAN}
           WriteCalls == {Shape("bash", g, g = "none", FALSE, <<f>>) : g \in {"none", "write"}, f \in PathsSeen}
           PairCalls == {Shape("bash", "none", FALSE, FALSE, <<f, h>>) :
               f \in PathsSeen, h \in {x \in PathsSeen : x.tree # "main" \/ x.place = "test"}}
<1>1. ASSUME c \in PlainCalls PROVE CallShape(c)
    <2>1. PICK t \in {"read", "edit", "conductor", "task", "webfetch", "undeclared", "patch", "question"} :
             c = Shape(t, "none", FALSE, FALSE, <<>>)
        BY <1>1
    <2> QED BY <2>1 DEF Shape, CallShape
<1>2. ASSUME c \in EditCalls PROVE CallShape(c)
    <2>1. PICK f \in PathsSeen : c = Shape("edit", "none", FALSE, FALSE, <<f>>)
        BY <1>2
    <2> QED BY <2>1 DEF Shape, CallShape
<1>3. ASSUME c \in GitCalls PROVE CallShape(c)
    <2>1. PICK g \in {"none", "read", "move", "form", "write", "obscure"} : c = Shape("bash", g, FALSE, FALSE, <<>>)
        BY <1>3
    <2> QED BY <2>1 DEF Shape, CallShape
<1>4. ASSUME c \in ProgramCalls PROVE CallShape(c)
    <2>1. PICK n \in BOOLEAN : c = Shape("bash", "none", n, ~n, <<>>)
        BY <1>4
    <2> QED BY <2>1 DEF Shape, CallShape
<1>5. ASSUME c \in WriteCalls PROVE CallShape(c)
    <2>1. PICK g \in {"none", "write"}, f \in PathsSeen : c = Shape("bash", g, g = "none", FALSE, <<f>>)
        BY <1>5 DEF Shape
    <2> QED BY <2>1 DEF Shape, CallShape
<1>6. ASSUME c \in PairCalls PROVE CallShape(c)
    <2>1. PICK f \in PathsSeen, h \in PathsSeen : c = Shape("bash", "none", FALSE, FALSE, <<f, h>>)
        BY <1>6 DEF Shape
    <2> QED BY <2>1 DEF Shape, CallShape
<1>7. c \in PlainCalls \cup EditCalls \cup GitCalls \cup ProgramCalls \cup WriteCalls \cup PairCalls
    BY DEF Calls, Shape
<1> HIDE DEF PlainCalls, EditCalls, GitCalls, ProgramCalls, WriteCalls, PairCalls
<1> QED BY <1>1, <1>2, <1>3, <1>4, <1>5, <1>6, <1>7

\* The grants convert refusals from the first on, each by a grant of its own gate.
LEMMA GrantsConvert ==
    ASSUME NEW s, NEW refusals \in Seq(Refusers \cup {"tool"})
    PROVE  /\ Converted(s, refusals) \in 0..Len(refusals)
           /\ \A k \in 1..Converted(s, refusals) : <<s, refusals[k], seats[s].item>> \in grants
<1> DEFINE Convertible(n) == /\ \A k \in 1..n : <<s, refusals[k], seats[s].item>> \in grants
                             /\ IsInjective(SubSeq(refusals, 1, n))
           Longest(n) == Convertible(n) /\ (n < Len(refusals) => ~Convertible(n + 1))
           TheCount == CHOOSE n \in 0..Len(refusals) : Longest(n)
           Possible == {n \in 0..Len(refusals) : Convertible(n)}
<1>1. Len(refusals) \in Nat
    OBVIOUS
<1>2. Convertible(0)
    <2>1. DOMAIN SubSeq(refusals, 1, 0) = {}
        OBVIOUS
    <2> QED BY <2>1 DEF IsInjective
<1>3. Converted(s, refusals) = IF grants = {} THEN 0 ELSE TheCount
    BY DEF Converted
<1> HIDE DEF Convertible
<1>4. Possible \subseteq Int /\ Possible # {} /\ IsFiniteSet(Possible)
    <2>1. IsFiniteSet(0..Len(refusals))
        BY <1>1, FS_Interval
    <2>2. Possible \subseteq 0..Len(refusals) /\ 0 \in Possible
        BY <1>1, <1>2
    <2> QED BY <2>1, <2>2, FS_Subset
<1>5. PICK n \in Possible : \A m \in Possible : m <= n
    BY <1>4, FiniteMax
<1>6. n \in 0..Len(refusals) /\ Longest(n)
    BY <1>1, <1>5
<1> HIDE DEF Longest
<1>7. TheCount \in 0..Len(refusals) /\ Longest(TheCount)
    BY <1>6, Zenon
<1> HIDE DEF TheCount
<1>8. TheCount \in 0..Len(refusals) /\ \A k \in 1..TheCount : <<s, refusals[k], seats[s].item>> \in grants
    BY <1>7 DEF Longest, Convertible
<1> QED BY <1>1, <1>3, <1>8

\* Whether a gate refuses: by its rule, or because it crashed over a guarded call.
Asked(c, crash, site, refused) == IF crash = site THEN Guarded(c) ELSE refused

LEMMA Joined ==
    ASSUME NEW S, NEW a \in Seq(S), NEW b \in Seq(S)
    PROVE  a \o b \in Seq(S) /\ Len(a \o b) = Len(a) + Len(b) /\ Len(a) \in Nat /\ Len(b) \in Nat
OBVIOUS

\* The refusals of a call are a sequence, which is empty only where every gate agreed.
LEMMA WhoRefuses ==
    ASSUME NEW s, NEW c \in Calls, NEW crash
    PROVE  /\ Refusals(s, c, crash) \in Seq(Refusers \cup {"tool"})
           /\ Len(Refusals(s, c, crash)) = 0 =>
                 /\ c.tool \notin {"patch", "question"}
                 /\ ~Asked(c, crash, "surface", SurfaceRefuses(c))
                 /\ ~Asked(c, crash, "session", SessionRefuses(s, c))
                 /\ c.tool = "bash" => ~Asked(c, crash, "git", GitRefuses(c)) /\ ~c.script
                 /\ \A k \in DOMAIN c.targets : ~Asked(c, crash, "edit", EditRefuses(s, c.targets[k]))
<1> DEFINE Refusal(gate, refused) == IF refused THEN <<gate>> ELSE <<>>
           EditsRefused == {k \in DOMAIN c.targets :
                       IF crash = "edit" THEN Guarded(c) ELSE EditRefuses(s, c.targets[k])}
           AtSurface == Refusal("session", Asked(c, crash, "surface", SurfaceRefuses(c)))
           AtSession == Refusal("session", Asked(c, crash, "session", SessionRefuses(s, c)))
           AtGit == Refusal("git", Asked(c, crash, "git", GitRefuses(c)))
           AtScript == Refusal("edit", c.script)
           AtShell == IF c.tool = "bash" THEN AtGit \o AtScript ELSE <<>>
           AtEdits == [k \in 1..Cardinality(EditsRefused) |-> "edit"]
           InOrder == AtSurface \o AtSession \o AtShell \o AtEdits
<1>1. CASE c.tool \in {"patch", "question"}
    <2>1. Refusals(s, c, crash) = <<"tool">>
        BY <1>1 DEF Refusals
    <2> QED BY <2>1
<1>2. CASE c.tool \notin {"patch", "question"}
    <2>1. Refusals(s, c, crash) = InOrder
        BY <1>2, Zenon DEF Refusals, Asked
    <2>2. IsFiniteSet(EditsRefused) /\ Cardinality(EditsRefused) \in Nat
        <3>1. DOMAIN c.targets = 1..Len(c.targets) /\ Len(c.targets) \in Nat
            BY CallsHaveShape DEF CallShape
        <3>2. IsFiniteSet(DOMAIN c.targets)
            BY <3>1, FS_Interval
        <3>3. EditsRefused \subseteq DOMAIN c.targets
            OBVIOUS
        <3> HIDE DEF EditsRefused
        <3> QED BY <3>2, <3>3, FS_Subset, FS_CardinalityType
    <2>3. ASSUME NEW gate \in Refusers, NEW refused
          PROVE  /\ Refusal(gate, refused) \in Seq(Refusers)
                 /\ Len(Refusal(gate, refused)) = IF refused THEN 1 ELSE 0
        BY <2>3
    <2>4. "session" \in Refusers /\ "git" \in Refusers /\ "edit" \in Refusers
        BY DEF Refusers
    <2> HIDE DEF Refusal
    <2>5. /\ AtSurface \in Seq(Refusers) /\ Len(AtSurface) = IF Asked(c, crash, "surface", SurfaceRefuses(c)) THEN 1 ELSE 0
          /\ AtSession \in Seq(Refusers) /\ Len(AtSession) = IF Asked(c, crash, "session", SessionRefuses(s, c)) THEN 1 ELSE 0
          /\ AtGit \in Seq(Refusers) /\ Len(AtGit) = IF Asked(c, crash, "git", GitRefuses(c)) THEN 1 ELSE 0
          /\ AtScript \in Seq(Refusers) /\ Len(AtScript) = IF c.script THEN 1 ELSE 0
        BY <2>3, <2>4
    <2>6. AtEdits \in Seq(Refusers) /\ Len(AtEdits) = Cardinality(EditsRefused)
        BY <2>2, <2>4
    <2>7. EditsRefused = {} <=> \A k \in DOMAIN c.targets : ~Asked(c, crash, "edit", EditRefuses(s, c.targets[k]))
        BY DEF Asked
    <2> HIDE DEF EditsRefused, AtSurface, AtSession, AtGit, AtScript, AtEdits
    <2>8. /\ AtShell \in Seq(Refusers) /\ Len(AtShell) \in Nat
          /\ c.tool = "bash" => Len(AtShell) = Len(AtGit) + Len(AtScript)
        <3>1. AtGit \o AtScript \in Seq(Refusers) /\ Len(AtGit \o AtScript) = Len(AtGit) + Len(AtScript)
              /\ Len(AtGit) \in Nat /\ Len(AtScript) \in Nat
            BY <2>5, Joined
        <3>2. <<>> \in Seq(Refusers) /\ Len(<<>>) \in Nat
            OBVIOUS
        <3> QED BY <3>1, <3>2
    <2> HIDE DEF AtShell
    <2>9. InOrder \in Seq(Refusers) /\ Len(InOrder) = Len(AtSurface) + Len(AtSession) + Len(AtShell) + Len(AtEdits)
        <3> DEFINE FirstTwo == AtSurface \o AtSession
                   Most == FirstTwo \o AtShell
        <3>1. FirstTwo \in Seq(Refusers) /\ Len(FirstTwo) = Len(AtSurface) + Len(AtSession)
            BY <2>5, Joined
        <3> HIDE DEF FirstTwo
        <3>2. Most \in Seq(Refusers) /\ Len(Most) = Len(FirstTwo) + Len(AtShell)
            BY <2>8, <3>1, Joined
        <3> HIDE DEF Most
        <3>3. Most \o AtEdits \in Seq(Refusers) /\ Len(Most \o AtEdits) = Len(Most) + Len(AtEdits)
            BY <2>6, <3>2, Joined
        <3>4. InOrder = Most \o AtEdits
            BY DEF FirstTwo, Most
        <3> QED BY <3>1, <3>2, <3>3, <3>4
    <2> HIDE DEF InOrder
    <2>10. InOrder \in Seq(Refusers \cup {"tool"})
        BY <2>9
    <2>11. ASSUME Len(InOrder) = 0
           PROVE  /\ ~Asked(c, crash, "surface", SurfaceRefuses(c))
                  /\ ~Asked(c, crash, "session", SessionRefuses(s, c))
                  /\ c.tool = "bash" => ~Asked(c, crash, "git", GitRefuses(c)) /\ ~c.script
                  /\ EditsRefused = {}
        BY <2>2, <2>5, <2>6, <2>8, <2>9, <2>11, FS_EmptySet
    <2> QED BY <1>2, <2>1, <2>7, <2>10, <2>11
<1> QED BY <1>1, <1>2

\* A call that all gates let through is in the lane of its session, unless the git gate
\* crashed over a word it could not resolve.
LEMMA RefusedOrInLane ==
    ASSUME NEW s \in Sessions, Seated(s), NEW c \in Calls,
           NEW crash \in CrashSites,
           Len(Refusals(s, c, crash)) = 0, ~(crash = "git" /\ c.git = "obscure")
    PROVE  InLane(s, c)
<1>1. CallShape(c)
    BY CallsHaveShape
<1>2. /\ c.tool \notin {"patch", "question"}
      /\ ~Asked(c, crash, "surface", SurfaceRefuses(c))
      /\ ~Asked(c, crash, "session", SessionRefuses(s, c))
      /\ c.tool = "bash" => ~Asked(c, crash, "git", GitRefuses(c)) /\ ~c.script
      /\ \A k \in DOMAIN c.targets : ~Asked(c, crash, "edit", EditRefuses(s, c.targets[k]))
    BY WhoRefuses
<1>3. c.tool \in {"bash", "edit", "read", "conductor"}
    BY <1>1, <1>2 DEF CallShape, Asked, SurfaceRefuses, SessionRefuses, ToolClass, ReachesNetwork, Guarded
<1>4. c.tool \in {"edit", "conductor"} \/ c.targets # <<>> => seats[s] # NoSeat
    BY <1>1, <1>2, <1>3 DEF CallShape, Asked, SessionRefuses, ToolClass, Guarded
<1>5. ~c.script
    BY <1>1, <1>2 DEF CallShape
<1>6. c.net => c.targets # <<>>
    BY <1>1, <1>2, <1>5 DEF CallShape, Asked, SurfaceRefuses, ReachesNetwork, Guarded
<1>7. c.git \in {"none", "read"} \/ (c.git = "move" /\ BranchPolicy # "pin")
    BY <1>1, <1>2 DEF CallShape, Asked, GitRefuses, VerbRefused, FormRefused, MoveRefused, Guarded
<1>8. ASSUME NEW f \in ToSet(c.targets) PROVE f \in Territory(s)
    <2>1. PICK k \in DOMAIN c.targets : f = c.targets[k]
        BY DEF ToSet
    <2>2. f \in PathsSeen /\ c.targets # <<>>
        BY <1>1, <2>1 DEF CallShape
    <2>3. Guarded(c)
        BY <1>1, <1>3, <2>2 DEF CallShape, Guarded, ToolClass
    <2>4. ~EditRefuses(s, f)
        BY <1>2, <2>1, <2>3 DEF Asked
    <2>5. f.tree = seats[s].tree /\ f.tree \notin marked
          /\ f \in CASE seats[s].role = "orchestrator" -> ClaimScope
                     [] seats[s].role = "implementer" -> GateScopes(s).file \ GateScopes(s).test
                     [] seats[s].role = "testWriter" -> GateScopes(s).test
                     [] OTHER -> {}
        BY <2>4 DEF EditRefuses
    <2>6. CASE seats[s].role = "orchestrator"
        BY <2>2, <2>5, <2>6 DEF Territory, ClaimScope
    <2>7. CASE seats[s].role = "implementer"
        BY <2>2, <2>5, <2>7 DEF Territory, GateScopes
    <2>8. CASE seats[s].role = "testWriter"
        <3>1. PICK i \in Items, r \in {"implementer", "testWriter", "reader"} :
                 seats[s] = [role |-> r, item |-> i, tree |-> TreeFor(i)]
            BY <2>8 DEF Seated, NoSeat
        <3>2. seats[s].item # NoItem
            BY <3>1, GatesAssumption
        <3> QED BY <2>2, <2>5, <2>8, <3>2 DEF Territory, GateScopes
    <2> QED BY <2>5, <2>6, <2>7, <2>8
<1> QED BY <1>3, <1>4, <1>5, <1>6, <1>7, <1>8 DEF InLane

\* What a call comes to: it spends grants the session has for its item, and runs out of
\* its lane only if it spends one.
LEMMA StraysSpend ==
    ASSUME NEW s \in Sessions, Seated(s), NEW effect \in Effects(s),
           grants \subseteq Sessions \X Refusers \X Items
    PROVE  /\ effect.spent \subseteq GrantsOf(seats[s].item)
           /\ effect.astray \in BOOLEAN
           /\ effect.astray => effect.spent # {} /\ seats[s].item \in Items
<1>1. PICK c \in Calls, crash \in CrashSites : effect = Effect(s, c, crash)
    BY DEF Effects, CrashSites
<1> DEFINE refusals == Refusals(s, c, crash)
           paid == Converted(s, refusals)
<1>2. refusals \in Seq(Refusers \cup {"tool"})
    BY WhoRefuses DEF refusals
<1>3. effect.spent = {<<s, refusals[k], seats[s].item>> : k \in 1..paid}
      /\ effect.astray = (paid = Len(refusals) /\ ~InLane(s, c) /\ ~(crash = "git" /\ c.git = "obscure"))
    BY <1>1 DEF Effect
<1> HIDE DEF refusals
<1>4. paid \in 0..Len(refusals) /\ \A k \in 1..paid : <<s, refusals[k], seats[s].item>> \in grants
    BY <1>2, GrantsConvert
<1> HIDE DEF paid
<1>5. effect.spent \subseteq GrantsOf(seats[s].item)
    BY <1>3, <1>4 DEF GrantsOf
<1>6. ASSUME effect.astray PROVE effect.spent # {} /\ seats[s].item \in Items
    <2>1. Len(refusals) # 0
        BY <1>3, <1>6, RefusedOrInLane DEF refusals
    <2>2. 1 \in 1..paid
        <3>1. paid = Len(refusals)
            BY <1>3, <1>6, Zenon
        <3>2. Len(refusals) \in Nat
            BY <1>2
        <3> QED BY <2>1, <3>1, <3>2
    <2> QED BY <1>3, <1>4, <2>2
<1> QED BY <1>3, <1>5, <1>6

\* What taking from a finite set and adding to it leaves.
LEMMA GrantsTaken ==
    ASSUME NEW S, IsFiniteSet(S), NEW T \in SUBSET S
    PROVE  /\ IsFiniteSet(S \ T) /\ Cardinality(S \ T) \in Nat /\ Cardinality(S) \in Nat
           /\ Cardinality(S \ T) <= Cardinality(S)
           /\ T # {} => Cardinality(S \ T) + 1 <= Cardinality(S)
<1>1. IsFiniteSet(S \ T) /\ Cardinality(S \ T) <= Cardinality(S) /\ (Cardinality(S) = Cardinality(S \ T) => S = S \ T)
    BY FS_Subset
<1> QED BY <1>1, FS_CardinalityType

LEMMA OneMore ==
    ASSUME NEW S, IsFiniteSet(S), NEW x
    PROVE  /\ IsFiniteSet(S \cup {x})
           /\ Cardinality(S) \in Nat /\ Cardinality(S \cup {x}) \in Nat
           /\ Cardinality(S \cup {x}) <= Cardinality(S) + 1
<1>1. IsFiniteSet(S \cup {x}) /\ Cardinality(S) \in Nat
      /\ Cardinality(S \cup {x}) = IF x \in S THEN Cardinality(S) ELSE Cardinality(S) + 1
    BY FS_AddElement, FS_CardinalityType
<1> QED BY <1>1

LEMMA GatesInvInit == GatesInit => GatesInv
<1> SUFFICES ASSUME GatesInit PROVE GatesInv
    OBVIOUS
<1>1. AllStrays = {}
    BY DEF GatesInit, AllStrays
<1>2. \A i \in Items : GrantsOf(i) = {}
    BY DEF GatesInit, GrantsOf
<1>3. IsFiniteSet({}) /\ Cardinality({}) = 0
    BY FS_EmptySet
<1> QED BY <1>1, <1>2, <1>3, GatesAssumption DEF GatesInit, GatesInv, Seated, NoSeat

\* A step that keeps the grants, or a death that takes them.
LEMMA GrantsKept ==
    ASSUME GatesInv, \A s \in Sessions : Seated(s)',
           seats' \in [Sessions -> {seats'[s] : s \in Sessions}],
           grants' = grants \/ grants' = {}, UNCHANGED <<strays, anomalies, used>>
    PROVE  GatesInv'
<1>1. AllStrays' = AllStrays
    BY DEF AllStrays
<1>2. IsFiniteSet({}) /\ Cardinality({}) = 0
    BY FS_EmptySet
<1>3. Cardinality(grants) \in Nat /\ Cardinality(AllStrays) \in Nat
    BY FS_CardinalityType DEF GatesInv
<1>4. \A i \in Items : Cardinality(GrantsOf(i)) \in Nat /\ GrantsOf(i)' \in {GrantsOf(i), {}}
    <2> TAKE i \in Items
    <2>1. IsFiniteSet(GrantsOf(i))
        BY FS_Subset DEF GatesInv, GrantsOf
    <2> QED BY <2>1, FS_CardinalityType DEF GrantsOf
<1>5. strays' = strays /\ anomalies' = anomalies /\ used' = used
    OBVIOUS
<1>6. IsFiniteSet(grants') /\ Cardinality(grants') <= Cardinality(grants)
    <2>1. CASE grants' = grants
        BY <1>3, <2>1 DEF GatesInv
    <2>2. CASE grants' = {}
        BY <1>2, <1>3, <2>2
    <2> QED BY <2>1, <2>2
<1>7. \A i \in Items : strays'[i] + Cardinality(GrantsOf(i)') <= anomalies'[i]
    <2> TAKE i \in Items
    <2>1. strays[i] + Cardinality(GrantsOf(i)) <= anomalies[i] /\ strays[i] \in Nat /\ anomalies[i] \in Nat
        BY DEF GatesInv
    <2>2. Cardinality(GrantsOf(i)') \in {Cardinality(GrantsOf(i)), 0}
        BY <1>2, <1>4
    <2> QED BY <1>4, <1>5, <2>1, <2>2
<1>8. Cardinality(AllStrays') + Cardinality(grants') <= used'
    <2>1. Cardinality(grants') \in Nat
        BY <1>6, FS_CardinalityType
    <2> QED BY <1>1, <1>3, <1>5, <1>6, <2>1 DEF GatesInv
<1> QED BY <1>1, <1>5, <1>6, <1>7, <1>8 DEF GatesInv

LEMMA CallKeeps ==
    ASSUME GatesInv, NEW s \in Sessions, ToolCall(s)
    PROVE  GatesInv'
<1>1. PICK effect \in Effects(s) :
         /\ grants' = grants \ effect.spent
         /\ strays' = IF effect.astray THEN [strays EXCEPT ![seats[s].item] = @ + 1] ELSE strays
         /\ UNCHANGED <<seats, anomalies, used>>
    BY DEF ToolCall
<1> DEFINE item == seats[s].item
           paid == effect.spent
<1>2. /\ paid \subseteq GrantsOf(item) /\ effect.astray \in BOOLEAN
      /\ effect.astray => paid # {} /\ item \in Items
    BY StraysSpend DEF GatesInv
<1> HIDE DEF item, paid
<1>3. /\ grants' \subseteq grants /\ IsFiniteSet(grants')
      /\ Cardinality(grants') \in Nat /\ Cardinality(grants) \in Nat /\ Cardinality(grants') <= Cardinality(grants)
      /\ effect.astray => Cardinality(grants') + 1 <= Cardinality(grants)
    <2>1. paid \subseteq grants /\ grants' = grants \ paid
        BY <1>1, <1>2 DEF GrantsOf, paid
    <2> QED BY <1>2, <2>1, GrantsTaken DEF GatesInv
<1>4. ASSUME NEW i \in Items
      PROVE  /\ Cardinality(GrantsOf(i)') \in Nat /\ Cardinality(GrantsOf(i)) \in Nat
             /\ Cardinality(GrantsOf(i)') <= Cardinality(GrantsOf(i))
             /\ effect.astray /\ i = item => Cardinality(GrantsOf(i)') + 1 <= Cardinality(GrantsOf(i))
    <2> DEFINE taken == paid \cap GrantsOf(i)
    <2>1. IsFiniteSet(GrantsOf(i))
        BY FS_Subset DEF GatesInv, GrantsOf
    <2>2. GrantsOf(i)' = GrantsOf(i) \ taken
        BY <1>1 DEF GrantsOf, paid
    <2>3. effect.astray /\ i = item => taken # {}
        BY <1>2
    <2> HIDE DEF taken
    <2>4. taken \subseteq GrantsOf(i)
        BY DEF taken
    <2> QED BY <2>1, <2>2, <2>3, <2>4, GrantsTaken
<1>5. seats' = seats /\ anomalies' = anomalies /\ used' = used
    BY <1>1
<1>6. (\A t \in Sessions : Seated(t)') /\ seats' \in [Sessions -> {seats'[t] : t \in Sessions}]
    BY <1>5 DEF GatesInv, Seated
<1>7. CASE ~effect.astray
    <2>1. strays' = strays
        BY <1>1, <1>7
    <2>2. AllStrays' = AllStrays
        BY <2>1 DEF AllStrays
    <2>3. Cardinality(AllStrays) \in Nat
        BY FS_CardinalityType DEF GatesInv
    <2>4. \A i \in Items : strays'[i] + Cardinality(GrantsOf(i)') <= anomalies'[i]
        BY <1>4, <1>5, <2>1 DEF GatesInv
    <2>5. Cardinality(AllStrays') + Cardinality(grants') <= used'
        BY <1>3, <1>5, <2>2, <2>3 DEF GatesInv
    <2> QED BY <1>3, <1>5, <1>6, <2>1, <2>2, <2>4, <2>5 DEF GatesInv
<1>8. CASE effect.astray
    <2>1. strays' = [strays EXCEPT ![item] = @ + 1] /\ item \in Items
        BY <1>1, <1>2, <1>8 DEF item
    <2>2. strays' \in [Items \cup {NoItem} -> Nat] /\ strays'[NoItem] = 0
        BY <2>1, GatesAssumption DEF GatesInv
    <2>3. AllStrays' = AllStrays \cup {<<item, strays[item] + 1>>}
        <3>1. \A i \in Items : strays[i] \in Nat
            BY DEF GatesInv
        <3>2. \A i \in Items : strays'[i] = IF i = item THEN strays[i] + 1 ELSE strays[i]
            BY <2>1 DEF GatesInv
        <3>3. \A i \in Items : 1..strays'[i] = (1..strays[i]) \cup (IF i = item THEN {strays[i] + 1} ELSE {})
            BY <3>1, <3>2
        <3> QED BY <2>1, <3>3 DEF AllStrays
    <2>4. IsFiniteSet(AllStrays') /\ Cardinality(AllStrays') <= Cardinality(AllStrays) + 1
          /\ Cardinality(AllStrays) \in Nat /\ Cardinality(AllStrays') \in Nat
        BY <2>3, OneMore DEF GatesInv
    <2>5. Cardinality(AllStrays') + Cardinality(grants') <= used'
        BY <1>3, <1>5, <1>8, <2>4 DEF GatesInv
    <2>6. \A i \in Items : strays'[i] + Cardinality(GrantsOf(i)') <= anomalies'[i]
        BY <1>4, <1>5, <1>8, <2>1 DEF GatesInv
    <2> QED BY <1>3, <1>5, <1>6, <2>2, <2>4, <2>5, <2>6 DEF GatesInv
<1> QED BY <1>2, <1>7, <1>8

LEMMA OverrideKeeps ==
    ASSUME GatesInv, NEW s \in Sessions, NEW gate \in Refusers, NEW written \in 1..4, Override(s, gate, written)
    PROVE  GatesInv'
<1> DEFINE i == seats[s].item
<1>1. i \in Items
    BY DEF Override, GatesInv, Seated, NoSeat
<1>2. /\ anomalies' = [anomalies EXCEPT ![i] = @ + 1] /\ strays' = strays
      /\ used < MaxOverridesPerRun /\ used' = IF written >= 3 THEN used + 1 ELSE used
    BY DEF Override
<1>3. AllStrays' = AllStrays
    BY <1>2 DEF AllStrays
<1> HIDE DEF i
<1>4. anomalies' \in [Items -> Nat] /\ used' \in Nat /\ used' >= used /\ used' <= MaxOverridesPerRun
      /\ anomalies'[i] = anomalies[i] + 1 /\ \A j \in Items : anomalies'[j] >= anomalies[j]
    BY <1>1, <1>2, GatesAssumption DEF GatesInv
<1>5. /\ Cardinality(AllStrays) \in Nat /\ Cardinality(grants) \in Nat
      /\ \A j \in Items : IsFiniteSet(GrantsOf(j)) /\ Cardinality(GrantsOf(j)) \in Nat
    <2>1. \A j \in Items : IsFiniteSet(GrantsOf(j))
        BY FS_Subset DEF GatesInv, GrantsOf
    <2> QED BY <2>1, FS_CardinalityType DEF GatesInv
<1>6. CASE written = 4
    <2>1. grants' = grants \cup {<<s, gate, i>>} /\ seats' = seats
        BY <1>6 DEF Override, i
    <2>2. used' = used + 1
        BY <1>2, <1>6
    <2>3. IsFiniteSet(grants') /\ Cardinality(grants') <= Cardinality(grants) + 1 /\ Cardinality(grants') \in Nat
        BY <1>5, <2>1, OneMore DEF GatesInv
    <2>4. grants' \subseteq Sessions \X Refusers \X Items
        BY <1>1, <2>1 DEF GatesInv
    <2>5. Cardinality(AllStrays') + Cardinality(grants') <= used'
        BY <1>3, <1>5, <2>2, <2>3 DEF GatesInv
    <2>6. ASSUME NEW j \in Items PROVE strays'[j] + Cardinality(GrantsOf(j)') <= anomalies'[j]
        <3>1. strays[j] + Cardinality(GrantsOf(j)) <= anomalies[j] /\ strays[j] \in Nat /\ anomalies[j] \in Nat
            BY DEF GatesInv
        <3>2. CASE j = i
            <4>1. GrantsOf(j)' = GrantsOf(j) \cup {<<s, gate, i>>}
                BY <2>1, <3>2 DEF GrantsOf
            <4>2. Cardinality(GrantsOf(j)') \in Nat /\ Cardinality(GrantsOf(j)') <= Cardinality(GrantsOf(j)) + 1
                BY <1>5, <4>1, OneMore
            <4> QED BY <1>2, <1>4, <1>5, <3>1, <3>2, <4>2
        <3>3. CASE j # i
            <4>1. GrantsOf(j)' = GrantsOf(j)
                BY <2>1, <3>3 DEF GrantsOf
            <4> QED BY <1>2, <1>4, <1>5, <3>1, <4>1
        <3> QED BY <3>2, <3>3
    <2>7. (\A t \in Sessions : Seated(t)') /\ seats' \in [Sessions -> {seats'[t] : t \in Sessions}]
        BY <2>1 DEF GatesInv, Seated
    <2> QED BY <1>2, <1>3, <1>4, <2>3, <2>4, <2>5, <2>6, <2>7 DEF GatesInv
<1>7. CASE written # 4
    <2>1. grants' = {} /\ seats' = [t \in Sessions |-> NoSeat]
        BY <1>7 DEF Override, Die
    <2>2. IsFiniteSet(grants') /\ Cardinality(grants') = 0
        BY <2>1, FS_EmptySet
    <2>3. Cardinality(AllStrays') + Cardinality(grants') <= used'
        BY <1>3, <1>4, <1>5, <2>2 DEF GatesInv
    <2>4. ASSUME NEW j \in Items PROVE strays'[j] + Cardinality(GrantsOf(j)') <= anomalies'[j]
        <3>1. strays[j] + Cardinality(GrantsOf(j)) <= anomalies[j] /\ strays[j] \in Nat /\ anomalies[j] \in Nat
            BY DEF GatesInv
        <3>2. GrantsOf(j)' = {}
            BY <2>1 DEF GrantsOf
        <3>3. Cardinality(GrantsOf(j)') = 0
            BY <3>2, FS_EmptySet
        <3> QED BY <1>2, <1>4, <1>5, <3>1, <3>3
    <2>5. (\A t \in Sessions : Seated(t)') /\ seats' \in [Sessions -> {seats'[t] : t \in Sessions}]
        BY <2>1 DEF Seated
    <2> QED BY <1>2, <1>3, <1>4, <2>1, <2>2, <2>3, <2>4, <2>5 DEF GatesInv
<1> QED BY <1>6, <1>7

LEMMA GatesInvNext == GatesInv /\ [GatesNext]_gateVars => GatesInv'
<1> SUFFICES ASSUME GatesInv, [GatesNext]_gateVars PROVE GatesInv'
    OBVIOUS
<1>1. ASSUME NEW s \in Sessions, ToolCall(s) PROVE GatesInv'
    BY <1>1, CallKeeps
<1>2. ASSUME NEW s \in Sessions, NEW gate \in Refusers, NEW written \in 1..4, Override(s, gate, written)
      PROVE  GatesInv'
    BY <1>2, OverrideKeeps
<1>3. ASSUME UNCHANGED <<seats, grants, strays, anomalies, used>> PROVE GatesInv'
    <2>1. (\A t \in Sessions : Seated(t)') /\ seats' \in [Sessions -> {seats'[t] : t \in Sessions}]
        BY <1>3 DEF GatesInv, Seated
    <2> QED BY <1>3, <2>1, GrantsKept
<1>4. ASSUME NEW s \in Sessions, NEW seat, Register(s, seat),
             \/ seat = [role |-> "orchestrator", item |-> NoItem, tree |-> "main"]
             \/ \E i \in Items, r \in {"implementer", "testWriter", "reader"} :
                   seat = [role |-> r, item |-> i, tree |-> TreeFor(i)]
      PROVE  GatesInv'
    <2>1. (\A t \in Sessions : Seated(t)') /\ seats' \in [Sessions -> {seats'[t] : t \in Sessions}]
        BY <1>4 DEF Register, GatesInv, Seated
    <2> QED BY <1>4, <2>1, GrantsKept DEF Register
<1>5. ASSUME NEW s \in Sessions, Leave(s) PROVE GatesInv'
    <2>1. (\A t \in Sessions : Seated(t)') /\ seats' \in [Sessions -> {seats'[t] : t \in Sessions}]
        BY <1>5 DEF Leave, GatesInv, Seated
    <2> QED BY <1>5, <2>1, GrantsKept DEF Leave
<1>6. ASSUME Restart PROVE GatesInv'
    <2>1. (\A t \in Sessions : Seated(t)') /\ seats' \in [Sessions -> {seats'[t] : t \in Sessions}]
        BY <1>6 DEF Restart, Die, Seated
    <2> QED BY <1>6, <2>1, GrantsKept DEF Restart, Die
<1>7. CASE \E s \in Sessions, i \in Items : Claim(s, i) \/ Rebirth(s, i)
    BY <1>3, <1>7 DEF Claim, Rebirth
<1>8. CASE (\E i \in Items : Proceed(i)) \/ (\E t \in GuardedTrees : Mark(t))
    BY <1>3, <1>8 DEF Proceed, Mark
<1>9. CASE \E s \in Sessions, g \in Refusers : Exhaust(s, g)
    BY <1>3, <1>9 DEF Exhaust
<1>10. CASE UNCHANGED gateVars
    BY <1>3, <1>10 DEF gateVars
<1>11. CASE \/ \E s \in Prompted : Register(s, [role |-> "orchestrator", item |-> NoItem, tree |-> "main"])
            \/ \E s \in Sessions \ Prompted, i \in Items, r \in {"implementer", "testWriter", "reader"} :
                  Register(s, [role |-> r, item |-> i, tree |-> TreeFor(i)])
    BY <1>4, <1>11, GatesAssumption
<1> QED BY <1>1, <1>2, <1>5, <1>6, <1>7, <1>8, <1>9, <1>10, <1>11 DEF GatesNext

\* Whatever the sessions call, whichever gates crash and wherever the process dies, a call
\* runs outside the lane of its session only at the price of an override that the item's
\* anomalies record and the run's budget counts (adapter/tools.ts, gateBeforeToolCall,
\* consumeOverrideGrant, handleOverride).
THEOREM OverridesAreOnRecord == GatesSpec => []StraysAreOnRecord
<1>1. GatesInv => StraysAreOnRecord
    <2> SUFFICES ASSUME GatesInv PROVE StraysAreOnRecord
        OBVIOUS
    <2>1. Cardinality(AllStrays) \in Nat /\ Cardinality(grants) \in Nat
        BY FS_CardinalityType DEF GatesInv
    <2> QED BY <2>1 DEF GatesInv, StraysAreOnRecord, GrantsOf
<1>2. GatesSpec => []GatesInv
    BY GatesInvInit, GatesInvNext, PTL DEF GatesSpec
<1> QED BY <1>1, <1>2, PTL
=============================================================================
