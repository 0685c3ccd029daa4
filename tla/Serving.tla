------------------------------- MODULE Serving -------------------------------
(* The processes around the model: llama-server, llama-router with its        *)
(* supervisor, and the program that starts them, which is serve.py (it becomes*)
(* the session's bash) or run_and_watch.py (a benchmark campaign).  Signals,  *)
(* exits and exceptions of any of them, at any step of the others.            *)
EXTENDS Integers

CONSTANTS
    MaxRelayExits       \* bound: crashes of llama-router

ServingAssumption == MaxRelayExits \in Nat

VARIABLES
    mode,       \* "session" or "campaign"
    plan,       \* whether this start launches a router: "launch" or "direct"
    driver,     \* the step of serve.py, of the bash it becomes, or of run_and_watch.py
    exit,       \* how the driver ended and the step it ended at
    server,     \* llama-server: "none", "loading", "up", "asked" (to stop), "gone"
    mine,       \* this start is what started it
    watchdog,   \* serve.py's: "none", "watching", "killing", "gone"
    supervisor, \* "none", "spawning", "watching", "waiting", "stopping", "gone"
    relay,      \* llama-router: "none", "up", "asked", "gone"
    code,       \* its last exit: "clean", "fatal", "crash"
    crashes,    \* consecutive ones, as backoff_next() counts them
    conf,       \* conductor-router.json: what each key was written by
    heard,      \* what llama-router read of it when it started
    routed      \* where the session's configuration points: "undecided", "router", "direct"

servingVars ==
    <<mode, plan, driver, exit, server, mine, watchdog, supervisor, relay, code, crashes,
      conf, heard, routed>>

routerVars == <<supervisor, relay, code, crashes, heard>>

-----------------------------------------------------------------------------
(* Decisions. *)

\* router_preflight(): only an explicit --router refuses for what is missing.
Preflight(flag, able) ==
    IF flag = "off" THEN "direct"
    ELSE IF able THEN "launch"
    ELSE IF flag = "on" THEN "refuse" ELSE "direct"

\* conductor-router.json: ROUTER_MACHINE_KEYS are this start's, the others an operator's.
MachineKeys == {"inflight", "queueTimeout", "ports"}
Keys == MachineKeys \cup {"affinity"}
Generated == [k \in Keys |-> "new"]
NoConf == [k \in Keys |-> "none"]
\* A merge that stops at the overlay: an old file governs the new start.
OverlayWins(existing, fresh) ==
    IF fresh \/ existing = NoConf THEN Generated ELSE existing
Merged(existing, fresh) ==
    IF fresh \/ existing = NoConf THEN Generated
    ELSE [k \in Keys |-> IF k \in MachineKeys THEN Generated[k] ELSE existing[k]]

\* verify_router_admission() of the file as it is read back.
Admissible(c) == c["inflight"] = "new" /\ c["queueTimeout"] = "new"

\* backoff_next(): a run that stayed up is not held against the next.
CrashesAfter(healthy) == IF healthy THEN 1 ELSE crashes + 1

-----------------------------------------------------------------------------
(* The driver. *)

Alive == driver # "gone"
Gone(how) == driver' = "gone" /\ exit' = [how |-> how, at |-> driver]

Serves == server \in {"loading", "up"}
KillServer == server' = IF server = "none" THEN server ELSE "gone"
AskServer == server' = IF Serves THEN "asked" ELSE server

\* run_and_watch.preflight() finds both up, and they are not its to stop.
UseForeign ==
    /\ mode = "campaign" /\ driver = "start" /\ ~mine
    /\ driver' = "measuring"
    /\ UNCHANGED <<mode, plan, exit, server, mine, watchdog, routerVars, conf, routed>>

\* A stale binary, an unreadable configuration, a server without its router.
Refuse ==
    /\ driver = "start" /\ Gone("refused")
    /\ UNCHANGED <<mode, plan, server, mine, watchdog, routerVars, conf, routed>>

Launch ==
    /\ driver = "start" /\ mine
    /\ driver' = "waiting" /\ server' = "loading"
    /\ UNCHANGED <<mode, plan, exit, mine, watchdog, routerVars, conf, routed>>

\* wait_until_ready() and the loop of start_services().
Ready ==
    /\ driver = "waiting" /\ server = "up"
    /\ driver' = "window"
    /\ UNCHANGED <<mode, plan, exit, server, mine, watchdog, routerVars, conf, routed>>

\* It died or its time is over: serve.py kills it, start_services() terminates it.
NotReady ==
    /\ driver = "waiting"
    /\ IF mode = "session"
       THEN Gone("refused") /\ KillServer
       ELSE driver' = "terminating" /\ UNCHANGED exit /\ AskServer
    /\ UNCHANGED <<mode, plan, mine, watchdog, routerVars, conf, routed>>

\* The router's configuration is written and its supervisor started; a campaign
\* reads the file back and ends when it is not its own.
StartRouter(fresh) ==
    /\ driver = "window" /\ plan = "launch"
    /\ conf' = Merged(conf, fresh)
    /\ IF mode = "session" \/ Admissible(conf')
       THEN driver' = "probing" /\ supervisor' = "spawning" /\ UNCHANGED server
       ELSE driver' = "terminating" /\ AskServer /\ UNCHANGED supervisor
    /\ UNCHANGED <<mode, plan, exit, mine, watchdog, relay, code, crashes, heard, routed>>

\* A campaign without a router binary ends; a session goes on without a router.
NoRouter ==
    /\ driver = "window"
    /\ IF mode = "session"
       THEN plan = "direct" /\ driver' = "wiring" /\ routed' = "direct" /\ UNCHANGED server
       ELSE driver' = "terminating" /\ AskServer /\ UNCHANGED routed
    /\ UNCHANGED <<mode, plan, exit, mine, watchdog, routerVars, conf>>

\* finalize_routing() and port_open().
Answered ==
    /\ driver = "probing" /\ relay = "up"
    /\ routed' = "router"
    /\ driver' = IF mode = "session" THEN "wiring" ELSE "handed"
    /\ UNCHANGED <<mode, plan, exit, server, mine, watchdog, routerVars, conf>>

\* stop_router_supervisor(): SIGTERM to the group of the supervisor, which has no
\* handler for it, and nothing to do when the supervisor is gone.
StopSupervisor ==
    IF supervisor \in {"none", "gone"} THEN UNCHANGED <<supervisor, relay>>
    ELSE /\ supervisor' = "gone"
         /\ relay' = IF relay = "up" THEN "asked" ELSE relay

\* The readiness budget is spent.
Fallback ==
    /\ driver = "probing"
    /\ StopSupervisor
    /\ IF mode = "session"
       THEN driver' = "wiring" /\ routed' = "direct" /\ UNCHANGED server
       ELSE driver' = "terminating" /\ AskServer /\ UNCHANGED routed
    /\ UNCHANGED <<mode, plan, exit, mine, watchdog, code, crashes, heard, conf>>

\* start_watchdog(): a failure is only warned about.
Watched(started) == IF started THEN "watching" ELSE "none"

\* The session's files are written and its watchdog started.
HandOver(started) ==
    /\ mode = "session" /\ driver = "wiring"
    /\ driver' = "handed" /\ watchdog' = Watched(started)
    /\ UNCHANGED <<mode, plan, exit, server, mine, routerVars, conf, routed>>

\* execv() into bash; the loop of a campaign, its handler of SIGINT in place.
Enter ==
    /\ driver = "handed"
    /\ driver' = IF mode = "session" THEN "shell" ELSE "measuring"
    /\ UNCHANGED <<mode, plan, exit, server, mine, watchdog, routerVars, conf, routed>>

Window == {"window", "probing", "wiring"}

\* A guard on the raise sites one thought of, and not on the window.
RaiseAtAGap(how) ==
    /\ driver \in {"window", "probing", "wiring", "handed"} \/ (how = "interrupted" /\ driver = "waiting")
    /\ Gone(how)
    /\ IF mode = "session" /\ driver \in Window \ {"wiring"} THEN KillServer
       ELSE IF mode = "session" /\ how = "interrupted" THEN AskServer
       ELSE UNCHANGED server
    /\ UNCHANGED <<mode, plan, mine, watchdog, routerVars, conf, routed>>

\* A step raises.  serve.py reaps the server inside its window; run_and_watch.py
\* reaches its finally only from the loop.
Raise(how) ==
    /\ driver \in {"window", "probing", "wiring", "handed"} \/ (how = "interrupted" /\ driver = "waiting")
    /\ Gone(how)
    /\ IF mode = "session" /\ driver \in Window THEN KillServer
       ELSE IF mode = "session" /\ how = "interrupted" THEN AskServer
       ELSE UNCHANGED server
    /\ UNCHANGED <<mode, plan, mine, watchdog, routerVars, conf, routed>>

\* The trap of the session's bash: on exit it ends the shell, on Ctrl-C at the
\* prompt the shell lives on.
Trap(end) ==
    /\ driver = "shell" /\ end \in {"leaving", "prompted"}
    /\ driver' = end /\ AskServer
    /\ UNCHANGED <<mode, plan, exit, mine, watchdog, routerVars, conf, routed>>

\* Ten looks at the server, half a second apart, and then SIGKILL.
TrapEnds ==
    /\ driver \in {"leaving", "prompted"}
    /\ KillServer
    /\ IF driver = "leaving" THEN Gone("done") ELSE driver' = "shell" /\ UNCHANGED exit
    /\ UNCHANGED <<mode, plan, mine, watchdog, routerVars, conf, routed>>

\* The benchmark ended, failed or was interrupted: stop_services().
StopServices ==
    /\ driver = "measuring"
    /\ IF mine THEN StopSupervisor /\ AskServer /\ driver' = "terminating" /\ UNCHANGED exit
       ELSE UNCHANGED <<supervisor, relay, server>> /\ Gone("done")
    /\ UNCHANGED <<mode, plan, mine, watchdog, code, crashes, heard, conf, routed>>

\* _terminate(): SIGTERM, thirty seconds, SIGKILL.
Terminated ==
    /\ driver = "terminating"
    /\ KillServer /\ Gone("done")
    /\ UNCHANGED <<mode, plan, mine, watchdog, routerVars, conf, routed>>

\* SIGKILL, or a signal nothing handles.
Killed ==
    /\ driver \notin {"start", "gone"} /\ Gone("killed")
    /\ UNCHANGED <<mode, plan, server, mine, watchdog, routerVars, conf, routed>>

-----------------------------------------------------------------------------
(* The watchdog: polls the shell's pid, then SIGTERM, ten seconds, SIGKILL. *)

WatchdogSees ==
    /\ watchdog = "watching" /\ ~Alive
    /\ watchdog' = IF server = "gone" THEN "gone" ELSE "killing"
    /\ AskServer
    /\ UNCHANGED <<mode, plan, driver, exit, mine, routerVars, conf, routed>>

WatchdogEnds ==
    /\ watchdog = "killing" /\ watchdog' = "gone"
    /\ KillServer
    /\ UNCHANGED <<mode, plan, driver, exit, mine, routerVars, conf, routed>>

-----------------------------------------------------------------------------
(* The supervisor of llama-router. *)

Spawn(able) ==
    /\ supervisor = "spawning"
    /\ IF Alive /\ able
       THEN supervisor' = "watching" /\ relay' = "up" /\ heard' = conf
       ELSE supervisor' = "gone" /\ UNCHANGED <<relay, heard>>
    /\ UNCHANGED <<mode, plan, driver, exit, server, mine, watchdog, code, crashes, conf, routed>>

\* The driver is gone: stop(proc).
StopRelay ==
    /\ supervisor = "watching" /\ ~Alive
    /\ IF relay = "up" THEN supervisor' = "stopping" /\ relay' = "asked"
       ELSE supervisor' = "gone" /\ UNCHANGED relay
    /\ UNCHANGED <<mode, plan, driver, exit, server, mine, watchdog, code, crashes, heard, conf, routed>>

\* It went, or its grace is over and it is killed.
RelayStopped ==
    /\ supervisor = "stopping"
    /\ supervisor' = "gone" /\ relay' = "gone"
    /\ UNCHANGED <<mode, plan, driver, exit, server, mine, watchdog, code, crashes, heard, conf, routed>>

\* router_restart_decision(): a clean exit and the fatal codes are final.
Judge(healthy) ==
    /\ supervisor = "watching" /\ relay = "gone" /\ Alive
    /\ IF code = "crash"
       THEN supervisor' = "waiting" /\ crashes' = CrashesAfter(healthy)
       ELSE supervisor' = "gone" /\ UNCHANGED crashes
    /\ UNCHANGED <<mode, plan, driver, exit, server, mine, watchdog, relay, code, heard, conf, routed>>

BackOff ==
    /\ supervisor = "waiting" /\ supervisor' = "spawning"
    /\ UNCHANGED <<mode, plan, driver, exit, server, mine, watchdog, relay, code, crashes, heard, conf,
                   routed>>

-----------------------------------------------------------------------------
(* The two servers. *)

RelayExits(c) ==
    /\ relay \in {"up", "asked"} /\ relay' = "gone" /\ code' = c
    /\ c = "crash" => crashes < MaxRelayExits
    /\ UNCHANGED <<mode, plan, driver, exit, server, mine, watchdog, supervisor, crashes, heard, conf,
                   routed>>

ServerUp ==
    /\ server = "loading" /\ server' = "up"
    /\ UNCHANGED <<mode, plan, driver, exit, mine, watchdog, routerVars, conf, routed>>

ServerExits ==
    /\ mine /\ server \in {"loading", "up", "asked"} /\ server' = "gone"
    /\ UNCHANGED <<mode, plan, driver, exit, mine, watchdog, routerVars, conf, routed>>

-----------------------------------------------------------------------------
ServingInit ==
    /\ mode \in {"session", "campaign"}
    /\ mine \in BOOLEAN /\ (mode = "session" => mine)
    /\ plan \in {Preflight(f, a) : f \in {"auto", "on", "off"}, a \in BOOLEAN} \ {"refuse"}
    /\ mode = "campaign" => plan = "launch"
    /\ driver = "start" /\ exit = [how |-> "none", at |-> "start"]
    /\ server = IF mine THEN "none" ELSE "up"
    /\ watchdog = "none" /\ supervisor = "none" /\ relay = "none"
    /\ code = "clean" /\ crashes = 0
    /\ conf \in {NoConf, [k \in Keys |-> "old"]} /\ heard = NoConf
    /\ routed = "undecided"

ServingNext ==
    \/ UseForeign \/ Refuse \/ Launch \/ Ready \/ NotReady
    \/ \E fresh \in BOOLEAN : StartRouter(fresh /\ mode = "session")
    \/ NoRouter \/ Answered \/ Fallback
    \/ \E started \in BOOLEAN : HandOver(started)
    \/ Enter
    \/ \E how \in {"raised", "interrupted"} : Raise(how)
    \/ \E end \in {"leaving", "prompted"} : Trap(end)
    \/ TrapEnds \/ StopServices \/ Terminated \/ Killed
    \/ WatchdogSees \/ WatchdogEnds
    \/ \E able \in BOOLEAN : Spawn(able)
    \/ StopRelay \/ RelayStopped
    \/ \E healthy \in BOOLEAN : Judge(healthy)
    \/ BackOff
    \/ \E c \in {"clean", "fatal", "crash"} : RelayExits(c)
    \/ ServerUp \/ ServerExits

ServingSpec == ServingInit /\ [][ServingNext]_servingVars

-----------------------------------------------------------------------------
\* The ends that no code covers: serve.py killed before its watchdog runs, a bash
\* without a watchdog killed, run_and_watch.py killed, and an exception or a
\* Ctrl-C before its loop.
Uncovered ==
    \/ exit.how = "killed" /\ (mode = "campaign" \/ watchdog = "none")
    \/ exit.how \in {"raised", "interrupted"} /\ (mode = "campaign" \/ watchdog = "none")
         /\ exit.at \notin (IF mode = "session" THEN Window ELSE {})

\* Nothing is left running (serve.py:24-27, run_and_watch.py:30-35): a model server
\* that has not been told to stop has somebody who will tell it, a router has its
\* supervisor, a session that fell back to the server has no supervisor left to
\* restart a router nobody uses, and a server that was found is left alone.
NothingIsLeftRunning ==
    /\ mine /\ Serves => Alive \/ watchdog \in {"watching", "killing"} \/ Uncovered
    /\ relay = "up" => supervisor = "watching"
    /\ routed = "direct" => supervisor \in {"none", "gone"}
    /\ ~mine => server = "up"

\* A router that runs admits what this start's server holds and gives up when this
\* start's clients do, whatever an earlier start or an operator left in its file.
RouterKnowsItsServer == relay = "up" => \A k \in MachineKeys : heard[k] = "new"
=============================================================================
