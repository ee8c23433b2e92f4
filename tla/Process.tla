------------------------------- MODULE Process -------------------------------
(***************************************************************************)
(* The process that main() runs: Startup, and then the listeners, the      *)
(* sessions and the drain of Server and the probe loop of HealthMonitor on *)
(* one io_context.  The signal handler stops the monitors and starts the   *)
(* drain; once ioc.stop() is called no coroutine runs any more, wherever   *)
(* it is.                                                                  *)
(***************************************************************************)
EXTENDS Server, Startup

VARIABLES
    type, server, pc, live, state,   \* the monitor of one backend
    monitor_stopped                  \* its stopped_

monitorVars == <<type, server, pc, live, state, monitor_stopped>>

allVars == <<vars, mainVars, monitorVars>>

Monitor == INSTANCE HealthMonitor WITH stopped <- monitor_stopped

ProcessInit == MainInit /\ Init /\ Monitor!Init

\* main() before the io_context runs.
Prepare ==
    /\ \/ ReadArguments
       \/ \E file \in Files : Load(file)
       \/ Build
    /\ UNCHANGED <<vars, monitorVars>>

\* start_health_monitors() has spawned the monitors when ioc.run() begins; one
\* of them is followed.
EnterLoop ==
    /\ Start
    /\ \/ /\ stage' = "running"
          /\ \E i \in DOMAIN cfg[1].backends : Monitor!Start(cfg[1].backends[i].type)
       \/ /\ stage' # "running"
          /\ UNCHANGED monitorVars
    /\ UNCHANGED vars

\* begin_drain(), stop_health_monitors() and the first poll, in one handler.
SignalHandler == stage = "running" /\ Signal /\ Monitor!Stop /\ UNCHANGED mainVars

\* The probe loop runs only while the io_context does.
Probe == ~stopped /\ Monitor!Run /\ UNCHANGED <<vars, mainVars>>

\* A handler of Server's, in ioc.run().
Handle(step) == stage = "running" /\ step /\ UNCHANGED <<mainVars, monitorVars>>

ProcessNext ==
    \/ Prepare
    \/ EnterLoop
    \/ SignalHandler
    \/ Probe
    \/ Handle(Serve)
    \/ Handle(PollAgain)
    \/ Handle(DeadlinePasses)
    \/ Monitor!ServerChanges /\ UNCHANGED <<vars, mainVars>>

\* The timers of the drain and of the monitor fire and every GET has a budget.
\* Nothing is assumed of clients, and nothing of chat requests.
ProcessSpec ==
    /\ ProcessInit
    /\ [][ProcessNext]_allVars
    /\ WF_allVars(Handle(PollAgain))
    /\ WF_allVars(Handle(DeadlinePasses))
    /\ WF_allVars(Probe)

-----------------------------------------------------------------------------
(***************************************************************************)
(* Properties, besides those of Server and Startup                         *)
(***************************************************************************)

\* A signal always ends the process, whatever clients and backends do, and
\* whether or not the listeners could be opened.
SignalStops == draining ~> stopped

\* The states that a backend which stays as it is may be published in.
Verdicts(s) ==
    CASE s = "ready"   -> {"Healthy"}
      [] s = "loading" -> {"NotReady"}
      [] OTHER         -> {"Dead"}

\* Whatever happened before, mixed answers of one Ollama round included, a
\* backend that stays as it is ends up published as what it is, for good,
\* unless a signal ends the process.
Converges ==
    \A s \in {"down", "loading", "failing", "ready"} :
        <>[](server = s /\ stage = "running" /\ ~draining) => <>[](state \in Verdicts(s))

\* What the loop publishes is not older than the round: a backend is published
\* Healthy only by a round whose last answer came from a ready backend and, for
\* Ollama, whose liveness answer carried the banner.
HealthyIsEarned ==
    [][(state' = "Healthy" /\ pc \in {"health", "ready"} /\ pc' = "timer") =>
          /\ server = "ready"
          /\ type = "ollama" => live.banner]_allVars
=============================================================================
