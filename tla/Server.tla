-------------------------------- MODULE Server --------------------------------
(***************************************************************************)
(* The two listeners and their sessions (src/src/server/listener.cpp), the *)
(* dispatch of Gateway::handle() and the graceful drain of main.cpp.  A    *)
(* chat request is a single state here; module Gateway is its inside.      *)
(* Module Process adds the start-up and the health monitors.               *)
(***************************************************************************)
EXTENDS Naturals, FiniteSets

CONSTANT Connections    \* connections the acceptor may have open at a time

VARIABLES
    listener,   \* run_listener(): "off", "open", or "failed" to bind
    metrics,    \* run_metrics_listener(), likewise
    scrape,     \* a metrics session: "closed", "reading" or "writing"
    session,    \* per connection: "closed", "reading", "chat", "simple" (any
                \* other route) or "refusing" (the 503 of a draining gateway)
    in_flight,  \* Gateway::in_flight_
    draining,   \* Gateway::draining_
    deadline,   \* whether the Drainer's 30 s have passed
    drainer,    \* "off", "waiting" on its timer, or "done"
    stopped     \* ioc.stop() was called

vars == <<listener, metrics, scrape, session, in_flight, draining, deadline, drainer, stopped>>

frontVars == <<listener, metrics, scrape>>

Init ==
    /\ listener = "off"
    /\ metrics = "off"
    /\ scrape = "closed"
    /\ session = [c \in Connections |-> "closed"]
    /\ in_flight = 0
    /\ draining = FALSE
    /\ deadline = FALSE
    /\ drainer = "off"
    /\ stopped = FALSE

-----------------------------------------------------------------------------
(***************************************************************************)
(* Listeners                                                               *)
(***************************************************************************)

\* The coroutines start: open, bind, listen.  One that throws is reported on
\* stderr and the process goes on without it.
Listen ==
    /\ ~stopped
    /\ listener = "off"
    /\ listener' \in {"open", "failed"}
    /\ UNCHANGED <<metrics, scrape, session, in_flight, draining, deadline, drainer, stopped>>

ListenMetrics ==
    /\ ~stopped
    /\ metrics = "off"
    /\ metrics' \in {"open", "failed"}
    /\ UNCHANGED <<listener, scrape, session, in_flight, draining, deadline, drainer, stopped>>

\* run_metrics_session(): one request, one response, draining or not.
AcceptScrape ==
    /\ ~stopped
    /\ metrics = "open"
    /\ scrape = "closed"
    /\ scrape' = "reading"
    /\ UNCHANGED <<listener, metrics, session, in_flight, draining, deadline, drainer, stopped>>

ScrapeRead ==
    /\ ~stopped
    /\ scrape = "reading"
    /\ scrape' = "writing"
    /\ UNCHANGED <<listener, metrics, session, in_flight, draining, deadline, drainer, stopped>>

\* The response is written, the read or the write fails, or the 10 s set before
\* the read, which also bound the write, are over.
ScrapeEnds ==
    /\ ~stopped
    /\ scrape # "closed"
    /\ scrape' = "closed"
    /\ UNCHANGED <<listener, metrics, session, in_flight, draining, deadline, drainer, stopped>>

-----------------------------------------------------------------------------
(***************************************************************************)
(* Sessions                                                                *)
(***************************************************************************)

\* The acceptor stays open while the gateway drains.
Accept(c) ==
    /\ ~stopped
    /\ listener = "open"
    /\ session[c] = "closed"
    /\ session' = [session EXCEPT ![c] = "reading"]
    /\ UNCHANGED <<frontVars, in_flight, draining, deadline, drainer, stopped>>

\* The idle timeout, a read error or the client closing the connection.
ReadFails(c) ==
    /\ ~stopped
    /\ session[c] = "reading"
    /\ session' = [session EXCEPT ![c] = "closed"]
    /\ UNCHANGED <<frontVars, in_flight, draining, deadline, drainer, stopped>>

\* A request was read and handle() takes it to its first suspension.
ReadRequest(c) ==
    /\ ~stopped
    /\ session[c] = "reading"
    /\ \/ /\ draining
          /\ session' = [session EXCEPT ![c] = "refusing"]
          /\ UNCHANGED in_flight
       \/ /\ ~draining
          /\ session' = [session EXCEPT ![c] = "simple"]
          /\ UNCHANGED in_flight
       \/ /\ ~draining
          /\ session' = [session EXCEPT ![c] = "chat"]
          /\ in_flight' = in_flight + 1
    /\ UNCHANGED <<frontVars, draining, deadline, drainer, stopped>>

\* handle_chat() throws: counted down, rethrown, and the session ends.
ChatThrows(c) ==
    /\ ~stopped
    /\ session[c] = "chat"
    /\ session' = [session EXCEPT ![c] = "closed"]
    /\ in_flight' = in_flight - 1
    /\ UNCHANGED <<frontVars, draining, deadline, drainer, stopped>>

\* handle_chat() returns whether the connection may be reused.
ChatReturns(c) ==
    /\ ~stopped
    /\ session[c] = "chat"
    /\ \E next \in {"reading", "closed"} : session' = [session EXCEPT ![c] = next]
    /\ in_flight' = in_flight - 1
    /\ UNCHANGED <<frontVars, draining, deadline, drainer, stopped>>

\* The response of any other route is written, or fails; a refused connection
\* is closed either way.
ResponseEnds(c) ==
    /\ ~stopped
    /\ \/ /\ session[c] = "simple"
          /\ \E next \in {"reading", "closed"} : session' = [session EXCEPT ![c] = next]
       \/ /\ session[c] = "refusing"
          /\ session' = [session EXCEPT ![c] = "closed"]
    /\ UNCHANGED <<frontVars, in_flight, draining, deadline, drainer, stopped>>

-----------------------------------------------------------------------------
(***************************************************************************)
(* Drain                                                                   *)
(***************************************************************************)

\* Mutation: the last stream is not waited for.
MutDrainOver == in_flight <= 1 \/ deadline

\* Mutation: there is no deadline.
MutDrainWithoutDeadline == in_flight = 0

DrainOver == in_flight = 0 \/ deadline

\* Drainer::poll().
Poll ==
    /\ stopped' = DrainOver
    /\ drainer' = IF DrainOver THEN "done" ELSE "waiting"

\* SIGINT or SIGTERM: begin_drain(), and the first poll in the same handler
\* (stop_health_monitors() between them is in Process).  The handler is not
\* armed again.
Signal ==
    /\ drainer = "off"
    /\ draining' = TRUE
    /\ Poll
    /\ UNCHANGED <<frontVars, session, in_flight, deadline>>

\* The 100 ms timer of the Drainer.
PollAgain ==
    /\ drainer = "waiting"
    /\ Poll
    /\ UNCHANGED <<frontVars, session, in_flight, draining, deadline>>

DeadlinePasses ==
    /\ drainer = "waiting"
    /\ ~deadline
    /\ deadline' = TRUE
    /\ UNCHANGED <<frontVars, session, in_flight, draining, drainer, stopped>>

\* What the listeners and the sessions do.
Serve ==
    \/ Listen \/ ListenMetrics
    \/ AcceptScrape \/ ScrapeRead \/ ScrapeEnds
    \/ \E c \in Connections :
        \/ Accept(c) \/ ReadFails(c) \/ ReadRequest(c)
        \/ ChatReturns(c) \/ ChatThrows(c) \/ ResponseEnds(c)

-----------------------------------------------------------------------------
(***************************************************************************)
(* Properties                                                              *)
(***************************************************************************)

Chatting == {c \in Connections : session[c] = "chat"}

\* in_flight_ counts the chat requests in progress, also when handle_chat() is
\* left by an exception: the drain neither waits for a request that is gone
\* nor overlooks one.
InFlightCountsChats == in_flight = Cardinality(Chatting)

\* The process stops under a chat request only when the drain window is over:
\* "give in-flight streams a bounded window to finish".
DrainIsGraceful == stopped => Chatting = {} \/ deadline
=============================================================================
