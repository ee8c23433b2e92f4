---------------------------- MODULE RelayGateway -----------------------------
(***************************************************************************)
(* StreamRelay implements what Gateway says of a request: Gateway has one  *)
(* action for every way an upstream call can end, and StreamRelay plays    *)
(* the call out.  Seen as in RelayView, it is a behaviour of Gateway.      *)
(***************************************************************************)
EXTENDS RelayView

Gw == INSTANCE Gateway WITH
        Requests <- {"r"}, Backends <- {"b"}, Models <- {{"b"}}, Kinds <- BOOLEAN,
        max_concurrent <- 1, queue_depth <- 0, max_in_flight <- 1,
        failure_threshold <- 2, Polite <- {},
        in_flight <- gw_in_flight, waiters <- <<>>, granted <- {}, woken <- {},
        suspended <- {}, tickets <- gw_tickets, breaker <- gw_breaker,
        active <- gw_active, healthy <- gw_healthy, req <- gw_req

\* Every way the call, the sink and the end of the response can go, with what
\* the breaker, the limiter and the gate are told on that way, is one that
\* Gateway foresees: statuses, reports, released slots and final codes agree.
ImplementsGateway == Gw!Spec
=============================================================================
