--------------------------- MODULE MCGatewayMetrics ---------------------------
(***************************************************************************)
(* GatewayMetrics for TLC: requests and backends are interchangeable.      *)
(***************************************************************************)
EXTENDS GatewayMetrics, TLC

\* Every backend serves the one model.
ModelsShared == {Backends}

Symmetry == Permutations(Requests) \cup Permutations(Backends)
=============================================================================
