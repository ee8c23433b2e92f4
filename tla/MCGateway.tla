------------------------------ MODULE MCGateway ------------------------------
(***************************************************************************)
(* Gateway for TLC: requests are interchangeable, and so are the backends  *)
(* when every model is served by all of them.                              *)
(***************************************************************************)
EXTENDS Gateway, TLC

CONSTANTS b1, b2

\* Every backend serves the one model.
ModelsShared == {Backends}

FullSymmetry == Permutations(Requests) \cup Permutations(Backends)
=============================================================================
