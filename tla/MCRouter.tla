------------------------------ MODULE MCRouter -------------------------------
(***************************************************************************)
(* Router for TLC: a model on every backend and one on two of them, and    *)
(* messages that fill the prefix at once, later, or after several turns.   *)
(***************************************************************************)
EXTENDS Router

TwoModels == {Backends, {0, 1}}

SomeMessages ==
    {[role |-> <<"u">>, kind |-> "string", content |-> <<"t", "t">>],
     [role |-> <<"u">>, kind |-> "parts", content |-> <<"t">>],
     [role |-> <<"s">>, kind |-> "null", content |-> <<>>]}
=============================================================================
