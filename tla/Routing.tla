------------------------------- MODULE Routing -------------------------------
(***************************************************************************)
(* The routing policies (src/src/routing) as functions from the candidates *)
(* and their load to a RouteOrder, and the affinity key of a conversation. *)
(* Backends are their config indices; texts are sequences of bytes.        *)
(*                                                                         *)
(* score[b] stands for XXH64(key, b), the rendezvous score of b for an     *)
(* affinity key.  load_threshold is the fraction threshold_num /           *)
(* threshold_den.                                                          *)
(***************************************************************************)
EXTENDS Naturals, Sequences, FiniteSets

CONSTANTS
    max_in_flight,                 \* BackendConfig::max_in_flight
    threshold_num, threshold_den,  \* routing.load_threshold
    prefix_bytes                   \* routing.prefix_bytes

ASSUME RoutingAssumption ==
    /\ max_in_flight \in Nat \ {0}
    /\ threshold_den \in Nat \ {0}
    /\ threshold_num \in 0..threshold_den
    /\ prefix_bytes \in Nat \ {0}

-----------------------------------------------------------------------------
(***************************************************************************)
(* The affinity key                                                        *)
(***************************************************************************)

\* What a message adds to the key: a string as it is, null as nothing, and
\* anything else as its JSON text.
ContentText(msg) ==
    CASE msg.kind = "string" -> msg.content
      [] msg.kind = "null"   -> <<>>
      [] msg.kind = "parts"  -> <<"[">> \o msg.content \o <<"]">>

\* append_capped(): as much of s as the budget has room for.
append_capped(out, s) ==
    IF Len(out) >= prefix_bytes THEN out
    ELSE out \o SubSeq(s, 1, IF Len(s) < prefix_bytes - Len(out)
                             THEN Len(s) ELSE prefix_bytes - Len(out))

\* Mutation: the last bytes are kept instead of the first.
MutCanonicalAffinityString(model, msgs) ==
    LET out[i \in 0..Len(msgs)] ==
            IF i = 0 THEN model \o <<"US">>
            ELSE out[i - 1] \o msgs[i].role \o <<":">> \o ContentText(msgs[i])
        all == out[Len(msgs)]
    IN  SubSeq(all, IF Len(all) > prefix_bytes THEN Len(all) - prefix_bytes + 1 ELSE 1, Len(all))

\* The model, the separator 0x1f, and role:content of each message in turn.
canonical_affinity_string(model, msgs) ==
    LET start == append_capped(append_capped(<<>>, model), <<"US">>)
        out[i \in 0..Len(msgs)] ==
            IF i = 0 THEN start
            ELSE append_capped(append_capped(append_capped(out[i - 1], msgs[i].role), <<":">>),
                               ContentText(msgs[i]))
    IN  out[Len(msgs)]

-----------------------------------------------------------------------------
(***************************************************************************)
(* The orders                                                              *)
(***************************************************************************)

\* The candidates as backends_for_model() lists them: by config index.
ByIndex(cands) ==
    [i \in 1..Cardinality(cands) |->
        CHOOSE b \in cands : Cardinality({c \in cands : c < b}) = i - 1]

\* RoundRobin::order() with cursor_ = cursor.
RoundRobinOrder(cands, cursor) ==
    LET n == Cardinality(cands)
    IN  [order  |-> [i \in 1..n |-> ByIndex(cands)[((cursor + i - 1) % n) + 1]],
         spills |-> 0]

\* The comparison of hrw_rank(): higher score first, ties by index.
Outranks(score, a, b) == score[a] > score[b] \/ (score[a] = score[b] /\ a < b)

\* Mutation: the key picks a place in the candidate list, modulo its length.
MutHrwRank(score, cands) ==
    LET n == Cardinality(cands)
        k == score[CHOOSE b \in DOMAIN score : TRUE]
    IN  [i \in 1..n |-> ByIndex(cands)[((k + i) % n) + 1]]

\* The candidates from the one no other outranks to the one all outrank.
hrw_rank(score, cands) ==
    [i \in 1..Cardinality(cands) |->
        CHOOSE b \in cands : Cardinality({c \in cands : Outranks(score, c, b)}) = i - 1]

\* Mutation: "at or above" becomes "above".
MutOverloaded(active, b) == active[b] * threshold_den > threshold_num * max_in_flight

\* The load guard's test on one candidate.
Overloaded(active, b) == active[b] * threshold_den >= threshold_num * max_in_flight

\* Mutation: the guard replaces the winner and forgets those it skipped.
MutHeadFirst(rank, head) == [i \in DOMAIN rank |-> rank[IF i <= head THEN head ELSE i]]

\* Entry head of rank first, the others behind it in rank order.
HeadFirst(rank, head) ==
    [i \in DOMAIN rank |->
        IF i = 1 THEN rank[head] ELSE IF i <= head THEN rank[i - 1] ELSE rank[i]]

\* PrefixAffinity::order().
AffinityOrder(score, cands, active) ==
    LET rank  == hrw_rank(score, cands)
        under == {i \in DOMAIN rank : ~Overloaded(active, rank[i])}
        head  == CHOOSE i \in under : \A j \in under : i <= j
    IN  IF under = {}
        THEN [order |-> rank, spills |-> Cardinality(cands)]
        ELSE [order |-> HeadFirst(rank, head), spills |-> head - 1]
=============================================================================
