------------------------------ MODULE MCProcess ------------------------------
(***************************************************************************)
(* Process for TLC: a command line of up to three words, and the files     *)
(* that differ from a valid one in one setting, one section or one of two  *)
(* backends.                                                               *)
(***************************************************************************)
EXTENDS Process, TLC

SomeArguments ==
    UNION {[1..n -> {"--config", "--version", "x"}] : n \in 0..3}

\* tbl with key set to value, and without key.
With(tbl, key, value) == (key :> value) @@ tbl

Without(tbl, key) == [k \in DOMAIN tbl \ {key} |-> tbl[k]]

Backend(name, models) ==
    [name     |-> StringNode(name),
     type     |-> StringNode("llamacpp"),
     base_url |-> StringNode(Http \o <<"x", ":", "y">>),
     models   |-> ArrayNode([i \in DOMAIN models |-> StringNode(models[i])])]

\* What an integer setting may be set to: the ends of its range, one beyond
\* them, and something that is not an integer.
Tries(s) ==
    {IntegerNode(s.min_val - 1), IntegerNode(s.min_val), IntegerNode(s.max_val),
     IntegerNode(s.max_val + 1), StringNode("x"), FloatingNode({5})}

SetEach(tbl, settings) ==
    UNION {{With(tbl, key, v) : v \in Tries(settings[key])} : key \in DOMAIN settings}

Misspelt(tbl) == With(tbl, "misspelt", IntegerNode(1))

Urls ==
    {StringNode(scheme \o authority \o path) :
        scheme \in {<<>>, Http, Https},
        authority \in {<<>>, <<"x">>, <<":", "y">>, <<"x", ":">>, <<"x", ":", "y">>,
                       <<"x", ":", "y", ":", "x">>},
        path \in {<<>>, <<"/", "y", ":", "x">>, <<"/", "/">>}}

BackendTables ==
    LET ok == Backend("a", <<"m">>)
    IN  SetEach(ok, BackendSettings)
        \cup {Misspelt(ok)}
        \cup {Without(ok, key) : key \in DOMAIN ok}
        \cup {With(ok, key, IntegerNode(1)) : key \in DOMAIN ok}
        \cup {With(ok, "type", StringNode(t)) : t \in {"vllm", "ollama", "tgi"}}
        \cup {With(ok, "base_url", url) : url \in Urls}
        \cup {With(ok, "models", ArrayNode(a)) : a \in {<<>>, <<IntegerNode(1)>>}}

SomeModels == UNION {[1..n -> {"m", "n"}] : n \in 1..2}

\* Lists of backends: one of any kind, or two and three that share models.
BackendLists ==
    {<<TableNode(t)>> : t \in BackendTables}
    \cup {<<TableNode(Backend("a", ms)), TableNode(Backend(name, ns))>> :
             name \in {"a", "b"}, ms \in SomeModels, ns \in SomeModels}
    \cup {<<TableNode(Backend("a", <<"m">>)), TableNode(Backend("b", <<"n">>)),
            TableNode(Backend("c", <<"m", "o">>))>>,
          <<>>, <<IntegerNode(1)>>}

Sections ==
    LET Given(name, tables) == {(name :> TableNode(t)) : t \in tables}
                               \cup {(name :> IntegerNode(1))}
    IN  Given("server", SetEach(NoKeys, ServerSettings) \cup {Misspelt(NoKeys)}
                        \cup {[listen |-> v] : v \in {StringNode("127.0.0.1"), IntegerNode(1),
                                                      StringNode("not an address")}})
        \cup Given("metrics", SetEach(NoKeys, MetricsSettings) \cup {Misspelt(NoKeys)})
        \cup Given("routing", SetEach(NoKeys, RoutingSettings) \cup {Misspelt(NoKeys)}
                        \cup {[policy |-> v] : v \in {StringNode("round_robin"), IntegerNode(1),
                                                      StringNode("random")}}
                        \cup {[load_threshold |-> v] :
                                v \in {FloatingNode({-1}), FloatingNode({0}), FloatingNode({10}),
                                       FloatingNode({11}), FloatingNode({}), IntegerNode(1),
                                       IntegerNode(2), StringNode("x")}})
        \cup {("misspelt" :> IntegerNode(1))}

Good == [backends |-> ArrayNode(<<TableNode(Backend("a", <<"m">>))>>)]

Roots ==
    {[backends |-> ArrayNode(l)] : l \in BackendLists}
    \cup {s @@ Good : s \in Sections}
    \cup {NoKeys, [backends |-> IntegerNode(1)]}

SomeFiles ==
    {[status |-> "parsed", root |-> r] : r \in Roots}
    \cup {[status |-> s, root |-> NoKeys] : s \in {"cannot be opened", "not TOML"}}
=============================================================================
