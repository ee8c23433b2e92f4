------------------------------- MODULE Startup -------------------------------
(***************************************************************************)
(* main() up to ioc.run(): the arguments, the configuration, the Gateway   *)
(* with its backends, and the address to listen on; and GET /v1/models,    *)
(* whose answer is fixed here.  Everything is sequential; what can go      *)
(* wrong is what the file says.                                            *)
(***************************************************************************)
EXTENDS Config, FiniteSets

CONSTANTS
    Arguments,    \* command lines
    Files         \* what --config may name: [status |-> ..., root |-> ...]

\* What toml++ returns: a value is of one kind, a number is one, and an array is
\* a sequence.
IsNode(node) ==
    /\ \E kind \in DOMAIN node : DOMAIN node = {kind}
    /\ Is("integer", node) => node.integer \in Int
    /\ Is("floating", node) => node.floating \subseteq Int

IsTable(tbl) == \A key \in DOMAIN tbl : IsNode(tbl[key])

IsSequence(s) == s \in Seq({s[i] : i \in DOMAIN s})

IsArray(arr) == IsSequence(arr) /\ \A i \in DOMAIN arr : IsNode(arr[i])

\* A [[backends]] entry; its base_url is a text.
IsBackendTable(tbl) ==
    /\ IsTable(tbl)
    /\ Has(tbl, "models") /\ Is("array", tbl["models"]) => IsArray(tbl["models"].array)
    /\ req_string(tbl, "base_url") => IsSequence(tbl["base_url"].string)

\* As deep as the parsers look.
IsTree(tree) ==
    /\ IsTable(tree)
    /\ \A key \in DOMAIN tree :
          /\ Is("table", tree[key]) => IsTable(tree[key].table)
          /\ Is("array", tree[key]) =>
                LET arr == tree[key].array
                IN  IsArray(arr) /\ \A i \in DOMAIN arr :
                        Is("table", arr[i]) => IsBackendTable(arr[i].table)

ASSUME FilesAssumption == \A file \in Files : file.status = "parsed" => IsTree(file.root)

VARIABLES
    stage,      \* "args", "load", "loaded", "built", "running", or main() has
                \* returned: "exit 0", "exit 1", "exit 2"
    argv,       \* the command line
    root,       \* the parsed file
    cfg,        \* Config: sequences of one, <<>> before load_file() returns
    targets     \* Backend::client's Target, for each backend

mainVars == <<stage, argv, root, cfg, targets>>

MainInit ==
    /\ stage = "args"
    /\ argv \in Arguments
    /\ root = NoKeys
    /\ cfg = <<>>
    /\ targets = <<>>

\* The loop over argv: "asked" (--version or --help), "path" or "none".
Argument ==
    LET n == Len(argv)
        from[i \in 1..(n + 2)] ==
            IF i > n THEN "none"
            ELSE IF argv[i] = "--config" /\ i < n
                 THEN IF from[i + 2] = "asked" THEN "asked" ELSE "path"
            ELSE IF argv[i] \in {"--version", "--help"} THEN "asked"
            ELSE from[i + 1]
    IN  from[1]

\* main() returns at once after --version or --help, and without a path.
ReadArguments ==
    /\ stage = "args"
    /\ stage' = CASE Argument = "path"  -> "load"
                  [] Argument = "asked" -> "exit 0"
                  [] OTHER              -> "exit 2"
    /\ argv' = <<>>
    /\ UNCHANGED <<root, cfg, targets>>

\* load_file(); a ConfigError ends main() with 2.
Load(file) ==
    /\ stage = "load"
    /\ \/ /\ load_file(file)
          /\ stage' = "loaded"
          /\ root' = file.root
          /\ cfg' = <<ConfigOf(file.root)>>
       \/ /\ ~load_file(file)
          /\ stage' = "exit 2"
          /\ UNCHANGED <<root, cfg>>
    /\ UNCHANGED <<argv, targets>>

\* Gateway::Gateway(); an exception of Target::parse() ends main() with 1.
Build ==
    /\ stage = "loaded"
    /\ LET backends == cfg[1].backends
       IN  \/ /\ \A i \in DOMAIN backends : TargetParses(backends[i].base_url)
              /\ targets' = [i \in DOMAIN backends |-> Target(backends[i].base_url)]
              /\ stage' = "built"
           \/ /\ \E i \in DOMAIN backends : ~TargetParses(backends[i].base_url)
              /\ stage' = "exit 1"
              /\ UNCHANGED targets
    /\ UNCHANGED <<argv, root, cfg>>

\* make_address(), of Asio.
IsAddress(listen) == listen # "not an address"

\* make_address() and ioc.run(); an exception ends main() with 1.  What the
\* other modules take as constants is not kept.
Start ==
    /\ stage = "built"
    /\ stage' = IF IsAddress(cfg[1].server.listen) THEN "running" ELSE "exit 1"
    /\ root' = NoKeys
    /\ cfg' = <<>>
    /\ targets' = <<>>
    /\ UNCHANGED argv

-----------------------------------------------------------------------------
(***************************************************************************)
(* Which models there are                                                  *)
(***************************************************************************)

\* handle_models(): the ids of the cards, the backends' models one by one
\* unless they have been seen.
handle_models(backends) ==
    LET n == Len(backends)
        all[i \in 0..n] == IF i = 0 THEN <<>> ELSE all[i - 1] \o backends[i].models
        ids == all[n]
        seen[i \in 0..Len(ids)] ==
            IF i = 0 THEN <<>>
            ELSE IF \E j \in DOMAIN seen[i - 1] : seen[i - 1][j] = ids[i] THEN seen[i - 1]
            ELSE Append(seen[i - 1], ids[i])
    IN  seen[Len(ids)]

\* backends_for_model(): config indices.
backends_for_model(backends, model) ==
    {i \in DOMAIN backends : \E k \in DOMAIN backends[i].models : backends[i].models[k] = model}

-----------------------------------------------------------------------------
(***************************************************************************)
(* Properties                                                              *)
(***************************************************************************)

\* /v1/models lists exactly the models that some backend serves, each of them
\* once however many backends serve it, and in the order of the first backends
\* that do ("first-seen").
ModelsAreServable(b) ==
    LET ids == handle_models(b)
        all == UNION {{b[i].models[k] : k \in DOMAIN b[i].models} : i \in DOMAIN b}
        by[m \in all] == CHOOSE i \in backends_for_model(b, m) :
                            \A j \in backends_for_model(b, m) : i <= j
    IN  /\ {ids[k] : k \in DOMAIN ids} = all
        /\ Len(ids) = Cardinality(all)
        /\ \A k, l \in DOMAIN ids : k < l => by[ids[k]] <= by[ids[l]]

\* A configuration that validate() lets through gives the other modules the
\* constants they assume: the gate admits someone, no limiter or breaker is
\* stuck from the start, the probe loop waits between rounds, an affinity key
\* has at least a byte, names tell backends apart in the metrics, and every
\* model that /v1/models offers can be asked for.  The load guard's threshold is
\* a fraction in 0..1 or else NaN, which opt_double() takes for in range and
\* Routing does not assume: NaN is the one value out of range that is accepted.
AcceptedIsUsable ==
    stage = "loaded" =>
        LET c == cfg[1]
            b == c.backends
        IN  /\ c.server.max_concurrent_streams >= 1 /\ c.server.queue_depth >= 0
            /\ c.routing.prefix_bytes >= 1
            /\ \A v \in c.routing.load_threshold : 0 <= v /\ v <= 10
            /\ b # <<>>
            /\ \A i \in DOMAIN b : /\ b[i].max_in_flight >= 1
                                   /\ b[i].failure_threshold >= 1 /\ b[i].open_ms >= 1
                                   /\ b[i].health_interval_ms >= 100
                                   /\ b[i].models # <<>>
            /\ Cardinality({b[i].name : i \in DOMAIN b}) = Len(b)
            /\ ModelsAreServable(b)

\* validate() reads the whole file: each key of each section is a member of
\* Config with exactly the value given, so that a misspelt key is an error and
\* never a default.  That a member is then used is not said, and is not so:
\* nothing reads ServerConfig::request_timeout_ms.
EverySettingIsRead ==
    stage = "loaded" =>
        LET Kept(tbl, values) ==
                \A key \in DOMAIN tbl :
                    /\ key \in DOMAIN values
                    /\ IF key = "load_threshold" THEN values[key] = AsDouble(tbl[key])
                       ELSE IF Is("integer", tbl[key]) THEN values[key] = tbl[key].integer
                       ELSE Is("string", tbl[key]) => values[key] = tbl[key].string
        IN  /\ DOMAIN root \subseteq DOMAIN cfg[1]
            /\ \A s \in {"server", "metrics", "routing"} : Kept(Section(root, s), cfg[1][s])
            /\ \A i \in DOMAIN root["backends"].array :
                  Kept(root["backends"].array[i].table, cfg[1].backends[i])

\* The texts a URL can be put together from.
Words == {<<"x">>, <<"y">>, <<"x", "y">>}

Paths == {<<>>, <<"/">>, <<"/", "y">>, <<"/", "y", ":", "x">>, <<"/", "/">>}

\* Every backend is dialled where its base_url says: for a URL of the form
\* http://host, http://host:port or host:port, with any path behind it, the
\* host and the port are those written (80 if there is none); whatever else is
\* accepted has no "/" in either.
TargetIsTheAuthority ==
    stage = "built" => \A i \in DOMAIN targets :
        LET url == cfg[1].backends[i].base_url
            t   == targets[i]
        IN  /\ \A scheme \in {<<>>, Http}, host \in Words, path \in Paths :
                  /\ url = scheme \o host \o path => t = [host |-> host, port |-> <<"80">>]
                  /\ \A port \in Words : url = scheme \o host \o <<":">> \o port \o path =>
                        t = [host |-> host, port |-> port]
            /\ \A k \in DOMAIN t.host : t.host[k] \notin {"/", ":"}
            /\ \A k \in DOMAIN t.port : t.port[k] # "/"
=============================================================================
