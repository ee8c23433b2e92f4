------------------------------- MODULE Config --------------------------------
(***************************************************************************)
(* From the text of the configuration to the values the gateway is built   *)
(* with: src/src/config.cpp, and Target::parse() of upstream/client.cpp.   *)
(* toml++ has parsed the file; a TOML value is a record whose one field    *)
(* names its kind, and a table is a function from keys to values.          *)
(*                                                                         *)
(* A floating-point number is the set that holds it, in tenths.  NaN is    *)
(* the empty set: every comparison with it is false.                       *)
(*                                                                         *)
(* A function that throws ConfigError is modelled by the condition under   *)
(* which it returns; messages are left out.                                *)
(***************************************************************************)
EXTENDS Integers, Sequences

StringNode(s)   == [string |-> s]
IntegerNode(i)  == [integer |-> i]
FloatingNode(d) == [floating |-> d]
ArrayNode(a)    == [array |-> a]
TableNode(t)    == [table |-> t]

Is(kind, node) == kind \in DOMAIN node

Has(tbl, key) == key \in DOMAIN tbl

NoKeys == [key \in {} |-> 0]

-----------------------------------------------------------------------------
(***************************************************************************)
(* The settings: integers with their defaults and ranges, by section       *)
(***************************************************************************)

Setting(dflt, min_val, max_val) == [dflt |-> dflt, min_val |-> min_val, max_val |-> max_val]

ServerSettings ==
    [port                   |-> Setting(8080, 1, 65535),
     max_concurrent_streams |-> Setting(256, 1, 1000000),
     queue_depth            |-> Setting(64, 0, 1000000),
     queue_timeout_ms       |-> Setting(5000, 0, 3600000),
     request_timeout_ms     |-> Setting(300000, 1, 86400000)]

MetricsSettings == [port |-> Setting(9090, 1, 65535)]

RoutingSettings == [prefix_bytes |-> Setting(1024, 1, 1048576)]

BackendSettings ==
    [max_in_flight      |-> Setting(8, 1, 1000000),
     health_interval_ms |-> Setting(2000, 100, 3600000),
     failure_threshold  |-> Setting(5, 1, 1000000),
     open_ms            |-> Setting(10000, 1, 3600000)]

-----------------------------------------------------------------------------
(***************************************************************************)
(* The typed getters                                                       *)
(***************************************************************************)

\* Mutation: keys that are not known are skipped.
MutRejectUnknownKeys(tbl, allowed) == TRUE

reject_unknown_keys(tbl, allowed) == DOMAIN tbl \subseteq allowed

req_string(tbl, key) == Has(tbl, key) /\ Is("string", tbl[key])

opt_string(tbl, key) == Has(tbl, key) => Is("string", tbl[key])

\* Mutation: the lower end of the range is not looked at.
MutOptInt(tbl, key, s) ==
    Has(tbl, key) => Is("integer", tbl[key]) /\ tbl[key].integer <= s.max_val

opt_int(tbl, key, s) ==
    Has(tbl, key) => /\ Is("integer", tbl[key])
                     /\ tbl[key].integer \in s.min_val .. s.max_val

\* A number, given as an integer or not, as a double.
AsDouble(node) == IF Is("floating", node) THEN node.floating ELSE {10 * node.integer}

\* In tenths.  NaN is neither below the range nor above it.
opt_double(tbl, key, min_val, max_val) ==
    Has(tbl, key) =>
        /\ Is("floating", tbl[key]) \/ Is("integer", tbl[key])
        /\ \A v \in AsDouble(tbl[key]) : ~(v < min_val \/ v > max_val)

opt_ints(tbl, settings) == \A key \in DOMAIN settings : opt_int(tbl, key, settings[key])

\* What the getters return.
StringOr(tbl, key, dflt) == IF Has(tbl, key) THEN tbl[key].string ELSE dflt

IntegersOf(tbl, settings) ==
    [key \in DOMAIN settings |->
        IF Has(tbl, key) THEN tbl[key].integer ELSE settings[key].dflt]

-----------------------------------------------------------------------------
(***************************************************************************)
(* The sections                                                            *)
(***************************************************************************)

\* The section's table, empty when the section is absent ("all defaults").
Section(root, name) == IF Has(root, name) THEN root[name].table ELSE NoKeys

SectionIsTable(root, name) == Has(root, name) => Is("table", root[name])

parse_server(root) ==
    /\ SectionIsTable(root, "server")
    /\ LET tbl == Section(root, "server")
       IN  /\ reject_unknown_keys(tbl, {"listen"} \cup DOMAIN ServerSettings)
           /\ opt_string(tbl, "listen")
           /\ opt_ints(tbl, ServerSettings)

parse_metrics(root) ==
    /\ SectionIsTable(root, "metrics")
    /\ LET tbl == Section(root, "metrics")
       IN  /\ reject_unknown_keys(tbl, DOMAIN MetricsSettings)
           /\ opt_ints(tbl, MetricsSettings)

\* parse_policy() and parse_backend_type() know these.
Policies == {"prefix_affinity", "round_robin"}

BackendTypes == {"vllm", "llamacpp", "ollama"}

parse_routing(root) ==
    /\ SectionIsTable(root, "routing")
    /\ LET tbl == Section(root, "routing")
       IN  /\ reject_unknown_keys(tbl, {"policy", "load_threshold"} \cup DOMAIN RoutingSettings)
           /\ opt_string(tbl, "policy")
           /\ StringOr(tbl, "policy", "prefix_affinity") \in Policies
           /\ opt_ints(tbl, RoutingSettings)
           /\ opt_double(tbl, "load_threshold", 0, 10)

\* One [[backends]] entry.
parse_backend(tbl) ==
    /\ reject_unknown_keys(tbl, {"name", "type", "base_url", "models"} \cup DOMAIN BackendSettings)
    /\ req_string(tbl, "name")
    /\ req_string(tbl, "type")
    /\ tbl["type"].string \in BackendTypes
    /\ req_string(tbl, "base_url")
    /\ Has(tbl, "models") /\ Is("array", tbl["models"]) /\ tbl["models"].array # <<>>
    /\ \A i \in DOMAIN tbl["models"].array : Is("string", tbl["models"].array[i])
    /\ opt_ints(tbl, BackendSettings)

parse_backends(root) ==
    /\ Has(root, "backends")
    /\ Is("array", root["backends"]) /\ root["backends"].array # <<>>
    /\ LET arr == root["backends"].array
       IN  /\ \A i \in DOMAIN arr : Is("table", arr[i])
           /\ \A i \in DOMAIN arr : parse_backend(arr[i].table)
           /\ \A i, j \in DOMAIN arr :
                 i # j => arr[i].table["name"].string # arr[j].table["name"].string

\* The members of f and those of g.
Join(f, g) ==
    [key \in DOMAIN f \cup DOMAIN g |-> IF key \in DOMAIN f THEN f[key] ELSE g[key]]

\* BackendConfig, ServerConfig ... Config, filled in by the parsers.
BackendConfig(tbl) ==
    Join([name     |-> tbl["name"].string,
          type     |-> tbl["type"].string,
          base_url |-> tbl["base_url"].string,
          models   |-> [i \in DOMAIN tbl["models"].array |-> tbl["models"].array[i].string]],
         IntegersOf(tbl, BackendSettings))

ConfigOf(root) ==
    LET routing == Section(root, "routing")
        server  == Section(root, "server")
    IN  [server   |-> Join([listen |-> StringOr(server, "listen", "0.0.0.0")],
                           IntegersOf(server, ServerSettings)),
         metrics  |-> IntegersOf(Section(root, "metrics"), MetricsSettings),
         routing  |-> Join([policy         |-> StringOr(routing, "policy", "prefix_affinity"),
                            load_threshold |-> IF Has(routing, "load_threshold")
                                               THEN AsDouble(routing["load_threshold"]) ELSE {8}],
                           IntegersOf(routing, RoutingSettings)),
         backends |-> [i \in DOMAIN root["backends"].array |->
                          BackendConfig(root["backends"].array[i].table)]]

\* validate(): whether it returns; it returns ConfigOf(root).
validate(root) ==
    /\ reject_unknown_keys(root, {"server", "metrics", "routing", "backends"})
    /\ parse_server(root)
    /\ parse_metrics(root)
    /\ parse_routing(root)
    /\ parse_backends(root)

\* load_file(): a file that cannot be opened, or is not TOML, is a ConfigError too.
load_file(file) == file.status = "parsed" /\ validate(file.root)

-----------------------------------------------------------------------------
(***************************************************************************)
(* base_url.  A URL is a sequence of tokens: the words "http" and "https", *)
(* ":", "/", and any other text as "x" or "y".                             *)
(***************************************************************************)

StartsWith(s, prefix) == Len(s) >= Len(prefix) /\ SubSeq(s, 1, Len(prefix)) = prefix

\* find(): what stands before the first t of s, or all of s.
Before(s, t) ==
    LET at == {i \in DOMAIN s : s[i] = t}
    IN  IF at = {} THEN s
        ELSE SubSeq(s, 1, (CHOOSE i \in at : \A j \in at : i <= j) - 1)

Http == <<"http", ":", "/", "/">>

Https == <<"https", ":", "/", "/">>

WithoutScheme(url) ==
    IF StartsWith(url, Http) THEN SubSeq(url, Len(Http) + 1, Len(url)) ELSE url

\* "host" or "host:port"; the port is 80 when none is given.
HostAndPort(s) ==
    LET host == Before(s, ":")
    IN  [host |-> host,
         port |-> IF host = s THEN <<"80">> ELSE SubSeq(s, Len(host) + 2, Len(s))]

\* Mutation: host and port are told apart before the path is cut off.
MutTarget(url) ==
    LET t == HostAndPort(WithoutScheme(url))
    IN  [host |-> Before(t.host, "/"), port |-> Before(t.port, "/")]

Target(url) == HostAndPort(Before(WithoutScheme(url), "/"))

\* Whether Target::parse() returns; it returns Target(url).
TargetParses(url) ==
    ~StartsWith(url, Https) /\ Target(url).host # <<>> /\ Target(url).port # <<>>
=============================================================================
