---------------------------- MODULE Process_proofs ----------------------------
(***************************************************************************)
(* Theorems about Process: for any number of connections, any command      *)
(* line, and any configuration file.                                       *)
(***************************************************************************)
EXTENDS Process, FiniteSetTheorems, WellFoundedInduction, NaturalsInduction, TLAPS

-----------------------------------------------------------------------------
(***************************************************************************)
(* What the parsers return                                                 *)
(***************************************************************************)

\* The values of the left operand of Join come first.
LEMMA Joined ==
    ASSUME NEW f, NEW g
    PROVE  /\ DOMAIN Join(f, g) = DOMAIN f \cup DOMAIN g
           /\ \A x \in DOMAIN f : Join(f, g)[x] = f[x]
           /\ \A x \in DOMAIN g \ DOMAIN f : Join(f, g)[x] = g[x]
BY DEF Join

\* An integer setting has the value given, or its default.
LEMMA IntegersGiven ==
    ASSUME NEW tbl, NEW settings, NEW key \in DOMAIN settings
    PROVE  /\ DOMAIN IntegersOf(tbl, settings) = DOMAIN settings
           /\ Has(tbl, key) => IntegersOf(tbl, settings)[key] = tbl[key].integer
           /\ ~Has(tbl, key) => IntegersOf(tbl, settings)[key] = settings[key].dflt
BY DEF IntegersOf

\* A value of one kind is of no other.
LEMMA OneKind ==
    ASSUME NEW tbl, IsTable(tbl), NEW key \in DOMAIN tbl, NEW k1, NEW k2,
           Is(k1, tbl[key]), Is(k2, tbl[key])
    PROVE  k1 = k2
<1>1. PICK kind : DOMAIN (tbl[key]) = {kind}
  BY Zenon DEF IsTable, IsNode
<1> QED
  BY <1>1 DEF Is

\* The value of key was taken over from the table.
KeptValue(tbl, values, key) ==
    /\ key \in DOMAIN values
    /\ IF key = "load_threshold" THEN values[key] = AsDouble(tbl[key])
       ELSE IF Is("integer", tbl[key]) THEN values[key] = tbl[key].integer
       ELSE Is("string", tbl[key]) => values[key] = tbl[key].string

\* ... as it is for every integer setting,
LEMMA IntegerKept ==
    ASSUME NEW tbl, NEW settings, NEW key \in DOMAIN settings,
           key \in DOMAIN tbl, opt_ints(tbl, settings), key # "load_threshold"
    PROVE  KeptValue(tbl, IntegersOf(tbl, settings), key)
<1>1. /\ DOMAIN IntegersOf(tbl, settings) = DOMAIN settings
      /\ IntegersOf(tbl, settings)[key] = tbl[key].integer
  BY IntegersGiven DEF Has
<1>2. Is("integer", tbl[key])
  BY DEF opt_ints, opt_int, Has
<1> QED
  BY <1>1, <1>2 DEF KeptValue

\* and for every string,
LEMMA StringKept ==
    ASSUME NEW tbl, IsTable(tbl), NEW f, NEW key \in DOMAIN tbl,
           key \in DOMAIN f, f[key] = tbl[key].string, Is("string", tbl[key]),
           key # "load_threshold"
    PROVE  KeptValue(tbl, f, key)
<1>1. ~Is("integer", tbl[key])
  BY OneKind
<1> QED
  BY <1>1 DEF KeptValue

\* also when the values of two groups of settings are joined.
LEMMA JoinKeeps ==
    ASSUME NEW tbl, NEW f, NEW g, NEW key,
           \/ KeptValue(tbl, f, key)
           \/ KeptValue(tbl, g, key) /\ key \notin DOMAIN f
    PROVE  KeptValue(tbl, Join(f, g), key)
<1>1. CASE KeptValue(tbl, f, key)
  <2>1. key \in DOMAIN f
    BY <1>1 DEF KeptValue
  <2>2. key \in DOMAIN Join(f, g) /\ Join(f, g)[key] = f[key]
    BY <2>1 DEF Join
  <2> QED
    BY <1>1, <2>2 DEF KeptValue
<1>2. CASE KeptValue(tbl, g, key) /\ key \notin DOMAIN f
  <2>1. key \in DOMAIN g
    BY <1>2 DEF KeptValue
  <2>2. key \in DOMAIN Join(f, g) /\ Join(f, g)[key] = g[key]
    BY <2>1, <1>2 DEF Join
  <2> QED
    BY <1>2, <2>2 DEF KeptValue
<1> QED
  BY <1>1, <1>2

\* A section is a table, given or not.
LEMMA SectionTable ==
    ASSUME NEW tree, IsTree(tree), NEW s, SectionIsTable(tree, s)
    PROVE  IsTable(Section(tree, s))
<1>1. CASE Has(tree, s)
  BY <1>1 DEF IsTree, SectionIsTable, Section, Has
<1>2. CASE ~Has(tree, s)
  BY <1>2 DEF Section, NoKeys, IsTable
<1> QED
  BY <1>1, <1>2

\* [server]
LEMMA ServerKept ==
    ASSUME NEW tree, IsTree(tree), parse_server(tree),
           NEW key \in DOMAIN Section(tree, "server")
    PROVE  KeptValue(Section(tree, "server"), ConfigOf(tree).server, key)
<1> DEFINE tbl == Section(tree, "server")
           f == [listen |-> StringOr(tbl, "listen", "0.0.0.0")]
           g == IntegersOf(tbl, ServerSettings)
<1>1. ConfigOf(tree).server = Join(f, g)
  BY DEF ConfigOf
<1>2. /\ IsTable(tbl) /\ opt_string(tbl, "listen") /\ opt_ints(tbl, ServerSettings)
      /\ key \in {"listen"} \cup DOMAIN ServerSettings
  BY SectionTable DEF parse_server, reject_unknown_keys
<1>3. DOMAIN f = {"listen"} /\ f["listen"] = StringOr(tbl, "listen", "0.0.0.0")
  OBVIOUS
<1>4. "listen" \notin DOMAIN ServerSettings /\ "load_threshold" \notin DOMAIN ServerSettings
  BY DEF ServerSettings
<1>5. key \in DOMAIN tbl
  OBVIOUS
<1> HIDE DEF tbl, f, g
<1>6. CASE key = "listen"
  <2>1. f[key] = tbl[key].string /\ Is("string", tbl[key])
    BY <1>2, <1>3, <1>5, <1>6 DEF StringOr, Has, opt_string
  <2>2. KeptValue(tbl, f, key)
    BY <2>1, <1>2, <1>3, <1>5, <1>6, StringKept
  <2> QED
    BY <1>1, <2>2, JoinKeeps DEF tbl
<1>7. CASE key \in DOMAIN ServerSettings
  <2>1. KeptValue(tbl, g, key) /\ key \notin DOMAIN f
    BY <1>2, <1>3, <1>4, <1>5, <1>7, IntegerKept DEF g
  <2> QED
    BY <1>1, <2>1, JoinKeeps DEF tbl
<1> QED
  BY <1>2, <1>6, <1>7

\* [metrics]
LEMMA MetricsKept ==
    ASSUME NEW tree, IsTree(tree), parse_metrics(tree),
           NEW key \in DOMAIN Section(tree, "metrics")
    PROVE  KeptValue(Section(tree, "metrics"), ConfigOf(tree).metrics, key)
<1>1. ConfigOf(tree).metrics = IntegersOf(Section(tree, "metrics"), MetricsSettings)
  BY DEF ConfigOf
<1>2. /\ opt_ints(Section(tree, "metrics"), MetricsSettings)
      /\ key \in DOMAIN MetricsSettings
  BY DEF parse_metrics, reject_unknown_keys
<1>3. "load_threshold" \notin DOMAIN MetricsSettings
  BY DEF MetricsSettings
<1> QED
  BY <1>1, <1>2, <1>3, IntegerKept

\* [routing]
LEMMA RoutingKept ==
    ASSUME NEW tree, IsTree(tree), parse_routing(tree),
           NEW key \in DOMAIN Section(tree, "routing")
    PROVE  KeptValue(Section(tree, "routing"), ConfigOf(tree).routing, key)
<1> DEFINE tbl == Section(tree, "routing")
           policy == StringOr(tbl, "policy", "prefix_affinity")
           threshold == IF Has(tbl, "load_threshold") THEN AsDouble(tbl["load_threshold"]) ELSE {8}
           f == [policy |-> policy, load_threshold |-> threshold]
           g == IntegersOf(tbl, RoutingSettings)
<1>1. ConfigOf(tree).routing = Join(f, g)
  BY DEF ConfigOf
<1>2. /\ IsTable(tbl) /\ opt_string(tbl, "policy") /\ opt_ints(tbl, RoutingSettings)
      /\ key \in {"policy", "load_threshold"} \cup DOMAIN RoutingSettings
  BY SectionTable DEF parse_routing, reject_unknown_keys
<1>3. /\ DOMAIN f = {"policy", "load_threshold"}
      /\ f["policy"] = policy /\ f["load_threshold"] = threshold
  OBVIOUS
<1>4. "policy" \notin DOMAIN RoutingSettings /\ "load_threshold" \notin DOMAIN RoutingSettings
  BY DEF RoutingSettings
<1>5. key \in DOMAIN tbl
  OBVIOUS
<1>6. ASSUME key = "load_threshold" PROVE threshold = AsDouble(tbl[key])
  BY <1>5, <1>6 DEF Has
<1>7. ASSUME key = "policy" PROVE policy = tbl[key].string /\ Is("string", tbl[key])
  BY <1>2, <1>5, <1>7 DEF Has, StringOr, opt_string
<1> HIDE DEF tbl, policy, threshold, f, g
<1>8. CASE key = "policy"
  <2>1. KeptValue(tbl, f, key)
    BY <1>2, <1>3, <1>5, <1>7, <1>8, StringKept
  <2> QED
    BY <1>1, <2>1, JoinKeeps DEF tbl
<1>9. CASE key = "load_threshold"
  <2>1. KeptValue(tbl, f, key)
    BY <1>3, <1>6, <1>9 DEF KeptValue
  <2> QED
    BY <1>1, <2>1, JoinKeeps DEF tbl
<1>10. CASE key \in DOMAIN RoutingSettings
  <2>1. KeptValue(tbl, g, key) /\ key \notin DOMAIN f
    BY <1>2, <1>3, <1>4, <1>5, <1>10, IntegerKept DEF g
  <2> QED
    BY <1>1, <2>1, JoinKeeps DEF tbl
<1> QED
  BY <1>2, <1>8, <1>9, <1>10

\* [[backends]]
LEMMA BackendKept ==
    ASSUME NEW tbl, IsTable(tbl), parse_backend(tbl), NEW key \in DOMAIN tbl
    PROVE  KeptValue(tbl, BackendConfig(tbl), key)
<1> DEFINE models == [i \in DOMAIN tbl["models"].array |-> tbl["models"].array[i].string]
           f == [name |-> tbl["name"].string, type |-> tbl["type"].string,
                 base_url |-> tbl["base_url"].string, models |-> models]
           g == IntegersOf(tbl, BackendSettings)
<1>1. BackendConfig(tbl) = Join(f, g)
  BY DEF BackendConfig
<1>2. /\ Is("string", tbl["name"]) /\ Is("string", tbl["type"]) /\ Is("string", tbl["base_url"])
      /\ Is("array", tbl["models"]) /\ opt_ints(tbl, BackendSettings)
      /\ key \in {"name", "type", "base_url", "models"} \cup DOMAIN BackendSettings
  BY DEF parse_backend, reject_unknown_keys, req_string
<1>3. /\ DOMAIN f = {"name", "type", "base_url", "models"}
      /\ f["name"] = tbl["name"].string /\ f["type"] = tbl["type"].string
      /\ f["base_url"] = tbl["base_url"].string
  OBVIOUS
<1>4. /\ DOMAIN BackendSettings \cap {"name", "type", "base_url", "models"} = {}
      /\ "load_threshold" \notin DOMAIN BackendSettings
  BY DEF BackendSettings
<1> HIDE DEF models, f, g
<1>5. CASE key \in {"name", "type", "base_url"}
  <2>1. f[key] = tbl[key].string /\ Is("string", tbl[key]) /\ key # "load_threshold"
    BY <1>2, <1>3, <1>5
  <2>2. KeptValue(tbl, f, key)
    BY <2>1, <1>3, <1>5, StringKept
  <2> QED
    BY <1>1, <2>2, JoinKeeps
<1>6. CASE key = "models"
  <2>1. ~Is("integer", tbl[key]) /\ ~Is("string", tbl[key])
    BY <1>2, <1>6, OneKind
  <2>2. KeptValue(tbl, f, key)
    BY <2>1, <1>3, <1>6 DEF KeptValue
  <2> QED
    BY <1>1, <2>2, JoinKeeps
<1>7. CASE key \in DOMAIN BackendSettings
  <2>1. KeptValue(tbl, g, key) /\ key \notin DOMAIN f
    BY <1>2, <1>3, <1>4, <1>7, IntegerKept DEF g
  <2> QED
    BY <1>1, <2>1, JoinKeeps
<1> QED
  BY <1>2, <1>5, <1>6, <1>7

\* What parse_backends() has looked at.
LEMMA BackendTable ==
    ASSUME NEW tree, IsTree(tree), parse_backends(tree),
           NEW i \in DOMAIN tree["backends"].array
    PROVE  /\ IsBackendTable(tree["backends"].array[i].table)
           /\ parse_backend(tree["backends"].array[i].table)
           /\ IsArray(tree["backends"].array)
BY DEF IsTree, parse_backends, Has

\* Every key of a file that validate() accepts is a setting with the value given.
LEMMA EveryKeyKept ==
    ASSUME NEW tree, IsTree(tree), validate(tree)
    PROVE  /\ DOMAIN tree \subseteq DOMAIN ConfigOf(tree)
           /\ \A s \in {"server", "metrics", "routing"} : \A key \in DOMAIN Section(tree, s) :
                 KeptValue(Section(tree, s), ConfigOf(tree)[s], key)
           /\ \A i \in DOMAIN tree["backends"].array :
                 \A key \in DOMAIN tree["backends"].array[i].table :
                    KeptValue(tree["backends"].array[i].table, ConfigOf(tree).backends[i], key)
<1>1. /\ DOMAIN tree \subseteq {"server", "metrics", "routing", "backends"}
      /\ parse_server(tree) /\ parse_metrics(tree) /\ parse_routing(tree) /\ parse_backends(tree)
  BY DEF validate, reject_unknown_keys
<1>2. DOMAIN ConfigOf(tree) = {"server", "metrics", "routing", "backends"}
  BY DEF ConfigOf
<1>3. ASSUME NEW s \in {"server", "metrics", "routing"}, NEW key \in DOMAIN Section(tree, s)
      PROVE  KeptValue(Section(tree, s), ConfigOf(tree)[s], key)
  <2>1. CASE s = "server"
    BY <1>1, <1>3, <2>1, ServerKept
  <2>2. CASE s = "metrics"
    BY <1>1, <1>3, <2>2, MetricsKept
  <2>3. CASE s = "routing"
    BY <1>1, <1>3, <2>3, RoutingKept
  <2> QED
    BY <1>3, <2>1, <2>2, <2>3
<1>4. ASSUME NEW i \in DOMAIN tree["backends"].array,
             NEW key \in DOMAIN tree["backends"].array[i].table
      PROVE  KeptValue(tree["backends"].array[i].table, ConfigOf(tree).backends[i], key)
  <2>1. ConfigOf(tree).backends[i] = BackendConfig(tree["backends"].array[i].table)
    BY DEF ConfigOf
  <2>2. IsTable(tree["backends"].array[i].table) /\ parse_backend(tree["backends"].array[i].table)
    BY <1>1, BackendTable DEF IsBackendTable
  <2> QED
    BY <2>1, <2>2, BackendKept, SMTT(30)
<1> QED
  BY <1>1, <1>2, <1>3, <1>4

-----------------------------------------------------------------------------
(***************************************************************************)
(* The invariant of main()                                                 *)
(***************************************************************************)

\* Between load_file() and ioc.run() the configuration is that of a file which
\* validate() accepts, and the targets are those of its backends.
MainInv ==
    /\ stage \in {"loaded", "built"} =>
          IsTree(root) /\ validate(root) /\ cfg = <<ConfigOf(root)>>
    /\ stage = "built" =>
          targets = [i \in DOMAIN cfg[1].backends |-> Target(cfg[1].backends[i].base_url)]

\* It holds when main() starts,
LEMMA InitMainInv == MainInit => MainInv
BY DEF MainInit, MainInv

MainSteps ==
    \/ ReadArguments
    \/ \E file \in Files : Load(file)
    \/ Build
    \/ Start
    \/ UNCHANGED mainVars

\* and every step of main() keeps it.
LEMMA MainStepsKeep == MainInv /\ MainSteps => MainInv'
<1> SUFFICES ASSUME MainInv, MainSteps PROVE MainInv'
  OBVIOUS
<1>1. CASE ReadArguments
  <2>1. stage' \notin {"loaded", "built"}
    BY <1>1, Zenon DEF ReadArguments
  <2> QED
    BY <2>1 DEF MainInv
<1>2. ASSUME NEW file \in Files, Load(file) PROVE MainInv'
  <2>1. CASE load_file(file) /\ stage' = "loaded"
    <3>1. IsTree(file.root) /\ validate(file.root)
      BY <2>1, FilesAssumption DEF load_file
    <3>2. root' = file.root /\ cfg' = <<ConfigOf(file.root)>>
      BY <1>2, <2>1 DEF Load
    <3> QED
      BY <2>1, <3>1, <3>2 DEF MainInv
  <2>2. CASE stage' = "exit 2"
    BY <2>2, Zenon DEF MainInv
  <2> QED
    BY <1>2, <2>1, <2>2, Zenon DEF Load
<1>3. CASE Build
  <2>1. stage = "loaded" /\ UNCHANGED <<root, cfg>>
    BY <1>3, Zenon DEF Build
  <2>2. \/ stage' = "built" /\ targets' = [i \in DOMAIN cfg[1].backends |->
                                              Target(cfg[1].backends[i].base_url)]
        \/ stage' = "exit 1"
    BY <1>3, Zenon DEF Build
  <2> QED
    BY <2>1, <2>2, Zenon DEF MainInv
<1>4. CASE Start
  <2>1. stage' \notin {"loaded", "built"}
    BY <1>4, Zenon DEF Start
  <2> QED
    BY <2>1 DEF MainInv
<1>5. CASE UNCHANGED mainVars
  BY <1>5 DEF mainVars, MainInv
<1> QED
  BY <1>1, <1>2, <1>3, <1>4, <1>5 DEF MainSteps

\* Every key of an accepted file is read.
LEMMA EverythingRead == MainInv => EverySettingIsRead
<1> SUFFICES ASSUME MainInv, stage = "loaded" PROVE EverySettingIsRead
  BY DEF EverySettingIsRead
<1>1. IsTree(root) /\ validate(root) /\ cfg[1] = ConfigOf(root)
  BY DEF MainInv
<1>2. /\ DOMAIN root \subseteq DOMAIN cfg[1]
      /\ \A s \in {"server", "metrics", "routing"} : \A key \in DOMAIN Section(root, s) :
            KeptValue(Section(root, s), cfg[1][s], key)
      /\ \A i \in DOMAIN root["backends"].array :
            \A key \in DOMAIN root["backends"].array[i].table :
               KeptValue(root["backends"].array[i].table, cfg[1].backends[i], key)
  BY <1>1, EveryKeyKept
<1> QED
  BY <1>2, ZenonT(60) DEF EverySettingIsRead, KeptValue

-----------------------------------------------------------------------------
(***************************************************************************)
(* base_url                                                                *)
(***************************************************************************)

\* Of natural numbers there is a least one.
LEMMA LeastOf ==
    ASSUME NEW S \in SUBSET Nat, S # {}
    PROVE  \E x \in S : \A y \in S : x <= y
<1> DEFINE Less == {p \in Nat \X Nat : p[1] < p[2]}
<1>1. IsWellFoundedOn(Less, Nat)
  BY NatLessThanWellFounded DEF OpToRel
<1>2. PICK x \in S : \A y \in S : ~ (<<y, x>> \in Less)
  BY <1>1, WFMin, Zenon
<1>3. \A y, z \in Nat : ~ (<<y, z>> \in Less) => z <= y
  OBVIOUS
<1>4. QED
  BY <1>2, <1>3, Zenon

\* Before() returns the part of s up to the first t.
LEMMA BeforeIs ==
    ASSUME NEW S, NEW s \in Seq(S), NEW t
    PROVE  LET a == Before(s, t)
           IN  /\ a \in Seq(S) /\ Len(a) <= Len(s)
               /\ \A k \in 1..Len(a) : a[k] = s[k] /\ a[k] # t
               /\ Len(a) < Len(s) => s[Len(a) + 1] = t
<1> DEFINE at == {i \in DOMAIN s : s[i] = t}
           first == CHOOSE i \in at : \A j \in at : i <= j
<1>1. CASE at = {}
  BY <1>1 DEF Before
<1>2. CASE at # {}
  <2>1. \E i \in at : \A j \in at : i <= j
    <3>1. at \in SUBSET Nat
      OBVIOUS
    <3> HIDE DEF at
    <3> QED
      BY <3>1, <1>2, LeastOf
  <2>2. first \in at /\ \A j \in at : first <= j
    BY <2>1, Zenon
  <2>3. Before(s, t) = SubSeq(s, 1, first - 1)
    BY <1>2, Zenon DEF Before
  <2>4. first \in 1..Len(s) /\ s[first] = t
    BY <2>2
  <2>5. ASSUME NEW k \in 1..(first - 1) PROVE s[k] # t
    BY <2>2, <2>4
  <2> HIDE DEF first, at
  <2>6. /\ SubSeq(s, 1, first - 1) \in Seq(S) /\ Len(SubSeq(s, 1, first - 1)) = first - 1
        /\ \A k \in 1..(first - 1) : SubSeq(s, 1, first - 1)[k] = s[k]
    BY <2>4
  <2> QED
    BY <2>3, <2>4, <2>5, <2>6
<1> QED
  BY <1>1, <1>2

\* ... so that it cuts off what begins with the first t.
LEMMA CutOff ==
    ASSUME NEW S, NEW a \in Seq(S), NEW b \in Seq(S), NEW t,
           \A k \in 1..Len(a) : a[k] # t,
           b = <<>> \/ b[1] = t
    PROVE  Before(a \o b, t) = a
<1> DEFINE s == a \o b
           c == Before(s, t)
<1>1. /\ s \in Seq(S) /\ Len(s) = Len(a) + Len(b)
      /\ \A k \in 1..Len(a) : s[k] = a[k]
      /\ Len(b) > 0 => s[Len(a) + 1] = b[1]
  OBVIOUS
<1> HIDE DEF s
<1>2. /\ c \in Seq(S) /\ Len(c) <= Len(s)
      /\ \A k \in 1..Len(c) : c[k] = s[k] /\ c[k] # t
      /\ Len(c) < Len(s) => s[Len(c) + 1] = t
  BY <1>1, BeforeIs, SMTT(30)
<1> HIDE DEF c
<1>3. ~(Len(c) < Len(a))
  <2> SUFFICES ASSUME Len(c) < Len(a) PROVE FALSE
    OBVIOUS
  <2>1. Len(c) + 1 \in 1..Len(a) /\ s[Len(c) + 1] = t
    BY <1>1, <1>2
  <2> QED
    BY <2>1, <1>1
<1>4. ~(Len(c) > Len(a))
  <2> SUFFICES ASSUME Len(c) > Len(a) PROVE FALSE
    OBVIOUS
  <2>1. Len(b) > 0 /\ Len(a) + 1 \in 1..Len(c)
    BY <1>1, <1>2
  <2>2. s[Len(a) + 1] # t /\ s[Len(a) + 1] = b[1] /\ b # <<>>
    BY <2>1, <1>1, <1>2
  <2> QED
    BY <2>2
<1>5. Len(c) = Len(a) /\ \A k \in 1..Len(a) : c[k] = a[k]
  BY <1>1, <1>2, <1>3, <1>4
<1>6. c = a
  BY <1>2, <1>5
<1> QED
  BY <1>6 DEF c, s

Strings == {"x", "y", "/", ":", "http"}

\* Of a host or a port.
LEMMA WordIs ==
    ASSUME NEW w \in Words
    PROVE  /\ w \in Seq(Strings) /\ Len(w) > 0
           /\ \A k \in 1..Len(w) : w[k] \in {"x", "y"}
<1>1. CASE w = <<"x">>
  BY <1>1 DEF Strings
<1>3. CASE w = <<"y">>
  BY <1>3 DEF Strings
<1>2. CASE w = <<"x", "y">>
  <2>1. Len(w) = 2 /\ w[1] = "x" /\ w[2] = "y" /\ w \in Seq(Strings)
    BY <1>2 DEF Strings
  <2> QED
    BY <2>1
<1> QED
  BY <1>1, <1>2, <1>3 DEF Words

\* Of a path.
LEMMA PathIs ==
    ASSUME NEW p \in Paths
    PROVE  p \in Seq(Strings) /\ (p = <<>> \/ p[1] = "/")
<1>1. CASE p = <<>>
  BY <1>1
<1>2. CASE p = <<"/">>
  BY <1>2 DEF Strings
<1>3. CASE p = <<"/", "y">>
  BY <1>3 DEF Strings
<1>5. CASE p = <<"/", "/">>
  BY <1>5 DEF Strings
<1>4. CASE p = <<"/", "y", ":", "x">>
  <2>1. "/" \in Strings /\ "y" \in Strings /\ ":" \in Strings /\ "x" \in Strings
    BY DEF Strings
  <2> QED
    BY <1>4, <2>1
<1> QED
  BY <1>1, <1>2, <1>3, <1>4, <1>5 DEF Paths

\* http:// is left out where it is.
LEMMA SchemeIsDropped ==
    ASSUME NEW scheme \in {<<>>, Http}, NEW w \in Words, NEW rest \in Seq(Strings)
    PROVE  WithoutScheme(scheme \o (w \o rest)) = w \o rest
<1> DEFINE s == w \o rest
<1>1. s \in Seq(Strings) /\ Len(s) > 0 /\ s[1] \in {"x", "y"}
  BY WordIs
<1> HIDE DEF s
<1>2. CASE scheme = <<>>
  <2>1. scheme \o s = s
    BY <1>1, <1>2
  <2>2. ~StartsWith(s, Http)
    <3> SUFFICES ASSUME SubSeq(s, 1, 4) = Http, Len(s) >= 4 PROVE FALSE
      BY DEF StartsWith, Http
    <3>1. SubSeq(s, 1, 4)[1] = s[1]
      BY <1>1
    <3>2. Http[1] = "http"
      BY DEF Http
    <3> QED
      BY <1>1, <3>1, <3>2
  <2> QED
    BY <2>1, <2>2 DEF WithoutScheme, s
<1>3. CASE scheme = Http
  <2>1. Http \in Seq(Strings) /\ Len(Http) = 4
    BY DEF Http, Strings
  <2> DEFINE u == Http \o s
  <2>2. /\ u \in Seq(Strings) /\ Len(u) = 4 + Len(s)
        /\ \A k \in 1..4 : u[k] = Http[k]
        /\ \A k \in 1..Len(s) : u[4 + k] = s[k]
    <3>1. /\ u \in Seq(Strings) /\ Len(u) = Len(Http) + Len(s)
          /\ \A k \in 1..Len(Http) : u[k] = Http[k]
          /\ \A k \in 1..Len(s) : u[Len(Http) + k] = s[k]
      <4>1. s \in Seq(Strings) /\ Http \in Seq(Strings)
        BY <1>1, <2>1
      <4> QED
        BY <4>1
    <3> QED
      BY <2>1, <3>1
  <2> HIDE DEF u
  <2>3. SubSeq(u, 1, 4) = Http
    BY <2>1, <2>2, <1>1
  <2>4. SubSeq(u, 5, Len(u)) = s
    <3>1. SubSeq(u, 5, Len(u)) \in Seq(Strings) /\ Len(SubSeq(u, 5, Len(u))) = Len(s)
      BY <2>2, <1>1
    <3>2. \A k \in 1..Len(s) : SubSeq(u, 5, Len(u))[k] = s[k]
      BY <2>2, <1>1
    <3> QED
      BY <1>1, <3>1, <3>2, SMTT(30)
  <2>5. WithoutScheme(u) = s
    BY <1>1, <2>1, <2>2, <2>3, <2>4 DEF WithoutScheme, StartsWith
  <2> QED
    BY <1>3, <2>5 DEF u, s
<1> QED
  BY <1>2, <1>3

\* A name with no port behind it.
LEMMA HostOnly ==
    ASSUME NEW w \in Words
    PROVE  HostAndPort(w) = [host |-> w, port |-> <<"80">>]
<1>1. w \in Seq(Strings) /\ \A k \in 1..Len(w) : w[k] # ":"
  BY WordIs
<1>2. Before(w \o <<>>, ":") = w
  <2>1. <<>> \in Seq(Strings)
    OBVIOUS
  <2> QED
    BY <1>1, <2>1, CutOff, Zenon
<1>3. w \o <<>> = w
  BY <1>1
<1> QED
  BY <1>2, <1>3 DEF HostAndPort

\* A name and a port.
LEMMA HostWithPort ==
    ASSUME NEW w \in Words, NEW p \in Words
    PROVE  HostAndPort(w \o (<<":">> \o p)) = [host |-> w, port |-> p]
<1> DEFINE b == <<":">> \o p
           s == w \o b
<1>1. /\ w \in Seq(Strings) /\ \A k \in 1..Len(w) : w[k] # ":"
      /\ p \in Seq(Strings)
  BY WordIs
<1>2. b \in Seq(Strings) /\ Len(b) = 1 + Len(p) /\ b[1] = ":" /\ \A k \in 1..Len(p) : b[k + 1] = p[k]
  BY <1>1 DEF Strings
<1> HIDE DEF b
<1>3. Before(s, ":") = w
  BY <1>1, <1>2, CutOff
<1>4. /\ s \in Seq(Strings) /\ Len(s) = Len(w) + 1 + Len(p)
      /\ \A k \in 1..Len(p) : s[Len(w) + 1 + k] = p[k]
  <2>1. /\ s \in Seq(Strings) /\ Len(s) = Len(w) + Len(b)
        /\ \A k \in 1..Len(b) : s[Len(w) + k] = b[k]
    <3>1. w \in Seq(Strings) /\ b \in Seq(Strings)
      BY <1>1, <1>2
    <3> QED
      BY <3>1
  <2> HIDE DEF s
  <2>2. ASSUME NEW k \in 1..Len(p) PROVE s[Len(w) + 1 + k] = p[k]
    <3>1. k + 1 \in 1..Len(b) /\ Len(w) + (k + 1) = Len(w) + 1 + k
      BY <1>1, <1>2
    <3> QED
      BY <2>1, <3>1, <1>2
  <2> QED
    BY <2>1, <2>2, <1>1, <1>2
<1> HIDE DEF s
<1>5. SubSeq(s, Len(w) + 2, Len(s)) = p
  <2>1. /\ SubSeq(s, Len(w) + 2, Len(s)) \in Seq(Strings)
        /\ Len(SubSeq(s, Len(w) + 2, Len(s))) = Len(p)
    BY <1>1, <1>4
  <2>2. ASSUME NEW k \in 1..Len(p) PROVE SubSeq(s, Len(w) + 2, Len(s))[k] = p[k]
    <3>1. SubSeq(s, Len(w) + 2, Len(s))[k] = s[Len(w) + 1 + k]
      BY <1>1, <1>4
    <3> QED
      BY <3>1, <1>4
  <2> HIDE DEF b
  <2> DEFINE q == SubSeq(s, Len(w) + 2, Len(s))
  <2>3. q \in Seq(Strings) /\ Len(q) = Len(p) /\ \A k \in 1..Len(p) : q[k] = p[k]
    BY <2>1, <2>2, Zenon
  <2> HIDE DEF q
  <2>4. q = p
    BY <1>1, <2>3
  <2> QED
    BY <2>4 DEF q
<1>6. s # w
  BY <1>1, <1>4
<1>7. HostAndPort(s) = [host |-> w, port |-> p]
  BY <1>3, <1>5, <1>6, Zenon DEF HostAndPort
<1> QED
  BY <1>7 DEF s, b

\* A URL of the usual form, of which the scheme, the port and the path may be
\* left out.
LEMMA UsualTarget ==
    ASSUME NEW scheme \in {<<>>, Http}, NEW w \in Words, NEW path \in Paths
    PROVE  /\ Target(scheme \o w \o path) = [host |-> w, port |-> <<"80">>]
           /\ \A p \in Words :
                 Target(scheme \o w \o <<":">> \o p \o path) = [host |-> w, port |-> p]
<1>1. w \in Seq(Strings) /\ path \in Seq(Strings) /\ scheme \in Seq(Strings)
  <2>1. Http \in Seq(Strings) /\ <<>> \in Seq(Strings)
    BY DEF Http, Strings
  <2> QED
    BY <2>1, WordIs, PathIs, Zenon
<1>2. ASSUME NEW a \in Seq(Strings), NEW rest \in Seq(Strings), a = w \o rest,
             \A k \in 1..Len(a) : a[k] # "/"
      PROVE  Target(scheme \o (a \o path)) = HostAndPort(a)
  <2>1. a \o path = w \o (rest \o path)
    BY <1>1, <1>2, SMTT(30)
  <2>2. rest \o path \in Seq(Strings)
    BY <1>1
  <2>3. WithoutScheme(scheme \o (a \o path)) = a \o path
    BY <2>1, <2>2, SchemeIsDropped, ZenonT(60)
  <2>4. Before(a \o path, "/") = a
    <3>1. path \in Seq(Strings) /\ (path = <<>> \/ path[1] = "/")
      BY PathIs
    <3> QED
      BY <3>1, <1>2, CutOff, Zenon
  <2> QED
    BY <2>3, <2>4, Zenon DEF Target
<1>3. Target(scheme \o w \o path) = [host |-> w, port |-> <<"80">>]
  <2>1. w = w \o <<>> /\ <<>> \in Seq(Strings)
    BY <1>1
  <2>2. \A k \in 1..Len(w) : w[k] # "/"
    BY WordIs
  <2>3. Target(scheme \o (w \o path)) = HostAndPort(w)
    BY <1>1, <1>2, <2>1, <2>2, Zenon
  <2>4. scheme \o w \o path = scheme \o (w \o path)
    BY <1>1, SMTT(30)
  <2> QED
    BY <2>3, <2>4, HostOnly, Zenon
<1>4. ASSUME NEW p \in Words
      PROVE  Target(scheme \o w \o <<":">> \o p \o path) = [host |-> w, port |-> p]
  <2> DEFINE b == <<":">> \o p
             a == w \o b
  <2>1. p \in Seq(Strings) /\ <<":">> \in Seq(Strings)
    BY WordIs DEF Strings
  <2>2. b \in Seq(Strings) /\ a \in Seq(Strings)
    BY <1>1, <2>1
  <2>3. \A k \in 1..Len(a) : a[k] # "/"
    <3>1. \A k \in 1..Len(b) : b[k] # "/"
      <4>1. \A k \in 1..Len(p) : p[k] # "/"
        BY WordIs
      <4>2. /\ Len(b) = 1 + Len(p) /\ b[1] = ":"
            /\ \A k \in 2..Len(b) : k - 1 \in 1..Len(p) /\ b[k] = p[k - 1]
        BY <2>1
      <4> HIDE DEF b
      <4>3. ASSUME NEW k \in 1..Len(b) PROVE b[k] # "/"
        BY <2>1, <4>1, <4>2
      <4> QED
        BY <4>3
    <3> HIDE DEF b
    <3>2. \A k \in 1..Len(w) : w[k] # "/"
      BY WordIs
    <3> QED
      BY <1>1, <2>2, <3>1, <3>2
  <2>4. scheme \o w \o <<":">> \o p \o path = scheme \o (a \o path)
    <3>1. \A x, y, z \in Seq(Strings) : (x \o y) \o z = x \o (y \o z) /\ x \o y \in Seq(Strings)
      OBVIOUS
    <3>2. scheme \o w \o <<":">> \o p = scheme \o (w \o (<<":">> \o p))
      <4>1. scheme \o w \in Seq(Strings)
        BY <1>1
      <4>2. (scheme \o w) \o <<":">> \o p = (scheme \o w) \o (<<":">> \o p)
        BY <3>1, <4>1, <2>1
      <4>3. (scheme \o w) \o b = scheme \o (w \o b)
        BY <3>1, <1>1, <2>2, ZenonT(60)
      <4> QED
        BY <4>2, <4>3, Zenon
    <3>3. (scheme \o a) \o path = scheme \o (a \o path)
      <4> HIDE DEF a
      <4> QED
        BY <3>1, <1>1, <2>2, ZenonT(60)
    <3> QED
      BY <3>2, <3>3, Zenon
  <2>5. HostAndPort(a) = [host |-> w, port |-> p]
    BY HostWithPort, Zenon
  <2>6. a = w \o b
    OBVIOUS
  <2> HIDE DEF a, b
  <2>7. Target(scheme \o (a \o path)) = HostAndPort(a)
    BY <1>2, <2>2, <2>3, <2>6, Zenon
  <2> QED
    BY <2>4, <2>5, <2>7, Zenon
<1> QED
  BY <1>3, <1>4

\* Whatever the URL, what is dialled has no "/", and the host no ":".
LEMMA NoPathInTarget ==
    ASSUME NEW S, NEW url \in Seq(S)
    PROVE  /\ \A k \in DOMAIN Target(url).host : Target(url).host[k] \notin {"/", ":"}
           /\ \A k \in DOMAIN Target(url).port : Target(url).port[k] # "/"
<1> DEFINE rest == WithoutScheme(url)
           a == Before(rest, "/")
           h == Before(a, ":")
<1>1. rest \in Seq(S)
  BY DEF WithoutScheme, StartsWith, Http
<1> HIDE DEF rest
<1>2. a \in Seq(S) /\ \A k \in 1..Len(a) : a[k] # "/"
  BY <1>1, BeforeIs
<1> HIDE DEF a
<1>3. h \in Seq(S) /\ Len(h) <= Len(a) /\ \A k \in 1..Len(h) : h[k] = a[k] /\ h[k] # ":"
  BY <1>2, BeforeIs
<1>4. Target(url) = HostAndPort(a)
  BY DEF Target, a, rest
<1>5. /\ HostAndPort(a).host = h
      /\ HostAndPort(a).port = IF h = a THEN <<"80">> ELSE SubSeq(a, Len(h) + 2, Len(a))
  BY DEF HostAndPort
<1> HIDE DEF h
<1>6. \A k \in DOMAIN h : h[k] \notin {"/", ":"}
  BY <1>2, <1>3
<1>7. \A k \in DOMAIN <<"80">> : <<"80">>[k] # "/"
  OBVIOUS
<1>8. \A k \in DOMAIN SubSeq(a, Len(h) + 2, Len(a)) : SubSeq(a, Len(h) + 2, Len(a))[k] # "/"
  BY <1>2, <1>3
<1> QED
  BY <1>4, <1>5, <1>6, <1>7, <1>8

\* What a backend's configuration holds: the strings given, and integers in
\* their ranges.
LEMMA BackendFields ==
    ASSUME NEW tbl, parse_backend(tbl)
    PROVE  /\ BackendConfig(tbl).name = tbl["name"].string
           /\ BackendConfig(tbl).base_url = tbl["base_url"].string
           /\ BackendConfig(tbl).models = [i \in DOMAIN tbl["models"].array |->
                                              tbl["models"].array[i].string]
           /\ BackendConfig(tbl).max_in_flight >= 1
           /\ BackendConfig(tbl).failure_threshold >= 1
           /\ BackendConfig(tbl).open_ms >= 1
           /\ BackendConfig(tbl).health_interval_ms >= 100
<1> DEFINE models == [i \in DOMAIN tbl["models"].array |-> tbl["models"].array[i].string]
           f == [name |-> tbl["name"].string, type |-> tbl["type"].string,
                 base_url |-> tbl["base_url"].string, models |-> models]
           g == IntegersOf(tbl, BackendSettings)
<1>1. BackendConfig(tbl) = Join(f, g)
  BY DEF BackendConfig
<1> HIDE DEF models
<1>2. /\ DOMAIN f = {"name", "type", "base_url", "models"}
      /\ f.name = tbl["name"].string /\ f.base_url = tbl["base_url"].string
      /\ f.models = models
  OBVIOUS
<1>3. DOMAIN BackendSettings =
        {"max_in_flight", "health_interval_ms", "failure_threshold", "open_ms"}
  BY DEF BackendSettings
<1>4. ASSUME NEW key \in DOMAIN BackendSettings,
             BackendSettings[key].dflt \in
                 BackendSettings[key].min_val .. BackendSettings[key].max_val
      PROVE  key \in DOMAIN g /\ g[key] \in BackendSettings[key].min_val .. BackendSettings[key].max_val
  BY <1>4, IntegersGiven, SMTT(30) DEF parse_backend, opt_ints, opt_int
<1> HIDE DEF f, g
<1>5. /\ "max_in_flight" \in DOMAIN g /\ g["max_in_flight"] >= 1
      /\ "failure_threshold" \in DOMAIN g /\ g["failure_threshold"] >= 1
  BY <1>3, <1>4 DEF BackendSettings, Setting
<1>6. /\ "open_ms" \in DOMAIN g /\ g["open_ms"] >= 1
      /\ "health_interval_ms" \in DOMAIN g /\ g["health_interval_ms"] >= 100
  BY <1>3, <1>4 DEF BackendSettings, Setting
<1>7. /\ \A key \in DOMAIN f : Join(f, g)[key] = f[key]
      /\ \A key \in DOMAIN g \ DOMAIN f : Join(f, g)[key] = g[key]
  BY Joined, ZenonT(60)
<1>8. /\ Join(f, g).name = f.name /\ Join(f, g).base_url = f.base_url
      /\ Join(f, g).models = f.models
  BY <1>2, <1>7
<1>9. /\ Join(f, g).max_in_flight >= 1 /\ Join(f, g).failure_threshold >= 1
      /\ Join(f, g).open_ms >= 1 /\ Join(f, g).health_interval_ms >= 100
  BY <1>2, <1>5, <1>6, <1>7
<1> QED
  BY <1>1, <1>2, <1>8, <1>9 DEF models

\* The entries of [[backends]], as validate() returns them.
BackendsOf(tree) ==
    [i \in DOMAIN tree["backends"].array |-> BackendConfig(tree["backends"].array[i].table)]

\* That is a field of its result.
LEMMA BackendsRead ==
    ASSUME NEW tree
    PROVE  ConfigOf(tree).backends = BackendsOf(tree)
BY Zenon DEF ConfigOf, BackendsOf

\* Every backend is dialled at the authority of its base_url.
LEMMA DialledWhereWritten == MainInv => TargetIsTheAuthority
<1> SUFFICES ASSUME MainInv, stage = "built", NEW i \in DOMAIN targets
             PROVE  LET url == cfg[1].backends[i].base_url
                        t   == targets[i]
                    IN  /\ \A scheme \in {<<>>, Http}, host \in Words, path \in Paths :
                              /\ url = scheme \o host \o path =>
                                    t = [host |-> host, port |-> <<"80">>]
                              /\ \A port \in Words : url = scheme \o host \o <<":">> \o port \o path =>
                                    t = [host |-> host, port |-> port]
                        /\ \A k \in DOMAIN t.host : t.host[k] \notin {"/", ":"}
                        /\ \A k \in DOMAIN t.port : t.port[k] # "/"
  BY Zenon DEF TargetIsTheAuthority
<1> DEFINE url == cfg[1].backends[i].base_url
           tbl == root["backends"].array[i].table
<1>1. IsTree(root) /\ validate(root) /\ cfg[1] = ConfigOf(root)
  BY DEF MainInv
<1>2. targets = [j \in DOMAIN cfg[1].backends |-> Target(cfg[1].backends[j].base_url)]
  BY DEF MainInv
<1>3. i \in DOMAIN cfg[1].backends /\ targets[i] = Target(url)
  BY <1>2, SMTT(30)
<1>4. i \in DOMAIN root["backends"].array /\ cfg[1].backends[i] = BackendConfig(tbl)
  <2>1. cfg[1].backends = BackendsOf(root)
    BY <1>1, BackendsRead, Zenon
  <2> QED
    BY <1>3, <2>1, Zenon DEF BackendsOf
<1>5. IsBackendTable(tbl) /\ parse_backend(tbl)
  <2>1. parse_backends(root)
    BY <1>1, Zenon DEF validate
  <2> QED
    BY <1>1, <1>4, <2>1, BackendTable, Zenon
<1>6. url = tbl["base_url"].string
  BY <1>4, <1>5, BackendFields, Zenon
<1>7. IsSequence(url)
  BY <1>5, <1>6, Zenon DEF IsBackendTable, parse_backend
<1> HIDE DEF url, tbl
<1>8. /\ \A k \in DOMAIN Target(url).host : Target(url).host[k] \notin {"/", ":"}
      /\ \A k \in DOMAIN Target(url).port : Target(url).port[k] # "/"
  BY <1>7, NoPathInTarget, Zenon DEF IsSequence
<1>9. ASSUME NEW scheme \in {<<>>, Http}, NEW host \in Words, NEW path \in Paths
      PROVE  /\ url = scheme \o host \o path => Target(url) = [host |-> host, port |-> <<"80">>]
             /\ \A port \in Words : url = scheme \o host \o <<":">> \o port \o path =>
                   Target(url) = [host |-> host, port |-> port]
  <2>1. Target(scheme \o host \o path) = [host |-> host, port |-> <<"80">>]
    BY UsualTarget, ZenonT(60)
  <2>2. ASSUME NEW port \in Words, url = scheme \o host \o <<":">> \o port \o path
        PROVE  Target(url) = [host |-> host, port |-> port]
    <3>1. Target(scheme \o host \o <<":">> \o port \o path) = [host |-> host, port |-> port]
      BY UsualTarget, Zenon
    <3> QED
      BY <2>2, <3>1, Zenon
  <2> QED
    BY <2>1, <2>2, Zenon
<1> QED
  BY <1>3, <1>8, <1>9, Zenon DEF url

-----------------------------------------------------------------------------
(***************************************************************************)
(* handle_models()                                                         *)
(***************************************************************************)

\* Induction on the numbers up to n.
LEMMA UpTo ==
    ASSUME NEW n \in Nat, NEW P, 0 \in P, \A i \in 1..n : i - 1 \in P => i \in P
    PROVE  \A i \in 0..n : i \in P
<1> SUFFICES ASSUME NEW j \in 0..n, j \notin P PROVE FALSE
  OBVIOUS
<1> DEFINE Q == {i \in 0..n : i \notin P}
<1>1. Q \in SUBSET Nat /\ j \in Q
  OBVIOUS
<1>2. PICK i \in Q : \A k \in Q : i <= k
  BY <1>1, LeastOf, Zenon
<1>3. i \in 1..n /\ i - 1 \in 0..n /\ i - 1 \notin Q
  BY <1>2
<1> QED
  BY <1>2, <1>3

\* A function given by what it is at 0 and how it goes on.
Follows(g, x0, F, n) == g = [i \in 0..n |-> IF i = 0 THEN x0 ELSE F[i][g[i - 1]]]

\* There is one.
LEMMA Recursion ==
    ASSUME NEW X, NEW x0 \in X, NEW n \in Nat, NEW F \in [1..n -> [X -> X]]
    PROVE  \E g \in [0..n -> X] : Follows(g, x0, F, n)
<1> DEFINE Solves(g, m) == /\ g \in [0..m -> X]
                           /\ g[0] = x0
                           /\ \A i \in 1..m : g[i] = F[i][g[i - 1]]
           P == {m \in 0..n : \E g : Solves(g, m)}
<1>1. 0 \in P
  <2>1. Solves([i \in 0..0 |-> x0], 0)
    OBVIOUS
  <2> HIDE DEF Solves
  <2>2. \E g : Solves(g, 0)
    BY <2>1, Zenon
  <2> QED
    BY <2>2
<1>2. ASSUME NEW m \in 1..n, m - 1 \in P PROVE m \in P
  <2>1. PICK g : Solves(g, m - 1)
    BY <1>2
  <2> DEFINE h == [i \in 0..m |-> IF i < m THEN g[i] ELSE F[m][g[m - 1]]]
  <2>2. F[m][g[m - 1]] \in X
    BY <2>1, SMTT(30)
  <2>3. h \in [0..m -> X] /\ h[0] = x0
    BY <2>1, <2>2, SMTT(30)
  <2>4. ASSUME NEW i \in 1..m PROVE h[i] = F[i][h[i - 1]]
    <3>1. CASE i < m
      BY <2>1, <3>1
    <3>2. CASE i = m
      BY <2>1, <3>2
    <3>3. i < m \/ i = m
      OBVIOUS
    <3> QED
      BY <3>1, <3>2, <3>3, Zenon
  <2>5. Solves(h, m)
    BY <2>3, <2>4, Zenon
  <2> HIDE DEF Solves
  <2>6. \E k : Solves(k, m)
    BY <2>5, Zenon
  <2> QED
    BY <2>6
<1>3. n \in P
  <2> HIDE DEF P
  <2>1. \A i \in 0..n : i \in P
    BY <1>1, <1>2, UpTo, Zenon
  <2> QED
    BY <2>1
<1>4. PICK g : Solves(g, n)
  BY <1>3
<1>5. g = [i \in 0..n |-> g[i]]
  BY <1>4
<1>6. g = [i \in 0..n |-> IF i = 0 THEN x0 ELSE F[i][g[i - 1]]]
  <2>1. \A i \in 0..n : g[i] = IF i = 0 THEN x0 ELSE F[i][g[i - 1]]
    BY <1>4
  <2> QED
    BY <1>5, <2>1, Zenon
<1>7. g \in [0..n -> X] /\ Follows(g, x0, F, n)
  BY <1>4, <1>6, Zenon DEF Follows
<1> QED
  BY <1>7, Zenon

\* The two loops of handle_models().
IsAll(g, b, n) == g = [i \in 0..n |-> IF i = 0 THEN <<>> ELSE g[i - 1] \o b[i].models]

IsSeen(g, ids, n) ==
    g = [i \in 0..n |-> IF i = 0 THEN <<>>
                        ELSE IF \E j \in DOMAIN g[i - 1] : g[i - 1][j] = ids[i] THEN g[i - 1]
                        ELSE Append(g[i - 1], ids[i])]

\* The first has a result,
LEMMA AllExists ==
    ASSUME NEW S, NEW n \in Nat, NEW b, \A i \in 1..n : b[i].models \in Seq(S)
    PROVE  \E g : IsAll(g, b, n)
<1> DEFINE F == [i \in 1..n |-> [x \in Seq(S) |-> x \o b[i].models]]
<1>1. F \in [1..n -> [Seq(S) -> Seq(S)]] /\ <<>> \in Seq(S)
  OBVIOUS
<1>2. \A i \in 1..n, x \in Seq(S) : F[i][x] = x \o b[i].models
  OBVIOUS
<1> HIDE DEF F
<1>3. PICK g \in [0..n -> Seq(S)] : Follows(g, <<>>, F, n)
  BY <1>1, Recursion, Zenon
<1>4. ASSUME NEW i \in 0..n
      PROVE  (IF i = 0 THEN <<>> ELSE F[i][g[i - 1]])
                = (IF i = 0 THEN <<>> ELSE g[i - 1] \o b[i].models)
  <2>1. i # 0 => i \in 1..n /\ g[i - 1] \in Seq(S)
    OBVIOUS
  <2> QED
    BY <1>2, <2>1, Zenon
<1>5. IsAll(g, b, n)
  BY <1>3, <1>4, Zenon DEF IsAll, Follows
<1> QED
  BY <1>5, Zenon

\* and the second.
LEMMA SeenExists ==
    ASSUME NEW S, NEW n \in Nat, NEW ids, \A i \in 1..n : ids[i] \in S
    PROVE  \E g : IsSeen(g, ids, n)
<1> DEFINE Add(x, i) == IF \E j \in DOMAIN x : x[j] = ids[i] THEN x ELSE Append(x, ids[i])
           F == [i \in 1..n |-> [x \in Seq(S) |-> Add(x, i)]]
<1>1. \A i \in 1..n, x \in Seq(S) : Add(x, i) \in Seq(S)
  OBVIOUS
<1> HIDE DEF Add
<1>2. F \in [1..n -> [Seq(S) -> Seq(S)]] /\ <<>> \in Seq(S)
  BY <1>1
<1>3. \A i \in 1..n, x \in Seq(S) : F[i][x] = Add(x, i)
  OBVIOUS
<1> HIDE DEF F
<1>4. PICK g \in [0..n -> Seq(S)] : Follows(g, <<>>, F, n)
  BY <1>2, Recursion, Zenon
<1>5. ASSUME NEW i \in 0..n
      PROVE  (IF i = 0 THEN <<>> ELSE F[i][g[i - 1]]) = (IF i = 0 THEN <<>> ELSE Add(g[i - 1], i))
  <2>1. i # 0 => i \in 1..n /\ g[i - 1] \in Seq(S)
    OBVIOUS
  <2> QED
    BY <1>3, <2>1, Zenon
<1>6. g = [i \in 0..n |-> IF i = 0 THEN <<>> ELSE Add(g[i - 1], i)]
  BY <1>4, <1>5, Zenon DEF Follows
<1>7. IsSeen(g, ids, n)
  BY <1>6, Zenon DEF IsSeen, Add
<1> QED
  BY <1>7, Zenon

\* What each iteration of the first adds,
LEMMA AllSteps ==
    ASSUME NEW S, NEW n \in Nat, NEW b, \A i \in 1..n : b[i].models \in Seq(S),
           NEW g, IsAll(g, b, n)
    PROVE  /\ g[0] = <<>>
           /\ \A i \in 1..n : g[i] = g[i - 1] \o b[i].models
           /\ \A i \in 0..n : g[i] \in Seq(S)
<1>1. /\ g[0] = <<>>
      /\ \A i \in 1..n : g[i] = g[i - 1] \o b[i].models
  <2>1. \A i \in 0..n : g[i] = IF i = 0 THEN <<>> ELSE g[i - 1] \o b[i].models
    BY Zenon DEF IsAll
  <2>2. 0 \in 0..n /\ \A i \in 1..n : i \in 0..n /\ i # 0
    OBVIOUS
  <2> QED
    BY <2>1, <2>2, Zenon
<1> DEFINE P == {i \in 0..n : g[i] \in Seq(S)}
<1>2. 0 \in P
  <2>1. 0 \in 0..n /\ <<>> \in Seq(S)
    OBVIOUS
  <2> QED
    BY <1>1, <2>1, Zenon
<1>3. ASSUME NEW i \in 1..n, i - 1 \in P PROVE i \in P
  <2>1. g[i - 1] \in Seq(S) /\ i \in 0..n
    BY <1>3
  <2>2. g[i] \in Seq(S)
    <3>1. g[i] = g[i - 1] \o b[i].models /\ b[i].models \in Seq(S)
      BY <1>1, Zenon
    <3>2. \A x, y \in Seq(S) : x \o y \in Seq(S)
      OBVIOUS
    <3> QED
      BY <2>1, <3>1, <3>2, Zenon
  <2> QED
    BY <2>1, <2>2
<1> HIDE DEF P
<1>4. \A i \in 0..n : i \in P
  BY <1>2, <1>3, UpTo, Zenon
<1> QED
  BY <1>1, <1>4, ZenonT(60) DEF P

\* and of the second.
LEMMA SeenSteps ==
    ASSUME NEW S, NEW n \in Nat, NEW ids, \A i \in 1..n : ids[i] \in S,
           NEW g, IsSeen(g, ids, n)
    PROVE  /\ g[0] = <<>>
           /\ \A i \in 1..n :
                \/ (\E j \in DOMAIN g[i - 1] : g[i - 1][j] = ids[i]) /\ g[i] = g[i - 1]
                \/ /\ \A j \in DOMAIN g[i - 1] : g[i - 1][j] # ids[i]
                   /\ g[i] = Append(g[i - 1], ids[i])
           /\ \A i \in 0..n : g[i] \in Seq(S)
<1> DEFINE Held(i) == \E j \in DOMAIN g[i - 1] : g[i - 1][j] = ids[i]
<1>0. /\ g[0] = <<>>
      /\ \A i \in 1..n : \/ Held(i) /\ g[i] = g[i - 1]
                         \/ ~Held(i) /\ g[i] = Append(g[i - 1], ids[i])
  <2>1. g = [i \in 0..n |-> IF i = 0 THEN <<>> ELSE IF Held(i) THEN g[i - 1]
                            ELSE Append(g[i - 1], ids[i])]
    BY Zenon DEF IsSeen
  <2> HIDE DEF Held
  <2>2. \A i \in 0..n : g[i] = IF i = 0 THEN <<>> ELSE IF Held(i) THEN g[i - 1]
                               ELSE Append(g[i - 1], ids[i])
    BY <2>1, Zenon
  <2>3. 0 \in 0..n /\ \A i \in 1..n : i \in 0..n /\ i # 0
    OBVIOUS
  <2> QED
    BY <2>2, <2>3, Zenon
<1>1. /\ g[0] = <<>>
      /\ \A i \in 1..n :
            \/ (\E j \in DOMAIN g[i - 1] : g[i - 1][j] = ids[i]) /\ g[i] = g[i - 1]
            \/ /\ \A j \in DOMAIN g[i - 1] : g[i - 1][j] # ids[i]
               /\ g[i] = Append(g[i - 1], ids[i])
  BY <1>0, Zenon
<1> HIDE DEF Held
<1> DEFINE P == {i \in 0..n : g[i] \in Seq(S)}
<1>2. 0 \in P
  <2>1. 0 \in 0..n /\ <<>> \in Seq(S)
    OBVIOUS
  <2> QED
    BY <1>1, <2>1, Zenon
<1>3. ASSUME NEW i \in 1..n, i - 1 \in P PROVE i \in P
  <2>1. g[i - 1] \in Seq(S) /\ i \in 0..n
    BY <1>3
  <2>2. g[i] \in Seq(S)
    <3>1. g[i] = g[i - 1] \/ g[i] = Append(g[i - 1], ids[i])
      BY <1>1, Zenon
    <3>2. \A x \in Seq(S), y \in S : Append(x, y) \in Seq(S)
      OBVIOUS
    <3> QED
      BY <2>1, <3>1, <3>2, Zenon
  <2> QED
    BY <2>1, <2>2
<1> HIDE DEF P
<1>4. \A i \in 0..n : i \in P
  BY <1>2, <1>3, UpTo
<1> QED
  BY <1>1, <1>4, Zenon DEF P

\* The list s of all models of the backends up to i, with the backend that each
\* of them comes from: the backends follow one another, and none is left out.
Owns(o, s, b, i) ==
    /\ o \in [1..Len(s) -> 1..i]
    /\ \A p, q \in 1..Len(s) : p < q => o[p] <= o[q]
    /\ \A p \in 1..Len(s) : \E k \in DOMAIN b[o[p]].models : s[p] = b[o[p]].models[k]
    /\ \A j \in 1..i : \A k \in DOMAIN b[j].models :
          \E p \in 1..Len(s) : o[p] = j /\ s[p] = b[j].models[k]

\* One backend's models are added to the list.
LEMMA OwnsNext ==
    ASSUME NEW S, NEW b, NEW i \in Nat \ {0}, NEW s \in Seq(S), NEW ms \in Seq(S),
           ms = b[i].models, NEW o, Owns(o, s, b, i - 1)
    PROVE  \E u : Owns(u, s \o ms, b, i)
<1> DEFINE z == s \o ms
           u == [p \in 1..Len(z) |-> IF p <= Len(s) THEN o[p] ELSE i]
<1>1. /\ z \in Seq(S) /\ Len(z) = Len(s) + Len(ms)
      /\ \A p \in 1..Len(s) : z[p] = s[p]
      /\ \A k \in 1..Len(ms) : z[Len(s) + k] = ms[k]
  OBVIOUS
<1> HIDE DEF z
<1>2. o \in [1..Len(s) -> 1..(i - 1)]
  BY DEF Owns
<1>3. /\ u \in [1..Len(z) -> 1..i]
      /\ \A p \in 1..Len(s) : p \in 1..Len(z) /\ u[p] = o[p]
      /\ \A p \in 1..Len(z) : p > Len(s) => u[p] = i
  BY <1>1, <1>2
<1> HIDE DEF u
<1>4. ASSUME NEW p \in 1..Len(z), NEW q \in 1..Len(z), p < q PROVE u[p] <= u[q]
  <2>1. CASE q <= Len(s)
    <3>1. p \in 1..Len(s) /\ q \in 1..Len(s)
      BY <1>1, <1>4, <2>1
    <3> QED
      BY <1>2, <1>3, <1>4, <3>1, ZenonT(60) DEF Owns
  <2>2. CASE q > Len(s)
    BY <1>1, <1>3, <2>2, SMTT(30)
  <2> QED
    BY <2>1, <2>2
<1>5. ASSUME NEW p \in 1..Len(z)
      PROVE  \E k \in DOMAIN b[u[p]].models : z[p] = b[u[p]].models[k]
  <2>1. CASE p <= Len(s)
    <3>1. p \in 1..Len(s)
      BY <2>1
    <3>2. u[p] = o[p] /\ z[p] = s[p]
      BY <1>1, <1>3, <3>1
    <3>3. \E k \in DOMAIN b[o[p]].models : s[p] = b[o[p]].models[k]
      BY <3>1, Zenon DEF Owns
    <3> QED
      BY <3>2, <3>3, Zenon
  <2>2. CASE p > Len(s)
    <3>1. u[p] = i /\ p - Len(s) \in 1..Len(ms) /\ Len(s) + (p - Len(s)) = p
      BY <1>1, <1>3, <2>2, SMTT(30)
    <3>2. z[p] = ms[p - Len(s)] /\ p - Len(s) \in DOMAIN ms
      BY <1>1, <3>1, SMTT(30)
    <3> QED
      BY <3>1, <3>2, Zenon
  <2> QED
    BY <2>1, <2>2
<1>6. ASSUME NEW j \in 1..i, NEW k \in DOMAIN b[j].models
      PROVE  \E p \in 1..Len(z) : u[p] = j /\ z[p] = b[j].models[k]
  <2>1. CASE j < i
    <3>1. j \in 1..(i - 1)
      BY <2>1
    <3>2. PICK p \in 1..Len(s) : o[p] = j /\ s[p] = b[j].models[k]
      BY <3>1, Zenon DEF Owns
    <3>3. p \in 1..Len(z) /\ u[p] = o[p] /\ z[p] = s[p]
      BY <1>1, <1>3
    <3> QED
      BY <3>2, <3>3, Zenon
  <2>2. CASE j = i
    <3>1. k \in 1..Len(ms) /\ b[j].models = ms
      BY <2>2, SMTT(30)
    <3>2. Len(s) + k \in 1..Len(z) /\ Len(s) + k > Len(s)
      BY <1>1, <3>1
    <3>3. u[Len(s) + k] = j /\ z[Len(s) + k] = ms[k]
      BY <1>1, <1>3, <2>2, <3>1, <3>2, SMTT(30)
    <3> QED
      BY <3>1, <3>2, <3>3, Zenon
  <2> QED
    BY <2>1, <2>2
<1>7. Owns(u, z, b, i)
  BY <1>3, <1>4, <1>5, <1>6, Zenon DEF Owns
<1> QED
  BY <1>7, Zenon DEF z

\* So it is after the first loop.
LEMMA AllOwned ==
    ASSUME NEW S, NEW n \in Nat, NEW b, \A i \in 1..n : b[i].models \in Seq(S),
           NEW g, IsAll(g, b, n)
    PROVE  \E o : Owns(o, g[n], b, n)
<1> DEFINE P == {i \in 0..n : \E o : Owns(o, g[i], b, i)}
<1>1. /\ g[0] = <<>>
      /\ \A i \in 1..n : g[i] = g[i - 1] \o b[i].models
      /\ \A i \in 0..n : g[i] \in Seq(S)
  BY AllSteps, Zenon
<1>2. 0 \in P
  <2>1. Owns([p \in {} |-> 0], <<>>, b, 0)
    BY DEF Owns
  <2>2. \E o : Owns(o, g[0], b, 0)
    BY <1>1, <2>1, Zenon
  <2>3. 0 \in 0..n
    OBVIOUS
  <2> QED
    BY <2>2, <2>3, Zenon
<1>3. ASSUME NEW i \in 1..n, i - 1 \in P PROVE i \in P
  <2>1. PICK o : Owns(o, g[i - 1], b, i - 1)
    BY <1>3, Zenon
  <2>2. /\ i \in Nat \ {0} /\ i \in 0..n /\ i - 1 \in 0..n
        /\ g[i - 1] \in Seq(S) /\ b[i].models \in Seq(S)
    BY <1>1
  <2>3. \E u : Owns(u, g[i - 1] \o b[i].models, b, i)
    BY <2>1, <2>2, OwnsNext, Zenon
  <2>4. \E u : Owns(u, g[i], b, i)
    BY <1>1, <2>3, Zenon
  <2> QED
    BY <2>2, <2>4, Zenon
<1>4. \A i \in 0..n : i \in P
  <2> HIDE DEF P
  <2> QED
    BY <1>2, <1>3, UpTo, Zenon
<1>5. n \in 0..n
  OBVIOUS
<1> QED
  BY <1>4, <1>5, Zenon

\* The list s of those of the first i ids that are different, with the position
\* at which each of them occurs first.
Firsts(pos, s, ids, i) ==
    /\ pos \in [1..Len(s) -> 1..i]
    /\ \A k, l \in 1..Len(s) : k < l => pos[k] < pos[l]
    /\ \A k \in 1..Len(s) : s[k] = ids[pos[k]]
    /\ \A k \in 1..Len(s) : \A q \in 1..i : ids[q] = s[k] => pos[k] <= q
    /\ \A q \in 1..i : \E k \in 1..Len(s) : s[k] = ids[q]

\* One more id is looked at.
LEMMA FirstsNext ==
    ASSUME NEW S, NEW ids, NEW i \in Nat \ {0}, NEW s \in Seq(S), NEW id \in S,
           id = ids[i], NEW pos, Firsts(pos, s, ids, i - 1)
    PROVE  /\ (\E j \in DOMAIN s : s[j] = id) => Firsts(pos, s, ids, i)
           /\ (\A j \in DOMAIN s : s[j] # id) => \E u : Firsts(u, Append(s, id), ids, i)
<1>1. /\ pos \in [1..Len(s) -> 1..(i - 1)]
      /\ \A k, l \in 1..Len(s) : k < l => pos[k] < pos[l]
      /\ \A k \in 1..Len(s) : s[k] = ids[pos[k]]
      /\ \A k \in 1..Len(s) : \A q \in 1..(i - 1) : ids[q] = s[k] => pos[k] <= q
      /\ \A q \in 1..(i - 1) : \E k \in 1..Len(s) : s[k] = ids[q]
  BY DEF Firsts
<1>2. \A q \in 1..i : q \in 1..(i - 1) \/ q = i
  OBVIOUS
<1>3. \A k \in 1..Len(s) : pos[k] \in 1..i /\ pos[k] < i
  BY <1>1
<1>4. ASSUME NEW j \in DOMAIN s, s[j] = id PROVE Firsts(pos, s, ids, i)
  <2>1. pos \in [1..Len(s) -> 1..i]
    BY <1>1, <1>3
  <2>2. \A k \in 1..Len(s) : \A q \in 1..i : ids[q] = s[k] => pos[k] <= q
    BY <1>1, <1>2, <1>3, SMTT(30)
  <2>3. \A q \in 1..i : \E k \in 1..Len(s) : s[k] = ids[q]
    BY <1>1, <1>2, <1>4
  <2> QED
    BY <1>1, <2>1, <2>2, <2>3, ZenonT(60) DEF Firsts
<1>5. ASSUME \A j \in DOMAIN s : s[j] # id PROVE \E u : Firsts(u, Append(s, id), ids, i)
  <2> DEFINE z == Append(s, id)
             u == [k \in 1..Len(z) |-> IF k <= Len(s) THEN pos[k] ELSE i]
  <2>1. /\ z \in Seq(S) /\ Len(z) = Len(s) + 1 /\ z[Len(s) + 1] = id
        /\ \A k \in 1..Len(s) : z[k] = s[k]
        /\ \A k \in 1..Len(z) : k \in 1..Len(s) \/ k = Len(s) + 1
        /\ \A k \in 1..Len(s) : k \in 1..Len(z)
        /\ Len(s) + 1 \in 1..Len(z)
    OBVIOUS
  <2> HIDE DEF z
  <2>2. /\ u \in [1..Len(z) -> 1..i] /\ u[Len(s) + 1] = i
        /\ \A k \in 1..Len(s) : u[k] = pos[k]
    BY <1>3, <2>1
  <2> HIDE DEF u
  <2>3. ASSUME NEW k \in 1..Len(z), NEW l \in 1..Len(z), k < l PROVE u[k] < u[l]
    <3>1. CASE l \in 1..Len(s)
      <4>1. k \in 1..Len(s)
        BY <2>3, <3>1
      <4> QED
        BY <1>1, <2>2, <2>3, <3>1, <4>1
    <3>2. CASE l = Len(s) + 1
      <4>1. k \in 1..Len(s)
        BY <2>3, <3>2
      <4> QED
        BY <1>3, <2>2, <3>2, <4>1, SMTT(30)
    <3> QED
      BY <2>1, <3>1, <3>2, SMTT(30)
  <2>4. ASSUME NEW k \in 1..Len(z) PROVE z[k] = ids[u[k]]
    BY <1>1, <2>1, <2>2
  <2>5. ASSUME NEW k \in 1..Len(z), NEW q \in 1..i, ids[q] = z[k] PROVE u[k] <= q
    <3>1. CASE k \in 1..Len(s)
      <4>1. z[k] = s[k] /\ u[k] = pos[k]
        BY <2>1, <2>2, <3>1, SMTT(30)
      <4>2. \A p \in 1..(i - 1) : ids[p] = s[k] => pos[k] <= p
        BY <1>1, <3>1, Zenon
      <4>3. CASE q \in 1..(i - 1)
        BY <2>5, <4>1, <4>2, <4>3, Zenon
      <4>4. CASE q = i
        BY <1>3, <3>1, <4>1, <4>4
      <4> QED
        BY <1>2, <4>3, <4>4, Zenon
    <3>2. CASE k = Len(s) + 1
      <4>1. ids[q] = id /\ u[k] = i
        BY <2>1, <2>2, <2>5, <3>2
      <4>2. q \notin 1..(i - 1)
        <5> SUFFICES ASSUME q \in 1..(i - 1) PROVE FALSE
          OBVIOUS
        <5>1. PICK j \in 1..Len(s) : s[j] = ids[q]
          BY <1>1
        <5> QED
          BY <1>5, <4>1, <5>1
      <4> QED
        BY <1>2, <4>1, <4>2
    <3> QED
      BY <2>1, <3>1, <3>2, SMTT(30)
  <2>6. ASSUME NEW q \in 1..i PROVE \E k \in 1..Len(z) : z[k] = ids[q]
    <3>1. CASE q = i
      BY <2>1, <3>1
    <3>2. CASE q \in 1..(i - 1)
      <4>1. PICK k \in 1..Len(s) : s[k] = ids[q]
        BY <1>1, <3>2
      <4> QED
        BY <2>1, <4>1
    <3> QED
      BY <1>2, <3>1, <3>2
  <2>7. Firsts(u, z, ids, i)
    BY <2>2, <2>3, <2>4, <2>5, <2>6, Zenon DEF Firsts
  <2> QED
    BY <2>7, Zenon DEF z
<1> QED
  BY <1>4, <1>5, Zenon

\* So it is after the second loop.
LEMMA SeenFirsts ==
    ASSUME NEW S, NEW n \in Nat, NEW ids, \A i \in 1..n : ids[i] \in S,
           NEW g, IsSeen(g, ids, n)
    PROVE  g[n] \in Seq(S) /\ \E pos : Firsts(pos, g[n], ids, n)
<1> DEFINE P == {i \in 0..n : \E pos : Firsts(pos, g[i], ids, i)}
<1>1. /\ g[0] = <<>>
      /\ \A i \in 1..n :
           \/ (\E j \in DOMAIN g[i - 1] : g[i - 1][j] = ids[i]) /\ g[i] = g[i - 1]
           \/ /\ \A j \in DOMAIN g[i - 1] : g[i - 1][j] # ids[i]
              /\ g[i] = Append(g[i - 1], ids[i])
      /\ \A i \in 0..n : g[i] \in Seq(S)
  BY SeenSteps, ZenonT(60)
<1>2. 0 \in P
  <2>1. Firsts([p \in {} |-> 0], <<>>, ids, 0)
    BY DEF Firsts
  <2>2. \E pos : Firsts(pos, g[0], ids, 0)
    BY <1>1, <2>1, Zenon
  <2>3. 0 \in 0..n
    OBVIOUS
  <2> QED
    BY <2>2, <2>3, Zenon
<1>3. ASSUME NEW i \in 1..n, i - 1 \in P PROVE i \in P
  <2>1. PICK pos : Firsts(pos, g[i - 1], ids, i - 1)
    BY <1>3, Zenon
  <2>2. /\ i \in Nat \ {0} /\ i \in 0..n /\ i - 1 \in 0..n
        /\ g[i - 1] \in Seq(S) /\ ids[i] \in S
    BY <1>1
  <2>3. /\ (\E j \in DOMAIN g[i - 1] : g[i - 1][j] = ids[i]) => Firsts(pos, g[i - 1], ids, i)
        /\ (\A j \in DOMAIN g[i - 1] : g[i - 1][j] # ids[i]) =>
               \E u : Firsts(u, Append(g[i - 1], ids[i]), ids, i)
    BY <2>1, <2>2, FirstsNext, Zenon
  <2>4. \E u : Firsts(u, g[i], ids, i)
    BY <1>1, <2>3, Zenon
  <2> QED
    BY <2>2, <2>4, Zenon
<1>4. \A i \in 0..n : i \in P
  <2> HIDE DEF P
  <2> QED
    BY <1>2, <1>3, UpTo, Zenon
<1>5. n \in 0..n
  OBVIOUS
<1> QED
  BY <1>1, <1>4, <1>5, Zenon

AllModels(b) == UNION {{b[i].models[k] : k \in DOMAIN b[i].models} : i \in DOMAIN b}

\* handle_models() is the two loops.
LEMMA TwoLoops ==
    ASSUME NEW S, NEW b, Len(b) \in Nat, \A i \in 1..Len(b) : b[i].models \in Seq(S)
    PROVE  \E all, seen :
              /\ IsAll(all, b, Len(b))
              /\ IsSeen(seen, all[Len(b)], Len(all[Len(b)]))
              /\ handle_models(b) = seen[Len(all[Len(b)])]
<1> DEFINE all == CHOOSE g : IsAll(g, b, Len(b))
           ids == all[Len(b)]
           seen == CHOOSE g : IsSeen(g, ids, Len(ids))
<1>1. IsAll(all, b, Len(b))
  <2>1. \E g : IsAll(g, b, Len(b))
    BY AllExists
  <2> QED
    BY <2>1, Zenon
<1>2. handle_models(b) = seen[Len(ids)]
  BY Zenon DEF handle_models, IsAll, IsSeen
<1> HIDE DEF all
<1>3. ids \in Seq(S)
  <2>1. \A i \in 0..Len(b) : all[i] \in Seq(S)
    BY <1>1, AllSteps, Zenon
  <2>2. Len(b) \in 0..Len(b)
    OBVIOUS
  <2> QED
    BY <2>1, <2>2, Zenon
<1> HIDE DEF ids
<1>4. IsSeen(seen, ids, Len(ids))
  <2>1. Len(ids) \in Nat /\ \A i \in 1..Len(ids) : ids[i] \in S
    BY <1>3
  <2>2. \E g : IsSeen(g, ids, Len(ids))
    BY <2>1, SeenExists, Zenon
  <2> QED
    BY <2>2, Zenon
<1> HIDE DEF seen
<1> QED
  BY <1>1, <1>2, <1>4, Zenon DEF ids

\* A list of different things is as long as they are many.
LEMMA CountDifferent ==
    ASSUME NEW n \in Nat, NEW F, NEW T, F \in [1..n -> T],
           \A k, l \in 1..n : k # l => F[k] # F[l], \A t \in T : \E k \in 1..n : F[k] = t
    PROVE  Cardinality(T) = n
<1>1. F \in Bijection(1..n, T)
  BY DEF Bijection, Injection, Surjection, IsInjective
<1>2. ExistsBijection(1..n, T)
  BY <1>1 DEF ExistsBijection
<1>3. IsFiniteSet(1..n) /\ Cardinality(1..n) = n
  BY FS_Interval
<1> QED
  BY <1>2, <1>3, FS_Bijection

\* The answer of /v1/models.
LEMMA Servable ==
    ASSUME NEW T, NEW b \in Seq(T), \A i \in DOMAIN b : b[i].models \in Seq(AllModels(b))
    PROVE  ModelsAreServable(b)
<1> DEFINE S == AllModels(b)
           n == Len(b)
           list == handle_models(b)
<1>1. n \in Nat /\ DOMAIN b = 1..n /\ \A i \in 1..n : b[i].models \in Seq(S)
  OBVIOUS
<1>2. PICK all, seen : /\ IsAll(all, b, n)
                       /\ IsSeen(seen, all[n], Len(all[n]))
                       /\ list = seen[Len(all[n])]
  BY <1>1, TwoLoops, Zenon
<1> DEFINE ids == all[n]
<1>3. PICK o : Owns(o, ids, b, n)
  BY <1>1, <1>2, AllOwned, Zenon
<1>4. ids \in Seq(S)
  <2>1. \A i \in 0..n : all[i] \in Seq(S)
    BY <1>1, <1>2, AllSteps, Zenon
  <2>2. n \in 0..n
    BY <1>1
  <2> QED
    BY <2>1, <2>2, Zenon
<1> HIDE DEF S, n, list, ids
<1>5. Len(ids) \in Nat /\ \A i \in 1..Len(ids) : ids[i] \in S
  BY <1>4
<1>6. list \in Seq(S) /\ \E pos : Firsts(pos, list, ids, Len(ids))
  BY <1>2, <1>5, SeenFirsts, Zenon DEF ids
<1>7. PICK pos : Firsts(pos, list, ids, Len(ids))
  BY <1>6
<1>8. Len(list) \in Nat /\ DOMAIN list = 1..Len(list) /\ list \in [1..Len(list) -> S]
  BY <1>6
<1>9. \A m \in S : \E i \in 1..n : \E k \in DOMAIN b[i].models : m = b[i].models[k]
  BY <1>1 DEF S, AllModels
<1>9a. \A j \in 1..n : \A k \in DOMAIN b[j].models :
          \E p \in 1..Len(ids) : o[p] = j /\ ids[p] = b[j].models[k]
  BY <1>3 DEF Owns
<1>10. ASSUME NEW m \in S PROVE \E k \in 1..Len(list) : list[k] = m
  <2>1. PICK i \in 1..n : \E k \in DOMAIN b[i].models : m = b[i].models[k]
    BY <1>9
  <2>2. PICK p \in 1..Len(ids) : ids[p] = m
    <3>1. PICK k \in DOMAIN b[i].models : m = b[i].models[k]
      BY <2>1
    <3>2. \E p \in 1..Len(ids) : o[p] = i /\ ids[p] = b[i].models[k]
      BY <1>9a
    <3> QED
      BY <3>1, <3>2
  <2> QED
    BY <1>7, <2>2, Zenon DEF Firsts
<1>11. {list[k] : k \in DOMAIN list} = S
  BY <1>8, <1>10
<1>12. ASSUME NEW k \in 1..Len(list), NEW l \in 1..Len(list), k < l PROVE list[k] # list[l]
  <2>1. pos[k] < pos[l] /\ pos[k] \in 1..Len(ids) /\ pos[l] \in 1..Len(ids)
    BY <1>7, <1>12 DEF Firsts
  <2>2. list[k] = ids[pos[k]] /\ (ids[pos[k]] = list[l] => pos[l] <= pos[k])
    BY <1>7, <2>1, Zenon DEF Firsts
  <2> QED
    BY <1>5, <2>1, <2>2
<1>13. Len(list) = Cardinality(S)
  <2>1. \A k, l \in 1..Len(list) : k # l => list[k] # list[l]
    BY <1>8, <1>12
  <2> QED
    BY <1>8, <1>10, <2>1, CountDifferent, SMTT(30)
<1> DEFINE Serving(m) == backends_for_model(b, m)
           First(m) == CHOOSE i \in Serving(m) : \A j \in Serving(m) : i <= j
<1>14. ASSUME NEW m \in S
       PROVE  /\ First(m) \in 1..n
              /\ \E k \in DOMAIN b[First(m)].models : b[First(m)].models[k] = m
              /\ \A j \in 1..n : \A k \in DOMAIN b[j].models :
                    b[j].models[k] = m => First(m) <= j
  <2>1. Serving(m) \in SUBSET Nat /\ Serving(m) # {}
    BY <1>1, <1>9 DEF backends_for_model
  <2>2. \E i \in Serving(m) : \A j \in Serving(m) : i <= j
    BY <2>1, LeastOf, Zenon
  <2>3. First(m) \in Serving(m) /\ \A j \in Serving(m) : First(m) <= j
    BY <2>2, Zenon
  <2> HIDE DEF First
  <2> QED
    BY <1>1, <2>3 DEF backends_for_model
<1>15. ASSUME NEW k \in 1..Len(list), NEW l \in 1..Len(list), k < l
       PROVE  First(list[k]) <= First(list[l])
  <2> DEFINE i == First(list[k])
             j == First(list[l])
  <2>1. list[k] \in S /\ list[l] \in S
    BY <1>8, SMTT(30)
  <2>2. /\ i \in 1..n
        /\ \A h \in 1..n : \A c \in DOMAIN b[h].models : b[h].models[c] = list[k] => i <= h
    BY <1>14, <2>1, Zenon
  <2>3. j \in 1..n /\ \E c \in DOMAIN b[j].models : b[j].models[c] = list[l]
    BY <1>14, <2>1, ZenonT(60)
  <2> HIDE DEF i, j
  <2>4. pos[k] < pos[l] /\ pos[k] \in 1..Len(ids) /\ pos[l] \in 1..Len(ids)
    BY <1>7, <1>15 DEF Firsts
  <2>5. PICK p \in 1..Len(ids) : o[p] = j /\ ids[p] = list[l]
    <3>1. PICK c \in DOMAIN b[j].models : b[j].models[c] = list[l]
      BY <2>3
    <3>2. \E p \in 1..Len(ids) : o[p] = j /\ ids[p] = b[j].models[c]
      BY <1>9a, <2>3
    <3> QED
      BY <3>1, <3>2
  <2>6. pos[l] <= p
    BY <1>7, <2>5, Zenon DEF Firsts
  <2>7. pos[k] < p
    BY <2>4, <2>6, SMTT(30)
  <2>8. o[pos[k]] <= o[p] /\ o[pos[k]] \in 1..n
    BY <1>3, <2>4, <2>5, <2>7 DEF Owns
  <2>9. i <= o[pos[k]]
    <3>1. ids[pos[k]] = list[k]
      BY <1>7, Zenon DEF Firsts
    <3>2. \E c \in DOMAIN b[o[pos[k]]].models : ids[pos[k]] = b[o[pos[k]]].models[c]
      BY <1>3, <2>4, ZenonT(60) DEF Owns
    <3> QED
      BY <2>2, <2>8, <3>1, <3>2, Zenon
  <2>10. i <= j
    BY <2>2, <2>3, <2>5, <2>8, <2>9
  <2> QED
    BY <2>10 DEF i, j
<1> HIDE DEF First
<1> DEFINE by == [m \in S |-> First(m)]
<1>16. ASSUME NEW k \in DOMAIN list, NEW l \in DOMAIN list, k < l
       PROVE  by[list[k]] <= by[list[l]]
  BY <1>8, <1>15, <1>16, SMTT(30)
<1> QED
  BY <1>11, <1>13, <1>16, Zenon DEF ModelsAreServable, S, AllModels, list, First

\* A list of the models that one entry names.
LEMMA ModelsOfEntry ==
    ASSUME NEW tbl, IsBackendTable(tbl), parse_backend(tbl)
    PROVE  LET ms == BackendConfig(tbl).models
           IN  ms \in Seq({ms[k] : k \in DOMAIN ms}) /\ ms # <<>>
<1> DEFINE arr == tbl["models"].array
           ms == [i \in DOMAIN arr |-> arr[i].string]
<1>1. BackendConfig(tbl).models = ms
  BY BackendFields, SMTT(30)
<1>2. arr # <<>> /\ arr \in Seq({arr[i] : i \in DOMAIN arr})
  BY DEF IsBackendTable, parse_backend, IsArray, IsSequence
<1>3. DOMAIN arr = 1..Len(arr) /\ Len(arr) \in Nat /\ Len(arr) > 0
  BY <1>2
<1> HIDE DEF arr
<1>4. ms \in Seq({ms[k] : k \in DOMAIN ms}) /\ Len(ms) = Len(arr)
  BY <1>3
<1> HIDE DEF ms
<1>5. ms # <<>>
  BY <1>3, <1>4, SMTT(30)
<1> QED
  BY <1>1, <1>4, <1>5

\* Numbers in their ranges in [server].
LEMMA ServerFields ==
    ASSUME NEW tree, parse_server(tree)
    PROVE  /\ ConfigOf(tree).server.max_concurrent_streams >= 1
           /\ ConfigOf(tree).server.queue_depth >= 0
<1> DEFINE tbl == Section(tree, "server")
           f == [listen |-> StringOr(tbl, "listen", "0.0.0.0")]
           g == IntegersOf(tbl, ServerSettings)
<1>1. ConfigOf(tree).server = Join(f, g)
  BY DEF ConfigOf
<1>2. opt_ints(tbl, ServerSettings)
  BY DEF parse_server
<1>3. DOMAIN f = {"listen"}
  OBVIOUS
<1>4. "max_concurrent_streams" \in DOMAIN ServerSettings /\ "queue_depth" \in DOMAIN ServerSettings
  BY DEF ServerSettings
<1>5. /\ ServerSettings["max_concurrent_streams"] = Setting(256, 1, 1000000)
      /\ ServerSettings["queue_depth"] = Setting(64, 0, 1000000)
  BY SMTT(30) DEF ServerSettings
<1> HIDE DEF tbl, f
<1>6. "max_concurrent_streams" \in DOMAIN g /\ g["max_concurrent_streams"] >= 1
  BY <1>2, <1>4, <1>5, IntegersGiven, SMTT(30) DEF opt_ints, opt_int, Setting
<1>7. "queue_depth" \in DOMAIN g /\ g["queue_depth"] >= 0
  BY <1>2, <1>4, <1>5, IntegersGiven, SMTT(30) DEF opt_ints, opt_int, Setting
<1> HIDE DEF g
<1>8. /\ Join(f, g)["max_concurrent_streams"] = g["max_concurrent_streams"]
      /\ Join(f, g)["queue_depth"] = g["queue_depth"]
  BY <1>3, <1>6, <1>7 DEF Join
<1> QED
  BY <1>1, <1>6, <1>7, <1>8, SMTT(30)

\* Numbers in their ranges in [routing]; NaN is the empty set.
LEMMA RoutingFields ==
    ASSUME NEW tree, IsTree(tree), parse_routing(tree)
    PROVE  /\ ConfigOf(tree).routing.prefix_bytes >= 1
           /\ \A v \in ConfigOf(tree).routing.load_threshold : 0 <= v /\ v <= 10
<1> DEFINE tbl == Section(tree, "routing")
           threshold == IF Has(tbl, "load_threshold")
                        THEN AsDouble(tbl["load_threshold"]) ELSE {8}
           f == [policy |-> StringOr(tbl, "policy", "prefix_affinity"),
                 load_threshold |-> threshold]
           g == IntegersOf(tbl, RoutingSettings)
<1>1. ConfigOf(tree).routing = Join(f, g)
  BY DEF ConfigOf
<1>2. opt_ints(tbl, RoutingSettings) /\ opt_double(tbl, "load_threshold", 0, 10)
  BY DEF parse_routing
<1>3. DOMAIN f = {"policy", "load_threshold"} /\ f["load_threshold"] = threshold
  OBVIOUS
<1>4. "prefix_bytes" \in DOMAIN RoutingSettings
      /\ RoutingSettings["prefix_bytes"] = Setting(1024, 1, 1048576)
  BY DEF RoutingSettings
<1>5. IsTable(tbl)
  <2>1. CASE Has(tree, "routing")
    BY <2>1, SMTT(30) DEF parse_routing, SectionIsTable, Section, IsTree, Has
  <2>2. CASE ~Has(tree, "routing")
    BY <2>2, SMTT(30) DEF Section, NoKeys, IsTable
  <2> QED
    BY <2>1, <2>2
<1> HIDE DEF tbl, f
<1>6. "prefix_bytes" \in DOMAIN g /\ g["prefix_bytes"] >= 1
  BY <1>2, <1>4, IntegersGiven, SMTT(30) DEF opt_ints, opt_int, Setting
<1>7. \A v \in threshold : 0 <= v /\ v <= 10
  <2>1. CASE Has(tbl, "load_threshold")
    <3>1. IsNode(tbl["load_threshold"])
      BY <1>5, <2>1 DEF IsTable, Has
    <3>2. AsDouble(tbl["load_threshold"]) \subseteq Int
      BY <1>2, <2>1, <3>1 DEF IsNode, AsDouble, opt_double
    <3> QED
      BY <1>2, <2>1, <3>2 DEF opt_double
  <2>2. CASE ~Has(tbl, "load_threshold")
    BY <2>2
  <2> QED
    BY <2>1, <2>2
<1> HIDE DEF g, threshold
<1>8. /\ Join(f, g)["prefix_bytes"] = g["prefix_bytes"]
      /\ Join(f, g)["load_threshold"] = f["load_threshold"]
  BY <1>3, <1>6 DEF Join
<1> QED
  BY <1>1, <1>3, <1>6, <1>7, <1>8, SMTT(30)

\* An accepted configuration is one the gateway can work with.
LEMMA Usable == MainInv => AcceptedIsUsable
<1> SUFFICES ASSUME MainInv, stage = "loaded" PROVE AcceptedIsUsable
  BY Zenon DEF AcceptedIsUsable
<1> DEFINE arr == root["backends"].array
           b == cfg[1].backends
           T == {b[i] : i \in DOMAIN b}
<1>1. IsTree(root) /\ validate(root) /\ cfg[1] = ConfigOf(root)
  BY DEF MainInv
<1>2. parse_server(root) /\ parse_routing(root) /\ parse_backends(root)
  BY <1>1, SMTT(30) DEF validate
<1>3. b = [i \in DOMAIN arr |-> BackendConfig(arr[i].table)]
  BY <1>1, BackendsRead, Zenon DEF BackendsOf
<1>4. /\ arr # <<>> /\ IsArray(arr)
      /\ \A i, j \in DOMAIN arr :
            i # j => arr[i].table["name"].string # arr[j].table["name"].string
  BY <1>1, <1>2, Zenon DEF parse_backends, IsTree, Has
<1>5. \A i \in DOMAIN arr : IsBackendTable(arr[i].table) /\ parse_backend(arr[i].table)
  BY <1>1, <1>2, BackendTable
<1> HIDE DEF arr
<1>6. DOMAIN arr = 1..Len(arr) /\ Len(arr) \in Nat /\ Len(arr) > 0
  BY <1>4 DEF IsArray, IsSequence
<1> HIDE DEF b
<1>7. DOMAIN b = 1..Len(arr) /\ \A i \in 1..Len(arr) : b[i] = BackendConfig(arr[i].table)
  BY <1>3, <1>6
<1>8. b \in Seq(T) /\ Len(b) = Len(arr)
  BY <1>3, <1>6, <1>7
<1>9. b # <<>>
  BY <1>6, <1>8
<1>10. ASSUME NEW i \in DOMAIN b
       PROVE  /\ b[i].max_in_flight >= 1
              /\ b[i].failure_threshold >= 1 /\ b[i].open_ms >= 1
              /\ b[i].health_interval_ms >= 100
              /\ b[i].models # <<>> /\ b[i].models \in Seq({b[i].models[k] : k \in DOMAIN b[i].models})
  <2>1. b[i] = BackendConfig(arr[i].table) /\ IsBackendTable(arr[i].table)
        /\ parse_backend(arr[i].table)
    BY <1>5, <1>6, <1>7
  <2> DEFINE c == BackendConfig(arr[i].table)
  <2>2. /\ c.max_in_flight >= 1 /\ c.failure_threshold >= 1 /\ c.open_ms >= 1
        /\ c.health_interval_ms >= 100
    BY <2>1, BackendFields, ZenonT(60)
  <2>3. c.models # <<>> /\ c.models \in Seq({c.models[k] : k \in DOMAIN c.models})
    BY <2>1, ModelsOfEntry
  <2> HIDE DEF c
  <2>4. b[i] = c
    BY <2>1 DEF c
  <2> QED
    BY <2>2, <2>3, <2>4, ZenonT(60)
<1>11. Cardinality({b[i].name : i \in DOMAIN b}) = Len(b)
  <2> DEFINE N == {b[i].name : i \in DOMAIN b}
             F == [i \in 1..Len(b) |-> b[i].name]
  <2>1. ASSUME NEW i \in DOMAIN b PROVE b[i].name = arr[i].table["name"].string
    <3>1. b[i] = BackendConfig(arr[i].table) /\ parse_backend(arr[i].table)
      BY <1>5, <1>6, <1>7
    <3>2. BackendConfig(arr[i].table).name = arr[i].table["name"].string
      BY <3>1, BackendFields, ZenonT(60)
    <3> QED
      BY <3>1, <3>2, Zenon
  <2>2. F \in [1..Len(b) -> N] /\ Len(b) \in Nat
    BY <1>6, <1>7, <1>8
  <2>3. \A k, l \in 1..Len(b) : k # l => F[k] # F[l]
    BY <1>4, <1>6, <1>7, <1>8, <2>1, SMTT(30)
  <2>4. \A t \in N : \E k \in 1..Len(b) : F[k] = t
    BY <1>7, <1>8
  <2> HIDE DEF N, F
  <2>5. Cardinality(N) = Len(b)
    BY <2>2, <2>3, <2>4, CountDifferent, SMTT(30)
  <2> QED
    BY <2>5 DEF N
<1>12. ModelsAreServable(b)
  <2>1. ASSUME NEW i \in DOMAIN b PROVE b[i].models \in Seq(AllModels(b))
    <3>1. {b[i].models[k] : k \in DOMAIN b[i].models} \subseteq AllModels(b)
      BY DEF AllModels
    <3>2. \A A, B : A \subseteq B => Seq(A) \subseteq Seq(B)
      OBVIOUS
    <3>3. b[i].models \in Seq({b[i].models[k] : k \in DOMAIN b[i].models})
      BY <1>10, Zenon
    <3> HIDE DEF b
    <3> QED
      BY <3>1, <3>2, <3>3, Zenon
  <2> QED
    BY <1>8, <2>1, Servable, SMTT(30)
<1>13. cfg[1].server.max_concurrent_streams >= 1 /\ cfg[1].server.queue_depth >= 0
  BY <1>1, <1>2, ServerFields
<1>14. /\ cfg[1].routing.prefix_bytes >= 1
       /\ \A v \in cfg[1].routing.load_threshold : 0 <= v /\ v <= 10
  BY <1>1, <1>2, RoutingFields, Zenon
<1> QED
  BY <1>9, <1>10, <1>11, <1>12, <1>13, <1>14, ZenonT(60) DEF AcceptedIsUsable, b

-----------------------------------------------------------------------------
SessionStates == {"closed", "reading", "chat", "simple", "refusing"}

\* The chat requests in progress are finitely many and in_flight_ counts them:
\* this is what the poll of the Drainer relies on.
Counted ==
    /\ session \in [Connections -> SessionStates]
    /\ in_flight \in Nat
    /\ IsFiniteSet(Chatting)
    /\ InFlightCountsChats

\* A round that asks GET /health is not one of an Ollama backend.
RoundFitsType ==
    /\ server \in {"down", "loading", "failing", "ready"}
    /\ pc = "health" => type # "ollama"

\* That the drain is graceful follows from the count, which every handler keeps.
IInv == Counted /\ DrainIsGraceful /\ RoundFitsType

\* At the start no session is chatting.
LEMMA InitIInv == ProcessInit => IInv
<1> SUFFICES ASSUME ProcessInit PROVE IInv
  OBVIOUS
<1>1. session \in [Connections -> SessionStates] /\ Chatting = {}
  BY DEF ProcessInit, Init, SessionStates, Chatting
<1>2. Counted
  BY <1>1, FS_EmptySet DEF ProcessInit, Init, Counted, InFlightCountsChats
<1>3. DrainIsGraceful
  BY <1>1 DEF DrainIsGraceful
<1>4. RoundFitsType
  BY DEF ProcessInit, Monitor!Init, RoundFitsType
<1> QED
  BY <1>2, <1>3, <1>4 DEF IInv

\* A session that goes on to a state other than "chat", from one other than
\* "chat", does not change who is counted.
LEMMA NotChatting ==
    ASSUME Counted, NEW c \in Connections, NEW s \in SessionStates \ {"chat"},
           session[c] # "chat", session' = [session EXCEPT ![c] = s],
           UNCHANGED in_flight
    PROVE  Counted' /\ Chatting' = Chatting
<1>1. session' \in [Connections -> SessionStates]
  BY DEF Counted
<1>2. Chatting' = Chatting
  BY DEF Counted, Chatting
<1> QED
  BY <1>1, <1>2 DEF Counted, InFlightCountsChats

\* A chat request that ends is counted down once, however it ends.
LEMMA ChatEnds ==
    ASSUME Counted, NEW c \in Connections, NEW s \in SessionStates \ {"chat"},
           session[c] = "chat", session' = [session EXCEPT ![c] = s],
           in_flight' = in_flight - 1
    PROVE  Counted'
<1>1. session' \in [Connections -> SessionStates]
  BY DEF Counted
<1>2. c \in Chatting /\ Chatting' = Chatting \ {c}
  BY DEF Counted, Chatting
<1>3. IsFiniteSet(Chatting') /\ Cardinality(Chatting') = Cardinality(Chatting) - 1
  BY <1>2, FS_RemoveElement DEF Counted
<1>4. Cardinality(Chatting') \in Nat
  BY <1>3, FS_CardinalityType
<1> QED
  BY <1>1, <1>3, <1>4 DEF Counted, InFlightCountsChats

\* A chat request that begins is counted up.
LEMMA ChatBegins ==
    ASSUME Counted, NEW c \in Connections,
           session[c] # "chat", session' = [session EXCEPT ![c] = "chat"],
           in_flight' = in_flight + 1
    PROVE  Counted'
<1>1. session' \in [Connections -> SessionStates]
  BY DEF Counted, SessionStates
<1>2. c \notin Chatting /\ Chatting' = Chatting \cup {c}
  BY DEF Counted, Chatting
<1>3. IsFiniteSet(Chatting') /\ Cardinality(Chatting') = Cardinality(Chatting) + 1
  BY <1>2, FS_AddElement, SMTT(30) DEF Counted
<1> QED
  BY <1>1, <1>3 DEF Counted, InFlightCountsChats

\* Handlers of the listeners and sessions run only before ioc.stop() and keep
\* the count.
LEMMA ServeKeeps ==
    ASSUME Counted, Serve
    PROVE  Counted' /\ ~stopped /\ UNCHANGED stopped
<1> USE DEF SessionStates
<1>1. CASE Listen \/ ListenMetrics \/ AcceptScrape \/ ScrapeRead \/ ScrapeEnds
  BY <1>1 DEF Listen, ListenMetrics, AcceptScrape, ScrapeRead, ScrapeEnds, Counted,
              InFlightCountsChats, Chatting
<1>2. ASSUME NEW c \in Connections, Accept(c) \/ ReadFails(c)
      PROVE  Counted' /\ ~stopped /\ UNCHANGED stopped
  BY <1>2, NotChatting DEF Accept, ReadFails
<1>3. ASSUME NEW c \in Connections, ReadRequest(c)
      PROVE  Counted' /\ ~stopped /\ UNCHANGED stopped
  BY <1>3, NotChatting, ChatBegins DEF ReadRequest
<1>4. ASSUME NEW c \in Connections, ChatThrows(c) \/ ChatReturns(c)
      PROVE  Counted' /\ ~stopped /\ UNCHANGED stopped
  BY <1>4, ChatEnds DEF ChatThrows, ChatReturns
<1>5. ASSUME NEW c \in Connections, ResponseEnds(c)
      PROVE  Counted' /\ ~stopped /\ UNCHANGED stopped
  BY <1>5, NotChatting DEF ResponseEnds
<1> QED
  BY <1>1, <1>2, <1>3, <1>4, <1>5 DEF Serve

\* The poll stops the io_context only when nothing is in flight or the deadline
\* is over.
LEMMA PollIsGraceful ==
    ASSUME Counted, Poll, UNCHANGED <<session, in_flight, deadline>>
    PROVE  Counted' /\ DrainIsGraceful'
<1>1. Counted' /\ Chatting' = Chatting
  BY DEF Counted, InFlightCountsChats, Chatting
<1>2. stopped' => in_flight = 0 \/ deadline
  BY Zenon DEF Poll, DrainOver
<1>3. in_flight = 0 => Chatting = {}
  BY FS_EmptySet, ZenonT(60) DEF Counted, InFlightCountsChats
<1> QED
  BY <1>1, <1>2, <1>3 DEF DrainIsGraceful

\* Every step of the process keeps the invariant.
LEMMA NextIInv == IInv /\ [ProcessNext]_allVars => IInv'
<1> SUFFICES ASSUME IInv, [ProcessNext]_allVars PROVE IInv'
  OBVIOUS
<1>1. Counted /\ DrainIsGraceful /\ RoundFitsType
  BY DEF IInv
<1>2. ASSUME UNCHANGED vars PROVE Counted' /\ DrainIsGraceful'
  BY <1>1, <1>2 DEF vars, Counted, InFlightCountsChats, Chatting, DrainIsGraceful
<1>3. ASSUME UNCHANGED monitorVars PROVE RoundFitsType'
  BY <1>1, <1>3 DEF monitorVars, RoundFitsType
<1>4. CASE Prepare
  BY <1>4, <1>2, <1>3, SMTT(30) DEF Prepare, IInv
<1>5. CASE EnterLoop
  <2>1. ASSUME NEW t, Monitor!Start(t) PROVE RoundFitsType'
    BY <2>1, <1>1 DEF Monitor!Start, Monitor!FirstProbe, RoundFitsType
  <2> QED
    BY <1>5, <2>1, <1>2, <1>3 DEF EnterLoop, IInv
<1>6. CASE SignalHandler
  <2>1. Counted' /\ DrainIsGraceful'
    BY <1>1, <1>6, PollIsGraceful DEF SignalHandler, Signal
  <2>2. RoundFitsType'
    BY <1>1, <1>6 DEF SignalHandler, Monitor!Stop, RoundFitsType
  <2> QED
    BY <2>1, <2>2 DEF IInv
<1>7. CASE Probe
  <2>1. RoundFitsType'
    BY <1>1, <1>7 DEF Probe, Monitor!Run, Monitor!HealthReturns, Monitor!LiveReturns,
                      Monitor!TagsReturns, Monitor!TimerFires, Monitor!FirstProbe,
                      RoundFitsType
  <2> QED
    BY <1>7, <2>1, <1>2, SMTT(30) DEF Probe, IInv
<1>8. CASE Handle(Serve)
  <2>1. Serve /\ UNCHANGED monitorVars
    BY <1>8 DEF Handle
  <2>2. Counted' /\ ~stopped /\ UNCHANGED stopped
    BY <2>1, <1>1, ServeKeeps
  <2>3. DrainIsGraceful'
    BY <2>2 DEF DrainIsGraceful
  <2> QED
    BY <2>1, <2>2, <2>3, <1>3 DEF IInv
<1>9. CASE Handle(PollAgain)
  BY <1>1, <1>3, <1>9, PollIsGraceful, SMTT(30) DEF Handle, PollAgain, IInv
<1>10. CASE Handle(DeadlinePasses)
  <2>1. Counted' /\ DrainIsGraceful'
    BY <1>1, <1>10 DEF Handle, DeadlinePasses, Counted, InFlightCountsChats, Chatting,
                       DrainIsGraceful
  <2> QED
    BY <1>3, <1>10, <2>1 DEF Handle, IInv
<1>11. CASE Monitor!ServerChanges /\ UNCHANGED <<vars, mainVars>>
  BY <1>1, <1>2, <1>11 DEF Monitor!ServerChanges, RoundFitsType, IInv
<1>12. CASE UNCHANGED allVars
  BY <1>2, <1>3, <1>12 DEF allVars, IInv
<1> QED
  BY <1>4, <1>5, <1>6, <1>7, <1>8, <1>9, <1>10, <1>11, <1>12 DEF ProcessNext

\* The inductive invariant holds in every state of every behaviour.
LEMMA Invariance == ProcessSpec => []IInv
BY InitIInv, NextIInv, PTL DEF ProcessSpec

-----------------------------------------------------------------------------
\* ioc.stop() comes only when no chat request is in progress or the drain
\* window is over, with any number of connections.
THEOREM ProcessDrainsGracefully == ProcessSpec => []DrainIsGraceful
<1>1. IInv => DrainIsGraceful
  BY DEF IInv
<1> QED
  BY <1>1, Invariance, PTL

\* Gateway::in_flight() is the number of chat requests in progress.
THEOREM ProcessCountsChats == ProcessSpec => []InFlightCountsChats
<1>1. IInv => InFlightCountsChats
  BY DEF IInv, Counted
<1> QED
  BY <1>1, Invariance, PTL

\* Only a round that saw the backend ready, and an Ollama banner, publishes
\* Healthy.
THEOREM ProcessPublishesEarnedHealth == ProcessSpec => HealthyIsEarned
<1>1. IInv /\ [ProcessNext]_allVars =>
        [(state' = "Healthy" /\ pc \in {"health", "ready"} /\ pc' = "timer") =>
            /\ server = "ready"
            /\ type = "ollama" => live.banner]_allVars
  <2> SUFFICES ASSUME IInv, ProcessNext, state' = "Healthy",
                      pc \in {"health", "ready"}, pc' = "timer"
               PROVE  server = "ready" /\ (type = "ollama" => live.banner)
    BY DEF allVars, monitorVars
  <2>1. RoundFitsType
    BY DEF IInv
  <2>2. CASE Monitor!HealthReturns
    <3>1. PICK a \in Monitor!HealthAnswers :
                 Monitor!evaluate_health_endpoint(a) = "Healthy"
      BY <2>2 DEF Monitor!HealthReturns
    <3>2. a.http_status = 200
      BY <3>1 DEF Monitor!evaluate_health_endpoint
    <3>3. server = "ready"
      BY <3>1, <3>2, <2>1 DEF Monitor!HealthAnswers, Monitor!Answer, Monitor!NoAnswer,
                              RoundFitsType
    <3> QED
      BY <3>3, <2>1, <2>2 DEF RoundFitsType, Monitor!HealthReturns
  <2>3. CASE Monitor!TagsReturns
    <3>1. PICK a \in Monitor!TagsAnswers :
                 Monitor!evaluate_ollama(live, a) = "Healthy"
      BY <2>3 DEF Monitor!TagsReturns
    <3>2. a.http_status = 200 /\ live.banner
      BY <3>1 DEF Monitor!evaluate_ollama
    <3>3. server = "ready"
      BY <3>1, <3>2, <2>1 DEF Monitor!TagsAnswers, Monitor!Answer, Monitor!NoAnswer,
                              RoundFitsType
    <3> QED
      BY <3>2, <3>3
  <2>4. Monitor!HealthReturns \/ Monitor!TagsReturns
    <3>1. pc' # pc
      OBVIOUS
    <3>2. ~Prepare /\ ~SignalHandler /\ ~Handle(Serve) /\ ~Handle(PollAgain)
          /\ ~Handle(DeadlinePasses) /\ ~Monitor!ServerChanges
      BY <3>1 DEF Prepare, SignalHandler, Handle, monitorVars, Monitor!Stop,
                  Monitor!ServerChanges
    <3>3. ~EnterLoop
      BY <3>1 DEF EnterLoop, monitorVars, Monitor!Start
    <3>4. Probe
      BY <3>2, <3>3, SMTT(30) DEF ProcessNext
    <3> QED
      BY <3>4 DEF Probe, Monitor!Run, Monitor!LiveReturns, Monitor!TimerFires
  <2> QED
    BY <2>2, <2>3, <2>4
<1> QED
  BY <1>1, Invariance, PTL DEF ProcessSpec, HealthyIsEarned

-----------------------------------------------------------------------------
\* main() keeps MainInv until ioc.run(), and nothing else touches its variables.
LEMMA MainInvariance == ProcessSpec => []MainInv
<1>1. ProcessInit => MainInv
  BY InitMainInv DEF ProcessInit
<1>2. [ProcessNext]_allVars => MainSteps
  BY DEF ProcessNext, allVars, mainVars, MainSteps, Prepare, EnterLoop, SignalHandler, Probe,
         Handle
<1>3. MainInv /\ [ProcessNext]_allVars => MainInv'
  BY <1>2, MainStepsKeep
<1> QED
  BY <1>1, <1>3, PTL DEF ProcessSpec

\* Each key of the file is a member of Config with the value given, whatever
\* the file.
THEOREM ProcessReadsEverySetting == ProcessSpec => []EverySettingIsRead
BY MainInvariance, EverythingRead, PTL

\* Each backend is dialled at the authority of its base_url.
THEOREM ProcessDialsTheAuthority == ProcessSpec => []TargetIsTheAuthority
BY MainInvariance, DialledWhereWritten, PTL

\* A configuration that is accepted is one the gateway can work with, and
\* /v1/models lists each model of its backends once, in first-seen order.
THEOREM ProcessAcceptsUsable == ProcessSpec => []AcceptedIsUsable
BY MainInvariance, Usable, PTL
=============================================================================
