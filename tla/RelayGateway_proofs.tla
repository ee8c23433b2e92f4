------------------------ MODULE RelayGateway_proofs --------------------------
(***************************************************************************)
(* StreamRelay implements Gateway: the initial state of a relayed request  *)
(* maps to an initial state, and each of its steps to the step of Gateway  *)
(* that foresees it or to none, for any number of chunks and reads.        *)
(* StreamRelay_proofs says what Gateway sees of every step of the relay;   *)
(* here each such sight is matched with an action of Gateway.              *)
(***************************************************************************)
EXTENDS RelayGateway, StreamRelay_proofs, TLAPS

(***************************************************************************)
(* Steps of Gateway, from what it sees before and after                    *)
(***************************************************************************)

\* The locals are a record of these fields.
Labels == {"pc", "stream", "serving", "order", "pos", "attempts", "is_probe",
           "header_started", "final_code", "slot", "outcome"}

IsFrame(l) == l = [k \in Labels |-> l[k]]

\* Two such records are equal if their fields are.
SameFields(x, y) ==
    /\ x.pc = y.pc /\ x.stream = y.stream /\ x.serving = y.serving /\ x.order = y.order
    /\ x.pos = y.pos /\ x.attempts = y.attempts /\ x.is_probe = y.is_probe
    /\ x.header_started = y.header_started /\ x.final_code = y.final_code
    /\ x.slot = y.slot /\ x.outcome = y.outcome

\* (as said)
LEMMA SameFrames ==
    ASSUME NEW x, NEW y, IsFrame(x), IsFrame(y), SameFields(x, y)
    PROVE  x = y
<1>1. \A k \in Labels : x[k] = y[k]
  BY DEF Labels, SameFields
<1> QED
  BY <1>1 DEF IsFrame

\* Those of an idle connection and of a call.
LEMMA Frames ==
    /\ IsFrame(IdleLocals)
    /\ \A stream, started : IsFrame(CallLocals(stream, started))
<1>1. IsFrame(IdleLocals)
  BY DEF IsFrame, IdleLocals, Labels
<1>2. ASSUME NEW l, IsFrame(l), NEW a, NEW b, NEW c, NEW d, NEW e, NEW f, NEW g
      PROVE  IsFrame([l EXCEPT !.pc = a, !.stream = b, !.order = c, !.pos = d,
                               !.attempts = e, !.header_started = f, !.slot = g])
  BY <1>2, ZenonT(60) DEF IsFrame
<1>3. ASSUME NEW stream, NEW started
      PROVE  IsFrame(CallLocals(stream, started))
  BY <1>1, <1>2, Zenon DEF CallLocals
<1> QED
  BY <1>1, <1>3

\* The header is sent.
LEMMA HeaderSent ==
    ASSUME NEW stream
    PROVE  [CallLocals(stream, FALSE) EXCEPT !.header_started = TRUE] = CallLocals(stream, TRUE)
<1> DEFINE x == [CallLocals(stream, FALSE) EXCEPT !.header_started = TRUE]
           y == CallLocals(stream, TRUE)
<1>1. SameFields(x, y)
  BY SMT DEF CallLocals, IdleLocals, SameFields
<1>2. IsFrame(x) /\ IsFrame(y)
  <2>1. IsFrame(CallLocals(stream, FALSE))
    BY Frames, Zenon
  <2>2. IsFrame(x)
    BY <2>1, ZenonT(60) DEF IsFrame
  <2> QED
    BY <2>2, Frames, Zenon
<1> HIDE DEF x, y
<1>3. x = y
  BY <1>1, <1>2, SameFrames
<1> QED
  BY <1>3 DEF x, y

\* The walk of a request that was parsed dispatches it.
LEMMA CallBegins ==
    ASSUME NEW stream
    PROVE  [[Gw!Arrival(stream, {"b"}) EXCEPT !.serving = {}, !.order = <<"b">>]
               EXCEPT !.pc = "upstream", !.pos = 1, !.slot = {"b"}, !.attempts = 1,
                      !.is_probe = FALSE]
             = CallLocals(stream, FALSE)
<1> DEFINE w == [[IdleLocals EXCEPT !.stream = stream, !.serving = {"b"}]
                    EXCEPT !.serving = {}, !.order = <<"b">>]
           x == [w EXCEPT !.pc = "upstream", !.pos = 1, !.slot = {"b"}, !.attempts = 1,
                          !.is_probe = FALSE]
           y == CallLocals(stream, FALSE)
<1>1. SameFields(x, y)
  BY SMT DEF CallLocals, IdleLocals, SameFields
<1>2. IsFrame(y)
  BY Frames, Zenon
<1>3. IsFrame(x)
  <2>1. ASSUME NEW l, IsFrame(l), NEW a, NEW b, NEW c, NEW d
        PROVE  IsFrame([[l EXCEPT !.stream = a, !.serving = b] EXCEPT !.serving = c, !.order = d])
    BY <2>1, ZenonT(60) DEF IsFrame
  <2>2. ASSUME NEW l, IsFrame(l), NEW a, NEW b, NEW c, NEW d, NEW e
        PROVE  IsFrame([l EXCEPT !.pc = a, !.pos = b, !.slot = c, !.attempts = d,
                                 !.is_probe = e])
    BY <2>2, ZenonT(60) DEF IsFrame
  <2>3. IsFrame(w)
    BY <2>1, Frames, Zenon
  <2> HIDE DEF w
  <2> QED
    BY <2>2, <2>3, ZenonT(60)
<1>4. Gw!Arrival(stream, {"b"}) = [IdleLocals EXCEPT !.stream = stream, !.serving = {"b"}]
  BY Zenon DEF Gw!Arrival, Gw!Idle, IdleLocals
<1> HIDE DEF x, y
<1>5. x = y
  BY <1>1, <1>2, <1>3, SameFrames
<1> QED
  BY <1>4, <1>5, Zenon DEF x, y

\* What Gateway reads of a request outside its call.
LEMMA OtherFields ==
    ASSUME NEW slot, NEW code, NEW outcome
    PROVE  /\ WritingLocals(slot, code, outcome).pc = "writing"
           /\ WritingLocals(slot, code, outcome).slot = slot
           /\ IdleLocals.pc = "idle" /\ IdleLocals.slot = {}
           /\ BeginningLocals.pc = "beginning" /\ BeginningLocals.slot = {"b"}
           /\ Gw!Idle = IdleLocals
           /\ Gw!Writing(slot, code, outcome) = WritingLocals(slot, code, outcome)
  BY DEF WritingLocals, BeginningLocals, IdleLocals, Gw!Idle, Gw!Writing

\* One element counts as one.
LEMMA SingleCount ==
    ASSUME NEW x
    PROVE  Cardinality({x}) = 1
<1> DEFINE IsCount(c) ==
        c = [T \in SUBSET {x} |-> IF T = {} THEN 0 ELSE 1 + c[T \ {CHOOSE y : y \in T}]]
<1> DEFINE g == [T \in SUBSET {x} |-> IF T = {} THEN 0 ELSE 1]
<1>1. \A T \in SUBSET {x} : T = {} \/ T = {x}
  OBVIOUS
<1>2. (CHOOSE y : y \in {x}) = x
  OBVIOUS
<1>3. g[{}] = 0 /\ g[{x}] = 1
  OBVIOUS
<1>4. \A T \in SUBSET {x} : T # {} => T \ {CHOOSE y : y \in T} = {}
  BY <1>1, <1>2
<1>5. IsCount(g)
  BY <1>3, <1>4
<1>6. PICK c : IsCount(c) /\ c = CHOOSE d : IsCount(d)
  BY <1>5, Zenon
<1>7. Cardinality({x}) = c[{x}]
  BY <1>6, Zenon DEF Cardinality
<1>8. c[{}] = 0
  BY <1>6
<1>9. c[{x}] = 1 + c[{x} \ {CHOOSE y : y \in {x}}]
  BY <1>6
<1> QED
  BY <1>4, <1>7, <1>8, <1>9

\* Updates of a breaker, one field at a time ...
LEMMA StateUpdate ==
    ASSUME NEW s, NEW e, NEW f, NEW x
    PROVE  [Fields(s, e, f) EXCEPT !.state = x] = Fields(x, e, f)
  BY SMT DEF Fields

\* (the window's bit)
LEMMA ElapsedUpdate ==
    ASSUME NEW s, NEW e, NEW f, NEW x
    PROVE  [Fields(s, e, f) EXCEPT !.elapsed = x] = Fields(s, x, f)
  BY SMT DEF Fields

\* (the count of failures)
LEMMA FailuresUpdate ==
    ASSUME NEW s, NEW e, NEW f, NEW x
    PROVE  [Fields(s, e, f) EXCEPT !.consecutive_failures = x] = Fields(s, e, x)
  BY SMT DEF Fields

\* ... and told of an outcome.
LEMMA BreakerTold ==
    /\ Gw!OnSuccess(Brk(0), FALSE) = Brk(0)
    /\ Gw!OnFailure(Brk(0), FALSE) = Brk(1)
<1>1. Gw!OnSuccess(Brk(0), FALSE) = Brk(0)
  <2>1. [Brk(0) EXCEPT !.state = "Closed"] = Brk(0)
    BY StateUpdate, Zenon DEF Brk
  <2>2. [Brk(0) EXCEPT !.consecutive_failures = 0] = Brk(0)
    BY FailuresUpdate, Zenon DEF Brk
  <2>3. [Brk(0) EXCEPT !.elapsed = FALSE] = Brk(0)
    BY ElapsedUpdate, Zenon DEF Brk
  <2>4. Gw!OnSuccess(Brk(0), FALSE) =
            [[[Brk(0) EXCEPT !.state = "Closed"] EXCEPT !.consecutive_failures = 0]
                EXCEPT !.elapsed = FALSE]
    BY DEF Gw!OnSuccess
  <2> QED
    BY <2>1, <2>2, <2>3, <2>4, Zenon
<1>2. Gw!OnFailure(Brk(0), FALSE) = Brk(1)
  <2>1. Brk(0).state = "Closed" /\ Brk(0).consecutive_failures = 0
    BY DEF Brk, Fields
  <2>5. \A m, n : [Brk(m) EXCEPT !.consecutive_failures = n] = Brk(n)
    BY FailuresUpdate, Zenon DEF Brk
  <2>2. [Brk(0) EXCEPT !.consecutive_failures = 1] = Brk(1)
    BY <2>5
  <2>3. Brk(1).consecutive_failures = 1
    BY DEF Brk, Fields
  <2>4. Gw!CountFailure(Brk(0)) = Brk(1)
    BY <2>1, <2>2, <2>3 DEF Gw!CountFailure
  <2> QED
    BY <2>1, <2>4 DEF Gw!OnFailure
<1> QED
  BY <1>1, <1>2, Zenon

\* The breaker of a call that goes on, told of its end.
LEMMA Reports ==
    ASSUME NEW stream, NEW started, View(CallLocals(stream, started), 1, 0)
    PROVE  /\ Gw!Succeeded("r") = [b \in {"b"} |-> Brk(0)]
           /\ Gw!Failed("r") = [b \in {"b"} |-> Brk(1)]
<1>1. gw_req["r"] = CallLocals(stream, started)
  BY DEF View
<1>6. /\ CallLocals(stream, started).order = <<"b">> /\ CallLocals(stream, started).pos = 1
      /\ CallLocals(stream, started).is_probe = FALSE
  BY DEF CallLocals, IdleLocals
<1>2. Gw!Serving("r") = "b" /\ gw_req["r"].is_probe = FALSE
  BY <1>1, <1>6 DEF Gw!Serving
<1>3. gw_breaker = [b \in {"b"} |-> Brk(0)]
  BY SMTT(30) DEF View
<1> QED
  BY <1>2, <1>3, BreakerTold, Zenon DEF Gw!Succeeded, Gw!Failed

\* The call ends and an answer is written with the slot still held.
LEMMA Responds ==
    ASSUME NEW stream, NEW started, NEW code, NEW outcome, NEW f,
           View(CallLocals(stream, started), 1, 0),
           View(WritingLocals({"b"}, code, outcome), 1, f)',
           UNCHANGED gw_healthy
    PROVE  Gw!Respond("r", code, outcome, [b \in {"b"} |-> Brk(f)])
<1>6. CallLocals(stream, started).slot = {"b"}
  BY DEF CallLocals, IdleLocals
<1>7. WritingLocals({"b"}, code, outcome).slot = {"b"}
  BY OtherFields
<1>1. gw_req["r"] = CallLocals(stream, started) /\ gw_req["r"].slot = {"b"}
  BY <1>6 DEF View
<1>2. gw_req' = [gw_req EXCEPT !["r"] = WritingLocals({"b"}, code, outcome)]
  BY DEF View
<1>3. Gw!Writing({"b"}, code, outcome) = WritingLocals({"b"}, code, outcome)
  BY OtherFields
<1>4. gw_active' = gw_active /\ gw_in_flight' = gw_in_flight /\ gw_tickets' = gw_tickets
  BY <1>6, <1>7 DEF View
<1>5. gw_breaker' = [b \in {"b"} |-> Brk(f)]
  BY DEF View
<1> QED
  BY <1>1, <1>2, <1>3, <1>4, <1>5, ZenonT(60) DEF Gw!Respond, Gw!gateVars

\* Everything is given back.
LEMMA Leaves ==
    ASSUME NEW l, NEW t \in {0, 1}, NEW f, l.slot \in {{}, {"b"}},
           View(l, t, f), View(IdleLocals, 0, f)', UNCHANGED gw_healthy
    PROVE  Gw!Leave("r")
<1>1. gw_req["r"] = l /\ gw_req' = [gw_req EXCEPT !["r"] = Gw!Idle]
  BY OtherFields DEF View
<1>2. /\ gw_active' = [b \in {"b"} |-> 0]
      /\ gw_active = [b \in {"b"} |-> IF b \in l.slot THEN 1 ELSE 0]
  BY OtherFields, Zenon DEF View
<1>3. gw_active' = [b \in {"b"} |-> IF b \in l.slot THEN gw_active[b] - 1 ELSE gw_active[b]]
  BY <1>2
<1>4. UNCHANGED <<gw_breaker, gw_healthy>>
  BY DEF View
<1>5. IF "r" \in gw_tickets THEN Gw!Gate!Release("r") ELSE UNCHANGED Gw!gateVars
  <2>1. CASE t = 0
    BY <2>1 DEF View, Gw!gateVars
  <2>2. CASE t = 1
    BY <2>2, SMTT(30) DEF View, Gw!Gate!Release, Gw!Gate!FreeSlot
  <2> QED
    BY <2>1, <2>2
<1> QED
  BY <1>1, <1>3, <1>4, <1>5 DEF Gw!Leave

\* A request that is not parsed, or asks for a model nobody serves.
LEMMA Rejects ==
    ASSUME NEW code \in {400, 404}, View(IdleLocals, 0, 0),
           View(WritingLocals({}, code, "none"), 0, 0)', UNCHANGED gw_healthy
    PROVE  Gw!RejectEarly("r")
<1>1. gw_req["r"].pc = "idle"
  BY OtherFields DEF View
<1>2. gw_req' = [gw_req EXCEPT !["r"] = Gw!Writing({}, code, "none")]
  BY OtherFields DEF View
<1>4. IdleLocals.slot = {} /\ WritingLocals({}, code, "none").slot = {}
  BY OtherFields
<1>3. /\ gw_active' = gw_active /\ gw_in_flight' = gw_in_flight /\ gw_tickets' = gw_tickets
      /\ gw_breaker' = gw_breaker
  BY <1>4 DEF View
<1>5. \E c \in {400, 404} : gw_req' = [gw_req EXCEPT !["r"] = Gw!Writing({}, c, "none")]
  BY <1>2, ZenonT(60)
<1> QED
  BY <1>1, <1>3, <1>5, ZenonT(60) DEF Gw!RejectEarly, Gw!gateVars

\* A slot of the gate is free, and taken.
LEMMA Admits ==
    ASSUME NEW l, NEW m, NEW f, NEW g, View(l, 0, f), View(m, 1, g)'
    PROVE  Gw!Gate!AcquireNow("r")
  BY DEF View, Gw!Gate!AcquireNow, Gw!Gate!Outside, Gw!Gate!HasFreeSlot

\* The requests for the model of the one backend.
LEMMA SomeArrival ==
    ASSUME NEW stream \in BOOLEAN
    PROVE  Gw!Arrival(stream, {"b"}) \in Gw!Arrivals
<1>1. {"b"} \in {{"b"}}
  OBVIOUS
<1>2. \E k \in BOOLEAN : \E m \in {{"b"}} : Gw!Arrival(stream, {"b"}) = Gw!Arrival(k, m)
  BY <1>1, Zenon
<1>3. Gw!Arrivals = {Gw!Arrival(k, m) : k \in BOOLEAN, m \in {{"b"}}}
  BY DEF Gw!Arrivals
<1> QED
  BY <1>2, <1>3

\* Admitted with no backend to turn to.
LEMMA Unserved ==
    ASSUME View(IdleLocals, 0, 0), View(WritingLocals({}, 503, "none"), 1, 0)',
           gw_healthy = {}, UNCHANGED gw_healthy
    PROVE  Gw!ArriveAdmitted("r")
<1>1. gw_req["r"].pc = "idle"
  BY OtherFields DEF View
<1>2. gw_req' = [gw_req EXCEPT !["r"] = Gw!Writing({}, 503, "none")]
  BY OtherFields DEF View
<1>7. IdleLocals.slot = {} /\ WritingLocals({}, 503, "none").slot = {}
  BY OtherFields
<1>3. gw_active' = gw_active /\ gw_breaker' = gw_breaker
  BY <1>7 DEF View
<1> DEFINE q == Gw!Arrival(FALSE, {"b"})
<1>4. q \in Gw!Arrivals
  BY SomeArrival, ZenonT(60)
<1>5. Gw!Admitted("r", q)
  <2> HIDE DEF q
  <2> QED
    BY <1>2, <1>3 DEF Gw!Admitted
<1>6. \E x \in Gw!Arrivals : Gw!Admitted("r", x)
  BY <1>4, <1>5, ZenonT(60)
<1> QED
  BY <1>1, <1>6, Admits DEF Gw!ArriveAdmitted

\* Where the walk of one candidate goes.
LEMMA OneTaker ==
    /\ View(IdleLocals, 0, 0) => Gw!Takers(<<"b">>, 1, gw_breaker, gw_active) = {1}
    /\ \A brk, act : Gw!Takers(<<"b">>, 2, brk, act) = {}
<1>1. ASSUME View(IdleLocals, 0, 0)
      PROVE  Gw!Takers(<<"b">>, 1, gw_breaker, gw_active) = {1}
  <2>1. gw_breaker["b"].state = "Closed" /\ gw_active["b"] = 0
    BY <1>1, OtherFields, Zenon DEF View, Brk, Fields
  <2>2. Gw!Allows(gw_breaker["b"]) /\ Gw!HasRoom(gw_active, "b")
    BY <2>1 DEF Gw!Allows, Gw!HasRoom
  <2>3. Len(<<"b">>) = 1 /\ <<"b">>[1] = "b" /\ 1..1 = {1}
    OBVIOUS
  <2> QED
    BY <2>2, <2>3 DEF Gw!Takers
<1>2. \A brk, act : Gw!Takers(<<"b">>, 2, brk, act) = {}
  BY DEF Gw!Takers
<1> QED
  BY <1>1, <1>2

\* The one backend, in order.
LEMMA OneOrder == <<"b">> \in Gw!RouteOrders({"b"})
<1> DEFINE o == <<"b">>
<1>1. o \in [1..Cardinality({"b"}) -> {"b"}]
  BY SingleCount
<1>2. \A i, j \in DOMAIN o : o[i] = o[j] => i = j
  OBVIOUS
<1> HIDE DEF o
<1>3. o \in Gw!RouteOrders({"b"})
  <2>1. \A S : Gw!Cardinality(S) = Cardinality(S)
    BY DEF Gw!Cardinality, Cardinality
  <2> QED
    BY <1>1, <1>2, <2>1 DEF Gw!RouteOrders
<1> QED
  BY <1>3 DEF o

\* Admitted and dispatched.
LEMMA Dispatches ==
    ASSUME NEW stream \in BOOLEAN, View(IdleLocals, 0, 0), View(CallLocals(stream, FALSE), 1, 0)',
           gw_healthy = {"b"}, UNCHANGED gw_healthy
    PROVE  Gw!ArriveAdmitted("r")
<1>1. gw_req["r"].pc = "idle"
  BY OtherFields DEF View
<1> DEFINE a == Gw!Arrival(stream, {"b"})
           q == [a EXCEPT !.serving = {}, !.order = <<"b">>]
<1>2. a \in Gw!Arrivals /\ a.serving = {"b"}
  <2>1. a \in Gw!Arrivals
    BY SomeArrival
  <2>2. a.serving = {"b"}
    BY DEF Gw!Arrival, Gw!Idle
  <2> QED
    BY <2>1, <2>2
<1>3. q.order = <<"b">> /\ q.attempts = 0
  BY DEF Gw!Arrival, Gw!Idle
<1>4. gw_req' = [gw_req EXCEPT !["r"] =
           [q EXCEPT !.pc = "upstream", !.pos = 1, !.slot = {"b"}, !.attempts = 1,
                     !.is_probe = FALSE]]
  <2>1. gw_req' = [gw_req EXCEPT !["r"] = CallLocals(stream, FALSE)]
    BY Zenon DEF View
  <2> QED
    BY <2>1, CallBegins, Zenon
<1>5. gw_active' = [gw_active EXCEPT !["b"] = @ + 1]
  <2>1. CallLocals(stream, FALSE).slot = {"b"} /\ IdleLocals.slot = {}
    BY DEF CallLocals, IdleLocals
  <2>2. gw_active = [b \in {"b"} |-> 0] /\ gw_active' = [b \in {"b"} |-> 1]
    BY <2>1, Zenon DEF View
  <2> QED
    BY <2>2
<1>6. /\ gw_breaker' = gw_breaker /\ gw_breaker["b"].state = "Closed"
      /\ gw_breaker = [b \in {"b"} |-> gw_breaker[b]]
  BY DEF View, Brk, Fields
<1> HIDE DEF q
<1>7. Gw!Walk("r", q, 1, gw_breaker, gw_active)
  <2>1. ~Gw!IsProbe(gw_breaker["b"]) /\ Gw!AfterAllow(gw_breaker["b"]) = gw_breaker["b"]
    BY <1>6 DEF Gw!IsProbe, Gw!AfterAllow
  <2>2. Gw!AfterPassing(<<"b">>, 1, 0, gw_breaker) = gw_breaker
    BY <1>6 DEF Gw!AfterPassing
  <2>3. gw_breaker' = [Gw!AfterPassing(<<"b">>, 1, 1 - 1, gw_breaker)
                         EXCEPT ![<<"b">>[1]] = Gw!AfterAllow(@)]
    BY <1>6, <2>1, <2>2
  <2>4. Gw!IsProbe(gw_breaker["b"]) = FALSE
    BY <2>1 DEF Gw!IsProbe
  <2>5. gw_req' = [gw_req EXCEPT !["r"] =
           [q EXCEPT !.pc = "upstream", !.pos = 1, !.slot = {<<"b">>[1]}, !.attempts = @ + 1,
                     !.is_probe = Gw!IsProbe(gw_breaker[<<"b">>[1]])]]
    <3>1. <<"b">>[1] = "b" /\ q.attempts + 1 = 1
      BY <1>3
    <3> QED
      BY <1>4, <2>4, <3>1, Zenon
  <2>6. gw_active' = [gw_active EXCEPT ![<<"b">>[1]] = @ + 1]
    BY <1>5
  <2>7. Gw!Takers(<<"b">>, 1, gw_breaker, gw_active) = {1}
    BY OneTaker
  <2>8. q.attempts < Gw!max_attempts
    BY <1>3 DEF Gw!max_attempts
  <2> QED
    <3> DEFINE taken(o, n) ==
           /\ gw_breaker' = [Gw!AfterPassing(o, 1, n - 1, gw_breaker)
                               EXCEPT ![o[n]] = Gw!AfterAllow(@)]
           /\ gw_active' = [gw_active EXCEPT ![o[n]] = @ + 1]
           /\ gw_req' = [gw_req EXCEPT !["r"] =
                [q EXCEPT !.pc = "upstream", !.pos = n, !.slot = {o[n]}, !.attempts = @ + 1,
                          !.is_probe = Gw!IsProbe(gw_breaker[o[n]])]]
    <3>1. taken(<<"b">>, 1)
      BY <2>3, <2>5, <2>6, Zenon
    <3>2. taken(q.order, 1)
      <4> HIDE DEF taken
      <4> QED
        BY <1>3, <3>1
    <3>3. /\ 1 \in Gw!Takers(q.order, 1, gw_breaker, gw_active)
          /\ \A t \in Gw!Takers(q.order, 1, gw_breaker, gw_active) : 1 <= t
      BY <1>3, <2>7
    <3> QED
      BY <2>8, <3>2, <3>3, ZenonT(60) DEF Gw!Walk
<1>8. Gw!Admitted("r", a)
  <2>1. \E o \in Gw!RouteOrders({"b"}) :
           Gw!Walk("r", [a EXCEPT !.serving = {}, !.order = o], 1, gw_breaker, gw_active)
    BY <1>7, OneOrder, ZenonT(60) DEF q
  <2> HIDE DEF a
  <2>2. a.serving \cap gw_healthy = {"b"}
    BY <1>2
  <2> QED
    BY <2>1, <2>2, ZenonT(60) DEF Gw!Admitted
<1>9. \E x \in Gw!Arrivals : Gw!Admitted("r", x)
  BY <1>2, <1>8
<1> QED
  BY <1>1, <1>9, Admits, ZenonT(60) DEF Gw!ArriveAdmitted

\* A non-streaming request whose only backend refuses: the walk has run out.
LEMMA Refused ==
    ASSUME NEW started, View(CallLocals(FALSE, started), 1, 0),
           View(WritingLocals({}, 503, "none"), 1, 1)', UNCHANGED gw_healthy
    PROVE  Gw!UnaryRefused("r")
<1> DEFINE q == CallLocals(FALSE, started)
<1>1. gw_req["r"] = q /\ gw_active = [b \in {"b"} |-> IF b \in q.slot THEN 1 ELSE 0]
  BY DEF View
<1>2. /\ q.pc = "upstream" /\ q.stream = FALSE /\ q.order = <<"b">> /\ q.pos = 1
      /\ q.attempts = 1 /\ q.slot = {"b"}
  BY DEF CallLocals, IdleLocals
<1> HIDE DEF q
<1>3. Gw!Serving("r") = "b"
  BY <1>1, <1>2 DEF Gw!Serving
<1>4. Gw!Failed("r") = [b \in {"b"} |-> Brk(1)]
  BY Reports, ZenonT(60)
<1> DEFINE act == [gw_active EXCEPT !["b"] = @ - 1]
<1>5. gw_active' = act
  <2>1. WritingLocals({}, 503, "none").slot = {}
    BY OtherFields
  <2>2. gw_active = [b \in {"b"} |-> 1]
    BY <1>1, <1>2
  <2>3. gw_active' = [b \in {"b"} |-> 0]
    BY <2>1 DEF View
  <2> QED
    BY <2>2, <2>3
<1> DEFINE brk == [b \in {"b"} |-> Brk(1)]
<1>6. gw_breaker' = Gw!AfterPassing(<<"b">>, 2, 1, brk)
  <2>1. gw_breaker' = brk
    BY DEF View
  <2>2. Len(<<"b">>) = 1 /\ 2..1 = {}
    OBVIOUS
  <2>3. Gw!AfterPassing(<<"b">>, 2, 1, brk) = [d \in {"b"} |-> brk[d]]
    <3> HIDE DEF brk
    <3> QED
      BY <2>2 DEF Gw!AfterPassing
  <2> QED
    BY <2>1, <2>3
<1>7. gw_req' = [gw_req EXCEPT !["r"] = Gw!Writing({}, 503, "none")]
  BY OtherFields, SMTT(30) DEF View
<1>8. Gw!Walk("r", q, 2, brk, act)
  <2> HIDE DEF brk, act
  <2>1. q.attempts < Gw!max_attempts /\ Len(<<"b">>) = 1
    BY <1>2 DEF Gw!max_attempts
  <2>2. Gw!Takers(q.order, 2, brk, act) = {}
    BY <1>2, OneTaker
  <2>3. gw_breaker' = Gw!AfterPassing(q.order, 2, Len(q.order), brk)
    BY <1>2, <1>6, <2>1, SMTT(30)
  <2> QED
    BY <1>5, <1>7, <2>1, <2>2, <2>3, ZenonT(60) DEF Gw!Walk
<1>9. Gw!ContinueWalk("r")
  <2> HIDE DEF brk, act
  <2>1. q.pos + 1 = 2 /\ gw_req["r"] = q
    BY <1>1, <1>2
  <2>2. UNCHANGED <<gw_in_flight, gw_tickets>>
    BY DEF View
  <2>3. Gw!Failed("r") = brk /\ [gw_active EXCEPT ![Gw!Serving("r")] = @ - 1] = act
    BY <1>3, <1>4, ZenonT(60) DEF brk, act
  <2>4. Gw!Walk("r", gw_req["r"], gw_req["r"].pos + 1, Gw!Failed("r"),
                [gw_active EXCEPT ![Gw!Serving("r")] = @ - 1])
    BY <1>8, <2>1, <2>3, ZenonT(60)
  <2> QED
    BY <2>2, <2>4, Zenon DEF Gw!ContinueWalk, Gw!gateVars
<1> QED
  BY <1>1, <1>2, <1>9 DEF Gw!UnaryRefused, Gw!InCall

\* The header of a stream is sent.
LEMMA Firsts ==
    ASSUME View(CallLocals(TRUE, FALSE), 1, 0), View(CallLocals(TRUE, TRUE), 1, 0)',
           UNCHANGED gw_healthy
    PROVE  Gw!FirstFrame("r")
<1>1. /\ CallLocals(TRUE, FALSE).pc = "upstream" /\ CallLocals(TRUE, FALSE).stream = TRUE
      /\ CallLocals(TRUE, FALSE).header_started = FALSE
      /\ CallLocals(TRUE, FALSE).slot = {"b"} /\ CallLocals(TRUE, TRUE).slot = {"b"}
  BY DEF CallLocals, IdleLocals
<1>2. gw_req["r"] = CallLocals(TRUE, FALSE)
  BY DEF View
<1>3. Gw!InCall("r", TRUE) /\ ~gw_req["r"].header_started
  BY <1>1, <1>2, Zenon DEF Gw!InCall
<1>4. gw_req' = [gw_req EXCEPT !["r"].header_started = TRUE]
  <2>1. /\ gw_req' = [gw_req EXCEPT !["r"] = CallLocals(TRUE, TRUE)]
    BY Zenon DEF View
  <2>2. CallLocals(TRUE, TRUE) = [gw_req["r"] EXCEPT !.header_started = TRUE]
    BY <1>2, HeaderSent, ZenonT(60)
  <2> QED
    BY <2>1, <2>2, ZenonT(60)
<1>5. UNCHANGED <<gw_in_flight, gw_tickets, gw_breaker, gw_active>>
  BY <1>1, Zenon DEF View
<1> QED
  BY <1>3, <1>4, <1>5, ZenonT(60) DEF Gw!FirstFrame, Gw!gateVars

\* A stream with nothing in it begins its response again.
LEMMA Nothing ==
    ASSUME View(CallLocals(TRUE, FALSE), 1, 0), View(BeginningLocals, 1, 0)',
           UNCHANGED gw_healthy
    PROVE  Gw!StreamNothing("r")
<1>1. /\ CallLocals(TRUE, FALSE).pc = "upstream" /\ CallLocals(TRUE, FALSE).stream = TRUE
      /\ CallLocals(TRUE, FALSE).header_started = FALSE
      /\ CallLocals(TRUE, FALSE).slot = {"b"} /\ BeginningLocals.slot = {"b"}
  BY DEF CallLocals, IdleLocals, BeginningLocals
<1>2. gw_req["r"] = CallLocals(TRUE, FALSE)
  BY DEF View
<1>3. Gw!InCall("r", TRUE) /\ ~gw_req["r"].header_started
  BY <1>1, <1>2, Zenon DEF Gw!InCall
<1>4. gw_req' = [gw_req EXCEPT !["r"] = [Gw!Idle EXCEPT !.pc = "beginning",
                                                      !.slot = gw_req["r"].slot]]
  <2>1. gw_req' = [gw_req EXCEPT !["r"] = BeginningLocals]
    BY DEF View
  <2>2. BeginningLocals = [Gw!Idle EXCEPT !.pc = "beginning", !.slot = {"b"}]
    BY Zenon DEF BeginningLocals, IdleLocals, Gw!Idle
  <2>3. gw_req["r"].slot = {"b"}
    BY <1>1, <1>2, Zenon
  <2> QED
    BY <2>1, <2>2, <2>3, Zenon
<1>5. UNCHANGED <<gw_in_flight, gw_tickets, gw_active>>
  BY <1>1, Zenon DEF View
<1>6. gw_breaker' = Gw!Succeeded("r")
  BY Reports, ZenonT(60) DEF View
<1> QED
  BY <1>3, <1>4, <1>5, <1>6, ZenonT(60) DEF Gw!StreamNothing, Gw!gateVars

\* ... and this time sends the header.
LEMMA Again ==
    ASSUME NEW f, View(BeginningLocals, 1, f), View(WritingLocals({"b"}, 200, "none"), 1, f)',
           UNCHANGED gw_healthy
    PROVE  Gw!BeginAgain("r")
<1>1. /\ BeginningLocals.pc = "beginning" /\ BeginningLocals.slot = {"b"}
      /\ WritingLocals({"b"}, 200, "none").slot = {"b"}
      /\ Gw!Writing({"b"}, 200, "none") = WritingLocals({"b"}, 200, "none")
  BY OtherFields
<1>2. gw_req["r"] = BeginningLocals
  BY DEF View
<1>3. gw_req' = [gw_req EXCEPT !["r"] = WritingLocals({"b"}, 200, "none")]
  BY DEF View
<1>4. gw_req["r"].pc = "beginning" /\ gw_req["r"].slot = {"b"}
  BY <1>1, <1>2
<1>5. UNCHANGED <<gw_in_flight, gw_tickets, gw_active, gw_breaker>>
  BY <1>1 DEF View
<1> QED
  BY <1>1, <1>3, <1>4, <1>5, ZenonT(60) DEF Gw!BeginAgain, Gw!gateVars

\* The call of a stream ends and the response goes on to its end.
LEMMA StreamEnds ==
    ASSUME NEW started \in BOOLEAN, NEW code, NEW f \in {0, 1},
           View(CallLocals(TRUE, started), 1, 0),
           View(WritingLocals({"b"}, code, "none"), 1, f)', UNCHANGED gw_healthy
    PROVE  /\ ~started /\ f = 1 /\ code \in {400, 500, 502, 504} => Gw!StreamFailedEmpty("r")
           /\ started /\ f = 1 /\ code = 200 => Gw!StreamFailedMid("r")
           /\ started /\ f = 0 /\ code = 200 => Gw!StreamDone("r")
<1>1. /\ CallLocals(TRUE, started).pc = "upstream" /\ CallLocals(TRUE, started).stream = TRUE
      /\ CallLocals(TRUE, started).header_started = started
      /\ CallLocals(TRUE, started).pos = 1 /\ CallLocals(TRUE, started).order = <<"b">>
  BY DEF CallLocals, IdleLocals
<1>2. gw_req["r"] = CallLocals(TRUE, started)
  BY DEF View
<1>3. Gw!InCall("r", TRUE) /\ gw_req["r"].header_started = started
  BY <1>1, <1>2, Zenon DEF Gw!InCall
<1>4. ~Gw!MayRetry("r")
  <2>1. gw_req["r"].pos = 1 /\ gw_req["r"].order = <<"b">>
    BY <1>1, <1>2, Zenon
  <2>2. ~(1 < Len(<<"b">>))
    OBVIOUS
  <2> QED
    BY <2>1, <2>2, ZenonT(60) DEF Gw!MayRetry
<1>5. Gw!Respond("r", code, "none", [b \in {"b"} |-> Brk(f)])
  BY Responds, Zenon
<1>6. /\ Gw!Succeeded("r") = [b \in {"b"} |-> Brk(0)]
      /\ Gw!Failed("r") = [b \in {"b"} |-> Brk(1)]
  BY Reports, ZenonT(60)
<1>7. ASSUME ~started, f = 1, code \in {400, 500, 502, 504} PROVE Gw!StreamFailedEmpty("r")
  <2>1. Gw!Respond("r", code, "none", Gw!Failed("r"))
    BY <1>5, <1>6, <1>7, SMTT(30)
  <2>2. \E x \in Gw!Failures : code = Gw!ZeroByteStatus(x)
    <3>1. /\ Gw!ZeroByteStatus("client_error") = 400 /\ Gw!ZeroByteStatus("server_error") = 500
          /\ Gw!ZeroByteStatus("timeout") = 504 /\ Gw!ZeroByteStatus("cut") = 502
      BY DEF Gw!ZeroByteStatus
    <3> QED
      BY <1>7, <3>1 DEF Gw!Failures
  <2>3. \E x \in Gw!Failures :
           ~Gw!MayRetry("r") /\ Gw!Respond("r", Gw!ZeroByteStatus(x), "none", Gw!Failed("r"))
    BY <1>4, <2>1, <2>2, Zenon
  <2>4. ~gw_req["r"].header_started
    BY <1>3, <1>7, SMTT(30)
  <2> QED
    BY <1>3, <2>3, <2>4, Zenon DEF Gw!StreamFailedEmpty
<1>8. ASSUME started, f = 1, code = 200 PROVE Gw!StreamFailedMid("r")
  BY <1>3, <1>5, <1>6, <1>8, Zenon DEF Gw!StreamFailedMid
<1>9. ASSUME started, f = 0, code = 200 PROVE Gw!StreamDone("r")
  BY <1>3, <1>5, <1>6, <1>9, ZenonT(60) DEF Gw!StreamDone
<1> QED
  BY <1>7, <1>8, <1>9

\* A non-streaming call returns with an answer.
LEMMA UnaryEnds ==
    ASSUME NEW code, NEW f \in {0, 1}, NEW outcome,
           View(UnaryLocals, 1, 0),
           View(WritingLocals({"b"}, code, outcome), 1, f)', UNCHANGED gw_healthy
    PROVE  /\ f = 1 /\ code = 500 /\ outcome = "failed" => Gw!UnaryServerError("r")
           /\ f = 0 /\ code = 400 /\ outcome = "failed" => Gw!UnaryAnswered("r")
           /\ f = 0 /\ code = 200 /\ outcome \in {"ok", "cut"} => Gw!UnaryAnswered("r")
<1> USE DEF UnaryLocals
<1>1. /\ CallLocals(FALSE, FALSE).pc = "upstream" /\ CallLocals(FALSE, FALSE).stream = FALSE
      /\ CallLocals(FALSE, FALSE).pos = 1 /\ CallLocals(FALSE, FALSE).order = <<"b">>
  BY DEF CallLocals, IdleLocals
<1>2. gw_req["r"] = CallLocals(FALSE, FALSE)
  BY DEF View
<1>3. Gw!InCall("r", FALSE)
  BY <1>1, <1>2, Zenon DEF Gw!InCall
<1>4. ~Gw!MayRetry("r")
  <2>1. gw_req["r"].pos = 1 /\ gw_req["r"].order = <<"b">>
    BY <1>1, <1>2, Zenon
  <2>2. ~(1 < Len(<<"b">>))
    OBVIOUS
  <2> QED
    BY <2>1, <2>2, ZenonT(60) DEF Gw!MayRetry
<1>5. Gw!Respond("r", code, outcome, [b \in {"b"} |-> Brk(f)])
  BY Responds, Zenon
<1>6. /\ Gw!Succeeded("r") = [b \in {"b"} |-> Brk(0)]
      /\ Gw!Failed("r") = [b \in {"b"} |-> Brk(1)]
  BY Reports, ZenonT(60)
<1>7. ASSUME f = 1, code = 500, outcome = "failed" PROVE Gw!UnaryServerError("r")
  BY <1>3, <1>4, <1>5, <1>6, <1>7, ZenonT(60) DEF Gw!UnaryServerError
<1>8. ASSUME f = 0, code = 400, outcome = "failed" PROVE Gw!UnaryAnswered("r")
  BY <1>3, <1>5, <1>6, <1>8, ZenonT(60) DEF Gw!UnaryAnswered
<1>9. ASSUME f = 0, code = 200, outcome \in {"ok", "cut"} PROVE Gw!UnaryAnswered("r")
  <2>1. \E x \in {"ok", "cut"} : Gw!Respond("r", 200, x, Gw!Succeeded("r"))
    BY <1>5, <1>6, <1>9
  <2> QED
    BY <1>3, <2>1, ZenonT(60) DEF Gw!UnaryAnswered
<1> QED
  BY <1>7, <1>8, <1>9, SMTT(30)

\* Any of these steps is a step of Gateway.
LEMMA GatewaySteps ==
    /\ Gw!RejectEarly("r") \/ Gw!ArriveAdmitted("r") \/ Gw!FirstFrame("r") => Gw!Next
    /\ Gw!UnaryRefused("r") \/ Gw!UnaryServerError("r") \/ Gw!UnaryAnswered("r") => Gw!Next
    /\ Gw!StreamFailedEmpty("r") \/ Gw!StreamNothing("r") \/ Gw!StreamFailedMid("r") => Gw!Next
    /\ Gw!StreamDone("r") \/ Gw!ClientGone("r") => Gw!Next
    /\ Gw!BeginAgain("r") \/ Gw!BeginThrows("r") \/ Gw!Finish("r") => Gw!Next
    /\ Gw!HealthChanges("b") => Gw!Next
<1>1. "r" \in {"r"} /\ "b" \in {"b"}
  OBVIOUS
<1>2. Gw!RejectEarly("r") \/ Gw!ArriveAdmitted("r") \/ Gw!FirstFrame("r") => Gw!Next
  BY <1>1, ZenonT(60) DEF Gw!Next
<1>3. Gw!CallEnds("r") \/ Gw!WriteEnds("r") => Gw!Next
  BY <1>1, Zenon DEF Gw!Next
<1>4. Gw!HealthChanges("b") => Gw!Next
  BY <1>1, ZenonT(60) DEF Gw!Next
<1> QED
  BY <1>2, <1>3, <1>4, ZenonT(60) DEF Gw!CallEnds, Gw!WriteEnds

-----------------------------------------------------------------------------
(***************************************************************************)
(* The refinement                                                          *)
(***************************************************************************)

\* A body just read is an idle connection with the breaker closed.
LEMMA InitMaps == Init => Gw!Init
<1> SUFFICES ASSUME Init PROVE Gw!Init
  OBVIOUS
<1>1. pc = "start" /\ report = "none" /\ healthy = FALSE
  BY DEF Init
<1>2. View(IdleLocals, 0, 0)
  <2>1. Fails = 0
    BY <1>1 DEF Fails
  <2> QED
    BY <1>1, <2>1, RestView
<1>3. gw_breaker = [b \in {"b"} |-> Gw!FreshBreaker]
  <2>1. Brk(0) = Gw!FreshBreaker
    BY Zenon DEF Brk, Fields, Gw!FreshBreaker
  <2> QED
    BY <1>2, <2>1 DEF View
<1>4. gw_active = [b \in {"b"} |-> 0]
  BY <1>2, OtherFields, ZenonT(60) DEF View
<1>5. gw_req = [r \in {"r"} |-> Gw!Idle]
  BY <1>2, OtherFields DEF View
<1>6. gw_healthy = {}
  BY <1>1 DEF gw_healthy
<1>7. Gw!Gate!Init
  BY <1>2 DEF View, Gw!Gate!Init
<1> QED
  BY <1>3, <1>4, <1>5, <1>6, <1>7 DEF Gw!Init

\* A call that was not a stream ends.
LEMMA UnaryMaps == RefusedSeen \/ UnarySeen => Gw!Next
<1>1. ASSUME RefusedSeen PROVE Gw!Next
  <2>1. View(CallLocals(FALSE, FALSE), 1, 0)
    BY <1>1, ZenonT(60) DEF RefusedSeen, UnaryLocals
  <2>2. View(WritingLocals({}, 503, "none"), 1, 1)' /\ UNCHANGED gw_healthy
    BY <1>1, Zenon DEF RefusedSeen
  <2>3. Gw!UnaryRefused("r")
    BY <2>1, <2>2, Refused, ZenonT(60)
  <2> QED
    BY <2>3, GatewaySteps, Zenon
<1>2. ASSUME UnarySeen PROVE Gw!Next
  <2>1. View(UnaryLocals, 1, 0) /\ UNCHANGED gw_healthy
    BY <1>2, Zenon DEF UnarySeen
  <2>2. PICK f, code, outcome :
          UnaryEnd(f, code, outcome) /\ View(WritingLocals({"b"}, code, outcome), 1, f)'
    BY <1>2, Zenon DEF UnarySeen
  <2>3. f \in {0, 1}
    BY <2>2, SMTT(30) DEF UnaryEnd
  <2>4. /\ f = 1 /\ code = 500 /\ outcome = "failed" => Gw!UnaryServerError("r")
        /\ f = 0 /\ code = 400 /\ outcome = "failed" => Gw!UnaryAnswered("r")
        /\ f = 0 /\ code = 200 /\ outcome \in {"ok", "cut"} => Gw!UnaryAnswered("r")
    BY <2>1, <2>2, <2>3, UnaryEnds
  <2>5. Gw!UnaryServerError("r") \/ Gw!UnaryAnswered("r")
    BY <2>2, <2>4, ZenonT(60) DEF UnaryEnd
  <2> QED
    BY <2>5, GatewaySteps, Zenon
<1> QED
  BY <1>1, <1>2, ZenonT(60)

\* A stream ends before its first byte or after it.
LEMMA StreamEndMaps == EmptySeen \/ BegunSeen => Gw!Next
<1>1. TRUE \in BOOLEAN /\ FALSE \in BOOLEAN /\ 1 \in {0, 1}
  OBVIOUS
<1>2. ASSUME EmptySeen PROVE Gw!Next
  <2>1. View(CallLocals(TRUE, FALSE), 1, 0) /\ UNCHANGED gw_healthy
    BY <1>2, ZenonT(60) DEF EmptySeen
  <2>2. PICK code \in {400, 500, 502, 504} : View(WritingLocals({"b"}, code, "none"), 1, 1)'
    BY <1>2, ZenonT(60) DEF EmptySeen
  <2>3. ~FALSE /\ 1 = 1 /\ code \in {400, 500, 502, 504} => Gw!StreamFailedEmpty("r")
    BY <1>1, <2>1, <2>2, StreamEnds, ZenonT(60)
  <2>4. Gw!StreamFailedEmpty("r")
    BY <2>3, ZenonT(60)
  <2> QED
    BY <2>4, GatewaySteps, ZenonT(60)
<1>3. ASSUME BegunSeen PROVE Gw!Next
  <2>1. View(CallLocals(TRUE, TRUE), 1, 0) /\ UNCHANGED gw_healthy
    BY <1>3, Zenon DEF BegunSeen
  <2>2. PICK f \in {0, 1} : View(WritingLocals({"b"}, 200, "none"), 1, f)'
    BY <1>3, Zenon DEF BegunSeen
  <2>3. /\ TRUE /\ f = 1 /\ 200 = 200 => Gw!StreamFailedMid("r")
        /\ TRUE /\ f = 0 /\ 200 = 200 => Gw!StreamDone("r")
    BY <1>1, <2>1, <2>2, StreamEnds, ZenonT(60)
  <2>4. Gw!StreamFailedMid("r") \/ Gw!StreamDone("r")
    BY <2>3
  <2> QED
    BY <2>4, GatewaySteps, Zenon
<1> QED
  BY <1>2, <1>3, Zenon

\* The request is over.
LEMMA EndMaps == GoneSeen \/ ThrowSeen \/ FinishSeen => Gw!Next
<1>1. ASSUME GoneSeen PROVE Gw!Next
  <2> DEFINE l == CallLocals(TRUE, TRUE)
  <2>1. l.slot \in {{}, {"b"}} /\ l.pc = "upstream" /\ l.stream = TRUE /\ l.header_started = TRUE
    BY DEF CallLocals, IdleLocals
  <2>2. View(l, 1, 0) /\ View(IdleLocals, 0, 0)' /\ UNCHANGED gw_healthy
    BY <1>1, ZenonT(60) DEF GoneSeen
  <2> HIDE DEF l
  <2>3. gw_req["r"] = l
    BY <2>2 DEF View
  <2>4. Gw!Leave("r")
    BY <2>1, <2>2, Leaves, SMTT(30)
  <2>5. Gw!ClientGone("r")
    BY <2>1, <2>3, <2>4, Zenon DEF Gw!ClientGone, Gw!InCall
  <2> QED
    BY <2>5, GatewaySteps, ZenonT(60)
<1>2. ASSUME ThrowSeen PROVE Gw!Next
  <2>1. PICK f : View(BeginningLocals, 1, f) /\ View(IdleLocals, 0, f)'
    BY <1>2, Zenon DEF ThrowSeen
  <2>2. UNCHANGED gw_healthy
    BY <1>2, ZenonT(60) DEF ThrowSeen
  <2>3. BeginningLocals.slot \in {{}, {"b"}} /\ BeginningLocals.pc = "beginning"
    BY OtherFields
  <2>4. Gw!Leave("r")
    BY <2>1, <2>2, <2>3, Leaves, SMTT(30)
  <2>5. gw_req["r"] = BeginningLocals
    BY <2>1, SMTT(30) DEF View
  <2>6. Gw!BeginThrows("r")
    BY <2>3, <2>4, <2>5, Zenon DEF Gw!BeginThrows
  <2> QED
    BY <2>6, GatewaySteps, ZenonT(60)
<1>3. ASSUME FinishSeen PROVE Gw!Next
  <2>1. PICK slot \in {{}, {"b"}}, t \in {0, 1} : \E code, outcome, f :
          View(WritingLocals(slot, code, outcome), t, f) /\ View(IdleLocals, 0, f)'
    BY <1>3, Zenon DEF FinishSeen
  <2>2. PICK code, outcome, f :
          View(WritingLocals(slot, code, outcome), t, f) /\ View(IdleLocals, 0, f)'
    BY <2>1, ZenonT(60)
  <2>3. UNCHANGED gw_healthy
    BY <1>3, Zenon DEF FinishSeen
  <2> DEFINE l == WritingLocals(slot, code, outcome)
  <2>4. l.slot \in {{}, {"b"}} /\ l.pc = "writing"
    BY OtherFields
  <2>5. View(l, t, f)
    BY <2>2
  <2> HIDE DEF l
  <2>6. gw_req["r"] = l
    BY <2>5, SMTT(30) DEF View
  <2>7. Gw!Leave("r")
    BY <2>2, <2>3, <2>4, <2>5, Leaves
  <2>8. Gw!Finish("r")
    BY <2>4, <2>6, <2>7, ZenonT(60) DEF Gw!Finish
  <2> QED
    BY <2>8, GatewaySteps, ZenonT(60)
<1> QED
  BY <1>1, <1>2, <1>3, ZenonT(60)

\* Every step of the relay is a step of Gateway or none.
LEMMA NextMaps == MapInv /\ MapInv' /\ [Next]_vars => [Gw!Next]_(Gw!vars)
<1> SUFFICES ASSUME StepSeen PROVE Gw!Next \/ UNCHANGED Gw!vars
  BY NextSeen, Zenon
<1>1. CASE NothingSeen
  BY <1>1 DEF NothingSeen, Gw!vars
<1>2. CASE HealthSeen
  <2>1. Gw!HealthChanges("b")
    BY <1>2, Zenon DEF HealthSeen, Gw!HealthChanges, Gw!gateVars
  <2> QED
    BY <2>1, GatewaySteps, ZenonT(60)
<1>3. CASE RejectSeen
  <2>1. Gw!RejectEarly("r")
    BY <1>3, Rejects, ZenonT(60) DEF RejectSeen
  <2> QED
    BY <2>1, GatewaySteps, ZenonT(60)
<1>4. CASE UnservedSeen \/ DispatchSeen
  <2>1. ASSUME UnservedSeen PROVE Gw!ArriveAdmitted("r")
    BY <2>1, Unserved, Zenon DEF UnservedSeen
  <2>2. ASSUME DispatchSeen PROVE Gw!ArriveAdmitted("r")
    BY <2>2, Dispatches, Zenon DEF DispatchSeen
  <2> QED
    BY <1>4, <2>1, <2>2, GatewaySteps, ZenonT(60)
<1>5. CASE NoFrameSeen
  <2>1. Gw!StreamNothing("r")
    BY <1>5, Nothing, Zenon DEF NoFrameSeen
  <2> QED
    BY <2>1, GatewaySteps, ZenonT(60)
<1>6. CASE FirstSeen
  <2>1. Gw!FirstFrame("r")
    BY <1>6, Firsts, Zenon DEF FirstSeen
  <2> QED
    BY <2>1, GatewaySteps, ZenonT(60)
<1>7. CASE AgainSeen
  <2>1. Gw!BeginAgain("r")
    BY <1>7, Again, Zenon DEF AgainSeen
  <2> QED
    BY <2>1, GatewaySteps, ZenonT(60)
<1> QED
  BY <1>1, <1>2, <1>3, <1>4, <1>5, <1>6, <1>7, UnaryMaps, StreamEndMaps, EndMaps, ZenonT(60) DEF StepSeen

\* Every way the call, the sink and the end of the response can go is one that
\* Gateway foresees, for any length of the stream, any reads and any budget.
THEOREM RelayImplementsGateway == Spec => ImplementsGateway
<1>1. Spec => []MapInv
  BY MapInvariance
<1> QED
  BY <1>1, InitMaps, NextMaps, PTL DEF Spec, ImplementsGateway, Gw!Spec

=============================================================================
