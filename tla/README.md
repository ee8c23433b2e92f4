# kvmux in TLA+

kvmux is a gateway between OpenAI-style clients and several LLM backends. This
directory models it in TLA+, from the command line to the end of the process and
from a request's body to the last byte of its response. TLC checks the models on
small instances; TLAPS proves their safety properties for every value of the
constants.

The whole gateway runs on one `io_context` with one thread (`main.cpp`), so the
code between two suspending `co_await`s is atomic. Every action is what a
coroutine does from one suspension to the next, with all the calls it makes on
the way. Concurrency is the interleaving of coroutines at their suspensions.

## The system

| Part | State | Operations | What is hard about it |
|---|---|---|---|
| Global gate, `admission/controller` | `in_flight_`, `waiters_`, each Waiter's `granted` and timer | `acquire`, `release` | a grant racing a timeout; the gap between a completion and the resumption |
| Per-backend limiter, same files | `active_` | `try_acquire`, `release`, RAII holders | release on every exit path |
| Circuit breaker, `health/circuit_breaker` | `state_`, `consecutive_failures_`, `opened_at_` | `allow_request`, `on_success`, `on_failure`, `abort_probe` | late results; a probe that is never reported |
| Chat handler, `server/gateway` | the locals of `handle_chat` | admission, eligibility, failover walk, response | two attempts, fifteen exits, exceptions |
| Upstream calls, `upstream/client`, `server/sse_writer` | the deadline, frames read, pending and written | `post_chat`, `stream_chat`, the sink, the end of the response | batching, dropped connections, silence, a client that leaves |
| SSE parser, `upstream/sse_parser` | line and event buffers | `feed`, `flush` | events split over reads |
| Errors and parsing, `openai/` | none | conversions | status and error object must agree |
| Routing, `routing/` | `cursor_` | `order` of both policies, the affinity key | the load guard, churn, growing conversations |
| Health monitor, `health/checker` | `state_`, `stopped_` | `run`, `probe_once`, `stop` | two probes at two moments |
| Configuration, `config` | none | `load_file`, `validate`, `Target::parse` | ranges, unknown keys, defaults |
| Sessions and drain, `server/listener`, `main.cpp` | `in_flight_`, `draining_`, the Drainer | `main`, `run_session`, `handle`, the signal handler | counting through exceptions; the deadline |
| Metrics, `metrics/registry` | gauges, counters, histograms | `inc_*`, `set_*`, `observe_*` | exits that are not counted, or under another status |

A chat request enters through a session, is parsed, passes the gate, is given an
order of candidates by a routing policy from the healthy backends, and walks that
order: each candidate's breaker and limiter are asked in turn until one lets it
through. A failure before the first byte moves the walk on, once. The results go
back to the breaker, and scope exit returns the backend slot and the gate's ticket.

## Modules

| Module | Models | State and actions |
|---|---|---|
| `SlotPool` | what the gate promises | owners and a waiting line |
| `GlobalGate` | `admission::GlobalGate` | `woken` holds the callers whose timer completion is queued and who have not resumed; `AcquireNow/QueueFull/Wait`, `TimerExpires`, `ResumeGranted/Timeout`, `Release` |
| `Breaker` | the methods of `CircuitBreaker` as functions on its fields | time is one bit, `elapsed`: the open window has passed |
| `CircuitBreaker` | one breaker with concurrent requests | `Allow`, `Deny`, `SkipAtCapacity`, `Succeed`, `Fail`, `Abandon` |
| `Gateway` | `handle_chat` of any number of requests | composes `GlobalGate` (by INSTANCE on the same variables) with a breaker and a limiter per backend; `pc` is the suspension a request is in |
| `GatewayMetrics` | `TerminalRecorder` | each step is a step of `Gateway` with the counting done in it |
| `OpenAI` | `openai/errors`, `openai/types` | status codes, error objects, request validation and wrapping of a backend's error, as functions on shapes |
| `StreamRelay` | one request: parsing, `connect`, `post_chat`, `stream_chat`, the sink, `SseWriter`, the end of the response | frame by frame, with the deadline of the `tcp_stream` as `waited` |
| `RelayView` | `StreamRelay` as `Gateway` sees it | the refinement mapping for one request on one backend: the locals at each suspension, tickets, slots and the breaker |
| `RelayGateway` | `StreamRelay` implements `Gateway` | `Gateway` instantiated with that mapping |
| `SseParser` | `feed`, `process_line`, `dispatch`, `flush`, `SseWriter::write_data` | characters by class; the documented format as a definition on whole texts |
| `Routing` | both policies and the affinity key as operators | `RoundRobinOrder`, `hrw_rank`, `AffinityOrder`, `canonical_affinity_string` |
| `Router` | routing over time | `Route` (a request walks its order past breakers that deny and limiters that are full), `Finish`, `Churn`, `Say` (a further turn of a conversation) |
| `Config` | `config.cpp` and `Target::parse` | every section, key, type, range and default |
| `Startup` | `main()` up to `ioc.run()`, and `/v1/models` | arguments, load, construction |
| `Server` | listeners, sessions, `handle`, the drain | a chat request is one state here |
| `HealthMonitor` | the probe loop | one action per suspension of `run()` |
| `Process` | the process | composes `Startup`, `Server` and a `HealthMonitor`: the signal handler stops the monitor and starts the drain, and nothing runs after `ioc.stop()` |
| `MC...` | | definitions for TLC: model values, messages, configuration files, chunks, symmetry |
| `GlobalGate_proofs`, `Dispatch_proofs`, `Gateway_lemmas`, `Gateway_proofs`, `SseParser_proofs`, `StreamRelay_proofs`, `RelayGateway_proofs`, `Process_proofs` | | theorems |

What is abstracted: wording, labels, JSON texts (a value is its kind) and
durations. In `Gateway` a time-out is an event that may happen, the routing policy
is any permutation of the candidates, which is what `Router` shows of both
policies, and a 4xx or 5xx of a backend is one status each. `StreamRelay` plays the
call out and `ImplementsGateway` shows that `Gateway` foresees every way it can go.
In `Routing` the XXH64 score is any function from backends to scores, and
`load_threshold` is a fraction instead of a double. `StreamRelay` assumes of the
backend that nothing follows its `[DONE]`. `streak`, `lost` and `due` in
`CircuitBreaker`, `outcome` in `Gateway`, `uncounted` and `lost` in
`GatewayMetrics`, `spent` and `reads` in `StreamRelay`, `text` in `SseParser` and
`turns` in `Router` are history that only properties (and, for `reads`, the bound)
look at. `requests_total_` only grows, so `uncounted` keeps its distance from the
responses begun, which is bounded by the requests in progress, instead.

Operators named `Mut...` are used by no specification: they are wrong versions of
the operator that follows, kept to confirm that each checked property can fail.

## Runs that pass

| Run | Bounds | Shows |
|---|---|---|
| `gate` | 6 callers, 2 slots, queue of 3 | slots are conserved, none idles while someone waits, first come first served; every wait ends; the gate implements `SlotPool` |
| `breaker` | 4 callers, 1 streaming, threshold 2 | a closed breaker counts the failures since the last success; a half-open one has its probe unless a streaming client abandoned it; outside CLOSED no more calls start than open windows have passed; it keeps coming back to a state that lets a request through, unless a probe was abandoned or is a stream still under way |
| `gateway` | 4 requests of either kind, any number of arrivals, 2 slots, queue of 1, 2 backends with 1 slot each, threshold 1 | slots and tickets match requests; each response is counted once, under the status its client saw; a probe is lost only by its client; one clean retry; failures surface last; the first dispatch goes to a healthy backend |
| `gateway_live` | 3 requests, 1 slot, queue of 1 | a request whose own call and client come to an end ends, whatever the others do |
| `relay` | up to 4 chunks, 3 reads, budget 2, every shape of body | no silent truncation; breaker and client are told the same; a non-streaming call is over within two budgets and every silence is cut short; answers explain themselves; `StreamRelay` implements `Gateway` |
| `sse` | texts of up to 6 chunks of one to three symbols, in every cut | the events are those of the documented format however the reads cut the text, also with CRLF, comments and `flush`, but for the data of an event whose first data line is empty; an event of one line survives its frame |
| `routing` | 3 backends, 2 models that share them, all rankings with ties, 9 requests, 2 further turns, prefix of 6 | permutation, load guard, even spread over each row of requests for one model, minimal reshuffle, sticky conversations |
| `process` | every command line of up to 3 words, 234 files that differ from a valid one in one place; 2 connections, a scraper, a monitor | accepted configurations give the other modules the constants they assume (NaN excepted), every setting is read as written, the target is the URL's authority; the drain waits for the requests in progress and ends; published health converges and Healthy is earned |

Why the bounds are enough to be interesting: the gate needs more callers than
slots plus queue places, so that it can also be full (4 requests meet 2 + 1 places
in `gateway`; in `gateway_live` one runs, one waits, one is refused). Four requests
on two backends with one slot each reach capacity skips, probes and failovers at
once, and `max_attempts` is 2 in the code. In `breaker` a threshold of 2 separates
a run of failures from a single one (the gateway runs use 1). Four chunks in three
reads give reads with none, one and several frames; a budget of 2 separates a
deadline that is set anew from one that is not. The code has no bound on the reads of
a stream; `SilenceIsCutShort` is about each read by itself and no property says that
there is a last one. Nine requests are three rotations;
a prefix of 6 is filled by one, two or three messages. The configuration is
checked setting by setting at both ends of its range and one beyond.
Symmetry is used only in the safety run `gateway`, over requests and over
backends, all of which serve the one model. Deadlock checking is off only for
`StreamRelay` and `SseParser`, whose one response, or text, really ends.

## Fairness

* `GlobalGate`: timers expire and queued completions run. Release is given no
  fairness: a stream may hold its slot for ever and waiting callers still return.
* `CircuitBreaker`: the window passes, and non-streaming calls end: connecting and the
  exchange have deadlines (`client.cpp:64`, `client.cpp:223`). That the resolver answers
  is assumed: its wait has none. Streams may go on for ever.
* `Gateway`: only for the requests in `Polite`: their queue timers expire, their
  resumptions run, their upstream calls end and their writes end. Everybody else
  may hang. The code does not promise more: the budget is re-armed for each read
  (`client.cpp:167`), so a backend that keeps sending is never timed out, and
  writes to the client have no time limit (`listener.cpp:44`). `EveryRequestEnds`
  says that nothing inside the gateway, and no other request, keeps a request from
  ending.
* `StreamRelay`: time passes and the deadline of the `tcp_stream` fires. Neither
  backend nor client need ever move.
* `Process`: the timers of the drain fire, and each GET and each interval of the
  monitor ends (a GET has a budget). Nothing is assumed of clients, or of the chat
  requests in progress.

## Where code and comments disagree

Each of these is a run that TLC refutes on purpose; PROJECT.json quotes the line.

| Run | What the code does |
|---|---|
| `breaker_two_probes` | a late failure re-opens a half-open breaker, and a second probe starts beside the first |
| `gateway_lost_probe` | a client that leaves a streamed probe leaves the breaker half-open with no probe: the backend is denied from then on, unless a call admitted earlier still reports |
| `gateway_false_success` | a non-streaming exchange that breaks off after the connection is answered 200 and counted as a success |
| `relay_cut_frame` | a frame cut off in the middle is flushed to the client as a whole one |

Others were met while modelling. The models do what the code does, and a property
that meets one of these says of what it holds and of what it does not:

* `client.hpp:74` says "`budget` bounds the whole call"; the deadline is set once for
  connecting, again for the exchange (`client.cpp:105`, `client.cpp:223`) and again
  for every read of a stream (`client.cpp:167`). A non-streaming call may take two
  budgets, once its backend's name is resolved (`UnaryWithinTwoBudgets`), a stream any
  number; of a stream only each silence is bounded (`SilenceIsCutShort`);
* a time-out before the header of a stream is answered 502, not the 504 of
  `errors.hpp:23`; only a time-out behind the header, before the first frame, is;
* a read that times out behind `[DONE]` sends an error event after it
  (`client.cpp:180`); `ReportAgreesWithResponse` says that nothing else does;
* a 2xx stream without frames is a failure (`client.cpp:195`); the branch meant for
  it (`gateway.cpp:492`) is reached only when the client left before the header,
  which the proof of `RelayInv` shows;
* `gateway.cpp:222` says that `final_code` is set "on every exit path"; a second
  `writer.begin()` that throws leaves before it is, and the request is counted nowhere
  (`gateway.cpp:497`). `CountedAsSeen` is about responses that have begun, and none has;
* an event of several data lines, or with a CR in its data, is not "forwarded verbatim"
  (`sse_parser.hpp:12`): it is put behind one `data:`, and what follows the line end is
  read as another line. `OneLineSurvives` is about the other events;
* data lines are "joined with '\n'" (`sse_parser.hpp:6`, `:23`), but not after empty
  ones: `process_line` takes empty data for no data (`sse_parser.cpp:56`).
  `EventsOfTheText` leaves out the data of such events, and only that;
* the retry uses health read before the first attempt (`gateway.cpp:300`);
* the gauges are published at admission only and `render_metrics()` does not refresh
  them, so they do not return to 0 when the last request leaves (`gateway.cpp:291`,
  against `gateway.hpp:74` and `test_routing.cpp:284`); they are not modelled;
* spills are charged to the first candidate before its breaker and its limiter are
  asked (`gateway.cpp:351`), not to "the first backend we
  actually dispatch to" (`gateway.cpp:349`); the counter is not modelled;
* `policy.hpp` says that round robin "spreads load evenly"; one rotation cursor serves
  all models (`round_robin.cpp:12`), so requests for two models that alternate can put
  the same backend first every time. `SpreadsEvenly` is about requests in a row;
* `content_to_string` flattens the text parts of a message, but `handle_chat` builds
  the key itself and dumps the JSON (`gateway.cpp:109`);
* `request_timeout_ms` is documented (`README.md:179`, `errors.hpp:23`), read and
  checked, but used nowhere: the budget is a constant (`gateway.cpp:24`).
  `EverySettingIsRead` is about reading the file;
* a `load_threshold` of NaN passes the range check (`config.cpp:115`), although an
  out-of-range value is "a hard error" (`config.hpp:3`). `AcceptedIsUsable` names it as
  the exception, and `Routing` is about the fractions in 0..1;
* the same port is accepted for server and metrics, and a listener that cannot bind
  only logs it.

## Proofs

Assumed throughout: what the ASSUMEs of the modules say, which TLC evaluates in the
runs. Limits are at least 1 (`queue_depth` at least 0), `Backends` is finite (it is
read from a file), a model is served by at least one backend, a file that parses is a
TOML tree (`FilesAssumption`: a value has the kind it is tagged with, a number is one,
an array is a sequence), and the reads of the SSE parser are sequences over an
alphabet that has the characters it looks for (`SseAssumption`). Requests, callers,
connections and files are any sets.

`GlobalGate_proofs`: type correctness, `SlotsConserved`, `NoIdleSlotWhileWaiting`,
`QueueIsTheUngranted`, `FirstComeFirstServed` and `ImplementsPool`. The inductive
invariant is the conjunction of the state properties, with the fact that the owners
are a finite set: conservation needs the exact queue (a grant must go to a caller
that owns nothing yet), and that a timeout strands nobody needs conservation. The
refinement uses the same invariant.

`Dispatch_proofs`, on `CircuitBreaker`: type correctness, `ClosedCountsTheStreak`,
`OneTrialPerWindow` and `HalfOpenHasProbe`. The inductive invariant is the types
with `ClosedCountsTheStreak`; `HalfOpenHasProbe` is inductive relative to it, and
`OneTrialPerWindow` together with the fact that a window that has passed and not been
used leaves a trial due. That
its exception is real is what `gateway_lost_probe` shows.

`Gateway_lemmas` and `Gateway_proofs`: type correctness, `SlotsMatchRequests`,
`TicketWhileServed`, `OneCleanRetry`, `FirstDispatchIsHealthy` and
`FailureSurfacedLast`, for any number of requests on any number of backends. Every
action moves one request. `Effect(r, q)` says what a step that gives request `r`
the locals `q` does to its ticket, its slots, the gate and the breakers; each action
is shown to have its effect (`StepKinds`), and invariants and action properties
follow from the effect alone. The invariant `Inv` adds to the properties how the
locals of one request hang together (`Coherent`): the order names a backend once,
a request holds the slot of the backend it is being served from, `final_code` is set
exactly while the last response is written. Because a step of the gateway is a step
of the gate or leaves it alone, the invariant of `GlobalGate_proofs` is instantiated
(`GateProofs`) and carried along. `CountedAsSeen` and `ProbeLostOnlyByClient` of
`GatewayMetrics` follow from the same effects. The first needs that no step changes
the status of a response that has begun (`StatusKept`), whatever becomes of the stream
behind it; a step then moves one request into or out of the set that is being answered
with one status (`CountStep`).

`Dispatch_proofs`, on `Router`: all five properties, for any finite number of backends,
any scores and any load. The operators of `Routing` come first: ranking a finite set
by a strict total order lists each element once, best first (`RankingLists`: the place
of an element is the number of elements above it, and places are injective because
they grow with the order), which gives `hrw_rank` and the config order; moving one
element to the front keeps a list a list; counting on from `cursor_` modulo the number
of candidates visits each position once. `OrderIsPermutation` and `GuardFindsRoom` are read off
those with the types as invariant.
`MinimalReshuffle` compares the best of two sets that differ by one backend.
`SpreadsEvenly` needs `SpreadInv`: for each model the candidates that have had one turn
more than the others form a window, in config order and going round, that ends just
before `cursor_`. While the requests are for that model, they alone move the cursor;
a request for another model ends the row, and no turns form a window wherever the
cursor is. `ConversationSticks` needs
`KeyInv`, that `key` is the key of the conversation, and what
`canonical_affinity_string` does with one more message: its recursive function is shown
to exist and to depend only on the messages so far, by taking the least index for
which that fails (`LeastOf`), and a full prefix takes no more text.

`StreamRelay_proofs`: `NeverSilentTruncation`, `ReportAgreesWithResponse`,
`UnaryWithinTwoBudgets` and `AnswersExplainThemselves`, for streams of any length, cut into
reads in any way, and any budget. `Relayed` says that the frames written and the
frames pending, taken together, are the backend's chunks in order, then its `[DONE]`
or a cut rest; a read extends that sequence, a write moves the boundary in it. When
nothing is pending, what the client has is what the backend sent, and `Settle`
decides on that. `ClockInv` says for each suspension of a non-streaming call
what may have been spent up to it. `AnswerInv` rests on two lemmas about the operators of
`OpenAI`: `parse()` refuses exactly the bodies that are not well-formed and blames a
member that is at fault (`RefusedBodies`), and each answer the handler can give later
has an error object that fits its status (`FittingAnswers`).

`RelayGateway_proofs`: `ImplementsGateway`, so everything proved of `Gateway` holds
of a request that is played out frame by frame. It is done in two halves. The first
is in `StreamRelay_proofs` and does not mention `Gateway`: `MapInv` says what has been
reported, answered and sent at each suspension, which fixes what `Gateway` sees there
(`View`, `Seen`), and `NextSeen` says that a step changes the view in one of fourteen
ways (`StepSeen`) or not at all. The second matches each of the fourteen with an
action of `Gateway`. `MapInv` is needed because `Gateway` has the breaker told in the
step in which a call ends: without it a report could precede the answer it belongs
to, or a header be sent that the view does not show.

`SseParser_proofs`: `EventsOfTheText` and `OneLineSurvives`, for any alphabet, any
text and any way of cutting it into reads. The parser works character by character
and the reference, `EventsOf`, on the whole text: it cuts the text into lines, the
lines into blocks, and reads each block. The invariant `ParsedInv` relates them in
every state, not only where an event has just come out: parser and events are
`Parsed(text)`, that is, the line buffer is what follows the last LF, the data and type
under way are those of the lines since the last blank one, and the events are those of
the complete blocks. What one more character does to each layer of the reference is a
lemma of its own (`LinesStep`, `BlocksStep`, `ValuesStep`, `JoinedStep`, `EventsStep`),
`ParsedStep` puts them together and shows that `FeedChar` does the same, and `FeedIs`
and `FlushIs` carry that over a read and over `flush()`. The recursive functions of both
sides are shown to exist (`Recursion`), and what holds along them is shown by taking
the least index for which it fails. The blocks are read twice in the argument: as the parser
does, without the LF after empty data (`KeptEvents`), which is what the invariant is
about, and as documented (`EventOf`); `DocumentedEvent` shows that the two agree on
every block that does not begin with an empty data line. `OneLineFrame` computes what
the frame of a one-line event is read as.

`Process_proofs`: `DrainIsGraceful`, `InFlightCountsChats` and `HealthyIsEarned`, for
any number of connections; and `EverySettingIsRead`, `TargetIsTheAuthority` and
`AcceptedIsUsable`, for any command line and any set of files, with any number of
backends and models. The drain looks at a counter, so it is graceful because every
handler keeps the counter equal to the number of chat requests, exceptions included.
`MainInv` says that the configuration in use is the one `ConfigOf` makes of a file
that passed `validate()`; what is left is about operators. Each parser keeps each key
of its section (`EveryKeyKept`) and what it keeps is in range (`ServerFields`,
`RoutingFields`, `BackendFields`). `Before` and `After` cut at the first separator
(`BeforeIs`, `CutOff`), so that `Target` undoes the writing of an authority
(`UsualTarget`). The list of `/v1/models` is built by two nested loops, here two
recursive functions; they are shown to exist (`Recursion`) and to list the first
occurrence of each model in order (`AllOwned`, `SeenFirsts`), by taking the least index
for which that fails.

Only model-checked: every liveness property (`EveryWaitEnds`, `NeverShutOut`,
`EveryRequestEnds`, `SilenceIsCutShort`, `SignalStops`, `Converges`), because fairness
and ENABLED are out of the prover's reach. Every invariant and every action property of
a passing run, the refinements included, is proved.

## Not modelled

* The gauges, the spill counter, the histograms, the text format of the registry and
  its labels: data that no control depends on.
* `inject_include_usage`: it rewrites one member of the request's JSON.
* XXH64 itself: the properties hold for every ranking. That it spreads keys evenly is
  statistical, and outside TLC and TLAPS.
* TOML and JSON syntax, name resolution, HTTP framing and the socket options, which
  belong to the libraries; they appear as the results the code distinguishes.
* Wording and logging.
* The mutexes and atomics of breaker, registry and counters: with one thread nothing
  contends for them.

What would come next: `ImplementsGateway` for several requests, with their relays
composed over one gate.
