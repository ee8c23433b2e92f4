----------------------------- MODULE StreamRelay -----------------------------
(***************************************************************************)
(* One chat request and one backend, from the request's body to the last   *)
(* byte of the response: handle_chat() parses and dispatches, post_chat()  *)
(* or stream_chat() of upstream::Client talks to the backend under the     *)
(* deadline of its tcp_stream, the sink writes each SSE frame to the       *)
(* client through SseWriter before the next read, and handle_chat() ends   *)
(* the response according to what the call reports.  pc is the suspension  *)
(* the coroutine is in:                                                    *)
(*   "start"                           the body has been read;             *)
(*   "resolve", "connect", "send"      in either call;                     *)
(*   "reply"                           post_chat() reads the response;     *)
(*   "head", "drain", "read"           stream_chat() reads the header, an  *)
(*                                     error body, the stream;             *)
(*   "begin", "write"                  in the sink, for pending's head;    *)
(*   "answer"                          in write_json();                    *)
(*   "again", "sentinel"               a stream that had no frames;        *)
(*   "error", "last"                   ending a stream that had frames;    *)
(*   "end"                             handle_chat() has returned.         *)
(* Chunks are numbered; their text is left out.                            *)
(***************************************************************************)
EXTENDS OpenAI, Sequences, FiniteSets

CONSTANTS
    MaxChunks,    \* bound on the chunks of the backend's stream
    MaxReads,     \* bound on the reads of the stream; the code has none
    Budget        \* kUnaryBudget or kStreamBudget, in units of time

ASSUME RelayAssumption ==
    /\ MaxChunks \in Nat
    /\ MaxReads \in Nat \ {0}
    /\ Budget \in Nat \ {0}

VARIABLES
    pc,
    body,        \* the request's body
    healthy,     \* the backend's observed_health() is Healthy
    http_status, \* of the result: 0, 200 (below 400), 400 or 500
    backend,     \* what the backend has sent: chunks, and whether [DONE]
    pending,     \* frames read and not yet written
    ec,          \* how the last read ended
    out,         \* what was written to the client as a stream, in order
    answer,      \* what write_json() was given: status and error object
    client,      \* whether the client is still there
    header_started,
    report,      \* what the circuit breaker was told
    waited,      \* time since the last expires_after(), up to Budget
    spent,       \* time spent connecting, sending and reading
    reads        \* reads of the stream begun

callVars == <<body, healthy, http_status, backend, pending, ec>>

clockVars == <<waited, spent, reads>>

vars == <<pc, body, healthy, http_status, backend, pending, ec, out, answer, client,
          header_started, report, waited, spent, reads>>

Chunk(i) == <<"chunk", i>>
Cut      == <<"cut", 0>>       \* the beginning of a chunk, as if it were whole
Done     == <<"[DONE]", 0>>
Header   == <<"header", 0>>
ErrorEvent == <<"error", 0>>
LastChunk  == <<"last", 0>>    \* the terminator of the chunked body

Init ==
    /\ pc = "start"
    /\ body \in Bodies
    /\ healthy = FALSE
    /\ http_status = 0
    /\ backend = [chunks |-> 0, done |-> FALSE]
    /\ pending = <<>>
    /\ ec = "more"
    /\ out = <<>>
    /\ answer = [status |-> 0, error |-> NoError]
    /\ client = "here"
    /\ header_started = FALSE
    /\ report = "none"
    /\ waited = 0 /\ spent = 0 /\ reads = 0

-----------------------------------------------------------------------------
(***************************************************************************)
(* The deadline of a tcp_stream                                            *)
(***************************************************************************)

\* expires_after(budget)
Arm == waited' = 0

\* Mutation: no deadline while the header is awaited.
MutTimed == {"connect", "send", "drain", "read", "reply"}

\* The suspensions the deadline cuts short; resolving is not one of them.
Timed == {"connect", "send", "head", "drain", "read", "reply"}

\* Time passes.  A timed suspension lasts until the deadline at most; the
\* deadline may pass during the resolution, which goes on.
Tick ==
    /\ pc \in Timed \cup {"resolve"}
    /\ waited < Budget
    /\ waited' = waited + 1
    /\ spent' = IF pc \in Timed THEN spent + 1 ELSE spent
    /\ UNCHANGED <<pc, callVars, out, answer, client, header_started, report, reads>>

\* The deadline has passed.
Expired == waited = Budget

-----------------------------------------------------------------------------
(***************************************************************************)
(* Before the call                                                         *)
(***************************************************************************)

\* write_json() with a status and the error object, if any.
Answer(status, error) ==
    /\ pc' = "answer"
    /\ answer' = [status |-> status, error |-> error]

HealthChanges ==
    /\ pc = "start"
    /\ healthy' = ~healthy
    /\ UNCHANGED <<pc, body, http_status, backend, pending, ec, out, answer, client,
                   header_started, report, clockVars>>

\* A body that does not parse, a model nobody serves, no HEALTHY backend.
Reject ==
    /\ pc = "start"
    /\ \/ /\ ParseError(body) # NoError
          /\ Answer(ParseError(body).code, ParseError(body))
       \/ /\ ParseError(body) = NoError /\ body.model = "unknown"
          /\ Answer(404, make_error("UnknownModel", "model"))
       \/ /\ ParseError(body) = NoError /\ body.model # "unknown" /\ ~healthy
          /\ Answer(503, make_error("NoBackend", "null"))
    /\ UNCHANGED <<callVars, out, client, header_started, report, clockVars>>

\* Admitted and dispatched; connect() arms the deadline and resolves.
Dispatch ==
    /\ pc = "start"
    /\ ParseError(body) = NoError /\ body.model # "unknown" /\ healthy
    /\ pc' = "resolve"
    /\ Arm
    /\ UNCHANGED <<callVars, out, answer, client, header_started, report, spent, reads>>

-----------------------------------------------------------------------------
(***************************************************************************)
(* Either call, up to the response                                         *)
(***************************************************************************)

\* connect() throws: the name does not resolve, the backend refuses, or the
\* deadline passes.  A stream that cannot be retried is answered 502; the walk
\* of a non-streaming request just ends.
NotConnected ==
    /\ pc \in {"resolve", "connect"}
    /\ report' = "failure"
    /\ IF IsStream(body) THEN Answer(502, make_error("UpstreamFailure", "null"))
       ELSE Answer(503, make_error("NoBackend", "null"))
    /\ UNCHANGED <<callVars, out, client, header_started, clockVars>>

Resolved ==
    /\ pc = "resolve"
    /\ pc' = "connect"
    /\ UNCHANGED <<callVars, out, answer, client, header_started, report, clockVars>>

\* Connected: the deadline is set anew, once for the request and the response.
Connected ==
    /\ pc = "connect"
    /\ pc' = "send"
    /\ Arm
    /\ UNCHANGED <<callVars, out, answer, client, header_started, report, spent, reads>>

\* Mutation: the deadline is set anew for the response.
MutSent ==
    /\ pc = "send"
    /\ pc' = IF IsStream(body) THEN "head" ELSE "reply"
    /\ Arm
    /\ UNCHANGED <<callVars, out, answer, client, header_started, report, spent, reads>>

Sent ==
    /\ pc = "send"
    /\ pc' = IF IsStream(body) THEN "head" ELSE "reply"
    /\ UNCHANGED <<callVars, out, answer, client, header_started, report, clockVars>>

\* The exchange breaks off, or times out, before a response: stream_chat()
\* reports upstream_aborted, post_chat() status 0.
ExchangeFails ==
    /\ pc \in {"send", "head", "reply"}
    /\ \/ /\ IsStream(body)
          /\ report' = "failure"
          /\ Answer(502, make_error("UpstreamFailure", "null"))
       \/ /\ ~IsStream(body)
          /\ report' = "success"
          /\ Answer(200, NoError)
    /\ UNCHANGED <<callVars, out, client, header_started, clockVars>>

\* post_chat() has the whole response.
ReplyRead ==
    /\ pc = "reply"
    /\ \E b \in ErrorBodies :
          \/ /\ http_status' = 200 /\ report' = "success"
             /\ Answer(200, NoError)
          \/ /\ http_status' = 400 /\ report' = "success"
             /\ Answer(400, wrap_upstream_error(b, 400))
          \/ /\ http_status' = 500 /\ report' = "failure"
             /\ Answer(500, wrap_upstream_error(b, 500))
    /\ UNCHANGED <<body, healthy, backend, pending, ec, out, client, header_started,
                   clockVars>>

-----------------------------------------------------------------------------
(***************************************************************************)
(* handle_chat() after stream_chat()                                       *)
(***************************************************************************)

\* Mutation: a stream that just ends is taken for a complete one.
MutUpstreamAborted(e, stopped) == FALSE

\* Mutation: a properly closed HTTP message is enough.
MutAbortedIfDropped(e, stopped) == ~backend'.done /\ ~stopped /\ e = "dropped"

\* upstream_aborted of a 2xx stream: it ended without [DONE], nobody asked to
\* stop, and it is not a timeout.
UpstreamAborted(e, stopped) == ~backend'.done /\ ~stopped /\ e # "timeout"

\* Where handle_chat() goes when the read loop is over, with the last read
\* ending in e and the sink having asked to stop or not.
Settle(e, stopped) ==
    LET failed == e = "timeout" \/ UpstreamAborted(e, stopped)
        kind   == IF e = "timeout" THEN "UpstreamTimeout" ELSE "UpstreamFailure"
    IN  \/ /\ ~header_started' /\ failed
           /\ Answer(status_code(kind), make_error(kind, "null"))
           /\ report' = "failure"
        \/ /\ ~header_started' /\ ~failed
           /\ pc' = "again" /\ report' = "success" /\ UNCHANGED answer
        \/ /\ header_started' /\ stopped
           /\ pc' = "end" /\ UNCHANGED <<report, answer>>
        \/ /\ header_started' /\ ~stopped /\ failed
           /\ pc' = "error" /\ report' = "failure" /\ UNCHANGED answer
        \/ /\ header_started' /\ ~stopped /\ ~failed
           /\ pc' = "last" /\ report' = "success" /\ UNCHANGED answer

-----------------------------------------------------------------------------
(***************************************************************************)
(* stream_chat()                                                           *)
(***************************************************************************)

\* The next read of the stream, with a deadline of its own.
BeginRead ==
    /\ pc' = "read"
    /\ Arm
    /\ reads' = reads + 1
    /\ UNCHANGED <<spent, report, answer>>

\* The header: below 400 the stream follows, otherwise an error body.
HeadRead ==
    /\ pc = "head"
    /\ \/ http_status' = 200 /\ BeginRead
       \/ /\ http_status' \in {400, 500}
          /\ pc' = "drain"
          /\ UNCHANGED <<clockVars, report, answer>>
    /\ UNCHANGED <<body, healthy, backend, pending, ec, out, client, header_started>>

\* Mutation: a status of 400 or above is an answer like any other.
MutDrained ==
    /\ pc = "drain"
    /\ report' = "success"
    /\ \E b \in ErrorBodies : Answer(http_status, wrap_upstream_error(b, http_status))
    /\ UNCHANGED <<callVars, out, client, header_started, clockVars>>

\* The error body has ended, or what there is of it must do.
Drained ==
    /\ pc = "drain"
    /\ report' = "failure"
    /\ \E b \in ErrorBodies : Answer(http_status, wrap_upstream_error(b, http_status))
    /\ UNCHANGED <<callVars, out, client, header_started, clockVars>>

\* The chunks from i on, n of them.
Chunks(i, n) == [j \in 1..n |-> Chunk(i + j - 1)]

\* One read ends, in e, with n more chunks and [DONE] perhaps.  "more": the loop
\* goes on.  Otherwise it is over and the parser flushes what it has buffered:
\* nothing, or the beginning of one more chunk.  Assumed of the backend: nothing
\* follows its [DONE].
ReadEnds(n, d, e, flushed) ==
    /\ pc = "read"
    /\ e = "timeout" => Expired
    /\ e = "more" => reads < MaxReads
    /\ backend.done => n = 0 /\ ~d
    /\ flushed # <<>> => e # "more" /\ ~d /\ ~backend.done
    /\ pending' = Chunks(backend.chunks + 1, n)
                     \o (IF d THEN <<Done>> ELSE <<>>) \o flushed
    /\ backend' = [chunks |-> backend.chunks + n, done |-> backend.done \/ d]
    /\ ec' = e
    /\ UNCHANGED <<body, healthy, http_status, out, client, header_started>>
    /\ \/ /\ pending' # <<>>
          /\ pc' = IF header_started THEN "write" ELSE "begin"
          /\ UNCHANGED <<report, answer, clockVars>>
       \/ /\ pending' = <<>> /\ e = "more"
          /\ BeginRead
       \/ /\ pending' = <<>> /\ e # "more"
          /\ Settle(e, FALSE)
          /\ UNCHANGED clockVars

Read ==
    \E n \in 0..(MaxChunks - backend.chunks), d \in BOOLEAN,
       e \in {"more", "timeout", "dropped", "complete"}, flushed \in {<<>>, <<Cut>>} :
          ReadEnds(n, d, e, flushed)

-----------------------------------------------------------------------------
(***************************************************************************)
(* The sink and the writer                                                 *)
(***************************************************************************)

\* A write to a client that has left may fail.
WriteFails == client = "gone"

\* writer.begin() in the sink.
Begin ==
    /\ pc = "begin"
    /\ out' = Append(out, Header)
    /\ header_started' = TRUE
    /\ pc' = "write"
    /\ UNCHANGED <<callVars, answer, client, report, clockVars>>

\* writer.write_data() in the sink; then the next pending frame, the next read,
\* or the end of the loop.
Write ==
    /\ pc = "write"
    /\ out' = Append(out, Head(pending))
    /\ pending' = Tail(pending)
    /\ UNCHANGED <<body, healthy, http_status, backend, ec, client, header_started>>
    /\ \/ /\ pending' # <<>>
          /\ UNCHANGED <<pc, report, answer, clockVars>>
       \/ /\ pending' = <<>> /\ ec = "more"
          /\ BeginRead
       \/ /\ pending' = <<>> /\ ec # "more"
          /\ Settle(ec, FALSE)
          /\ UNCHANGED clockVars

\* Either write throws: downstream_dead, the sink asks to stop.
SinkFails ==
    /\ pc \in {"begin", "write"}
    /\ WriteFails
    /\ pending' = <<>>
    /\ UNCHANGED <<body, healthy, http_status, backend, ec, out, client, header_started,
                   clockVars>>
    /\ Settle(ec, TRUE)

-----------------------------------------------------------------------------
(***************************************************************************)
(* The end of the response                                                 *)
(***************************************************************************)

\* The gateway writes x itself and goes on to the next write.
Emit(at, x, next) ==
    /\ pc = at
    /\ out' = Append(out, x)
    /\ header_started' = (header_started \/ x = Header)
    /\ pc' = next
    /\ UNCHANGED <<callVars, answer, client, report, clockVars>>

WriteEnding ==
    \/ Emit("again", Header, "sentinel")
    \/ Emit("sentinel", Done, "last")
    \/ Emit("error", ErrorEvent, "last")
    \/ Emit("last", LastChunk, "end")

\* A failed write ends the request.
EndingFails ==
    /\ pc \in {"again", "sentinel", "error", "last"}
    /\ WriteFails
    /\ pc' = "end"
    /\ UNCHANGED <<callVars, out, answer, client, header_started, report, clockVars>>

\* write_json() returns or throws.
Answered ==
    /\ pc = "answer"
    /\ pc' = "end"
    /\ UNCHANGED <<callVars, out, answer, client, header_started, report, clockVars>>

ClientLeaves ==
    /\ client = "here"
    /\ client' = "gone"
    /\ UNCHANGED <<pc, callVars, out, answer, header_started, report, clockVars>>

Call == NotConnected \/ Resolved \/ Connected \/ Sent \/ ExchangeFails \/ ReplyRead

Relay ==
    \/ HeadRead \/ Drained \/ Read \/ Begin \/ Write \/ SinkFails
    \/ WriteEnding \/ EndingFails \/ Answered

Next == HealthChanges \/ Reject \/ Dispatch \/ Tick \/ Call \/ Relay \/ ClientLeaves

Spec == Init /\ [][Next]_vars

\* What the deadline does to a timed suspension.
DeadlinePasses ==
    /\ pc \in Timed /\ Expired
    /\ \/ NotConnected \/ ExchangeFails \/ Drained
       \/ \E flushed \in {<<>>, <<Cut>>} : ReadEnds(0, FALSE, "timeout", flushed)

\* Time passes and timers fire; neither backend nor client need ever move.
FairSpec == Spec /\ WF_vars(Tick) /\ WF_vars(DeadlinePasses)

-----------------------------------------------------------------------------
(***************************************************************************)
(* Properties                                                              *)
(***************************************************************************)

Written(x) == \E i \in 1..Len(out) : out[i] = x

\* What the client gets is one header, then the backend's chunks from the first
\* on without gap or repetition (the n-th is the n-th frame), and nothing behind
\* the terminator.
FramesInOrder ==
    /\ out # <<>> => out[1] = Header
    /\ \A i \in 2..Len(out) :
          /\ out[i] # Header
          /\ out[i][1] = "chunk" => out[i] = Chunk(i - 1) /\ i - 1 <= backend.chunks
    /\ \A i \in 1..Len(out) : out[i] = LastChunk => i = Len(out)

\* "Never silent truncation": no frame is lost, doubled or overtaken between the
\* reads, the pending queue and the sink, and a response that was ended properly
\* tells the client how: after every chunk the backend sent and its [DONE], or by
\* an error event.
NeverSilentTruncation ==
    /\ FramesInOrder
    /\ (Written(LastChunk) /\ client = "here") =>
          \/ Written(ErrorEvent)
          \/ /\ Written(Done)
             /\ \A i \in 1..backend.chunks : Written(Chunk(i))

\* The breaker hears of a success only if the stream was complete or the client
\* was gone, and the client of a stream it failed is told.  A failure after
\* [DONE] is a backend that kept the connection open until the read timed out.
ReportAgreesWithResponse ==
    pc = "end" /\ client = "here" /\ header_started =>
        /\ report = "success" => Written(Done) /\ ~Written(ErrorEvent)
        /\ report = "failure" => /\ Written(ErrorEvent)
                                 /\ Written(Done) => ec = "timeout"
        /\ report # "none"

\* A call that is not a stream takes two budgets at most, from the first attempt
\* to connect to the end of the answer: connect() sets the deadline, post_chat()
\* sets it anew, and nothing else does.  (The resolution of the name comes before
\* and has no deadline.)
UnaryWithinTwoBudgets == ~IsStream(body) => spent <= 2 * Budget

\* A silent backend holds no suspension of the call for longer than its deadline:
\* with the deadlines alone the coroutine goes on, or begins another read.  A
\* stream that keeps sending has as many reads, and deadlines, as it likes.
SilenceIsCutShort ==
    \A n \in 0..MaxReads :
        pc \in {"connect", "send", "head", "drain", "read", "reply"} /\ reads = n
          ~> pc \notin {"connect", "send", "head", "drain", "read", "reply"} \/ reads # n

\* An example of a body that parses.
WellFormedBody ==
    [json |-> "object", model |-> "served", messages |-> "good", stream |-> "true"]

\* A body a backend may be asked with.
WellFormed(b) ==
    /\ b.json = "object"
    /\ b.model \in {"served", "unknown"}
    /\ b.messages = "good"
    /\ b.stream \in {"absent", "true", "false"}

\* Every answer explains itself: an error object comes with every status but
\* 200 and carries that status unless it is the backend's own, a malformed body
\* never reaches a backend, and the member that the 400 names is at fault.
AnswersExplainThemselves ==
    /\ pc \notin {"start", "answer", "end"} => WellFormed(body)
    /\ pc = "answer" =>
         LET error == answer.error
         IN  /\ answer.status = 200 <=> error = NoError
             /\ error \notin {NoError, TheirError} => error.code = answer.status
             /\ ~WellFormed(body) <=> answer.status = 400 /\ report = "none"
             /\ \A m \in {"model", "messages", "stream"} :
                   error.param = m /\ answer.status = 400 =>
                       ~WellFormed([WellFormedBody EXCEPT ![m] = body[m]])

\* Only whole frames are forwarded: "Flush any trailing complete-but-
\* unterminated frame", "emits complete events, buffering any partial trailing
\* event".
WholeFramesOnly == ~Written(Cut)
=============================================================================
