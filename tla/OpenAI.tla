------------------------------- MODULE OpenAI --------------------------------
(***************************************************************************)
(* The error model and the request parsing of src/src/openai, as functions *)
(* on shapes: an error is its four members, a message being who wrote it;  *)
(* a JSON value is the kind of value it is.                                *)
(***************************************************************************)
EXTENDS Naturals

status_code(kind) ==
    CASE kind = "InvalidRequest"               -> 400
      [] kind \in {"UnknownModel", "NotFound"} -> 404
      [] kind = "Admission"                    -> 429
      [] kind = "UpstreamFailure"              -> 502
      [] kind = "NoBackend"                    -> 503
      [] kind = "UpstreamTimeout"              -> 504

error_type(kind) ==
    CASE kind \in {"InvalidRequest", "UnknownModel"} -> "invalid_request_error"
      [] kind = "NotFound"                           -> "not_found_error"
      [] kind = "Admission"                          -> "rate_limit_error"
      [] kind = "UpstreamFailure"                    -> "upstream_error"
      [] kind = "NoBackend"                          -> "service_unavailable_error"
      [] kind = "UpstreamTimeout"                    -> "timeout_error"

\* param is "null" when the error is about no member of the request.
make_error(kind, param) ==
    [message |-> "gateway", type |-> error_type(kind), param |-> param,
     code |-> status_code(kind)]

\* No error object in the response.
NoError == [message |-> "none", type |-> "none", param |-> "none", code |-> 0]

\* What the body of a failed upstream call may be: an OpenAI error object, an
\* object whose "error" is a string, nothing, or anything else.
ErrorBodies == {"openai", "string", "empty", "other"}

\* The backend's own error object, which is passed through.
TheirError == [message |-> "backend", type |-> "backend", param |-> "backend", code |-> 0]

wrap_upstream_error(body, http_status) ==
    IF body = "openai" THEN TheirError
    ELSE [message |-> IF body = "empty" THEN "gateway" ELSE "backend",
          type |-> "upstream_error", param |-> "null", code |-> http_status]

-----------------------------------------------------------------------------
\* Bodies of POST /v1/chat/completions: "text" is not JSON, "value" is JSON but
\* not an object, and a member is absent or of the kinds parse() tells apart.
Bodies ==
    [json : {"text", "value"}, model : {"absent"}, messages : {"absent"}, stream : {"absent"}]
    \cup
    [json     : {"object"},
     model    : {"absent", "not a string", "served", "unknown"},
     messages : {"absent", "not an array", "empty", "without role", "good"},
     stream   : {"absent", "not a boolean", "true", "false"}]

\* Mutation: an empty array of messages is let through.
MutParseError(body) ==
    IF body.json # "object" THEN make_error("InvalidRequest", "null")
    ELSE IF body.model \in {"absent", "not a string"}
    THEN make_error("InvalidRequest", "model")
    ELSE IF body.messages \notin {"good", "empty"}
    THEN make_error("InvalidRequest", "messages")
    ELSE IF body.stream = "not a boolean" THEN make_error("InvalidRequest", "stream")
    ELSE NoError

\* What handle_chat answers when json::parse() or ChatCompletionRequest::parse()
\* refuses the body; the members are looked at in this order.
ParseError(body) ==
    IF body.json # "object" THEN make_error("InvalidRequest", "null")
    ELSE IF body.model \in {"absent", "not a string"}
    THEN make_error("InvalidRequest", "model")
    ELSE IF body.messages # "good" THEN make_error("InvalidRequest", "messages")
    ELSE IF body.stream = "not a boolean" THEN make_error("InvalidRequest", "stream")
    ELSE NoError

\* ChatCompletionRequest::stream of a body that parses.
IsStream(body) == body.stream = "true"
=============================================================================
