------------------------------ MODULE RelayView -------------------------------
(***************************************************************************)
(* How module Gateway sees the request that StreamRelay plays out: as one  *)
(* request "r" on the only backend "b", with one slot and no retry         *)
(* possible.  What happens within the upstream call, and between the last  *)
(* writes of a stream, it does not see.                                    *)
(***************************************************************************)
EXTENDS StreamRelay

InCallPcs == {"resolve", "connect", "send", "reply", "head", "drain", "read", "begin", "write"}

\* Answers given without a slot of the backend: before the dispatch, or when the
\* walk of a non-streaming request has run out.
SlotHeld == ~(pc = "answer" /\ (report = "none" \/ answer.status = 503))

\* Answers given without a ticket: before the admission.
TicketHeld ==
    pc \notin {"start", "end"} /\ ~(pc = "answer" /\ report = "none" /\ answer.status # 503)

\* How Gateway records the end of a non-streaming call.
Outcome ==
    IF IsStream(body) \/ ~SlotHeld THEN "none"
    ELSE IF answer.status # 200 THEN "failed"
    ELSE IF http_status = 0 THEN "cut" ELSE "ok"

\* The locals of handle_chat, as module Gateway has them: of a connection between
\* two requests ...
IdleLocals ==
    [pc |-> "idle", stream |-> FALSE, serving |-> {}, order |-> <<>>, pos |-> 0,
     attempts |-> 0, is_probe |-> FALSE, header_started |-> FALSE, final_code |-> 0,
     slot |-> {}, outcome |-> "none"]

\* ... while the response is written, with the slots still held.
WritingLocals(slot, code, outcome) ==
    [IdleLocals EXCEPT !.pc = "writing", !.final_code = code, !.slot = slot,
                       !.outcome = outcome]

\* ... and at each suspension.
Locals ==
    CASE pc \in {"start", "end"} -> IdleLocals
      [] pc \in InCallPcs ->
           [IdleLocals EXCEPT !.pc = "upstream", !.stream = IsStream(body),
                              !.order = <<"b">>, !.pos = 1, !.attempts = 1,
                              !.header_started = header_started, !.slot = {"b"}]
      [] pc = "again" -> [IdleLocals EXCEPT !.pc = "beginning", !.slot = {"b"}]
      [] pc = "answer" ->
           WritingLocals(IF SlotHeld THEN {"b"} ELSE {}, answer.status, Outcome)
      [] OTHER -> WritingLocals({"b"}, 200, "none")

\* The variables of Gateway, for one request and one backend.
gw_in_flight == IF TicketHeld THEN 1 ELSE 0

gw_tickets == IF TicketHeld THEN {"r"} ELSE {}

gw_breaker ==
    [b \in {"b"} |-> [state |-> "Closed", elapsed |-> FALSE,
                      consecutive_failures |-> IF report = "failure" THEN 1 ELSE 0]]

gw_active == [b \in {"b"} |-> IF b \in Locals.slot THEN 1 ELSE 0]

gw_healthy == IF healthy THEN {"b"} ELSE {}

gw_req == [r \in {"r"} |-> Locals]
=============================================================================
