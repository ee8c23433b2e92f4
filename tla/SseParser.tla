------------------------------ MODULE SseParser ------------------------------
(***************************************************************************)
(* upstream::SseParser, which cuts the bytes of a backend's stream into    *)
(* events as they come off the socket, and the frame in which SseWriter    *)
(* sends an event on.  A text is a sequence of characters; the field names *)
(* "data" and "event" are one character each, as nothing looks inside.     *)
(***************************************************************************)
EXTENDS Naturals, Sequences

LF == "LF"
CR == "CR"
SP == "SP"
COLON == "COLON"

CONSTANTS
    Chars,       \* the characters
    Chunks,      \* what one read may bring: texts
    MaxChunks    \* bound on the reads

ASSUME SseAssumption ==
    /\ {LF, CR, SP, COLON, "data", "event"} \subseteq Chars
    /\ Chunks \subseteq Seq(Chars)
    /\ MaxChunks \in Nat

VARIABLES
    parser,    \* the fields of the SseParser
    events,    \* what on_event was called with
    text,      \* everything fed so far
    reads,     \* chunks fed so far
    flushed    \* flush() was called

vars == <<parser, events, text, reads, flushed>>

FreshParser == [line_buf |-> <<>>, cur_data |-> <<>>, cur_event |-> <<>>,
                have_field |-> FALSE]

Init ==
    /\ parser = FreshParser
    /\ events = <<>>
    /\ text = <<>>
    /\ reads = 0
    /\ flushed = FALSE

-----------------------------------------------------------------------------
(***************************************************************************)
(* The parser, on pairs s of its fields p and the events evs so far        *)
(***************************************************************************)

\* Drop one trailing CR.
StripCR(line) ==
    IF line # <<>> /\ line[Len(line)] = CR THEN SubSeq(line, 1, Len(line) - 1) ELSE line

strip_leading_space(v) == IF v # <<>> /\ Head(v) = SP THEN Tail(v) ELSE v

\* The position of the first colon, one behind the end if there is none.
Colon(line) ==
    LET colons == {i \in 1..Len(line) : line[i] = COLON} \cup {Len(line) + 1}
    IN  CHOOSE i \in colons : \A j \in colons : i <= j

\* The line up to its first colon, and what follows the colon.
Field(line) == SubSeq(line, 1, Colon(line) - 1)

Value(line) ==
    IF Colon(line) > Len(line) THEN <<>>
    ELSE strip_leading_space(SubSeq(line, Colon(line) + 1, Len(line)))

\* Mutation: the data of the event stays behind for the next one.
MutDispatch(s) ==
    IF s.p.have_field
    THEN [p   |-> [s.p EXCEPT !.cur_event = <<>>, !.have_field = FALSE],
          evs |-> Append(s.evs, [data |-> s.p.cur_data, event |-> s.p.cur_event])]
    ELSE s

dispatch(s) ==
    IF s.p.have_field
    THEN [p   |-> [FreshParser EXCEPT !.line_buf = s.p.line_buf],
          evs |-> Append(s.evs, [data |-> s.p.cur_data, event |-> s.p.cur_event])]
    ELSE s

\* A data line, behind those the event already has.
AddData(data, v) == IF data # <<>> THEN data \o <<LF>> \o v ELSE v

process_line(line, s) ==
    IF line = <<>> THEN dispatch(s)
    ELSE IF Head(line) = COLON THEN s
    ELSE [s EXCEPT
            !.p.have_field = TRUE,
            !.p.cur_data   = IF Field(line) = <<"data">> THEN AddData(@, Value(line)) ELSE @,
            !.p.cur_event  = IF Field(line) = <<"event">> THEN Value(line) ELSE @]

ClearLine(s) == [s EXCEPT !.p.line_buf = <<>>]

\* One character.
FeedChar(s, c) ==
    IF c = LF THEN ClearLine(process_line(StripCR(s.p.line_buf), s))
    ELSE [s EXCEPT !.p.line_buf = Append(@, c)]

feed(chunk, s) ==
    LET after[n \in 0..Len(chunk)] == IF n = 0 THEN s ELSE FeedChar(after[n - 1], chunk[n])
    IN  after[Len(chunk)]

\* A buffered line counts as complete, then the event does.
flush(s) ==
    dispatch(IF s.p.line_buf = <<>> THEN s
             ELSE ClearLine(process_line(StripCR(s.p.line_buf), s)))

-----------------------------------------------------------------------------
\* The read loop of stream_chat().
Feed ==
    /\ ~flushed
    /\ reads < MaxChunks
    /\ \E chunk \in Chunks :
          LET s == feed(chunk, [p |-> parser, evs |-> events])
          IN  /\ parser' = s.p
              /\ events' = s.evs
              /\ text' = text \o chunk
    /\ reads' = reads + 1
    /\ UNCHANGED flushed

\* The stream has ended.
Flush ==
    /\ ~flushed
    /\ LET s == flush([p |-> parser, evs |-> events])
       IN  /\ parser' = s.p
           /\ events' = s.evs
    /\ flushed' = TRUE
    /\ UNCHANGED <<text, reads>>

Next == Feed \/ Flush

Spec == Init /\ [][Next]_vars

\* Mutation: no space behind the colon.
MutFrame(data) == <<"data", COLON>> \o data \o <<LF, LF>>

\* SseWriter::write_data()
Frame(data) == <<"data", COLON, SP>> \o data \o <<LF, LF>>

-----------------------------------------------------------------------------
(***************************************************************************)
(* The events of a text, said without a parser                             *)
(***************************************************************************)

\* The numbers of S up to n, in order.
InOrder(S, n) ==
    LET upto[i \in 0..n] ==
            IF i = 0 THEN <<>>
            ELSE IF i \in S THEN Append(upto[i - 1], i) ELSE upto[i - 1]
    IN  upto[n]

\* The elements of seq at the positions in S.
Picked(seq, S) ==
    LET at == InOrder(S, Len(seq)) IN [k \in 1..Len(at) |-> seq[at[k]]]

\* What ends before each of the positions in S and begins behind the one before.
Pieces(seq, S) ==
    LET at == InOrder(S, Len(seq))
    IN  [k \in 1..Len(at) |-> SubSeq(seq, IF k = 1 THEN 1 ELSE at[k - 1] + 1, at[k] - 1)]

\* The terminated lines of t, each without its LF and one CR before it.
Lines(t) ==
    LET lines == Pieces(t, {i \in 1..Len(t) : t[i] = LF})
    IN  [k \in 1..Len(lines) |-> StripCR(lines[k])]

\* The lines that have a field.
Fields(lines) ==
    Picked(lines, {i \in 1..Len(lines) : lines[i] # <<>> /\ Head(lines[i]) # COLON})

\* The fields before each blank line, where there are any.
Blocks(lines) ==
    LET pieces == Pieces(lines, {i \in 1..Len(lines) : lines[i] = <<>>})
        blocks == [k \in 1..Len(pieces) |-> Fields(pieces[k])]
    IN  Picked(blocks, {k \in 1..Len(blocks) : blocks[k] # <<>>})

\* The values of the fields called name, in order.
Values(block, name) ==
    LET named == Picked(block, {i \in 1..Len(block) : Field(block[i]) = <<name>>})
    IN  [i \in 1..Len(named) |-> Value(named[i])]

\* Values joined by LF.
Joined(values) ==
    LET upto[n \in 0..Len(values)] ==
            IF n = 0 THEN <<>>
            ELSE IF n = 1 THEN values[1]
            ELSE upto[n - 1] \o <<LF>> \o values[n]
    IN  upto[Len(values)]

EventOf(block) ==
    LET named == Values(block, "event")
    IN  [data  |-> Joined(Values(block, "data")),
         event |-> IF named = <<>> THEN <<>> ELSE named[Len(named)]]

EventsOf(t) ==
    LET blocks == Blocks(Lines(t)) IN [k \in 1..Len(blocks) |-> EventOf(blocks[k])]

-----------------------------------------------------------------------------
(***************************************************************************)
(* Properties                                                              *)
(***************************************************************************)

\* Several data lines of which the first is empty.
LeadsEmpty(values) == Len(values) > 1 /\ values[1] = <<>>

\* Whatever the reads cut the stream into, the events that came out are those
\* of the text so far: none lost, doubled, merged with the next or emitted
\* before its blank line, with CRLF, comments, unknown fields and several data
\* lines in any mixture; and flush() emits exactly what ending the line and the
\* event would have brought, and forgets it.  Nothing is said of the data of an
\* event whose first data line is empty: process_line() takes empty data for no
\* data and leaves out the LF, although the lines are "joined with '\n'".
EventsOfTheText ==
    LET blocks == Blocks(Lines(IF flushed THEN text \o <<LF, LF>> ELSE text))
    IN  /\ Len(events) = Len(blocks)
        /\ \A k \in 1..Len(blocks) :
              /\ events[k].event = EventOf(blocks[k]).event
              /\ ~LeadsEmpty(Values(blocks[k], "data")) => events[k] = EventOf(blocks[k])
        /\ flushed => parser = FreshParser

\* An event whose data is one line is forwarded verbatim: the frame written for
\* it is read as one event with the same data, character by character, be it
\* empty or with a space in front.  (Data with LF or CR in it is not: write_data()
\* puts it into one data line, whatever it holds.)
OneLineSurvives ==
    \A i \in 1..Len(events) :
        LET data == events[i].data
        IN  (\A j \in 1..Len(data) : data[j] \notin {LF, CR})
                => EventsOf(Frame(data)) = <<[data |-> data, event |-> <<>>]>>
=============================================================================
