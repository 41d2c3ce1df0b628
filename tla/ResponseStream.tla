---------------------------- MODULE ResponseStream ----------------------------
(* The body of a Responses answer.  It arrives in chunks cut anywhere; it is   *)
(* a stream of server-sent events when the header says so or its text looks    *)
(* like one, and a JSON document otherwise.  A body is a sequence of tokens,   *)
(* records of a kind and a text: the line ends "CR" and "LF", the "name" before *)
(* a colon, and the "value" that begins with the colon.                        *)
EXTENDS Integers, Sequences

CONSTANTS Bodies,     \* the bodies a provider may send
          Decoded(_), \* the JSON object of an event's joined data lines, or None
          JsonOf(_),  \* the JSON object of a whole body, or None
          MaxChunk,   \* bound: tokens of one chunk
          MaxText,    \* max_response_bytes
          None

VARIABLES body,       \* what the provider sends
          read,       \* how many tokens of it have arrived
          declared,   \* the content type is text/event-stream
          content,    \* what arrived while the kind of the body is unknown
          parser,     \* <<p>> with p the _ResponsesSseAccumulator, <<>> without one
          answer      \* the object the body is read as, an error, or None

streamVars == <<body, read, declared, content, parser, answer>>

Refused(error) == [status |-> error, output |-> None, usage |-> None]

Fresh == [line_buffer |-> <<>>, data_lines |-> <<>>, event_name |-> None, saw_data_event |-> FALSE,
          completed |-> None, delta_text |-> <<>>, done_text |-> None, latest_usage |-> None,
          error |-> None]

StreamInit ==
    /\ body \in Bodies /\ read = 0
    /\ declared \in BOOLEAN
    /\ content = <<>>
    /\ parser = IF declared THEN <<Fresh>> ELSE <<>>
    /\ answer = None

---------------------------------------------------------------------------
LineEnd(token) == token.kind \in {"CR", "LF"}
Field(token, name) == token.kind = "name" /\ token.text = name

(* _SSE_FIELD_RE: a field or a comment at the beginning of the bytes, or after *)
(* a line end.                                                                 *)
LooksLikeSse(bytes) ==
    \E i \in DOMAIN bytes :
        /\ i = 1 \/ LineEnd(bytes[i - 1])
        /\ \/ bytes[i].kind = "value"
           \/ /\ \E name \in {"event", "data", "id", "retry"} : Field(bytes[i], name)
              /\ i < Len(bytes) /\ bytes[i + 1].kind = "value"

---------------------------------------------------------------------------
Fail(p, error) == IF p.error = None THEN [p EXCEPT !.error = error] ELSE p

SetUsage(p, usage) == IF usage = None THEN p ELSE [p EXCEPT !.latest_usage = usage]

Completed(p, response) ==
    SetUsage([p EXCEPT !.completed = response], response.usage)

\* Deltas are counted as they come, a final text by its own length.
HandleEvent(p, name, pieces) ==
    IF pieces = <<"[DONE]">> THEN p
    ELSE IF Decoded(pieces) = None THEN Fail(p, "invalid")
    ELSE LET event == Decoded(pieces)
             type == IF event.type # None THEN event.type ELSE name
             q == SetUsage(p, event.usage) IN
         IF type = "delta"
         THEN IF Len(q.delta_text) + Len(event.text) > MaxText THEN Fail(q, "too_large")
              ELSE [q EXCEPT !.delta_text = @ \o event.text]
         ELSE IF type = "done"
         THEN IF Len(event.text) > MaxText THEN Fail(q, "too_large")
              ELSE [q EXCEPT !.done_text = event.text]
         ELSE IF type = "completed"
         THEN IF event.response = None THEN Fail(q, "invalid") ELSE Completed(q, event.response)
         \* A relay may send the whole response without a type.
         ELSE IF event.whole # None THEN Completed(q, event.whole) ELSE q

FlushEvent(p) ==
    IF p.data_lines = <<>> THEN [p EXCEPT !.event_name = None]
    ELSE HandleEvent([p EXCEPT !.data_lines = <<>>, !.event_name = None, !.saw_data_event = TRUE],
                     p.event_name, p.data_lines)

(* A blank line ends an event, and so does the next event's name: relays leave *)
(* blank lines out.                                                            *)
HandleLine(p, line) ==
    IF p.error # None THEN p
    ELSE IF line = <<>> THEN FlushEvent(p)
    ELSE IF Len(line) = 2 /\ Field(line[1], "event") THEN [FlushEvent(p) EXCEPT !.event_name = line[2].text]
    ELSE IF Len(line) = 2 /\ Field(line[1], "data") THEN [p EXCEPT !.data_lines = Append(@, line[2].text)]
    ELSE p

\* Defect: a CR at the end of a chunk ends its line at once.
HeldAtOnce(buffer, n, final) == FALSE

(* A CR that ends the chunk stays in the buffer: the next chunk may begin with *)
(* its LF.                                                                     *)
Held(buffer, n, final) == n = Len(buffer) /\ buffer[n].kind = "CR" /\ ~final

(* The lines that are complete are handled; what follows the last line end     *)
(* stays in the buffer.                                                        *)
DrainLines(p, final) ==
    LET buffer == p.line_buffer
        Step[n \in 0..Len(buffer)] ==
            IF n = 0 THEN [parser |-> [p EXCEPT !.line_buffer = <<>>], skip |-> FALSE]
            ELSE LET s == Step[n - 1] IN
                 IF s.skip /\ buffer[n].kind = "LF" THEN [s EXCEPT !.skip = FALSE]
                 ELSE IF LineEnd(buffer[n]) /\ ~Held(buffer, n, final)
                 THEN [parser |-> HandleLine([s.parser EXCEPT !.line_buffer = <<>>], s.parser.line_buffer),
                       skip |-> buffer[n].kind = "CR"]
                 ELSE [parser |-> [s.parser EXCEPT !.line_buffer = Append(@, buffer[n])], skip |-> FALSE]
    IN Step[Len(buffer)].parser

Feed(p, chunk) == DrainLines([p EXCEPT !.line_buffer = @ \o chunk], FALSE)

TextValue(p) == IF p.done_text # None THEN p.done_text ELSE p.delta_text

(* The response a finished parser stands for: what the last event left out is  *)
(* filled in from the earlier ones, and without a last event the texts and the *)
(* usage stand for it.                                                         *)
Response(p) ==
    LET text == TextValue(p)
        whole == [p.completed EXCEPT !.usage = IF @ = None THEN p.latest_usage ELSE @,
                                     !.output = IF @ = None /\ text # <<>> THEN text ELSE @] IN
    IF p.error # None THEN Refused(p.error)
    ELSE IF ~p.saw_data_event THEN Refused("invalid")
    ELSE IF p.completed # None
    THEN IF whole.output # None /\ Len(whole.output) > MaxText THEN Refused("too_large") ELSE whole
    ELSE IF Len(text) > MaxText THEN Refused("too_large")
    ELSE IF text = <<>> \/ p.latest_usage = None THEN Refused("invalid")
    ELSE [status |-> "completed", output |-> text, usage |-> p.latest_usage]

Finished(p) ==
    LET drained == DrainLines(p, TRUE)
        last == IF drained.line_buffer = <<>> THEN drained
                ELSE HandleLine([drained EXCEPT !.line_buffer = <<>>], drained.line_buffer) IN
    Response(IF last.error = None THEN FlushEvent(last) ELSE last)

---------------------------------------------------------------------------
(* A chunk arrives.  While the kind of the body is unknown, the chunk alone    *)
(* and the chunk after what came before are probed; an error ends the reading. *)
Arrive ==
    /\ answer = None /\ read < Len(body)
    /\ \E n \in 1..MaxChunk :
         /\ read + n <= Len(body)
         /\ read' = read + n
         /\ LET chunk == SubSeq(body, read + 1, read + n) IN
            IF parser # <<>>
            THEN parser' = <<Feed(parser[1], chunk)>> /\ UNCHANGED content
            ELSE IF LooksLikeSse(chunk) \/ LooksLikeSse(content \o chunk)
            THEN parser' = <<Feed(Feed(Fresh, content), chunk)>> /\ content' = <<>>
            ELSE content' = content \o chunk /\ UNCHANGED parser
    /\ answer' = IF parser' # <<>> /\ parser'[1].error # None THEN Refused(parser'[1].error) ELSE None
    /\ UNCHANGED <<body, declared>>

EndOfBody ==
    /\ answer = None /\ read = Len(body)
    /\ answer' = IF parser # <<>> THEN Finished(parser[1])
                 ELSE IF JsonOf(content) = None THEN Refused("invalid") ELSE JsonOf(content)
    /\ UNCHANGED <<body, read, declared, content, parser>>

StreamNext == Arrive \/ EndOfBody

StreamSpec == StreamInit /\ [][StreamNext]_streamVars

---------------------------------------------------------------------------
(* The reference: the lines of the whole body, whatever ends them, and the     *)
(* response the events of these lines come to.                                 *)
EndsLine(bytes, n) ==
    LineEnd(bytes[n]) /\ ~(bytes[n].kind = "LF" /\ n > 1 /\ bytes[n - 1].kind = "CR")

\* What stands before token n since the last line end.
LineStart(bytes, n) ==
    CHOOSE s \in 1..n : /\ s = 1 \/ LineEnd(bytes[s - 1])
                       /\ \A i \in s..(n - 1) : ~LineEnd(bytes[i])
LineBefore(bytes, n) == SubSeq(bytes, LineStart(bytes, n), n - 1)

LinesHandled(bytes) ==
    LET handled[n \in 0..Len(bytes)] ==
          IF n = 0 THEN Fresh
          ELSE IF EndsLine(bytes, n) THEN HandleLine(handled[n - 1], LineBefore(bytes, n))
          ELSE handled[n - 1]
    IN  handled[Len(bytes)]

WholeStream(bytes) ==
    LET p == HandleLine(LinesHandled(bytes), LineBefore(bytes, Len(bytes) + 1))
    IN  Response(IF p.error = None THEN FlushEvent(p) ELSE p)

(* A stream is read as the same response, or refused with the same error,      *)
(* however its bytes are cut into chunks: in the middle of a line, between the *)
(* CR and the LF of a line end, before or after the kind of the body is known. *)
StreamWhole ==
    (answer # None /\ (declared \/ LooksLikeSse(body))) => answer = WholeStream(body)

(* "JSON payloads encode line breaks inside strings, so a real field line is   *)
(* not mistaken for JSON" (_looks_like_sse): a JSON body is read as the        *)
(* document it is, however it is cut into chunks.                              *)
JsonAccepted ==
    (answer # None /\ ~declared /\ JsonOf(body) # None) => answer = JsonOf(body)
=============================================================================
