------------------------------- MODULE SseWire -------------------------------
(* The response to one request over server-sent events: the incremental       *)
(* framing (providers/openai_codex/sse.rs) and the reading half of the wire   *)
(* (wire.rs), with the probe that a response without a media type must pass   *)
(* before it is read at all.                                                  *)
(*                                                                            *)
(* A body is a sequence of bytes.  Line ends are bytes of their own; the text *)
(* of one line is one letter that says which field it is and, for a data      *)
(* line, what its JSON is.  Chunks cut the body anywhere between letters.     *)
EXTENDS Naturals, Sequences, SequencesExt

CONSTANTS
    Bodies,        \* bodies that the provider may send
    Medias,        \* classes of the content type: "event_stream", "missing", "json"
    MaxFrame,      \* bytes of one frame; MAX_FRAME_BYTES
    MaxProlog,     \* bytes that the probe inspects; MAX_SSE_PROLOG
    MaxResponse    \* bytes of a body; MAX_RESPONSE_BYTES

VARIABLES
    media, body,   \* what the provider answers with
    at,            \* bytes of the body that were fetched
    pc,            \* "head", "probe", "read", "idle", "failed"
    probe,         \* the strict framing of the probe
    inspected,     \* bytes that the probe looked at
    replay,        \* fetched chunks that the wire has still to read
    decoder,       \* the framing of the wire
    frames, eof, received,
    delivered      \* values that receive returned, in order

vars == <<media, body, at, pc, probe, inspected, replay, decoder, frames, eof,
          received, delivered>>

DataLine == {"created", "terminal", "other", "half", "[DONE]", "empty"}
Label == {"event:created", "event:terminal"}
Ends == {"CR", "LF"}

Fresh(strict) == [line |-> <<>>, data |-> <<>>, after_cr |-> FALSE, first |-> TRUE,
                  bytes |-> 0, strict |-> strict, label |-> "", dispatched |-> "",
                  frames |-> <<>>, error |-> FALSE]

-----------------------------------------------------------------------------
(* Framing.                                                                   *)

\* A blank line ends the frame; without data there is none.
dispatch(d) ==
    [d EXCEPT !.frames = IF d.data = <<>> THEN @ ELSE Append(@, d.data),
              !.data = <<>>, !.bytes = 0,
              !.dispatched = IF d.strict THEN d.label ELSE @,
              !.label = IF d.strict THEN "" ELSE @]

\* A byte order mark counts on the first line only.
Text(d) == IF d.first /\ d.line # <<>> /\ Head(d.line) = "BOM" THEN Tail(d.line) ELSE d.line

\* Before it is admitted a response may hold nothing but fields of an event stream.
Strange(text) == text # <<>> /\ \/ Len(text) > 1
                                \/ text[1] \notin DataLine \cup Label \cup {"comment"}

finish_line(d) ==
    LET text == Text(d)
        next == [d EXCEPT !.line = <<>>, !.first = FALSE] IN
    IF d.strict /\ Strange(text) THEN [next EXCEPT !.error = TRUE]
    ELSE IF text = <<>> THEN dispatch(next)
    ELSE IF Len(text) = 1 /\ text[1] \in DataLine THEN [next EXCEPT !.data = Append(@, text[1])]
    ELSE IF d.strict /\ text[1] \in Label THEN [next EXCEPT !.label = text[1]]
    ELSE next

\* The second half of a line end that a chunk boundary may have split.
Swallowed(d, byte) == d.after_cr /\ byte = "LF"

feed_byte(d, byte) ==
    IF d.error THEN d
    ELSE IF Swallowed(d, byte) THEN [d EXCEPT !.after_cr = FALSE]
    ELSE IF d.bytes + 1 > MaxFrame THEN [d EXCEPT !.error = TRUE]
    ELSE LET counted == [d EXCEPT !.bytes = @ + 1, !.after_cr = FALSE] IN
         CASE byte = "CR" -> [finish_line(counted) EXCEPT !.after_cr = TRUE]
           [] byte = "LF" -> finish_line(counted)
           [] OTHER -> [counted EXCEPT !.line = Append(@, byte)]

feed(d, bytes) == FoldLeft(feed_byte, [d EXCEPT !.frames = <<>>], bytes)

\* The end of the body ends its last line and its last frame.
finish(d) ==
    LET clear == [d EXCEPT !.frames = <<>>] IN
    dispatch(IF d.line = <<>> THEN clear ELSE finish_line(clear))

\* A frame as JSON: data lines are joined, and white space means nothing.
Value(frame) ==
    LET json == SelectSeq(frame, LAMBDA line : line # "empty") IN
    CASE json \in {<<>>, <<"[DONE]">>} -> "skip"
      [] json = <<"half", "half">> -> "other"
      [] json \in {<<"created">>, <<"terminal">>, <<"other">>} -> json[1]
      [] OTHER -> "invalid"

-----------------------------------------------------------------------------
Init ==
    /\ media \in Medias /\ body \in Bodies
    /\ at = 0 /\ pc = "head"
    /\ probe = Fresh(TRUE) /\ inspected = 0 /\ replay = <<>>
    /\ decoder = Fresh(FALSE) /\ frames = <<>> /\ eof = FALSE /\ received = 0
    /\ delivered = <<>>

\* The headers: another media type is refused, a missing one is probed.
Respond ==
    /\ pc = "head"
    /\ pc' = CASE media = "event_stream" -> "read"
               [] media = "missing" -> "probe"
               [] OTHER -> "failed"
    /\ UNCHANGED <<media, body, at, probe, inspected, replay, decoder, frames, eof,
                   received, delivered>>

Chunk(n) == SubSeq(body, at + 1, at + n)
Fits(n) == at + n <= Len(body)
Fail == pc' = "failed"

\* The first data frame decides: it must start or end a response, under a label
\* that says the same.
qualifies_sse_prolog(frame, label) ==
    /\ Value(frame) \in {"created", "terminal"}
    /\ label \in {"", "event:" \o Value(frame)}

\* The probe stops at the byte that completes the first frame.
Inspected(bytes) ==
    LET after(i) == feed(probe, SubSeq(bytes, 1, i))
        Stops(i) == after(i).error \/ after(i).frames # <<>> \/ inspected + i >= MaxProlog
        ends == {i \in 1..Len(bytes) : Stops(i)}
        i == IF ends = {} THEN Len(bytes) ELSE CHOOSE e \in ends : \A f \in ends : e <= f
    IN  [count |-> i, decoder |-> after(i), stopped |-> ends # {}]

\* Fault: only what the probe did not look at is left to read.
KeepsSuffix(bytes, count) == <<SubSeq(bytes, count + 1, Len(bytes))>>

\* The whole chunk is read again, the part that was not inspected included.
Kept(bytes, count) == <<bytes>>

ProbeChunk(n) ==
    /\ pc = "probe" /\ Fits(n)
    /\ LET bytes == Chunk(n)
           seen == Inspected(bytes)
           decided == ~seen.decoder.error /\ seen.decoder.frames # <<>> IN
       /\ at' = at + n
       /\ probe' = seen.decoder /\ inspected' = inspected + seen.count
       /\ replay' = replay \o Kept(bytes, seen.count)
       /\ pc' = IF at + n > MaxResponse THEN "failed"
                ELSE IF ~seen.stopped THEN "probe"
                ELSE IF decided /\ qualifies_sse_prolog(Head(seen.decoder.frames),
                                                        seen.decoder.dispatched)
                     THEN "read" ELSE "failed"
    /\ UNCHANGED <<media, body, decoder, frames, eof, received, delivered>>

\* An end before the first frame, a read error or ten seconds without one.
ProbeFails ==
    /\ pc = "probe" /\ Fail
    /\ UNCHANGED <<media, body, at, probe, inspected, replay, decoder, frames, eof,
                   received, delivered>>

\* The terminal value ends the response.
Over == delivered # <<>> /\ Last(delivered) = "terminal"
Reading == pc = "read" /\ frames = <<>> /\ ~eof /\ ~Over

\* A chunk, of those that the probe kept or from the network.
Read(bytes) ==
    LET fed == feed(decoder, bytes) IN
    /\ received' = received + Len(bytes)
    /\ IF received + Len(bytes) > MaxResponse \/ fed.error
         THEN Fail /\ UNCHANGED <<decoder, frames>>
         ELSE decoder' = fed /\ frames' = fed.frames /\ UNCHANGED pc
    /\ UNCHANGED <<media, body, probe, inspected, eof, delivered>>

ReadKept ==
    /\ Reading /\ replay # <<>>
    /\ Read(Head(replay)) /\ replay' = Tail(replay)
    /\ UNCHANGED at

ReadChunk(n) ==
    /\ Reading /\ replay = <<>> /\ Fits(n)
    /\ Read(Chunk(n)) /\ at' = at + n
    /\ UNCHANGED replay

\* The last frame of a body may lack its blank line.
ReadEof ==
    /\ Reading /\ replay = <<>> /\ at = Len(body)
    /\ eof' = TRUE /\ decoder' = finish(decoder) /\ frames' = finish(decoder).frames
    /\ UNCHANGED <<media, body, at, pc, probe, inspected, replay, received, delivered>>

ReadError ==
    /\ Reading /\ replay = <<>> /\ Fail
    /\ UNCHANGED <<media, body, at, probe, inspected, replay, decoder, frames, eof,
                   received, delivered>>

\* receive gives the next value; frames that are empty or [DONE] are passed over.
Deliver ==
    /\ pc = "read" /\ frames # <<>> /\ ~Over
    /\ frames' = Tail(frames)
    /\ LET value == Value(Head(frames)) IN
       CASE value = "skip" -> UNCHANGED <<pc, delivered>>
         [] value = "invalid" -> Fail /\ UNCHANGED delivered
         [] OTHER -> delivered' = Append(delivered, value) /\ UNCHANGED pc
    /\ UNCHANGED <<media, body, at, probe, inspected, replay, decoder, eof, received>>

\* end_response: after a terminal value nothing more is read.
EndResponse ==
    /\ pc = "read" /\ Over
    /\ pc' = "idle"
    /\ replay' = <<>> /\ frames' = <<>> /\ eof' = FALSE /\ decoder' = Fresh(FALSE)
    /\ UNCHANGED <<media, body, at, probe, inspected, received, delivered>>

Next ==
    \/ Respond
    \/ \E n \in 1..MaxResponse + 1 : ProbeChunk(n) \/ ReadChunk(n)
    \/ ProbeFails \/ ReadKept \/ ReadEof \/ ReadError \/ Deliver \/ EndResponse

Spec == Init /\ [][Next]_vars

-----------------------------------------------------------------------------
(* Properties.                                                                *)

\* The body as a whole: line ends made equal, the mark at its start dropped, and the
\* data lines up to each blank line, or up to the end, taken together.
WholeFrames(bytes) ==
    LET Splits(i) == bytes[i] = "LF" /\ i > 1 /\ bytes[i - 1] = "CR"
        letters == [i \in 1..Len(bytes) |-> IF Splits(i) \/ bytes[i] = "BOM" THEN "none"
                                            ELSE IF bytes[i] = "CR" THEN "LF" ELSE bytes[i]]
        text == SelectSeq(letters, LAMBDA b : b # "none") \o <<"LF", "LF">>
        Blank(i) == text[i] = "LF" /\ (i = 1 \/ text[i - 1] = "LF")
        Since(i) == CHOOSE j \in 0..(i - 1) : /\ j = 0 \/ Blank(j)
                                             /\ \A k \in (j + 1)..(i - 1) : ~Blank(k)
        Frame(i) == SelectSeq(SubSeq(text, Since(i) + 1, i), LAMBDA b : b \in DataLine)
        cut == [i \in 1..Len(text) |-> IF Blank(i) THEN Frame(i) ELSE <<>>]
    IN  SelectSeq(cut, LAMBDA f : f # <<>>)

WholeValues(bytes) ==
    LET values == [i \in 1..Len(WholeFrames(bytes)) |-> Value(WholeFrames(bytes)[i])]
    IN  SelectSeq(values, LAMBDA v : v # "skip")

\* However the network cuts the body, and whether or not a probe read the start of it
\* first, receive returns the values of the whole body in order, all of them when the
\* body ends without an error, the last one even without its blank line; and nothing is
\* read from a response without a media type that does not start as an event stream
\* (SseDecoder::feed and finish, admit_sse_prolog, Wire::receive).
FramesAreExact ==
    /\ IsPrefix(delivered, WholeValues(body))
    /\ eof /\ frames = <<>> /\ pc = "read" /\ ~Over => delivered = WholeValues(body)
    /\ delivered # <<>> /\ media = "missing" =>
          Value(Head(WholeFrames(body))) \in {"created", "terminal"}
==============================================================================
