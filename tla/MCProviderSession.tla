-------------------------- MODULE MCProviderSession --------------------------
(***************************************************************************)
(* The provider for TLC: the turns of a session, the body of one response  *)
(* and its messages.  The three do not interact and are explored side by   *)
(* side.                                                                   *)
(***************************************************************************)
EXTENDS ProviderSession

VARIABLES part,
          media, body, at, wirePc, probe, inspected, replay, wireDecoder, frames, eof,
          received, delivered,
          target, position, slips, log, dec, life, phase, response

sseVars == <<media, body, at, wirePc, probe, inspected, replay, wireDecoder, frames, eof,
             received, delivered>>
responseVars == <<target, position, slips, log, dec, life, phase, response>>
allVars == <<part, vars, sseVars, responseVars>>

\* Bodies: lines of every sort under every line end, whole, cut off and run together.
Lines == {"created", "half", "empty", "comment", "event:terminal", "odd"}
Bodies ==
    LET Letters == Lines \cup {"terminal", "other", "event:created", "[DONE]", "CR", "LF"}
        WellFormed(s) == \A i \in 1..(Len(s) - 1) : s[i] \in {"CR", "LF"} \/ s[i + 1] \in {"CR", "LF"}
    IN  {s \in UNION {[1..n -> Letters] : n \in 0..4} : WellFormed(s)}
          \cup {<<"BOM", "event:created", "LF", "created", "CR", "LF", "CR", "LF">>,
                <<"half", "LF", "half", "CR", "CR", "[DONE]">>,
                <<"created", "CR", "LF", "LF", "terminal", "LF", "LF", "other">>}

Sse == INSTANCE SseWire WITH
    Medias <- {"event_stream", "missing", "json"}, MaxFrame <- 6, MaxProlog <- 6, MaxResponse <- 7,
    pc <- wirePc, decoder <- wireDecoder

Part(family, text) == [family |-> family, text |-> text]
Item(type, id, call, parts) ==
    [type |-> type, id |-> id, call |-> call, parts |-> parts, ordinary |-> TRUE]

Targets ==
    {<<Item("message", "m", None, <<Part("output_text", <<"a", "b">>), Part("refusal", <<"c">>)>>)>>,
     <<Item("reasoning", "s", None, <<Part("summary", <<"a">>)>>),
       Item("function_call", "f", "call", <<Part("arguments", <<"x">>)>>)>>}

Resp == INSTANCE ResponseStream WITH MaxSlips <- 1, MaxMessages <- 4, MaxEvents <- 5, MaxItems <- 2

NoBody ==
    /\ media = 0 /\ body = 0 /\ at = 0 /\ wirePc = 0 /\ probe = 0 /\ inspected = 0
    /\ replay = 0 /\ wireDecoder = 0 /\ frames = 0 /\ eof = 0 /\ received = 0 /\ delivered = 0
NoResponse ==
    /\ target = 0 /\ position = 0 /\ slips = 0 /\ log = 0 /\ dec = 0 /\ life = 0
    /\ phase = 0 /\ response = 0

MCInit ==
    /\ Init
    /\ \/ part = "session" /\ NoBody /\ NoResponse
       \/ part = "body" /\ transport = "sse" /\ Sse!Init /\ NoResponse
       \/ part = "response" /\ transport = "sse" /\ NoBody /\ Resp!Init

MCNext ==
    /\ UNCHANGED part
    /\ \/ part = "session" /\ Next /\ UNCHANGED <<sseVars, responseVars>>
       \/ part = "body" /\ Sse!Next /\ UNCHANGED <<vars, responseVars>>
       \/ part = "response" /\ Resp!Next /\ UNCHANGED <<vars, sseVars>>

MCSpec == MCInit /\ [][MCNext]_allVars

\* Three calls on a socket, two on an event source, where every request carries the whole
\* conversation.
CallsOfTransport == transport = "sse" => calls[3].kind = "none"

\* SseWire!FramesAreExact: what the wire delivers is what the body frames (wire.rs, sse.rs).
FramesAreExact == part = "body" => Sse!FramesAreExact

\* ResponseStream!ResponseIsStreamed: the response that is returned is the one that the
\* messages spell out (codec.rs, consistency.rs, finalized.rs).
ResponseIsStreamed == part = "response" => Resp!ResponseIsStreamed
==============================================================================
