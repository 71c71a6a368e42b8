--------------------------- MODULE ProviderSession ---------------------------
(* One session with the model provider: the callers of its control handle,    *)
(* the worker that owns the connection, the bounded event queue with its      *)
(* final slot, and the consumer of the event stream                           *)
(* (providers/openai_codex/session.rs), with the conversation that the worker *)
(* continues (state.rs), the identity checks of the response decoder          *)
(* (codec.rs) and the point at which a request may have left (wire.rs).       *)
(*                                                                            *)
(* A call is one use of generate or install_replay.  What a request says is   *)
(* reduced to the calls whose results it carries; a transcript is a sequence  *)
(* of the inputs and outputs of numbered calls.  The provider answers with    *)
(* any message the decoder tells apart.                                       *)
EXTENDS Naturals, Sequences, FiniteSets

CONSTANTS
    Transports,    \* of the session options: "websocket", "sse"
    MaxOpen,       \* calls in progress at once
    MaxCalls,      \* calls of generate and install_replay in one session
    MaxProgress,   \* events before the terminal one, per request
    Capacity,      \* of the event queue; 64 in the code
    HistoryLimit,  \* entries of a transcript; 2048 in the code
    CallIds,       \* of the functions that a response may call
    ResponseIds,   \* that the provider gives to responses
    None           \* no response

ASSUME SessionAssumption ==
    /\ Transports \subseteq {"websocket", "sse"}
    /\ MaxOpen \in Nat \ {0}
    /\ MaxCalls \in Nat \ {0}
    /\ MaxProgress \in Nat
    /\ Capacity \in Nat \ {0}
    /\ HistoryLimit \in Nat
    /\ None \notin ResponseIds

VARIABLES
    transport,     \* "websocket" or "sse"
    busy, closed, used, cancel,   \* the shared flags and the token
    calls,         \* every call: what it asks and how far it is
    control,       \* the control handle is still held
    commands,      \* queued commands, by call
    receiving,     \* the worker has not closed the command channel
    pc, cur,       \* of the worker, and the call that it serves
    conversation,  \* what the next request continues
    decoder,       \* identity of the response being decoded, or None
    progress,      \* messages of the current request before its terminal
    pending,       \* decoded events that are not yet published
    upstream,      \* what is known of the current request at the provider
    sent,          \* requests that may have reached the provider, with their contexts
    answers,       \* terminal responses, by call
    queue, final_slot, sequence,  \* the event sink
    stream, seen   \* the consumer and the events that it has received

callVars == <<busy, used, calls, commands, control>>
workVars == <<conversation, decoder, progress, pending, upstream, sent, answers>>
sinkVars == <<queue, final_slot, sequence>>
readVars == <<stream, seen>>
vars == <<transport, closed, cancel, receiving, pc, cur,
          callVars, workVars, sinkVars, readVars>>

Calls == 1..MaxCalls
Returned == {"receipt", "installed", "invalid", "busy", "closed"}
Left == Returned \cup {"abandoned"}
Driving == {"send", "write", "receive", "emit"}

NoAnswer == [id |-> None, completed |-> FALSE, calls |-> {}, advanced |-> FALSE]
NoCall == [kind |-> "none", results |-> {}, pc |-> "unborn"]
Fresh == [history |-> <<>>, last_response |-> None, pending_calls |-> {},
          advanced_output |-> FALSE, settled_ids |-> {}]

Entry == {"in", "out", "replay"} \X (0..MaxCalls)
Event == [sequence : Nat, call : 0..MaxCalls,
          kind : {"started", "content", "extension", "finished", "failed", "closed"},
          upstream : {"none", "not_submitted", "unknown", "terminal_received"}]

TypeOK ==
    /\ transport \in Transports
    /\ busy \in BOOLEAN /\ closed \in BOOLEAN /\ used \in BOOLEAN
    /\ cancel \in BOOLEAN /\ control \in BOOLEAN /\ receiving \in BOOLEAN
    /\ calls \in [Calls -> [kind : {"none", "generate", "install"},
                            results : SUBSET CallIds,
                            pc : Left \cup {"unborn", "reserve", "send", "wait"}]]
    /\ commands \in Seq(Calls) /\ Len(commands) <= 1
    /\ pc \in Driving \cup {"select", "install", "installed", "invalid", "generate", "refuse",
              "receipt", "free", "fail", "finish", "failed", "exit", "drain",
              "drop", "done"}
    /\ cur \in 0..MaxCalls
    /\ conversation.history \in Seq(Entry)
    /\ conversation.last_response \in ResponseIds \cup {None}
    /\ conversation.pending_calls \subseteq CallIds
    /\ conversation.settled_ids \subseteq ResponseIds
    /\ decoder \in ResponseIds \cup {None}
    /\ progress \in 0..MaxProgress
    /\ pending \in Seq({"started", "content", "extension", "finished"})
    /\ upstream \in {"not_submitted", "unknown", "terminal_received"}
    /\ sent \in Seq([call : Calls, context : Seq(Entry)])
    /\ answers \in [Calls -> [id : ResponseIds \cup {None}, completed : BOOLEAN,
                              calls : SUBSET CallIds, advanced : BOOLEAN]]
    /\ queue \in Seq(Event) /\ Len(queue) <= Capacity
    /\ final_slot \in Seq(Event) /\ Len(final_slot) <= 1
    /\ sequence \in Nat
    /\ stream \in {"open", "ended", "dropped"}
    /\ seen \in Seq(Event)

Init ==
    /\ transport \in Transports
    /\ busy = FALSE /\ closed = FALSE /\ used = FALSE /\ cancel = FALSE
    /\ calls = [k \in Calls |-> NoCall]
    /\ control = TRUE
    /\ commands = <<>> /\ receiving = TRUE
    /\ pc = "select" /\ cur = 0
    /\ conversation = Fresh
    /\ decoder = None /\ progress = 0 /\ pending = <<>>
    /\ upstream = "not_submitted"
    /\ sent = <<>> /\ answers = [k \in Calls |-> NoAnswer]
    /\ queue = <<>> /\ final_slot = <<>> /\ sequence = 0
    /\ stream = "open" /\ seen = <<>>

-----------------------------------------------------------------------------
(* The callers of the control handle.                                         *)

Becomes(k, where) == calls' = [calls EXCEPT ![k].pc = where]

Unborn(k) == /\ calls[k].kind = "none"
             /\ \A j \in Calls : j < k => calls[j].kind # "none"
             /\ Cardinality({j \in Calls : calls[j].pc \notin Left \cup {"unborn"}}) < MaxOpen

\* The first half of reserve: closed or cancelled ends the call.
Call(k, kind, results) ==
    /\ control /\ Unborn(k)
    /\ calls' = [calls EXCEPT ![k] =
                    [kind |-> kind, results |-> results,
                     pc |-> IF closed \/ cancel THEN "closed" ELSE "reserve"]]
    /\ UNCHANGED <<transport, busy, closed, used, cancel, control, commands, receiving,
                   pc, cur, workVars, sinkVars, readVars>>

\* The second half of reserve: the flag is taken or the call is told Busy.
Reserve(k) ==
    /\ calls[k].pc = "reserve"
    /\ busy' = TRUE
    /\ Becomes(k, IF busy THEN "busy" ELSE "send")
    /\ UNCHANGED <<transport, closed, used, cancel, control, commands, receiving,
                   pc, cur, workVars, sinkVars, readVars>>

\* install_replay requires a fresh session.
InstallRefused(k) ==
    /\ calls[k].pc = "send" /\ calls[k].kind = "install" /\ used
    /\ busy' = FALSE
    /\ Becomes(k, "invalid")
    /\ UNCHANGED <<transport, closed, used, cancel, control, commands, receiving,
                   pc, cur, workVars, sinkVars, readVars>>

\* The command goes into the channel; a call that finds it full waits.
Submit(k) ==
    /\ calls[k].pc = "send" /\ ~(calls[k].kind = "install" /\ used)
    /\ receiving /\ commands = <<>>
    /\ used' = (used \/ calls[k].kind = "generate")
    /\ commands' = <<k>>
    /\ Becomes(k, "wait")
    /\ UNCHANGED <<transport, busy, closed, cancel, control, receiving,
                   pc, cur, workVars, sinkVars, readVars>>

\* The worker has gone: generate frees the flag, install_replay closes the session.
SubmitFails(k) ==
    /\ calls[k].pc = "send" /\ ~(calls[k].kind = "install" /\ used)
    /\ ~receiving
    /\ Becomes(k, "closed")
    /\ IF calls[k].kind = "generate"
         THEN used' = TRUE /\ busy' = FALSE /\ UNCHANGED <<closed, cancel>>
         ELSE closed' = TRUE /\ cancel' = TRUE /\ UNCHANGED <<used, busy>>
    /\ UNCHANGED <<transport, control, commands, receiving,
                   pc, cur, workVars, sinkVars, readVars>>

\* The future of a call is dropped; that of an installation cancels the session.
Abandon(k) ==
    /\ calls[k].pc = "wait"
    /\ Becomes(k, "abandoned")
    /\ cancel' = (cancel \/ calls[k].kind = "install")
    /\ UNCHANGED <<transport, busy, closed, used, control, commands, receiving,
                   pc, cur, workVars, sinkVars, readVars>>

Close ==
    /\ control /\ ~(closed /\ cancel)
    /\ closed' = TRUE /\ cancel' = TRUE
    /\ UNCHANGED <<transport, receiving, pc, cur, callVars, workVars, sinkVars, readVars>>

\* The last handle is dropped; no call is then in progress.
DropControl ==
    /\ control
    /\ \A k \in Calls : calls[k].pc \in Left \cup {"unborn"}
    /\ control' = FALSE /\ cancel' = TRUE
    /\ UNCHANGED <<transport, closed, receiving, pc, cur, busy, used, calls, commands,
                   workVars, sinkVars, readVars>>

-----------------------------------------------------------------------------
(* The consumer of the event stream.                                          *)

Receive ==
    /\ stream = "open" /\ queue # <<>>
    /\ seen' = Append(seen, Head(queue)) /\ queue' = Tail(queue)
    /\ UNCHANGED <<transport, closed, cancel, receiving, pc, cur, callVars, workVars,
                   final_slot, sequence, stream>>

\* What the stream yields after the queue.
FinalEvent == final_slot

\* The sender is gone and the queue is empty: the final slot comes last.
EndStream ==
    /\ stream = "open" /\ queue = <<>> /\ pc = "done"
    /\ seen' = seen \o FinalEvent /\ final_slot' = <<>>
    /\ stream' = "ended" /\ cancel' = TRUE
    /\ UNCHANGED <<transport, closed, receiving, pc, cur, callVars, workVars,
                   queue, sequence>>

\* Dropping the stream, polled or not, cancels the worker.
DropStream ==
    /\ stream = "open"
    /\ stream' = "dropped" /\ cancel' = TRUE
    /\ queue' = <<>> /\ final_slot' = <<>>
    /\ UNCHANGED <<transport, closed, receiving, pc, cur, callVars, workVars,
                   sequence, seen>>

-----------------------------------------------------------------------------
(* The event sink.                                                            *)

Envelope(kind, call, known) ==
    [sequence |-> sequence + 1, call |-> call, kind |-> kind, upstream |-> known]

Room == stream = "open" /\ Len(queue) < Capacity

\* terminal: never waits; a full queue leaves the event to the final slot.
Terminal(kind, call, known) ==
    /\ sequence' = sequence + 1
    /\ queue' = IF Room THEN Append(queue, Envelope(kind, call, known)) ELSE queue
    /\ final_slot' = IF stream = "open" /\ ~Room
                       THEN <<Envelope(kind, call, known)>> ELSE final_slot

-----------------------------------------------------------------------------
(* The worker: its loop, commands and their replies.                          *)

Abandoned == calls[cur].pc = "abandoned"

\* A reply reaches the call unless its future was dropped.
Reply(what) == IF Abandoned THEN UNCHANGED calls ELSE Becomes(cur, what)

Stopped == cancel \/ stream # "open"

Stop ==
    /\ pc = "select" /\ Stopped
    /\ pc' = "exit"
    /\ UNCHANGED <<transport, closed, cancel, receiving, cur, callVars, workVars,
                   sinkVars, readVars>>

TakeCommand ==
    /\ pc = "select" /\ ~Stopped /\ commands # <<>>
    /\ cur' = Head(commands) /\ commands' = Tail(commands)
    /\ pc' = calls[Head(commands)].kind
    /\ UNCHANGED <<transport, closed, cancel, receiving, busy, used, calls, control,
                   workVars, sinkVars, readVars>>

\* Without a request an event, an end or an error of a socket ends the session;
\* an event source is read only while a request has one.
IdleWire ==
    /\ pc = "select" /\ ~Stopped /\ commands = <<>> /\ transport = "websocket"
    /\ closed' = TRUE
    /\ Terminal("closed", 0, "none")
    /\ pc' = "exit"
    /\ UNCHANGED <<transport, cancel, receiving, cur, callVars, workVars, readVars>>

\* The replayed history of an earlier session, without a parent response.
Restored == [Fresh EXCEPT !.history = << <<"replay", 0>> >>]

InstallReplay(valid) ==
    /\ pc = "install"
    /\ IF cancel \/ Abandoned
         THEN pc' = "exit" /\ UNCHANGED <<used, busy, conversation>>
         ELSE /\ conversation' = IF valid THEN Restored ELSE conversation
              /\ used' = (used \/ valid)
              /\ busy' = FALSE
              /\ pc' = IF valid THEN "installed" ELSE "invalid"
    /\ UNCHANGED <<transport, closed, cancel, receiving, cur, calls, commands, control,
                   decoder, progress, pending, upstream, sent, answers, sinkVars, readVars>>

Acknowledge ==
    /\ pc \in {"installed", "invalid"}
    /\ Reply(pc)
    /\ pc' = IF Abandoned THEN "exit" ELSE "select"
    /\ UNCHANGED <<transport, closed, cancel, receiving, cur, busy, used, commands,
                   control, workVars, sinkVars, readVars>>

Delta(k) == << <<"in", k>> >>
Full(k) == conversation.history \o Delta(k)

\* Exactly the outstanding results are supplied.
Prepared(k) ==
    /\ ~conversation.advanced_output
    /\ calls[k].results = conversation.pending_calls
    /\ Len(Full(k)) <= HistoryLimit

\* Fault: any history is taken to be known to the connection.
BodyWithoutParent(k) ==
    IF transport = "websocket" /\ conversation.history # <<>>
      THEN [call |-> k, parent |-> conversation.last_response, input |-> Delta(k)]
      ELSE [call |-> k, parent |-> None, input |-> Full(k)]

\* A socket that has settled a response is sent its identity and the new input.
Body(k) ==
    IF transport = "websocket" /\ conversation.last_response # None
      THEN [call |-> k, parent |-> conversation.last_response, input |-> Delta(k)]
      ELSE [call |-> k, parent |-> None, input |-> Full(k)]

Prepare ==
    /\ pc = "generate"
    /\ IF Prepared(cur) THEN pc' = "receipt" /\ UNCHANGED busy
                        ELSE pc' = "refuse" /\ busy' = FALSE
    /\ UNCHANGED <<transport, closed, cancel, receiving, cur, used, calls, commands,
                   control, workVars, sinkVars, readVars>>

Refuse ==
    /\ pc = "refuse"
    /\ Reply("invalid")
    /\ pc' = "select"
    /\ UNCHANGED <<transport, closed, cancel, receiving, cur, busy, used, commands,
                   control, workVars, sinkVars, readVars>>

\* The receipt reaches nobody.
Declined == Abandoned

Receipt ==
    /\ pc = "receipt"
    /\ Reply("receipt")
    /\ IF Declined THEN pc' = "select" /\ busy' = FALSE
                   ELSE pc' = "send" /\ UNCHANGED busy
    /\ upstream' = "not_submitted" /\ decoder' = None
    /\ progress' = 0 /\ pending' = <<>>
    /\ UNCHANGED <<transport, closed, cancel, receiving, cur, used, commands, control,
                   conversation, sent, answers, sinkVars, readVars>>

-----------------------------------------------------------------------------
(* The worker: one request on the connection.                                 *)

\* Fault: a request is still taken to be unsubmitted while it is written.
SubmittedLate == "not_submitted"

\* Local checks are done; from here on a failure proves nothing.
Submitted == "unknown"

\* Credentials, account and serialization are checked before anything is written.
Preflight ==
    /\ pc = "send" /\ ~cancel
    /\ upstream' = Submitted
    /\ pc' = "write"
    /\ UNCHANGED <<transport, closed, cancel, receiving, cur, callVars, conversation,
                   decoder, progress, pending, sent, answers, sinkVars, readVars>>

\* What the provider takes as the context of a request: its input, after the
\* context and the output of the response that it names as parent.
ProviderContext(body) ==
    LET known == {j \in 1..Len(sent) :
                    body.parent # None /\ answers[sent[j].call].id = body.parent}
        parent == sent[CHOOSE j \in known : TRUE]
    IN  IF known = {} THEN body.input
        ELSE Append(parent.context, <<"out", parent.call>>) \o body.input

\* The write may fail after the provider has the request.
Write(ok) ==
    /\ pc = "write" /\ ~cancel
    /\ sent' = Append(sent, [call |-> cur, context |-> ProviderContext(Body(cur))])
    /\ IF ok THEN pc' = "receive" /\ UNCHANGED closed
             ELSE pc' = "fail" /\ closed' = TRUE
    /\ UNCHANGED <<transport, cancel, receiving, cur, callVars, conversation, decoder,
                   progress, pending, upstream, answers, sinkVars, readVars>>

\* Messages that the decoder accepts before the terminal one.
Accepts(kind) == \/ kind = "started" /\ decoder = None
                 \/ kind = "content" /\ decoder # None
                 \/ kind = "extension"

Message(kind, id) ==
    /\ pc = "receive" /\ ~cancel /\ progress < MaxProgress
    /\ Accepts(kind)
    /\ decoder' = IF kind = "started" THEN id ELSE decoder
    /\ kind # "started" => id = decoder
    /\ progress' = progress + 1
    /\ pending' = <<kind>>
    /\ pc' = "emit"
    /\ UNCHANGED <<transport, closed, cancel, receiving, cur, callVars, conversation,
                   upstream, sent, answers, sinkVars, readVars>>

\* A terminal message without an earlier start yields both events.
TerminalMessage(answer) ==
    /\ pc = "receive" /\ ~cancel
    /\ decoder \in {None, answer.id}
    /\ decoder' = answer.id
    /\ upstream' = "terminal_received"
    /\ answers' = [answers EXCEPT ![cur] = answer]
    /\ pending' = IF decoder = None THEN <<"started", "finished">> ELSE <<"finished">>
    /\ pc' = "emit"
    /\ UNCHANGED <<transport, closed, cancel, receiving, cur, callVars, conversation,
                   progress, sent, sinkVars, readVars>>

\* An event waits for room in the queue.
Emit ==
    /\ pc = "emit" /\ ~cancel /\ Head(pending) # "finished" /\ Room
    /\ queue' = Append(queue, Envelope(Head(pending), cur, "none"))
    /\ sequence' = sequence + 1
    /\ pending' = Tail(pending)
    /\ pc' = IF Len(pending) = 1 THEN "receive" ELSE "emit"
    /\ UNCHANGED <<transport, closed, cancel, receiving, cur, callVars, conversation,
                   decoder, progress, upstream, sent, answers, final_slot, readVars>>

Settles(answer) ==
    /\ answer.id \notin conversation.settled_ids
    /\ Len(Full(cur)) < HistoryLimit

Settled(answer) ==
    [history |-> Append(Full(cur), <<"out", cur>>),
     last_response |-> answer.id,
     pending_calls |-> answer.calls,
     advanced_output |-> answer.advanced,
     settled_ids |-> conversation.settled_ids \cup {answer.id}]

\* Only a completed response enters the conversation; any other closes the session.
Settle ==
    LET answer == answers[cur] IN
    /\ pc = "emit" /\ Head(pending) = "finished"
    /\ answer.completed => Settles(answer)
    /\ conversation' = IF answer.completed THEN Settled(answer) ELSE conversation
    /\ closed' = (closed \/ ~answer.completed)
    /\ pending' = <<>>
    /\ pc' = "free"
    /\ UNCHANGED <<transport, cancel, receiving, cur, callVars, decoder, progress,
                   upstream, sent, answers, sinkVars, readVars>>

\* Cancellation, a timeout, a failed check, an end or an error of the connection,
\* a message that the decoder or the consistency check rejects, a slow consumer.
Abort ==
    /\ pc \in Driving
    /\ closed' = TRUE
    /\ pc' = "fail"
    /\ UNCHANGED <<transport, cancel, receiving, cur, callVars, workVars, sinkVars,
                   readVars>>

\* Fault: the flag is still held when the terminal event is published.
FreedLate == busy

\* The flag is freed before the terminal event can be seen.
Freed == FALSE

Free ==
    /\ pc \in {"free", "fail"}
    /\ busy' = Freed
    /\ pc' = IF pc = "free" THEN "finish" ELSE "failed"
    /\ UNCHANGED <<transport, closed, cancel, receiving, cur, used, calls, commands,
                   control, workVars, sinkVars, readVars>>

\* Fault: the session goes on although its last event waits in the final slot.
ContinuesAlways == answers[cur].completed

\* The session goes on after a completed response that fitted into the queue.
Continues == answers[cur].completed /\ Room

PublishFinished ==
    /\ pc = "finish"
    /\ Terminal("finished", cur, "none")
    /\ pc' = IF Continues THEN "select" ELSE "exit"
    /\ UNCHANGED <<transport, closed, cancel, receiving, cur, callVars, workVars,
                   readVars>>

PublishFailed ==
    /\ pc = "failed"
    /\ Terminal("failed", cur, upstream)
    /\ pc' = "exit"
    /\ UNCHANGED <<transport, closed, cancel, receiving, cur, callVars, workVars,
                   readVars>>

-----------------------------------------------------------------------------
(* The worker: its end.                                                       *)

Exit ==
    /\ pc = "exit"
    /\ closed' = TRUE /\ busy' = FALSE
    /\ pc' = "drain"
    /\ UNCHANGED <<transport, cancel, receiving, cur, used, calls, commands, control,
                   workVars, sinkVars, readVars>>

\* Fault: queued commands are dropped from the queue without an answer.
DrainedSilently(k) == calls[k].pc

\* Calls that wait in the channel are answered; so is the one whose reply was
\* dropped with an installation that the worker gave up.
Drained(k) == IF calls[k].pc = "wait" THEN "closed" ELSE calls[k].pc

Drain ==
    /\ pc = "drain"
    /\ receiving' = FALSE
    /\ commands' = <<>>
    /\ calls' = [k \in Calls |-> [calls[k] EXCEPT !.pc = Drained(k)]]
    /\ pc' = "drop"
    /\ UNCHANGED <<transport, closed, cancel, cur, busy, used, control, workVars,
                   sinkVars, readVars>>

\* The connection is closed and the sender of events dropped.
DropSink ==
    /\ pc = "drop"
    /\ pc' = "done"
    /\ UNCHANGED <<transport, closed, cancel, receiving, cur, callVars, workVars,
                   sinkVars, readVars>>

-----------------------------------------------------------------------------
\* The output of a response that is not completed is never looked at.
Answer == {a \in [id : ResponseIds, completed : BOOLEAN, calls : SUBSET CallIds,
                  advanced : BOOLEAN] : a.completed \/ (a.calls = {} /\ ~a.advanced)}

Caller(k) == Reserve(k) \/ InstallRefused(k) \/ Submit(k) \/ SubmitFails(k)

Request ==
    \/ Preflight
    \/ \E ok \in BOOLEAN : Write(ok)
    \/ \E kind \in {"started", "content", "extension"}, id \in ResponseIds \cup {None} :
          /\ kind = "started" => id # None
          /\ Message(kind, id)
    \/ \E answer \in Answer : TerminalMessage(answer)
    \/ Emit \/ Settle \/ Abort \/ Free \/ PublishFinished \/ PublishFailed

Worker ==
    \/ Stop \/ TakeCommand
    \/ \E valid \in BOOLEAN : InstallReplay(valid)
    \/ Acknowledge \/ Prepare \/ Refuse \/ Receipt
    \/ Request
    \/ Exit \/ Drain \/ DropSink

Consumer == Receive \/ EndStream

Next ==
    \/ \E k \in Calls, results \in SUBSET CallIds : Call(k, "generate", results)
    \/ \E k \in Calls : Call(k, "install", {})
    \/ \E k \in Calls : Caller(k) \/ Abandon(k)
    \/ Close \/ DropControl \/ Consumer \/ DropStream
    \/ IdleWire \/ Worker

Spec == Init /\ [][Next]_vars

\* Tasks of the runtime are scheduled, timeouts bound every wait of a request, and
\* the consumer that keeps its stream polls it.  Nothing is assumed of the provider.
FairSpec ==
    /\ Spec
    /\ WF_vars(Worker)
    /\ WF_vars(Consumer)
    /\ \A k \in Calls : WF_vars(Caller(k))

-----------------------------------------------------------------------------
(* Properties.                                                                *)

Published == seen \o queue \o final_slot
Ends(e) == e.kind \in {"finished", "failed"}

\* An event comes after the start of its response, after everything with a smaller
\* number, not after the terminal event of its call, and after that of any other call
\* which has an event before it.
Placed(events, j) ==
    LET f == events[j] IN
    /\ f.kind \in {"content", "finished"} =>
         \E m \in 1..(j - 1) : events[m].call = f.call /\ events[m].kind = "started"
    /\ \A i \in 1..(j - 1) :
         /\ events[i].sequence < f.sequence
         /\ Ends(events[i]) => f.call # events[i].call
         /\ f.call # events[i].call =>
              \E m \in i..(j - 1) : events[m].call = events[i].call /\ Ends(events[m])

\* Events reach the consumer in the order of their sequence numbers, the events of
\* one request are not mixed with those of another, its terminal event is the last
\* one, and its content follows its start: EventSink::terminal and the end of the
\* session when the final slot is used (session.rs:178-195, 351-358).
EventOrder == \A j \in 1..Len(Published) : Placed(Published, j)

\* The whole conversation up to a request: the installed replay, then every earlier
\* request with its output.
Transcript(i) ==
    LET replay == IF \E k \in Calls : calls[k].pc = "installed"
                    THEN << <<"replay", 0>> >> ELSE <<>>
    IN  replay \o [j \in 1..(2 * i - 1) |->
                      <<IF j % 2 = 1 THEN "in" ELSE "out", sent[(j + 1) \div 2].call>>]

\* On both transports, the provider's context of every request is the conversation
\* that the callers were told of: the acknowledged replay and all completed turns,
\* each once; and a request carries the results of exactly the calls that the turn
\* before it made, if that turn can be continued (Conversation::prepare and settle,
\* install_replay).
RequestsContinue ==
    \A i \in 1..Len(sent) :
        /\ sent[i].context = Transcript(i)
        /\ i > 1 => LET before == answers[sent[i - 1].call] IN
                    /\ before.completed /\ ~before.advanced
                    /\ calls[sent[i].call].results = before.calls

\* What callers are told is true.  Nothing is sent for a call without a receipt
\* (refused, told Busy or Closed, abandoned), and a failure reported as not submitted
\* is one of a request that cannot have reached the provider (session.rs:305-325,
\* 384-414, wire.rs:390).  While the session is open, Busy is told only on account of
\* a call in progress or of a request whose terminal event nobody can have seen: a
\* consumer that has seen it may continue at once (session.rs:345-350).
ToldTruly ==
    /\ \A j \in 1..Len(sent) :
         /\ calls[sent[j].call].pc = "receipt"
         /\ ~\E i \in 1..Len(Published) :
               LET e == Published[i] IN
               e.call = sent[j].call /\ e.kind = "failed" /\ e.upstream = "not_submitted"
    /\ busy /\ ~closed /\ ~cancel =>
         \/ \E k \in Calls : calls[k].pc \in {"send", "wait"}
         \/ commands # <<>>
         \/ pc \in {"install", "generate", "receipt"}
         \/ \E k \in Calls :
               /\ calls[k].pc = "receipt"
               /\ \A i \in 1..Len(Published) : ~(Published[i].call = k /\ Ends(Published[i]))

\* Every call returns or is abandoned, whatever becomes of the session, and a request
\* with a receipt is given its terminal event, through the queue or the final slot,
\* unless the consumer drops the stream (generate, install_replay, the worker's end).
CallsSettle ==
    \A k \in Calls :
        calls[k].kind # "none" ~>
            /\ calls[k].pc \in Left
            /\ calls[k].pc = "receipt" =>
                 \/ stream = "dropped"
                 \/ \E i \in 1..Len(seen) : seen[i].call = k /\ Ends(seen[i])
==============================================================================
