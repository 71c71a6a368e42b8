---------------------------- MODULE RunController ----------------------------
(***************************************************************************)
(* One accepted run: the controller (run/mod.rs), the collector of a       *)
(* response (run/collect.rs), the scope of tools (tools.rs) and the        *)
(* observer that saves every record before the controller goes on          *)
(* (execution/observer.rs), against a provider and tools that behave as    *)
(* they like, cancellation at any moment, appends that fail with or        *)
(* without being committed, and a crash followed by the interruption that  *)
(* the next open records.                                                  *)
(*                                                                         *)
(* A step goes from one await of the controller to the next.  The texts of *)
(* failures are one value; contents of messages are left out.              *)
(***************************************************************************)
EXTENDS RunRecords

CONSTANTS Tools,        \* names of the registered tools
          Responses,    \* what the model may answer: [outcome, supported, calls]
          ResponseIds,  \* identities that the provider gives to responses
          MaxTurns,     \* bound: the model stops calling tools after so many turns
          MaxEvents     \* bound on the provider events of a turn

ASSUME ControllerAssumption ==
    /\ Responses \subseteq [outcome : {"completed", "other"}, supported : BOOLEAN,
                            calls : Seq([call_id : CallIds, name : STRING, arguments : STRING])]
    /\ MaxTurns \in Nat \ {0} /\ MaxEvents \in Nat \ {0}

VARIABLES
    pc,                 \* the await at which the controller is
    history,            \* the run restores history
    \* State
    sequence, session_id, request_id, summary, last_response,
    collector,          \* Collector: [response_id, started, terminal]
    provider_sequence,  \* sequence of drive
    event,              \* the provider event being sent
    stop,               \* how the turn, or the run, has ended
    batch, results,     \* PreparedBatch: the calls left; the results of the turn
    cache,              \* ToolRegistry.results
    cancelled,          \* the cancellation token
    \* the session database
    row, log,
    \* history variables
    wire,               \* the requests that may have reached the provider, and its answers
    effects             \* how often the tool of a call was run

state == <<sequence, session_id, request_id, summary, last_response>>
scope == <<batch, results, cache>>
turnVars == <<collector, provider_sequence, event, stop>>
vars == <<pc, history, state, turnVars, scope, cancelled, row, log, wire, effects>>

NoEvent == [kind |-> "none", response_id |-> 0, response |-> NoResponse, upstream |-> "none"]
NoCall == [name |-> "none", arguments |-> "none", is_error |-> "none"]
NewCollector == [response_id |-> 0, started |-> FALSE, terminal |-> FALSE]

Ends == {"none", "completed", "tools_prepared", "cancelled", "failed"}
Upstreams == {"none", "NotSubmitted", "Unknown", "TerminalReceived"}
Appending == {"run_started", "bind", "turn_started", "provider_event", "tool_start", "tool_result",
              "tool_finish", "turn_finished", "run_finished", "final_result"}
Awaiting == {"open", "install", "generate", "collect", "execute"}

TypeOK ==
    /\ pc \in Appending \cup Awaiting \cup {"done", "lost"}
    /\ history \in BOOLEAN /\ session_id \in BOOLEAN /\ cancelled \in BOOLEAN
    /\ sequence \in Nat /\ provider_sequence \in Nat
    /\ request_id \in 0..summary.turns_started
    /\ summary.turns_finished \in {summary.turns_started - 1, summary.turns_started}
    /\ summary.model_requests_attempted \in {summary.turns_started - 1, summary.turns_started}
    /\ summary.model_requests_admitted \in 0..summary.model_requests_attempted
    /\ summary.reused_results + summary.new_tool_dispatches
          \in {summary.tool_results_prepared, summary.tool_results_prepared + 1}
    /\ summary.last_upstream_outcome \in Upstreams
    /\ last_response \in Responses \cup {NoResponse}
    /\ stop \in Ends
    /\ Len(results) + Len(batch) <= Len(last_response.calls)

Init ==
    /\ pc = "run_started"
    /\ history \in BOOLEAN
    /\ sequence = 0 /\ session_id = FALSE /\ request_id = 0 /\ summary = NoActivity
    /\ last_response = NoResponse
    /\ collector = NewCollector /\ provider_sequence = 0 /\ event = NoEvent /\ stop = "none"
    /\ batch = <<>> /\ results = <<>> /\ cache = [c \in CallIds |-> NoCall]
    /\ cancelled = FALSE
    /\ row = NewRun(history)
    /\ log = IF history THEN <<[type |-> "RunAccepted"], [type |-> "RunHistorySelected"]>>
                        ELSE <<[type |-> "RunAccepted"]>>
    /\ wire = <<>>
    /\ effects = [c \in CallIds |-> 0]

-----------------------------------------------------------------------------
(***************************************************************************)
(* The record that is appended at each stage (State::send and              *)
(* PersistentObserver).                                                    *)
(***************************************************************************)

Turn == summary.turns_started
Call == Head(batch)

ToolEvent(kind) ==
    [type |-> "ToolEvent", sequence |-> sequence + 1, turn |-> Turn, request |-> request_id,
     session |-> session_id, event |-> kind, call_id |-> Call.call_id, tool_name |-> Call.name,
     is_error |-> IF kind = "ToolExecutionFinished" THEN cache[Call.call_id].is_error ELSE "none"]

Cached(call) == cache[call.call_id] # NoCall

Record ==
    CASE pc = "run_started" ->
            [type |-> "RunStarted", sequence |-> sequence + 1, turn |-> 0, request |-> request_id,
             session |-> session_id]
      [] pc = "bind" -> [type |-> "ProviderBinding"]
      [] pc = "turn_started" ->
            [type |-> "TurnStarted", sequence |-> sequence + 1, turn |-> Turn, request |-> request_id,
             session |-> session_id, number |-> Turn]
      [] pc = "provider_event" ->
            [type |-> "ProviderEvent", sequence |-> sequence + 1, turn |-> Turn, request |-> request_id,
             session |-> session_id, provider_sequence |-> provider_sequence, event |-> event]
      [] pc = "tool_start" ->
            ToolEvent(IF Cached(Call) THEN "ToolResultReused" ELSE "ToolExecutionStarted")
      [] pc = "tool_result" ->
            [type |-> "ToolResult", request |-> request_id, call_id |-> Call.call_id,
             is_error |-> cache[Call.call_id].is_error]
      [] pc = "tool_finish" -> ToolEvent("ToolExecutionFinished")
      [] pc = "turn_finished" ->
            [type |-> "TurnFinished", sequence |-> sequence + 1, turn |-> Turn, request |-> request_id,
             session |-> session_id, number |-> Turn, response_id |-> collector.response_id,
             outcome |-> stop, upstream |-> summary.last_upstream_outcome]
      [] pc = "run_finished" ->
            [type |-> "RunFinished", sequence |-> sequence + 1, turn |-> 0, request |-> request_id,
             session |-> session_id, outcome |-> stop, summary |-> summary]
      [] pc = "final_result" ->
            [type |-> "Result", outcome |-> stop, summary |-> summary, session |-> session_id,
             last_response |-> last_response, responded |-> last_response # NoResponse,
             events_complete |-> TRUE]

Committed == row' = Applied(row, Record) /\ log' = Append(log, Record)

\* The store takes the record and acknowledges it.
Saved(stage) ==
    /\ pc = stage
    /\ Admits(row, Record)
    /\ Committed
    /\ sequence' = sequence + IF Record.type \in RuntimeTypes THEN 1 ELSE 0
    /\ UNCHANGED <<history, cancelled>>

\* Fault: a tool runs although its intent was not saved.
AppendFailsRunsTool ==
    /\ pc = "tool_start" /\ ~Cached(Call)
    /\ pc' = "execute"
    /\ effects' = [effects EXCEPT ![Call.call_id] = @ + 1]
    /\ UNCHANGED <<history, state, turnVars, scope, cancelled, row, log, wire>>

\* The append fails, or its outcome is uncertain: sink_error is set and the
\* observer takes nothing more, so that nothing of the run follows.
AppendFails ==
    /\ pc \in Appending
    /\ \/ UNCHANGED <<row, log>>
       \/ Admits(row, Record) /\ Committed
    /\ pc' = "done"
    /\ UNCHANGED <<history, state, turnVars, scope, cancelled, wire, effects>>

-----------------------------------------------------------------------------
(***************************************************************************)
(* What follows a step: the end of the run, the end of a turn, the next    *)
(* turn.                                                                   *)
(***************************************************************************)

EndRun(end) ==
    /\ pc' = "run_finished"
    /\ stop' = end
    /\ UNCHANGED <<request_id, summary, collector, batch, results, wire, effects>>

EndTurn(s, end) ==
    /\ pc' = "turn_finished"
    /\ stop' = end
    /\ summary' = [s EXCEPT !.turns_finished = @ + 1]
    /\ batch' = <<>>
    /\ UNCHANGED <<request_id, collector, results, wire, effects>>

\* Fault: the request of the last turn is kept.
FirstRequestKept == request_id

\* A turn has no request until one is admitted.
FirstRequest == 0

\* The top of the loop of drive.
BeginTurn ==
    IF cancelled
    THEN EndRun("cancelled")
    ELSE /\ pc' = "turn_started"
         /\ stop' = "none"
         /\ request_id' = FirstRequest
         /\ summary' = [summary EXCEPT !.turns_started = @ + 1,
                                       !.last_upstream_outcome = "NotSubmitted"]
         /\ collector' = NewCollector
         /\ UNCHANGED <<batch, results, wire, effects>>

-----------------------------------------------------------------------------
(***************************************************************************)
(* run_admitted                                                            *)
(***************************************************************************)

RunStarted ==
    /\ Saved("run_started")
    /\ IF cancelled
       THEN EndRun("cancelled")
       ELSE /\ pc' = "open"
            /\ UNCHANGED <<stop, request_id, summary, collector, batch, results, wire, effects>>
    /\ UNCHANGED <<session_id, last_response, provider_sequence, event, cache>>

\* open_session fails, or returns an identity that is not canonical.
OpenFails ==
    /\ pc = "open" /\ ~cancelled
    /\ EndRun("failed")
    /\ UNCHANGED <<history, sequence, session_id, last_response, provider_sequence, event, cache,
                   cancelled, row, log>>

\* With history, the session has to tell its identity, which is recorded.
Opened ==
    /\ pc = "open" /\ ~cancelled
    /\ session_id' = TRUE
    /\ \/ ~history /\ BeginTurn
       \/ history /\ EndRun("failed")
       \/ /\ history
          /\ pc' = "bind"
          /\ UNCHANGED <<stop, request_id, summary, collector, batch, results, wire, effects>>
    /\ UNCHANGED <<history, sequence, last_response, provider_sequence, event, cache,
                   cancelled, row, log>>

\* The identity may not be the one that the old history belongs to.
Bound ==
    /\ Saved("bind")
    /\ \/ EndRun("failed")
       \/ cancelled /\ EndRun("cancelled")
       \/ /\ ~cancelled
          /\ pc' = "install"
          /\ UNCHANGED <<stop, request_id, summary, collector, batch, results, wire, effects>>
    /\ UNCHANGED <<session_id, last_response, provider_sequence, event, cache>>

Installed ==
    /\ pc = "install" /\ ~cancelled
    /\ BeginTurn \/ EndRun("failed")
    /\ UNCHANGED <<history, sequence, session_id, last_response, provider_sequence, event, cache,
                   cancelled, row, log>>

RunFinished ==
    /\ Saved("run_finished")
    /\ pc' = "final_result"
    /\ UNCHANGED <<session_id, request_id, summary, last_response, turnVars, scope, wire, effects>>

\* run_held appends the result.
FinalResult ==
    /\ Saved("final_result")
    /\ pc' = "done"
    /\ UNCHANGED <<session_id, request_id, summary, last_response, turnVars, scope, wire, effects>>

-----------------------------------------------------------------------------
(***************************************************************************)
(* drive and collect_response                                              *)
(***************************************************************************)

\* generate is polled at once unless the token is cancelled.
TurnStarted ==
    /\ Saved("turn_started")
    /\ IF cancelled
       THEN EndTurn(summary, "cancelled")
       ELSE /\ pc' = "generate"
            /\ summary' = [summary EXCEPT !.model_requests_attempted = @ + 1,
                                          !.last_upstream_outcome = "Unknown"]
            /\ wire' = Append(wire, [input |-> results, response |-> NoResponse])
            /\ results' = <<>>
            /\ UNCHANGED <<stop, request_id, collector, batch, effects>>
    /\ UNCHANGED <<session_id, last_response, provider_sequence, event, cache>>

\* generate refuses: nothing was submitted.
GenerateRejected ==
    /\ pc = "generate" /\ ~cancelled
    /\ pc' = "turn_finished" /\ stop' = "failed"
    /\ summary' = [summary EXCEPT !.turns_finished = @ + 1,
                                  !.last_upstream_outcome = "NotSubmitted"]
    /\ wire' = SubSeq(wire, 1, Len(wire) - 1)
    /\ UNCHANGED <<history, sequence, session_id, request_id, last_response, collector,
                   provider_sequence, event, scope, cancelled, row, log, effects>>

\* A receipt without a canonical identity ends the turn.
Generated ==
    /\ pc = "generate" /\ ~cancelled
    /\ \/ EndTurn(summary, "failed")
       \/ /\ pc' = "collect"
          /\ request_id' = Turn
          /\ summary' = [summary EXCEPT !.model_requests_admitted = @ + 1,
                                        !.last_request_id = Turn]
          /\ UNCHANGED <<stop, collector, batch, results, wire, effects>>
    /\ UNCHANGED <<history, sequence, session_id, last_response, provider_sequence, event, cache,
                   cancelled, row, log>>

Named(e) == e.kind \in {"ResponseStarted", "Output", "ResponseFinished"}

\* Collector::observe
Observes(e, number) ==
    /\ number > provider_sequence
    /\ ~collector.terminal
    /\ e.kind # "SessionClosed"
    /\ e.kind = "ResponseStarted" => ~collector.started
    /\ Named(e) => collector.response_id \in {0, e.response_id}

Observed(e) ==
    [response_id |-> IF Named(e) THEN e.response_id ELSE collector.response_id,
     started |-> collector.started \/ e.kind = "ResponseStarted",
     terminal |-> e.kind \in {"ResponseFinished", "RequestFailed"}]

\* Turns end within the bounds.
Bounded(e) ==
    /\ e.kind \in {"ResponseStarted", "Output", "Extension"} => provider_sequence < MaxEvents * Turn
    /\ e.response.calls # <<>> => Turn < MaxTurns

\* The next event of the session, which ends the turn if it does not fit.
ProviderSends(e, number) ==
    /\ pc = "collect" /\ ~cancelled
    /\ Bounded(e)
    /\ IF Observes(e, number)
       THEN /\ pc' = "provider_event"
            /\ collector' = Observed(e)
            /\ provider_sequence' = number
            /\ event' = e
            /\ summary' = [summary EXCEPT !.last_upstream_outcome =
                              CASE e.kind = "ResponseFinished" -> "TerminalReceived"
                                [] e.kind = "RequestFailed" -> e.upstream
                                [] OTHER -> @]
            /\ IF e.kind = "ResponseFinished"
               THEN last_response' = e.response /\ wire' = [wire EXCEPT ![Turn].response = e.response]
               ELSE UNCHANGED <<last_response, wire>>
            /\ UNCHANGED <<stop, request_id, batch, results, effects>>
       ELSE EndTurn(summary, "failed") /\ UNCHANGED <<provider_sequence, event, last_response>>
    /\ UNCHANGED <<history, sequence, session_id, cache, cancelled, row, log>>

ProviderEof ==
    /\ pc = "collect" /\ ~cancelled
    /\ EndTurn(summary, "failed")
    /\ UNCHANGED <<history, sequence, session_id, last_response, provider_sequence, event, cache,
                   cancelled, row, log>>

TurnFinished ==
    /\ Saved("turn_finished")
    /\ IF stop = "tools_prepared" THEN BeginTurn ELSE EndRun(stop)
    /\ UNCHANGED <<session_id, last_response, provider_sequence, event, cache>>

-----------------------------------------------------------------------------
(***************************************************************************)
(* prepare_tools and PreparedBatch                                         *)
(***************************************************************************)

\* ToolRegistry::preflight: the whole batch is checked before anything runs.
preflight(calls) ==
    /\ \A i, j \in DOMAIN calls : i # j => calls[i].call_id # calls[j].call_id
    /\ \A i \in DOMAIN calls :
          LET saved == cache[calls[i].call_id] IN
          /\ calls[i].name \in Tools
          /\ saved = NoCall \/ (saved.name = calls[i].name /\ saved.arguments = calls[i].arguments)

\* Only a completed response with supported items is used.
Usable(response) == response.outcome = "completed" /\ response.supported

PrepareTools ==
    IF ~Usable(last_response)
    THEN EndTurn(summary, "failed")
    ELSE IF last_response.calls = <<>>
    THEN EndTurn(summary, "completed")
    ELSE IF cancelled
    THEN EndTurn(summary, "cancelled")
    ELSE IF ~preflight(last_response.calls)
    THEN EndTurn(summary, "failed")
    ELSE /\ pc' = "tool_start"
         /\ batch' = last_response.calls
         /\ UNCHANGED <<stop, request_id, summary, collector, results, wire, effects>>

EventSaved ==
    /\ Saved("provider_event")
    /\ event' = NoEvent
    /\ CASE event.kind = "ResponseFinished" -> PrepareTools
         [] event.kind = "RequestFailed" -> EndTurn(summary, "failed")
         [] OTHER ->
              IF cancelled
              THEN EndTurn(summary, "cancelled")
              ELSE /\ pc' = "collect"
                   /\ UNCHANGED <<stop, request_id, summary, collector, batch, results, wire, effects>>
    /\ UNCHANGED <<session_id, last_response, provider_sequence, cache>>

\* Fault: the first result ends the batch.
LastOfBatchAlways == TRUE

LastOfBatch == Len(batch) = 1

\* A result is prepared: the next call, or the end of the batch, whose
\* results may be too large for a request.
Prepared(s) ==
    LET done == [s EXCEPT !.tool_results_prepared = @ + 1] IN
    /\ results' = Append(results, [call_id |-> Call.call_id,
                                   is_error |-> cache[Call.call_id].is_error])
    /\ \/ /\ ~cancelled /\ ~LastOfBatch
          /\ pc' = "tool_start"
          /\ batch' = Tail(batch)
          /\ summary' = done
          /\ UNCHANGED stop
       \/ /\ cancelled \/ LastOfBatch
          /\ pc' = "turn_finished"
          /\ batch' = <<>>
          /\ summary' = [done EXCEPT !.turns_finished = @ + 1]
          /\ IF cancelled THEN stop' = "cancelled" ELSE stop' \in {"tools_prepared", "failed"}
    /\ UNCHANGED <<request_id, collector, wire, effects>>

Dispatched == [summary EXCEPT !.new_tool_dispatches = @ + 1]

\* execute_next_observed up to the execution: a saved result is reused.
ToolStarted ==
    /\ Saved("tool_start")
    /\ IF Cached(Call)
       THEN Prepared([summary EXCEPT !.reused_results = @ + 1])
       ELSE IF cancelled
       THEN EndTurn(Dispatched, "cancelled")
       ELSE /\ pc' = "execute"
            /\ summary' = Dispatched
            /\ effects' = [effects EXCEPT ![Call.call_id] = @ + 1]
            /\ UNCHANGED <<stop, request_id, collector, batch, results, wire>>
    /\ UNCHANGED <<session_id, last_response, provider_sequence, event, cache>>

\* The result is kept in the scope before it is saved.
ToolReturns(is_error) ==
    /\ pc = "execute" /\ ~cancelled
    /\ pc' = "tool_result"
    /\ cache' = [cache EXCEPT ![Call.call_id] =
                   [name |-> Call.name, arguments |-> Call.arguments, is_error |-> is_error]]
    /\ UNCHANGED <<history, state, turnVars, batch, results, cancelled, row, log, wire, effects>>

ResultSaved ==
    /\ Saved("tool_result")
    /\ pc' = "tool_finish"
    /\ UNCHANGED <<session_id, request_id, summary, last_response, turnVars, scope, wire, effects>>

ToolFinished ==
    /\ Saved("tool_finish")
    /\ Prepared(summary)
    /\ UNCHANGED <<session_id, last_response, provider_sequence, event, cache>>

-----------------------------------------------------------------------------
(***************************************************************************)
(* Cancellation, the loss of the process and its discovery.                *)
(***************************************************************************)

Cancel ==
    /\ pc \notin {"done", "lost"} /\ ~cancelled
    /\ cancelled' = TRUE
    /\ UNCHANGED <<pc, history, state, turnVars, scope, row, log, wire, effects>>

\* Fault: a tool is not interrupted.
StoppableNotTool == Awaiting \ {"execute"}

\* cancellable and the stop future of a tool: the token is polled first.
Stoppable == Awaiting

Stopped ==
    /\ pc \in Stoppable /\ cancelled
    /\ IF pc \in {"open", "install"} THEN EndRun("cancelled") ELSE EndTurn(summary, "cancelled")
    /\ UNCHANGED <<history, sequence, session_id, last_response, provider_sequence, event, cache,
                   cancelled, row, log>>

Lost ==
    /\ pc \notin {"done", "lost"}
    /\ pc' = "lost"
    /\ UNCHANGED <<history, state, turnVars, scope, cancelled, row, log, wire, effects>>

\* interruption::reconcile, by the next instance.
Interrupted ==
    /\ pc \in {"done", "lost"} /\ active(row)
    /\ row' = Applied(row, [type |-> "RunInterrupted"])
    /\ log' = Append(log, [type |-> "RunInterrupted"])
    /\ UNCHANGED <<pc, history, state, turnVars, scope, cancelled, wire, effects>>

ProviderEvents ==
    [kind : {"ResponseStarted", "Output"}, response_id : ResponseIds,
     response : {NoResponse}, upstream : {"none"}]
    \cup [kind : {"Extension", "SessionClosed"}, response_id : {0},
          response : {NoResponse}, upstream : {"none"}]
    \cup [kind : {"RequestFailed"}, response_id : {0},
          response : {NoResponse}, upstream : Upstreams \ {"none"}]
    \cup [kind : {"ResponseFinished"}, response_id : ResponseIds,
          response : Responses, upstream : {"none"}]

Provider ==
    \/ OpenFails \/ Opened \/ Installed
    \/ GenerateRejected \/ Generated \/ ProviderEof
    \/ \E e \in ProviderEvents, number \in {provider_sequence, provider_sequence + 1} :
          ProviderSends(e, number)
    \/ \E is_error \in {"no", "yes"} : ToolReturns(is_error)

Controller ==
    \/ RunStarted \/ Bound \/ TurnStarted \/ EventSaved
    \/ ToolStarted \/ ResultSaved \/ ToolFinished
    \/ TurnFinished \/ RunFinished \/ FinalResult
    \/ AppendFails
    \/ Stopped

Next == Controller \/ Provider \/ Cancel \/ Lost \/ Interrupted

Spec == Init /\ [][Next]_vars

\* Appends return and the woken controller is polled; the provider and the
\* tools owe nothing.
FairSpec == Spec /\ WF_vars(Controller)

-----------------------------------------------------------------------------
(***************************************************************************)
(* Properties.                                                             *)
(***************************************************************************)

\* The store and the controller agree: a record that the controller appends
\* is never refused.
StoreAgrees == pc \in Appending => Admits(row, Record)

\* The tool of a call runs at most once in a run, and never before the intent
\* is in the database.
EffectsOnce ==
    \A c \in CallIds : /\ effects[c] <= 1
                       /\ effects[c] > 0 => row.tools[c] # NoTool

Answered(calls, prepared) ==
    /\ Len(prepared) = Len(calls)
    /\ \A i \in DOMAIN calls : /\ prepared[i].call_id = calls[i].call_id
                               /\ row.tools[calls[i].call_id].result_sequence # 0
                               /\ row.tools[calls[i].call_id].is_error = prepared[i].is_error

\* The provider is asked to go on only with the saved results of every call
\* of its last response, in order.
ContinuesWithResults ==
    \A k \in 2..Len(wire) : /\ wire[k - 1].response.calls # <<>>
                            /\ Answered(wire[k - 1].response.calls, wire[k].input)

\* A cancelled run ends, whatever the provider and its tools do.
CancelEnds == cancelled ~> pc \in {"done", "lost"}
=============================================================================
