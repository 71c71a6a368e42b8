------------------------------- MODULE Replay --------------------------------
(***************************************************************************)
(* Native replay of a stored run (execution/replay.rs,                     *)
(* execution/replay/reconstruct.rs, provider/replay.rs): the records of a  *)
(* session are read in order, and either every exchange with the provider  *)
(* is rebuilt from them, or the run is shown never to have been submitted, *)
(* or the history is refused.  The reasons of a refusal are one value.     *)
(*                                                                         *)
(* Each method of ActiveRun, Turn and ClosedRun is a condition under which *)
(* it returns Ok and the value that it leaves.                             *)
(***************************************************************************)
EXTENDS RunRecords
LOCAL INSTANCE SequencesExt

NoTurn == [open |-> FALSE, request |-> 0, response_id |-> 0, response_started |-> FALSE,
           response |-> NoResponse, results |-> <<>>, intent |-> "none",
           unfinished_result |-> "none"]
NoSaved == [name |-> "none", arguments |-> "none", request |-> 0, is_error |-> "none"]
NoTerminal == [outcome |-> "none", summary |-> NoActivity]

\* ActiveRun::new, and Builder before the acceptance.
NewActive ==
    [ok |-> TRUE, stage |-> "new", selected |-> FALSE, bound |-> FALSE, started |-> FALSE,
     runtime_sequence |-> 0, provider_sequence |-> 0, turns_started |-> 0, turns_finished |-> 0,
     last_turn |-> "none", last_upstream |-> "none", next_turn_allowed |-> TRUE,
     request_ids |-> {}, last_request |-> 0, runtime_request |-> 0, turn |-> NoTurn,
     unfinished_result |-> FALSE, exchanges |-> <<>>,
     saved |-> [c \in CallIds |-> NoSaved], terminal |-> NoTerminal,
     interrupted |-> FALSE, result_seen |-> FALSE]

-----------------------------------------------------------------------------

validate_response(response) ==
    /\ response.outcome = "completed" /\ response.supported
    /\ \A i, j \in DOMAIN response.calls :
          i # j => response.calls[i].call_id # response.calls[j].call_id

\* ReplayExchange::new: every call has its result, in order.
Exchangeable(response, results) ==
    /\ validate_response(response)
    /\ Len(results) = Len(response.calls)
    /\ \A i \in DOMAIN results : results[i].call_id = response.calls[i].call_id

\* Turn::provider
ProviderFits(t, e) ==
    /\ e.kind \notin {"RequestFailed", "SessionClosed"}
    /\ e.kind = "ResponseStarted" => ~t.response_started
    /\ e.kind = "ResponseFinished" => validate_response(e.response)
    /\ e.response_id # 0 => t.response_id \in {0, e.response_id}

AfterProvider(t, e) ==
    [t EXCEPT !.response_started = @ \/ e.kind = "ResponseStarted",
              !.response = IF e.kind = "ResponseFinished" THEN e.response ELSE @,
              !.response_id = IF e.response_id # 0 THEN e.response_id ELSE @]

HasCall(t) == t.response # NoResponse /\ Len(t.results) < Len(t.response.calls)
next_call(t) == t.response.calls[Len(t.results) + 1]

\* Turn::tool_event
ToolFits(t, saved, e) ==
    LET old == saved[e.call_id] IN
    IF e.event = "ToolExecutionFinished"
    THEN /\ old # NoSaved
         /\ t.unfinished_result = e.call_id
         /\ old.name = e.tool_name /\ old.is_error = e.is_error /\ old.request = t.request
    ELSE /\ t.intent = "none" /\ t.unfinished_result = "none"
         /\ HasCall(t)
         /\ next_call(t).call_id = e.call_id /\ next_call(t).name = e.tool_name
         /\ IF e.event = "ToolExecutionStarted"
            THEN old = NoSaved
            ELSE /\ old # NoSaved
                 /\ old.name = e.tool_name /\ old.arguments = next_call(t).arguments
                 /\ old.request # t.request

AfterTool(t, saved, e) ==
    CASE e.event = "ToolExecutionFinished" -> [t EXCEPT !.unfinished_result = "none"]
      [] e.event = "ToolExecutionStarted" -> [t EXCEPT !.intent = e.call_id]
      [] e.event = "ToolResultReused" ->
            [t EXCEPT !.results = Append(@, [call_id |-> e.call_id,
                                             is_error |-> saved[e.call_id].is_error])]

\* ActiveRun::tool_result
ResultFits(a, rec) ==
    /\ a.selected /\ a.turn.open
    /\ HasCall(a.turn)
    /\ a.turn.intent = rec.call_id /\ next_call(a.turn).call_id = rec.call_id
    /\ rec.request = a.turn.request
    /\ a.saved[rec.call_id] = NoSaved

AfterResult(a, rec) ==
    LET call == next_call(a.turn) IN
    [a EXCEPT
        !.saved[rec.call_id] = [name |-> call.name, arguments |-> call.arguments,
                                request |-> a.turn.request, is_error |-> rec.is_error],
        !.turn.results = Append(@, [call_id |-> rec.call_id, is_error |-> rec.is_error]),
        !.turn.intent = "none",
        !.turn.unfinished_result = rec.call_id]

\* ActiveRun::finish_turn
finish_turn_fits(t) ==
    IF t.response # NoResponse
    THEN t.intent = "none" /\ Exchangeable(t.response, t.results)
    ELSE t.request = 0 /\ t.response_id = 0

finish_turn(a) ==
    [a EXCEPT !.unfinished_result = @ \/ a.turn.unfinished_result # "none",
              !.exchanges = IF a.turn.response = NoResponse THEN @
                            ELSE Append(@, [response |-> a.turn.response,
                                            results |-> a.turn.results]),
              !.turn = NoTurn]

TurnFinishFits(a, e) ==
    /\ e.number = a.turns_started /\ e.response_id = a.turn.response_id
    /\ IF a.turn.response # NoResponse
       THEN /\ e.upstream = "TerminalReceived"
            /\ e.outcome = "tools_prepared" => a.turn.response.calls # <<>>
            /\ e.outcome = "completed" => a.turn.response.calls = <<>>
       ELSE e.outcome \in {"cancelled", "failed"} /\ e.upstream = "NotSubmitted"
    /\ finish_turn_fits(a.turn)

AfterTurnFinish(a, e) ==
    finish_turn([a EXCEPT
        !.last_turn = e.outcome, !.last_upstream = e.upstream,
        !.next_turn_allowed = e.outcome = "tools_prepared" /\ a.turn.unfinished_result = "none",
        !.turns_finished = @ + 1])

-----------------------------------------------------------------------------

OfTurn(e) == e.type \in {"ProviderEvent", "ToolEvent", "TurnFinished"}

\* The first request that the events of a turn show is the turn's, and new.
RequestFits(a, e) ==
    IF e.request = 0 THEN a.turn.request = 0
    ELSE \/ a.turn.request = e.request
         \/ a.turn.request = 0 /\ e.request \notin a.request_ids

WithRequest(a, e) ==
    IF ~OfTurn(e) \/ e.request = 0 \/ a.turn.request # 0 THEN a
    ELSE [a EXCEPT !.request_ids = @ \cup {e.request}, !.turn.request = e.request,
                   !.last_request = e.request, !.runtime_request = e.request]

\* ActiveRun::runtime
RuntimeFits(a, e) ==
    LET b == WithRequest(a, e) IN
    /\ a.selected
    /\ e.sequence = a.runtime_sequence + 1 /\ a.terminal = NoTerminal
    /\ a.bound => e.session
    /\ CASE e.type = "RunStarted" -> ~a.started /\ e.sequence = 1
         [] e.type = "RunFinished" -> ~a.turn.open /\ e.request = a.runtime_request
         [] e.type = "TurnStarted" ->
              /\ a.started /\ a.bound /\ ~a.turn.open /\ a.next_turn_allowed
              /\ e.number = a.turns_started + 1
              /\ a.exchanges # <<>> => Last(a.exchanges).results # <<>>
         [] OTHER ->
              /\ a.turn.open /\ e.turn = a.turns_started
              /\ RequestFits(a, e)
              /\ CASE e.type = "ProviderEvent" ->
                        /\ e.request # 0 /\ e.session
                        /\ e.provider_sequence > a.provider_sequence
                        /\ a.turn.response = NoResponse
                        /\ ProviderFits(b.turn, e.event)
                   [] e.type = "ToolEvent" -> ToolFits(b.turn, a.saved, e)
                   [] e.type = "TurnFinished" -> TurnFinishFits(b, e)

AfterRuntime(a, e) ==
    LET b == WithRequest([a EXCEPT !.runtime_sequence = e.sequence], e) IN
    CASE e.type = "RunStarted" -> [b EXCEPT !.started = TRUE]
      [] e.type = "RunFinished" ->
            [b EXCEPT !.terminal = [outcome |-> e.outcome, summary |-> e.summary]]
      [] e.type = "TurnStarted" ->
            [b EXCEPT !.turns_started = @ + 1, !.runtime_request = 0,
                      !.turn = [NoTurn EXCEPT !.open = TRUE]]
      [] e.type = "ProviderEvent" ->
            [b EXCEPT !.provider_sequence = e.provider_sequence,
                      !.turn = AfterProvider(b.turn, e.event)]
      [] e.type = "ToolEvent" -> [b EXCEPT !.turn = AfterTool(b.turn, b.saved, e)]
      [] e.type = "TurnFinished" -> AfterTurnFinish(b, e)

\* ActiveRun::close
CloseFits(a, interrupted) ==
    /\ a.selected
    /\ ~a.unfinished_result
    /\ a.turn.open => /\ finish_turn_fits(a.turn)
                      /\ a.turn.unfinished_result # "none" => interrupted

AfterClose(a, interrupted) ==
    [IF a.turn.open THEN finish_turn(a) ELSE a
        EXCEPT !.stage = "closed", !.interrupted = interrupted]

\* ClosedRun::result
ResultAgrees(a, rec) ==
    LET exchanges == Len(a.exchanges) IN
    /\ ~a.result_seen
    /\ rec.summary.model_requests_attempted = exchanges
    /\ rec.summary.model_requests_admitted = exchanges
    /\ rec.summary.turns_started = a.turns_started
    /\ rec.summary.turns_finished \in a.turns_finished..a.turns_started
    /\ rec.summary.last_request_id = a.last_request
    /\ rec.last_response = IF exchanges = 0 THEN NoResponse ELSE Last(a.exchanges).response
    /\ a.bound => rec.session
    /\ IF a.terminal = NoTerminal
       THEN ~rec.events_complete
       ELSE a.terminal = [outcome |-> rec.outcome, summary |-> rec.summary]
    /\ rec.outcome = "completed" => exchanges > 0 /\ Last(a.exchanges).results = <<>>
    /\ exchanges = 0 => /\ rec.summary.new_tool_dispatches = 0
                        /\ rec.summary.tool_results_prepared = 0
                        /\ rec.summary.reused_results = 0

\* The end of a run follows from its last turn.
OutcomeMatches(last_turn, outcome) ==
    CASE last_turn = "none" -> outcome # "completed"
      [] last_turn = "tools_prepared" -> outcome = "cancelled"
      [] OTHER -> outcome = last_turn

\* The terminal event agrees with the exchanges that were rebuilt.
TerminalAgrees(a) ==
    LET summary == a.terminal.summary
        saved == Cardinality({c \in CallIds : a.saved[c] # NoSaved})
        prepared == FoldLeft(LAMBDA n, x : n + Len(x.results), 0, a.exchanges)
    IN
    /\ OutcomeMatches(a.last_turn, a.terminal.outcome)
    /\ summary.turns_started = a.turns_started
    /\ summary.turns_finished = a.turns_finished /\ a.turns_finished = a.turns_started
    /\ summary.model_requests_attempted = Len(a.exchanges)
    /\ summary.model_requests_admitted = Len(a.exchanges)
    /\ summary.new_tool_dispatches = saved
    /\ summary.tool_results_prepared = prepared
    /\ summary.reused_results = prepared - saved
    /\ summary.last_request_id = a.last_request
    /\ summary.last_upstream_outcome = a.last_upstream

\* Faults: after an interruption an open turn is taken for nothing; an empty
\* run is never accepted.
require_resultLenient(a) ==
    /\ a.terminal # NoTerminal => TerminalAgrees(a)
    /\ a.result_seen \/ a.exchanges # <<>>

\* ClosedRun::require_result
require_result(a) ==
    /\ a.terminal # NoTerminal => TerminalAgrees(a)
    /\ \/ a.result_seen
       \/ /\ a.exchanges # <<>>
          /\ \/ a.terminal # NoTerminal
             \/ a.interrupted /\ a.turns_started = Len(a.exchanges)

\* ReplayRun::new
Replayable(exchanges) ==
    \A i \in 1..(Len(exchanges) - 1) : exchanges[i].results # <<>>

-----------------------------------------------------------------------------

\* Builder::observe and Builder::result
RecordFits(a, rec) ==
    CASE rec.type = "RunAccepted" -> a.stage = "new"
      [] rec.type = "RunHistorySelected" -> a.stage = "active" /\ ~a.selected
      [] rec.type = "ProviderBinding" ->
            a.stage = "active" /\ a.selected /\ a.runtime_sequence = 1 /\ ~a.bound
      [] rec.type = "ToolResult" -> a.stage = "active" /\ ResultFits(a, rec)
      [] rec.type = "RunInterrupted" -> a.stage = "active" /\ CloseFits(a, TRUE)
      [] rec.type = "Result" ->
            IF a.stage = "active"
            THEN /\ ~rec.events_complete /\ CloseFits(a, FALSE)
                 /\ ResultAgrees(AfterClose(a, FALSE), rec)
            ELSE a.stage = "closed" /\ ResultAgrees(a, rec)
      [] OTHER ->
            /\ a.stage = "active" /\ RuntimeFits(a, rec)
            /\ rec.type = "RunFinished" => CloseFits(AfterRuntime(a, rec), FALSE)

AfterRecord(a, rec) ==
    CASE rec.type = "RunAccepted" -> [a EXCEPT !.stage = "active"]
      [] rec.type = "RunHistorySelected" -> [a EXCEPT !.selected = TRUE]
      [] rec.type = "ProviderBinding" -> [a EXCEPT !.bound = TRUE]
      [] rec.type = "ToolResult" -> AfterResult(a, rec)
      [] rec.type = "RunInterrupted" -> AfterClose(a, TRUE)
      [] rec.type = "Result" ->
            [IF a.stage = "active" THEN AfterClose(a, FALSE) ELSE a EXCEPT !.result_seen = TRUE]
      [] rec.type = "RunFinished" -> AfterClose(AfterRuntime(a, rec), FALSE)
      [] OTHER -> AfterRuntime(a, rec)

Observe(a, rec) ==
    IF a.ok /\ RecordFits(a, rec) THEN AfterRecord(a, rec) ELSE [a EXCEPT !.ok = FALSE]

\* prepare_session_replay: the exchanges of the run, none when it was
\* definitely not submitted, or a refusal.
Prepare(log) ==
    LET after[n \in 0..Len(log)] ==
            IF n = 0 THEN NewActive ELSE Observe(after[n - 1], log[n])
        a == after[Len(log)]
    IN
    IF a.ok /\ a.stage = "closed" /\ require_result(a)
          /\ (a.exchanges # <<>> => a.bound /\ Replayable(a.exchanges))
    THEN [ok |-> TRUE, exchanges |-> a.exchanges]
    ELSE [ok |-> FALSE, exchanges |-> <<>>]
=============================================================================
