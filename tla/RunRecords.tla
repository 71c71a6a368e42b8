----------------------------- MODULE RunRecords ------------------------------
(***************************************************************************)
(* What the session store demands of the records of one run                *)
(* (storage/run_store.rs, storage/records.rs): the correlation of runtime  *)
(* events, the rows of tool calls, the binding of a run with history, and  *)
(* its end.  A turn id, a request id and an event id are fresh identifiers *)
(* and appear as numbers, 0 standing for None; a run has one provider      *)
(* session, so its identity is whether it is known.                        *)
(***************************************************************************)
EXTENDS Naturals, Sequences, FiniteSets

CONSTANT CallIds  \* identities of tool calls

NoResponse == [outcome |-> "none", supported |-> FALSE, calls |-> <<>>]

\* RecordedToolResult, and the turn of the call.  An output is known by its
\* is_error.
NoTool == [name |-> "none", request |-> 0, turn |-> 0, started_sequence |-> 0,
           finished_sequence |-> 0, result_sequence |-> 0, is_error |-> "none"]

\* A run as its acceptance leaves it; selected when it carries history.  head is
\* the sequence of the last record, counted from the acceptance.
NewRun(selected) ==
    [head |-> IF selected THEN 2 ELSE 1,
     accepted_sequence |-> 1, state |-> "accepted", last_runtime_sequence |-> 0,
     session |-> FALSE, terminal_sequence |-> 0, result_sequence |-> 0,
     tools |-> [c \in CallIds |-> NoTool],
     selected |-> selected, bound |-> FALSE,
     turns |-> {}, turn |-> 0, request |-> 0, provider_sequence |-> 0]

RuntimeTypes == {"RunStarted", "TurnStarted", "ProviderEvent", "ToolEvent",
                 "TurnFinished", "RunFinished"}

NoActivity == [turns_started |-> 0, turns_finished |-> 0,
               model_requests_attempted |-> 0, model_requests_admitted |-> 0,
               new_tool_dispatches |-> 0, tool_results_prepared |-> 0, reused_results |-> 0,
               last_request_id |-> 0, last_upstream_outcome |-> "none"]

active(run) == run.state \in {"accepted", "running"}

next_sequence(run) == run.head + 1

-----------------------------------------------------------------------------

\* The identities that an event of each type carries.
validate_runtime(e) ==
    CASE e.type = "RunStarted" -> e.turn = 0 /\ ~e.session /\ e.request = 0
      [] e.type = "TurnStarted" -> e.turn # 0 /\ e.session /\ e.request = 0
      [] e.type \in {"ProviderEvent", "ToolEvent"} -> e.turn # 0 /\ e.session /\ e.request # 0
      [] e.type = "TurnFinished" -> e.turn # 0 /\ e.session
      [] e.type = "RunFinished" -> e.turn = 0

\* An event of the open turn; the first request that it shows is the turn's.
OfOpenTurn(run, e) ==
    /\ run.turn # 0 /\ e.turn = run.turn
    /\ run.request # 0 => e.request = run.request
    /\ e.type = "ProviderEvent" => e.provider_sequence > run.provider_sequence
    /\ e.type = "TurnFinished" => e.number = run.turn

\* Correlation::observe
Correlates(run, e) ==
    /\ e.sequence > run.last_runtime_sequence
    /\ run.state = IF e.type = "RunStarted" THEN "accepted" ELSE "running"
    /\ run.session => e.session
    /\ CASE e.type = "RunStarted" -> TRUE
         [] e.type = "TurnStarted" -> run.turn = 0 /\ e.turn \notin run.turns
         [] e.type = "RunFinished" -> run.turn = 0 /\ e.request = run.request
         [] OTHER -> OfOpenTurn(run, e)

\* record_tool_event
AdmitsToolEvent(run, e) ==
    LET saved == run.tools[e.call_id] IN
    CASE e.event = "ToolExecutionStarted" -> saved = NoTool
      [] e.event = "ToolExecutionFinished" ->
            /\ saved.name = e.tool_name /\ saved.request = e.request /\ saved.turn = e.turn
            /\ saved.finished_sequence = 0 /\ saved.is_error \in {"none", e.is_error}
      [] e.event = "ToolResultReused" -> saved.name = e.tool_name /\ saved.result_sequence # 0

\* A completed run has an output for every call that it started.
require_outputs(run, outcome) ==
    outcome = "completed" =>
        \A c \in CallIds : run.tools[c] # NoTool => run.tools[c].result_sequence # 0

\* Before the provider session of a run with history is bound, only its start
\* and an end without any activity are recorded.
AdmitsUnbound(rec) ==
    CASE rec.type = "RunStarted" -> TRUE
      [] rec.type = "RunFinished" -> rec.summary = NoActivity /\ rec.request = 0
      [] rec.type = "Result" -> rec.summary = NoActivity /\ ~rec.responded
      [] rec.type = "ProviderBinding" -> TRUE
      [] OTHER -> FALSE

AdmitsToolResult(run, rec) ==
    LET saved == run.tools[rec.call_id] IN
    /\ run.state = "running"
    /\ saved # NoTool /\ saved.request = rec.request
    /\ saved.result_sequence = 0 /\ saved.is_error \in {"none", rec.is_error}

\* The result takes the place of a final event that was not delivered, or
\* agrees with the one that was.
AdmitsResult(run, rec) ==
    /\ run.result_sequence = 0
    /\ IF active(run)
       THEN /\ ~rec.events_complete
            /\ run.session => rec.session
            /\ require_outputs(run, rec.outcome)
       ELSE run.state = rec.outcome /\ run.session = rec.session

\* Only the start of a run with history comes before its binding.
validate_binding(run) ==
    run.selected /\ ~run.bound /\ run.last_runtime_sequence = 1

\* mutate and append: the store takes the record.
Admits(run, rec) ==
    /\ run.selected /\ ~run.bound => AdmitsUnbound(rec)
    /\ run.state # "interrupted"
    /\ active(run) \/ rec.type = "Result"
    /\ CASE rec.type = "ProviderBinding" ->
              run.state = "running" /\ validate_binding(run)
         [] rec.type = "ToolResult" -> AdmitsToolResult(run, rec)
         [] rec.type = "Result" -> AdmitsResult(run, rec)
         [] OTHER -> /\ validate_runtime(rec)
                     /\ Correlates(run, rec)
                     /\ rec.type = "ToolEvent" => AdmitsToolEvent(run, rec)
                     /\ rec.type = "RunFinished" => require_outputs(run, rec.outcome)

ToolRow(run, e) ==
    CASE e.event = "ToolExecutionStarted" ->
            [NoTool EXCEPT !.name = e.tool_name, !.request = e.request, !.turn = e.turn,
                           !.started_sequence = next_sequence(run)]
      [] e.event = "ToolExecutionFinished" ->
            [run.tools[e.call_id] EXCEPT !.finished_sequence = next_sequence(run),
                                         !.is_error = e.is_error]
      [] e.event = "ToolResultReused" -> run.tools[e.call_id]

\* The record at the next sequence ends the run.
terminalize(run, state) == [run EXCEPT !.state = state, !.terminal_sequence = next_sequence(run)]

\* What a runtime event leaves in the row and as evidence for the next append.
AppliedEvent(run, e) ==
    LET observed == [run EXCEPT !.last_runtime_sequence = e.sequence, !.session = e.session] IN
    CASE e.type = "RunStarted" -> [observed EXCEPT !.state = "running"]
      [] e.type = "TurnStarted" ->
            [observed EXCEPT !.turn = e.turn, !.turns = @ \cup {e.turn}, !.request = 0]
      [] e.type = "ProviderEvent" ->
            [observed EXCEPT !.request = e.request, !.provider_sequence = e.provider_sequence]
      [] e.type = "ToolEvent" ->
            [observed EXCEPT !.request = e.request, !.tools[e.call_id] = ToolRow(run, e)]
      [] e.type = "TurnFinished" -> [observed EXCEPT !.request = e.request, !.turn = 0]
      [] e.type = "RunFinished" -> terminalize(observed, e.outcome)

\* append: the row and the evidence that the record leaves.
Applied(run, rec) ==
    LET applied ==
            CASE rec.type = "ProviderBinding" -> [run EXCEPT !.bound = TRUE, !.session = TRUE]
              [] rec.type = "ToolResult" ->
                    [run EXCEPT !.tools[rec.call_id].result_sequence = next_sequence(run),
                                !.tools[rec.call_id].is_error = rec.is_error]
              [] rec.type = "Result" ->
                    [IF active(run) THEN terminalize(run, rec.outcome) ELSE run
                        EXCEPT !.session = rec.session, !.result_sequence = next_sequence(run)]
              [] rec.type = "RunInterrupted" -> terminalize(run, "interrupted")
              [] OTHER -> AppliedEvent(run, rec)
    IN [applied EXCEPT !.head = @ + 1]
=============================================================================
