------------------------------ MODULE RunAudit -------------------------------
(***************************************************************************)
(* The typed reads of a stored run (run_record, tool_result,               *)
(* history_selection, provider_binding) and the validation that a repair   *)
(* makes of it (storage/run_store/repair.rs): the rows of a run are        *)
(* compared with its records, of which they are a projection.              *)
(*                                                                         *)
(* Each read is the condition under which it returns Ok; every refusal is  *)
(* the one error of integrity.  run holds the columns of the rows, log the *)
(* records of the run by sequence.  The table of commands is left out.     *)
(***************************************************************************)
EXTENDS RunController

States == {"accepted", "running", "completed", "failed", "cancelled", "interrupted"}

StoredEventPayload ==
    {"RunAccepted", "RunHistorySelected", "ProviderBinding", "ToolResult", "Result",
     "RunInterrupted"} \cup RuntimeTypes

\* A row that is a record, and valid in itself.
decode(rec) ==
    /\ rec.type \in StoredEventPayload
    /\ rec.type \in RuntimeTypes => validate_runtime(rec)

\* history::event
EventAt(records, n) ==
    IF n \in DOMAIN records /\ decode(records[n]) THEN records[n] ELSE [type |-> "none"]

\* The records that can end a run with an outcome.
terminal_outcome(rec) == rec.type \in {"RunFinished", "Result"}

\* The terminal record is the one that the state speaks of.
TerminalIsRecorded(run, records) ==
    LET terminal == EventAt(records, run.terminal_sequence) IN
    /\ run.terminal_sequence > run.accepted_sequence
    /\ IF run.state = "interrupted"
       THEN terminal.type = "RunInterrupted"
       ELSE /\ terminal_outcome(terminal)
            /\ terminal.outcome = run.state /\ terminal.session = run.session

ResultIsRecorded(run, records) ==
    LET result == EventAt(records, run.result_sequence)
        terminal == EventAt(records, run.terminal_sequence)
    IN
    /\ result.type = "Result"
    /\ terminal_outcome(terminal)
    /\ result.outcome = terminal.outcome /\ result.session = terminal.session
    /\ run.result_sequence >= run.terminal_sequence

run_record(run, records) ==
    /\ EventAt(records, run.accepted_sequence).type = "RunAccepted"
    /\ active(run) = (run.terminal_sequence = 0)
    /\ run.terminal_sequence # 0 => TerminalIsRecorded(run, records)
    /\ run.result_sequence # 0 => ResultIsRecorded(run, records)

\* A record of the execution of a call that agrees with its row.
ExecutionAt(records, n, kind, call, saved) ==
    LET e == EventAt(records, n) IN
    /\ e.type = "ToolEvent"
    /\ e.event = kind /\ e.call_id = call
    /\ e.request = saved.request /\ e.tool_name = saved.name

\* The row of a call, when there is one.
tool_result(run, records, call) ==
    LET saved == run.tools[call]
        result == EventAt(records, saved.result_sequence)
    IN
    /\ (saved.result_sequence # 0 \/ saved.finished_sequence # 0) = (saved.is_error # "none")
    /\ ExecutionAt(records, saved.started_sequence, "ToolExecutionStarted", call, saved)
    /\ saved.finished_sequence # 0 =>
          /\ saved.finished_sequence > saved.started_sequence
          /\ ExecutionAt(records, saved.finished_sequence, "ToolExecutionFinished", call, saved)
          /\ records[saved.finished_sequence].is_error = saved.is_error
    /\ saved.result_sequence # 0 =>
          /\ saved.result_sequence > saved.started_sequence
          /\ result.type = "ToolResult"
          /\ result.call_id = call /\ result.request = saved.request
          /\ result.is_error = saved.is_error

\* metadata_event
Positions(records, type) == {n \in DOMAIN records : records[n].type = type}

history_selection(run, records) ==
    /\ run_record(run, records)
    /\ Positions(records, "RunHistorySelected") = {run.accepted_sequence + 1}

\* Only the start of the run lies between the selection and the binding.
provider_binding(run, records) ==
    /\ run_record(run, records) /\ history_selection(run, records)
    /\ \E n \in DOMAIN records :
          /\ Positions(records, "ProviderBinding") = {n}
          /\ {records[k].type : k \in (run.accepted_sequence + 2)..(n - 1)} = {"RunStarted"}
          /\ n = run.accepted_sequence + 3
    /\ run.session

-----------------------------------------------------------------------------
(***************************************************************************)
(* validate_run                                                            *)
(***************************************************************************)

NewAudit ==
    [ok |-> TRUE, state |-> "accepted", last_runtime_sequence |-> 0, session |-> FALSE,
     terminal_sequence |-> 0, result_sequence |-> 0, selection_seen |-> FALSE,
     binding_seen |-> FALSE, turns |-> {}, turn |-> 0, request |-> 0, provider_sequence |-> 0]

\* A later result does not justify an earlier end.
require_outputs_before(run, outcome, n) ==
    outcome = "completed" =>
        \A c \in CallIds : run.tools[c] # NoTool => run.tools[c].result_sequence \in 1..(n - 1)

\* Fault: the record of an end of an execution need not be the one of the row.
PointsBackToStart(records, n, saved) ==
    CASE records[n].event = "ToolExecutionStarted" -> saved.started_sequence = n
      [] records[n].event = "ToolExecutionFinished" ->
            records[saved.started_sequence].turn = records[n].turn
      [] records[n].event = "ToolResultReused" ->
            saved.name = records[n].tool_name /\ saved.result_sequence \in 1..(n - 1)

\* The row of a call names the record that is being read.
PointsBack(records, n, saved) ==
    CASE records[n].event = "ToolExecutionStarted" -> saved.started_sequence = n
      [] records[n].event = "ToolExecutionFinished" ->
            /\ saved.finished_sequence = n
            /\ records[saved.started_sequence].turn = records[n].turn
      [] records[n].event = "ToolResultReused" ->
            saved.name = records[n].tool_name /\ saved.result_sequence \in 1..(n - 1)

validate_tool_event(run, records, n) ==
    LET saved == run.tools[records[n].call_id] IN
    /\ saved # NoTool
    /\ tool_result(run, records, records[n].call_id)
    /\ PointsBack(records, n, saved)

RuntimeValid(run, records, n, a) ==
    LET e == records[n] IN
    /\ a.selection_seen /\ ~a.binding_seen => AdmitsUnbound(e)
    /\ Correlates(a, e)
    /\ e.type = "RunFinished" => require_outputs_before(run, e.outcome, n)
    /\ e.type = "ToolEvent" => validate_tool_event(run, records, n)

ResultValid(run, records, n, a) ==
    LET rec == records[n] IN
    /\ a.selection_seen /\ ~a.binding_seen => AdmitsUnbound(rec)
    /\ a.state # "interrupted" /\ a.result_sequence = 0
    /\ IF active(a)
       THEN /\ ~rec.events_complete /\ (a.session => rec.session)
            /\ require_outputs_before(run, rec.outcome, n)
       ELSE LET terminal == records[a.terminal_sequence] IN
            terminal.outcome = rec.outcome /\ terminal.session = rec.session

RecordValid(run, records, n, a) ==
    LET rec == records[n] IN
    /\ decode(rec)
    /\ n = 1 => rec.type = "RunAccepted"
    /\ CASE rec.type = "RunAccepted" -> n = 1 /\ n = run.accepted_sequence
         [] rec.type = "RunHistorySelected" ->
               /\ ~a.selection_seen /\ n - 1 = run.accepted_sequence
               /\ history_selection(run, records)
         [] rec.type = "ProviderBinding" ->
               /\ a.selection_seen /\ ~a.binding_seen /\ a.state = "running"
               /\ provider_binding(run, records)
         [] rec.type = "ToolResult" ->
               /\ a.state = "running" /\ (a.selection_seen => a.binding_seen)
               /\ run.tools[rec.call_id] # NoTool
               /\ tool_result(run, records, rec.call_id)
               /\ run.tools[rec.call_id].result_sequence = n
         [] rec.type = "Result" -> ResultValid(run, records, n, a)
         [] rec.type = "RunInterrupted" -> active(a)
         [] OTHER -> RuntimeValid(run, records, n, a)

\* Correlation::observe and the state that follows from the event.
AfterEvent(a, e, n) ==
    LET observed == [a EXCEPT !.last_runtime_sequence = e.sequence, !.session = e.session] IN
    CASE e.type = "RunStarted" -> [observed EXCEPT !.state = "running"]
      [] e.type = "TurnStarted" ->
            [observed EXCEPT !.turn = e.turn, !.turns = @ \cup {e.turn}, !.request = 0]
      [] e.type = "RunFinished" ->
            [observed EXCEPT !.state = e.outcome, !.terminal_sequence = n]
      [] OTHER ->
            [observed EXCEPT
                !.request = e.request,
                !.turn = IF e.type = "TurnFinished" THEN 0 ELSE @,
                !.provider_sequence = IF e.type = "ProviderEvent" THEN e.provider_sequence ELSE @]

AfterAudit(a, rec, n) ==
    CASE rec.type = "RunAccepted" -> a
      [] rec.type = "RunHistorySelected" -> [a EXCEPT !.selection_seen = TRUE]
      [] rec.type = "ProviderBinding" -> [a EXCEPT !.binding_seen = TRUE, !.session = TRUE]
      [] rec.type = "ToolResult" -> a
      [] rec.type = "Result" ->
            [IF active(a) THEN [a EXCEPT !.state = rec.outcome, !.session = rec.session,
                                         !.terminal_sequence = n]
                          ELSE a EXCEPT !.result_sequence = n]
      [] rec.type = "RunInterrupted" ->
            [a EXCEPT !.state = "interrupted", !.terminal_sequence = n]
      [] OTHER -> AfterEvent(a, rec, n)

Replayed(run, records) ==
    LET after[n \in 0..Len(records)] ==
            IF n = 0 THEN NewAudit
            ELSE LET a == after[n - 1] IN
                 IF a.ok /\ RecordValid(run, records, n, a)
                 THEN AfterAudit(a, records[n], n) ELSE [a EXCEPT !.ok = FALSE]
    IN after[Len(records)]

validate_run(run, records) ==
    LET replay == Replayed(run, records) IN
    /\ run_record(run, records)
    /\ \A c \in CallIds : run.tools[c] # NoTool => tool_result(run, records, c)
    /\ replay.ok
    /\ replay.state = run.state
    /\ replay.last_runtime_sequence = run.last_runtime_sequence
    /\ replay.session = run.session
    /\ replay.terminal_sequence = run.terminal_sequence
    /\ replay.result_sequence = run.result_sequence

-----------------------------------------------------------------------------

\* The columns of a row that hold a sequence, and those of a call.
RunLinks == {"accepted_sequence", "last_runtime_sequence", "terminal_sequence", "result_sequence"}
ToolLinks == {"request", "started_sequence", "finished_sequence", "result_sequence"}

\* The row with one of these columns cleared, or off by one.
Displaced(row_of, columns) ==
    UNION {{[row_of EXCEPT ![f] = 0], [row_of EXCEPT ![f] = @ + 1], [row_of EXCEPT ![f] = @ - 1]} :
              f \in columns} \ {row_of}

\* The rows of a run with one column changed, a row of a call lost or one too
\* many.
Damaged(run) ==
    {[run EXCEPT !.state = s] : s \in States \ {run.state}}
    \cup {[run EXCEPT !.session = ~@]}
    \cup Displaced(run, RunLinks)
    \cup UNION {{[run EXCEPT !.tools[c] = saved] :
                    saved \in IF run.tools[c] = NoTool
                              THEN {run.tools[d] : d \in CallIds} \ {NoTool}
                              ELSE Displaced(run.tools[c], ToolLinks)
                                   \cup {NoTool, [run.tools[c] EXCEPT !.name = "other"]}
                                   \cup {[run.tools[c] EXCEPT !.is_error = e] :
                                            e \in {"none", "no", "yes"} \ {run.tools[c].is_error}}} :
                c \in CallIds}

\* Repair refuses nothing that the store has written, at whatever point the run
\* was left, and takes no row that one change has separated from the records:
\* the rows are derived from history, never believed.
AuditExact ==
    /\ validate_run(row, log)
    /\ pc = "done" \/ (pc = "lost" /\ active(row)) =>
          \A damaged \in Damaged(row) : ~validate_run(damaged, log)
=============================================================================
