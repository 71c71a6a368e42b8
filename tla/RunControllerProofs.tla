------------------------- MODULE RunControllerProofs ------------------------
(***************************************************************************)
(* The inductive invariant of RunController, what it says of a record that *)
(* is appended (that the store takes it, and what it leaves behind), and   *)
(* that every step keeps it.                                               *)
(***************************************************************************)
EXTENDS RunController, TLAPS

\* Most steps are first-order; the ones with arithmetic or records cite SMT.
USE ZenonT(60)

-----------------------------------------------------------------------------
(***************************************************************************)
(* The invariant.                                                          *)
(***************************************************************************)

\* The stages of a batch of tools, of a request, of a turn, before the first
\* turn and after the last one.
Tooling == {"tool_start", "execute", "tool_result", "tool_finish"}
Requesting == {"collect", "provider_event"} \cup Tooling
Turning == {"generate", "turn_finished"} \cup Requesting
Starting == {"run_started", "open", "bind", "install"}
Closing == {"run_finished", "final_result"}

\* The controller is at work.
Live == pc \notin {"done", "lost"}

\* The types of the data.
Errors == {"none", "no", "yes"}
Calls == [call_id : CallIds, name : STRING, arguments : STRING]
Results == [call_id : CallIds, is_error : Errors]
Entries == {NoCall} \cup [name : STRING, arguments : STRING, is_error : Errors]
ToolFields == {"name", "request", "turn", "started_sequence", "finished_sequence",
               "result_sequence", "is_error"}
RowFields == {"head", "accepted_sequence", "state", "last_runtime_sequence", "session",
              "terminal_sequence", "result_sequence", "tools", "selected", "bound",
              "turns", "turn", "request", "provider_sequence"}
SummaryFields == {"turns_started", "turns_finished", "model_requests_attempted",
                  "model_requests_admitted", "new_tool_dispatches", "tool_results_prepared",
                  "reused_results", "last_request_id", "last_upstream_outcome"}

Answers == Responses \cup {NoResponse}
Requests == [input : Seq(Results), response : Answers]

\* Records are typed field by field, as far as the proofs need it.
IsSummary(s) == DOMAIN s = SummaryFields /\ s.turns_started \in Nat

IsRow(run) ==
    /\ DOMAIN run = RowFields /\ run.head \in Nat
    /\ DOMAIN run.tools = CallIds
    /\ \A c \in CallIds : DOMAIN run.tools[c] = ToolFields

Typed ==
    /\ history \in BOOLEAN /\ session_id \in BOOLEAN /\ cancelled \in BOOLEAN
    /\ sequence \in Nat /\ provider_sequence \in Nat /\ request_id \in Nat
    /\ IsSummary(summary) /\ last_response \in Answers
    /\ batch \in Seq(Calls) /\ results \in Seq(Results) /\ cache \in [CallIds -> Entries]
    /\ wire \in Seq(Requests)
    /\ effects \in [CallIds -> Nat]
    /\ IsRow(row) /\ row.provider_sequence \in Nat

\* What is known at each stage of the identities, and of how it ended.
StageInv ==
    /\ pc \in {"run_started", "open"} => ~session_id
    /\ pc \in {"bind", "install", "turn_started"} \cup Turning => session_id
    /\ pc = "run_started" => sequence = 0
    /\ pc \in {"open", "bind"} => sequence = 1
    /\ pc \in Starting => Turn = 0
    /\ pc \in Closing => stop \in {"completed", "cancelled", "failed"}
    /\ pc = "turn_finished" => stop \in {"completed", "tools_prepared", "cancelled", "failed"}
    /\ pc \in {"turn_started"} \cup Turning => Turn # 0
    /\ pc \in {"run_started", "turn_started", "generate"} => request_id = 0
    /\ pc \in Requesting => request_id = Turn

\* The row of the run follows the controller.
RunInv ==
    /\ row.selected <=> history
    /\ row.last_runtime_sequence = sequence
    /\ pc = "run_started" => row.state = "accepted"
    /\ pc = "final_result" => row.state = stop
    /\ pc \notin {"run_started", "final_result"} => row.state = "running"
    /\ row.session => session_id
    /\ pc = "final_result" => row.session = session_id
    /\ row.result_sequence = 0
    /\ pc = "bind" => history
    /\ pc \in {"run_started", "open", "bind"} => ~row.bound
    /\ pc \in {"install", "turn_started"} \cup Turning /\ history => row.bound
    /\ history /\ ~row.bound => summary = NoActivity /\ request_id = 0 /\ last_response = NoResponse

\* The turn, the request and the provider's sequence that the store has seen.
TurnInv ==
    /\ pc = "turn_started" => row.turns = 1..(Turn - 1)
    /\ pc # "turn_started" => row.turns = 1..Turn
    /\ pc \in Turning => row.turn = Turn /\ row.request \in {0, request_id}
    /\ pc \notin Turning => row.turn = 0
    /\ pc \notin {"turn_started"} \cup Turning => row.request = request_id
    /\ row.provider_sequence <= provider_sequence
    /\ pc = "provider_event" => row.provider_sequence < provider_sequence

\* The result that the registry keeps for the call is in the database.
SavedAs(c) ==
    /\ row.tools[c].name = cache[c].name /\ row.tools[c].is_error = cache[c].is_error
    /\ row.tools[c].result_sequence # 0

Current(c) == c = Call.call_id

\* The run has been given up, so that no tool will be run any more.
Dead == pc \in {"turn_finished"} \cup Closing /\ stop \in {"cancelled", "failed"}

\* The registry and the rows of the calls agree, but for the call that is being
\* executed, whose result is not known, and the one whose result is not saved.
CacheInv ==
    \A c \in CallIds :
        /\ cache[c] # NoCall => cache[c].is_error # "none"
        /\ cache[c] # NoCall /\ ~(pc = "tool_result" /\ Current(c)) => SavedAs(c)
        /\ cache[c] = NoCall /\ ~(pc = "execute" /\ Current(c)) /\ ~Dead => row.tools[c] = NoTool
        /\ row.tools[c].result_sequence # 0 => row.tools[c].is_error # "none"

\* What preflight has made sure of still holds of the calls that are left.
BatchInv ==
    pc \in Tooling =>
        /\ batch # <<>>
        /\ \A i, j \in DOMAIN batch : i # j => batch[i].call_id # batch[j].call_id
        /\ \A i \in DOMAIN batch :
              cache[batch[i].call_id] # NoCall => cache[batch[i].call_id].name = batch[i].name

\* The call at the head of the batch, and its row.
HeadInv ==
    /\ pc = "execute" => cache[Call.call_id] = NoCall
    /\ pc \in {"tool_result", "tool_finish"} => cache[Call.call_id] # NoCall
    /\ pc \in {"execute", "tool_result", "tool_finish"} =>
          LET saved == row.tools[Call.call_id] IN
          /\ saved.name = Call.name /\ saved.request = request_id /\ saved.turn = Turn
          /\ saved.finished_sequence = 0
          /\ pc # "tool_finish" => saved # NoTool /\ saved.result_sequence = 0 /\ saved.is_error = "none"

\* The i-th result answers the i-th call of the response, and is saved.
AnsweredAt(i) ==
    /\ results[i].call_id = last_response.calls[i].call_id
    /\ row.tools[results[i].call_id].result_sequence # 0
    /\ row.tools[results[i].call_id].is_error = results[i].is_error

\* The requests, the last response, and the results prepared for the next one.
WireInv ==
    /\ pc \in Starting => wire = <<>>
    /\ pc \in {"generate"} \cup Requesting => Len(wire) = Turn
    /\ pc = "turn_finished" /\ stop = "tools_prepared" => Len(wire) = Turn
    /\ pc = "turn_started" => Len(wire) = Turn - 1
    /\ pc \in {"generate", "collect", "provider_event"} => results = <<>>
    /\ pc \notin Tooling => batch = <<>>
    /\ \/ pc \in Tooling
       \/ pc = "provider_event" /\ event.kind = "ResponseFinished"
       \/ pc = "turn_finished" /\ stop = "tools_prepared"
       \/ pc = "turn_started" /\ Turn > 1
       => wire[Len(wire)].response = last_response
    /\ \/ pc \in Tooling
       \/ pc = "turn_finished" /\ stop = "tools_prepared"
       \/ pc = "turn_started" /\ Turn > 1
       => /\ last_response.calls # <<>>
          /\ Len(results) + Len(batch) = Len(last_response.calls)
          /\ \A i \in DOMAIN results : AnsweredAt(i)
    /\ pc \in Tooling => \A i \in DOMAIN batch : batch[i] = last_response.calls[Len(results) + i]

\* While the controller is at work all this holds; what the tools did and what
\* the provider was told stays true when it is not.
LiveInv == StageInv /\ RunInv /\ TurnInv /\ CacheInv /\ BatchInv /\ HeadInv /\ WireInv

IInv == (Live => LiveInv) /\ EffectsOnce /\ ContinuesWithResults
-----------------------------------------------------------------------------
\* What the record of each stage says.
Says(type, turn) ==
    /\ Record.type = type /\ Record.sequence = sequence + 1 /\ Record.turn = turn
    /\ Record.request = request_id /\ Record.session = session_id

LEMMA RunStartedRecord ==
    ASSUME pc = "run_started"
    PROVE  Says("RunStarted", 0)
  BY DEF Says, Record

LEMMA TurnStartedRecord ==
    ASSUME pc = "turn_started"
    PROVE  Says("TurnStarted", Turn) /\ Record.number = Turn
  BY DEF Says, Record

LEMMA ProviderEventRecord ==
    ASSUME pc = "provider_event"
    PROVE  Says("ProviderEvent", Turn) /\ Record.provider_sequence = provider_sequence
  BY DEF Says, Record

LEMMA ToolEventRecord ==
    ASSUME NEW kind, pc \in {"tool_start", "tool_finish"}, Record = ToolEvent(kind)
    PROVE  /\ Says("ToolEvent", Turn) /\ Record.event = kind
           /\ Record.call_id = Call.call_id /\ Record.tool_name = Call.name
           /\ kind = "ToolExecutionFinished" => Record.is_error = cache[Call.call_id].is_error
  BY DEF Says, ToolEvent

LEMMA ToolStartRecord ==
    ASSUME pc = "tool_start"
    PROVE  /\ Says("ToolEvent", Turn)
           /\ Record.event = IF Cached(Call) THEN "ToolResultReused" ELSE "ToolExecutionStarted"
           /\ Record.call_id = Call.call_id /\ Record.tool_name = Call.name
  <1>1. Record = ToolEvent(IF Cached(Call) THEN "ToolResultReused" ELSE "ToolExecutionStarted")
    BY DEF Record
  <1> QED
    BY <1>1, ToolEventRecord, SMT

LEMMA ToolResultRecord ==
    ASSUME pc = "tool_result"
    PROVE  /\ Record.type = "ToolResult" /\ Record.request = request_id
           /\ Record.call_id = Call.call_id /\ Record.is_error = cache[Call.call_id].is_error
  BY DEF Record

LEMMA ToolFinishRecord ==
    ASSUME pc = "tool_finish"
    PROVE  /\ Says("ToolEvent", Turn) /\ Record.event = "ToolExecutionFinished"
           /\ Record.call_id = Call.call_id /\ Record.tool_name = Call.name
           /\ Record.is_error = cache[Call.call_id].is_error
  <1>1. Record = ToolEvent("ToolExecutionFinished")
    BY DEF Record
  <1> QED
    BY <1>1, ToolEventRecord, SMT

LEMMA TurnFinishedRecord ==
    ASSUME pc = "turn_finished"
    PROVE  Says("TurnFinished", Turn) /\ Record.number = Turn
  BY DEF Says, Record

LEMMA RunFinishedRecord ==
    ASSUME pc = "run_finished"
    PROVE  Says("RunFinished", 0) /\ Record.outcome = stop /\ Record.summary = summary
  BY DEF Says, Record

LEMMA FinalResultRecord ==
    ASSUME pc = "final_result"
    PROVE  /\ Record.type = "Result" /\ Record.outcome = stop /\ Record.summary = summary
           /\ Record.session = session_id /\ (Record.responded <=> last_response # NoResponse)
           /\ Record.events_complete
  BY DEF Record

-----------------------------------------------------------------------------
(***************************************************************************)
(* What a record leaves in the row.                                        *)
(***************************************************************************)

\* The fields that only some of the records change.
KeepsTools(run, next) == next.tools = run.tools
KeepsTurn(run, next) ==
    /\ next.turns = run.turns /\ next.turn = run.turn /\ next.request = run.request
    /\ next.provider_sequence = run.provider_sequence
KeepsRun(run, next) ==
    /\ next.selected = run.selected /\ next.bound = run.bound
    /\ next.result_sequence = run.result_sequence

LEMMA AppliedBinding ==
    ASSUME NEW run, IsRow(run), NEW rec, rec.type = "ProviderBinding", NEW next, next = Applied(run, rec)
    PROVE  /\ IsRow(next) /\ KeepsTools(run, next) /\ KeepsTurn(run, next)
           /\ next.selected = run.selected /\ next.bound = TRUE /\ next.session = TRUE
           /\ next.state = run.state /\ next.result_sequence = run.result_sequence
           /\ next.last_runtime_sequence = run.last_runtime_sequence
  <1>1. next = [[run EXCEPT !.bound = TRUE, !.session = TRUE] EXCEPT !.head = @ + 1]
    BY DEF Applied
  <1> QED
    BY <1>1, SMT DEF IsRow, RowFields, KeepsTools, KeepsTurn

LEMMA Terminalized ==
    ASSUME NEW run, IsRow(run), NEW end
    PROVE  LET next == terminalize(run, end) IN
           /\ IsRow(next) /\ KeepsTools(run, next) /\ KeepsTurn(run, next) /\ KeepsRun(run, next)
           /\ next.state = end /\ next.session = run.session
           /\ next.last_runtime_sequence = run.last_runtime_sequence
  BY SMT DEF IsRow, RowFields, KeepsTools, KeepsTurn, KeepsRun, terminalize

LEMMA AppliedInterruption ==
    ASSUME NEW run, IsRow(run), NEW rec, rec.type = "RunInterrupted", NEW next, next = Applied(run, rec)
    PROVE  IsRow(next) /\ KeepsTools(run, next) /\ KeepsTurn(run, next)
  <1> DEFINE ended == terminalize(run, "interrupted")
  <1>1. next = [ended EXCEPT !.head = @ + 1]
    BY DEF Applied
  <1>2. IsRow(ended) /\ KeepsTools(run, ended) /\ KeepsTurn(run, ended)
    BY Terminalized
  <1> HIDE DEF ended
  <1> QED
    BY <1>1, <1>2, SMT DEF IsRow, RowFields, KeepsTools, KeepsTurn

LEMMA AppliedResult ==
    ASSUME NEW run, IsRow(run), NEW rec, rec.type = "Result", NEW next, next = Applied(run, rec)
    PROVE  IsRow(next) /\ KeepsTools(run, next) /\ KeepsTurn(run, next)
  <1> DEFINE ended == IF active(run) THEN terminalize(run, rec.outcome) ELSE run
  <1>1. next = [[ended EXCEPT !.session = rec.session, !.result_sequence = next_sequence(run)]
                    EXCEPT !.head = @ + 1]
    BY DEF Applied
  <1>2. IsRow(ended) /\ KeepsTools(run, ended) /\ KeepsTurn(run, ended)
    BY Terminalized DEF KeepsTools, KeepsTurn
  <1> HIDE DEF ended
  <1> QED
    BY <1>1, <1>2, SMT DEF IsRow, RowFields, KeepsTools, KeepsTurn

LEMMA AppliedToolResult ==
    ASSUME NEW run, IsRow(run), NEW rec, rec.type = "ToolResult", NEW next, next = Applied(run, rec),
           rec.call_id \in CallIds
    PROVE  /\ IsRow(next) /\ KeepsRun(run, next) /\ KeepsTurn(run, next)
           /\ next.session = run.session /\ next.state = run.state
           /\ next.last_runtime_sequence = run.last_runtime_sequence
           /\ \A c \in CallIds : c # rec.call_id => next.tools[c] = run.tools[c]
           /\ next.tools[rec.call_id].name = run.tools[rec.call_id].name
           /\ next.tools[rec.call_id].request = run.tools[rec.call_id].request
           /\ next.tools[rec.call_id].turn = run.tools[rec.call_id].turn
           /\ next.tools[rec.call_id].finished_sequence = run.tools[rec.call_id].finished_sequence
           /\ next.tools[rec.call_id].result_sequence # 0
           /\ next.tools[rec.call_id].is_error = rec.is_error
  <1> DEFINE c == rec.call_id
             old == run.tools[c]
             mid == [old EXCEPT !.result_sequence = run.head + 1]
             new == [mid EXCEPT !.is_error = rec.is_error]
  <1>1. next = [[run EXCEPT !.tools[c].result_sequence = next_sequence(run),
                            !.tools[c].is_error = rec.is_error] EXCEPT !.head = @ + 1]
    BY DEF Applied
  <1>2. DOMAIN old = ToolFields /\ run.head \in Nat
    BY DEF IsRow
  <1>3. /\ DOMAIN new = ToolFields /\ new.name = old.name /\ new.request = old.request
        /\ new.turn = old.turn /\ new.finished_sequence = old.finished_sequence
        /\ new.result_sequence # 0 /\ new.is_error = rec.is_error
    BY <1>2, SMT DEF ToolFields
  <1>4. next.tools = [[run.tools EXCEPT ![c] = mid] EXCEPT ![c] = [@ EXCEPT !.is_error = rec.is_error]]
    BY <1>1, SMT DEF IsRow, RowFields, next_sequence
  <1>5. KeepsRun(run, next) /\ KeepsTurn(run, next) /\ next.session = run.session
        /\ next.state = run.state /\ next.last_runtime_sequence = run.last_runtime_sequence
        /\ DOMAIN next = DOMAIN run /\ next.head = run.head + 1
    BY <1>1, SMT DEF IsRow, RowFields, KeepsRun, KeepsTurn
  <1> HIDE DEF mid
  <1>6. /\ next.tools[c] = new
        /\ DOMAIN next.tools = CallIds
        /\ \A d \in CallIds : d # c => next.tools[d] = run.tools[d]
    BY <1>4, SMT DEF IsRow
  <1> HIDE DEF new
  <1>7. IsRow(next)
    BY <1>2, <1>3, <1>5, <1>6, SMT DEF IsRow
  <1> QED
    BY <1>3, <1>5, <1>6, <1>7

\* Every runtime event moves the sequence and shows the session.
NotedIn(run, rec, next) ==
    /\ IsRow(next) /\ KeepsRun(run, next)
    /\ next.last_runtime_sequence = rec.sequence /\ next.session = rec.session

\* The row once the sequence and the session of an event are noted.
Noted(run, rec) == [run EXCEPT !.last_runtime_sequence = rec.sequence, !.session = rec.session]

LEMMA NotedFields ==
    ASSUME NEW run, IsRow(run), NEW rec, NEW noted, noted = Noted(run, rec)
    PROVE  /\ NotedIn(run, rec, noted) /\ KeepsTools(run, noted) /\ KeepsTurn(run, noted)
           /\ noted.state = run.state
  BY SMT DEF IsRow, RowFields, KeepsTools, KeepsTurn, KeepsRun, Noted, NotedIn

LEMMA AppliedRunStarted ==
    ASSUME NEW run, IsRow(run), NEW rec, rec.type = "RunStarted", NEW next, next = Applied(run, rec)
    PROVE  /\ NotedIn(run, rec, next) /\ KeepsTools(run, next) /\ KeepsTurn(run, next)
           /\ next.state = "running"
  <1> DEFINE noted == Noted(run, rec)
  <1>1. next = [[noted EXCEPT !.state = "running"] EXCEPT !.head = @ + 1]
    BY DEF Applied, AppliedEvent, Noted
  <1>2. NotedIn(run, rec, noted) /\ KeepsTools(run, noted) /\ KeepsTurn(run, noted)
    BY NotedFields
  <1> HIDE DEF noted
  <1> QED
    BY <1>1, <1>2, SMT DEF IsRow, RowFields, KeepsTools, KeepsTurn, KeepsRun, NotedIn

LEMMA AppliedTurnStarted ==
    ASSUME NEW run, IsRow(run), NEW rec, rec.type = "TurnStarted", NEW next, next = Applied(run, rec)
    PROVE  /\ NotedIn(run, rec, next) /\ KeepsTools(run, next) /\ next.state = run.state
           /\ next.turn = rec.turn /\ next.turns = run.turns \cup {rec.turn} /\ next.request = 0
           /\ next.provider_sequence = run.provider_sequence
  <1> DEFINE noted == Noted(run, rec)
  <1>1. next = [[noted EXCEPT !.turn = rec.turn, !.turns = @ \cup {rec.turn}, !.request = 0]
                   EXCEPT !.head = @ + 1]
    BY DEF Applied, AppliedEvent, Noted
  <1>2. /\ NotedIn(run, rec, noted) /\ KeepsTools(run, noted) /\ KeepsTurn(run, noted)
        /\ noted.state = run.state
    BY NotedFields
  <1> HIDE DEF noted
  <1> QED
    BY <1>1, <1>2, SMT DEF IsRow, RowFields, KeepsTools, KeepsTurn, KeepsRun, NotedIn

LEMMA AppliedProviderEvent ==
    ASSUME NEW run, IsRow(run), NEW rec, rec.type = "ProviderEvent", NEW next, next = Applied(run, rec)
    PROVE  /\ NotedIn(run, rec, next) /\ KeepsTools(run, next) /\ next.state = run.state
           /\ next.turn = run.turn /\ next.turns = run.turns /\ next.request = rec.request
           /\ next.provider_sequence = rec.provider_sequence
  <1> DEFINE noted == Noted(run, rec)
  <1>1. next = [[noted EXCEPT !.request = rec.request, !.provider_sequence = rec.provider_sequence]
                   EXCEPT !.head = @ + 1]
    BY DEF Applied, AppliedEvent, Noted
  <1>2. /\ NotedIn(run, rec, noted) /\ KeepsTools(run, noted) /\ KeepsTurn(run, noted)
        /\ noted.state = run.state
    BY NotedFields
  <1> HIDE DEF noted
  <1> QED
    BY <1>1, <1>2, SMT DEF IsRow, RowFields, KeepsTools, KeepsTurn, KeepsRun, NotedIn

LEMMA AppliedTurnFinished ==
    ASSUME NEW run, IsRow(run), NEW rec, rec.type = "TurnFinished", NEW next, next = Applied(run, rec)
    PROVE  /\ NotedIn(run, rec, next) /\ KeepsTools(run, next) /\ next.state = run.state
           /\ next.turn = 0 /\ next.turns = run.turns /\ next.request = rec.request
           /\ next.provider_sequence = run.provider_sequence
  <1> DEFINE noted == Noted(run, rec)
  <1>1. next = [[noted EXCEPT !.request = rec.request, !.turn = 0] EXCEPT !.head = @ + 1]
    BY DEF Applied, AppliedEvent, Noted
  <1>2. /\ NotedIn(run, rec, noted) /\ KeepsTools(run, noted) /\ KeepsTurn(run, noted)
        /\ noted.state = run.state
    BY NotedFields
  <1> HIDE DEF noted
  <1> QED
    BY <1>1, <1>2, SMT DEF IsRow, RowFields, KeepsTools, KeepsTurn, KeepsRun, NotedIn

LEMMA AppliedRunFinished ==
    ASSUME NEW run, IsRow(run), NEW rec, rec.type = "RunFinished", NEW next, next = Applied(run, rec)
    PROVE  /\ NotedIn(run, rec, next) /\ KeepsTools(run, next) /\ KeepsTurn(run, next)
           /\ next.state = rec.outcome
  <1> DEFINE noted == Noted(run, rec)
             ended == terminalize(noted, rec.outcome)
  <1>1. next = [ended EXCEPT !.head = @ + 1]
    BY DEF Applied, AppliedEvent, Noted
  <1>2. /\ NotedIn(run, rec, noted) /\ KeepsTools(run, noted) /\ KeepsTurn(run, noted)
    BY NotedFields
  <1> HIDE DEF noted
  <1>3. /\ IsRow(ended) /\ KeepsTools(noted, ended) /\ KeepsTurn(noted, ended) /\ KeepsRun(noted, ended)
        /\ ended.state = rec.outcome /\ ended.session = noted.session
        /\ ended.last_runtime_sequence = noted.last_runtime_sequence
    BY <1>2, Terminalized DEF NotedIn
  <1> HIDE DEF ended
  <1> QED
    BY <1>1, <1>2, <1>3, SMT DEF IsRow, RowFields, KeepsTools, KeepsTurn, KeepsRun, NotedIn

LEMMA AppliedToolEvent ==
    ASSUME NEW run, IsRow(run), NEW rec, rec.type = "ToolEvent", NEW next, next = Applied(run, rec),
           rec.call_id \in CallIds, DOMAIN ToolRow(run, rec) = ToolFields
    PROVE  /\ NotedIn(run, rec, next) /\ next.state = run.state
           /\ next.turn = run.turn /\ next.turns = run.turns /\ next.request = rec.request
           /\ next.provider_sequence = run.provider_sequence
           /\ next.tools[rec.call_id] = ToolRow(run, rec)
           /\ \A c \in CallIds : c # rec.call_id => next.tools[c] = run.tools[c]
  <1> DEFINE noted == Noted(run, rec)
             new == ToolRow(run, rec)
  <1>1. next = [[noted EXCEPT !.request = rec.request, !.tools[rec.call_id] = new]
                   EXCEPT !.head = @ + 1]
    BY DEF Applied, AppliedEvent, Noted
  <1>2. /\ NotedIn(run, rec, noted) /\ KeepsTools(run, noted) /\ KeepsTurn(run, noted)
        /\ noted.state = run.state
    BY NotedFields
  <1> HIDE DEF noted, new
  <1>3. /\ next.tools = [run.tools EXCEPT ![rec.call_id] = new]
        /\ next.head = noted.head + 1 /\ DOMAIN next = RowFields
    BY <1>1, <1>2, SMT DEF IsRow, RowFields, KeepsTools, NotedIn
  <1>4. /\ DOMAIN next.tools = CallIds /\ next.tools[rec.call_id] = new
        /\ \A c \in CallIds : c # rec.call_id => next.tools[c] = run.tools[c]
    BY <1>3 DEF IsRow
  <1>5. IsRow(next)
    BY <1>2, <1>3, <1>4, SMT DEF IsRow, NotedIn, new
  <1>6. /\ KeepsRun(run, next) /\ next.last_runtime_sequence = rec.sequence
        /\ next.session = rec.session /\ next.state = run.state
        /\ next.turn = run.turn /\ next.turns = run.turns /\ next.request = rec.request
        /\ next.provider_sequence = run.provider_sequence
    BY <1>1, <1>2, SMT DEF IsRow, RowFields, KeepsRun, KeepsTurn, NotedIn
  <1> QED
    BY <1>4, <1>5, <1>6 DEF NotedIn, new

-----------------------------------------------------------------------------
(***************************************************************************)
(* The record of each stage is admitted.                                   *)
(***************************************************************************)

LEMMA AdmittedRunStarted ==
    ASSUME Typed, LiveInv, pc = "run_started"
    PROVE  Admits(row, Record)
  <1>1. Says("RunStarted", 0)
    BY RunStartedRecord
  <1>2. ~session_id /\ request_id = 0 /\ row.state = "accepted" /\ row.last_runtime_sequence = sequence
    BY DEF LiveInv, StageInv, RunInv
  <1>3. sequence + 1 > sequence
    BY SMT DEF Typed
  <1>4. ~row.session
    BY <1>2 DEF LiveInv, RunInv
  <1>5. AdmitsUnbound(Record)
    BY <1>1 DEF Says, AdmitsUnbound
  <1>6. validate_runtime(Record)
    BY <1>1, <1>2 DEF Says, validate_runtime
  <1>7. Correlates(row, Record)
    BY <1>1, <1>2, <1>3, <1>4 DEF Says, Correlates
  <1> QED
    BY <1>1, <1>2, <1>5, <1>6, <1>7 DEF Says, Admits, active

LEMMA AdmittedBinding ==
    ASSUME Typed, LiveInv, pc = "bind"
    PROVE  Admits(row, Record)
  <1>1. Record.type = "ProviderBinding"
    BY DEF Record
  <1>2. /\ row.state = "running" /\ row.last_runtime_sequence = 1
        /\ row.selected /\ ~row.bound
    BY DEF LiveInv, StageInv, RunInv
  <1>3. AdmitsUnbound(Record)
    BY <1>1 DEF AdmitsUnbound
  <1> QED
    BY <1>1, <1>2, <1>3 DEF Admits, active, validate_binding

LEMMA AdmittedTurnStarted ==
    ASSUME Typed, LiveInv, pc = "turn_started"
    PROVE  Admits(row, Record)
  <1>1. Says("TurnStarted", Turn)
    BY TurnStartedRecord
  <1>2. /\ session_id /\ request_id = 0 /\ Turn # 0
        /\ row.state = "running" /\ row.last_runtime_sequence = sequence
        /\ (row.selected => row.bound)
    BY DEF LiveInv, StageInv, RunInv
  <1>3. row.turns = 1..(Turn - 1) /\ row.turn = 0
    BY DEF LiveInv, TurnInv, Turning, Requesting, Tooling
  <1>4. sequence + 1 > sequence /\ Turn \notin row.turns
    BY <1>3, SMT DEF Typed, Turn, IsSummary
  <1>5. validate_runtime(Record)
    BY <1>1, <1>2 DEF Says, validate_runtime
  <1>6. Correlates(row, Record)
    BY <1>1, <1>2, <1>3, <1>4 DEF Says, Correlates
  <1> QED
    BY <1>1, <1>2, <1>5, <1>6 DEF Says, Admits, active

\* The facts about a stage within a turn.
LEMMA InTurn ==
    ASSUME Typed, LiveInv, pc \in Turning
    PROVE  /\ session_id /\ Turn # 0
           /\ row.state = "running" /\ row.last_runtime_sequence = sequence
           /\ (row.selected => row.bound)
           /\ row.turn = Turn /\ row.request \in {0, request_id}
           /\ sequence + 1 > sequence
           /\ pc \in Requesting => request_id = Turn
  <1>1. pc \notin {"run_started", "final_result"}
    BY DEF Turning, Requesting, Tooling
  <1>2. sequence + 1 > sequence
    BY SMT DEF Typed
  <1> QED
    BY <1>1, <1>2 DEF LiveInv, StageInv, RunInv, TurnInv

LEMMA AdmittedProviderEvent ==
    ASSUME Typed, LiveInv, pc = "provider_event"
    PROVE  Admits(row, Record)
  <1>1. Says("ProviderEvent", Turn) /\ Record.provider_sequence = provider_sequence
    BY ProviderEventRecord
  <1>2. pc \in Turning /\ pc \in Requesting
    BY DEF Turning, Requesting
  <1>3. provider_sequence > row.provider_sequence
    BY SMT DEF LiveInv, TurnInv, Typed
  <1>4. validate_runtime(Record)
    BY <1>1, <1>2, InTurn DEF Says, validate_runtime
  <1>5. Correlates(row, Record)
    BY <1>1, <1>2, <1>3, InTurn DEF Says, Correlates, OfOpenTurn
  <1> QED
    BY <1>1, <1>2, <1>4, <1>5, InTurn DEF Says, Admits, active

LEMMA AdmittedTurnFinished ==
    ASSUME Typed, LiveInv, pc = "turn_finished"
    PROVE  Admits(row, Record)
  <1>1. Says("TurnFinished", Turn) /\ Record.number = Turn
    BY TurnFinishedRecord
  <1>2. pc \in Turning
    BY DEF Turning
  <1>3. validate_runtime(Record)
    BY <1>1, <1>2, InTurn DEF Says, validate_runtime
  <1>4. Correlates(row, Record)
    BY <1>1, <1>2, InTurn DEF Says, Correlates, OfOpenTurn
  <1> QED
    BY <1>1, <1>2, <1>3, <1>4, InTurn DEF Says, Admits, active

\* A tool event within a turn is admitted if the row of its call allows it.
LEMMA AdmittedToolEvent ==
    ASSUME Typed, LiveInv, pc \in {"tool_start", "tool_finish"}, Says("ToolEvent", Turn),
           AdmitsToolEvent(row, Record)
    PROVE  Admits(row, Record)
  <1>1. pc \in Turning /\ pc \in Requesting
    BY DEF Turning, Requesting, Tooling
  <1>2. validate_runtime(Record)
    BY <1>1, InTurn DEF Says, validate_runtime
  <1>3. Correlates(row, Record)
    BY <1>1, InTurn DEF Says, Correlates, OfOpenTurn
  <1> QED
    BY <1>1, <1>2, <1>3, InTurn DEF Says, Admits, active

LEMMA CallFacts ==
    ASSUME Typed, LiveInv, pc \in Tooling
    PROVE  /\ batch # <<>> /\ Call = batch[1] /\ Call \in Calls /\ Call.call_id \in CallIds
           /\ Len(batch) \in Nat /\ Len(batch) >= 1 /\ 1 \in DOMAIN batch
           /\ Call.name \in STRING /\ Call.arguments \in STRING
  <1>1. batch # <<>> /\ batch \in Seq(Calls)
    BY DEF LiveInv, BatchInv, Typed
  <1>2. Call = batch[1] /\ Call \in Calls /\ Len(batch) \in Nat /\ Len(batch) >= 1 /\ 1 \in DOMAIN batch
    BY <1>1, SMT DEF Call
  <1> QED
    BY <1>1, <1>2, SMT DEF Calls

LEMMA AdmittedToolStart ==
    ASSUME Typed, LiveInv, pc = "tool_start"
    PROVE  Admits(row, Record)
  <1>1. /\ Says("ToolEvent", Turn)
        /\ Record.event = IF Cached(Call) THEN "ToolResultReused" ELSE "ToolExecutionStarted"
        /\ Record.call_id = Call.call_id /\ Record.tool_name = Call.name
    BY ToolStartRecord
  <1>2. pc \in Tooling /\ pc \notin {"turn_finished"} \cup Closing
    BY DEF Tooling, Closing
  <1>3. Call.call_id \in CallIds /\ 1 \in DOMAIN batch /\ Call = batch[1]
    BY <1>2, CallFacts
  <1>4. ~Cached(Call) => row.tools[Call.call_id] = NoTool
    BY <1>2, <1>3 DEF LiveInv, CacheInv, Cached, Dead
  <1>5. Cached(Call) => /\ row.tools[Call.call_id].name = Call.name
                        /\ row.tools[Call.call_id].result_sequence # 0
    BY <1>2, <1>3 DEF LiveInv, CacheInv, BatchInv, Cached, SavedAs
  <1>6. AdmitsToolEvent(row, Record)
    BY <1>1, <1>4, <1>5 DEF AdmitsToolEvent
  <1> QED
    BY <1>1, <1>6, AdmittedToolEvent

LEMMA AdmittedToolFinish ==
    ASSUME Typed, LiveInv, pc = "tool_finish"
    PROVE  Admits(row, Record)
  <1>1. /\ Says("ToolEvent", Turn) /\ Record.event = "ToolExecutionFinished"
        /\ Record.call_id = Call.call_id /\ Record.tool_name = Call.name
        /\ Record.is_error = cache[Call.call_id].is_error
    BY ToolFinishRecord
  <1>2. pc \in Tooling
    BY DEF Tooling
  <1>3. Call.call_id \in CallIds
    BY <1>2, CallFacts
  <1>4. SavedAs(Call.call_id)
    BY <1>3 DEF LiveInv, CacheInv, HeadInv
  <1>5. /\ row.tools[Call.call_id].name = Call.name /\ row.tools[Call.call_id].request = request_id
        /\ row.tools[Call.call_id].turn = Turn /\ row.tools[Call.call_id].finished_sequence = 0
    BY DEF LiveInv, HeadInv
  <1>6. AdmitsToolEvent(row, Record)
    BY <1>1, <1>4, <1>5 DEF AdmitsToolEvent, SavedAs, Says
  <1> QED
    BY <1>1, <1>6, AdmittedToolEvent

LEMMA AdmittedToolResult ==
    ASSUME Typed, LiveInv, pc = "tool_result"
    PROVE  Admits(row, Record)
  <1>1. /\ Record.type = "ToolResult" /\ Record.request = request_id
        /\ Record.call_id = Call.call_id /\ Record.is_error = cache[Call.call_id].is_error
    BY ToolResultRecord
  <1>2. pc \in Turning
    BY DEF Turning, Requesting, Tooling
  <1>3. /\ row.tools[Call.call_id].request = request_id /\ row.tools[Call.call_id] # NoTool
        /\ row.tools[Call.call_id].result_sequence = 0 /\ row.tools[Call.call_id].is_error = "none"
    BY DEF LiveInv, HeadInv
  <1>4. AdmitsToolResult(row, Record)
    BY <1>1, <1>2, <1>3, InTurn DEF AdmitsToolResult
  <1> QED
    BY <1>1, <1>2, <1>4, InTurn DEF Admits, active

\* A completed run has no call without an output.
LEMMA OutputsThere ==
    ASSUME LiveInv, pc = "run_finished"
    PROVE  require_outputs(row, stop)
  <1> SUFFICES ASSUME stop = "completed", NEW c \in CallIds, row.tools[c] # NoTool
               PROVE  row.tools[c].result_sequence # 0
    BY DEF require_outputs
  <1>1. ~Dead
    BY DEF Dead
  <1> QED
    BY <1>1 DEF LiveInv, CacheInv, SavedAs

LEMMA AdmittedRunFinished ==
    ASSUME Typed, LiveInv, pc = "run_finished"
    PROVE  Admits(row, Record)
  <1>1. Says("RunFinished", 0) /\ Record.outcome = stop /\ Record.summary = summary
    BY RunFinishedRecord
  <1>2. /\ row.state = "running" /\ row.last_runtime_sequence = sequence /\ (row.session => session_id)
        /\ (row.selected /\ ~row.bound => summary = NoActivity /\ request_id = 0)
    BY DEF LiveInv, RunInv
  <1>3. row.turn = 0 /\ row.request = request_id
    BY DEF LiveInv, TurnInv, Turning, Requesting, Tooling
  <1>4. sequence + 1 > sequence
    BY SMT DEF Typed
  <1>5. row.selected /\ ~row.bound => AdmitsUnbound(Record)
    BY <1>1, <1>2 DEF Says, AdmitsUnbound
  <1>6. validate_runtime(Record)
    BY <1>1 DEF Says, validate_runtime
  <1>7. Correlates(row, Record)
    BY <1>1, <1>2, <1>3, <1>4 DEF Says, Correlates
  <1> QED
    BY <1>1, <1>2, <1>5, <1>6, <1>7, OutputsThere DEF Says, Admits, active

LEMMA AdmittedResult ==
    ASSUME Typed, LiveInv, pc = "final_result"
    PROVE  Admits(row, Record)
  <1>1. /\ Record.type = "Result" /\ Record.outcome = stop /\ Record.summary = summary
        /\ Record.session = session_id /\ (Record.responded <=> last_response # NoResponse)
    BY FinalResultRecord
  <1>2. /\ row.state = stop /\ row.session = session_id /\ row.result_sequence = 0
        /\ (row.selected /\ ~row.bound => summary = NoActivity /\ last_response = NoResponse)
    BY DEF LiveInv, RunInv
  <1>3. stop \in {"completed", "cancelled", "failed"}
    BY DEF LiveInv, StageInv, Closing
  <1>4. row.selected /\ ~row.bound => AdmitsUnbound(Record)
    BY <1>1, <1>2 DEF AdmitsUnbound
  <1>5. ~active(row) /\ row.state # "interrupted"
    BY <1>2, <1>3 DEF active
  <1> QED
    BY <1>1, <1>2, <1>4, <1>5 DEF Admits, AdmitsResult

-----------------------------------------------------------------------------
(***************************************************************************)
(* What a committed record leaves in the row, stage by stage.              *)
(***************************************************************************)

LEMMA CommittedRunStarted ==
    ASSUME IsRow(row), pc = "run_started", Committed
    PROVE  /\ NotedIn(row, Record, row') /\ Says("RunStarted", 0)
           /\ KeepsTools(row, row') /\ KeepsTurn(row, row')
           /\ row'.state = "running"
  BY RunStartedRecord, AppliedRunStarted DEF Committed, Says

LEMMA CommittedBinding ==
    ASSUME IsRow(row), pc = "bind", Committed
    PROVE  /\ IsRow(row') /\ KeepsTools(row, row') /\ KeepsTurn(row, row')
           /\ row'.selected = row.selected /\ row'.bound = TRUE /\ row'.session = TRUE
           /\ row'.state = row.state /\ row'.result_sequence = row.result_sequence
           /\ row'.last_runtime_sequence = row.last_runtime_sequence
           /\ Record.type = "ProviderBinding"
  <1>1. Record.type = "ProviderBinding"
    BY DEF Record
  <1> QED
    BY <1>1, AppliedBinding DEF Committed

LEMMA CommittedTurnStarted ==
    ASSUME IsRow(row), pc = "turn_started", Committed
    PROVE  /\ NotedIn(row, Record, row') /\ Says("TurnStarted", Turn)
           /\ KeepsTools(row, row') /\ row'.state = row.state
           /\ row'.turn = Turn /\ row'.turns = row.turns \cup {Turn} /\ row'.request = 0
           /\ row'.provider_sequence = row.provider_sequence
  <1>1. Says("TurnStarted", Turn)
    BY TurnStartedRecord
  <1>2. Record.type = "TurnStarted" /\ row' = Applied(row, Record)
    BY <1>1 DEF Says, Committed
  <1>3. /\ NotedIn(row, Record, row') /\ KeepsTools(row, row') /\ row'.state = row.state
        /\ row'.turn = Record.turn /\ row'.turns = row.turns \cup {Record.turn} /\ row'.request = 0
        /\ row'.provider_sequence = row.provider_sequence
    BY <1>2, AppliedTurnStarted, SMT
  <1> QED
    BY <1>1, <1>3 DEF Says

LEMMA CommittedProviderEvent ==
    ASSUME IsRow(row), pc = "provider_event", Committed
    PROVE  /\ NotedIn(row, Record, row') /\ Says("ProviderEvent", Turn)
           /\ KeepsTools(row, row') /\ row'.state = row.state
           /\ row'.turn = row.turn /\ row'.turns = row.turns /\ row'.request = request_id
           /\ row'.provider_sequence = provider_sequence
  <1>1. Says("ProviderEvent", Turn) /\ Record.provider_sequence = provider_sequence
    BY ProviderEventRecord
  <1>2. Record.type = "ProviderEvent" /\ row' = Applied(row, Record)
    BY <1>1 DEF Says, Committed
  <1>3. /\ NotedIn(row, Record, row') /\ KeepsTools(row, row') /\ row'.state = row.state
        /\ row'.turn = row.turn /\ row'.turns = row.turns /\ row'.request = Record.request
        /\ row'.provider_sequence = Record.provider_sequence
    BY <1>2, AppliedProviderEvent, SMT
  <1> QED
    BY <1>1, <1>3 DEF Says

LEMMA CommittedTurnFinished ==
    ASSUME IsRow(row), pc = "turn_finished", Committed
    PROVE  /\ NotedIn(row, Record, row') /\ Says("TurnFinished", Turn)
           /\ KeepsTools(row, row') /\ row'.state = row.state
           /\ row'.turn = 0 /\ row'.turns = row.turns /\ row'.request = request_id
           /\ row'.provider_sequence = row.provider_sequence
  <1>1. Says("TurnFinished", Turn)
    BY TurnFinishedRecord
  <1>2. Record.type = "TurnFinished" /\ row' = Applied(row, Record)
    BY <1>1 DEF Says, Committed
  <1>3. /\ NotedIn(row, Record, row') /\ KeepsTools(row, row') /\ row'.state = row.state
        /\ row'.turn = 0 /\ row'.turns = row.turns /\ row'.request = Record.request
        /\ row'.provider_sequence = row.provider_sequence
    BY <1>2, AppliedTurnFinished, SMT
  <1> QED
    BY <1>1, <1>3 DEF Says

LEMMA CommittedRunFinished ==
    ASSUME IsRow(row), pc = "run_finished", Committed
    PROVE  /\ NotedIn(row, Record, row') /\ Says("RunFinished", 0)
           /\ KeepsTools(row, row') /\ KeepsTurn(row, row') /\ row'.state = stop
  <1>1. Says("RunFinished", 0) /\ Record.outcome = stop
    BY RunFinishedRecord
  <1> QED
    BY <1>1, AppliedRunFinished DEF Committed, Says

LEMMA CommittedResult ==
    ASSUME IsRow(row), pc = "final_result", Committed
    PROVE  /\ IsRow(row') /\ KeepsTools(row, row') /\ KeepsTurn(row, row')
           /\ Record.type = "Result"
  <1>1. Record.type = "Result"
    BY FinalResultRecord
  <1> QED
    BY <1>1, AppliedResult DEF Committed

LEMMA CommittedToolResult ==
    ASSUME IsRow(row), pc = "tool_result", Call.call_id \in CallIds, Committed
    PROVE  LET c == Call.call_id IN
           /\ IsRow(row') /\ KeepsRun(row, row') /\ KeepsTurn(row, row') /\ Record.type = "ToolResult"
           /\ row'.session = row.session /\ row'.state = row.state
           /\ row'.last_runtime_sequence = row.last_runtime_sequence
           /\ \A d \in CallIds : d # c => row'.tools[d] = row.tools[d]
           /\ row'.tools[c].name = row.tools[c].name /\ row'.tools[c].request = row.tools[c].request
           /\ row'.tools[c].turn = row.tools[c].turn
           /\ row'.tools[c].finished_sequence = row.tools[c].finished_sequence
           /\ row'.tools[c].result_sequence # 0 /\ row'.tools[c].is_error = cache[c].is_error
  <1>1. /\ Record.type = "ToolResult" /\ Record.call_id = Call.call_id
        /\ Record.is_error = cache[Call.call_id].is_error
    BY ToolResultRecord
  <1>2. Record.type = "ToolResult" /\ Record.call_id \in CallIds /\ row' = Applied(row, Record)
    BY <1>1 DEF Committed
  <1>3. LET c == Record.call_id IN
        /\ IsRow(row') /\ KeepsRun(row, row') /\ KeepsTurn(row, row')
        /\ row'.session = row.session /\ row'.state = row.state
        /\ row'.last_runtime_sequence = row.last_runtime_sequence
        /\ \A d \in CallIds : d # c => row'.tools[d] = row.tools[d]
        /\ row'.tools[c].name = row.tools[c].name /\ row'.tools[c].request = row.tools[c].request
        /\ row'.tools[c].turn = row.tools[c].turn
        /\ row'.tools[c].finished_sequence = row.tools[c].finished_sequence
        /\ row'.tools[c].result_sequence # 0 /\ row'.tools[c].is_error = Record.is_error
    BY <1>2, AppliedToolResult, SMTT(30)
  <1> QED
    BY <1>1, <1>3

\* What a tool event leaves but for the row of its call.
ToolEventLeaves(c) ==
    /\ NotedIn(row, Record, row') /\ Says("ToolEvent", Turn) /\ row'.state = row.state
    /\ row'.turn = row.turn /\ row'.turns = row.turns /\ row'.request = request_id
    /\ row'.provider_sequence = row.provider_sequence
    /\ \A d \in CallIds : d # c => row'.tools[d] = row.tools[d]

LEMMA CommittedToolEvent ==
    ASSUME IsRow(row), Says("ToolEvent", Turn), Record.call_id = Call.call_id,
           DOMAIN ToolRow(row, Record) = ToolFields, Call.call_id \in CallIds, Committed
    PROVE  ToolEventLeaves(Call.call_id) /\ row'.tools[Call.call_id] = ToolRow(row, Record)
  <1>1. Record.type = "ToolEvent" /\ Record.call_id \in CallIds /\ row' = Applied(row, Record)
    BY DEF Says, Committed
  <1>2. /\ NotedIn(row, Record, row') /\ row'.state = row.state
        /\ row'.turn = row.turn /\ row'.turns = row.turns /\ row'.request = Record.request
        /\ row'.provider_sequence = row.provider_sequence
        /\ row'.tools[Record.call_id] = ToolRow(row, Record)
        /\ \A c \in CallIds : c # Record.call_id => row'.tools[c] = row.tools[c]
    BY <1>1, AppliedToolEvent, SMT
  <1> QED
    BY <1>2 DEF ToolEventLeaves, Says

LEMMA CommittedReuse ==
    ASSUME IsRow(row), pc = "tool_start", Cached(Call), Call.call_id \in CallIds, Committed
    PROVE  ToolEventLeaves(Call.call_id) /\ row'.tools[Call.call_id] = row.tools[Call.call_id]
  <1>1. /\ Says("ToolEvent", Turn) /\ Record.event = "ToolResultReused"
        /\ Record.call_id = Call.call_id
    BY ToolStartRecord
  <1>2. ToolRow(row, Record) = row.tools[Call.call_id]
    BY <1>1 DEF ToolRow
  <1>3. DOMAIN ToolRow(row, Record) = ToolFields
    BY <1>2 DEF IsRow
  <1> QED
    BY <1>1, <1>2, <1>3, CommittedToolEvent

LEMMA CommittedIntent ==
    ASSUME IsRow(row), pc = "tool_start", ~Cached(Call), Call.call_id \in CallIds, Committed
    PROVE  /\ ToolEventLeaves(Call.call_id)
           /\ LET saved == row'.tools[Call.call_id] IN
              /\ saved # NoTool /\ saved.name = Call.name /\ saved.request = request_id
              /\ saved.turn = Turn /\ saved.finished_sequence = 0 /\ saved.result_sequence = 0
              /\ saved.is_error = "none"
  <1>1. /\ Says("ToolEvent", Turn) /\ Record.event = "ToolExecutionStarted"
        /\ Record.call_id = Call.call_id /\ Record.tool_name = Call.name
    BY ToolStartRecord
  <1> DEFINE new == ToolRow(row, Record)
  <1>2. new = [NoTool EXCEPT !.name = Record.tool_name, !.request = Record.request,
                             !.turn = Record.turn, !.started_sequence = next_sequence(row)]
    BY <1>1 DEF ToolRow
  <1>3. /\ DOMAIN new = ToolFields /\ new.started_sequence = row.head + 1
        /\ new.name = Call.name /\ new.request = request_id
        /\ new.turn = Turn /\ new.finished_sequence = 0 /\ new.result_sequence = 0
        /\ new.is_error = "none"
    BY <1>1, <1>2, SMT DEF NoTool, ToolFields, Says, next_sequence
  <1>4. new # NoTool
    BY <1>3, SMT DEF NoTool, IsRow
  <1>5. ToolEventLeaves(Call.call_id) /\ row'.tools[Call.call_id] = new
    BY <1>1, <1>3, CommittedToolEvent
  <1> HIDE DEF new
  <1> QED
    BY <1>3, <1>4, <1>5

LEMMA CommittedFinish ==
    ASSUME IsRow(row), pc = "tool_finish", Call.call_id \in CallIds, Committed
    PROVE  LET c == Call.call_id IN
           /\ ToolEventLeaves(c)
           /\ row'.tools[c] # NoTool /\ row'.tools[c].name = row.tools[c].name
           /\ row'.tools[c].result_sequence = row.tools[c].result_sequence
           /\ row'.tools[c].is_error = cache[c].is_error
  <1>1. /\ Says("ToolEvent", Turn) /\ Record.event = "ToolExecutionFinished"
        /\ Record.call_id = Call.call_id /\ Record.is_error = cache[Call.call_id].is_error
    BY ToolFinishRecord
  <1> DEFINE old == row.tools[Call.call_id]
             new == ToolRow(row, Record)
  <1>2. new = [old EXCEPT !.finished_sequence = next_sequence(row), !.is_error = Record.is_error]
    BY <1>1 DEF ToolRow
  <1>3. DOMAIN old = ToolFields
    BY DEF IsRow
  <1>4. /\ DOMAIN new = ToolFields /\ new.finished_sequence = row.head + 1
        /\ new.name = old.name /\ new.result_sequence = old.result_sequence
        /\ new.is_error = cache[Call.call_id].is_error
    BY <1>1, <1>2, <1>3, SMT DEF ToolFields, next_sequence
  <1>5. new # NoTool
    BY <1>4, SMT DEF NoTool, IsRow
  <1>6. ToolEventLeaves(Call.call_id) /\ row'.tools[Call.call_id] = new
    BY <1>1, <1>4, CommittedToolEvent
  <1> HIDE DEF new
  <1> QED
    BY <1>4, <1>5, <1>6

-----------------------------------------------------------------------------
\* A call that is in the database stays there, and so does its output.
Grows(old, new) ==
    \A c \in CallIds :
        /\ old[c] # NoTool => new[c] # NoTool
        /\ old[c].result_sequence # 0 => /\ new[c].result_sequence # 0
                                         /\ new[c].is_error = old[c].is_error

StoreKept ==
    IsRow(row') /\ row'.provider_sequence \in Nat /\ Grows(row.tools, row'.tools)

LEMMA KeptGrow ==
    ASSUME KeepsTools(row, row')
    PROVE  Grows(row.tools, row'.tools)
  BY DEF KeepsTools, Grows

LEMMA NoToolOutput == NoTool.result_sequence = 0
  BY DEF NoTool

LEMMA ToolStartGrows ==
    ASSUME Typed, LiveInv, pc = "tool_start", Committed
    PROVE  StoreKept
  <1>1. Call.call_id \in CallIds
    BY CallFacts DEF Tooling
  <1>2. IsRow(row) /\ row.provider_sequence \in Nat
    BY DEF Typed
  <1>3. CASE Cached(Call)
    <2>1. ToolEventLeaves(Call.call_id) /\ row'.tools[Call.call_id] = row.tools[Call.call_id]
      BY <1>1, <1>2, <1>3, CommittedReuse
    <2> QED
      BY <1>2, <2>1 DEF StoreKept, ToolEventLeaves, NotedIn, Grows
  <1>4. CASE ~Cached(Call)
    <2>1. ToolEventLeaves(Call.call_id) /\ row'.tools[Call.call_id] # NoTool
      BY <1>1, <1>2, <1>4, CommittedIntent
    <2>2. row.tools[Call.call_id] = NoTool
      BY <1>1, <1>4 DEF LiveInv, CacheInv, Cached, Dead, Closing
    <2> QED
      BY <1>2, <2>1, <2>2, NoToolOutput DEF StoreKept, ToolEventLeaves, NotedIn, Grows
  <1> QED
    BY <1>3, <1>4

LEMMA ToolResultGrows ==
    ASSUME Typed, LiveInv, pc = "tool_result", Committed
    PROVE  StoreKept
  <1>1. Call.call_id \in CallIds
    BY CallFacts DEF Tooling
  <1>2. IsRow(row) /\ row.provider_sequence \in Nat
    BY DEF Typed
  <1>3. /\ IsRow(row') /\ row'.provider_sequence = row.provider_sequence
        /\ \A d \in CallIds : d # Call.call_id => row'.tools[d] = row.tools[d]
        /\ row'.tools[Call.call_id].result_sequence # 0
    BY <1>1, <1>2, CommittedToolResult DEF KeepsTurn
  <1>4. row.tools[Call.call_id].result_sequence = 0
    BY DEF LiveInv, HeadInv
  <1> QED
    BY <1>2, <1>3, <1>4, NoToolOutput DEF StoreKept, Grows

LEMMA ToolFinishGrows ==
    ASSUME Typed, LiveInv, pc = "tool_finish", Committed
    PROVE  StoreKept
  <1>1. Call.call_id \in CallIds
    BY CallFacts DEF Tooling
  <1>2. IsRow(row) /\ row.provider_sequence \in Nat
    BY DEF Typed
  <1>3. /\ ToolEventLeaves(Call.call_id) /\ row'.tools[Call.call_id] # NoTool
        /\ row'.tools[Call.call_id].result_sequence = row.tools[Call.call_id].result_sequence
        /\ row'.tools[Call.call_id].is_error = cache[Call.call_id].is_error
    BY <1>1, <1>2, CommittedFinish
  <1>4. SavedAs(Call.call_id)
    BY <1>1 DEF LiveInv, CacheInv, HeadInv
  <1> QED
    BY <1>2, <1>3, <1>4 DEF StoreKept, ToolEventLeaves, NotedIn, Grows, SavedAs

LEMMA StoreStep ==
    ASSUME Typed, LiveInv, pc \in Appending, Committed
    PROVE  StoreKept
  <1> USE DEF Typed
  <1>1. CASE pc = "run_started"
    BY <1>1, CommittedRunStarted, KeptGrow DEF StoreKept, NotedIn, KeepsTurn
  <1>2. CASE pc = "bind"
    BY <1>2, CommittedBinding, KeptGrow DEF StoreKept, KeepsTurn
  <1>3. CASE pc = "turn_started"
    BY <1>3, CommittedTurnStarted, KeptGrow DEF StoreKept, NotedIn
  <1>4. CASE pc = "provider_event"
    BY <1>4, CommittedProviderEvent, KeptGrow DEF StoreKept, NotedIn
  <1>5. CASE pc = "turn_finished"
    BY <1>5, CommittedTurnFinished, KeptGrow DEF StoreKept, NotedIn
  <1>6. CASE pc = "run_finished"
    BY <1>6, CommittedRunFinished, KeptGrow DEF StoreKept, NotedIn, KeepsTurn
  <1>7. CASE pc = "final_result"
    BY <1>7, CommittedResult, KeptGrow DEF StoreKept, KeepsTurn
  <1> QED
    BY <1>1, <1>2, <1>3, <1>4, <1>5, <1>6, <1>7, ToolStartGrows, ToolResultGrows, ToolFinishGrows
    DEF Appending

-----------------------------------------------------------------------------
(***************************************************************************)
(* The row within a turn, and outside of one.                              *)
(***************************************************************************)

SameRun ==
    /\ row.selected <=> history
    /\ row.last_runtime_sequence = sequence
    /\ row.state = "running"
    /\ row.session => session_id
    /\ row.result_sequence = 0
    /\ row.provider_sequence <= provider_sequence

TurnRow ==
    /\ SameRun /\ (history => row.bound)
    /\ row.turns = 1..Turn /\ row.turn = Turn /\ row.request \in {0, request_id}

IdleRow ==
    /\ SameRun /\ row.turn = 0
    /\ history /\ ~row.bound => summary = NoActivity /\ request_id = 0 /\ last_response = NoResponse

BetweenRow == IdleRow /\ row.turns = 1..Turn /\ row.request = request_id

LEMMA TurnRowHolds == LiveInv /\ pc \in Turning => TurnRow
  BY DEF LiveInv, RunInv, TurnInv, TurnRow, SameRun, Turning, Requesting, Tooling

LEMMA TurnRowSuffices ==
    /\ TurnRow /\ pc \in Turning
    /\ pc = "provider_event" => row.provider_sequence < provider_sequence
    => RunInv /\ TurnInv
  <1> SUFFICES ASSUME TurnRow, pc \in Turning,
                      pc = "provider_event" => row.provider_sequence < provider_sequence
               PROVE  RunInv /\ TurnInv
    OBVIOUS
  <1>1. pc \notin {"run_started", "open", "bind", "final_result", "turn_started"}
    BY DEF Turning, Requesting, Tooling
  <1>2. RunInv
    BY <1>1 DEF RunInv, TurnRow, SameRun
  <1>3. TurnInv
    BY <1>1 DEF TurnInv, TurnRow, SameRun
  <1> QED
    BY <1>2, <1>3

LEMMA BetweenRowHolds ==
    LiveInv /\ pc \in {"open", "bind", "install", "run_finished"} => BetweenRow
  BY DEF LiveInv, RunInv, TurnInv, BetweenRow, IdleRow, SameRun, Turning, Requesting, Tooling

LEMMA BetweenRowSuffices ==
    /\ BetweenRow /\ pc \in {"open", "bind", "install", "run_finished"}
    /\ pc = "bind" => history
    /\ pc \in {"open", "bind"} => ~row.bound
    /\ pc = "install" /\ history => row.bound
    => RunInv /\ TurnInv
  <1> SUFFICES ASSUME BetweenRow, pc \in {"open", "bind", "install", "run_finished"},
                      pc = "bind" => history,
                      pc \in {"open", "bind"} => ~row.bound,
                      pc = "install" /\ history => row.bound
               PROVE  RunInv /\ TurnInv
    OBVIOUS
  <1>1. pc \notin Turning /\ pc # "turn_started"
    BY DEF Turning, Requesting, Tooling
  <1>2. RunInv
    BY <1>1 DEF RunInv, BetweenRow, IdleRow, SameRun
  <1>3. TurnInv
    BY <1>1 DEF TurnInv, BetweenRow, IdleRow, SameRun
  <1> QED
    BY <1>2, <1>3

LEMMA BeginRowSuffices ==
    /\ IdleRow /\ pc = "turn_started" /\ row.turns = 1..(Turn - 1) /\ (history => row.bound)
    => RunInv /\ TurnInv
  <1> SUFFICES ASSUME IdleRow, pc = "turn_started", row.turns = 1..(Turn - 1), history => row.bound
               PROVE  RunInv /\ TurnInv
    OBVIOUS
  <1>1. pc \notin Turning
    BY DEF Turning, Requesting, Tooling
  <1>2. RunInv
    BY <1>1 DEF RunInv, IdleRow, SameRun
  <1>3. TurnInv
    BY <1>1 DEF TurnInv, IdleRow, SameRun
  <1> QED
    BY <1>2, <1>3

\* The same of the next state.
LEMMA TurnRowNext ==
    ASSUME TurnRow', pc' \in Turning,
           pc' = "provider_event" => row'.provider_sequence < provider_sequence'
    PROVE  RunInv' /\ TurnInv'
  <1>1. (/\ TurnRow /\ pc \in Turning
         /\ pc = "provider_event" => row.provider_sequence < provider_sequence
         => RunInv /\ TurnInv)'
    BY TurnRowSuffices, PTL
  <1> QED
    BY <1>1

LEMMA BetweenRowNext ==
    ASSUME BetweenRow', pc' \in {"open", "bind", "install", "run_finished"},
           pc' = "bind" => history', pc' \in {"open", "bind"} => ~row'.bound,
           pc' = "install" /\ history' => row'.bound
    PROVE  RunInv' /\ TurnInv'
  <1>1. (/\ BetweenRow /\ pc \in {"open", "bind", "install", "run_finished"}
         /\ pc = "bind" => history
         /\ pc \in {"open", "bind"} => ~row.bound
         /\ pc = "install" /\ history => row.bound
         => RunInv /\ TurnInv)'
    BY BetweenRowSuffices, PTL
  <1> QED
    BY <1>1

LEMMA BeginRowNext ==
    ASSUME IdleRow', pc' = "turn_started", row'.turns = 1..(Turn' - 1), history' => row'.bound
    PROVE  RunInv' /\ TurnInv'
  <1>1. (/\ IdleRow /\ pc = "turn_started" /\ row.turns = 1..(Turn - 1) /\ (history => row.bound)
         => RunInv /\ TurnInv)'
    BY BeginRowSuffices, PTL
  <1> QED
    BY <1>1

-----------------------------------------------------------------------------
LEMMA CacheKept ==
    ASSUME LiveInv, KeepsTools(row, row'), cache' = cache, pc # "tool_result",
           ~Dead' => pc # "execute" /\ ~Dead
    PROVE  CacheInv'
  BY DEF LiveInv, CacheInv, KeepsTools, SavedAs

LEMMA OutOfBatch ==
    ASSUME pc' \notin Tooling
    PROVE  BatchInv' /\ HeadInv'
  BY DEF BatchInv, HeadInv, Tooling

LEMMA EndRunStep ==
    ASSUME LiveInv, NEW end \in {"completed", "cancelled", "failed"}, EndRun(end),
           KeepsTools(row, row'), cache' = cache, pc \notin Tooling,
           end = "completed" => ~Dead
    PROVE  StageInv' /\ CacheInv' /\ BatchInv' /\ HeadInv' /\ WireInv'
  <1>1. pc' = "run_finished" /\ stop' = end
    BY DEF EndRun
  <1>2. /\ pc' \notin Turning /\ pc' \notin Starting /\ pc' \notin Requesting /\ pc' \notin Tooling
        /\ pc' \in Closing
    BY <1>1 DEF Turning, Starting, Requesting, Tooling, Closing
  <1>3. StageInv'
    BY <1>1, <1>2 DEF StageInv, Closing
  <1>4. Dead' <=> end \in {"cancelled", "failed"}
    BY <1>1, <1>2 DEF Dead
  <1>5. CacheInv'
    BY <1>4, CacheKept DEF Tooling
  <1>6. BatchInv' /\ HeadInv'
    BY <1>2, OutOfBatch
  <1>7. WireInv'
    BY <1>1, <1>2 DEF WireInv, EndRun, LiveInv
  <1> QED
    BY <1>3, <1>5, <1>6, <1>7

LEMMA EndTurnStep ==
    ASSUME LiveInv, NEW s, IsSummary(s), s.turns_started = Turn,
           NEW end \in {"completed", "cancelled", "failed"}, EndTurn(s, end),
           pc \in {"turn_started"} \cup Turning, session_id' = session_id
    PROVE  /\ IsSummary(summary') /\ Turn' = Turn /\ pc' \in Turning
           /\ StageInv' /\ BatchInv' /\ HeadInv' /\ WireInv'
  <1>1. pc' = "turn_finished" /\ stop' = end
    BY DEF EndTurn
  <1>2. /\ pc' \in Turning /\ pc' \notin Starting /\ pc' \notin Requesting /\ pc' \notin Tooling
        /\ pc' \notin Closing
    BY <1>1 DEF Turning, Starting, Requesting, Tooling, Closing
  <1>3. IsSummary(summary') /\ summary'.turns_started = s.turns_started
    BY SMT DEF EndTurn, IsSummary, SummaryFields
  <1>4. Turn' = Turn
    BY <1>3 DEF Turn
  <1>5. Turn # 0 /\ session_id
    BY DEF LiveInv, StageInv
  <1>6. StageInv'
    BY <1>1, <1>2, <1>4, <1>5 DEF StageInv
  <1>7. BatchInv' /\ HeadInv'
    BY <1>2, OutOfBatch
  <1>8. WireInv'
    BY <1>1, <1>2 DEF WireInv, EndTurn
  <1> QED
    BY <1>2, <1>3, <1>4, <1>6, <1>7, <1>8

LEMMA SummaryBegins ==
    ASSUME NEW s, IsSummary(s)
    PROVE  LET next == [s EXCEPT !.turns_started = @ + 1, !.last_upstream_outcome = "NotSubmitted"] IN
           /\ IsSummary(next) /\ next.turns_started = s.turns_started + 1
           /\ s.turns_started \in Nat
  BY SMT DEF IsSummary, SummaryFields

\* The results of a turn are the answers to all calls of its response.
AllAnswered ==
    /\ wire[Len(wire)].response = last_response
    /\ last_response.calls # <<>> /\ Len(results) = Len(last_response.calls)
    /\ \A i \in DOMAIN results : AnsweredAt(i)

LEMMA BeginTurnStep ==
    ASSUME Typed, LiveInv, BeginTurn, ~cancelled,
           session_id', last_response' = last_response, cache' = cache, KeepsTools(row, row'),
           pc \notin Tooling, ~Dead,
           SameRun', row'.turn = 0, row'.turns = 1..Turn, history' => row'.bound,
           Len(wire) = Turn, Turn # 0 => AllAnswered
    PROVE  IsSummary(summary') /\ request_id' \in Nat /\ LiveInv'
  <1>1. /\ pc' = "turn_started" /\ stop' = "none" /\ request_id' = 0
        /\ UNCHANGED <<batch, results, wire, effects>>
        /\ summary' = [summary EXCEPT !.turns_started = @ + 1,
                                      !.last_upstream_outcome = "NotSubmitted"]
    BY DEF BeginTurn, FirstRequest
  <1>2. /\ IsSummary(summary') /\ Turn' = Turn + 1 /\ Turn \in Nat
    BY <1>1, SummaryBegins DEF Typed, Turn
  <1>3. Turn' # 0 /\ Turn' - 1 = Turn /\ (Turn' > 1 => Turn # 0)
    BY <1>2, SMT
  <1>4. /\ pc' \notin Turning /\ pc' \notin Starting /\ pc' \notin Requesting /\ pc' \notin Tooling
        /\ pc' \notin Closing
    BY <1>1 DEF Turning, Starting, Requesting, Tooling, Closing
  <1>5. StageInv'
    BY <1>1, <1>3, <1>4 DEF StageInv
  <1>6. IdleRow'
    BY DEF IdleRow
  <1>7. RunInv' /\ TurnInv'
    BY <1>1, <1>3, <1>6, BeginRowNext
  <1>8. CacheInv'
    BY CacheKept DEF Tooling
  <1>9. BatchInv' /\ HeadInv'
    BY <1>4, OutOfBatch
  <1>10. WireInv'
    <2>1. Turn # 0 => AllAnswered'
      BY <1>1 DEF AllAnswered, AnsweredAt, KeepsTools
    <2>2. batch' = <<>>
      BY <1>1 DEF LiveInv, WireInv
    <2>3. Len(results') + Len(batch') = Len(results')
      BY <1>1, <2>2, SMT DEF Typed
    <2> QED
      BY <1>1, <1>3, <1>4, <2>1, <2>2, <2>3 DEF WireInv, AllAnswered
  <1> QED
    BY <1>1, <1>2, <1>5, <1>7, <1>8, <1>9, <1>10, SMT DEF LiveInv

-----------------------------------------------------------------------------
(***************************************************************************)
(* run_admitted                                                            *)
(***************************************************************************)

\* What a saved runtime event leaves in the controller and in the row.
EventIsSaved ==
    /\ sequence' = sequence + 1 /\ sequence' \in Nat /\ row'.last_runtime_sequence = sequence'
    /\ history' = history /\ cancelled' = cancelled
    /\ row'.session = session_id /\ row'.selected = row.selected /\ row'.bound = row.bound
    /\ row'.result_sequence = row.result_sequence

LEMMA SavedEvent ==
    ASSUME Typed, NEW type \in RuntimeTypes, NEW turn, NEW stage, Saved(stage),
           Says(type, turn), NotedIn(row, Record, row')
    PROVE  EventIsSaved
  <1>1. sequence' = sequence + 1 /\ history' = history /\ cancelled' = cancelled
    BY DEF Saved, Says
  <1>2. sequence' \in Nat
    BY <1>1, SMT DEF Typed
  <1> QED
    BY <1>1, <1>2 DEF Says, NotedIn, KeepsRun, EventIsSaved

LEMMA RunStartedStep ==
    ASSUME Typed, LiveInv, RunStarted
    PROVE  Typed' /\ LiveInv'
  <1>1. pc = "run_started" /\ Saved("run_started") /\ Committed
    BY DEF RunStarted, Saved
  <1>2. IsRow(row)
    BY DEF Typed
  <1>3. /\ NotedIn(row, Record, row') /\ Says("RunStarted", 0)
        /\ KeepsTools(row, row') /\ KeepsTurn(row, row') /\ row'.state = "running"
    BY <1>1, <1>2, CommittedRunStarted
  <1>4. EventIsSaved
    BY <1>1, <1>3, SavedEvent DEF RuntimeTypes
  <1>5. /\ UNCHANGED <<request_id, summary, collector, batch, results, wire, effects>>
        /\ UNCHANGED <<session_id, last_response, provider_sequence, event, cache>>
    BY DEF RunStarted, EndRun
  <1>6. Typed'
    BY <1>1, <1>4, <1>5, StoreStep DEF Typed, StoreKept, EventIsSaved, Appending
  <1>7. Turn' = Turn /\ row.turn = 0 /\ row.turns = 1..Turn /\ row.request = request_id
    BY <1>1, <1>5 DEF Turn, LiveInv, TurnInv, Turning, Requesting, Tooling
  <1>8. BetweenRow'
    BY <1>1, <1>3, <1>4, <1>5, <1>7
    DEF BetweenRow, IdleRow, SameRun, EventIsSaved, KeepsTurn, LiveInv, RunInv, TurnInv
  <1>9. ~row'.bound
    BY <1>1, <1>4 DEF LiveInv, RunInv, EventIsSaved
  <1>10. pc' \in {"open", "run_finished"}
    BY DEF RunStarted, EndRun
  <1>11. RunInv' /\ TurnInv'
    BY <1>8, <1>9, <1>10, BetweenRowNext
  <1>12. CASE cancelled
    <2>1. EndRun("cancelled")
      BY <1>12 DEF RunStarted
    <2> QED
      BY <1>1, <1>3, <1>5, <1>6, <1>11, <2>1, EndRunStep DEF LiveInv, Tooling
  <1>13. CASE ~cancelled
    <2>1. pc' = "open"
      BY <1>13 DEF RunStarted
    <2>2. /\ pc' \notin Turning /\ pc' \in Starting /\ pc' \notin Requesting /\ pc' \notin Tooling
          /\ pc' \notin Closing
      BY <2>1 DEF Turning, Starting, Requesting, Tooling, Closing
    <2>3. Turn = 0 /\ ~session_id /\ sequence = 0 /\ wire = <<>>
      BY <1>1 DEF LiveInv, StageInv, WireInv, Starting
    <2>4. StageInv'
      <3>1. sequence' = 1
        BY <2>3, <1>4, SMT DEF EventIsSaved
      <3> QED
        BY <1>5, <1>7, <2>1, <2>2, <2>3, <3>1 DEF StageInv
    <2>5. CacheInv'
      BY <1>1, <1>3, <1>5, CacheKept DEF Dead, Closing
    <2>6. BatchInv' /\ HeadInv'
      BY <2>2, OutOfBatch
    <2>7. WireInv'
      BY <1>1, <1>5, <2>1, <2>2, <2>3 DEF WireInv, LiveInv, Tooling
    <2> QED
      BY <1>6, <1>11, <2>4, <2>5, <2>6, <2>7 DEF LiveInv
  <1> QED
    BY <1>12, <1>13

\* What a step without the store leaves alone.
NoStore == UNCHANGED <<history, sequence, cache, cancelled, row, log>>

LEMMA NoStoreKeeps ==
    ASSUME NoStore
    PROVE  KeepsTools(row, row') /\ KeepsTurn(row, row') /\ KeepsRun(row, row')
  BY DEF NoStore, KeepsTools, KeepsTurn, KeepsRun

\* The run ends at a stage before the first turn, without a record.
LEMMA StartEnds ==
    ASSUME Typed, LiveInv, pc \in {"open", "install"}, NEW end \in {"cancelled", "failed"},
           EndRun(end), NoStore, session_id => session_id', session_id' \in BOOLEAN,
           UNCHANGED <<last_response, provider_sequence, event>>
    PROVE  Typed' /\ LiveInv'
  <1>1. UNCHANGED <<request_id, summary, batch, results, wire, effects>> /\ pc' = "run_finished"
    BY DEF EndRun
  <1>2. Typed'
    BY <1>1 DEF Typed, NoStore
  <1>3. BetweenRow
    BY BetweenRowHolds
  <1>4. Turn' = Turn
    BY <1>1 DEF Turn
  <1>5. BetweenRow'
    BY <1>1, <1>3, <1>4 DEF BetweenRow, IdleRow, SameRun, NoStore
  <1>6. RunInv' /\ TurnInv'
    BY <1>1, <1>5, BetweenRowNext
  <1>7. StageInv' /\ CacheInv' /\ BatchInv' /\ HeadInv' /\ WireInv'
    BY EndRunStep, NoStoreKeeps DEF NoStore, Tooling
  <1> QED
    BY <1>2, <1>6, <1>7 DEF LiveInv

LEMMA OpenFailsStep ==
    ASSUME Typed, LiveInv, OpenFails
    PROVE  Typed' /\ LiveInv'
  <1>1. /\ pc = "open" /\ EndRun("failed") /\ NoStore /\ session_id' = session_id
        /\ UNCHANGED <<last_response, provider_sequence, event>>
    BY DEF OpenFails, NoStore
  <1>2. session_id' \in BOOLEAN
    BY <1>1 DEF Typed
  <1> QED
    BY <1>1, <1>2, StartEnds

\* The first turn of a run begins.
LEMMA FirstTurn ==
    ASSUME Typed, LiveInv, pc \in {"open", "install"}, ~cancelled, BeginTurn, NoStore, session_id' = TRUE,
           history => row.bound, UNCHANGED <<last_response, provider_sequence, event>>
    PROVE  Typed' /\ LiveInv'
  <1>1. Turn = 0 /\ wire = <<>> /\ ~Dead
    BY DEF LiveInv, StageInv, WireInv, Starting, Dead, Closing
  <1>2. Len(wire) = Turn
    BY <1>1, SMT
  <1>3. BetweenRow
    BY BetweenRowHolds
  <1>4. SameRun' /\ row'.turn = 0 /\ row'.turns = 1..Turn /\ (history' => row'.bound)
    BY <1>3 DEF BetweenRow, IdleRow, SameRun, NoStore
  <1>5. IsSummary(summary') /\ request_id' \in Nat /\ LiveInv'
    BY <1>1, <1>2, <1>4, BeginTurnStep, NoStoreKeeps DEF NoStore, Tooling
  <1>6. UNCHANGED <<batch, results, wire, effects>>
    BY DEF BeginTurn
  <1>7. Typed'
    BY <1>5, <1>6 DEF Typed, NoStore
  <1> QED
    BY <1>5, <1>7

LEMMA OpenedStep ==
    ASSUME Typed, LiveInv, Opened
    PROVE  Typed' /\ LiveInv'
  <1>1. /\ pc = "open" /\ ~cancelled /\ NoStore /\ session_id' = TRUE
        /\ UNCHANGED <<last_response, provider_sequence, event>>
    BY DEF Opened, NoStore
  <1>2. CASE ~history /\ BeginTurn
    BY <1>1, <1>2, FirstTurn
  <1>3. CASE history /\ EndRun("failed")
    BY <1>1, <1>3, StartEnds
  <1>4. CASE /\ history /\ pc' = "bind"
             /\ UNCHANGED <<stop, request_id, summary, collector, batch, results, wire, effects>>
    <2>1. Typed'
      BY <1>1, <1>4 DEF Typed, NoStore
    <2>2. BetweenRow /\ ~row.bound
      BY <1>1, BetweenRowHolds DEF LiveInv, RunInv
    <2>3. Turn' = Turn
      BY <1>4 DEF Turn
    <2>4. BetweenRow'
      BY <1>1, <1>4, <2>2, <2>3 DEF BetweenRow, IdleRow, SameRun, NoStore
    <2>5. RunInv' /\ TurnInv'
      BY <1>1, <1>4, <2>2, <2>4, BetweenRowNext DEF NoStore
    <2>6. /\ pc' \notin Turning /\ pc' \in Starting /\ pc' \notin Requesting /\ pc' \notin Tooling
          /\ pc' \notin Closing
      BY <1>4 DEF Turning, Starting, Requesting, Tooling, Closing
    <2>7. Turn = 0 /\ sequence = 1 /\ wire = <<>>
      BY <1>1 DEF LiveInv, StageInv, WireInv, Starting
    <2>8. StageInv'
      BY <1>1, <1>4, <2>3, <2>6, <2>7 DEF StageInv, NoStore
    <2>9. CacheInv'
      BY <1>1, <1>4, NoStoreKeeps, CacheKept DEF Dead, Closing, NoStore
    <2>10. BatchInv' /\ HeadInv'
      BY <2>6, OutOfBatch
    <2>11. WireInv'
      BY <1>1, <1>4, <2>6, <2>7 DEF WireInv, LiveInv, Tooling
    <2> QED
      BY <2>1, <2>5, <2>8, <2>9, <2>10, <2>11 DEF LiveInv
  <1> QED
    BY <1>2, <1>3, <1>4 DEF Opened

LEMMA InstalledStep ==
    ASSUME Typed, LiveInv, Installed
    PROVE  Typed' /\ LiveInv'
  <1>1. /\ pc = "install" /\ ~cancelled /\ NoStore /\ session_id' = session_id /\ session_id
        /\ UNCHANGED <<last_response, provider_sequence, event>> /\ (history => row.bound)
    BY DEF Installed, NoStore, LiveInv, StageInv, RunInv
  <1>2. session_id' = TRUE /\ session_id' \in BOOLEAN
    BY <1>1 DEF Typed
  <1>3. CASE BeginTurn
    BY <1>1, <1>2, <1>3, FirstTurn
  <1>4. CASE EndRun("failed")
    BY <1>1, <1>2, <1>4, StartEnds
  <1> QED
    BY <1>3, <1>4 DEF Installed

LEMMA BoundStep ==
    ASSUME Typed, LiveInv, Bound
    PROVE  Typed' /\ LiveInv'
  <1>1. /\ pc = "bind" /\ Saved("bind") /\ Committed
        /\ UNCHANGED <<session_id, last_response, provider_sequence, event, cache>>
    BY DEF Bound, Saved
  <1>2. /\ IsRow(row') /\ KeepsTools(row, row') /\ KeepsTurn(row, row')
        /\ row'.selected = row.selected /\ row'.bound = TRUE /\ row'.session = TRUE
        /\ row'.state = row.state /\ row'.result_sequence = row.result_sequence
        /\ row'.last_runtime_sequence = row.last_runtime_sequence
        /\ Record.type = "ProviderBinding"
    BY <1>1, CommittedBinding DEF Typed
  <1>3. sequence' = sequence /\ history' = history /\ cancelled' = cancelled
    <2>1. sequence' = sequence + 0
      BY <1>1, <1>2 DEF Saved, RuntimeTypes
    <2>2. sequence' = sequence
      BY <2>1, SMT DEF Typed
    <2> QED
      BY <1>1, <2>2 DEF Saved
  <1>4. UNCHANGED <<request_id, summary, collector, batch, results, wire, effects>>
    BY DEF Bound, EndRun
  <1>5. Typed'
    BY <1>1, <1>3, <1>4, StoreStep DEF Typed, StoreKept, Appending
  <1>6. BetweenRow
    BY <1>1, BetweenRowHolds
  <1>7. Turn' = Turn /\ session_id /\ Turn = 0 /\ wire = <<>>
    BY <1>1, <1>4 DEF Turn, LiveInv, StageInv, WireInv, Starting
  <1>8. BetweenRow'
    BY <1>1, <1>2, <1>3, <1>4, <1>6, <1>7 DEF BetweenRow, IdleRow, SameRun, KeepsTurn
  <1>9. pc' \in {"install", "run_finished"}
    BY DEF Bound, EndRun
  <1>10. RunInv' /\ TurnInv'
    BY <1>2, <1>8, <1>9, BetweenRowNext
  <1>11. CASE EndRun("failed") \/ EndRun("cancelled")
    <2>1. StageInv' /\ CacheInv' /\ BatchInv' /\ HeadInv' /\ WireInv'
      BY <1>1, <1>2, <1>11, EndRunStep DEF Tooling
    <2> QED
      BY <1>5, <1>10, <2>1 DEF LiveInv
  <1>12. CASE pc' = "install"
    <2>1. /\ pc' \notin Turning /\ pc' \in Starting /\ pc' \notin Requesting /\ pc' \notin Tooling
          /\ pc' \notin Closing
      BY <1>12 DEF Turning, Starting, Requesting, Tooling, Closing
    <2>2. StageInv'
      BY <1>1, <1>7, <1>12, <2>1 DEF StageInv
    <2>3. CacheInv'
      BY <1>1, <1>2, <1>12, CacheKept DEF Dead, Closing
    <2>4. BatchInv' /\ HeadInv'
      BY <2>1, OutOfBatch
    <2>5. WireInv'
      BY <1>1, <1>4, <1>7, <1>12, <2>1 DEF WireInv, LiveInv, Tooling
    <2> QED
      BY <1>5, <1>10, <2>2, <2>3, <2>4, <2>5 DEF LiveInv
  <1> QED
    BY <1>11, <1>12 DEF Bound

LEMMA RunFinishedStep ==
    ASSUME Typed, LiveInv, RunFinished
    PROVE  Typed' /\ LiveInv'
  <1>1. /\ pc = "run_finished" /\ Saved("run_finished") /\ Committed /\ pc' = "final_result"
        /\ UNCHANGED <<session_id, request_id, summary, last_response, provider_sequence, stop,
                       batch, results, cache, wire, effects>>
    BY DEF RunFinished, Saved, turnVars, scope
  <1>2. /\ NotedIn(row, Record, row') /\ Says("RunFinished", 0)
        /\ KeepsTools(row, row') /\ KeepsTurn(row, row') /\ row'.state = stop
    BY <1>1, CommittedRunFinished DEF Typed
  <1>3. EventIsSaved
    BY <1>1, <1>2, SavedEvent DEF RuntimeTypes
  <1>4. Typed'
    BY <1>1, <1>3, StoreStep DEF Typed, StoreKept, EventIsSaved, Appending
  <1>5. BetweenRow
    BY <1>1, BetweenRowHolds
  <1>6. Turn' = Turn
    BY <1>1 DEF Turn
  <1>7. /\ pc' \notin Turning /\ pc' \notin Starting /\ pc' \notin Requesting /\ pc' \notin Tooling
        /\ pc' \in Closing
    BY <1>1 DEF Turning, Starting, Requesting, Tooling, Closing
  <1>8. StageInv'
    BY <1>1, <1>7 DEF LiveInv, StageInv, Closing
  <1>9. RunInv'
    BY <1>1, <1>2, <1>3, <1>5, <1>7 DEF RunInv, BetweenRow, IdleRow, SameRun, EventIsSaved
  <1>10. TurnInv'
    BY <1>1, <1>2, <1>5, <1>6, <1>7 DEF TurnInv, BetweenRow, IdleRow, SameRun, KeepsTurn
  <1>11. CacheInv'
    BY <1>1, <1>2, CacheKept DEF Dead, Closing
  <1>12. BatchInv' /\ HeadInv'
    BY <1>7, OutOfBatch
  <1>13. WireInv'
    BY <1>1, <1>7 DEF WireInv, LiveInv, Tooling
  <1> QED
    BY <1>4, <1>8, <1>9, <1>10, <1>11, <1>12, <1>13 DEF LiveInv

LEMMA FinalResultStep ==
    ASSUME Typed, LiveInv, FinalResult
    PROVE  Typed' /\ pc' = "done"
  <1>1. /\ pc = "final_result" /\ Saved("final_result") /\ Committed /\ pc' = "done"
        /\ UNCHANGED <<session_id, request_id, summary, last_response, provider_sequence, stop,
                       batch, results, cache, wire, effects>>
    BY DEF FinalResult, Saved, turnVars, scope
  <1>2. sequence' \in Nat /\ history' = history /\ cancelled' = cancelled
    <2>1. sequence' = sequence + 1 \/ sequence' = sequence + 0
      BY <1>1 DEF Saved
    <2>2. sequence' \in Nat
      BY <2>1, SMT DEF Typed
    <2> QED
      BY <1>1, <2>2 DEF Saved
  <1> QED
    BY <1>1, <1>2, StoreStep DEF Typed, StoreKept, Appending

-----------------------------------------------------------------------------
(***************************************************************************)
(* drive and collect_response                                              *)
(***************************************************************************)

LEMMA TurnStartedStep ==
    ASSUME Typed, LiveInv, TurnStarted
    PROVE  Typed' /\ LiveInv'
  <1>1. /\ pc = "turn_started" /\ Saved("turn_started") /\ Committed
        /\ UNCHANGED <<session_id, last_response, provider_sequence, event, cache>>
    BY DEF TurnStarted, Saved
  <1>2. /\ NotedIn(row, Record, row') /\ Says("TurnStarted", Turn)
        /\ KeepsTools(row, row') /\ row'.state = row.state
        /\ row'.turn = Turn /\ row'.turns = row.turns \cup {Turn} /\ row'.request = 0
        /\ row'.provider_sequence = row.provider_sequence
    BY <1>1, CommittedTurnStarted DEF Typed
  <1>3. EventIsSaved
    BY <1>1, <1>2, SavedEvent DEF RuntimeTypes
  <1>4. /\ request_id' = request_id /\ request_id = 0 /\ effects' = effects
    BY <1>1 DEF TurnStarted, EndTurn, LiveInv, StageInv
  <1>5. Turn # 0 /\ Turn \in Nat /\ row.turns = 1..(Turn - 1) /\ session_id
    BY <1>1 DEF LiveInv, StageInv, TurnInv, Typed, IsSummary, Turn
  <1>6. row'.turns = 1..Turn
    BY <1>2, <1>5, SMT
  <1>7. Turn' = Turn => TurnRow'
    BY <1>1, <1>2, <1>3, <1>4, <1>5, <1>6
    DEF TurnRow, SameRun, EventIsSaved, LiveInv, RunInv, TurnInv
  <1>8. CASE cancelled
    <2>1. EndTurn(summary, "cancelled")
      BY <1>8 DEF TurnStarted
    <2>2. summary.turns_started = Turn /\ IsSummary(summary)
      BY DEF Turn, Typed
    <2>3. /\ IsSummary(summary') /\ Turn' = Turn /\ pc' \in Turning
          /\ StageInv' /\ BatchInv' /\ HeadInv' /\ WireInv'
      BY <1>1, <2>1, <2>2, EndTurnStep
    <2>4. pc' = "turn_finished" /\ stop' = "cancelled" /\ batch' = <<>> /\ UNCHANGED <<results, wire>>
      BY <2>1 DEF EndTurn
    <2>5. Dead'
      BY <2>4 DEF Dead
    <2>6. CacheInv'
      BY <1>1, <1>2, <2>5, CacheKept
    <2>7. RunInv' /\ TurnInv'
      BY <1>7, <2>3, <2>4, TurnRowNext
    <2>8. batch' \in Seq(Calls)
      BY <2>4, SMT
    <2>9. Typed'
      BY <1>1, <1>3, <1>4, <2>3, <2>4, <2>8, StoreStep DEF Typed, StoreKept, EventIsSaved, Appending
    <2> QED
      BY <2>3, <2>6, <2>7, <2>9 DEF LiveInv
  <1>9. CASE ~cancelled
    <2>1. /\ pc' = "generate" /\ results' = <<>>
          /\ summary' = [summary EXCEPT !.model_requests_attempted = @ + 1,
                                        !.last_upstream_outcome = "Unknown"]
          /\ wire' = Append(wire, [input |-> results, response |-> NoResponse])
          /\ UNCHANGED <<stop, batch>>
      BY <1>9 DEF TurnStarted
    <2>2. IsSummary(summary') /\ Turn' = Turn
      BY <2>1, SMT DEF Typed, IsSummary, SummaryFields, Turn
    <2>3. /\ pc' \in Turning /\ pc' \notin Starting /\ pc' \notin Requesting /\ pc' \notin Tooling
          /\ pc' \notin Closing
      BY <2>1 DEF Turning, Starting, Requesting, Tooling, Closing
    <2>4. StageInv'
      BY <1>1, <1>4, <1>5, <2>1, <2>2, <2>3 DEF StageInv
    <2>5. RunInv' /\ TurnInv'
      BY <1>7, <2>1, <2>2, <2>3, TurnRowNext
    <2>6. CacheInv'
      BY <1>1, <1>2, <2>1, CacheKept DEF Dead, Closing
    <2>7. BatchInv' /\ HeadInv'
      BY <2>3, OutOfBatch
    <2>8. [input |-> results, response |-> NoResponse] \in Requests
      BY SMT DEF Typed, Requests, Answers
    <2>9. Len(wire) = Turn - 1
      BY <1>1 DEF LiveInv, WireInv
    <2>10. /\ wire' \in Seq(Requests) /\ Len(wire') = Turn /\ results' \in Seq(Results)
      BY <1>5, <2>1, <2>8, <2>9, SMT DEF Typed
    <2>11. batch' = <<>>
      BY <1>1, <2>1 DEF LiveInv, WireInv, Tooling
    <2>12. WireInv'
      BY <2>1, <2>2, <2>3, <2>10, <2>11 DEF WireInv
    <2>13. Typed'
      BY <1>1, <1>3, <1>4, <2>1, <2>2, <2>10, StoreStep DEF Typed, StoreKept, EventIsSaved, Appending
    <2> QED
      BY <2>4, <2>5, <2>6, <2>7, <2>12, <2>13 DEF LiveInv
  <1> QED
    BY <1>8, <1>9

\* The turn ends without a record and without a result.
LEMMA TurnEnds ==
    ASSUME Typed, LiveInv, pc \in {"generate", "collect", "execute"},
           NEW end \in {"cancelled", "failed"}, EndTurn(summary, end), NoStore,
           UNCHANGED <<session_id, last_response, provider_sequence, event>>
    PROVE  Typed' /\ LiveInv'
  <1>1. pc \in Turning /\ pc # "tool_result"
    BY DEF Turning, Requesting, Tooling
  <1>2. summary.turns_started = Turn /\ IsSummary(summary)
    BY DEF Turn, Typed
  <1>3. /\ IsSummary(summary') /\ Turn' = Turn /\ pc' \in Turning
        /\ StageInv' /\ BatchInv' /\ HeadInv' /\ WireInv'
    BY <1>1, <1>2, EndTurnStep
  <1>4. /\ pc' = "turn_finished" /\ stop' = end /\ batch' = <<>>
        /\ UNCHANGED <<request_id, results, wire, effects>>
    BY DEF EndTurn
  <1>5. CacheInv'
    BY <1>1, <1>4, NoStoreKeeps, CacheKept DEF Dead, NoStore
  <1>6. TurnRow'
    BY <1>1, <1>3, <1>4, TurnRowHolds DEF TurnRow, SameRun, NoStore
  <1>7. RunInv' /\ TurnInv'
    BY <1>3, <1>4, <1>6, TurnRowNext
  <1>8. batch' \in Seq(Calls)
    BY <1>4, SMT
  <1>9. Typed'
    BY <1>3, <1>4, <1>8 DEF Typed, NoStore
  <1> QED
    BY <1>3, <1>5, <1>7, <1>9 DEF LiveInv

LEMMA GenerateRejectedStep ==
    ASSUME Typed, LiveInv, GenerateRejected
    PROVE  Typed' /\ LiveInv'
  <1>1. /\ pc = "generate" /\ pc' = "turn_finished" /\ stop' = "failed"
        /\ summary' = [summary EXCEPT !.turns_finished = @ + 1,
                                      !.last_upstream_outcome = "NotSubmitted"]
        /\ wire' = SubSeq(wire, 1, Len(wire) - 1)
        /\ UNCHANGED <<session_id, request_id, last_response, provider_sequence, batch, results,
                       effects>>
        /\ NoStore
    BY DEF GenerateRejected, NoStore, scope
  <1>2. IsSummary(summary') /\ Turn' = Turn
    BY <1>1, SMT DEF Typed, IsSummary, SummaryFields, Turn
  <1>3. /\ pc' \in Turning /\ pc' \notin Starting /\ pc' \notin Requesting /\ pc' \notin Tooling
        /\ pc' \notin Closing
    BY <1>1 DEF Turning, Starting, Requesting, Tooling, Closing
  <1>4. Turn # 0 /\ session_id /\ pc \in Turning /\ pc \notin Tooling
    BY <1>1 DEF LiveInv, StageInv, Turning, Tooling
  <1>5. StageInv'
    BY <1>1, <1>2, <1>3, <1>4 DEF StageInv
  <1>6. TurnRow'
    BY <1>1, <1>2, <1>4, TurnRowHolds DEF TurnRow, SameRun, NoStore
  <1>7. RunInv' /\ TurnInv'
    BY <1>1, <1>3, <1>6, TurnRowNext
  <1>8. CacheInv'
    BY <1>1, NoStoreKeeps, CacheKept DEF Dead, NoStore
  <1>9. BatchInv' /\ HeadInv'
    BY <1>3, OutOfBatch
  <1>10. WireInv'
    BY <1>1, <1>3, <1>4 DEF WireInv, LiveInv
  <1>11. Len(wire) = Turn
    BY <1>1 DEF LiveInv, WireInv
  <1>12. wire' \in Seq(Requests)
    BY <1>1, SMT DEF Typed
  <1>13. Typed'
    BY <1>1, <1>2, <1>12 DEF Typed, NoStore
  <1> QED
    BY <1>5, <1>7, <1>8, <1>9, <1>10, <1>13 DEF LiveInv

LEMMA GeneratedStep ==
    ASSUME Typed, LiveInv, Generated
    PROVE  Typed' /\ LiveInv'
  <1>1. /\ pc = "generate" /\ NoStore
        /\ UNCHANGED <<session_id, last_response, provider_sequence, event>>
    BY DEF Generated, NoStore
  <1>2. CASE EndTurn(summary, "failed")
    BY <1>1, <1>2, TurnEnds
  <1>3. CASE /\ pc' = "collect" /\ request_id' = Turn
             /\ summary' = [summary EXCEPT !.model_requests_admitted = @ + 1,
                                           !.last_request_id = Turn]
             /\ UNCHANGED <<stop, collector, batch, results, wire, effects>>
    <2>1. IsSummary(summary') /\ Turn' = Turn /\ Turn \in Nat
      BY <1>3, SMT DEF Typed, IsSummary, SummaryFields, Turn
    <2>2. /\ pc' \in Turning /\ pc' \notin Starting /\ pc' \in Requesting /\ pc' \notin Tooling
          /\ pc' \notin Closing
      BY <1>3 DEF Turning, Starting, Requesting, Tooling, Closing
    <2>3. Turn # 0 /\ session_id /\ pc \in Turning /\ request_id = 0 /\ pc \notin Tooling
      BY <1>1 DEF LiveInv, StageInv, Turning, Tooling
    <2>4. StageInv'
      BY <1>1, <1>3, <2>1, <2>2, <2>3 DEF StageInv
    <2>5. TurnRow'
      BY <1>1, <1>3, <2>1, <2>3, TurnRowHolds DEF TurnRow, SameRun, NoStore
    <2>6. RunInv' /\ TurnInv'
      BY <1>3, <2>2, <2>5, TurnRowNext
    <2>7. CacheInv'
      BY <1>1, <1>3, NoStoreKeeps, CacheKept DEF Dead, NoStore, Closing
    <2>8. BatchInv' /\ HeadInv'
      BY <2>2, OutOfBatch
    <2>9. WireInv'
      BY <1>1, <1>3, <2>1, <2>2, <2>3 DEF WireInv, LiveInv
    <2>10. Typed'
      BY <1>1, <1>3, <2>1 DEF Typed, NoStore
    <2> QED
      BY <2>4, <2>6, <2>7, <2>8, <2>9, <2>10 DEF LiveInv
  <1> QED
    BY <1>2, <1>3 DEF Generated

LEMMA ProviderEofStep ==
    ASSUME Typed, LiveInv, ProviderEof
    PROVE  Typed' /\ LiveInv'
  BY TurnEnds DEF ProviderEof, NoStore

LEMMA RequestAnswered ==
    ASSUME NEW I, NEW R, NEW q \in [input : I, response : R], NEW r \in R
    PROVE  LET next == [q EXCEPT !.response = r] IN
           next \in [input : I, response : R] /\ next.response = r /\ next.input = q.input
  BY SMT

\* The requests once the one at n is answered.
Answer(w, n, r) == [w EXCEPT ![n].response = r]

LEMMA WireAnswered ==
    ASSUME NEW w \in Seq(Requests), NEW n \in 1..Len(w), NEW r \in Answers
    PROVE  LET v == Answer(w, n, r) IN
           /\ v \in Seq(Requests) /\ Len(v) = Len(w)
           /\ v[n].response = r /\ v[n].input = w[n].input
           /\ \A k \in 1..Len(w) : k # n => v[k] = w[k]
  <1>1. w[n] \in Requests
    BY SMT
  <1> DEFINE v == Answer(w, n, r)
             q == [w[n] EXCEPT !.response = r]
  <1>2. q \in Requests /\ q.response = r /\ q.input = w[n].input
    BY <1>1, RequestAnswered DEF Requests
  <1>3. v = [w EXCEPT ![n] = q]
    BY SMT DEF Answer
  <1> HIDE DEF q, v
  <1>4. v \in Seq(Requests) /\ Len(v) = Len(w) /\ v[n] = q /\ \A k \in 1..Len(w) : k # n => v[k] = w[k]
    BY <1>2, <1>3, SMT
  <1> QED
    BY <1>2, <1>4 DEF v

LEMMA ProviderSendsStep ==
    ASSUME Typed, LiveInv, NEW e \in ProviderEvents,
           NEW number \in {provider_sequence, provider_sequence + 1}, ProviderSends(e, number)
    PROVE  Typed' /\ LiveInv'
  <1>1. /\ pc = "collect" /\ UNCHANGED <<history, sequence, session_id, cache, cancelled, row, log>>
        /\ NoStore
    BY DEF ProviderSends, NoStore
  <1>2. CASE ~Observes(e, number)
    BY <1>1, <1>2, TurnEnds DEF ProviderSends
  <1>3. CASE Observes(e, number)
    <2>1. /\ pc' = "provider_event" /\ provider_sequence' = number /\ event' = e
          /\ summary' = [summary EXCEPT !.last_upstream_outcome =
                              CASE e.kind = "ResponseFinished" -> "TerminalReceived"
                                [] e.kind = "RequestFailed" -> e.upstream
                                [] OTHER -> @]
          /\ UNCHANGED <<stop, request_id, batch, results, effects>>
      BY <1>3 DEF ProviderSends
    <2>2. \/ /\ e.kind = "ResponseFinished"
             /\ last_response' = e.response /\ wire' = [wire EXCEPT ![Turn].response = e.response]
          \/ e.kind # "ResponseFinished" /\ UNCHANGED <<last_response, wire>>
      BY <1>3 DEF ProviderSends
    <2>3. IsSummary(summary') /\ Turn' = Turn
      BY <2>1, SMT DEF Typed, IsSummary, SummaryFields, Turn
    <2>4. /\ pc' \in Turning /\ pc' \notin Starting /\ pc' \in Requesting /\ pc' \notin Tooling
          /\ pc' \notin Closing
      BY <2>1 DEF Turning, Starting, Requesting, Tooling, Closing
    <2>5. /\ Turn # 0 /\ session_id /\ pc \in Turning /\ request_id = Turn /\ pc \notin Tooling
          /\ Len(wire) = Turn
      BY <1>1 DEF LiveInv, StageInv, WireInv, Turning, Requesting, Tooling
    <2>6. number \in Nat /\ number > provider_sequence
      BY <1>3, SMT DEF Observes, Typed
    <2>7. TurnRow
      BY <2>5, TurnRowHolds
    <2>8. row.provider_sequence <= number /\ row.provider_sequence < number
      BY <2>6, <2>7, SMT DEF TurnRow, SameRun, Typed
    <2>9. StageInv'
      BY <1>1, <2>1, <2>3, <2>4, <2>5 DEF StageInv
    <2>10. TurnRow'
      BY <1>1, <2>1, <2>3, <2>7, <2>8 DEF TurnRow, SameRun
    <2>11. RunInv' /\ TurnInv'
      BY <1>1, <2>1, <2>4, <2>8, <2>10, TurnRowNext
    <2>12. CacheInv'
      BY <1>1, <2>1, NoStoreKeeps, CacheKept DEF Dead, Closing
    <2>13. BatchInv' /\ HeadInv'
      BY <2>4, OutOfBatch
    <2>14. /\ last_response' \in Answers /\ wire' \in Seq(Requests) /\ Len(wire') = Turn
           /\ e.kind = "ResponseFinished" => wire'[Turn].response = last_response'
      <3>1. CASE e.kind # "ResponseFinished"
        BY <2>2, <2>5, <3>1 DEF Typed
      <3>2. CASE e.kind = "ResponseFinished"
        <4>1. e.response \in Answers
          BY <3>2, SMT DEF ProviderEvents, Answers
        <4>2. Turn \in 1..Len(wire) /\ wire \in Seq(Requests)
          BY <2>5, SMT DEF Typed, Turn, IsSummary
        <4>3. last_response' = e.response /\ wire' = Answer(wire, Turn, e.response)
          BY <2>2, <3>2 DEF Answer
        <4>4. /\ wire' \in Seq(Requests) /\ Len(wire') = Len(wire)
              /\ wire'[Turn].response = e.response
          BY <4>1, <4>2, <4>3, WireAnswered
        <4> QED
          BY <2>5, <4>1, <4>3, <4>4
      <3> QED
        BY <3>1, <3>2
    <2>15. results = <<>> /\ batch = <<>>
      BY <1>1, <2>5 DEF LiveInv, WireInv
    <2>16. WireInv'
      BY <2>1, <2>3, <2>4, <2>14, <2>15 DEF WireInv
    <2>17. Typed'
      BY <1>1, <2>1, <2>3, <2>6, <2>14 DEF Typed
    <2> QED
      BY <2>9, <2>11, <2>12, <2>13, <2>16, <2>17 DEF LiveInv
  <1> QED
    BY <1>2, <1>3

LEMMA TurnFinishedStep ==
    ASSUME Typed, LiveInv, TurnFinished
    PROVE  Typed' /\ LiveInv'
  <1>1. /\ pc = "turn_finished" /\ Saved("turn_finished") /\ Committed
        /\ UNCHANGED <<session_id, last_response, provider_sequence, event, cache>>
    BY DEF TurnFinished, Saved
  <1>2. /\ NotedIn(row, Record, row') /\ Says("TurnFinished", Turn)
        /\ KeepsTools(row, row') /\ row'.state = row.state
        /\ row'.turn = 0 /\ row'.turns = row.turns /\ row'.request = request_id
        /\ row'.provider_sequence = row.provider_sequence
    BY <1>1, CommittedTurnFinished DEF Typed
  <1>3. EventIsSaved
    BY <1>1, <1>2, SavedEvent DEF RuntimeTypes
  <1>4. pc \in Turning /\ pc \notin Tooling /\ session_id
    BY <1>1 DEF Turning, Tooling, LiveInv, StageInv
  <1>5. TurnRow
    BY <1>4, TurnRowHolds
  <1>6. SameRun' /\ row'.turns = 1..Turn /\ (history' => row'.bound)
    BY <1>1, <1>2, <1>3, <1>4, <1>5 DEF TurnRow, SameRun, EventIsSaved
  <1>7. StoreKept
    BY <1>1, StoreStep DEF Appending
  <1>8. ASSUME NEW end \in {"completed", "cancelled", "failed"}, EndRun(end), end = "completed" => ~Dead
        PROVE  Typed' /\ LiveInv'
    <2>1. UNCHANGED <<request_id, summary, batch, results, wire, effects>> /\ pc' = "run_finished"
      BY <1>8 DEF EndRun
    <2>2. Turn' = Turn
      BY <2>1 DEF Turn
    <2>3. BetweenRow'
      BY <1>2, <1>6, <2>1, <2>2 DEF BetweenRow, IdleRow
    <2>4. RunInv' /\ TurnInv'
      BY <2>1, <2>3, BetweenRowNext
    <2>5. StageInv' /\ CacheInv' /\ BatchInv' /\ HeadInv' /\ WireInv'
      BY <1>1, <1>2, <1>4, <1>8, EndRunStep
    <2>6. Typed'
      BY <1>1, <1>3, <1>7, <2>1 DEF Typed, EventIsSaved, StoreKept
    <2> QED
      BY <2>4, <2>5, <2>6 DEF LiveInv
  <1>9. CASE stop # "tools_prepared"
    <2>1. EndRun(stop) /\ stop \in {"completed", "cancelled", "failed"}
      BY <1>1, <1>9 DEF TurnFinished, LiveInv, StageInv
    <2>2. stop = "completed" => ~Dead
      BY DEF Dead
    <2> QED
      BY <1>8, <2>1, <2>2
  <1>10. CASE stop = "tools_prepared" /\ cancelled
    <2>1. EndRun("cancelled")
      BY <1>10 DEF TurnFinished, BeginTurn
    <2> QED
      BY <1>8, <2>1
  <1>11. CASE stop = "tools_prepared" /\ ~cancelled
    <2>1. BeginTurn /\ ~Dead
      BY <1>11 DEF TurnFinished, Dead
    <2>2. batch = <<>> /\ Len(wire) = Turn
      BY <1>1, <1>4, <1>11 DEF LiveInv, WireInv
    <2>3. Len(results) + Len(batch) = Len(results)
      BY <2>2, SMT DEF Typed
    <2>4. AllAnswered
      BY <1>1, <1>11, <2>3 DEF LiveInv, WireInv, AllAnswered
    <2>5. IsSummary(summary') /\ request_id' \in Nat /\ LiveInv'
      BY <1>1, <1>2, <1>4, <1>6, <1>11, <2>1, <2>2, <2>4, BeginTurnStep
    <2>6. UNCHANGED <<batch, results, wire, effects>>
      BY <1>11, <2>1 DEF BeginTurn
    <2>7. Typed'
      BY <1>1, <1>3, <1>7, <2>5, <2>6 DEF Typed, EventIsSaved, StoreKept
    <2> QED
      BY <2>5, <2>7
  <1> QED
    BY <1>9, <1>10, <1>11

-----------------------------------------------------------------------------
(***************************************************************************)
(* prepare_tools and PreparedBatch                                         *)
(***************************************************************************)

\* The turn ends with a record that leaves the calls alone.
LEMMA SavedTurnEnds ==
    ASSUME Typed, LiveInv, pc \in Turning, pc \notin Tooling, ~Dead,
           NEW end \in {"completed", "cancelled", "failed"}, EndTurn(summary, end),
           EventIsSaved, StoreKept, KeepsTools(row, row'), Turn' = Turn => TurnRow',
           UNCHANGED <<session_id, last_response, provider_sequence, cache>>
    PROVE  Typed' /\ LiveInv'
  <1>1. summary.turns_started = Turn /\ IsSummary(summary) /\ pc \notin {"tool_result", "execute"}
    BY DEF Turn, Typed, Tooling
  <1>2. /\ IsSummary(summary') /\ Turn' = Turn /\ pc' \in Turning
        /\ StageInv' /\ BatchInv' /\ HeadInv' /\ WireInv'
    BY <1>1, EndTurnStep
  <1>3. /\ pc' = "turn_finished" /\ batch' = <<>>
        /\ UNCHANGED <<request_id, results, wire, effects>>
    BY DEF EndTurn
  <1>4. CacheInv'
    BY <1>1, CacheKept
  <1>5. RunInv' /\ TurnInv'
    BY <1>2, <1>3, TurnRowNext
  <1>6. batch' \in Seq(Calls)
    BY <1>3, SMT
  <1>7. Typed'
    BY <1>2, <1>3, <1>6 DEF Typed, EventIsSaved, StoreKept
  <1> QED
    BY <1>2, <1>4, <1>5, <1>7 DEF LiveInv

LEMMA AnswerCalls ==
    ASSUME NEW r \in Answers
    PROVE  r.calls \in Seq(Calls)
  <1>1. CASE r \in Responses
    <2>1. r \in [outcome : {"completed", "other"}, supported : BOOLEAN, calls : Seq(Calls)]
      BY <1>1, ControllerAssumption DEF Calls
    <2> QED
      BY <2>1
  <1>2. CASE r = NoResponse
    <2>1. <<>> \in Seq(Calls)
      BY SMT
    <2> QED
      BY <1>2, <2>1 DEF NoResponse
  <1> QED
    BY <1>1, <1>2 DEF Answers

LEMMA EventSavedStep ==
    ASSUME Typed, LiveInv, EventSaved
    PROVE  Typed' /\ LiveInv'
  <1>1. /\ pc = "provider_event" /\ Saved("provider_event") /\ Committed
        /\ UNCHANGED <<session_id, last_response, provider_sequence, cache>>
    BY DEF EventSaved, Saved
  <1>2. /\ NotedIn(row, Record, row') /\ Says("ProviderEvent", Turn)
        /\ KeepsTools(row, row') /\ row'.state = row.state
        /\ row'.turn = row.turn /\ row'.turns = row.turns /\ row'.request = request_id
        /\ row'.provider_sequence = provider_sequence
    BY <1>1, CommittedProviderEvent DEF Typed
  <1>3. EventIsSaved
    BY <1>1, <1>2, SavedEvent DEF RuntimeTypes
  <1>4. /\ pc \in Turning /\ pc \notin Tooling /\ session_id /\ ~Dead /\ Turn # 0
        /\ request_id = Turn /\ Len(wire) = Turn /\ results = <<>> /\ batch = <<>>
    BY <1>1 DEF Turning, Requesting, Tooling, Dead, Closing, LiveInv, StageInv, WireInv
  <1>5. TurnRow
    BY <1>4, TurnRowHolds
  <1>6. Turn' = Turn /\ request_id' = request_id => TurnRow'
    <2>1. provider_sequence <= provider_sequence
      BY SMT DEF Typed
    <2> QED
      BY <1>1, <1>2, <1>3, <1>4, <1>5, <2>1 DEF TurnRow, SameRun, EventIsSaved
  <1>7. StoreKept
    BY <1>1, StoreStep DEF Appending
  <1>8. ASSUME NEW end \in {"completed", "cancelled", "failed"}, EndTurn(summary, end)
        PROVE  Typed' /\ LiveInv'
    <2>1. request_id' = request_id
      BY <1>8 DEF EndTurn
    <2> QED
      BY <1>1, <1>2, <1>3, <1>4, <1>6, <1>7, <1>8, <2>1, SavedTurnEnds
  <1>9. ASSUME pc' \in {"collect", "tool_start"}, UNCHANGED <<request_id, summary, results, wire, effects>>
        PROVE  /\ Turn' = Turn /\ StageInv' /\ RunInv' /\ TurnInv' /\ CacheInv'
               /\ batch' \in Seq(Calls) => Typed'
    <2>1. Turn' = Turn
      BY <1>9 DEF Turn
    <2>2. /\ pc' \in Turning /\ pc' \notin Starting /\ pc' \in Requesting
          /\ pc' \notin Closing
      BY <1>9 DEF Turning, Starting, Requesting, Tooling, Closing
    <2>3. StageInv'
      BY <1>1, <1>4, <1>9, <2>1, <2>2 DEF StageInv
    <2>4. RunInv' /\ TurnInv'
      BY <1>6, <1>9, <2>1, <2>2, TurnRowNext
    <2>5. CacheInv'
      BY <1>1, <1>2, <1>4, CacheKept
    <2>6. batch' \in Seq(Calls) => Typed'
      BY <1>1, <1>3, <1>7, <1>9 DEF Typed, EventIsSaved, StoreKept
    <2> QED
      BY <2>1, <2>3, <2>4, <2>5, <2>6
  <1>10. CASE /\ pc' = "collect"
              /\ UNCHANGED <<stop, request_id, summary, collector, batch, results, wire, effects>>
    <2>1. /\ pc' \notin Starting /\ pc' \notin Tooling
      BY <1>10 DEF Starting, Tooling
    <2>2. BatchInv' /\ HeadInv'
      BY <2>1, OutOfBatch
    <2>3. Turn' = Turn
      BY <1>9, <1>10
    <2>4. WireInv'
      BY <1>4, <1>10, <2>1, <2>3 DEF WireInv
    <2>5. batch' \in Seq(Calls)
      BY <1>10 DEF Typed
    <2> QED
      BY <1>9, <1>10, <2>2, <2>4, <2>5 DEF LiveInv
  <1>11. CASE /\ event.kind = "ResponseFinished" /\ pc' = "tool_start" /\ batch' = last_response.calls
              /\ last_response.calls # <<>> /\ preflight(last_response.calls)
              /\ UNCHANGED <<stop, request_id, summary, collector, results, wire, effects>>
    <2>1. /\ pc' \notin Starting /\ pc' \in Tooling /\ pc' \in Requesting
      BY <1>11 DEF Starting, Tooling, Requesting
    <2>2. last_response.calls \in Seq(Calls)
      BY AnswerCalls DEF Typed
    <2>3. BatchInv'
      BY <1>1, <1>11 DEF BatchInv, preflight
    <2>4. HeadInv'
      BY <1>11 DEF HeadInv
    <2>5. Turn' = Turn
      BY <1>9, <1>11
    <2>6. wire[Len(wire)].response = last_response
      BY <1>1, <1>11 DEF LiveInv, WireInv
    <2>7. /\ Len(results') + Len(batch') = Len(last_response.calls) /\ DOMAIN results' = {}
          /\ \A i \in DOMAIN batch' : batch'[i] = last_response.calls[Len(results') + i]
      BY <1>4, <1>11, <2>2, SMT
    <2>8. WireInv'
      BY <1>1, <1>4, <1>11, <2>1, <2>5, <2>6, <2>7 DEF WireInv
    <2> QED
      BY <1>9, <1>11, <2>2, <2>3, <2>4, <2>8 DEF LiveInv
  <1>12. CASE event.kind = "ResponseFinished"
    <2>1. PrepareTools
      BY <1>12 DEF EventSaved
    <2> QED
      BY <1>8, <1>11, <1>12, <2>1 DEF PrepareTools
  <1>13. CASE event.kind # "ResponseFinished"
    <2>1. \/ EndTurn(summary, "failed") \/ EndTurn(summary, "cancelled")
          \/ /\ pc' = "collect"
             /\ UNCHANGED <<stop, request_id, summary, collector, batch, results, wire, effects>>
      BY <1>13 DEF EventSaved
    <2> QED
      BY <1>8, <1>10, <2>1
  <1> QED
    BY <1>12, <1>13

\* The results so far stay answered.
LEMMA AnsweredKept ==
    ASSUME Typed, Grows(row.tools, row'.tools), last_response' = last_response,
           NEW i \in DOMAIN results, AnsweredAt(i), results'[i] = results[i]
    PROVE  AnsweredAt(i)'
  <1>1. results[i] \in Results
    BY SMT DEF Typed
  <1>2. results[i].call_id \in CallIds
    BY <1>1 DEF Results
  <1> QED
    BY <1>2 DEF AnsweredAt, Grows

\* The answer that a batch belongs to, and what is left of its calls.
BatchWire ==
    /\ Len(wire) = Turn /\ wire[Len(wire)].response = last_response
    /\ last_response.calls # <<>> /\ Len(results) + Len(batch) = Len(last_response.calls)
    /\ \A i \in DOMAIN results : AnsweredAt(i)
    /\ \A i \in DOMAIN batch : batch[i] = last_response.calls[Len(results) + i]

LEMMA BatchWireSuffices == pc \in Tooling /\ BatchWire => WireInv
  <1> SUFFICES ASSUME pc \in Tooling, BatchWire
               PROVE  WireInv
    OBVIOUS
  <1>1. /\ pc \notin Starting
        /\ pc \notin {"turn_finished", "turn_started", "generate", "collect", "provider_event"}
    BY DEF Tooling, Starting
  <1> QED
    BY <1>1 DEF WireInv, BatchWire

LEMMA BatchWireNext ==
    ASSUME pc' \in Tooling, BatchWire'
    PROVE  WireInv'
  <1>1. (pc \in Tooling /\ BatchWire => WireInv)'
    BY BatchWireSuffices, PTL
  <1> QED
    BY <1>1

\* The facts about a stage within a batch.
LEMMA InBatch ==
    ASSUME Typed, LiveInv, pc \in Tooling
    PROVE  /\ pc \in Turning /\ pc \in Requesting /\ session_id /\ Turn # 0 /\ ~Dead /\ TurnRow
           /\ request_id = Turn /\ BatchWire
  <1>1. pc \in Turning /\ pc \in Requesting /\ ~Dead
    BY DEF Turning, Requesting, Tooling, Dead, Closing
  <1>2. session_id /\ Turn # 0 /\ request_id = Turn
    BY <1>1 DEF LiveInv, StageInv
  <1>3. TurnRow
    BY <1>1, TurnRowHolds
  <1> QED
    BY <1>1, <1>2, <1>3 DEF LiveInv, WireInv, BatchWire

LEMMA ToolReturnsStep ==
    ASSUME Typed, LiveInv, NEW is_error \in {"no", "yes"}, ToolReturns(is_error)
    PROVE  Typed' /\ LiveInv'
  <1> DEFINE c == Call.call_id
             entry == [name |-> Call.name, arguments |-> Call.arguments, is_error |-> is_error]
  <1>1. /\ pc = "execute" /\ pc' = "tool_result" /\ cache' = [cache EXCEPT ![c] = entry]
        /\ UNCHANGED <<history, sequence, session_id, request_id, summary, last_response,
                       provider_sequence, stop, batch, results, cancelled, row, wire, effects>>
    BY DEF ToolReturns, state, turnVars
  <1>2. pc \in Tooling /\ Turn' = Turn /\ Call' = Call
    BY <1>1 DEF Tooling, Turn, Call
  <1>3. c \in CallIds /\ Call = batch[1] /\ 1 \in DOMAIN batch
    BY <1>2, CallFacts
  <1>4. entry \in Entries /\ entry.is_error # "none" /\ entry.name = Call.name
    BY <1>2, CallFacts, SMT DEF Entries, Errors
  <1>5. entry # NoCall
    BY <1>4 DEF NoCall
  <1> HIDE DEF entry
  <1>6. /\ cache' \in [CallIds -> Entries] /\ cache'[c] = entry
        /\ \A d \in CallIds : d # c => cache'[d] = cache[d]
    BY <1>1, <1>3, <1>4 DEF Typed
  <1>7. Typed'
    BY <1>1, <1>6 DEF Typed
  <1>8. /\ pc' \in Turning /\ pc' \in Requesting /\ pc' \in Tooling /\ pc' \notin Starting
        /\ pc' \notin Closing
    BY <1>1 DEF Turning, Requesting, Tooling, Starting, Closing
  <1>9. StageInv'
    BY <1>1, <1>2, <1>8, InBatch DEF StageInv
  <1>10. TurnRow'
    BY <1>1, <1>2, InBatch DEF TurnRow, SameRun
  <1>11. RunInv' /\ TurnInv'
    BY <1>1, <1>8, <1>10, TurnRowNext
  <1>12. CacheInv'
    <2> SUFFICES ASSUME NEW d \in CallIds
                 PROVE  /\ cache'[d] # NoCall => cache'[d].is_error # "none"
                        /\ cache'[d] # NoCall /\ d # c => SavedAs(d)'
                        /\ cache'[d] = NoCall => row'.tools[d] = NoTool
                        /\ row'.tools[d].result_sequence # 0 => row'.tools[d].is_error # "none"
      BY <1>1, <1>2 DEF CacheInv, Current
    <2>1. CASE d = c
      BY <1>1, <1>4, <1>5, <1>6, <2>1 DEF LiveInv, CacheInv
    <2>2. CASE d # c
      BY <1>1, <1>2, <1>6, <2>2, InBatch DEF LiveInv, CacheInv, Current, SavedAs
    <2> QED
      BY <2>1, <2>2
  <1>13. BatchInv'
    <2>1. \A i \in DOMAIN batch : batch[i].call_id \in CallIds
      <3>1. \A i \in DOMAIN batch : batch[i] \in Calls
        BY SMT DEF Typed
      <3> QED
        BY <3>1 DEF Calls
    <2>2. ASSUME NEW i \in DOMAIN batch, cache'[batch[i].call_id] # NoCall
          PROVE  cache'[batch[i].call_id].name = batch[i].name
      <3>1. CASE batch[i].call_id = c
        <4>1. i = 1
          BY <1>2, <1>3, <3>1 DEF LiveInv, BatchInv
        <4> QED
          BY <1>3, <1>4, <1>6, <4>1
      <3>2. CASE batch[i].call_id # c
        BY <1>2, <1>6, <2>1, <2>2, <3>2 DEF LiveInv, BatchInv
      <3> QED
        BY <3>1, <3>2
    <2> QED
      BY <1>1, <1>2, <2>2 DEF LiveInv, BatchInv
  <1>14. HeadInv'
    BY <1>1, <1>2, <1>5, <1>6 DEF LiveInv, HeadInv
  <1>15. WireInv'
    <2>1. BatchWire'
      BY <1>1, <1>2, InBatch DEF BatchWire, AnsweredAt
    <2> QED
      BY <1>8, <2>1, BatchWireNext
  <1> QED
    BY <1>7, <1>9, <1>11, <1>12, <1>13, <1>14, <1>15 DEF LiveInv

LEMMA ResultSavedStep ==
    ASSUME Typed, LiveInv, ResultSaved
    PROVE  Typed' /\ LiveInv'
  <1> DEFINE c == Call.call_id
  <1>1. /\ pc = "tool_result" /\ Saved("tool_result") /\ Committed /\ pc' = "tool_finish"
        /\ UNCHANGED <<session_id, request_id, summary, last_response, provider_sequence, stop,
                       batch, results, cache, wire, effects>>
    BY DEF ResultSaved, Saved, turnVars, scope
  <1>2. pc \in Tooling /\ Turn' = Turn /\ Call' = Call
    BY <1>1 DEF Tooling, Turn, Call
  <1>3. c \in CallIds /\ Call = batch[1] /\ 1 \in DOMAIN batch
    BY <1>2, CallFacts
  <1>4. /\ KeepsRun(row, row') /\ KeepsTurn(row, row') /\ Record.type = "ToolResult"
        /\ row'.session = row.session /\ row'.state = row.state
        /\ row'.last_runtime_sequence = row.last_runtime_sequence
        /\ \A d \in CallIds : d # c => row'.tools[d] = row.tools[d]
        /\ row'.tools[c].name = row.tools[c].name /\ row'.tools[c].request = row.tools[c].request
        /\ row'.tools[c].turn = row.tools[c].turn
        /\ row'.tools[c].finished_sequence = row.tools[c].finished_sequence
        /\ row'.tools[c].result_sequence # 0 /\ row'.tools[c].is_error = cache[c].is_error
    BY <1>1, <1>3, CommittedToolResult DEF Typed
  <1>5. sequence' = sequence /\ history' = history /\ cancelled' = cancelled
    <2>1. sequence' = sequence + 0
      BY <1>1, <1>4 DEF Saved, RuntimeTypes
    <2>2. sequence' = sequence
      BY <2>1, SMT DEF Typed
    <2> QED
      BY <1>1, <2>2 DEF Saved
  <1>6. StoreKept
    BY <1>1, StoreStep DEF Appending
  <1>7. Typed'
    BY <1>1, <1>5, <1>6 DEF Typed, StoreKept
  <1>8. /\ pc' \in Turning /\ pc' \in Requesting /\ pc' \in Tooling /\ pc' \notin Starting
        /\ pc' \notin Closing
    BY <1>1 DEF Turning, Requesting, Tooling, Starting, Closing
  <1>9. StageInv'
    BY <1>1, <1>2, <1>8, InBatch DEF StageInv
  <1>10. TurnRow'
    BY <1>1, <1>2, <1>4, <1>5, InBatch DEF TurnRow, SameRun, KeepsRun, KeepsTurn
  <1>11. RunInv' /\ TurnInv'
    BY <1>1, <1>8, <1>10, TurnRowNext
  <1>12. /\ row.tools[c].name = Call.name /\ row.tools[c].request = request_id
         /\ row.tools[c].turn = Turn /\ row.tools[c].finished_sequence = 0
         /\ cache[c] # NoCall /\ cache[c].is_error # "none" /\ cache[c].name = Call.name
    BY <1>1, <1>2, <1>3 DEF LiveInv, HeadInv, CacheInv, BatchInv
  <1>13. CacheInv'
    <2> SUFFICES ASSUME NEW d \in CallIds
                 PROVE  /\ cache'[d] # NoCall => cache'[d].is_error # "none"
                        /\ cache'[d] # NoCall => SavedAs(d)'
                        /\ cache'[d] = NoCall => row'.tools[d] = NoTool
                        /\ row'.tools[d].result_sequence # 0 => row'.tools[d].is_error # "none"
      BY DEF CacheInv
    <2>1. CASE d = c
      BY <1>1, <1>4, <1>12, <2>1 DEF SavedAs
    <2>2. CASE d # c
      BY <1>1, <1>2, <1>4, <2>2, InBatch DEF LiveInv, CacheInv, Current, SavedAs
    <2> QED
      BY <2>1, <2>2
  <1>14. BatchInv'
    BY <1>1, <1>2 DEF LiveInv, BatchInv
  <1>15. HeadInv'
    BY <1>1, <1>2, <1>4, <1>12 DEF HeadInv
  <1>16. \A i \in DOMAIN results : AnsweredAt(i)'
    BY <1>1, <1>2, <1>6, AnsweredKept, InBatch DEF StoreKept, BatchWire
  <1>17. WireInv'
    <2>1. BatchWire'
      BY <1>1, <1>2, <1>16, InBatch DEF BatchWire
    <2> QED
      BY <1>8, <2>1, BatchWireNext
  <1> QED
    BY <1>7, <1>9, <1>11, <1>13, <1>14, <1>15, <1>17 DEF LiveInv

LEMMA TailFacts ==
    ASSUME NEW S, NEW b \in Seq(S), b # <<>>
    PROVE  /\ Tail(b) \in Seq(S) /\ Len(Tail(b)) = Len(b) - 1 /\ Len(b) \in Nat
           /\ \A i \in DOMAIN Tail(b) : i \in Nat /\ i + 1 \in DOMAIN b /\ Tail(b)[i] = b[i + 1]
           /\ Len(b) # 1 => Tail(b) # <<>>
  <1>1. /\ Tail(b) \in Seq(S) /\ Len(Tail(b)) = Len(b) - 1 /\ Len(b) \in Nat
        /\ \A i \in DOMAIN Tail(b) : i \in Nat /\ i + 1 \in DOMAIN b /\ Tail(b)[i] = b[i + 1]
    BY SMT
  <1>2. Len(<<>>) = 0
    BY SMT
  <1>3. \A k \in Nat : k - 1 = 0 => k = 1
    BY SMT
  <1> QED
    BY <1>1, <1>2, <1>3

LEMMA TailDistinct ==
    ASSUME NEW S, NEW b \in Seq(S), b # <<>>,
           \A i, j \in DOMAIN b : i # j => b[i].call_id # b[j].call_id,
           NEW i \in DOMAIN Tail(b), NEW j \in DOMAIN Tail(b), i # j
    PROVE  Tail(b)[i].call_id # Tail(b)[j].call_id
  <1>1. /\ i \in Nat /\ i + 1 \in DOMAIN b /\ Tail(b)[i] = b[i + 1]
        /\ j \in Nat /\ j + 1 \in DOMAIN b /\ Tail(b)[j] = b[j + 1]
    BY TailFacts
  <1>2. i + 1 # j + 1
    BY <1>1, SMT
  <1> QED
    BY <1>1, <1>2

\* b are the calls after the first m.
Follows(b, calls, m) == \A i \in DOMAIN b : b[i] = calls[m + i]

\* One more result, one call less.
LEMMA TailAnswers ==
    ASSUME NEW S, NEW b \in Seq(S), b # <<>>, NEW calls, NEW m \in Nat, Follows(b, calls, m)
    PROVE  (m + 1) + Len(Tail(b)) = m + Len(b) /\ Follows(Tail(b), calls, m + 1)
  <1>1. Len(Tail(b)) = Len(b) - 1 /\ Len(b) \in Nat
    BY TailFacts
  <1>2. (m + 1) + Len(Tail(b)) = m + Len(b)
    BY <1>1, SMT
  <1>3. ASSUME NEW i \in DOMAIN Tail(b)
        PROVE  Tail(b)[i] = calls[(m + 1) + i]
    <2>1. i \in Nat /\ i + 1 \in DOMAIN b /\ Tail(b)[i] = b[i + 1]
      BY TailFacts
    <2>2. m + (i + 1) = (m + 1) + i
      BY <2>1, SMT
    <2> QED
      BY <2>1, <2>2 DEF Follows
  <1> QED
    BY <1>2, <1>3 DEF Follows

\* Only the ends of the call at the head are noted in the row.
ToolsSame ==
    \A c \in CallIds :
        /\ row'.tools[c].name = row.tools[c].name
        /\ row'.tools[c].result_sequence = row.tools[c].result_sequence
        /\ row'.tools[c].is_error = row.tools[c].is_error
        /\ cache[c] = NoCall => row'.tools[c] = row.tools[c]

\* The row after a tool event, whatever the next stage of the turn.
LEMMA ToolEventRow ==
    ASSUME Typed, LiveInv, pc \in Tooling, NEW c, ToolEventLeaves(c), EventIsSaved, Turn' = Turn,
           UNCHANGED <<session_id, provider_sequence, request_id>>
    PROVE  TurnRow'
  BY InBatch DEF TurnRow, SameRun, ToolEventLeaves, EventIsSaved

LEMMA CacheSame ==
    ASSUME LiveInv, pc \in {"tool_start", "tool_finish"}, ToolsSame, cache' = cache,
           pc' \in {"tool_start", "turn_finished"}
    PROVE  CacheInv'
  <1>1. ~Dead
    BY DEF Dead, Closing
  <1> SUFFICES ASSUME NEW d \in CallIds
               PROVE  /\ cache'[d] # NoCall => cache'[d].is_error # "none"
                      /\ cache'[d] # NoCall => SavedAs(d)'
                      /\ cache'[d] = NoCall => row'.tools[d] = NoTool
                      /\ row'.tools[d].result_sequence # 0 => row'.tools[d].is_error # "none"
    BY DEF CacheInv
  <1> QED
    BY <1>1 DEF LiveInv, CacheInv, SavedAs, ToolsSame

\* A result is prepared.
LEMMA PreparedStep ==
    ASSUME Typed, LiveInv, pc \in {"tool_start", "tool_finish"}, Cached(Call),
           NEW s, IsSummary(s), s.turns_started = Turn, Prepared(s),
           EventIsSaved, StoreKept, ToolEventLeaves(Call.call_id), ToolsSame,
           UNCHANGED <<session_id, last_response, provider_sequence, cache>>
    PROVE  Typed' /\ LiveInv'
  <1> DEFINE c == Call.call_id
             result == [call_id |-> c, is_error |-> cache[c].is_error]
             n == Len(results) + 1
  <1>1. pc \in Tooling /\ pc \notin {"execute", "tool_result"}
    BY DEF Tooling
  <1>2. c \in CallIds /\ Call = batch[1] /\ 1 \in DOMAIN batch /\ batch # <<>> /\ Len(batch) \in Nat
    BY <1>1, CallFacts
  <1>3. results' = Append(results, result) /\ UNCHANGED <<request_id, wire, effects>>
    BY DEF Prepared
  <1>4. IsSummary(summary') /\ Turn' = Turn
    <2> DEFINE done == [s EXCEPT !.tool_results_prepared = @ + 1]
    <2>1. IsSummary(done) /\ done.turns_started = Turn
      BY SMT DEF IsSummary, SummaryFields
    <2>2. summary' = done \/ summary' = [done EXCEPT !.turns_finished = @ + 1]
      BY DEF Prepared
    <2> HIDE DEF done
    <2> QED
      BY <2>1, <2>2, SMT DEF IsSummary, SummaryFields, Turn
  <1>5. SavedAs(c)
    BY <1>1, <1>2 DEF LiveInv, CacheInv, Cached
  <1>6. /\ row'.tools[c].result_sequence # 0 /\ row'.tools[c].is_error = cache[c].is_error
    BY <1>2, <1>5 DEF ToolsSame, SavedAs
  <1>7. result \in Results
    <2>1. cache[c] \in Entries
      BY <1>2 DEF Typed
    <2> QED
      BY <1>2, <2>1, SMT DEF Entries, NoCall, Errors, Results
  <1>8. result.call_id = c /\ result.is_error = cache[c].is_error
    OBVIOUS
  <1> HIDE DEF result
  <1>9. /\ results' \in Seq(Results) /\ Len(results') = n /\ results'[n] = result
        /\ \A i \in DOMAIN results' : i = n \/ (i \in DOMAIN results /\ results'[i] = results[i])
    BY <1>3, <1>7, SMTT(30) DEF Typed
  <1>10. last_response.calls[n] = batch[1]
    BY <1>1, <1>2, InBatch, SMT DEF BatchWire
  <1>11. \A i \in DOMAIN results' : AnsweredAt(i)'
    <2> SUFFICES ASSUME NEW i \in DOMAIN results'
                 PROVE  AnsweredAt(i)'
      OBVIOUS
    <2>1. CASE i = n
      BY <1>2, <1>6, <1>8, <1>9, <1>10, <2>1 DEF AnsweredAt
    <2>2. CASE i \in DOMAIN results /\ results'[i] = results[i]
      BY <1>1, <2>2, InBatch, AnsweredKept DEF BatchWire, StoreKept
    <2> QED
      BY <1>9, <2>1, <2>2
  <1>12. TurnRow'
    BY <1>1, <1>3, <1>4, ToolEventRow
  <1>13. ASSUME pc' \in {"tool_start", "turn_finished"}, batch' \in Seq(Calls)
         PROVE  Typed' /\ RunInv' /\ TurnInv' /\ CacheInv'
    <2>1. Typed'
      BY <1>3, <1>4, <1>9, <1>13 DEF Typed, EventIsSaved, StoreKept
    <2>2. pc' \in Turning
      BY <1>13 DEF Turning, Requesting, Tooling
    <2>3. RunInv' /\ TurnInv'
      BY <1>12, <1>13, <2>2, TurnRowNext
    <2>4. CacheInv'
      BY <1>13, CacheSame
    <2> QED
      BY <2>1, <2>3, <2>4
  <1>14. CASE /\ ~LastOfBatch /\ pc' = "tool_start" /\ batch' = Tail(batch)
    <2>1. /\ Tail(batch) \in Seq(Calls) /\ batch \in Seq(Calls)
          /\ \A i \in DOMAIN Tail(batch) : i + 1 \in DOMAIN batch /\ Tail(batch)[i] = batch[i + 1]
      BY <1>2, TailFacts DEF Typed
    <2>2. Tail(batch) # <<>>
      BY <1>2, <1>14, TailFacts DEF LastOfBatch, Typed
    <2>3. /\ pc' \in Turning /\ pc' \in Requesting /\ pc' \in Tooling /\ pc' \notin Starting
          /\ pc' \notin Closing
      BY <1>14 DEF Turning, Requesting, Tooling, Starting, Closing
    <2>4. StageInv'
      BY <1>1, <1>3, <1>4, <1>14, <2>3, InBatch DEF StageInv
    <2>5. BatchInv'
      <3>1. \A i, j \in DOMAIN Tail(batch) :
               i # j => Tail(batch)[i].call_id # Tail(batch)[j].call_id
        <4>1. \A i, j \in DOMAIN batch : i # j => batch[i].call_id # batch[j].call_id
          BY <1>1 DEF LiveInv, BatchInv
        <4> QED
          BY <1>2, <2>1, <4>1, TailDistinct
      <3>2. \A i \in DOMAIN Tail(batch) :
               cache[Tail(batch)[i].call_id] # NoCall =>
                  cache[Tail(batch)[i].call_id].name = Tail(batch)[i].name
        BY <1>1, <2>1 DEF LiveInv, BatchInv
      <3> QED
        BY <1>14, <2>2, <3>1, <3>2 DEF BatchInv
    <2>6. HeadInv'
      BY <1>14 DEF HeadInv
    <2>7. WireInv'
      <3>1. /\ Len(results') + Len(batch') = Len(last_response.calls)
            /\ Follows(batch', last_response.calls, Len(results'))
        <4>1. /\ Len(results) + Len(batch) = Len(last_response.calls)
              /\ Follows(batch, last_response.calls, Len(results))
          BY <1>1, InBatch DEF BatchWire, Follows
        <4>2. Len(results) \in Nat
          BY SMT DEF Typed
        <4>3. /\ n + Len(Tail(batch)) = Len(results) + Len(batch)
              /\ Follows(Tail(batch), last_response.calls, n)
          BY <1>2, <2>1, <4>1, <4>2, TailAnswers
        <4>4. Len(results') = n /\ batch' = Tail(batch)
          BY <1>9, <1>14
        <4> HIDE DEF n
        <4> QED
          BY <4>1, <4>3, <4>4
      <3>2. BatchWire'
        BY <1>1, <1>3, <1>4, <1>11, <3>1, InBatch DEF BatchWire, Follows
      <3> QED
        BY <2>3, <3>2, BatchWireNext
    <2> QED
      BY <1>13, <1>14, <2>1, <2>4, <2>5, <2>6, <2>7 DEF LiveInv
  <1>15. CASE /\ cancelled \/ LastOfBatch
              /\ pc' = "turn_finished" /\ batch' = <<>>
              /\ IF cancelled THEN stop' = "cancelled" ELSE stop' \in {"tools_prepared", "failed"}
    <2>1. batch' \in Seq(Calls)
      BY <1>15, SMT
    <2>2. /\ pc' \in Turning /\ pc' \notin Requesting /\ pc' \notin Tooling /\ pc' \notin Starting
          /\ pc' \notin Closing
      BY <1>15 DEF Turning, Requesting, Tooling, Starting, Closing
    <2>3. StageInv'
      BY <1>1, <1>4, <1>15, <2>2, InBatch DEF StageInv
    <2>4. BatchInv' /\ HeadInv'
      BY <2>2, OutOfBatch
    <2>5. stop' = "tools_prepared" => Len(results') + Len(batch') = Len(last_response.calls)
      <3>1. Len(results) + Len(batch) = Len(last_response.calls) /\ Len(results) \in Nat
        BY <1>1, InBatch, SMT DEF BatchWire, Typed
      <3>2. stop' = "tools_prepared" => Len(batch) = 1
        BY <1>15 DEF LastOfBatch
      <3>3. Len(batch) = 1 => n + Len(<<>>) = Len(results) + Len(batch)
        BY <3>1, SMT
      <3> QED
        BY <1>9, <1>15, <3>1, <3>2, <3>3
    <2>6. WireInv'
      BY <1>1, <1>3, <1>4, <1>11, <1>15, <2>2, <2>5, InBatch DEF WireInv, BatchWire
    <2> QED
      BY <1>13, <1>15, <2>1, <2>3, <2>4, <2>6 DEF LiveInv
  <1> QED
    BY <1>14, <1>15 DEF Prepared

LEMMA ToolFinishedStep ==
    ASSUME Typed, LiveInv, ToolFinished
    PROVE  Typed' /\ LiveInv'
  <1> DEFINE c == Call.call_id
  <1>1. /\ pc = "tool_finish" /\ Saved("tool_finish") /\ Committed /\ Prepared(summary)
        /\ UNCHANGED <<session_id, last_response, provider_sequence, cache>>
    BY DEF ToolFinished, Saved
  <1>2. pc \in Tooling /\ summary.turns_started = Turn /\ IsSummary(summary)
    BY <1>1 DEF Tooling, Turn, Typed
  <1>3. c \in CallIds
    BY <1>2, CallFacts
  <1>4. /\ ToolEventLeaves(c) /\ row'.tools[c].name = row.tools[c].name
        /\ row'.tools[c].result_sequence = row.tools[c].result_sequence
        /\ row'.tools[c].is_error = cache[c].is_error
    BY <1>1, <1>3, CommittedFinish DEF Typed
  <1>5. Cached(Call) /\ SavedAs(c)
    BY <1>1, <1>3 DEF LiveInv, HeadInv, CacheInv, Cached
  <1>6. ToolsSame
    BY <1>3, <1>4, <1>5 DEF ToolsSame, ToolEventLeaves, SavedAs, Cached
  <1>7. EventIsSaved
    BY <1>1, <1>4, SavedEvent DEF RuntimeTypes, ToolEventLeaves
  <1>8. StoreKept
    BY <1>1, StoreStep DEF Appending
  <1> QED
    BY <1>1, <1>2, <1>4, <1>5, <1>6, <1>7, <1>8, PreparedStep

LEMMA SummaryDispatches ==
    ASSUME NEW s, IsSummary(s)
    PROVE  /\ LET next == [s EXCEPT !.new_tool_dispatches = @ + 1] IN
              IsSummary(next) /\ next.turns_started = s.turns_started
           /\ LET next == [s EXCEPT !.reused_results = @ + 1] IN
              IsSummary(next) /\ next.turns_started = s.turns_started
  BY SMT DEF IsSummary, SummaryFields

LEMMA ReuseStep ==
    ASSUME Typed, LiveInv, ToolStarted, Cached(Call)
    PROVE  Typed' /\ LiveInv'
  <1> DEFINE c == Call.call_id
             s == [summary EXCEPT !.reused_results = @ + 1]
  <1>1. /\ pc = "tool_start" /\ Saved("tool_start") /\ Committed /\ Prepared(s)
        /\ UNCHANGED <<session_id, last_response, provider_sequence, cache>>
    BY DEF ToolStarted, Saved
  <1>2. pc \in Tooling /\ s.turns_started = Turn /\ IsSummary(s)
    BY <1>1, SummaryDispatches DEF Tooling, Turn, Typed
  <1> HIDE DEF s
  <1>3. c \in CallIds
    BY <1>2, CallFacts
  <1>4. ToolEventLeaves(c) /\ row'.tools[c] = row.tools[c]
    BY <1>1, <1>3, CommittedReuse DEF Typed
  <1>5. ToolsSame
    BY <1>4 DEF ToolsSame, ToolEventLeaves
  <1>6. EventIsSaved
    BY <1>1, <1>4, SavedEvent DEF RuntimeTypes, ToolEventLeaves
  <1>7. StoreKept
    BY <1>1, StoreStep DEF Appending
  <1> QED
    BY <1>1, <1>2, <1>4, <1>5, <1>6, <1>7, PreparedStep

LEMMA DispatchStep ==
    ASSUME Typed, LiveInv, ToolStarted, ~Cached(Call)
    PROVE  Typed' /\ LiveInv'
  <1> DEFINE c == Call.call_id
  <1>1. /\ pc = "tool_start" /\ Saved("tool_start") /\ Committed
        /\ UNCHANGED <<session_id, last_response, provider_sequence, cache>>
    BY DEF ToolStarted, Saved
  <1>2. /\ pc \in Tooling /\ Dispatched.turns_started = Turn /\ IsSummary(Dispatched)
    BY <1>1, SummaryDispatches DEF Tooling, Turn, Typed, Dispatched
  <1>3. c \in CallIds
    BY <1>2, CallFacts
  <1>4. /\ ToolEventLeaves(c) /\ row'.tools[c] # NoTool
        /\ row'.tools[c].name = Call.name /\ row'.tools[c].request = request_id
        /\ row'.tools[c].turn = Turn /\ row'.tools[c].finished_sequence = 0
        /\ row'.tools[c].result_sequence = 0 /\ row'.tools[c].is_error = "none"
    BY <1>1, <1>3, CommittedIntent DEF Typed
  <1>5. EventIsSaved
    BY <1>1, <1>4, SavedEvent DEF RuntimeTypes, ToolEventLeaves
  <1>6. StoreKept
    BY <1>1, StoreStep DEF Appending
  <1>7. /\ cache[c] = NoCall
        /\ \A d \in CallIds : d # c => row'.tools[d] = row.tools[d]
    BY <1>4 DEF Cached, ToolEventLeaves
  <1>8. ASSUME Dead' \/ (pc' = "execute" /\ batch' = batch)
        PROVE  CacheInv'
    <2> SUFFICES ASSUME NEW d \in CallIds
                 PROVE  /\ cache'[d] # NoCall => cache'[d].is_error # "none"
                        /\ cache'[d] # NoCall => SavedAs(d)'
                        /\ cache'[d] = NoCall /\ d # c => row'.tools[d] = NoTool
                        /\ row'.tools[d].result_sequence # 0 => row'.tools[d].is_error # "none"
      BY <1>8 DEF CacheInv, Current, Call
    <2>1. CASE d = c
      BY <1>1, <1>4, <1>7, <2>1
    <2>2. CASE d # c
      BY <1>1, <1>2, <1>7, <2>2, InBatch DEF LiveInv, CacheInv, SavedAs
    <2> QED
      BY <2>1, <2>2
  <1>9. CASE cancelled
    <2>1. EndTurn(Dispatched, "cancelled")
      BY <1>9 DEF ToolStarted
    <2>2. /\ pc' = "turn_finished" /\ stop' = "cancelled" /\ batch' = <<>>
          /\ UNCHANGED <<request_id, results, wire, effects>>
      BY <2>1 DEF EndTurn
    <2>3. /\ IsSummary(summary') /\ Turn' = Turn /\ pc' \in Turning
          /\ StageInv' /\ BatchInv' /\ HeadInv' /\ WireInv'
      BY <1>1, <1>2, <2>1, InBatch, EndTurnStep
    <2>4. CacheInv'
      BY <1>8, <2>2 DEF Dead
    <2>5. TurnRow'
      BY <1>1, <1>2, <1>4, <1>5, <2>2, <2>3, ToolEventRow
    <2>6. RunInv' /\ TurnInv'
      BY <2>2, <2>3, <2>5, TurnRowNext
    <2>7. batch' \in Seq(Calls)
      BY <2>2, SMT
    <2>8. Typed'
      BY <1>1, <1>5, <1>6, <2>2, <2>3, <2>7 DEF Typed, EventIsSaved, StoreKept
    <2> QED
      BY <2>3, <2>4, <2>6, <2>8 DEF LiveInv
  <1>10. CASE ~cancelled
    <2>1. /\ pc' = "execute" /\ summary' = Dispatched
          /\ effects' = [effects EXCEPT ![c] = @ + 1]
          /\ UNCHANGED <<stop, request_id, batch, results, wire>>
      BY <1>10 DEF ToolStarted
    <2>2. Turn' = Turn /\ Call' = Call /\ IsSummary(summary')
      BY <1>2, <2>1 DEF Turn, Call
    <2>3. /\ pc' \in Turning /\ pc' \in Requesting /\ pc' \in Tooling /\ pc' \notin Starting
          /\ pc' \notin Closing
      BY <2>1 DEF Turning, Requesting, Tooling, Starting, Closing
    <2>4. StageInv'
      BY <1>1, <1>2, <2>1, <2>2, <2>3, InBatch DEF StageInv
    <2>5. TurnRow'
      BY <1>1, <1>2, <1>4, <1>5, <2>1, <2>2, ToolEventRow
    <2>6. RunInv' /\ TurnInv'
      BY <2>1, <2>3, <2>5, TurnRowNext
    <2>7. CacheInv'
      BY <1>8, <2>1
    <2>8. BatchInv'
      BY <1>1, <1>2, <2>1 DEF LiveInv, BatchInv
    <2>9. HeadInv'
      BY <1>1, <1>4, <1>7, <2>1, <2>2 DEF HeadInv
    <2>10. WireInv'
      <3>1. \A i \in DOMAIN results : AnsweredAt(i)'
        BY <1>1, <1>2, <1>6, <2>1, AnsweredKept, InBatch DEF StoreKept, BatchWire
      <3>2. BatchWire'
        BY <1>1, <1>2, <2>1, <2>2, <3>1, InBatch DEF BatchWire
      <3> QED
        BY <2>3, <3>2, BatchWireNext
    <2>11. effects' \in [CallIds -> Nat]
      BY <1>3, <2>1, SMT DEF Typed
    <2>12. Typed'
      BY <1>1, <1>5, <1>6, <2>1, <2>2, <2>11 DEF Typed, EventIsSaved, StoreKept
    <2> QED
      BY <2>4, <2>6, <2>7, <2>8, <2>9, <2>10, <2>12 DEF LiveInv
  <1> QED
    BY <1>9, <1>10

-----------------------------------------------------------------------------
(***************************************************************************)
(* Cancellation, the loss of the process and its discovery.                *)
(***************************************************************************)

LEMMA StoppedStep ==
    ASSUME Typed, LiveInv, Stopped
    PROVE  Typed' /\ LiveInv'
  <1>1. /\ pc \in {"open", "install", "generate", "collect", "execute"} /\ NoStore
        /\ UNCHANGED <<session_id, last_response, provider_sequence, event>>
    BY DEF Stopped, Stoppable, Awaiting, NoStore
  <1>2. CASE pc \in {"open", "install"}
    <2>1. EndRun("cancelled")
      BY <1>2 DEF Stopped
    <2>2. session_id' \in BOOLEAN
      BY <1>1 DEF Typed
    <2> QED
      BY <1>1, <1>2, <2>1, <2>2, StartEnds
  <1>3. CASE pc \notin {"open", "install"}
    <2>1. EndTurn(summary, "cancelled")
      BY <1>3 DEF Stopped
    <2> QED
      BY <1>1, <1>3, <2>1, TurnEnds
  <1> QED
    BY <1>2, <1>3

LEMMA CancelStep ==
    ASSUME Typed, LiveInv, Cancel
    PROVE  Typed' /\ LiveInv'
  <1>1. /\ cancelled' = TRUE
        /\ UNCHANGED <<pc, history, sequence, session_id, request_id, summary, last_response,
                       provider_sequence, event, stop, batch, results, cache, row, wire, effects>>
    BY DEF Cancel, state, turnVars, scope
  <1>2. Typed'
    BY <1>1 DEF Typed
  <1>3. Turn' = Turn /\ Call' = Call /\ (Dead' <=> Dead)
    BY <1>1 DEF Turn, Call, Dead
  <1>4. StageInv' /\ RunInv' /\ TurnInv'
    <2>1. StageInv'
      BY <1>1, <1>3 DEF LiveInv, StageInv
    <2>2. RunInv'
      BY <1>1 DEF LiveInv, RunInv
    <2>3. TurnInv'
      BY <1>1, <1>3 DEF LiveInv, TurnInv
    <2> QED
      BY <2>1, <2>2, <2>3
  <1>5. CacheInv'
    BY <1>1, <1>3 DEF LiveInv, CacheInv, SavedAs, Current
  <1>6. BatchInv' /\ HeadInv'
    BY <1>1, <1>3 DEF LiveInv, BatchInv, HeadInv
  <1>7. WireInv'
    BY <1>1, <1>3 DEF LiveInv, WireInv, AnsweredAt
  <1> QED
    BY <1>2, <1>4, <1>5, <1>6, <1>7 DEF LiveInv

\* The run ends for the controller; the store may have the last record.
LEMMA AppendFailsStep ==
    ASSUME Typed, LiveInv, AppendFails
    PROVE  Typed' /\ pc' = "done" /\ StoreKept
  <1>1. /\ pc \in Appending /\ pc' = "done"
        /\ UNCHANGED <<history, sequence, session_id, request_id, summary, last_response,
                       provider_sequence, batch, results, cache, cancelled, wire, effects>>
    BY DEF AppendFails, state, turnVars, scope
  <1>2. StoreKept
    <2>1. CASE row' = row
      BY <2>1 DEF StoreKept, Grows, Typed
    <2>2. CASE Committed
      BY <1>1, <2>2, StoreStep
    <2> QED
      BY <2>1, <2>2 DEF AppendFails
  <1> QED
    BY <1>1, <1>2 DEF Typed, StoreKept

LEMMA InterruptedStep ==
    ASSUME Typed, Interrupted
    PROVE  Typed' /\ pc' \in {"done", "lost"} /\ StoreKept
  <1>1. /\ pc' \in {"done", "lost"} /\ row' = Applied(row, [type |-> "RunInterrupted"])
        /\ UNCHANGED <<history, sequence, session_id, request_id, summary, last_response,
                       provider_sequence, batch, results, cache, cancelled, wire, effects>>
    BY DEF Interrupted, state, turnVars, scope
  <1>2. IsRow(row') /\ KeepsTools(row, row') /\ KeepsTurn(row, row')
    BY <1>1, AppliedInterruption DEF Typed
  <1>3. StoreKept
    BY <1>2, KeptGrow DEF StoreKept, Typed, KeepsTurn
  <1> QED
    BY <1>1, <1>3 DEF Typed, StoreKept

-----------------------------------------------------------------------------
(***************************************************************************)
(* The requests and the effects of the tools.                              *)
(***************************************************************************)

\* Answered and ContinuesWithResults over rows of tools and a wire that are given.
Settled(tools, calls, prepared) ==
    /\ Len(prepared) = Len(calls)
    /\ \A i \in DOMAIN calls : /\ prepared[i].call_id = calls[i].call_id
                               /\ tools[calls[i].call_id].result_sequence # 0
                               /\ tools[calls[i].call_id].is_error = prepared[i].is_error

Continues(tools, w) ==
    \A k \in 2..Len(w) : /\ w[k - 1].response.calls # <<>>
                         /\ Settled(tools, w[k - 1].response.calls, w[k].input)

LEMMA ContinuesIs == ContinuesWithResults <=> Continues(row.tools, wire)
  BY DEF ContinuesWithResults, Continues, Answered, Settled

LEMMA ContinuesNext == ContinuesWithResults' <=> Continues(row'.tools, wire')
  BY DEF ContinuesWithResults, Continues, Answered, Settled

LEMMA SettledGrows ==
    ASSUME NEW tools, NEW more, Grows(tools, more), NEW calls \in Seq(Calls), NEW prepared,
           Settled(tools, calls, prepared)
    PROVE  Settled(more, calls, prepared)
  <1>1. \A i \in DOMAIN calls : calls[i] \in Calls
    BY SMT
  <1>2. \A i \in DOMAIN calls : calls[i].call_id \in CallIds
    BY <1>1 DEF Calls
  <1> QED
    BY <1>2 DEF Settled, Grows

LEMMA RequestCalls ==
    ASSUME NEW w \in Seq(Requests), NEW k \in 1..Len(w)
    PROVE  w[k].response.calls \in Seq(Calls)
  <1>1. w[k] \in Requests
    BY SMT
  <1>2. w[k].response \in Answers
    BY <1>1 DEF Requests
  <1> QED
    BY <1>2, AnswerCalls

LEMMA ContinuesGrows ==
    ASSUME NEW tools, NEW more, Grows(tools, more), NEW w \in Seq(Requests), Continues(tools, w)
    PROVE  Continues(more, w)
  <1> SUFFICES ASSUME NEW k \in 2..Len(w)
               PROVE  /\ w[k - 1].response.calls # <<>>
                      /\ Settled(more, w[k - 1].response.calls, w[k].input)
    BY DEF Continues
  <1>1. k - 1 \in 1..Len(w)
    BY SMT
  <1>2. w[k - 1].response.calls \in Seq(Calls)
    BY <1>1, RequestCalls
  <1>3. /\ w[k - 1].response.calls # <<>>
        /\ Settled(tools, w[k - 1].response.calls, w[k].input)
    BY DEF Continues
  <1> QED
    BY <1>2, <1>3, SettledGrows

LEMMA ContinuesAppend ==
    ASSUME NEW tools, NEW w \in Seq(Requests), Continues(tools, w), NEW r,
           w # <<>> => /\ w[Len(w)].response.calls # <<>>
                       /\ Settled(tools, w[Len(w)].response.calls, r.input)
    PROVE  Continues(tools, Append(w, r))
  <1> DEFINE v == Append(w, r)
  <1> SUFFICES ASSUME NEW k \in 2..Len(v)
               PROVE  /\ v[k - 1].response.calls # <<>>
                      /\ Settled(tools, v[k - 1].response.calls, v[k].input)
    BY DEF Continues
  <1>1. Len(v) = Len(w) + 1 /\ Len(w) \in Nat
    BY SMT
  <1>2. CASE k = Len(w) + 1
    <2>1. v[k] = r /\ k - 1 = Len(w) /\ v[Len(w)] = w[Len(w)] /\ w # <<>>
      BY <1>1, <1>2, SMT
    <2> QED
      BY <2>1
  <1>3. CASE k # Len(w) + 1
    <2>1. k \in 2..Len(w) /\ v[k] = w[k] /\ v[k - 1] = w[k - 1]
      BY <1>1, <1>3, SMT
    <2> QED
      BY <2>1 DEF Continues
  <1> QED
    BY <1>2, <1>3

LEMMA ContinuesShorter ==
    ASSUME NEW tools, NEW w \in Seq(Requests), Continues(tools, w), w # <<>>
    PROVE  Continues(tools, SubSeq(w, 1, Len(w) - 1))
  <1> DEFINE v == SubSeq(w, 1, Len(w) - 1)
  <1> SUFFICES ASSUME NEW k \in 2..Len(v)
               PROVE  /\ v[k - 1].response.calls # <<>>
                      /\ Settled(tools, v[k - 1].response.calls, v[k].input)
    BY DEF Continues
  <1>1. Len(w) \in Nat /\ Len(w) > 0
    BY SMT
  <1>2. Len(v) = Len(w) - 1
    BY <1>1, SMT
  <1>3. k \in 2..Len(w) /\ v[k] = w[k] /\ v[k - 1] = w[k - 1]
    BY <1>1, <1>2, SMT
  <1> QED
    BY <1>3 DEF Continues

LEMMA ContinuesAnswered ==
    ASSUME NEW tools, NEW w \in Seq(Requests), Continues(tools, w), NEW a, NEW n, n = Len(w)
    PROVE  Continues(tools, [w EXCEPT ![n].response = a])
  <1> DEFINE v == [w EXCEPT ![n].response = a]
  <1> SUFFICES ASSUME NEW k \in 2..Len(v)
               PROVE  /\ v[k - 1].response.calls # <<>>
                      /\ Settled(tools, v[k - 1].response.calls, v[k].input)
    BY DEF Continues
  <1>1. DOMAIN w = 1..Len(w) /\ Len(w) \in Nat
    BY SMT
  <1>2. Len(v) = Len(w)
    BY <1>1, SMT
  <1>3. k \in 2..Len(w) /\ k \in DOMAIN w /\ k - 1 \in DOMAIN w /\ k - 1 # n
    BY <1>1, <1>2, SMT
  <1>4. v[k - 1] = w[k - 1]
    BY <1>3, SMT
  <1>5. w[k] \in Requests
    BY <1>3, SMT
  <1>6. v[k].input = w[k].input
    BY <1>3, <1>5, SMT DEF Requests
  <1> QED
    BY <1>3, <1>4, <1>6 DEF Continues

\* Steps that neither ask the provider nor run a tool.
LEMMA Untouched ==
    ASSUME Typed, EffectsOnce, ContinuesWithResults, StoreKept, UNCHANGED <<wire, effects>>
    PROVE  EffectsOnce' /\ ContinuesWithResults'
  <1>1. EffectsOnce'
    BY DEF EffectsOnce, StoreKept, Grows
  <1>2. ContinuesWithResults'
    BY ContinuesIs, ContinuesNext, ContinuesGrows DEF StoreKept, Typed
  <1> QED
    BY <1>1, <1>2

LEMMA RowSame ==
    ASSUME Typed, row' = row
    PROVE  StoreKept
  BY DEF StoreKept, Grows, Typed

LEMMA AsksOn ==
    ASSUME Typed, LiveInv, EffectsOnce, ContinuesWithResults, TurnStarted
    PROVE  EffectsOnce' /\ ContinuesWithResults'
  <1>1. pc = "turn_started" /\ StoreKept
    BY StoreStep DEF TurnStarted, Saved, Appending
  <1>2. CASE cancelled
    BY <1>1, <1>2, Untouched DEF TurnStarted, EndTurn
  <1>3. CASE ~cancelled
    <2> DEFINE r == [input |-> results, response |-> NoResponse]
    <2>1. wire' = Append(wire, r) /\ effects' = effects /\ r.input = results
      BY <1>3 DEF TurnStarted
    <2> HIDE DEF r
    <2>2. EffectsOnce'
      BY <1>1, <2>1 DEF EffectsOnce, StoreKept, Grows
    <2>3. Len(wire) = Turn - 1 /\ batch = <<>>
      BY <1>1 DEF LiveInv, WireInv, Tooling
    <2>4. ASSUME wire # <<>>
          PROVE  /\ wire[Len(wire)].response.calls # <<>>
                 /\ Settled(row.tools, wire[Len(wire)].response.calls, results)
      <3>1. Turn > 1
        BY <2>3, <2>4, SMTT(30) DEF Typed, IsSummary, Turn
      <3>2. /\ wire[Len(wire)].response = last_response /\ last_response.calls # <<>>
            /\ Len(results) + Len(batch) = Len(last_response.calls)
            /\ \A i \in DOMAIN results : AnsweredAt(i)
        BY <1>1, <3>1 DEF LiveInv, WireInv
      <3>3. Len(results) = Len(last_response.calls)
        BY <2>3, <3>2, SMTT(30) DEF Typed
      <3>4. last_response.calls \in Seq(Calls)
        BY AnswerCalls DEF Typed
      <3>5. DOMAIN last_response.calls = DOMAIN results
        BY <3>3, <3>4, SMTT(30) DEF Typed
      <3>6. Settled(row.tools, last_response.calls, results)
        BY <3>2, <3>3, <3>5 DEF Settled, AnsweredAt
      <3> QED
        BY <3>2, <3>6
    <2>5. Continues(row.tools, Append(wire, r))
      BY <2>1, <2>4, ContinuesIs, ContinuesAppend DEF Typed
    <2>6. wire' \in Seq(Requests)
      BY TurnStartedStep DEF Typed
    <2>7. ContinuesWithResults'
      BY <1>1, <2>1, <2>5, <2>6, ContinuesNext, ContinuesGrows DEF StoreKept
    <2> QED
      BY <2>2, <2>7
  <1> QED
    BY <1>2, <1>3

LEMMA TakesBack ==
    ASSUME Typed, LiveInv, EffectsOnce, ContinuesWithResults, GenerateRejected
    PROVE  EffectsOnce' /\ ContinuesWithResults'
  <1>1. /\ pc = "generate" /\ UNCHANGED <<row, effects>>
        /\ wire' = SubSeq(wire, 1, Len(wire) - 1)
    BY DEF GenerateRejected
  <1>2. EffectsOnce'
    BY <1>1 DEF EffectsOnce
  <1>3. Len(wire) = Turn /\ Turn # 0
    BY <1>1 DEF LiveInv, WireInv, StageInv, Turning
  <1>4. wire # <<>>
    BY <1>3, SMT
  <1>5. ContinuesWithResults'
    BY <1>1, <1>4, ContinuesIs, ContinuesNext, ContinuesShorter DEF Typed
  <1> QED
    BY <1>2, <1>5

LEMMA GoesOnAfter ==
    ASSUME Typed, LiveInv, EffectsOnce, ContinuesWithResults,
           NEW e \in ProviderEvents, NEW number, ProviderSends(e, number)
    PROVE  EffectsOnce' /\ ContinuesWithResults'
  <1>1. pc = "collect" /\ row' = row /\ effects' = effects
    BY DEF ProviderSends, EndTurn
  <1>2. CASE wire' = wire
    BY <1>1, <1>2, RowSame, Untouched
  <1>3. CASE wire' # wire
    <2>1. wire' = [wire EXCEPT ![Turn].response = e.response]
      BY <1>3 DEF ProviderSends, EndTurn
    <2>2. EffectsOnce'
      BY <1>1 DEF EffectsOnce
    <2>3. Turn = Len(wire)
      BY <1>1 DEF LiveInv, WireInv, Requesting
    <2>4. ContinuesWithResults'
      BY <1>1, <2>1, <2>3, ContinuesIs, ContinuesNext, ContinuesAnswered DEF Typed
    <2> QED
      BY <2>2, <2>4
  <1> QED
    BY <1>2, <1>3

LEMMA RunsOnce ==
    ASSUME Typed, LiveInv, EffectsOnce, ContinuesWithResults, ToolStarted
    PROVE  EffectsOnce' /\ ContinuesWithResults'
  <1> DEFINE c == Call.call_id
  <1>1. pc = "tool_start" /\ Committed /\ StoreKept
    BY StoreStep DEF ToolStarted, Saved, Appending
  <1>2. wire' = wire
    BY DEF ToolStarted, Prepared, EndTurn
  <1>3. CASE Cached(Call) \/ cancelled
    BY <1>1, <1>2, <1>3, Untouched DEF ToolStarted, Prepared, EndTurn
  <1>4. CASE ~Cached(Call) /\ ~cancelled
    <2>1. effects' = [effects EXCEPT ![c] = @ + 1]
      BY <1>4 DEF ToolStarted
    <2>2. c \in CallIds
      BY <1>1, CallFacts DEF Tooling
    <2>3. row.tools[c] = NoTool
      BY <1>1, <1>4, <2>2 DEF Cached, LiveInv, CacheInv, Dead, Closing
    <2>4. row'.tools[c] # NoTool
      BY <1>1, <1>4, <2>2, CommittedIntent DEF Typed
    <2>5. effects[c] \in Nat /\ ~(effects[c] > 0)
      BY <2>2, <2>3 DEF EffectsOnce, Typed
    <2>6. effects'[c] <= 1
      BY <2>1, <2>2, <2>5, SMTT(30) DEF Typed
    <2>7. \A d \in CallIds : d # c => effects'[d] = effects[d]
      BY <2>1, <2>2 DEF Typed
    <2>8. EffectsOnce'
      <3> SUFFICES ASSUME NEW d \in CallIds
                   PROVE  effects'[d] <= 1 /\ (effects'[d] > 0 => row'.tools[d] # NoTool)
        BY DEF EffectsOnce
      <3>1. CASE d = c
        BY <2>4, <2>6, <3>1
      <3>2. CASE d # c
        BY <1>1, <2>7, <3>2 DEF EffectsOnce, StoreKept, Grows
      <3> QED
        BY <3>1, <3>2
    <2>9. ContinuesWithResults'
      BY <1>1, <1>2, ContinuesIs, ContinuesNext, ContinuesGrows DEF StoreKept, Typed
    <2> QED
      BY <2>8, <2>9
  <1> QED
    BY <1>3, <1>4

-----------------------------------------------------------------------------
(***************************************************************************)
(* The invariant and what follows from it.                                 *)
(***************************************************************************)

LEMMA InitHolds == Init => Typed /\ IInv
  <1> SUFFICES ASSUME Init
               PROVE  Typed /\ IInv
    OBVIOUS
  <1> USE DEF Init
  <1>1. /\ IsSummary(summary) /\ Turn = 0
    BY SMT DEF IsSummary, SummaryFields, NoActivity, Turn
  <1>2. /\ DOMAIN row = RowFields /\ row.head \in Nat /\ row.provider_sequence = 0
        /\ row.selected = history /\ row.last_runtime_sequence = 0 /\ row.state = "accepted"
        /\ ~row.session /\ row.result_sequence = 0 /\ ~row.bound /\ row.turns = {}
        /\ row.turn = 0 /\ row.request = 0 /\ row.tools = [c \in CallIds |-> NoTool]
    BY SMT DEF NewRun, RowFields
  <1>3. DOMAIN NoTool = ToolFields /\ NoTool.result_sequence = 0
    BY SMT DEF NoTool, ToolFields
  <1>4. IsRow(row)
    BY <1>2, <1>3 DEF IsRow
  <1>5. cache \in [CallIds -> Entries]
    BY DEF Entries
  <1>6. <<>> \in Seq(Calls) /\ <<>> \in Seq(Results) /\ <<>> \in Seq(Requests) /\ 0 \in Nat
    BY SMT
  <1>7. Typed
    BY <1>1, <1>2, <1>4, <1>5, <1>6 DEF Typed, Answers
  <1>8. StageInv
    BY <1>1 DEF StageInv, Turning, Requesting, Tooling, Closing
  <1>9. RunInv
    BY <1>2 DEF RunInv, Turning, Requesting, Tooling
  <1>10. TurnInv
    <2>1. 1..0 = {} /\ 0 <= 0
      BY SMT
    <2> QED
      BY <1>1, <1>2, <2>1 DEF TurnInv, Turning, Requesting, Tooling
  <1>11. CacheInv /\ BatchInv /\ HeadInv
    BY <1>2, <1>3 DEF CacheInv, BatchInv, HeadInv, Tooling
  <1>12. WireInv
    BY DEF WireInv, Requesting, Tooling
  <1>13. EffectsOnce
    <2>1. \A c \in CallIds : effects[c] = 0
      OBVIOUS
    <2>2. 0 <= 1 /\ ~(0 > 0)
      BY SMT
    <2> QED
      BY <2>1, <2>2 DEF EffectsOnce
  <1>14. ContinuesWithResults
    BY SMT DEF ContinuesWithResults
  <1> QED
    BY <1>7, <1>8, <1>9, <1>10, <1>11, <1>12, <1>13, <1>14 DEF IInv, LiveInv

LEMMA SavedKeeps ==
    ASSUME Typed, LiveInv, NEW stage \in Appending, Saved(stage)
    PROVE  StoreKept
  BY StoreStep DEF Saved

LEMMA ControllerStep ==
    ASSUME Typed, LiveInv, EffectsOnce, ContinuesWithResults, Controller
    PROVE  Typed' /\ IInv'
  <1>1. CASE RunStarted
    <2>1. StoreKept /\ UNCHANGED <<wire, effects>>
      BY <1>1, SavedKeeps DEF RunStarted, EndRun, Appending
    <2> QED
      BY <1>1, <2>1, RunStartedStep, Untouched DEF IInv
  <1>2. CASE Bound
    <2>1. StoreKept /\ UNCHANGED <<wire, effects>>
      BY <1>2, SavedKeeps DEF Bound, EndRun, Appending
    <2> QED
      BY <1>2, <2>1, BoundStep, Untouched DEF IInv
  <1>3. CASE TurnStarted
    BY <1>3, TurnStartedStep, AsksOn DEF IInv
  <1>4. CASE EventSaved
    <2>1. StoreKept
      BY <1>4, SavedKeeps DEF EventSaved, Appending
    <2>2. UNCHANGED <<wire, effects>>
      BY <1>4 DEF EventSaved, PrepareTools, EndTurn
    <2> QED
      BY <1>4, <2>1, <2>2, EventSavedStep, Untouched DEF IInv
  <1>5. CASE ToolStarted
    BY <1>5, ReuseStep, DispatchStep, RunsOnce DEF IInv
  <1>6. CASE ResultSaved
    <2>1. StoreKept /\ UNCHANGED <<wire, effects>>
      BY <1>6, SavedKeeps DEF ResultSaved, Appending
    <2> QED
      BY <1>6, <2>1, ResultSavedStep, Untouched DEF IInv
  <1>7. CASE ToolFinished
    <2>1. StoreKept /\ UNCHANGED <<wire, effects>>
      BY <1>7, SavedKeeps DEF ToolFinished, Prepared, Appending
    <2> QED
      BY <1>7, <2>1, ToolFinishedStep, Untouched DEF IInv
  <1>8. CASE TurnFinished
    <2>1. StoreKept /\ UNCHANGED <<wire, effects>>
      BY <1>8, SavedKeeps DEF TurnFinished, BeginTurn, EndRun, Appending
    <2> QED
      BY <1>8, <2>1, TurnFinishedStep, Untouched DEF IInv
  <1>9. CASE RunFinished
    <2>1. StoreKept /\ UNCHANGED <<wire, effects>>
      BY <1>9, SavedKeeps DEF RunFinished, Appending
    <2> QED
      BY <1>9, <2>1, RunFinishedStep, Untouched DEF IInv
  <1>10. CASE FinalResult
    <2>1. StoreKept /\ UNCHANGED <<wire, effects>>
      BY <1>10, SavedKeeps DEF FinalResult, Appending
    <2> QED
      BY <1>10, <2>1, FinalResultStep, Untouched DEF IInv, Live
  <1>11. CASE AppendFails
    BY <1>11, AppendFailsStep, Untouched DEF AppendFails, IInv, Live
  <1>12. CASE Stopped
    <2>1. row' = row /\ UNCHANGED <<wire, effects>>
      BY <1>12 DEF Stopped, EndRun, EndTurn
    <2> QED
      BY <1>12, <2>1, StoppedStep, RowSame, Untouched DEF IInv
  <1> QED
    BY <1>1, <1>2, <1>3, <1>4, <1>5, <1>6, <1>7, <1>8, <1>9, <1>10, <1>11, <1>12 DEF Controller

LEMMA ProviderStep ==
    ASSUME Typed, LiveInv, EffectsOnce, ContinuesWithResults, Provider
    PROVE  Typed' /\ IInv'
  <1>1. CASE OpenFails
    <2>1. row' = row /\ UNCHANGED <<wire, effects>>
      BY <1>1 DEF OpenFails, EndRun
    <2> QED
      BY <1>1, <2>1, OpenFailsStep, RowSame, Untouched DEF IInv
  <1>2. CASE Opened
    <2>1. row' = row /\ UNCHANGED <<wire, effects>>
      BY <1>2 DEF Opened, BeginTurn, EndRun
    <2> QED
      BY <1>2, <2>1, OpenedStep, RowSame, Untouched DEF IInv
  <1>3. CASE Installed
    <2>1. row' = row /\ UNCHANGED <<wire, effects>>
      BY <1>3 DEF Installed, BeginTurn, EndRun
    <2> QED
      BY <1>3, <2>1, InstalledStep, RowSame, Untouched DEF IInv
  <1>4. CASE GenerateRejected
    BY <1>4, GenerateRejectedStep, TakesBack DEF IInv
  <1>5. CASE Generated
    <2>1. row' = row /\ UNCHANGED <<wire, effects>>
      BY <1>5 DEF Generated, EndTurn
    <2> QED
      BY <1>5, <2>1, GeneratedStep, RowSame, Untouched DEF IInv
  <1>6. CASE ProviderEof
    <2>1. row' = row /\ UNCHANGED <<wire, effects>>
      BY <1>6 DEF ProviderEof, EndTurn
    <2> QED
      BY <1>6, <2>1, ProviderEofStep, RowSame, Untouched DEF IInv
  <1>7. ASSUME NEW e \in ProviderEvents,
               NEW number \in {provider_sequence, provider_sequence + 1}, ProviderSends(e, number)
        PROVE  Typed' /\ IInv'
    BY <1>7, ProviderSendsStep, GoesOnAfter DEF IInv
  <1>8. ASSUME NEW is_error \in {"no", "yes"}, ToolReturns(is_error)
        PROVE  Typed' /\ IInv'
    <2>1. row' = row /\ UNCHANGED <<wire, effects>>
      BY <1>8 DEF ToolReturns
    <2> QED
      BY <1>8, <2>1, ToolReturnsStep, RowSame, Untouched DEF IInv
  <1> QED
    BY <1>1, <1>2, <1>3, <1>4, <1>5, <1>6, <1>7, <1>8 DEF Provider

LEMMA Stutters ==
    ASSUME Typed, IInv, UNCHANGED vars
    PROVE  Typed' /\ IInv'
  <1>1. UNCHANGED <<pc, history, sequence, session_id, request_id, summary, last_response,
                    provider_sequence, event, stop, batch, results, cache, cancelled, row,
                    wire, effects>>
    BY DEF vars, state, turnVars, scope
  <1> USE <1>1
  <1>2. Typed'
    BY DEF Typed
  <1>3. Turn' = Turn /\ Call' = Call /\ (Dead' <=> Dead) /\ (Live' <=> Live)
    BY DEF Turn, Call, Dead, Live
  <1>4. ASSUME LiveInv
        PROVE  LiveInv'
    <2>1. StageInv'
      BY <1>3, <1>4 DEF LiveInv, StageInv
    <2>2. RunInv'
      BY <1>4 DEF LiveInv, RunInv
    <2>3. TurnInv'
      BY <1>3, <1>4 DEF LiveInv, TurnInv
    <2>4. CacheInv'
      BY <1>3, <1>4 DEF LiveInv, CacheInv, SavedAs, Current
    <2>5. BatchInv' /\ HeadInv'
      BY <1>3, <1>4 DEF LiveInv, BatchInv, HeadInv
    <2>6. WireInv'
      BY <1>3, <1>4 DEF LiveInv, WireInv, AnsweredAt
    <2> QED
      BY <2>1, <2>2, <2>3, <2>4, <2>5, <2>6 DEF LiveInv
  <1>5. EffectsOnce' /\ ContinuesWithResults'
    BY RowSame, Untouched DEF IInv
  <1> QED
    BY <1>2, <1>3, <1>4, <1>5 DEF IInv

LEMMA NextStep == Typed /\ IInv /\ [Next]_vars => Typed' /\ IInv'
  <1> SUFFICES ASSUME Typed, IInv, [Next]_vars
               PROVE  Typed' /\ IInv'
    OBVIOUS
  <1>1. EffectsOnce /\ ContinuesWithResults
    BY DEF IInv
  <1>2. CASE UNCHANGED vars
    BY <1>2, Stutters
  <1>3. CASE Controller
    <2>1. Live
      BY <1>3 DEF Controller, RunStarted, Bound, TurnStarted, EventSaved, ToolStarted, ResultSaved,
                  ToolFinished, TurnFinished, RunFinished, FinalResult, AppendFails, Stopped, Saved,
                  Appending, Stoppable, Awaiting, Live
    <2> QED
      BY <1>1, <1>3, <2>1, ControllerStep DEF IInv
  <1>4. CASE Provider
    <2>1. Live
      BY <1>4 DEF Provider, OpenFails, Opened, Installed, GenerateRejected, Generated, ProviderEof,
                  ProviderSends, ToolReturns, Live
    <2> QED
      BY <1>1, <1>4, <2>1, ProviderStep DEF IInv
  <1>5. CASE Cancel
    <2>1. Live /\ row' = row /\ UNCHANGED <<wire, effects>>
      BY <1>5 DEF Cancel, Live
    <2> QED
      BY <1>1, <1>5, <2>1, CancelStep, RowSame, Untouched DEF IInv
  <1>6. CASE Lost
    <2>1. /\ pc' = "lost"
          /\ UNCHANGED <<history, sequence, session_id, request_id, summary, last_response,
                         provider_sequence, batch, results, cache, cancelled, row, wire, effects>>
      BY <1>6 DEF Lost, state, turnVars, scope
    <2>2. Typed'
      BY <2>1 DEF Typed
    <2> QED
      BY <1>1, <2>1, <2>2, RowSame, Untouched DEF IInv, Live
  <1>7. CASE Interrupted
    <2>1. UNCHANGED <<wire, effects>>
      BY <1>7 DEF Interrupted
    <2> QED
      BY <1>1, <1>7, <2>1, InterruptedStep, Untouched DEF IInv, Live
  <1> QED
    BY <1>2, <1>3, <1>4, <1>5, <1>6, <1>7 DEF Next

\* The controller, its registry of results and the rows of the run stay in the
\* relation that RunControllerSteps states, at every await of the run.
THEOREM Invariant == Spec => [](Typed /\ IInv)
  BY InitHolds, NextStep, PTL DEF Spec

\* One lemma for each stage at which a record is appended.
LEMMA Admitted == Typed /\ IInv => StoreAgrees
  <1> SUFFICES ASSUME Typed, IInv, pc \in Appending
               PROVE  Admits(row, Record)
    BY DEF StoreAgrees
  <1>1. LiveInv
    BY DEF IInv, Live, Appending
  <1> QED
    BY <1>1, AdmittedRunStarted, AdmittedBinding, AdmittedTurnStarted, AdmittedProviderEvent,
       AdmittedToolStart, AdmittedToolResult, AdmittedToolFinish, AdmittedTurnFinished,
       AdmittedRunFinished, AdmittedResult DEF Appending

\* The store never refuses a record that the controller appends, however the
\* provider, the tools, a cancellation and failed appends interleave: each of
\* the checks of RunStore::append is implied by what the controller and the
\* rows of the run say at the await where the record is appended.
THEOREM StoreAgreement == Spec => []StoreAgrees
  BY Invariant, Admitted, PTL

\* A tool runs at most once for a call, and never before the intent of the
\* call is in the database: PreparedBatch executes only what the registry has
\* no result of, and whatever it has no result of has no row either.
THEOREM EffectsHappenOnce == Spec => []EffectsOnce
  <1>1. IInv => EffectsOnce
    BY DEF IInv
  <1> QED
    BY <1>1, Invariant, PTL

\* Each request after the first carries the saved results of every call of
\* the response before it, in order.
THEOREM ResultsAreContinued == Spec => []ContinuesWithResults
  <1>1. IInv => ContinuesWithResults
    BY DEF IInv
  <1> QED
    BY <1>1, Invariant, PTL
=============================================================================
