------------------------------ MODULE RunReplay ------------------------------
(***************************************************************************)
(* What replay makes of the records that a run leaves, at every point at   *)
(* which the run can end, fail or be interrupted.  wire is what really     *)
(* went to the provider and came back.                                     *)
(***************************************************************************)
EXTENDS RunController, Replay

\* The results that were really produced for the calls of a response.
Outputs(calls) ==
    [i \in DOMAIN calls |-> [call_id |-> calls[i].call_id,
                             is_error |-> cache[calls[i].call_id].is_error]]

\* A run with history whose end was recorded, each of whose requests was
\* answered in full and none of whose attempts was refused; or one that ended
\* before any request was attempted.
Orderly ==
    /\ history
    /\ \/ /\ row.state \in {"completed", "failed", "cancelled"} /\ wire # <<>>
          /\ Len(wire) = summary.turns_started
          /\ \A k \in DOMAIN wire : validate_response(wire[k].response)
          /\ Len(results) = Len(wire[Len(wire)].response.calls)
       \/ row.result_sequence # 0 /\ summary.model_requests_attempted = 0

\* A history that replay accepts tells the truth: it has an exchange for
\* every request that may have reached the provider, with the response that
\* came back, and the results that the tools gave, and that were sent.  And what
\* the controller records is what replay asks for: a run that ended in order is
\* accepted, so that it does not stand in the way of the next run.
ReplayFaithful ==
    LET replay == Prepare(log) IN
    /\ replay.ok =>
          /\ Len(replay.exchanges) = Len(wire)
          /\ \A k \in DOMAIN wire :
                /\ replay.exchanges[k].response = wire[k].response
                /\ replay.exchanges[k].results = Outputs(wire[k].response.calls)
                /\ k > 1 => replay.exchanges[k - 1].results = wire[k].input
    /\ Orderly => replay.ok
=============================================================================
