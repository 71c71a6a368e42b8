-------------------------- MODULE MCRunController ---------------------------
(***************************************************************************)
(* Instances of RunController, RunReplay and RunAudit for TLC.             *)
(***************************************************************************)
EXTENDS RunReplay, RunAudit

Answer(calls) == [outcome |-> "completed", supported |-> TRUE, calls |-> calls]
CallOf(id, name, arguments) == [call_id |-> id, name |-> name, arguments |-> arguments]

A == CallOf("a", "add", "1")
B == CallOf("b", "add", "1")

\* No call, one, two, a call with a used identity and other arguments, an
\* identity used twice, an unknown tool, an unsupported item, an incomplete
\* response.
MCResponses ==
    {Answer(<<>>), Answer(<<A>>), Answer(<<A, B>>), Answer(<<CallOf("a", "add", "2")>>),
     Answer(<<A, A>>), Answer(<<CallOf("b", "other", "1")>>),
     [Answer(<<>>) EXCEPT !.supported = FALSE], [Answer(<<A>>) EXCEPT !.outcome = "other"]}

\* The identities of responses are compared within a turn only: the behaviours
\* in which a collector adopts another identity than the first are copies.
NamedInOrder == collector.response_id \in {0, 1}
=============================================================================
