------------------------------ MODULE MCRunHost ------------------------------
(***************************************************************************)
(* Instances of RunHost for TLC.                                           *)
(***************************************************************************)
EXTENDS RunHost, TLC

FirstRequest == [session |-> "s", operation |-> "o1", run |-> "r1"]

\* A retry of the first operation, and another operation of the same session.
MCRequests == {FirstRequest, [session |-> "s", operation |-> "o2", run |-> "r2"]}

\* The two requests differ in their names only, and a request of a dispatch
\* never changes: the behaviours in which the first dispatch carries the other
\* one are copies of those in which it carries this one.
NamedInOrder == request[CHOOSE d \in Dispatches : TRUE] \in {NoRequest, FirstRequest}
=============================================================================
