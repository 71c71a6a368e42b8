------------------------------ MODULE MCStreams ------------------------------
(***************************************************************************)
(* Event streams for TLC: the events of a session with the provider, and   *)
(* the serving of HTTP with its event streams.  The two do not interact    *)
(* and are explored side by side.                                          *)
(***************************************************************************)
EXTENDS ProviderSession

VARIABLES part,
          serving, shutdown, network_close, host, network, failure, outcome, head, socket, feed

serviceVars == <<serving, shutdown, network_close, host, network, failure, outcome, head,
                 socket, feed>>
allVars == <<part, serviceVars, vars>>

Service == INSTANCE HttpService WITH
    Sockets <- {"k1", "k2"}, Streams <- {"k1"}, PageSize <- 2, MaxHead <- 3, stream <- feed

NoService ==
    /\ serving = 0 /\ shutdown = 0 /\ network_close = 0 /\ host = 0 /\ network = 0
    /\ failure = 0 /\ outcome = 0 /\ head = 0 /\ socket = 0 /\ feed = 0

MCInit ==
    /\ Init
    /\ \/ part = "session" /\ NoService
       \/ part = "service" /\ Service!Init

InSession(A) == part = "session" /\ A /\ UNCHANGED <<part, serviceVars>>
InService(A) == part = "service" /\ A /\ UNCHANGED <<part, vars>>

MCNext == InSession(Next) \/ InService(Service!Next)

\* FairSpec and Service!Fairness, each of its part.
MCFairness ==
    /\ WF_allVars(InSession(Worker)) /\ WF_allVars(InSession(Consumer))
    /\ \A k \in Calls : WF_allVars(InSession(Caller(k)))
    /\ WF_allVars(InService(Service!Owner)) /\ WF_allVars(InService(Service!HostCloses))
    /\ WF_allVars(InService(Service!AxumReturns /\ network' = "ok"))
    /\ \A k \in {"k1", "k2"} : WF_allVars(InService(network_close /\ Service!Retire(k)))
    /\ WF_allVars(InService(Service!Events("k1")))

MCSpec == MCInit /\ [][MCNext]_allVars /\ MCFairness

\* What serve returns is the end of all it served (HttpService!OutcomeIsFinal;
\* serve_inner, OwnerGuard in serve.rs).
OutcomeIsFinal == part = "service" => Service!OutcomeIsFinal
\* A stream sends the records behind its cursor, each once and in order
\* (HttpService!EventsExact; stream_response in router/events.rs).
EventsExact == part = "service" => Service!EventsExact

\* An open event stream reaches every record, and serve returns once it must
\* (HttpService!CaughtUp, MustReturn and Returned; router/events.rs, serve.rs).
ServiceGoesOn ==
    /\ []<>(part = "service" => Service!CaughtUp("k1"))
    /\ (part = "service" /\ Service!MustReturn) ~> (part = "service" /\ Service!Returned)
==============================================================================
