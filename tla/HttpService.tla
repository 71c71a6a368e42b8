----------------------------- MODULE HttpService -----------------------------
(***************************************************************************)
(* Serving HTTP: serve_inner and its OwnerGuard (http_api/serve.rs), the   *)
(* listener and the sockets that close with it (serve/transport.rs), and   *)
(* the stream of raw events of one session that each connection carries    *)
(* (router/events.rs).  The session's history grows while it is streamed.  *)
(*                                                                         *)
(* Axum is modelled from how serve uses it: it accepts until its shutdown  *)
(* signal, runs each connection in a task of its own, and after the signal *)
(* returns when its connections have ended; it may also fail or panic.     *)
(***************************************************************************)
EXTENDS Naturals, Sequences

CONSTANTS Sockets,    \* identities of accepted connections
          Streams,    \* those that carry a stream of events; the others a request
          PageSize,   \* PAGE_SIZE
          MaxHead,    \* bound on the records of the session
          None

VARIABLES
    serving,        \* where the serve future is
    shutdown,       \* the caller's token is cancelled
    network_close,  \* OwnerGuard.network_close is cancelled
    host,           \* the ShutdownOutcome of the host
    network,        \* the caught network future
    failure,        \* the OnceLock of the listener is set
    outcome,        \* the ServeOutcome
    head,           \* sequence of the session's last record
    socket,         \* the connections
    stream          \* the event stream of each

serveVars == <<serving, shutdown, network_close, host, network, failure, outcome>>
vars == <<serveVars, head, socket, stream>>

Ended == {"ok", "http_failed", "panicked", "setup_failed"}

NoStream == [pc |-> "none", start |-> 0, after |-> 0, through |-> None,
             last |-> 0, more |-> FALSE, sent |-> <<>>, end |-> None]

\* serve builds its guard before its first poll.
Init ==
    /\ serving = "unpolled" /\ shutdown = FALSE /\ network_close = FALSE
    /\ host = "open" /\ network = "none" /\ failure = FALSE /\ outcome = None
    /\ head = 0
    /\ socket = [k \in Sockets |-> "free"]
    /\ stream = [k \in Sockets |-> NoStream]

-----------------------------------------------------------------------------
(***************************************************************************)
(* The owner.                                                              *)
(***************************************************************************)

\* OwnerGuard::initiate: wake the network's waiters, then shut the host down.
\* It does so once: the ticket of the first call is kept.
initiate ==
    /\ network_close' = TRUE
    /\ host' = IF host = "open" THEN "closing" ELSE host

Open(k) == socket[k] = "open"
NoSocket == \A k \in Sockets : ~Open(k)

\* The first poll: the address of the listener, its check, the router.
Start ==
    /\ serving = "unpolled"
    /\ serving' = "select"
    /\ network' \in {"running", "setup_failed"}
    /\ UNCHANGED <<shutdown, network_close, host, failure, outcome, head, socket, stream>>

\* The biased select, and initiate after it.  A network that has not ended is
\* awaited.
Select ==
    /\ serving = "select"
    /\ shutdown \/ network_close \/ network \in Ended
    /\ initiate
    /\ serving' = "network"
    /\ UNCHANGED <<shutdown, network, failure, outcome, head, socket, stream>>

NetworkEnded ==
    /\ serving = "network" /\ network \in Ended
    /\ serving' = "connections"
    /\ UNCHANGED <<shutdown, network_close, host, network, failure, outcome, head, socket, stream>>

\* Fault: the outcome does not wait for the sockets.
AnySockets == TRUE

\* connections.closed(): every accepted socket dropped its receiver.
SocketsRetired == NoSocket

Connections ==
    /\ serving = "connections"
    /\ SocketsRetired
    /\ serving' = "ticket"
    /\ UNCHANGED <<shutdown, network_close, host, network, failure, outcome, head, socket, stream>>

\* The ticket of the first initiate; a failure of the listener is the result.
Finish ==
    /\ serving = "ticket" /\ host \in {"closed", "incomplete"}
    /\ serving' = "done"
    /\ outcome' = [http |-> IF failure THEN "accept_failed" ELSE network, shutdown |-> host]
    /\ UNCHANGED <<shutdown, network_close, host, network, failure, head, socket, stream>>

\* The caller drops the future, and its guard initiates the shutdown.  The
\* listener goes with the network future.
DropServe ==
    /\ serving \notin {"done", "dropped"}
    /\ serving' = "dropped"
    /\ network' = IF network \in Ended THEN network ELSE "dropped"
    /\ initiate
    /\ UNCHANGED <<shutdown, failure, outcome, head, socket, stream>>

Cancel ==
    /\ ~shutdown /\ shutdown' = TRUE
    /\ UNCHANGED <<serving, network_close, host, network, failure, outcome, head, socket, stream>>

\* WorkerGuard::finish: a host that lost a worker closes by itself.
WorkerLost ==
    /\ host = "open"
    /\ host' = "closing"
    /\ UNCHANGED <<serving, shutdown, network_close, network, failure, outcome, head, socket,
                   stream>>

\* RunHost: the shutdown coordinator publishes one outcome.
HostCloses ==
    /\ host = "closing"
    /\ host' \in {"closed", "incomplete"}
    /\ UNCHANGED <<serving, shutdown, network_close, network, failure, outcome, head, socket,
                   stream>>

-----------------------------------------------------------------------------
(***************************************************************************)
(* The listener and the connections.                                       *)
(***************************************************************************)

\* accept: nothing is accepted after the close.
Accept(k) ==
    /\ network = "running" /\ serving \in {"select", "network"}
    /\ ~network_close /\ ~failure /\ socket[k] = "free"
    /\ socket' = [socket EXCEPT ![k] = "open"]
    /\ UNCHANGED <<serveVars, head, stream>>

\* Fault: the listener waits after an error and leaves the network open.
LeavesOpen == UNCHANGED network_close

CloseNetwork == network_close' = TRUE

\* An error of accept is kept, closes the network, and is not retried.
AcceptFails ==
    /\ network = "running" /\ ~network_close /\ ~failure
    /\ failure' = TRUE /\ CloseNetwork
    /\ UNCHANGED <<serving, shutdown, host, network, outcome, head, socket, stream>>

\* Axum returns: after its signal and its connections, or with a failure.
AxumReturns ==
    /\ network = "running"
    /\ \/ network_close /\ NoSocket /\ network' = "ok"
       \/ network' \in {"http_failed", "panicked"}
    /\ UNCHANGED <<serving, shutdown, network_close, host, failure, outcome, head, socket, stream>>

\* A connection ends: its client leaves, its stream has ended, or its reads
\* and writes fail with ConnectionAborted because the network closed.
Retire(k) ==
    /\ Open(k)
    /\ socket' = [socket EXCEPT ![k] = "retired"]
    /\ stream' = [stream EXCEPT ![k].pc = IF @ = "none" THEN @ ELSE "ended"]
    /\ UNCHANGED <<serveVars, head>>

-----------------------------------------------------------------------------
(***************************************************************************)
(* Events.                                                                 *)
(***************************************************************************)

\* The store commits one more record of the session.
Record ==
    /\ head < MaxHead /\ head' = head + 1
    /\ UNCHANGED <<serveVars, socket, stream>>

Least(a, b) == IF a <= b THEN a ELSE b

\* history_page(after, through, limit): through defaults to the head.
Page(s, through) ==
    LET end == IF through = None THEN head ELSE through
        last == Least(s.after + PageSize, end)
    IN  [s EXCEPT !.pc = "emit", !.last = last, !.more = last < end]

Becomes(k, s) == /\ stream' = [stream EXCEPT ![k] = s]
                 /\ UNCHANGED <<serveVars, head, socket>>

Ends(s, event) == [s EXCEPT !.pc = "ended", !.end = event]

\* open: the first page is read, and its head captured, before the headers.
\* A closed network, a failed open and a cursor past the head are refused.
OpenStream(k) ==
    /\ k \in Streams /\ Open(k) /\ stream[k].pc = "none"
    /\ \E start \in 0..MaxHead :
          IF ~network_close /\ start <= head
          THEN \/ Becomes(k, [Page([NoStream EXCEPT !.start = start, !.after = start], None)
                                EXCEPT !.through = head])
               \/ Becomes(k, [NoStream EXCEPT !.pc = "ended", !.start = start])
          ELSE Becomes(k, [NoStream EXCEPT !.pc = "ended", !.start = start])

\* The records of the page, one at a time, while the network is open.
Emit(k) ==
    LET s == stream[k]
    IN  /\ Open(k) /\ s.pc = "emit" /\ s.after < s.last
        /\ IF network_close THEN Becomes(k, Ends(s, "wi.closed"))
           ELSE Becomes(k, [s EXCEPT !.sent = Append(@, s.after + 1), !.after = @ + 1])

\* Fault: the stream attaches at the head and not at its cursor.
AttachAtHead(s) ==
    IF s.more THEN [s EXCEPT !.pc = "read"]
    ELSE IF s.through # None THEN [s EXCEPT !.pc = "read", !.through = None, !.after = head]
    ELSE [s EXCEPT !.pc = "poll"]

\* The end of a page: the next one of the snapshot, else attach behind the
\* snapshot at once, else wait for the poll interval.
NextPage(s) ==
    IF s.more THEN [s EXCEPT !.pc = "read"]
    ELSE IF s.through # None THEN [s EXCEPT !.pc = "read", !.through = None]
    ELSE [s EXCEPT !.pc = "poll"]

EndOfPage(k) ==
    /\ Open(k) /\ stream[k].pc = "emit" /\ stream[k].after = stream[k].last
    /\ Becomes(k, NextPage(stream[k]))

\* The biased select of a poll: the close, or the interval is over.  A
\* heartbeat in between is a comment that changes nothing.
Poll(k) ==
    LET s == stream[k]
    IN  /\ Open(k) /\ s.pc = "poll"
        /\ IF network_close THEN Becomes(k, Ends(s, "wi.closed"))
           ELSE Becomes(k, [s EXCEPT !.pc = "read"])

\* Fault: a page is always read up to the head of the snapshot.
ReadSnapshot(s) == Page(s, IF s.through = None THEN s.last ELSE s.through)

ReadPage(s) == Page(s, s.through)

\* The next page, or the error that ends the stream.  The close ends it with
\* no event.
Read(k) ==
    LET s == stream[k]
    IN  /\ Open(k) /\ s.pc = "read"
        /\ IF network_close THEN Becomes(k, [s EXCEPT !.pc = "ended"])
           ELSE \/ Becomes(k, ReadPage(s))
                \/ Becomes(k, Ends(s, "wi.error"))

Owner == Start \/ Select \/ NetworkEnded \/ Connections \/ Finish
Events(k) == OpenStream(k) \/ Emit(k) \/ EndOfPage(k) \/ Poll(k) \/ Read(k)

Next ==
    \/ Owner \/ DropServe \/ Cancel
    \/ WorkerLost \/ HostCloses \/ AcceptFails \/ AxumReturns \/ Record
    \/ \E k \in Sockets : Accept(k) \/ Retire(k) \/ Events(k)

\* The runtime polls the serve future and the tasks of the connections, and
\* the host's coordinator ends (TicketsSettle and ClosedMeansClosed of RunHost).
\* A closed network ends every connection, whatever its client does.
Fairness ==
    /\ WF_vars(Owner) /\ WF_vars(HostCloses)
    /\ WF_vars(AxumReturns /\ network' = "ok")
    /\ \A k \in Sockets : WF_vars(network_close /\ Retire(k)) /\ WF_vars(Events(k))

Spec == Init /\ [][Next]_vars /\ Fairness

-----------------------------------------------------------------------------

\* What serve returns is the end of everything it served: no socket is left,
\* the listener accepts nothing more, the host's shutdown has its outcome, and
\* a failure of the listener is not lost behind a network that ended well.  A
\* future that is dropped, even before its first poll, shuts the host down.
OutcomeIsFinal ==
    /\ serving = "done" =>
          /\ NoSocket /\ network \in Ended
          /\ outcome.shutdown = host /\ host \in {"closed", "incomplete"}
          /\ failure => outcome.http = "accept_failed"
    /\ serving = "dropped" => network_close /\ host # "open"

\* A stream sends the records behind its cursor one by one, none left out and
\* none repeated, over the pages of the snapshot and those read after it, and
\* tells its client of a close only when the network is closed.
EventsExact ==
    \A k \in Sockets :
        /\ \A i \in DOMAIN stream[k].sent : stream[k].sent[i] = stream[k].start + i
        /\ stream[k].end = "wi.closed" => network_close

\* An open stream gets every record of the session, again and again: it attaches
\* behind its snapshot with the cursor that it has reached, so that it is over or
\* has sent every record behind its cursor (stream_response).
CaughtUp(k) == \/ stream[k].pc \in {"none", "ended"}
               \/ stream[k].start + Len(stream[k].sent) >= head

\* Once the caller cancels or the network fails, serve returns, unless its
\* future is dropped: the drain waits for nothing that the close does not end.
MustReturn == shutdown \/ failure \/ network \in Ended
Returned == serving \in {"done", "dropped"}
=============================================================================
