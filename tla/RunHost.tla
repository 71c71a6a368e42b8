------------------------------- MODULE RunHost -------------------------------
(***************************************************************************)
(* The run host (service/mod.rs, service/tickets.rs) together with the     *)
(* store it owns (Lifecycle): registration of dispatches under the gate,   *)
(* one tracked worker per dispatch that opens the session and executes the *)
(* run under an execution hold, tickets, cancellation, and the shutdown    *)
(* coordinator.  Workers may panic, and the runtime may stop and destroy   *)
(* every task.                                                             *)
(*                                                                         *)
(* What a run does with the provider and the tools is abstracted to the    *)
(* sequence of storage calls it awaits.                                    *)
(***************************************************************************)
EXTENDS Naturals, FiniteSets

CONSTANTS Dispatches,  \* identities of dispatches
          Requests,    \* what can be submitted: [session, operation, run]
          NoRequest,
          Readers,     \* storage operations of others (HTTP reads)
          TheStore, NoStore, UsizeMax

ASSUME HostAssumption ==
    /\ TheStore # NoStore /\ UsizeMax \in Nat \ {0}
    /\ IsFiniteSet((Dispatches \X {"hold", "call"}) \cup Readers)
    /\ NoRequest \notin Requests
    /\ Dispatches \cap {"none", "host"} = {}

VARIABLES
    \* HostInner
    runtime,      \* the tokio runtime is running
    dropped,      \* the RunHost value was dropped
    gateClosing,  \* Gate.closing
    workerLost,   \* Gate.worker_lost
    entries,      \* the keys of Gate.entries
    request,      \* what was submitted under a dispatch
    cancelled,    \* dispatches whose CancellationToken is cancelled
    pc,           \* where the worker of a dispatch is
    call,         \* the storage call that the worker awaits
    result,       \* what the worker will report
    acceptance,   \* TicketState.acceptance is Some
    completion,   \* TicketState.completion
    starter,      \* the party that closed the gate and has yet to spawn the coordinator
    coord,        \* where the shutdown coordinator is
    outcome,      \* the published ShutdownOutcome
    \* SessionStore
    holder, phase, lease, admitted, closing, unhealthy, guards, stray, waiter, woken

hostVars == <<runtime, dropped, gateClosing, workerLost, entries, request, cancelled,
              pc, call, result, acceptance, completion, starter, coord, outcome>>
storeVars == <<holder, phase, lease, admitted, closing, unhealthy, guards, stray,
               waiter, woken>>
vars == <<hostVars, storeVars>>

Hold(d) == <<d, "hold">>   \* the ExecutionHold of the worker
Call(d) == <<d, "call">>   \* the OperationGuard of its storage call

Storage == INSTANCE Lifecycle WITH
    Stores <- {TheStore},
    Guards <- (Dispatches \X {"hold", "call"}) \cup Readers,
    Waiters <- {"coordinator"}

\* The stages of a worker's job that await storage calls: open_session; then
\* under the hold the receipt lookups and history pages, the acceptance, the
\* records of the run, its RunFinished event and its result, or the run record
\* of a duplicate.  One call stands for the lookups, and one for the records
\* of the run before its end.
HeldStages == {"lookup", "accept", "run", "recorded", "event", "final", "duplicate"}
CallStages == {"open"} \cup (HeldStages \ {"recorded"})
JobStages == {"open", "admit"} \cup HeldStages
Tracked == {"spawned", "returned", "lost", "retired", "finished"} \cup JobStages

Results == {"none", "open_failed", "failed", "executed", "lost"}

TypeOK ==
    /\ runtime \in BOOLEAN /\ dropped \in BOOLEAN
    /\ gateClosing \in BOOLEAN /\ workerLost \in BOOLEAN
    /\ entries \subseteq {d \in Dispatches : pc[d] \in Tracked}
    /\ cancelled \subseteq Dispatches
    /\ request \in [Dispatches -> Requests \cup {NoRequest}]
    /\ pc \in [Dispatches -> Tracked \cup {"free", "done"}]
    /\ call \in [Dispatches -> {"none", "pending", "ok", "err"}]
    /\ result \in [Dispatches -> Results] /\ completion \in [Dispatches -> Results]
    /\ acceptance \in [Dispatches -> BOOLEAN]
    /\ starter \in {"none", "host"} \cup Dispatches
    /\ coord \in {"none", "draining", "closing", "finished", "lost"}
    /\ outcome \in {"none", "closed", "incomplete"}
    /\ Storage!TypeOK

\* RunHost::new over a store that is open.
Init ==
    /\ runtime = TRUE /\ dropped = FALSE /\ gateClosing = FALSE /\ workerLost = FALSE
    /\ entries = {} /\ cancelled = {} /\ starter = "none"
    /\ request = [d \in Dispatches |-> NoRequest]
    /\ pc = [d \in Dispatches |-> "free"]
    /\ call = [d \in Dispatches |-> "none"]
    /\ result = [d \in Dispatches |-> "none"]
    /\ acceptance = [d \in Dispatches |-> FALSE]
    /\ completion = [d \in Dispatches |-> "none"]
    /\ coord = "none" /\ outcome = "none"
    /\ holder = TheStore
    /\ phase = [s \in {TheStore} |-> "open"]
    /\ lease = [s \in {TheStore} |-> TRUE]
    /\ admitted = [s \in {TheStore} |-> 0]
    /\ closing = [s \in {TheStore} |-> FALSE]
    /\ unhealthy = [s \in {TheStore} |-> FALSE]
    /\ guards = [s \in {TheStore} |-> {}]
    /\ stray = [s \in {TheStore} |-> FALSE]
    /\ waiter = [s \in {TheStore} |-> [w \in {"coordinator"} |-> "idle"]]
    /\ woken = [s \in {TheStore} |-> [w \in {"coordinator"} |-> FALSE]]

-----------------------------------------------------------------------------
(***************************************************************************)
(* Clients.                                                                *)
(***************************************************************************)

has_other_operation(r) ==
    \E e \in entries : /\ request[e].session = r.session
                       /\ request[e].operation # r.operation

\* register returns Closed, or ActiveRun to an exclusive caller, otherwise.
Registrable(r, exclusive) ==
    /\ ~gateClosing
    /\ exclusive => ~has_other_operation(r)

\* submit and submit_exclusive: a dispatch gets a fresh identity, and its
\* worker is tracked before it is spawned.
Submit(d, r, exclusive) ==
    /\ pc[d] = "free" /\ d = CHOOSE e \in Dispatches : pc[e] = "free"
    /\ Registrable(r, exclusive)
    /\ entries' = entries \cup {d}
    /\ request' = [request EXCEPT ![d] = r]
    /\ pc' = [pc EXCEPT ![d] = "spawned"]
    /\ UNCHANGED <<runtime, dropped, gateClosing, workerLost, cancelled, call, result,
                   acceptance, completion, starter, coord, outcome, storeVars>>

\* RunClient::cancel reaches every dispatch of the run.
Cancel(r) ==
    LET named == {e \in entries : /\ request[e].session = r.session
                                  /\ request[e].run = r.run}
    IN  /\ ~gateClosing
        /\ named # {}
        /\ cancelled' = cancelled \cup named
        /\ UNCHANGED <<runtime, dropped, gateClosing, workerLost, entries, request, pc, call,
                       result, acceptance, completion, starter, coord, outcome, storeVars>>

\* Fault: the gate is closed but running work is not asked to stop.
CloseGateNoCancel(who) ==
    /\ gateClosing' = TRUE
    /\ starter' = IF gateClosing THEN starter ELSE who
    /\ UNCHANGED cancelled

\* close_gate: the first to close it goes on to spawn the coordinator.
CloseGate(who) ==
    /\ gateClosing' = TRUE
    /\ starter' = IF gateClosing THEN starter ELSE who
    /\ cancelled' = IF gateClosing THEN cancelled ELSE Dispatches

\* begin_shutdown, called by the owner or by dropping the RunHost.
BeginShutdown ==
    /\ ~dropped
    /\ dropped' \in BOOLEAN
    /\ CloseGate("host")
    /\ UNCHANGED <<runtime, workerLost, entries, request, pc, call, result, acceptance,
                   completion, coord, outcome, storeVars>>

\* spawn_shutdown
SpawnCoordinator(who) ==
    /\ starter = who
    /\ starter' = "none"
    /\ coord' = "draining"

HostSpawnsCoordinator ==
    /\ SpawnCoordinator("host")
    /\ UNCHANGED <<runtime, dropped, gateClosing, workerLost, entries, request, cancelled, pc,
                   call, result, acceptance, completion, outcome, storeVars>>

-----------------------------------------------------------------------------
(***************************************************************************)
(* The storage calls a worker awaits.  Each runs in a task of its own, so  *)
(* it goes on when the worker is gone.                                     *)
(***************************************************************************)

KeepHost == UNCHANGED <<runtime, dropped, gateClosing, workerLost, entries, request, cancelled,
                        acceptance, completion, starter, coord, outcome>>

\* operation(): admitted, or refused as Closed.
CallStart(d) ==
    /\ pc[d] \in CallStages
    /\ call[d] = "none"
    /\ \/ Storage!Admit(TheStore, Call(d)) /\ call' = [call EXCEPT ![d] = "pending"]
       \/ /\ ~Storage!Admissible(TheStore)
          /\ call' = [call EXCEPT ![d] = "err"]
          /\ UNCHANGED storeVars
    /\ KeepHost /\ UNCHANGED <<pc, result>>

\* What the worker sees of a call that ended; nothing when it is gone.
Seen(d, r) == IF pc[d] \in CallStages THEN r ELSE "none"

CallReturn(d) ==
    /\ call[d] = "pending"
    /\ Storage!Finish(TheStore, Call(d))
    /\ \E r \in {"ok", "err"} : call' = [call EXCEPT ![d] = Seen(d, r)]
    /\ KeepHost /\ UNCHANGED <<pc, result>>

\* The task of the call panics, or is destroyed with the runtime.
CallLost(d) ==
    /\ call[d] = "pending"
    /\ Storage!Lose(TheStore, Call(d))
    /\ call' = [call EXCEPT ![d] = Seen(d, "err")]
    /\ KeepHost /\ UNCHANGED <<pc, result>>

\* Storage operations of others, and a connection that cannot be retired.
Reader(g) ==
    /\ Storage!Admit(TheStore, g) \/ Storage!Finish(TheStore, g)
    /\ UNCHANGED hostVars

ConnectionUncertain ==
    /\ Storage!Quarantine(TheStore)
    /\ UNCHANGED hostVars

-----------------------------------------------------------------------------
(***************************************************************************)
(* The job of a worker.                                                    *)
(***************************************************************************)

Goto(d, stage) ==
    /\ pc' = [pc EXCEPT ![d] = stage]
    /\ call' = [call EXCEPT ![d] = "none"]

Return(d, r) ==
    /\ Goto(d, "returned")
    /\ result' = [result EXCEPT ![d] = r]

Polled(d) ==
    /\ pc[d] = "spawned"
    /\ Goto(d, "open")
    /\ KeepHost /\ UNCHANGED <<result, storeVars>>

SessionOpened(d) ==
    /\ pc[d] = "open"
    /\ \/ call[d] = "ok" /\ Goto(d, "admit") /\ UNCHANGED result
       \/ call[d] = "err" /\ Return(d, "open_failed")
    /\ KeepHost /\ UNCHANGED storeVars

\* run_owned takes the execution hold.
TakeHold(d) ==
    /\ pc[d] = "admit"
    /\ \/ /\ Storage!Admit(TheStore, Hold(d))
          /\ Goto(d, "lookup") /\ UNCHANGED result
       \/ /\ ~Storage!Admissible(TheStore)
          /\ Return(d, "failed") /\ UNCHANGED storeVars
    /\ KeepHost

\* run_held: the receipt and the history were read, the acceptance follows.
LookedUp(d) ==
    /\ pc[d] = "lookup"
    /\ call[d] = "ok"
    /\ Goto(d, "accept")
    /\ KeepHost /\ UNCHANGED <<result, storeVars>>

\* The acceptance is committed: notify publishes it on the ticket, then the
\* run starts or the original run is looked up.
Accepted(d) ==
    /\ pc[d] = "accept"
    /\ call[d] = "ok"
    /\ acceptance' = [acceptance EXCEPT ![d] = @ \/ completion[d] = "none"]
    /\ \E stage \in {"run", "duplicate"} : Goto(d, stage)
    /\ UNCHANGED <<runtime, dropped, gateClosing, workerLost, entries, request, cancelled,
                   result, completion, starter, coord, outcome, storeVars>>

\* A record of the run was committed, and the run goes on.
Recorded(d) ==
    /\ pc[d] = "run"
    /\ call[d] = "ok"
    /\ Goto(d, "recorded")
    /\ KeepHost /\ UNCHANGED <<result, storeVars>>

\* The run ends: it is complete, failed, or noticed its cancellation.
RunEnds(d) ==
    /\ pc[d] \in {"run", "recorded"}
    /\ call[d] = "none"
    /\ Goto(d, "event")
    /\ KeepHost /\ UNCHANGED <<result, storeVars>>

EventRecorded(d) ==
    /\ pc[d] = "event"
    /\ call[d] = "ok"
    /\ Goto(d, "final")
    /\ KeepHost /\ UNCHANGED <<result, storeVars>>

\* run_held returned: the hold is finished and the result is reported.  A
\* storage failure ends it at any stage, preflight may reject the run before
\* it is accepted.
JobReturns(d) ==
    /\ \/ call[d] = "err" /\ pc[d] \in HeldStages /\ Return(d, "failed")
       \/ call[d] = "none" /\ pc[d] = "accept" /\ Return(d, "failed")
       \/ call[d] = "ok" /\ pc[d] \in {"final", "duplicate"} /\ Return(d, "executed")
    /\ Storage!Finish(TheStore, Hold(d))
    /\ KeepHost

-----------------------------------------------------------------------------
(***************************************************************************)
(* The end of a worker.                                                    *)
(***************************************************************************)

\* Fault: unwinding finishes the hold like a return does.
DropHoldFinished(d) ==
    IF pc[d] \in HeldStages THEN Storage!Finish(TheStore, Hold(d)) ELSE UNCHANGED storeVars

DropHold(d) ==
    IF pc[d] \in HeldStages THEN Storage!Lose(TheStore, Hold(d)) ELSE UNCHANGED storeVars

\* WorkerGuard::drop of a registered worker reports WorkerLost.
GuardDropped(d) == pc' = [pc EXCEPT ![d] = "lost"]

\* The job panics, or the stopped runtime destroys the future: the hold is
\* dropped unfinished before the WorkerGuard reports.  A call in progress is
\* a task of its own and stays.
WorkerUnwinds(d) ==
    /\ \/ pc[d] \in JobStages
       \/ pc[d] = "spawned" /\ ~runtime
    /\ GuardDropped(d)
    /\ result' = [result EXCEPT ![d] = "lost"]
    /\ call' = [call EXCEPT ![d] = IF @ = "pending" THEN @ ELSE "none"]
    /\ DropHold(d)
    /\ KeepHost

\* Fault: a lost worker is retired like one that returned.
NoteLost(d) == UNCHANGED <<workerLost, gateClosing, starter, cancelled>>

NoteResult(d) ==
    IF result[d] = "lost"
    THEN workerLost' = TRUE /\ CloseGate(d)
    ELSE UNCHANGED <<workerLost, gateClosing, starter, cancelled>>

RemoveEntry(d) == entries' = entries \ {d}

\* WorkerGuard::finish, under the gate.
Retire(d) ==
    /\ pc[d] \in {"returned", "lost"}
    /\ NoteResult(d)
    /\ RemoveEntry(d)
    /\ pc' = [pc EXCEPT ![d] = "retired"]
    /\ UNCHANGED <<runtime, dropped, request, call, result, acceptance, completion, coord,
                   outcome, storeVars>>

\* Fault: a worker that was lost leaves its ticket as it is.
SettleReturned(d) ==
    completion' = [completion EXCEPT ![d] = IF result[d] = "lost" THEN @ ELSE result[d]]

\* publish_completion: the first completion stays.
Settle(d) ==
    completion' = [completion EXCEPT ![d] = IF @ = "none" THEN result[d] ELSE @]

\* WorkerGuard::finish, after the gate: the ticket, then the coordinator.
Publish(d) ==
    /\ pc[d] = "retired"
    /\ Settle(d)
    /\ pc' = [pc EXCEPT ![d] = "finished"]
    /\ IF starter = d THEN SpawnCoordinator(d) ELSE UNCHANGED <<starter, coord>>
    /\ UNCHANGED <<runtime, dropped, gateClosing, workerLost, entries, request, cancelled,
                   call, result, acceptance, outcome, storeVars>>

\* The tracked future is dropped.
Untrack(d) ==
    /\ pc[d] = "finished"
    /\ pc' = [pc EXCEPT ![d] = "done"]
    /\ KeepHost /\ UNCHANGED <<call, result, storeVars>>

-----------------------------------------------------------------------------
(***************************************************************************)
(* The shutdown coordinator.                                               *)
(***************************************************************************)

\* Fault: storage is closed without waiting for the workers.
DrainedAlways == TRUE

\* tracker.wait() returns.
Drained == \A d \in Dispatches : pc[d] \notin Tracked

CoordinatorDrains ==
    /\ coord = "draining"
    /\ Drained
    /\ coord' = "closing"
    /\ Storage!CloseEnable(TheStore, "coordinator")
    /\ UNCHANGED <<runtime, dropped, gateClosing, workerLost, entries, request, cancelled, pc,
                   call, result, acceptance, completion, starter, outcome>>

\* store.close() looks, waits and looks again.
CoordinatorCloses ==
    /\ coord = "closing"
    /\ \/ Storage!CloseCheck(TheStore, "coordinator")
       \/ Storage!CloseEnable(TheStore, "coordinator")
    /\ UNCHANGED hostVars

CoordinatorFinishes ==
    /\ coord = "closing"
    /\ waiter[TheStore]["coordinator"] \in {"closed", "failed"}
    /\ coord' = "finished"
    /\ outcome' = IF workerLost \/ waiter[TheStore]["coordinator"] = "failed"
                  THEN "incomplete" ELSE "closed"
    /\ UNCHANGED <<runtime, dropped, gateClosing, workerLost, entries, request, cancelled, pc,
                   call, result, acceptance, completion, starter, storeVars>>

\* The coordinator panics, or is destroyed with the runtime.
CoordinatorLost ==
    /\ coord \in {"draining", "closing"}
    /\ coord' = "lost"
    /\ workerLost' = TRUE
    /\ outcome' = "incomplete"
    /\ IF waiter[TheStore]["coordinator"] = "idle"
       THEN UNCHANGED storeVars
       ELSE Storage!CloseLeave(TheStore, "coordinator")
    /\ UNCHANGED <<runtime, dropped, gateClosing, entries, request, cancelled, pc, call,
                   result, acceptance, completion, starter>>

-----------------------------------------------------------------------------

\* External: the runtime is shut down; its tasks are destroyed one by one,
\* and may still take steps before that.
RuntimeStops ==
    /\ runtime
    /\ runtime' = FALSE
    /\ UNCHANGED <<dropped, gateClosing, workerLost, entries, request, cancelled, pc, call,
                   result, acceptance, completion, starter, coord, outcome, storeVars>>

\* The last reference to HostInner goes, and with it the store.
HostFreed ==
    /\ dropped
    /\ Drained
    /\ starter = "none" /\ coord \in {"finished", "lost"}
    /\ Storage!StoreDrop(TheStore)
    /\ UNCHANGED hostVars

WorkerStep(d) ==
    \/ CallStart(d) \/ CallReturn(d) \/ CallLost(d)
    \/ Polled(d) \/ SessionOpened(d) \/ TakeHold(d) \/ Accepted(d)
    \/ LookedUp(d) \/ Recorded(d) \/ RunEnds(d) \/ EventRecorded(d) \/ JobReturns(d)
    \/ WorkerUnwinds(d) \/ Retire(d) \/ Publish(d) \/ Untrack(d)

Next ==
    \/ \E d \in Dispatches, r \in Requests, exclusive \in BOOLEAN : Submit(d, r, exclusive)
    \/ \E r \in Requests : Cancel(r)
    \/ BeginShutdown \/ HostSpawnsCoordinator
    \/ \E d \in Dispatches : WorkerStep(d)
    \/ \E g \in Readers : Reader(g)
    \/ ConnectionUncertain
    \/ CoordinatorDrains \/ CoordinatorCloses \/ CoordinatorFinishes \/ CoordinatorLost
    \/ RuntimeStops
    \/ HostFreed

Spec == Init /\ [][Next]_vars

\* Workers, storage calls and the coordinator are polled while the runtime
\* runs, and destroyed when it is stopped.  A run is bound to end only when
\* it is cancelled, by its token or by the closing token of the store: the
\* controller looks at the token between any two things it awaits.
MustStop(d) == d \in cancelled \/ closing[TheStore]

\* A worker that is polled goes on; a panic is never due.
Progress(d) ==
    \/ pc[d] # "run" /\ CallStart(d)
    \/ CallReturn(d)
    \/ Polled(d) \/ SessionOpened(d) \/ TakeHold(d) \/ LookedUp(d) \/ Accepted(d)
    \/ Recorded(d) \/ EventRecorded(d) \/ JobReturns(d)
    \/ MustStop(d) /\ RunEnds(d)
    \/ ~runtime /\ WorkerUnwinds(d)
    \/ Retire(d) \/ Publish(d) \/ Untrack(d)

Coordinate ==
    \/ HostSpawnsCoordinator \/ CoordinatorDrains \/ CoordinatorCloses
    \/ CoordinatorFinishes
    \/ ~runtime /\ CoordinatorLost

Fairness ==
    /\ \A d \in Dispatches : WF_vars(Progress(d))
    /\ \A g \in Readers : WF_vars(Storage!Finish(TheStore, g) /\ UNCHANGED hostVars)
    /\ WF_vars(Coordinate)

FairSpec == Spec /\ Fairness

-----------------------------------------------------------------------------
(***************************************************************************)
(* Properties.                                                             *)
(***************************************************************************)

\* The host drains its runs while storage is writable and closes it last:
\* unless the store quarantined itself, it stops admitting operations only
\* when no worker is left, however registration, panics and shutdown race.
WorkersKeepStoreOpen ==
    closing[TheStore] /\ ~unhealthy[TheStore] =>
        \A d \in Dispatches : pc[d] \in {"free", "done"}

\* A shutdown that reports Closed means that every submitted run has reported
\* on its ticket and none was lost, that no operation of the store is left,
\* and that another process may take the root.  And when a ticket reports that
\* a worker was lost after its run was accepted, what the run started may still
\* be going on: no other process gets the root, even after the host is gone.
ClosedMeansClosed ==
    /\ outcome = "closed" =>
          /\ entries = {}
          /\ \A d \in Dispatches :
                request[d] # NoRequest => completion[d] \notin {"none", "lost"}
          /\ guards[TheStore] = {} /\ ~stray[TheStore] /\ holder # TheStore
    /\ \A d \in Dispatches :
          acceptance[d] /\ completion[d] = "lost" => unhealthy[TheStore] /\ holder = TheStore

\* Nothing waits forever: every submitted dispatch that is cancelled, by its run or
\* by the gate, reports on its ticket, whether or not its entry has left the gate;
\* and once the gate is closed, by the owner or because a worker was lost, the
\* shutdown ticket gets its outcome, also when workers panic or the runtime is
\* stopped (WorkerGuard::finish, spawn_shutdown).
TicketsSettle ==
    []<>(/\ \A d \in cancelled : request[d] # NoRequest => completion[d] # "none"
         /\ gateClosing => outcome # "none")
=============================================================================
