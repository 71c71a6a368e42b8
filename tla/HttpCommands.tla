---------------------------- MODULE HttpCommands ----------------------------
(***************************************************************************)
(* Commands sent over HTTP to one session: the handlers of                 *)
(* http_api/router/runs.rs (submit, reconcile_task) and the create and     *)
(* rename arms of dispatch in http_api/router.rs, the dispatches they      *)
(* leave with the run host and the store, and the pending commands of the  *)
(* browser (web/src/display-client.ts), which sends, loses the answer,     *)
(* retries and reconciles.                                                 *)
(*                                                                         *)
(* A handler ends when its client goes away or the network closes; what it *)
(* dispatched goes on without it.  The store's side is the ledger of       *)
(* operations: what it holds for an operation never changes, so the reads  *)
(* of raw_receipt are one step.                                            *)
(***************************************************************************)
EXTENDS Naturals, FiniteSets

CONSTANTS Commands,   \* [kind, op, text]: kind "task", "rename" or "create"
          Scenarios,  \* sets of commands that are sent together
          Attempts,   \* 1..n, requests in the order they are sent
          None        \* no command, operation, request or answer

VARIABLES
    closing,   \* "gate": Gate.closing of the run host; "network": network_close too
    ledger,    \* the command that each operation recorded, or None
    active,    \* the operation of the session's unfinished run, or None
    handler,   \* the handler of each request
    worker,    \* what the request dispatched
    ticket,    \* what its TicketState tells the handler
    pending    \* the browser's DisplayPendingCommand of each command

vars == <<closing, ledger, active, handler, worker, ticket, pending>>

Ops == {c.op : c \in Commands}
Recorded(c) == ledger[c.op] = c
Sent == DOMAIN pending

Errors == {"command_conflict", "active_run", "prepare", "closed", "storage",
           "commit_unknown", "worker_lost", "network_closed"}
Replies == {"accepted", "not_found", "conflict", "refused", "unknown"}
Completions == Errors \cup {"committed", "cleanup", "failed_later"}
Live == {"open", "accept", "committed", "running"}

ASSUME CommandsAssumption ==
    /\ \A c \in Commands : c.kind \in {"task", "rename", "create"}
    /\ Scenarios \subseteq SUBSET Commands
    /\ Attempts \subseteq Nat
    /\ None \notin Commands /\ None \notin Attempts
    /\ None \notin Completions \cup Replies \cup {"acceptance"}

\* A request with no handler, and one with no dispatch.
Without(pc) == [pc |-> pc, command |-> None, reconciles |-> FALSE, observed |-> None,
                reply |-> None]
NoWorker == [pc |-> "none", command |-> None]

TypeOK ==
    /\ closing \in {"no", "gate", "network"}
    /\ ledger \in [Ops -> Commands \cup {None}]
    /\ active \in Ops \cup {None}
    /\ handler \in [Attempts ->
         [pc : {"idle", "lookup", "prepare", "write", "wait", "refresh", "reconcile",
                "answered", "gone"},
          command : Commands \cup {None}, reconciles : BOOLEAN,
          observed : Errors \cup {None}, reply : Replies \cup {None}]]
    /\ worker \in [Attempts -> [pc : {"none"} \cup Live, command : Commands \cup {None}]]
    /\ ticket \in [Attempts -> {None, "acceptance"} \cup Completions]
    /\ DOMAIN pending \in Scenarios
    /\ pending \in [DOMAIN pending ->
         [phase : {"none", "sending", "reconciling", "uncertain", "rejected", "accepted",
                   "conflict"},
          before : STRING, receipt : BOOLEAN, waiter : Attempts \cup {None}]]

Init ==
    /\ closing = "no"
    /\ ledger = [o \in Ops |-> None] /\ active = None
    /\ handler = [a \in Attempts |-> Without("idle")]
    /\ worker = [a \in Attempts |-> NoWorker]
    /\ ticket = [a \in Attempts |-> None]
    /\ \E sent \in Scenarios :
         pending = [c \in sent |-> [phase |-> "none", before |-> "none", receipt |-> FALSE,
                                  waiter |-> None]]

-----------------------------------------------------------------------------
(***************************************************************************)
(* Answers.                                                                *)
(***************************************************************************)

\* What the browser can tell of an ErrorView: the code of a conflict, and
\* whether its certainty is unknown.
ErrorView(error) ==
    CASE error = "command_conflict" -> "conflict"
      [] error \in {"commit_unknown", "network_closed", "worker_lost"} -> "unknown"
      [] OTHER -> "refused"

Waiting(a) == \E c \in Sent : pending[c].waiter = a

\* The handler returns; nobody reads the answer of a request that was given up.
Answer(a, reply) ==
    handler' = [handler EXCEPT ![a] =
        IF Waiting(a) THEN [Without("answered") EXCEPT !.reply = reply] ELSE Without("gone")]

Goes(a, pc) == handler' = [handler EXCEPT ![a].pc = pc]

\* Keep the observed error for one more look at the ledger.
Reconciles(a, error) ==
    handler' = [handler EXCEPT ![a].pc = "reconcile", ![a].observed = error]

Forget(a) == ticket' = [ticket EXCEPT ![a] = None]

-----------------------------------------------------------------------------
(***************************************************************************)
(* Handlers.                                                               *)
(***************************************************************************)

\* Fault: any receipt of the operation will do.
AnyReceipt(c) == IF ledger[c.op] = None THEN "none" ELSE "accepted"

\* The canonical command of the operation, not merely its receipt.
raw_receipt(c) ==
    CASE ledger[c.op] = None -> "none"
      [] Recorded(c) -> "accepted"
      [] OTHER -> "conflict"

\* Requests of this session whose dispatch the host still tracks.
has_other_active_operation(a) ==
    \E b \in Attempts : /\ worker[b].pc \in Live
                        /\ worker[b].command.kind = "task"
                        /\ worker[b].command.op # handler[a].command.op

\* submit and reconcile_task begin alike: open the session, read the receipt.
Lookup(a) ==
    LET c == handler[a].command
        found == raw_receipt(c)
    IN  /\ handler[a].pc = "lookup"
        /\ \/ Answer(a, ErrorView("storage"))
           \/ /\ found = "conflict"
              /\ Answer(a, ErrorView("command_conflict"))
           \/ /\ found = "accepted"
              /\ Answer(a, "accepted")
           \/ /\ found = "none"
              /\ IF handler[a].reconciles THEN Answer(a, "not_found")
                 ELSE IF closing = "no" /\ has_other_active_operation(a)
                 THEN Reconciles(a, "active_run")
                 ELSE Goes(a, "prepare")
        /\ UNCHANGED <<closing, ledger, active, worker, ticket, pending>>

Spawn(a, pc) == worker' = [worker EXCEPT ![a] = [pc |-> pc, command |-> handler[a].command]]

\* prepare reads the context, then submit_exclusive registers the dispatch.
Prepare(a) ==
    /\ handler[a].pc = "prepare"
    /\ \/ Reconciles(a, "prepare") /\ UNCHANGED worker
       \/ IF closing # "no" THEN Reconciles(a, "closed") /\ UNCHANGED worker
          ELSE IF has_other_active_operation(a)
          THEN Reconciles(a, "active_run") /\ UNCHANGED worker
          ELSE Goes(a, "wait") /\ Spawn(a, "open")
    /\ UNCHANGED <<closing, ledger, active, ticket, pending>>

\* create_session, or open_session and rename: the store owns the write.
Write(a) ==
    /\ handler[a].pc = "write"
    /\ \/ Answer(a, ErrorView("storage")) /\ UNCHANGED worker
       \/ Goes(a, "wait") /\ Spawn(a, "accept")
    /\ UNCHANGED <<closing, ledger, active, ticket, pending>>

\* completion_view: a failure that carries the acceptance is an acceptance.
completion_view(told) ==
    IF told \in Errors THEN ErrorView(told) ELSE "accepted"

\* A task reconciles what its ticket refuses.  A rename with no cleanup warning
\* refreshes the catalog before it answers.
Wait(a) ==
    LET c == handler[a].command
        view == completion_view(ticket[a])
    IN  /\ handler[a].pc = "wait" /\ ticket[a] # None
        /\ IF view # "accepted"
           THEN IF c.kind = "task" THEN Reconciles(a, ticket[a]) ELSE Answer(a, view)
           ELSE IF c.kind = "rename" /\ ticket[a] = "committed"
           THEN Goes(a, "refresh")
           ELSE Answer(a, view)
        /\ Forget(a)
        /\ UNCHANGED <<closing, ledger, active, worker, pending>>

\* A failure of the catalog cannot revoke the canonical receipt.
Refreshed(a, ok) == Answer(a, "accepted")

Refresh(a) ==
    /\ handler[a].pc = "refresh"
    /\ \E ok \in BOOLEAN : Refreshed(a, ok)
    /\ UNCHANGED <<closing, ledger, active, worker, ticket, pending>>

\* One read: the receipt if it is there, else the error that was observed.
reconcile(a) ==
    /\ handler[a].pc = "reconcile"
    /\ \/ /\ raw_receipt(handler[a].command) = "accepted"
          /\ Answer(a, "accepted")
       \/ Answer(a, ErrorView(handler[a].observed))
    /\ UNCHANGED <<closing, ledger, active, worker, ticket, pending>>

\* handle: the biased select ends the waiter when the network closes.  A poll
\* that has begun may still take its step.
Closed(a) ==
    /\ closing = "network"
    /\ handler[a].pc \notin {"idle", "answered", "gone"}
    /\ Answer(a, ErrorView("network_closed"))
    /\ Forget(a)
    /\ UNCHANGED <<closing, ledger, active, worker, pending>>

\* The connection of a request that was given up is dropped, and its handler.
Drop(a) ==
    /\ handler[a].pc \notin {"idle", "gone"} /\ ~Waiting(a)
    /\ handler' = [handler EXCEPT ![a] = Without("gone")]
    /\ Forget(a)
    /\ UNCHANGED <<closing, ledger, active, worker, pending>>

-----------------------------------------------------------------------------
(***************************************************************************)
(* What was dispatched.                                                    *)
(***************************************************************************)

\* publish_acceptance and publish_completion: ticket.accepted() looks at the
\* acceptance first.  A ticket that no handler holds is not kept.
Tell(a, value) ==
    ticket' = [ticket EXCEPT ![a] = IF handler[a].pc # "wait" THEN None
                                    ELSE IF @ = "acceptance" THEN @ ELSE value]

\* The entry leaves the gate.
Complete(a, completion) ==
    /\ worker' = [worker EXCEPT ![a] = NoWorker]
    /\ Tell(a, completion)

Works(a, pc) ==
    /\ worker' = [worker EXCEPT ![a].pc = pc]
    /\ UNCHANGED ticket

\* The worker opens the session and takes the execution hold.
OpenSession(a) ==
    /\ worker[a].pc = "open"
    /\ \/ Complete(a, "storage")
       \/ Works(a, "accept")
    /\ UNCHANGED <<closing, ledger, active, handler, pending>>

\* The acceptance, under the session's acceptance guard.  An operation that is
\* in the ledger repeats or conflicts; a task is compared with the context that
\* was prepared for it, which may have changed between two attempts.  Otherwise the preparation of the replay
\* or of the provider may fail, another run may be active, or the store commits,
\* with or without a cleanup warning, fails, or cannot say.
Accept(a) ==
    LET c == worker[a].command
        taken == c.kind = "task" /\ active # None
        Commit == /\ ledger' = [ledger EXCEPT ![c.op] = c]
                  /\ active' = IF c.kind = "task" THEN c.op ELSE active
    IN  /\ worker[a].pc = "accept"
        /\ \/ Complete(a, "storage") /\ UNCHANGED <<ledger, active>>
           \/ /\ ledger[c.op] # None
              /\ \/ Recorded(c) /\ Complete(a, "committed")
                 \/ (c.kind = "task" \/ ~Recorded(c)) /\ Complete(a, "command_conflict")
              /\ UNCHANGED <<ledger, active>>
           \/ /\ ledger[c.op] = None /\ taken
              /\ Complete(a, "active_run")
              /\ UNCHANGED <<ledger, active>>
           \/ /\ ledger[c.op] = None /\ ~taken
              /\ \/ Commit /\ IF c.kind = "task"
                              THEN Works(a, "committed")
                              ELSE Complete(a, "committed")
                 \/ Commit /\ Complete(a, "cleanup")
                 \/ (Commit \/ UNCHANGED <<ledger, active>>) /\ Complete(a, "commit_unknown")
        /\ UNCHANGED <<closing, handler, pending>>

\* notify and publish_acceptance.
Notify(a) ==
    /\ worker[a].pc = "committed"
    /\ worker' = [worker EXCEPT ![a].pc = "running"]
    /\ Tell(a, "acceptance")
    /\ UNCHANGED <<closing, ledger, active, handler, pending>>

\* The run ends and its result is recorded, or is not.
Finish(a) ==
    /\ worker[a].pc = "running"
    /\ \/ Complete(a, "committed") /\ active' = None
       \/ Complete(a, "failed_later") /\ UNCHANGED active
    /\ UNCHANGED <<closing, ledger, handler, pending>>

\* The worker of a task panics, or the runtime destroys it: the gate closes.
Lose(a) ==
    /\ worker[a].pc \in Live /\ worker[a].command.kind = "task"
    /\ Complete(a, "worker_lost")
    /\ closing' = IF closing = "no" THEN "gate" ELSE closing
    /\ UNCHANGED <<ledger, active, handler, pending>>

\* OwnerGuard::initiate cancels network_close and closes the gate of the host.
Initiate ==
    /\ closing # "network"
    /\ closing' = "network"
    /\ UNCHANGED <<ledger, active, handler, worker, ticket, pending>>

-----------------------------------------------------------------------------
(***************************************************************************)
(* The browser.                                                            *)
(***************************************************************************)

Fresh(a) == handler[a].pc = "idle" /\ \A b \in Attempts : b < a => handler[b].pc # "idle"

\* A request that passed the boundary and the input checks reaches its handler.
Sends(a, c, reconciles) ==
    handler' = [handler EXCEPT ![a].command = c, ![a].reconciles = reconciles,
                               ![a].pc = IF c.kind = "task" THEN "lookup" ELSE "write"]

\* The item keeps the phase that it had.
Awaits(c, phase, a) ==
    pending' = [pending EXCEPT ![c].phase = phase, ![c].before = pending[c].phase,
                               ![c].waiter = a]

\* execute: a new command, or a retry of one that is uncertain or rejected.
Execute(c, a) ==
    /\ pending[c].phase \in {"none", "uncertain", "rejected"}
    /\ Fresh(a)
    /\ Sends(a, c, FALSE)
    /\ Awaits(c, "sending", a)
    /\ UNCHANGED <<closing, ledger, active, worker, ticket>>

\* reconcileTask.
ReconcileTask(c, a) ==
    /\ c.kind = "task" /\ pending[c].phase \in {"uncertain", "rejected", "accepted"}
    /\ Fresh(a)
    /\ Sends(a, c, TRUE)
    /\ Awaits(c, "reconciling", a)
    /\ UNCHANGED <<closing, ledger, active, worker, ticket>>

\* Fault: a definite refusal of a retry settles what an earlier attempt did.
RefusalSettles(item, failure) ==
    IF failure = "conflict" THEN "conflict"
    ELSE IF item.receipt THEN "accepted"
    ELSE IF item.phase = "reconciling" THEN item.before
    ELSE IF failure = "refused" THEN "rejected" ELSE "uncertain"

\* commandFailure: a failed read changes nothing, and a refusal rejects only a
\* command that was not uncertain before.
commandFailure(item, failure) ==
    IF failure = "conflict" THEN "conflict"
    ELSE IF item.receipt THEN "accepted"
    ELSE IF item.phase = "reconciling" THEN item.before
    ELSE IF failure = "refused" /\ item.before # "uncertain" THEN "rejected"
    ELSE "uncertain"

Settles(c, phase, receipt) ==
    pending' = [pending EXCEPT ![c] = [phase |-> phase, before |-> "none", receipt |-> receipt,
                                       waiter |-> None]]

\* accepted, the not_found of a reconciliation, or commandFailure.
Deliver(c) ==
    LET item == pending[c]
        a == item.waiter
        reply == handler[a].reply
    IN  /\ a # None /\ handler[a].pc = "answered"
        /\ CASE reply = "accepted" -> Settles(c, "accepted", TRUE)
             [] reply = "not_found" ->
                    Settles(c, IF item.receipt THEN "accepted" ELSE item.before, item.receipt)
             [] OTHER -> Settles(c, commandFailure(item, reply), item.receipt)
        /\ handler' = [handler EXCEPT ![a] = Without("gone")]
        /\ UNCHANGED <<closing, ledger, active, worker, ticket>>

\* abortCommandWaiter, a broken connection, or an answer that does not parse.
Abort(c) ==
    LET item == pending[c]
    IN  /\ item.waiter # None
        /\ Settles(c, commandFailure(item, "no_answer"), item.receipt)
        /\ UNCHANGED <<closing, ledger, active, handler, worker, ticket>>

Next ==
    \/ \E a \in Attempts :
          \/ Lookup(a) \/ Prepare(a) \/ Write(a) \/ Wait(a) \/ Refresh(a) \/ reconcile(a)
          \/ Closed(a) \/ Drop(a)
          \/ OpenSession(a) \/ Accept(a) \/ Notify(a) \/ Finish(a) \/ Lose(a)
    \/ \E c \in Sent, a \in Attempts : Execute(c, a) \/ ReconcileTask(c, a)
    \/ \E c \in Sent : Deliver(c) \/ Abort(c)
    \/ Initiate

Spec == Init /\ [][Next]_vars

-----------------------------------------------------------------------------

\* What the browser shows of a command is so for good.  A rejected one is not
\* in the ledger, and nothing that it sent can still put it there: every error
\* that the handlers answer with a certainty other than unknown comes after its
\* own dispatch is over without a commit, and commandFailure lets a refusal
\* reject only a command with no earlier attempt in doubt.  An accepted one is
\* the one that the ledger holds under its operation, with its text:
\* raw_receipt compares the canonical command, and a failure of a later step does
\* not take the receipt back.  A conflict means that the operation is decided: the
\* ledger holds another command under it, or, for a task alone, this one as another
\* attempt prepared it.
AnswersAreTrue ==
    \A c \in Sent :
        /\ pending[c].phase = "rejected" =>
              ~Recorded(c) /\ \A a \in Attempts : worker[a].command # c
        /\ pending[c].phase = "accepted" \/ pending[c].receipt => Recorded(c)
        /\ pending[c].phase = "conflict" =>
              ledger[c.op] # None /\ (Recorded(c) => c.kind = "task")
=============================================================================
