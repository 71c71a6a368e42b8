------------------------------ MODULE Execution ------------------------------
(***************************************************************************)
(* Persistent execution over one session (execution/mod.rs and the         *)
(* acceptance, append, rename and interruption transactions of             *)
(* storage/run_store.rs, storage/session.rs, storage/interruption.rs):     *)
(* concurrent callers with the same or different operations, retries,      *)
(* uncertain commits, cleanup warnings, callers that disappear, crashes    *)
(* and restarts.                                                           *)
(*                                                                         *)
(* A process owns the session exclusively (Lifecycle), so one store        *)
(* instance is live at a time.  The provider and the tools are in          *)
(* RunController; here a run is the records it appends.                    *)
(***************************************************************************)
EXTENDS Naturals, FiniteSets

CONSTANTS Callers, NoCaller,
          Operations, Runs, NoRun, Inputs, NoInput,
          Requests,      \* what callers ask for: [operation, run, input, method]
          MaxInstances,  \* bound on the number of process starts
          MaxHead        \* bound on events written by renames and by a run's own work

ASSUME ExecutionAssumption ==
    /\ NoCaller \notin Callers /\ NoRun \notin Runs /\ NoInput \notin Inputs
    /\ Requests \subseteq [operation : Operations, run : Runs, input : Inputs,
                           method : {"accept_run", "accept_history_run"}]
    /\ Requests # {}
    /\ MaxInstances \in Nat /\ MaxHead \in Nat

VARIABLES
    \* the session database
    head,      \* manifest.head_sequence
    commands,  \* the commands table
    runs,      \* the runs table, with the selection of a run and the position of its end
    \* the process
    instance,  \* StoreInner.instance_id, as the number of the start
    up,        \* the process runs
    closing,   \* the store admits no operation (quarantine)
    lock,      \* acceptance_locks
    \* callers of run_in_session and run_persisted
    pc, req,
    found,     \* the first lookup found a receipt
    through,   \* the selection carried to the acceptance
    report,    \* what the last call returned
    \* history
    starts     \* how often the execution of a run has begun

database == <<head, commands, runs>>
process == <<instance, up, closing>>
vars == <<database, process, lock, pc, req, found, through, report, starts>>

NoCommand == [method |-> "none", run |-> NoRun, input |-> NoInput, through |-> 0]
NoRecord == [state |-> "none", owner |-> 0, accepted |-> 0, through |-> 0, ended |-> 0,
             result |-> FALSE]

Methods == {"none", "rename", "accept_run", "accept_history_run"}
RunStates == {"none", "accepted", "running", "terminal", "interrupted"}
ExecutionStages == {"start", "begin", "going", "ended"}
LockStages == {"recheck", "prepare", "repeat", "accept", "accepting", "orphan"}
Stages == {"idle", "lookup", "lock"} \cup LockStages \cup ExecutionStages
Reports == {"none", "failed", "conflict", "executed", "duplicate"}

TypeOK ==
    /\ head \in Nat
    /\ commands \in [Operations -> [method : Methods, run : Runs \cup {NoRun},
                                    input : Inputs \cup {NoInput}, through : 0..head]]
    /\ runs \in [Runs -> [state : RunStates, owner : Nat, accepted : 0..head,
                          through : 0..head, ended : 0..head, result : BOOLEAN]]
    /\ instance \in Nat /\ up \in BOOLEAN /\ closing \in BOOLEAN
    /\ lock \in [Operations -> Callers \cup {NoCaller}]
    /\ pc \in [Callers -> Stages]
    /\ req \in [Callers -> Requests]
    /\ found \in [Callers -> BOOLEAN]
    /\ through \in [Callers -> 0..head]
    /\ report \in [Callers -> Reports]
    /\ starts \in [Runs -> Nat]

\* A new session: its creation is the first event.
Init ==
    /\ head = 1
    /\ commands = [o \in Operations |-> NoCommand]
    /\ runs = [r \in Runs |-> NoRecord]
    /\ instance = 1 /\ up = TRUE /\ closing = FALSE
    /\ lock = [o \in Operations |-> NoCaller]
    /\ pc = [c \in Callers |-> "idle"]
    /\ req = [c \in Callers |-> CHOOSE r \in Requests : TRUE]
    /\ found = [c \in Callers |-> FALSE]
    /\ through = [c \in Callers |-> 0]
    /\ report = [c \in Callers |-> "none"]
    /\ starts = [r \in Runs |-> 0]

Op(c) == req[c].operation
Run(c) == req[c].run

Active(r) == runs[r].state \in {"accepted", "running"}

-----------------------------------------------------------------------------
(***************************************************************************)
(* The transactions of the session database.                               *)
(***************************************************************************)

\* The owner of an unfinished run is a former store instance.
Abandoned(r) == Active(r) /\ runs[r].owner # instance

\* Fault: the receipt of an interrupted run is dropped, so that it can be retried.
InterruptForgets(r) ==
    /\ runs' = [runs EXCEPT ![r].state = "interrupted", ![r].ended = head + 1]
    /\ head' = head + 1
    /\ commands' = [o \in Operations |-> IF commands[o].run = r THEN NoCommand ELSE commands[o]]

\* run.interrupted
Interrupt(r) ==
    /\ runs' = [runs EXCEPT ![r].state = "interrupted", ![r].ended = head + 1]
    /\ head' = head + 1
    /\ UNCHANGED commands

\* interruption::reconcile
Reconcile ==
    IF \E r \in Runs : Abandoned(r)
    THEN \E r \in Runs : Abandoned(r) /\ Interrupt(r)
    ELSE UNCHANGED database

\* The identity that the command hash covers.
Command(c) == [method |-> req[c].method, run |-> Run(c), input |-> req[c].input,
               through |-> IF req[c].method = "accept_history_run" THEN through[c] ELSE 0]

\* Fault: the head is not compared with the selection.
VerdictNotStale(c) ==
    IF commands[Op(c)] # NoCommand
    THEN IF commands[Op(c)] = Command(c) THEN "duplicate" ELSE "conflict"
    ELSE IF runs[Run(c)] # NoRecord THEN "transition"
    ELSE IF \E r \in Runs : Active(r) THEN "active"
    ELSE "fresh"

\* What mutate decides about an acceptance: the receipt comes first.
Verdict(c) ==
    IF commands[Op(c)] # NoCommand
    THEN IF commands[Op(c)] = Command(c) THEN "duplicate" ELSE "conflict"
    ELSE IF req[c].method = "accept_history_run" /\ head # through[c] THEN "stale"
    ELSE IF runs[Run(c)] # NoRecord THEN "transition"
    ELSE IF \E r \in Runs : Active(r) THEN "active"
    ELSE "fresh"

\* run.accepted, and run.history.selected right after it.
InsertRun(c) ==
    /\ head' = head + IF req[c].method = "accept_history_run" THEN 2 ELSE 1
    /\ commands' = [commands EXCEPT ![Op(c)] = Command(c)]
    /\ runs' = [runs EXCEPT ![Run(c)] =
                  [state |-> "accepted", owner |-> instance, accepted |-> head + 1,
                   through |-> Command(c).through, ended |-> 0, result |-> FALSE]]

\* The record that the executor of a run appends at each stage: RunStarted,
\* the events of its turns, RunFinished and the result.
Appendable(c) ==
    \/ pc[c] = "begin" /\ runs[Run(c)].state = "accepted"
    \/ pc[c] = "going" /\ runs[Run(c)].state = "running"
    \/ pc[c] = "ended" /\ runs[Run(c)].state = "terminal" /\ ~runs[Run(c)].result

AppendRecord(c, kind) ==
    /\ head' = head + 1
    /\ runs' = [runs EXCEPT ![Run(c)] =
                  CASE kind = "started" -> [@ EXCEPT !.state = "running"]
                    [] kind = "work" -> @
                    [] kind = "finished" -> [@ EXCEPT !.state = "terminal", !.ended = head + 1]
                    [] kind = "result" -> [@ EXCEPT !.result = TRUE]]
    /\ UNCHANGED commands

-----------------------------------------------------------------------------
(***************************************************************************)
(* Callers: from the lookup to the acceptance.                             *)
(***************************************************************************)

Goto(c, stage) == pc' = [pc EXCEPT ![c] = stage]

Unlock(c) == lock' = [o \in Operations |-> IF lock[o] = c THEN NoCaller ELSE lock[o]]

\* run_held goes on to a stage that holds no lock and needs no selection.
Leave(c, stage) ==
    /\ Goto(c, stage)
    /\ Unlock(c)
    /\ found' = [found EXCEPT ![c] = FALSE]
    /\ through' = [through EXCEPT ![c] = 0]

Return(c, r) ==
    /\ Leave(c, "idle")
    /\ report' = [report EXCEPT ![c] = r]

\* open_session reconciles before run_owned is called.
Submit(c, r) ==
    /\ up /\ ~closing
    /\ pc[c] = "idle"
    /\ Reconcile
    /\ Goto(c, "lookup")
    /\ req' = [req EXCEPT ![c] = r]
    /\ report' = [report EXCEPT ![c] = "none"]
    /\ UNCHANGED <<process, lock, found, through, starts>>

\* The interruption was committed but its commit or cleanup failed.
OpenFails ==
    /\ up /\ ~closing
    /\ Reconcile
    /\ closing' \in BOOLEAN
    /\ UNCHANGED <<instance, up, lock, pc, req, found, through, report, starts>>

\* The first lookup of run_held, before anything is held.
Lookup(c) ==
    /\ up /\ ~closing
    /\ pc[c] = "lookup"
    /\ Goto(c, "lock")
    /\ found' = [found EXCEPT ![c] = commands[Op(c)] # NoCommand]
    /\ UNCHANGED <<database, process, lock, req, through, report, starts>>

\* run_acceptance: wait for the lock of the operation.
Lock(c) ==
    /\ up
    /\ pc[c] = "lock"
    /\ lock[Op(c)] = NoCaller
    /\ lock' = [lock EXCEPT ![Op(c)] = c]
    /\ Goto(c, IF found[c] THEN "repeat" ELSE "recheck")
    /\ UNCHANGED <<database, process, req, found, through, report, starts>>

AfterRecheck(c) == IF req[c].method = "accept_history_run" THEN "prepare" ELSE "accept"

\* Fault: the lookup is not repeated under the lock.
RecheckSkipped(c) == AfterRecheck(c)

RecheckResult(c) == IF commands[Op(c)] = NoCommand THEN AfterRecheck(c) ELSE "repeat"

Recheck(c) ==
    /\ up /\ ~closing
    /\ pc[c] = "recheck"
    /\ Goto(c, RecheckResult(c))
    /\ UNCHANGED <<database, process, lock, req, found, through, report, starts>>

\* prepare_session_replay captures the head; an unfinished run makes the
\* history incomplete.
Prepare(c) ==
    /\ up /\ ~closing
    /\ pc[c] = "prepare"
    /\ \A r \in Runs : ~Active(r)
    /\ through' = [through EXCEPT ![c] = head]
    /\ Goto(c, "accept")
    /\ UNCHANGED <<database, process, lock, req, found, report, starts>>

\* A receipt exists.  repeat_history_run takes the selection of the original
\* run, and there is none when the receipt is not that of a run with history.
Repeat(c) ==
    LET original == commands[Op(c)] IN
    /\ up /\ ~closing
    /\ pc[c] = "repeat"
    /\ IF req[c].method = "accept_history_run" /\ original.method # "accept_history_run"
       THEN Return(c, "conflict")
       ELSE /\ Goto(c, "accept")
            /\ through' = [through EXCEPT ![c] = original.through]
            /\ UNCHANGED <<lock, report, found>>
    /\ UNCHANGED <<database, process, req, starts>>

\* The acceptance is handed, with the lock, to a task of the store.
Accept(c) ==
    /\ up /\ ~closing
    /\ pc[c] = "accept"
    /\ Goto(c, "accepting")
    /\ UNCHANGED <<database, process, lock, req, found, through, report, starts>>

\* A read fails, replay or admission rejects the request, or the store admits
\* nothing any more.
Rejected(c) ==
    /\ up
    /\ pc[c] \in {"lookup", "recheck", "prepare", "repeat", "accept"}
    /\ Return(c, "failed")
    /\ UNCHANGED <<database, process, req, starts>>

\* check_commit on the acceptance: how the commit ended decides what follows.
\* Fault: a commit whose outcome is unknown is taken for committed.
GoesOnUnknown(how) == how \in {"ok", "unknown"}

GoesOn(how) == how = "ok"

\* Fault: the duplicate flag of the commit is not looked at.
ExecutesDuplicate(verdict) == verdict \in {"fresh", "duplicate"}

Executes(verdict) == verdict = "fresh"

AcceptanceOutcome(c, how) ==
    LET verdict == Verdict(c) IN
    IF pc[c] = "orphan"
    THEN Leave(c, "idle") /\ UNCHANGED report
    ELSE IF Executes(verdict) /\ GoesOn(how)
    THEN Leave(c, "start") /\ UNCHANGED report
    ELSE IF verdict = "duplicate" /\ GoesOn(how)
    THEN \E r \in {"duplicate", "failed"} : Return(c, r)
    ELSE Return(c, IF verdict = "conflict" /\ how # "error" THEN "conflict" ELSE "failed")

\* The transaction ends: acknowledged, refused with an error, committed with
\* a cleanup warning that quarantines the store, or unknown.
CommitAcceptance(c, how) ==
    /\ up
    /\ pc[c] \in {"accepting", "orphan"}
    /\ IF Verdict(c) = "fresh"
       THEN \/ how \in {"ok", "warned", "unknown"} /\ InsertRun(c)
            \/ how \in {"error", "unknown"} /\ UNCHANGED database
       ELSE /\ Verdict(c) # "duplicate" => how # "unknown"
            /\ UNCHANGED database
    /\ closing' = (closing \/ how = "warned")
    /\ AcceptanceOutcome(c, how)
    /\ UNCHANGED <<instance, up, req, starts>>

-----------------------------------------------------------------------------
(***************************************************************************)
(* Execution.                                                              *)
(***************************************************************************)

\* run_admitted is polled for the first time.
StartRun(c) ==
    /\ up
    /\ pc[c] = "start"
    /\ starts' = [starts EXCEPT ![Run(c)] = @ + 1]
    /\ Goto(c, "begin")
    /\ UNCHANGED <<database, process, lock, req, found, through, report>>

AfterAppend(c, kind) ==
    CASE kind \in {"started", "work"} -> Goto(c, "going") /\ UNCHANGED <<report, lock, found, through>>
      [] kind = "finished" -> Goto(c, "ended") /\ UNCHANGED <<report, lock, found, through>>
      [] kind = "result" -> Return(c, "executed")

\* check_commit on a record of the run: a warning on the final result is
\* returned with it.
Acknowledged(kind, how) == how = "ok" \/ (how = "warned" /\ kind = "result")

\* PersistentObserver::append, and the append of the final result.  After a
\* failure, or a cleanup warning, the run is wound up and appends no more.
Append(c, kind, how) ==
    /\ up
    /\ \/ pc[c] = "begin" /\ kind = "started"
       \/ pc[c] = "going" /\ kind = "work" /\ head < MaxHead
       \/ pc[c] = "going" /\ kind = "finished"
       \/ pc[c] = "ended" /\ kind = "result"
    /\ \/ closing /\ how = "error" /\ UNCHANGED database
       \/ /\ ~closing
          /\ \/ Appendable(c) /\ how \in {"ok", "warned", "unknown"} /\ AppendRecord(c, kind)
             \/ how \in {"error", "unknown"} /\ UNCHANGED database
    /\ closing' = (closing \/ how = "warned")
    /\ IF Acknowledged(kind, how)
       THEN AfterAppend(c, kind)
       ELSE Return(c, "failed")
    /\ UNCHANGED <<instance, up, req, starts>>

-----------------------------------------------------------------------------
(***************************************************************************)
(* The environment.                                                        *)
(***************************************************************************)

\* The caller is destroyed or panics: its execution hold quarantines the
\* store.  A task of the store that is committing keeps the lock.
Dropped(c) ==
    /\ up
    /\ pc[c] \notin {"idle", "orphan"}
    /\ closing' = TRUE
    /\ IF pc[c] = "accepting"
       THEN Goto(c, "orphan") /\ UNCHANGED <<lock, found, through>>
       ELSE Leave(c, "idle")
    /\ UNCHANGED <<database, instance, up, req, report, starts>>

\* rename by another client, under an operation of its own.
Rename(o) ==
    /\ up /\ ~closing
    /\ commands[o] = NoCommand
    /\ head < MaxHead
    /\ head' = head + 1
    /\ commands' = [commands EXCEPT ![o] = [NoCommand EXCEPT !.method = "rename"]]
    /\ UNCHANGED <<runs, process, lock, pc, req, found, through, report, starts>>

Crash ==
    /\ up
    /\ up' = FALSE
    /\ pc' = [c \in Callers |-> "idle"]
    /\ lock' = [o \in Operations |-> NoCaller]
    /\ found' = [c \in Callers |-> FALSE]
    /\ through' = [c \in Callers |-> 0]
    /\ report' = [c \in Callers |-> "none"]
    /\ closing' = FALSE
    /\ UNCHANGED <<database, instance, req, starts>>

Restart ==
    /\ ~up
    /\ instance < MaxInstances
    /\ up' = TRUE
    /\ instance' = instance + 1
    /\ UNCHANGED <<database, closing, lock, pc, req, found, through, report, starts>>

Hows == {"ok", "error", "warned", "unknown"}
Kinds == {"started", "work", "finished", "result"}

CallerStep(c) ==
    \/ \E r \in Requests : Submit(c, r)
    \/ Lookup(c) \/ Lock(c) \/ Recheck(c) \/ Prepare(c) \/ Repeat(c) \/ Accept(c)
    \/ Rejected(c)
    \/ \E how \in Hows : CommitAcceptance(c, how)
    \/ StartRun(c)
    \/ \E kind \in Kinds, how \in Hows : Append(c, kind, how)
    \/ Dropped(c)

Next ==
    \/ \E c \in Callers : CallerStep(c)
    \/ OpenFails
    \/ \E o \in Operations : Rename(o)
    \/ Crash
    \/ Restart

Spec == Init /\ [][Next]_vars

-----------------------------------------------------------------------------
(***************************************************************************)
(* Properties.                                                             *)
(***************************************************************************)

\* The runs of a session execute in turn.  The execution of a run begins at
\* most once, whatever is retried, by whomever, before and after crashes and
\* uncertain commits, and only by a caller whose acceptance of exactly this
\* request is in the database, under this store instance.  A run is accepted
\* only after every earlier one has ended or was interrupted, and a run with
\* history right at the end of the history it selected (execute, accept).
RunsInTurn ==
    /\ \A r \in Runs : starts[r] <= 1
    /\ \A c \in Callers : pc[c] \in ExecutionStages =>
          /\ commands[Op(c)].run = Run(c) /\ commands[Op(c)].input = req[c].input
          /\ runs[Run(c)].owner = instance
          /\ runs[Run(c)].state \in {"accepted", "running", "terminal"}
    /\ \A r, q \in Runs :
          runs[r] # NoRecord /\ runs[q] # NoRecord /\ runs[r].accepted < runs[q].accepted
          => ~Active(r) /\ runs[r].ended < runs[q].accepted
    /\ \A r \in Runs : runs[r].through # 0 => runs[r].accepted = runs[r].through + 1

\* The session implements the ledger of operations.
Ledger == INSTANCE RunLedger WITH
    Contents <- [run : Runs, input : Inputs],
    NoContent <- NoCommand,
    content <- [o \in Operations |->
                  IF commands[o].run = NoRun THEN NoCommand
                  ELSE [run |-> commands[o].run, input |-> commands[o].input]],
    begun <- {o \in Operations : commands[o].run # NoRun /\ starts[commands[o].run] > 0},
    open <- {o \in Operations : commands[o].run # NoRun /\ Active(commands[o].run)}

\* Acceptance, execution and interruption are steps of the ledger: an operation
\* has one content for good, begins once while no other is open, and ends once
\* (accept, execute, interruption of what an earlier process left).
LedgerSpec == Ledger!Spec

\* What a caller is told is what the database says: an executed run has ended
\* and its result is recorded, a duplicate was accepted with this request, and
\* a conflict with another run, input or method.  An identical retry is never
\* told CommandConflict.
ReportIsTrue ==
    \A c \in Callers :
        LET same == commands[Op(c)].run = Run(c) /\ commands[Op(c)].input = req[c].input IN
        /\ report[c] = "executed" => runs[Run(c)].state = "terminal" /\ runs[Run(c)].result
        /\ report[c] = "duplicate" => same
        /\ report[c] = "conflict" => commands[Op(c)].method # req[c].method \/ ~same
=============================================================================
