------------------------------ MODULE Lifecycle ------------------------------
(***************************************************************************)
(* The lifecycle of SessionStore instances that contend for one storage    *)
(* root: the operating system lease, the admission counter, close() and    *)
(* its waiters, and quarantine (storage/lifecycle.rs, with the callers in  *)
(* storage/mod.rs, storage/database.rs and storage/filesystem.rs).         *)
(*                                                                         *)
(* Each instance is taken to live in a process of its own.  An instance    *)
(* that shares a process with another one behaves the same way, because    *)
(* the lease belongs to the open file and not to the process.              *)
(***************************************************************************)
EXTENDS Naturals, FiniteSets

CONSTANTS Stores,    \* SessionStore instances
          NoStore,   \* the value of holder when the lease is free
          Guards,    \* identities of OperationGuards
          Waiters,   \* identities of callers of close()
          UsizeMax   \* largest value of the admission counter

ASSUME LifecycleAssumption ==
    /\ NoStore \notin Stores
    /\ IsFiniteSet(Guards)
    /\ UsizeMax \in Nat \ {0}

VARIABLES
    holder,     \* the instance whose open file holds the operating system lock
    phase,      \* where the SessionStore value of an instance is in its life
    lease,      \* State.lease is Some
    admitted,   \* State.admitted
    closing,    \* State.closing, and the closing CancellationToken
    unhealthy,  \* State.unhealthy
    guards,     \* the OperationGuards alive
    stray,      \* SQL of the instance may run although no guard accounts for it
    waiter,     \* where each caller of close() stands
    woken       \* its Notified future has been notified

vars == <<holder, phase, lease, admitted, closing, unhealthy, guards, stray,
          waiter, woken>>

Phases == {"absent", "opening", "open", "gone"}

WaiterStates == {"idle", "enabled", "awaiting", "closed", "failed"}

TypeOK ==
    /\ holder \in Stores \cup {NoStore}
    /\ phase \in [Stores -> Phases]
    /\ lease \in [Stores -> BOOLEAN]
    /\ admitted \in [Stores -> 0..UsizeMax]
    /\ closing \in [Stores -> BOOLEAN]
    /\ unhealthy \in [Stores -> BOOLEAN]
    /\ guards \in [Stores -> SUBSET Guards]
    /\ stray \in [Stores -> BOOLEAN]
    /\ waiter \in [Stores -> [Waiters -> WaiterStates]]
    /\ woken \in [Stores -> [Waiters -> BOOLEAN]]

Init ==
    /\ holder = NoStore
    /\ phase = [s \in Stores |-> "absent"]
    /\ lease = [s \in Stores |-> FALSE]
    /\ admitted = [s \in Stores |-> 0]
    /\ closing = [s \in Stores |-> FALSE]
    /\ unhealthy = [s \in Stores |-> FALSE]
    /\ guards = [s \in Stores |-> {}]
    /\ stray = [s \in Stores |-> FALSE]
    /\ waiter = [s \in Stores |-> [w \in Waiters |-> "idle"]]
    /\ woken = [s \in Stores |-> [w \in Waiters |-> FALSE]]

-----------------------------------------------------------------------------
(***************************************************************************)
(* Giving the lease back.                                                  *)
(***************************************************************************)

Unlock(s) ==
    /\ holder' = IF holder = s THEN NoStore ELSE holder
    /\ lease' = [lease EXCEPT ![s] = FALSE]
    /\ UNCHANGED unhealthy

\* unlock() reports an error: the file is kept, and whether the operating
\* system still holds the lock is unknown.
UnlockFails(s) ==
    /\ holder' \in {holder, IF holder = s THEN NoStore ELSE holder}
    /\ unhealthy' = [unhealthy EXCEPT ![s] = TRUE]
    /\ UNCHANGED lease

\* Fault: the file is reported unlocked and kept locked.
ReleaseLeaseKept(s) == UNCHANGED <<holder, lease, unhealthy>>

\* release_lease returning Ok, and returning Err.
ReleaseLeaseOk(s) ==
    \/ ~lease[s] /\ UNCHANGED <<holder, lease, unhealthy>>
    \/ lease[s] /\ Unlock(s)

ReleaseLeaseErr(s) ==
    lease[s] /\ UnlockFails(s)

\* Dropping the last Lifecycle reference: an unhealthy one leaks the open
\* file, so only the end of the process frees the lock; otherwise the file
\* is closed.
DropLifecycle(s) ==
    /\ holder' = IF lease[s] /\ ~unhealthy[s] /\ holder = s
                 THEN NoStore ELSE holder
    /\ lease' = [lease EXCEPT ![s] = FALSE]

-----------------------------------------------------------------------------
(***************************************************************************)
(* Opening an instance.  The task that opens the store owns the lease and  *)
(* one guard until the catalog is checked, even if its caller went away.   *)
(***************************************************************************)

\* Fault: the lock of an idle instance is taken for a stale one.
AcquirableWhenIdle(s) == \A t \in Stores : holder = t => admitted[t] = 0

\* try_lock of acquire_lease would succeed.
Acquirable(s) == holder = NoStore

\* acquire_lease succeeds and the bootstrap is admitted.  When another
\* instance holds the lock the caller gets Busy and nothing changes.
Open(s, g) ==
    /\ phase[s] = "absent"
    /\ Acquirable(s)
    /\ holder' = s
    /\ phase' = [phase EXCEPT ![s] = "opening"]
    /\ lease' = [lease EXCEPT ![s] = TRUE]
    /\ admitted' = [admitted EXCEPT ![s] = 1]
    /\ guards' = [guards EXCEPT ![s] = {g}]
    /\ UNCHANGED <<closing, unhealthy, stray, waiter, woken>>

\* The catalog is good: the bootstrap guard finishes, the store is returned.
OpenOk(s) ==
    /\ phase[s] = "opening"
    /\ ~unhealthy[s]
    /\ phase' = [phase EXCEPT ![s] = "open"]
    /\ admitted' = [admitted EXCEPT ![s] = 0]
    /\ guards' = [guards EXCEPT ![s] = {}]
    /\ UNCHANGED <<holder, lease, closing, unhealthy, stray, waiter, woken>>

\* The catalog is bad, or a connection to it could not be retired: the guard
\* finishes and the store value is dropped.
OpenErr(s) ==
    /\ phase[s] = "opening"
    /\ phase' = [phase EXCEPT ![s] = "gone"]
    /\ admitted' = [admitted EXCEPT ![s] = 0]
    /\ guards' = [guards EXCEPT ![s] = {}]
    /\ DropLifecycle(s)
    /\ UNCHANGED <<closing, unhealthy, stray, waiter, woken>>

-----------------------------------------------------------------------------
(***************************************************************************)
(* Operations.                                                             *)
(***************************************************************************)

Admissible(s) == ~closing[s] /\ admitted[s] < UsizeMax

Admit(s, g) ==
    /\ phase[s] = "open"
    /\ Admissible(s)
    /\ g \notin guards[s]
    /\ admitted' = [admitted EXCEPT ![s] = @ + 1]
    /\ guards' = [guards EXCEPT ![s] = @ \cup {g}]
    /\ UNCHANGED <<holder, phase, lease, closing, unhealthy, stray, waiter, woken>>

\* Fault: waiters are notified only where the lease may be released.
NotifyOnRelease(s) ==
    woken' = [woken EXCEPT ![s] = [w \in Waiters |->
                 woken[s][w] \/ (waiter[s][w] \in {"enabled", "awaiting"} /\ ~unhealthy[s])]]

\* notify_waiters reaches every waiter that has enabled its Notified future.
NotifyWaiters(s) ==
    woken' = [woken EXCEPT ![s] = [w \in Waiters |->
                 woken[s][w] \/ waiter[s][w] \in {"enabled", "awaiting"}]]

\* Faults: only close() releases the lease; quarantine does not keep it.
RetirableNever(s) == FALSE
RetirableIfClosing(s) == closing[s]

\* The last guard to go releases the lease.
Retirable(s) == closing[s] /\ ~unhealthy[s]

\* Drop of a finished guard.
Finish(s, g) ==
    /\ phase[s] = "open"
    /\ g \in guards[s]
    /\ guards' = [guards EXCEPT ![s] = @ \ {g}]
    /\ admitted' = [admitted EXCEPT ![s] = @ - 1]
    /\ IF admitted[s] = 1
       THEN /\ IF Retirable(s)
               THEN ReleaseLeaseOk(s) \/ ReleaseLeaseErr(s)
               ELSE UNCHANGED <<holder, lease, unhealthy>>
            /\ NotifyWaiters(s)
       ELSE UNCHANGED <<holder, lease, unhealthy, woken>>
    /\ UNCHANGED <<phase, closing, stray, waiter>>

\* Admission ends for good and the lease is kept.
MarkUncertain(s) ==
    /\ closing' = [closing EXCEPT ![s] = TRUE]
    /\ unhealthy' = [unhealthy EXCEPT ![s] = TRUE]

\* Drop of a guard whose operation did not return (its task panicked or was
\* destroyed).  The connection's own thread may still be working.
Lose(s, g) ==
    /\ phase[s] \in {"opening", "open"}
    /\ g \in guards[s]
    /\ guards' = [guards EXCEPT ![s] = @ \ {g}]
    /\ admitted' = [admitted EXCEPT ![s] = @ - 1]
    /\ MarkUncertain(s)
    /\ \E b \in {stray[s], TRUE} : stray' = [stray EXCEPT ![s] = b]
    /\ IF admitted[s] = 1 THEN NotifyWaiters(s) ELSE UNCHANGED woken
    /\ \/ phase[s] = "open" /\ UNCHANGED <<phase, lease>>
       \* the task of open() ends with its guard, and drops the store unhealthy
       \/ /\ phase[s] = "opening"
          /\ phase' = [phase EXCEPT ![s] = "gone"]
          /\ lease' = [lease EXCEPT ![s] = FALSE]
    /\ UNCHANGED <<holder, waiter>>

\* A connection could not be opened or retired with certainty inside an
\* admitted operation, which goes on and returns an error.
Quarantine(s) ==
    /\ guards[s] # {}
    /\ MarkUncertain(s)
    /\ \E b \in {stray[s], TRUE} : stray' = [stray EXCEPT ![s] = b]
    /\ UNCHANGED <<holder, phase, lease, admitted, guards, waiter, woken>>

\* External: the connection thread that nobody accounts for ends by itself.
StrayStops(s) ==
    /\ stray[s]
    /\ stray' = [stray EXCEPT ![s] = FALSE]
    /\ UNCHANGED <<holder, phase, lease, admitted, closing, unhealthy, guards,
                   waiter, woken>>

-----------------------------------------------------------------------------
(***************************************************************************)
(* close().                                                                *)
(***************************************************************************)

\* The top of the loop: register for the next notification, then look.
CloseEnable(s, w) ==
    /\ phase[s] = "open"
    /\ \/ waiter[s][w] = "idle"
       \/ waiter[s][w] = "awaiting" /\ woken[s][w]
    /\ waiter' = [waiter EXCEPT ![s][w] = "enabled"]
    /\ woken' = [woken EXCEPT ![s][w] = FALSE]
    /\ UNCHANGED <<holder, phase, lease, admitted, closing, unhealthy, guards, stray>>

CloseCheck(s, w) ==
    /\ waiter[s][w] = "enabled"
    /\ closing' = [closing EXCEPT ![s] = TRUE]
    /\ \/ /\ admitted[s] # 0
          /\ waiter' = [waiter EXCEPT ![s][w] = "awaiting"]
          /\ UNCHANGED <<holder, lease, unhealthy>>
       \/ /\ admitted[s] = 0
          /\ unhealthy[s]
          /\ waiter' = [waiter EXCEPT ![s][w] = "failed"]
          /\ UNCHANGED <<holder, lease, unhealthy>>
       \/ /\ admitted[s] = 0
          /\ ~unhealthy[s]
          /\ \/ ReleaseLeaseOk(s) /\ waiter' = [waiter EXCEPT ![s][w] = "closed"]
             \/ ReleaseLeaseErr(s) /\ waiter' = [waiter EXCEPT ![s][w] = "failed"]
    /\ UNCHANGED <<phase, admitted, guards, stray, woken>>

\* The caller drops the close() future, or is done with its result.
CloseLeave(s, w) ==
    /\ waiter[s][w] # "idle"
    /\ waiter' = [waiter EXCEPT ![s][w] = "idle"]
    /\ UNCHANGED <<holder, phase, lease, admitted, closing, unhealthy, guards,
                   stray, woken>>

-----------------------------------------------------------------------------
(***************************************************************************)
(* The end of an instance.                                                 *)
(***************************************************************************)

\* The last reference to the store goes away.  Guards and close() futures
\* hold references, so none is alive.
StoreDrop(s) ==
    /\ phase[s] = "open"
    /\ guards[s] = {}
    /\ \A w \in Waiters : waiter[s][w] \notin {"enabled", "awaiting"}
    /\ phase' = [phase EXCEPT ![s] = "gone"]
    /\ DropLifecycle(s)
    /\ UNCHANGED <<admitted, closing, unhealthy, guards, stray, waiter, woken>>

\* The process exits or is killed: nothing of it runs any more and the
\* operating system releases its locks.  It may be started again.
ProcessExit(s) ==
    /\ phase[s] \in {"opening", "open", "gone"}
    /\ phase' = [phase EXCEPT ![s] = "absent"]
    /\ holder' = IF holder = s THEN NoStore ELSE holder
    /\ lease' = [lease EXCEPT ![s] = FALSE]
    /\ admitted' = [admitted EXCEPT ![s] = 0]
    /\ closing' = [closing EXCEPT ![s] = FALSE]
    /\ unhealthy' = [unhealthy EXCEPT ![s] = FALSE]
    /\ guards' = [guards EXCEPT ![s] = {}]
    /\ stray' = [stray EXCEPT ![s] = FALSE]
    /\ waiter' = [waiter EXCEPT ![s] = [w \in Waiters |-> "idle"]]
    /\ woken' = [woken EXCEPT ![s] = [w \in Waiters |-> FALSE]]

Next ==
    \E s \in Stores :
        \/ \E g \in Guards : Open(s, g)
        \/ OpenOk(s)
        \/ OpenErr(s)
        \/ \E g \in Guards : Admit(s, g)
        \/ \E g \in Guards : Finish(s, g)
        \/ \E g \in Guards : Lose(s, g)
        \/ Quarantine(s)
        \/ StrayStops(s)
        \/ \E w \in Waiters : CloseEnable(s, w)
        \/ \E w \in Waiters : CloseCheck(s, w)
        \/ \E w \in Waiters : CloseLeave(s, w)
        \/ StoreDrop(s)
        \/ ProcessExit(s)

Spec == Init /\ [][Next]_vars

\* Admitted operations return (their SQL is bounded and a closing store
\* cancels running executions), and a close() future is polled when it can
\* make progress.
Fairness ==
    \A s \in Stores :
        /\ \A g \in Guards : WF_vars(Finish(s, g))
        /\ \A w \in Waiters : WF_vars(CloseCheck(s, w))
        /\ \A w \in Waiters : WF_vars(waiter[s][w] = "awaiting" /\ CloseEnable(s, w))

FairSpec == Spec /\ Fairness

-----------------------------------------------------------------------------
(***************************************************************************)
(* Properties.                                                             *)
(***************************************************************************)

\* SQL or an execution of the instance may be touching the root.
Working(s) == guards[s] # {} \/ stray[s]

\* While an admitted operation is outstanding, or one was lost and its SQL may
\* still run, no other instance can own the root: admission, the counter in
\* OperationGuard::drop and quarantine together never let the lock go early.
WorkOnlyUnderLease ==
    \A s \in Stores : Working(s) => holder = s

\* When close() has returned Ok, and for as long as the caller looks at that
\* result, every operation of the instance has returned, nothing stray is
\* left and the lock is free for another process, however admission,
\* quarantine and other close() calls were interleaved.  And a healthy instance
\* that is dropped, or whose last guard goes while it is closing, leaves no lock
\* behind although the process lives on and no close() may be waiting any more.
EndedMeansFree ==
    \A s \in Stores :
        /\ \A w \in Waiters :
              waiter[s][w] = "closed" => ~Working(s) /\ holder # s /\ closing[s]
        /\ phase[s] = "gone" /\ ~unhealthy[s] => holder # s
        /\ closing[s] /\ guards[s] = {} /\ phase[s] = "open" /\ ~unhealthy[s] => holder # s

\* Once retirement is uncertain (a lost guard, quarantine, a failed unlock),
\* neither close(), nor a later guard, nor dropping the store gives the lock
\* away: only the end of the process does.
QuarantineKeepsLease ==
    [][\A s \in Stores :
          unhealthy[s] /\ holder = s /\ holder' # s => phase'[s] = "absent"]_vars

\* A close() that is not abandoned returns: the notification that the last
\* guard sends is never lost between the check and the wait.
CloseReturns ==
    \A s \in Stores, w \in Waiters :
        waiter[s][w] = "enabled" ~> waiter[s][w] \in {"closed", "failed", "idle"}

\* The instances implement exclusive ownership of the root.
Ownership == INSTANCE StoreOwnership WITH
    owner <- holder, working <- {s \in Stores : Working(s)}

\* Admission, release and close() are steps of StoreOwnership: work happens only
\* under the lock, which passes to another instance only when nothing works.
OwnershipSpec == Ownership!Spec
=============================================================================
