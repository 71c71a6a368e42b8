---------------------------- MODULE StorageLocks ----------------------------
(***************************************************************************)
(* The locks of a store: the maintenance lock, which operations share and  *)
(* a repair owns; one lock per session and one per command that accepts a  *)
(* run, made when they are wanted and gone when nobody refers to them; and *)
(* catalog_lock, held for one transaction on the catalog.                  *)
(*                                                                         *)
(* A task is a client of one session, with one command to accept; it does  *)
(* some kinds of operations, one after the other.  All locks are fair:     *)
(* whoever asks waits for everyone who was there before, unless both share *)
(* the lock.                                                               *)
(***************************************************************************)
EXTENDS Naturals, FiniteSets

CONSTANTS
  Tasks,      \* concurrent clients of the store
  Ids,        \* sessions
  Commands,   \* commands that accept a run
  Copies,     \* incarnations of a lock that is made again
  SessionOf,  \* the session of each task
  CommandOf,  \* the command of each task
  Does        \* the operations each task does

VARIABLES
  place,    \* where each task is in its operation
  kind,     \* the operation
  stage,    \* how far the acceptance of a run has come
  current,  \* session_locks and acceptance_locks: the incarnation they refer to
  inside,   \* the tasks that own each lock or wait for it
  ahead     \* of those, the ones that were there before each task

lockVars == <<place, kind, stage, current, inside, ahead>>

Maintenance == <<"maintenance", "", 0>>
CatalogLock == <<"catalog", "", 0>>
SessionLocks == {"session"} \X Ids \X Copies
RunLocks == {"run"} \X Commands \X Copies
Names == ({"session"} \X Ids) \cup ({"run"} \X Commands)
Locks == {Maintenance, CatalogLock} \cup SessionLocks \cup RunLocks

Kinds == {"create", "open", "handle", "refresh", "list"}
Stages == {"none", "lookup", "gate", "record"}
\* Where a task has asked for, or owns, the catalog or a session.
InCatalog == {"first", "entry", "last", "publish"}
InSession == {"session", "entry", "work", "last"}
Outside == {"idle", "paused"}
Places == InCatalog \cup InSession \cup Outside \cup {"begin", "between", "left"}

LocksTypeOK ==
  /\ place \in [Tasks -> Places] /\ kind \in [Tasks -> Kinds \cup {"none", "repair", "resume"}]
  /\ stage \in [Tasks -> Stages]
  /\ current \in [Names -> Copies]
  /\ inside \in [Locks -> SUBSET Tasks] /\ ahead \in [Locks -> [Tasks -> SUBSET Tasks]]

Shared(t) == kind[t] # "repair"

\* What task t waits for at lock l.
WaitsAt(l, t, u) ==
  /\ t \in inside[l] /\ u \in ahead[l][t]
  /\ ~(l = Maintenance /\ Shared(t) /\ Shared(u))
WaitsFor(t, u) == \E l \in Locks : WaitsAt(l, t, u)
Blocked(t) == \E u \in Tasks : WaitsFor(t, u)

Join(t, l) ==
  /\ inside' = [inside EXCEPT ![l] = @ \cup {t}]
  /\ ahead' = [ahead EXCEPT ![l] = [@ EXCEPT ![t] = inside[l]]]

Leave(t, S) ==
  /\ inside' = [l \in Locks |-> IF l \in S THEN inside[l] \ {t} ELSE inside[l]]
  /\ ahead' = [l \in Locks |-> IF l \in S
       THEN [u \in Tasks |-> IF u = t THEN {} ELSE ahead[l][u] \ {t}] ELSE ahead[l]]

\* A step of a task that waits for nobody.
Moves(t, from, to) == place[t] = from /\ ~Blocked(t) /\ place' = [place EXCEPT ![t] = to]

-----------------------------------------------------------------------------
(***************************************************************************)
(* The operations.                                                         *)
(***************************************************************************)

\* StoreInner::operation.
Operation(t, from, k) ==
  /\ Moves(t, from, "begin")
  /\ kind' = [kind EXCEPT ![t] = k]
  /\ Join(t, Maintenance)
  /\ UNCHANGED current

Start(t, k) == k \in Does[t] /\ Operation(t, "idle", k) /\ UNCHANGED stage
repair_catalog(t) == "repair" \in Does[t] /\ Operation(t, "idle", "repair") /\ UNCHANGED stage

\* The first transaction on the catalog: reserve, entry, list or set_intent.
First(t) ==
  /\ kind[t] \in {"create", "open", "list", "repair"}
  /\ Moves(t, "begin", "first")
  /\ Join(t, CatalogLock)
  /\ UNCHANGED <<kind, stage, current>>

\* A repair goes on; an open that has met an unfinished creation reserves it again.
Again(t) ==
  /\ kind[t] \in {"open", "repair"}
  /\ Moves(t, "between", "first")
  /\ kind' = [kind EXCEPT ![t] = IF @ = "open" THEN "resume" ELSE @]
  /\ Join(t, CatalogLock)
  /\ UNCHANGED <<stage, current>>

\* A transaction on the catalog is over.
CatalogDone(t) ==
  /\ \/ kind[t] # "list" /\ Moves(t, "first", "between")
     \/ Moves(t, "entry", "work")
  /\ Leave(t, {CatalogLock})
  /\ UNCHANGED <<kind, stage, current>>

\* Fault: a lock that only its owner refers to is forgotten.
ReferredTwice(tasks) == Cardinality(tasks) > 1

\* The weak reference to a lock can be upgraded.
Referred(tasks) == tasks # {}

\* The entry of a lock, or a new one in its place: the first number that nobody uses any more
\* is as good as a new one.
Free(class, n) == {i \in Copies : inside[<<class, n, i>>] = {}}

lookup(class, n, i) ==
  /\ IF Referred(inside[<<class, n, current[<<class, n>>]>>]) THEN i = current[<<class, n>>]
     ELSE i \in Free(class, n) /\ \A j \in Free(class, n) : i <= j
  /\ current' = [current EXCEPT ![<<class, n>>] = i]

session_lock(t) ==
  /\ \/ kind[t] \in {"handle", "refresh"} /\ Moves(t, "begin", "session") /\ UNCHANGED kind
     \/ /\ kind[t] \in {"create", "open", "resume"} /\ Moves(t, "between", "session")
        /\ \/ UNCHANGED kind
           \/ kind[t] = "resume" /\ kind' = [kind EXCEPT ![t] = "open"]   \* it had been created
  /\ \E i \in Copies :
       lookup("session", SessionOf[t], i) /\ Join(t, <<"session", SessionOf[t], i>>)
  /\ UNCHANGED stage

\* Under the session lock the entry is read, by connection and by create.
entry(t) ==
  /\ Moves(t, "session", "entry")
  /\ Join(t, CatalogLock)
  /\ UNCHANGED <<kind, stage, current>>

\* A creation tells the catalog how it ended: complete, or fail.
Finish(t) ==
  /\ kind[t] \in {"create", "resume"}
  /\ Moves(t, "work", "last")
  /\ Join(t, CatalogLock)
  /\ UNCHANGED <<kind, stage, current>>

\* An open whose creation is finished, and a refresh that has made its observation, give the
\* session lock back.
Release(t) ==
  /\ \/ kind[t] = "refresh" /\ Moves(t, "work", "left") /\ UNCHANGED kind
     \/ /\ kind[t] = "resume" /\ (Moves(t, "work", "between") \/ Moves(t, "last", "between"))
        /\ kind' = [kind EXCEPT ![t] = "open"]
  /\ Leave(t, SessionLocks \cup {CatalogLock})
  /\ UNCHANGED <<stage, current>>

publish(t) ==
  /\ Moves(t, "left", "publish")
  /\ Join(t, CatalogLock)
  /\ UNCHANGED <<kind, stage, current>>

-----------------------------------------------------------------------------
(***************************************************************************)
(* The acceptance of a run: a lookup, and under the lock of the command a  *)
(* second one, other reads, and the operation that records the run.        *)
(***************************************************************************)
run_held(t) ==
  /\ "run" \in Does[t]
  /\ Operation(t, "idle", "handle")
  /\ stage' = [stage EXCEPT ![t] = "lookup"]

\* Fault: the lock is taken inside the lookup.
run_acceptanceWithin(t) ==
  /\ stage[t] = "lookup"
  /\ Moves(t, "work", "work")
  /\ stage' = [stage EXCEPT ![t] = "gate"]
  /\ \E i \in Copies : lookup("run", CommandOf[t], i) /\ Join(t, <<"run", CommandOf[t], i>>)
  /\ UNCHANGED kind

\* It is taken after a lookup, or at once by accept_run of a session.
run_acceptance(t) ==
  /\ \/ stage[t] = "lookup" /\ Moves(t, "paused", "paused")
     \/ "run" \in Does[t] /\ Moves(t, "idle", "paused")
  /\ stage' = [stage EXCEPT ![t] = "gate"]
  /\ \E i \in Copies : lookup("run", CommandOf[t], i) /\ Join(t, <<"run", CommandOf[t], i>>)
  /\ UNCHANGED kind

Accept(t) ==
  /\ stage[t] = "gate"
  /\ Operation(t, "paused", "handle")
  /\ \E s \in {"gate", "record"} : stage' = [stage EXCEPT ![t] = s]

\* An operation ends, having done its work or with an error, and all of its locks with it.
\* The acceptance goes on after a read; the operation that records the run owns its lock.
End(t) ==
  /\ place[t] \notin Outside
  /\ kind' = [kind EXCEPT ![t] = "none"]
  /\ \/ /\ stage[t] \in {"lookup", "gate"} /\ Moves(t, place[t], "paused")
        /\ Leave(t, Locks \ RunLocks) /\ UNCHANGED stage
     \/ /\ Moves(t, place[t], "idle")
        /\ Leave(t, Locks) /\ stage' = [stage EXCEPT ![t] = "none"]
  /\ UNCHANGED current

\* The caller of an acceptance goes away.  Its operation, if one is under way, goes on alone;
\* the lock of the command goes with the caller, unless the recording operation owns it.
Abandon(t) ==
  /\ stage[t] \in {"lookup", "gate"}
  /\ stage' = [stage EXCEPT ![t] = "none"]
  /\ place' = [place EXCEPT ![t] = IF @ = "paused" THEN "idle" ELSE @]
  /\ Leave(t, RunLocks)
  /\ UNCHANGED <<kind, current>>

-----------------------------------------------------------------------------
LocksInit ==
  /\ place = [t \in Tasks |-> "idle"] /\ kind = [t \in Tasks |-> "none"]
  /\ stage = [t \in Tasks |-> "none"]
  /\ \E i \in Copies : current = [n \in Names |-> i] /\ \A j \in Copies : i <= j
  /\ inside = [l \in Locks |-> {}] /\ ahead = [l \in Locks |-> [t \in Tasks |-> {}]]

LocksNext ==
  \E t \in Tasks :
    \/ \E k \in Kinds : Start(t, k)
    \/ repair_catalog(t) \/ First(t) \/ Again(t) \/ CatalogDone(t) \/ session_lock(t) \/ entry(t)
    \/ Finish(t) \/ Release(t) \/ publish(t)
    \/ run_held(t) \/ run_acceptance(t) \/ Accept(t) \/ End(t) \/ Abandon(t)

LocksSpec == LocksInit /\ [][LocksNext]_lockVars

\* The tasks at work in a session, and those that may accept the run of a command.
Working(s) == {t \in Tasks : SessionOf[t] = s /\ place[t] \in {"entry", "work", "last"}}
Accepting(r) == {t \in Tasks : CommandOf[t] = r /\ stage[t] \in {"gate", "record"} /\ place[t] # "paused"}

\* Sessions and commands have one task at work at a time, though their locks are forgotten and
\* made again (session_lock, run_acceptance), and no tasks wait for each other in a circle: in
\* any set of tasks there is one that waits for none of the others.  So a repair that asks for
\* the store between the lookups of an acceptance, say, stops nobody for good (operation,
\* repair_catalog, run_held).
LocksAreServed ==
  /\ \A s \in Ids : \A t, u \in Working(s) : t = u
  /\ \A r \in Commands : \A t, u \in Accepting(r) : t = u
  /\ \A D \in SUBSET Tasks : D # {} => \E t \in D : \A u \in D : ~WaitsFor(t, u)
=============================================================================
