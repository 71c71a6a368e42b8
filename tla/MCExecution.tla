----------------------------- MODULE MCExecution -----------------------------
(***************************************************************************)
(* Execution for TLC, and beside it the locks of the store it works on.    *)
(* The parts do not interact and are explored side by side.                *)
(***************************************************************************)
EXTENDS Execution, TLC

VARIABLES part, place, kind, stage, current, inside, ahead

lockVars == <<place, kind, stage, current, inside, ahead>>

History == "accept_history_run"

\* An operation, the same operation with other content and by the other
\* method, and another operation.
MCRequests == {[operation |-> "o1", run |-> "r1", input |-> "i1", method |-> History],
               [operation |-> "o1", run |-> "r1", input |-> "i2", method |-> History],
               [operation |-> "o2", run |-> "r2", input |-> "i1", method |-> History],
               [operation |-> "o2", run |-> "r2", input |-> "i1", method |-> "accept_run"]}

MCSymmetry == Permutations(Callers)

-----------------------------------------------------------------------------
\* Clients of one session: two that accept the run of the same command, one of them opening
\* and refreshing the session too, and a third that accepts another run, creates and repairs.
TheTasks == {"a", "b", "c"}
TheOperations ==
  ("a" :> {"run", "handle"}) @@ ("b" :> {"run", "open", "refresh"})
    @@ ("c" :> {"run", "create", "list", "repair"})
TheCommands == ("a" :> "o1") @@ ("b" :> "o1") @@ ("c" :> "o2")

Locks == INSTANCE StorageLocks WITH
  Tasks <- TheTasks, Ids <- {"s"}, Commands <- Operations, Copies <- 1..2,
  SessionOf <- [t \in TheTasks |-> "s"], CommandOf <- TheCommands, Does <- TheOperations

MCInit == Init /\ Locks!LocksInit /\ part \in {"execution", "locks"}

MCNext ==
  \/ part = "execution" /\ Next /\ UNCHANGED <<part, lockVars>>
  \/ part = "locks" /\ Locks!LocksNext /\ UNCHANGED <<part, vars>>

MCSpec == MCInit /\ [][MCNext]_<<part, vars, lockVars>>

\* Sessions and commands have one task at work at a time, and no tasks wait for each other in
\* a circle (session_lock, run_acceptance, operation, repair_catalog).
LocksAreServed == part = "locks" => Locks!LocksAreServed
=============================================================================
