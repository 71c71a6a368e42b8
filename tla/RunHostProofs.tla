---------------------------- MODULE RunHostProofs ----------------------------
(***************************************************************************)
(* Theorems about RunHost for any dispatches, requests and readers.  The   *)
(* store that the host owns takes steps of Lifecycle, so that what is      *)
(* proved of Lifecycle is used here as it is.                              *)
(***************************************************************************)
EXTENDS RunHost, TLAPS

\* Most steps are first-order; the ones with arithmetic or records cite SMT.
USE ZenonT(60)

Kept == INSTANCE LifecycleProofs WITH
    Stores <- {TheStore},
    Guards <- (Dispatches \X {"hold", "call"}) \cup Readers,
    Waiters <- {"coordinator"}

Ending == {"returned", "lost", "retired", "finished", "done"}
Closer == waiter[TheStore]["coordinator"]

\* TypeOK of the host's own state.
HostTypes ==
    /\ runtime \in BOOLEAN /\ dropped \in BOOLEAN
    /\ gateClosing \in BOOLEAN /\ workerLost \in BOOLEAN
    /\ entries \subseteq {d \in Dispatches : pc[d] \in {"spawned", "returned", "lost"} \cup JobStages}
    /\ cancelled \subseteq Dispatches
    /\ request \in [Dispatches -> Requests \cup {NoRequest}]
    /\ pc \in [Dispatches -> Tracked \cup {"free", "done"}]
    /\ call \in [Dispatches -> {"none", "pending", "ok", "err"}]
    /\ result \in [Dispatches -> Results] /\ completion \in [Dispatches -> Results]
    /\ acceptance \in [Dispatches -> BOOLEAN]
    /\ starter \in {"none", "host"} \cup Dispatches
    /\ coord \in {"none", "draining", "closing", "finished", "lost"}
    /\ outcome \in {"none", "closed", "incomplete"}

StoreInv == Kept!IInv /\ phase[TheStore] \in {"open", "gone"}

Uncertain == unhealthy[TheStore] /\ holder = TheStore

\* Who closes the store has seen the last worker go, behind a closed gate.
GateInv ==
    /\ starter # "none" \/ coord # "none" => gateClosing
    /\ starter # "none" => coord = "none"
    /\ coord \in {"closing", "finished"} => Drained
    /\ Closer # "idle" => coord \in {"closing", "finished"}
    /\ closing[TheStore] /\ ~unhealthy[TheStore] => gateClosing /\ Drained

\* What a worker reports, and what is known of a lost one.
WorkerInvOf(d) ==
    /\ pc[d] = "free" <=> request[d] = NoRequest
    /\ result[d] # "none" <=> pc[d] \in Ending
    /\ pc[d] = "returned" => result[d] # "lost"
    /\ completion[d] = IF pc[d] \in {"finished", "done"} THEN result[d] ELSE "none"
    /\ result[d] = "lost" /\ pc[d] \in {"retired", "finished", "done"} => workerLost
    /\ acceptance[d] => pc[d] \in {"run", "recorded", "event", "final", "duplicate"} \cup Ending
    /\ acceptance[d] /\ result[d] = "lost" => Uncertain

WorkerInv == \A d \in Dispatches : WorkerInvOf(d)

OutcomeInv == outcome = "closed" => coord = "finished" /\ ~workerLost /\ Closer = "closed"

IInv == HostTypes /\ StoreInv /\ GateInv /\ WorkerInv /\ OutcomeInv

-----------------------------------------------------------------------------
(***************************************************************************)
(* The store takes the steps of Lifecycle.                                 *)
(***************************************************************************)

AllGuards == (Dispatches \X {"hold", "call"}) \cup Readers

LEMMA StoreAssumption == Kept!LifecycleAssumption
<1>4. IsFiniteSet(AllGuards)
  BY HostAssumption DEF AllGuards
<1>5. Kept!IsFiniteSet(AllGuards)
  BY <1>4 DEF Kept!IsFiniteSet, IsFiniteSet
<1>6. QED
  BY <1>5, HostAssumption DEF Kept!LifecycleAssumption, AllGuards

\* What a step of the host may do to its store.
StoreStep ==
    \/ \E g \in AllGuards : Storage!Admit(TheStore, g) \/ Storage!Finish(TheStore, g) \/ Storage!Lose(TheStore, g)
    \/ Storage!Quarantine(TheStore)
    \/ Storage!CloseEnable(TheStore, "coordinator")
    \/ Storage!CloseCheck(TheStore, "coordinator")
    \/ Storage!CloseLeave(TheStore, "coordinator")
    \/ Storage!StoreDrop(TheStore)

LEMMA HostStoreStep ==
    ASSUME [Next]_vars
    PROVE  StoreStep \/ UNCHANGED storeVars
<1>1. \A d \in Dispatches : Hold(d) \in AllGuards /\ Call(d) \in AllGuards
  BY DEF Hold, Call, AllGuards
<1>2. Readers \subseteq AllGuards
  BY DEF AllGuards
<1>3. ASSUME NEW d \in Dispatches, WorkerStep(d) PROVE StoreStep \/ UNCHANGED storeVars
  BY <1>1, <1>3 DEF StoreStep, WorkerStep, CallStart, CallReturn, CallLost, Polled, SessionOpened, TakeHold,
     Accepted, LookedUp, Recorded, RunEnds, EventRecorded, JobReturns, WorkerUnwinds, DropHold, Retire,
     Publish, Settle, Untrack
<1>4. ASSUME NEW g \in Readers, Reader(g) PROVE StoreStep
  BY <1>2, <1>4 DEF StoreStep, Reader
<1>5. CASE ConnectionUncertain \/ CoordinatorDrains \/ CoordinatorCloses \/ CoordinatorFinishes
           \/ CoordinatorLost \/ HostFreed \/ RuntimeStops
  BY <1>5 DEF StoreStep, ConnectionUncertain, CoordinatorDrains, CoordinatorCloses, CoordinatorFinishes,
     CoordinatorLost, HostFreed, RuntimeStops
<1>6. CASE BeginShutdown \/ HostSpawnsCoordinator \/ (\E r \in Requests : Cancel(r))
           \/ (\E d \in Dispatches, r \in Requests, exclusive \in BOOLEAN : Submit(d, r, exclusive))
  BY <1>6 DEF BeginShutdown, HostSpawnsCoordinator, Cancel, Submit
<1>7. CASE UNCHANGED vars
  BY <1>7 DEF vars
<1>8. QED
  BY <1>3, <1>4, <1>5, <1>6, <1>7 DEF Next

LEMMA StoreStepIsStep ==
    ASSUME StoreStep \/ UNCHANGED storeVars
    PROVE  [Kept!Next]_(Kept!vars)
<1>1. ASSUME NEW g \in AllGuards, Storage!Admit(TheStore, g) PROVE Kept!Admit(TheStore, g)
  BY <1>1 DEF Storage!Admit, Kept!Admit, Storage!Admissible, Kept!Admissible
<1>2. ASSUME NEW g \in AllGuards, Storage!Finish(TheStore, g) PROVE Kept!Finish(TheStore, g)
  BY <1>2 DEF Storage!Finish, Kept!Finish, Storage!NotifyWaiters, Kept!NotifyWaiters, Storage!Retirable, Kept!Retirable,
     Storage!ReleaseLeaseOk, Kept!ReleaseLeaseOk, Storage!ReleaseLeaseErr, Kept!ReleaseLeaseErr,
     Storage!Unlock, Kept!Unlock, Storage!UnlockFails, Kept!UnlockFails
<1>3. ASSUME NEW g \in AllGuards, Storage!Lose(TheStore, g) PROVE Kept!Lose(TheStore, g)
  BY <1>3 DEF Storage!Lose, Kept!Lose, Storage!MarkUncertain, Kept!MarkUncertain, Storage!NotifyWaiters, Kept!NotifyWaiters
<1>4. ASSUME Storage!Quarantine(TheStore) PROVE Kept!Quarantine(TheStore)
  BY <1>4 DEF Storage!Quarantine, Kept!Quarantine, Storage!MarkUncertain, Kept!MarkUncertain
<1>5. ASSUME Storage!CloseEnable(TheStore, "coordinator") PROVE Kept!CloseEnable(TheStore, "coordinator")
  BY <1>5 DEF Storage!CloseEnable, Kept!CloseEnable
<1>6. ASSUME Storage!CloseCheck(TheStore, "coordinator") PROVE Kept!CloseCheck(TheStore, "coordinator")
  BY <1>6 DEF Storage!CloseCheck, Kept!CloseCheck,
     Storage!ReleaseLeaseOk, Kept!ReleaseLeaseOk, Storage!ReleaseLeaseErr, Kept!ReleaseLeaseErr,
     Storage!Unlock, Kept!Unlock, Storage!UnlockFails, Kept!UnlockFails
<1>7. ASSUME Storage!CloseLeave(TheStore, "coordinator") PROVE Kept!CloseLeave(TheStore, "coordinator")
  BY <1>7 DEF Storage!CloseLeave, Kept!CloseLeave
<1>8. ASSUME Storage!StoreDrop(TheStore) PROVE Kept!StoreDrop(TheStore)
  BY <1>8 DEF Storage!StoreDrop, Kept!StoreDrop, Storage!DropLifecycle, Kept!DropLifecycle
<1>9. CASE UNCHANGED storeVars
  BY <1>9 DEF storeVars, Kept!vars
<1>10. CASE StoreStep
  BY <1>1, <1>2, <1>3, <1>4, <1>5, <1>6, <1>7, <1>8, <1>10 DEF StoreStep, Kept!Next, AllGuards
<1>11. QED
  BY <1>9, <1>10

LEMMA StoreInvariant == Kept!IInv /\ [Kept!Next]_(Kept!vars) => Kept!IInv'
BY Kept!NextStep, StoreAssumption

\* What every step keeps of the store: its invariant, its uncertainty, and that
\* a healthy one is closed by the coordinator.
LEMMA StoreFacts ==
    ASSUME IInv, [Next]_vars
    PROVE  /\ StoreInv'
           /\ Uncertain => Uncertain'
           /\ closing'[TheStore] /\ ~unhealthy'[TheStore] =>
                 (closing[TheStore] /\ ~unhealthy[TheStore]) \/ Closer = "enabled"
<1>1. StoreStep \/ UNCHANGED storeVars
  BY HostStoreStep
<1>2. [Kept!Next]_(Kept!vars)
  BY <1>1, StoreStepIsStep
<1>3. Kept!IInv'
  BY <1>2, StoreInvariant DEF IInv, StoreInv
<1>4. /\ phase \in [{TheStore} -> Kept!Phases] /\ closing \in [{TheStore} -> BOOLEAN]
      /\ unhealthy \in [{TheStore} -> BOOLEAN] /\ waiter \in [{TheStore} -> [{"coordinator"} -> Kept!WaiterStates]]
  BY DEF IInv, StoreInv, Kept!IInv, Kept!TypeOK
<1>5. phase'[TheStore] \in {"open", "gone"}
  <2>1. CASE UNCHANGED storeVars
    BY <2>1 DEF storeVars, IInv, StoreInv
  <2>2. CASE StoreStep
    BY <2>2, <1>4 DEF StoreStep, IInv, StoreInv, Storage!Admit, Storage!Finish, Storage!Lose, Storage!Quarantine,
       Storage!CloseEnable, Storage!CloseCheck, Storage!CloseLeave, Storage!StoreDrop
  <2>3. QED
    BY <1>1, <2>1, <2>2
<1>6. Uncertain => Uncertain'
  BY <1>2, <1>5, StoreAssumption, Kept!UncertainStays DEF IInv, StoreInv, Uncertain
<1>7. closing'[TheStore] /\ ~unhealthy'[TheStore] =>
         (closing[TheStore] /\ ~unhealthy[TheStore]) \/ Closer = "enabled"
  <2>1. CASE UNCHANGED storeVars
    BY <2>1 DEF storeVars
  <2>2. CASE StoreStep
    BY <2>2, <1>4 DEF StoreStep, Storage!Admit, Storage!Finish, Storage!Lose, Storage!Quarantine, Storage!MarkUncertain,
       Storage!CloseEnable, Storage!CloseCheck, Storage!CloseLeave, Storage!StoreDrop, Closer,
       Storage!ReleaseLeaseOk, Storage!ReleaseLeaseErr, Storage!Unlock, Storage!UnlockFails
  <2>3. QED
    BY <1>1, <2>1, <2>2
<1>8. QED
  BY <1>3, <1>5, <1>6, <1>7 DEF StoreInv

-----------------------------------------------------------------------------
(***************************************************************************)
(* The host.                                                               *)
(***************************************************************************)

\* RunHost::new: a healthy open store and no dispatch.
LEMMA InitIInv == Init => IInv
<1> SUFFICES ASSUME Init PROVE IInv
  OBVIOUS
<1>1. HostTypes
  BY DEF Init, HostTypes, Results
<1>2. StoreInv
  <2>1. Kept!TypeOK
    BY HostAssumption, SMT DEF Init, Kept!TypeOK, Kept!Phases, Kept!WaiterStates
  <2>2. Kept!CountInv
    <3>1. Kept!Cardinality({}) = 0
      BY StoreAssumption, Kept!NoGuard
    <3>2. QED
      BY <3>1 DEF Init, Kept!CountInv
  <2>3. Kept!LeaseInv /\ Kept!WaiterInv
    BY HostAssumption DEF Init, Kept!LeaseInv, Kept!LeaseInvOf, Kept!WaiterInv
  <2>4. QED
    BY <2>1, <2>2, <2>3 DEF StoreInv, Kept!IInv, Init
<1>3. GateInv /\ OutcomeInv
  BY DEF Init, GateInv, OutcomeInv, Closer
<1>4. WorkerInv
  BY DEF Init, WorkerInv, WorkerInvOf, Ending
<1>5. QED
  BY <1>1, <1>2, <1>3, <1>4 DEF IInv

\* What is known of a dispatch that a step does not concern.
LEMMA WorkerFrame ==
    ASSUME IInv, [Next]_vars, NEW b \in Dispatches, workerLost => workerLost',
           pc'[b] = pc[b], request'[b] = request[b], result'[b] = result[b],
           completion'[b] = completion[b], acceptance'[b] = acceptance[b]
    PROVE  WorkerInvOf(b)'
BY StoreFacts DEF IInv, WorkerInv, WorkerInvOf

\* A step that leaves the gate, the coordinator and the drained workers alone.
LEMMA GateFrame ==
    ASSUME IInv, [Next]_vars, gateClosing => gateClosing',
           starter' = starter \/ (gateClosing' /\ ~gateClosing), coord' = coord, Closer' = Closer,
           gateClosing => \A d \in Dispatches : pc[d] \notin Tracked => pc'[d] \notin Tracked
    PROVE  GateInv'
<1>1. Drained /\ gateClosing => Drained'
  BY DEF Drained
<1>2. QED
  BY <1>1, StoreFacts DEF IInv, GateInv

\* A step of one worker.
LEMMA WorkerMoves ==
    ASSUME IInv, [Next]_vars, NEW d \in Dispatches, pc[d] \in Tracked,
           NEW stage \in Tracked \cup {"done"}, pc' = [pc EXCEPT ![d] = stage],
           d \notin entries \/ stage \in {"spawned", "returned", "lost"} \cup JobStages,
           call' \in [Dispatches -> {"none", "pending", "ok", "err"}],
           NEW r \in Results, result' = [result EXCEPT ![d] = r],
           acceptance' \in [Dispatches -> BOOLEAN], \A b \in Dispatches \ {d} : acceptance'[b] = acceptance[b],
           UNCHANGED <<runtime, dropped, gateClosing, workerLost, entries, request, cancelled,
                       completion, starter, coord, outcome, waiter>>,
           WorkerInvOf(d)'
    PROVE  IInv'
<1>1. /\ pc'[d] = stage /\ \A b \in Dispatches \ {d} : pc'[b] = pc[b] /\ result'[b] = result[b]
      /\ pc' \in [Dispatches -> Tracked \cup {"free", "done"}] /\ result' \in [Dispatches -> Results]
  BY DEF IInv, HostTypes
<1>2. HostTypes'
  BY <1>1 DEF IInv, HostTypes
<1>3. GateInv'
  BY <1>1, GateFrame DEF Closer
<1>4. WorkerInv'
  BY <1>1, WorkerFrame DEF WorkerInv
<1>5. OutcomeInv'
  BY DEF IInv, OutcomeInv, Closer
<1>6. QED
  BY <1>2, <1>3, <1>4, <1>5, StoreFacts DEF IInv

-----------------------------------------------------------------------------
(***************************************************************************)
(* The steps of a worker.                                                  *)
(***************************************************************************)

\* A worker has neither reported nor been lost before its job ends.
LEMMA RunningFacts ==
    ASSUME IInv, NEW d \in Dispatches, pc[d] \in {"spawned"} \cup JobStages
    PROVE  /\ pc[d] \in Tracked /\ pc[d] \notin Ending /\ pc[d] # "free" /\ result[d] = "none"
           /\ completion[d] = "none" /\ request[d] # NoRequest
BY DEF IInv, WorkerInv, WorkerInvOf, Tracked, JobStages, HeldStages, Ending

\* It goes on to another stage of the job.
LEMMA JobGoesOn ==
    ASSUME IInv, [Next]_vars, NEW d \in Dispatches, pc[d] \in {"spawned"} \cup JobStages,
           NEW stage \in JobStages, pc' = [pc EXCEPT ![d] = stage],
           call' \in [Dispatches -> {"none", "pending", "ok", "err"}],
           UNCHANGED <<runtime, dropped, gateClosing, workerLost, entries, request, cancelled, result,
                       completion, starter, coord, outcome, waiter>>,
           acceptance' \in [Dispatches -> BOOLEAN], \A b \in Dispatches \ {d} : acceptance'[b] = acceptance[b],
           acceptance'[d] => stage \in {"run", "recorded", "event", "final", "duplicate"}
    PROVE  IInv'
<1>1. pc[d] \in Tracked /\ result[d] = "none" /\ completion[d] = "none" /\ request[d] # NoRequest
  BY RunningFacts
<1>2. stage \in Tracked /\ stage \notin Ending /\ stage # "free"
  BY DEF Tracked, JobStages, HeldStages, Ending
<1>3. pc'[d] = stage /\ result'[d] = "none" /\ "none" \in Results /\ result' = [result EXCEPT ![d] = "none"]
  BY <1>1 DEF IInv, HostTypes, Results
<1>4. WorkerInvOf(d)'
  BY <1>1, <1>2, <1>3 DEF WorkerInvOf, Ending
<1>5. QED
  BY <1>1, <1>2, <1>3, <1>4, WorkerMoves

\* The job ends.
LEMMA JobEnds ==
    ASSUME IInv, [Next]_vars, NEW d \in Dispatches, pc[d] \in {"spawned"} \cup JobStages,
           NEW stage \in {"returned", "lost"}, pc' = [pc EXCEPT ![d] = stage],
           call' \in [Dispatches -> {"none", "pending", "ok", "err"}],
           NEW r \in Results \ {"none"}, result' = [result EXCEPT ![d] = r],
           r = "lost" <=> stage = "lost",
           acceptance[d] /\ stage = "lost" => Uncertain',
           UNCHANGED <<runtime, dropped, gateClosing, workerLost, entries, request, cancelled,
                       completion, acceptance, starter, coord, outcome, waiter>>
    PROVE  IInv'
<1>1. pc[d] \in Tracked /\ completion[d] = "none" /\ request[d] # NoRequest
  BY RunningFacts
<1>2. stage \in Tracked /\ stage \in Ending /\ stage # "free"
  BY DEF Tracked, Ending
<1>3. pc'[d] = stage /\ result'[d] = r
  BY DEF IInv, HostTypes
<1>4. WorkerInvOf(d)'
  BY <1>1, <1>2, <1>3 DEF WorkerInvOf, Ending
<1>5. QED
  BY <1>1, <1>2, <1>3, <1>4, WorkerMoves DEF IInv, HostTypes

LEMMA CallSteps ==
    ASSUME IInv, [Next]_vars, NEW d \in Dispatches, CallStart(d) \/ CallReturn(d) \/ CallLost(d)
    PROVE  IInv'
<1>1. /\ UNCHANGED <<pc, result, runtime, dropped, gateClosing, workerLost, entries, request, cancelled,
                     acceptance, completion, starter, coord, outcome>>
      /\ UNCHANGED waiter
  BY DEF CallStart, CallReturn, CallLost, KeepHost, storeVars, Storage!Admit, Storage!Finish, Storage!Lose
<1>2. call' \in [Dispatches -> {"none", "pending", "ok", "err"}]
  BY DEF CallStart, CallReturn, CallLost, Seen, IInv, HostTypes
<1>3. HostTypes'
  BY <1>1, <1>2 DEF IInv, HostTypes
<1>4. GateInv' /\ OutcomeInv'
  BY <1>1, GateFrame DEF Closer, IInv, OutcomeInv
<1>5. WorkerInv'
  BY <1>1, WorkerFrame DEF WorkerInv
<1>6. QED
  BY <1>3, <1>4, <1>5, StoreFacts DEF IInv

LEMMA JobSteps ==
    ASSUME IInv, [Next]_vars, NEW d \in Dispatches,
           \/ Polled(d) \/ SessionOpened(d) \/ TakeHold(d) \/ LookedUp(d)
           \/ Accepted(d) \/ Recorded(d) \/ RunEnds(d) \/ EventRecorded(d)
    PROVE  IInv'
<1>1. /\ UNCHANGED <<runtime, dropped, gateClosing, workerLost, entries, request, cancelled,
                     completion, starter, coord, outcome, waiter>>
      /\ pc[d] \in {"spawned"} \cup JobStages
  BY DEF Polled, SessionOpened, TakeHold, LookedUp, Accepted, Recorded, RunEnds, EventRecorded, KeepHost,
     storeVars, Storage!Admit, JobStages, HeldStages
<1>2. call' \in [Dispatches -> {"none", "pending", "ok", "err"}]
  BY DEF Polled, SessionOpened, TakeHold, LookedUp, Accepted, Recorded, RunEnds, EventRecorded, Goto, Return,
     IInv, HostTypes
<1>3. /\ acceptance' \in [Dispatches -> BOOLEAN] /\ \A b \in Dispatches \ {d} : acceptance'[b] = acceptance[b]
      /\ ~Accepted(d) => acceptance' = acceptance
  BY DEF Polled, SessionOpened, TakeHold, LookedUp, Accepted, Recorded, RunEnds, EventRecorded, KeepHost,
     IInv, HostTypes
<1>4. acceptance[d] /\ pc[d] \in JobStages => pc[d] \in {"run", "recorded", "event", "final", "duplicate"}
  BY RunningFacts DEF IInv, WorkerInv, WorkerInvOf
<1>5. CASE Polled(d) \/ LookedUp(d) \/ Recorded(d) \/ RunEnds(d) \/ EventRecorded(d)
  <2>1. PICK stage \in JobStages :
          /\ pc' = [pc EXCEPT ![d] = stage]
          /\ acceptance[d] => stage \in {"run", "recorded", "event", "final", "duplicate"}
    BY <1>4, <1>5, RunningFacts DEF Polled, LookedUp, Recorded, RunEnds, EventRecorded, Goto, JobStages, HeldStages,
       IInv, WorkerInv, WorkerInvOf, Ending
  <2>2. result' = result /\ acceptance' = acceptance
    BY <1>5 DEF Polled, LookedUp, Recorded, RunEnds, EventRecorded, KeepHost
  <2>3. QED
    BY <1>1, <1>2, <1>3, <2>1, <2>2, JobGoesOn
<1>6. CASE Accepted(d)
  <2>1. PICK stage \in {"run", "duplicate"} : pc' = [pc EXCEPT ![d] = stage]
    BY <1>6 DEF Accepted, Goto
  <2>2. stage \in JobStages /\ result' = result
    BY <1>6 DEF Accepted, JobStages, HeldStages
  <2>3. QED
    BY <1>1, <1>2, <1>3, <2>1, <2>2, JobGoesOn
<1>7. CASE SessionOpened(d) \/ TakeHold(d)
  <2>1. pc[d] \in JobStages /\ ~acceptance[d] /\ acceptance' = acceptance
    BY <1>4, <1>7 DEF SessionOpened, TakeHold, KeepHost, JobStages, HeldStages
  <2>2. CASE \E stage \in {"admit", "lookup"} : Goto(d, stage) /\ result' = result
    <3>1. PICK stage \in {"admit", "lookup"} : pc' = [pc EXCEPT ![d] = stage] /\ result' = result
      BY <2>2 DEF Goto
    <3>2. stage \in JobStages
      BY DEF JobStages, HeldStages
    <3>3. QED
      BY <1>1, <1>2, <1>3, <2>1, <3>1, <3>2, JobGoesOn
  <2>3. CASE \E r \in {"open_failed", "failed"} : Return(d, r)
    <3>1. PICK r \in {"open_failed", "failed"} : pc' = [pc EXCEPT ![d] = "returned"] /\ result' = [result EXCEPT ![d] = r]
      BY <2>3 DEF Return, Goto
    <3>2. r \in Results \ {"none"} /\ r # "lost"
      BY DEF Results
    <3>3. QED
      BY <1>1, <1>2, <2>1, <3>1, <3>2, JobEnds
  <2>4. QED
    BY <1>7, <2>2, <2>3 DEF SessionOpened, TakeHold
<1>8. QED
  BY <1>5, <1>6, <1>7

LEMMA JobReturnsStep ==
    ASSUME IInv, [Next]_vars, NEW d \in Dispatches, JobReturns(d)
    PROVE  IInv'
<1>1. PICK r \in {"failed", "executed"} : Return(d, r)
  BY DEF JobReturns
<1>2. r \in Results \ {"none"} /\ r # "lost"
  BY DEF Results
<1>3. /\ UNCHANGED <<runtime, dropped, gateClosing, workerLost, entries, request, cancelled,
                     completion, acceptance, starter, coord, outcome, waiter>>
      /\ pc[d] \in JobStages
  BY DEF JobReturns, KeepHost, Storage!Finish, JobStages, HeldStages
<1>4. /\ pc' = [pc EXCEPT ![d] = "returned"] /\ result' = [result EXCEPT ![d] = r]
      /\ call' \in [Dispatches -> {"none", "pending", "ok", "err"}]
  BY <1>1 DEF Return, Goto, IInv, HostTypes
<1>5. QED
  BY <1>2, <1>3, <1>4, JobEnds

\* A worker that is lost after the acceptance has its hold, whose loss makes the
\* retirement of the store uncertain.
LEMMA WorkerUnwindsStep ==
    ASSUME IInv, [Next]_vars, NEW d \in Dispatches, WorkerUnwinds(d)
    PROVE  IInv'
<1>1. /\ UNCHANGED <<runtime, dropped, gateClosing, workerLost, entries, request, cancelled,
                     completion, acceptance, starter, coord, outcome, waiter>>
      /\ pc[d] \in {"spawned"} \cup JobStages
  BY DEF WorkerUnwinds, DropHold, KeepHost, storeVars, Storage!Lose
<1>2. /\ pc' = [pc EXCEPT ![d] = "lost"] /\ result' = [result EXCEPT ![d] = "lost"]
      /\ call' \in [Dispatches -> {"none", "pending", "ok", "err"}]
  BY DEF WorkerUnwinds, GuardDropped, IInv, HostTypes
<1>3. acceptance[d] => Uncertain'
  <2>1. SUFFICES ASSUME acceptance[d] PROVE Uncertain'
    OBVIOUS
  <2>2. pc[d] \in HeldStages
    BY <1>1, <2>1, RunningFacts DEF IInv, WorkerInv, WorkerInvOf, HeldStages
  <2>3. Storage!Lose(TheStore, Hold(d))
    BY <2>2 DEF WorkerUnwinds, DropHold
  <2>4. guards[TheStore] # {} /\ holder' = holder /\ unhealthy'[TheStore] = TRUE
    BY <2>3 DEF Storage!Lose, Storage!MarkUncertain, IInv, StoreInv, Kept!IInv, Kept!TypeOK
  <2>5. holder = TheStore
    BY <2>4 DEF IInv, StoreInv, Kept!IInv, Kept!LeaseInv, Kept!LeaseInvOf
  <2>6. QED
    BY <2>4, <2>5 DEF Uncertain
<1>4. "lost" \in Results \ {"none"}
  BY DEF Results
<1>5. QED
  BY <1>1, <1>2, <1>3, <1>4, JobEnds

\* WorkerGuard::finish under the gate: a lost worker is noted, and no shutdown
\* can have reported Closed, for the worker is still tracked.
LEMMA RetireStep ==
    ASSUME IInv, [Next]_vars, NEW d \in Dispatches, Retire(d)
    PROVE  IInv'
<1>1. /\ pc[d] \in {"returned", "lost"} /\ pc' = [pc EXCEPT ![d] = "retired"] /\ entries' = entries \ {d}
      /\ UNCHANGED <<runtime, dropped, request, call, result, acceptance, completion, coord, outcome, waiter>>
  BY DEF Retire, RemoveEntry, storeVars
<1>2. /\ workerLost' \in BOOLEAN /\ (workerLost => workerLost') /\ (result[d] = "lost" => workerLost')
      /\ gateClosing' \in BOOLEAN /\ (gateClosing => gateClosing') /\ cancelled' \subseteq Dispatches
      /\ starter' = starter \/ (gateClosing' /\ ~gateClosing)
      /\ starter' \in {"none", "host"} \cup Dispatches
  BY DEF Retire, NoteResult, CloseGate, IInv, HostTypes
<1>3. /\ pc'[d] = "retired" /\ \A b \in Dispatches \ {d} : pc'[b] = pc[b]
      /\ pc' \in [Dispatches -> Tracked \cup {"free", "done"}]
  BY <1>1 DEF IInv, HostTypes, Tracked
<1>4. HostTypes'
  BY <1>1, <1>2, <1>3 DEF IInv, HostTypes
<1>5. pc[d] \in Tracked /\ pc[d] \in Ending /\ pc[d] \notin {"free", "finished", "done"}
  BY <1>1 DEF Tracked, Ending
<1>6. GateInv'
  BY <1>1, <1>2, <1>3, <1>5, GateFrame DEF Closer
<1>7. WorkerInvOf(d)'
  BY <1>1, <1>2, <1>3, <1>5, StoreFacts DEF IInv, WorkerInv, WorkerInvOf, Ending
<1>8. WorkerInv'
  BY <1>1, <1>2, <1>3, <1>7, WorkerFrame DEF WorkerInv
<1>9. OutcomeInv'
  BY <1>1, <1>5 DEF IInv, OutcomeInv, GateInv, Drained
<1>10. QED
  BY <1>4, <1>6, <1>8, <1>9, StoreFacts DEF IInv

\* The ticket gets the result, and the worker that closed the gate spawns the
\* coordinator: there is none yet.
LEMMA PublishStep ==
    ASSUME IInv, [Next]_vars, NEW d \in Dispatches, Publish(d)
    PROVE  IInv'
<1>1. /\ pc[d] = "retired" /\ pc' = [pc EXCEPT ![d] = "finished"]
      /\ UNCHANGED <<runtime, dropped, gateClosing, workerLost, entries, request, cancelled,
                     call, result, acceptance, outcome, waiter>>
      /\ \/ starter' = starter /\ coord' = coord
         \/ starter = d /\ starter' = "none" /\ coord' = "draining"
  BY DEF Publish, Settle, SpawnCoordinator, storeVars
<1>2. /\ pc'[d] = "finished" /\ \A b \in Dispatches \ {d} : pc'[b] = pc[b]
      /\ pc' \in [Dispatches -> Tracked \cup {"free", "done"}]
  BY <1>1 DEF IInv, HostTypes, Tracked
<1>3. completion[d] = "none" /\ result[d] # "none"
  BY <1>1 DEF IInv, WorkerInv, WorkerInvOf, Ending
<1>4. /\ completion'[d] = result[d] /\ \A b \in Dispatches \ {d} : completion'[b] = completion[b]
      /\ completion' \in [Dispatches -> Results]
  BY <1>3 DEF Publish, Settle, IInv, HostTypes
<1>5. d \notin entries
  BY <1>1 DEF IInv, HostTypes, JobStages, HeldStages
<1>6. HostTypes'
  BY <1>1, <1>2, <1>4, <1>5 DEF IInv, HostTypes
<1>7. pc[d] \in Tracked
  BY <1>1 DEF Tracked
<1>8. ~Drained /\ coord \notin {"closing", "finished"} /\ Closer = "idle"
  BY <1>7 DEF IInv, GateInv, Drained
<1>9. ~(closing'[TheStore] /\ ~unhealthy'[TheStore])
  BY <1>8, StoreFacts DEF IInv, GateInv
<1>10. GateInv'
  <2>1. Closer' = "idle"
    BY <1>1, <1>8 DEF Closer
  <2>2. CASE starter' = starter /\ coord' = coord
    BY <1>1, <1>8, <1>9, <2>1, <2>2 DEF IInv, GateInv
  <2>3. CASE starter = d /\ starter' = "none" /\ coord' = "draining"
    <3>1. gateClosing
      BY <2>3, HostAssumption DEF IInv, GateInv
    <3>2. QED
      BY <1>1, <1>9, <2>1, <2>3, <3>1 DEF GateInv
  <2>4. QED
    BY <1>1, <2>2, <2>3
<1>11. WorkerInvOf(d)'
  BY <1>1, <1>2, <1>4, StoreFacts DEF IInv, WorkerInv, WorkerInvOf, Ending
<1>12. WorkerInv'
  BY <1>1, <1>2, <1>4, <1>11, WorkerFrame DEF WorkerInv
<1>13. OutcomeInv'
  BY <1>1, <1>8 DEF IInv, OutcomeInv
<1>14. QED
  BY <1>6, <1>10, <1>12, <1>13, StoreFacts DEF IInv

LEMMA UntrackStep ==
    ASSUME IInv, [Next]_vars, NEW d \in Dispatches, Untrack(d)
    PROVE  IInv'
<1>1. /\ pc[d] = "finished" /\ pc' = [pc EXCEPT ![d] = "done"]
      /\ UNCHANGED <<runtime, dropped, gateClosing, workerLost, entries, request, cancelled, call, result,
                     acceptance, completion, starter, coord, outcome, waiter>>
  BY DEF Untrack, KeepHost, storeVars
<1>2. pc[d] \in Tracked /\ d \notin entries
  BY <1>1 DEF IInv, HostTypes, Tracked, JobStages, HeldStages
<1>3. pc'[d] = "done" /\ result' = [result EXCEPT ![d] = result[d]] /\ result[d] \in Results
  BY <1>1 DEF IInv, HostTypes
<1>4. WorkerInvOf(d)'
  BY <1>1, <1>3, StoreFacts DEF IInv, WorkerInv, WorkerInvOf, Ending
<1>5. QED
  BY <1>1, <1>2, <1>3, <1>4, WorkerMoves DEF IInv, HostTypes

-----------------------------------------------------------------------------
(***************************************************************************)
(* Clients, the coordinator and the runtime.                               *)
(***************************************************************************)

\* A dispatch is registered only at an open gate, so nobody has seen the
\* workers drained.
LEMMA SubmitStep ==
    ASSUME IInv, [Next]_vars, NEW d \in Dispatches, NEW r \in Requests, NEW exclusive \in BOOLEAN,
           Submit(d, r, exclusive)
    PROVE  IInv'
<1>1. /\ pc[d] = "free" /\ pc' = [pc EXCEPT ![d] = "spawned"] /\ ~gateClosing
      /\ entries' = entries \cup {d} /\ request' = [request EXCEPT ![d] = r]
      /\ UNCHANGED <<runtime, dropped, gateClosing, workerLost, cancelled, call, result,
                     acceptance, completion, starter, coord, outcome, waiter>>
  BY DEF Submit, Registrable, storeVars
<1>2. /\ pc'[d] = "spawned" /\ \A b \in Dispatches \ {d} : pc'[b] = pc[b]
      /\ pc' \in [Dispatches -> Tracked \cup {"free", "done"}]
  BY <1>1 DEF IInv, HostTypes, Tracked
<1>3. /\ request'[d] = r /\ r # NoRequest /\ \A b \in Dispatches \ {d} : request'[b] = request[b]
      /\ request' \in [Dispatches -> Requests \cup {NoRequest}]
  BY <1>1, HostAssumption DEF IInv, HostTypes
<1>4. HostTypes'
  BY <1>1, <1>2, <1>3 DEF IInv, HostTypes
<1>5. GateInv'
  BY <1>1, GateFrame DEF Closer
<1>6. WorkerInvOf(d)'
  BY <1>1, <1>2, <1>3 DEF IInv, WorkerInv, WorkerInvOf, Ending
<1>7. WorkerInv'
  BY <1>1, <1>2, <1>3, <1>6, WorkerFrame DEF WorkerInv
<1>8. OutcomeInv'
  BY <1>1 DEF IInv, OutcomeInv, Closer
<1>9. QED
  BY <1>4, <1>5, <1>7, <1>8, StoreFacts DEF IInv

\* A step that leaves the dispatches alone.
LEMMA HostMoves ==
    ASSUME IInv, [Next]_vars, UNCHANGED <<pc, call, request, result, completion, acceptance, entries>>,
           runtime' \in BOOLEAN, dropped' \in BOOLEAN, gateClosing' \in BOOLEAN, workerLost' \in BOOLEAN,
           cancelled' \subseteq Dispatches, starter' \in {"none", "host"} \cup Dispatches,
           coord' \in {"none", "draining", "closing", "finished", "lost"},
           outcome' \in {"none", "closed", "incomplete"},
           workerLost => workerLost', GateInv', OutcomeInv'
    PROVE  IInv'
<1>1. HostTypes'
  BY DEF IInv, HostTypes
<1>2. WorkerInv'
  BY WorkerFrame DEF WorkerInv
<1>3. QED
  BY <1>1, <1>2, StoreFacts DEF IInv

\* Clients and the owner, operations of others, and the end of the runtime or
\* of the host do not concern the coordinator.
LEMMA OtherSteps ==
    ASSUME IInv, [Next]_vars,
           \/ \E r \in Requests : Cancel(r)
           \/ BeginShutdown \/ RuntimeStops \/ ConnectionUncertain \/ HostFreed
           \/ \E g \in Readers : Reader(g)
    PROVE  IInv'
<1>1. UNCHANGED <<pc, call, request, result, completion, acceptance, entries, workerLost, coord, outcome, waiter>>
  BY DEF Cancel, BeginShutdown, RuntimeStops, ConnectionUncertain, HostFreed, Reader, hostVars, storeVars,
     Storage!Quarantine, Storage!StoreDrop, Storage!Admit, Storage!Finish
<1>2. /\ gateClosing' \in BOOLEAN /\ (gateClosing => gateClosing')
      /\ starter' = starter \/ (gateClosing' /\ ~gateClosing)
      /\ starter' \in {"none", "host"} \cup Dispatches /\ cancelled' \subseteq Dispatches
      /\ dropped' \in BOOLEAN /\ runtime' \in BOOLEAN
  <2>1. CASE \E r \in Requests : Cancel(r)
    BY <2>1 DEF Cancel, IInv, HostTypes
  <2>2. CASE BeginShutdown
    BY <2>2 DEF BeginShutdown, CloseGate, IInv, HostTypes
  <2>3. CASE RuntimeStops \/ ConnectionUncertain \/ HostFreed \/ \E g \in Readers : Reader(g)
    BY <2>3 DEF RuntimeStops, ConnectionUncertain, HostFreed, Reader, hostVars, IInv, HostTypes
  <2>4. QED
    BY <2>1, <2>2, <2>3
<1>3. GateInv'
  BY <1>1, <1>2, GateFrame DEF Closer
<1>4. OutcomeInv'
  BY <1>1 DEF IInv, OutcomeInv, Closer
<1>5. QED
  BY <1>1, <1>2, <1>3, <1>4, HostMoves DEF IInv, HostTypes

\* The coordinator is spawned once, and closes the store only when it has seen
\* every worker go.
LEMMA CoordinatorSteps ==
    ASSUME IInv, [Next]_vars,
           \/ HostSpawnsCoordinator \/ CoordinatorDrains \/ CoordinatorCloses
           \/ CoordinatorFinishes \/ CoordinatorLost
    PROVE  IInv'
<1>1. /\ UNCHANGED <<pc, call, request, result, completion, acceptance, entries, runtime, dropped, gateClosing, cancelled>>
      /\ workerLost' \in BOOLEAN /\ (workerLost => workerLost')
      /\ starter' \in {"none", "host"} \cup Dispatches /\ coord' \in {"none", "draining", "closing", "finished", "lost"}
      /\ outcome' \in {"none", "closed", "incomplete"}
  BY DEF HostSpawnsCoordinator, SpawnCoordinator, CoordinatorDrains, CoordinatorCloses, CoordinatorFinishes,
     CoordinatorLost, hostVars, IInv, HostTypes
<1>2. Drained' <=> Drained
  BY <1>1 DEF Drained
<1>3. waiter \in [{TheStore} -> [{"coordinator"} -> Kept!WaiterStates]]
  BY DEF IInv, StoreInv, Kept!IInv, Kept!TypeOK
<1>4. CASE HostSpawnsCoordinator
  <2>1. starter = "host" /\ starter' = "none" /\ coord' = "draining" /\ UNCHANGED <<workerLost, outcome, waiter>>
    BY <1>4 DEF HostSpawnsCoordinator, SpawnCoordinator, storeVars
  <2>2. gateClosing /\ coord = "none" /\ Closer = "idle" /\ Closer' = Closer
    BY <2>1 DEF IInv, GateInv, Closer
  <2>3. GateInv'
    BY <1>1, <1>2, <2>1, <2>2, StoreFacts DEF IInv, GateInv
  <2>4. OutcomeInv'
    BY <2>1, <2>2 DEF IInv, OutcomeInv
  <2>5. QED
    BY <1>1, <2>3, <2>4, HostMoves DEF IInv, HostTypes
<1>5. CASE CoordinatorDrains
  <2>1. coord = "draining" /\ coord' = "closing" /\ Drained /\ UNCHANGED <<workerLost, outcome, starter>>
    BY <1>5 DEF CoordinatorDrains
  <2>2. gateClosing /\ starter = "none"
    BY <2>1 DEF IInv, GateInv
  <2>3. GateInv' /\ OutcomeInv'
    BY <1>1, <1>2, <2>1, <2>2 DEF IInv, GateInv, OutcomeInv
  <2>4. QED
    BY <1>1, <2>3, HostMoves DEF IInv, HostTypes
<1>6. CASE CoordinatorCloses
  <2>1. coord = "closing" /\ coord' = coord /\ UNCHANGED <<workerLost, outcome, starter>>
    BY <1>6 DEF CoordinatorCloses, hostVars
  <2>2. gateClosing /\ starter = "none" /\ Drained
    BY <2>1 DEF IInv, GateInv
  <2>3. GateInv' /\ OutcomeInv'
    BY <1>1, <1>2, <2>1, <2>2 DEF IInv, GateInv, OutcomeInv
  <2>4. QED
    BY <1>1, <2>3, HostMoves DEF IInv, HostTypes
<1>7. CASE CoordinatorFinishes
  <2>1. /\ coord = "closing" /\ coord' = "finished" /\ UNCHANGED <<workerLost, starter, waiter>>
        /\ outcome' = "closed" => ~workerLost /\ Closer = "closed"
    BY <1>7 DEF CoordinatorFinishes, storeVars, Closer
  <2>2. gateClosing /\ starter = "none" /\ Drained /\ Closer' = Closer
    BY <2>1 DEF IInv, GateInv, Closer
  <2>3. GateInv' /\ OutcomeInv'
    BY <1>1, <1>2, <2>1, <2>2 DEF IInv, GateInv, OutcomeInv
  <2>4. QED
    BY <1>1, <2>3, HostMoves DEF IInv, HostTypes
<1>8. CASE CoordinatorLost
  <2>1. coord \in {"draining", "closing"} /\ coord' = "lost" /\ outcome' = "incomplete" /\ starter' = starter
    BY <1>8 DEF CoordinatorLost
  <2>2. gateClosing /\ starter = "none" /\ (Closer = "enabled" => Drained)
    BY <2>1 DEF IInv, GateInv
  <2>3. Closer' = "idle"
    BY <1>3, <1>8 DEF CoordinatorLost, storeVars, Storage!CloseLeave, Closer
  <2>4. closing'[TheStore] /\ ~unhealthy'[TheStore] => Drained
    BY <2>2, StoreFacts DEF IInv, GateInv
  <2>5. GateInv'
    BY <1>1, <1>2, <2>1, <2>2, <2>3, <2>4 DEF GateInv
  <2>6. OutcomeInv'
    BY <2>1 DEF OutcomeInv
  <2>7. QED
    BY <1>1, <2>5, <2>6, HostMoves DEF IInv, HostTypes
<1>9. QED
  BY <1>4, <1>5, <1>6, <1>7, <1>8

LEMMA NextStep == IInv /\ [Next]_vars => IInv'
<1> SUFFICES ASSUME IInv, [Next]_vars PROVE IInv'
  OBVIOUS
<1>1. ASSUME NEW d \in Dispatches, WorkerStep(d) PROVE IInv'
  BY <1>1, CallSteps, JobSteps, JobReturnsStep, WorkerUnwindsStep, RetireStep, PublishStep, UntrackStep
     DEF WorkerStep
<1>2. CASE UNCHANGED vars
  <2>1. UNCHANGED <<runtime, dropped, gateClosing, workerLost, entries, request, cancelled, pc, call, result,
                    acceptance, completion, starter, coord, outcome, waiter>>
    BY <1>2 DEF vars, hostVars, storeVars
  <2>2. GateInv' /\ OutcomeInv'
    BY <2>1, GateFrame DEF IInv, OutcomeInv, Closer
  <2>3. QED
    BY <2>1, <2>2, HostMoves DEF IInv, HostTypes
<1>3. QED
  BY <1>1, <1>2, SubmitStep, OtherSteps, CoordinatorSteps DEF Next

\* The invariant from which the theorems follow.
THEOREM Invariant == Spec => []IInv
<1>1. Init => IInv
  BY InitIInv
<1>2. IInv /\ [Next]_vars => IInv'
  BY NextStep
<1>3. QED
  BY <1>1, <1>2, PTL DEF Spec

\* The host and its store stay well typed.
THEOREM TypeCorrect == Spec => []TypeOK
<1>1. IInv => TypeOK
  <2>1. SUFFICES ASSUME IInv PROVE TypeOK
    OBVIOUS
  <2>2. Storage!TypeOK
    BY <2>1 DEF IInv, StoreInv, Kept!IInv, Kept!TypeOK, Storage!TypeOK, Kept!Phases, Storage!Phases,
       Kept!WaiterStates, Storage!WaiterStates
  <2>3. {"spawned", "returned", "lost"} \cup JobStages \subseteq Tracked
    BY DEF Tracked
  <2>4. QED
    BY <2>1, <2>2, <2>3 DEF IInv, HostTypes, TypeOK
<1>2. QED
  BY <1>1, Invariant, PTL

\* However many dispatches there are, and however registration, panics and
\* shutdown race: a healthy store stops admitting operations only when the last
\* worker of the host is gone.
THEOREM StoreClosesLast == Spec => []WorkersKeepStoreOpen
<1>1. IInv => WorkersKeepStoreOpen
  BY DEF IInv, HostTypes, GateInv, Drained, WorkersKeepStoreOpen
<1>2. QED
  BY <1>1, Invariant, PTL

\* A shutdown that reports Closed has settled every ticket and given the root
\* back; a worker lost after its run was accepted keeps the root for good.
THEOREM ClosedIsTrue == Spec => []ClosedMeansClosed
<1>1. IInv => ClosedMeansClosed
  <2>1. SUFFICES ASSUME IInv PROVE ClosedMeansClosed
    OBVIOUS
  <2>2. ASSUME outcome = "closed"
        PROVE  /\ entries = {}
               /\ \A d \in Dispatches : request[d] # NoRequest => completion[d] \notin {"none", "lost"}
               /\ guards[TheStore] = {} /\ ~stray[TheStore] /\ holder # TheStore
    <3>1. Drained /\ ~workerLost /\ Closer = "closed"
      BY <2>1, <2>2 DEF IInv, OutcomeInv, GateInv
    <3>2. entries = {}
      BY <2>1, <3>1 DEF IInv, HostTypes, Drained, Tracked
    <3>3. ASSUME NEW d \in Dispatches, request[d] # NoRequest PROVE completion[d] \notin {"none", "lost"}
      <4>1. pc[d] = "done"
        BY <2>1, <3>1, <3>3 DEF IInv, HostTypes, Drained, WorkerInv, WorkerInvOf
      <4>2. QED
        BY <2>1, <3>1, <4>1 DEF IInv, WorkerInv, WorkerInvOf, Ending
    <3>4. holder # TheStore
      BY <2>1, <3>1 DEF IInv, StoreInv, Kept!IInv, Kept!WaiterInv, Closer
    <3>5. guards[TheStore] = {} /\ ~stray[TheStore]
      BY <2>1, <3>4 DEF IInv, StoreInv, Kept!IInv, Kept!LeaseInv, Kept!LeaseInvOf
    <3>6. QED
      BY <3>2, <3>3, <3>4, <3>5
  <2>3. ASSUME NEW d \in Dispatches, acceptance[d], completion[d] = "lost"
        PROVE  unhealthy[TheStore] /\ holder = TheStore
    <3>1. result[d] = "lost"
      BY <2>1, <2>3 DEF IInv, WorkerInv, WorkerInvOf
    <3>2. QED
      BY <2>1, <2>3, <3>1 DEF IInv, WorkerInv, WorkerInvOf, Uncertain
  <2>4. QED
    BY <2>2, <2>3 DEF ClosedMeansClosed
<1>2. QED
  BY <1>1, Invariant, PTL
=============================================================================
