--------------------------- MODULE LifecycleProofs ---------------------------
(***************************************************************************)
(* Theorems about Lifecycle for any number of instances, guards and close  *)
(* waiters.                                                                *)
(***************************************************************************)
EXTENDS Lifecycle, FiniteSetTheorems, TLAPS

\* The admission counter is the number of outstanding guards: the drop of
\* the guard that leaves it at zero is the drop of the last one.
CountInv ==
    \A s \in Stores : admitted[s] = Cardinality(guards[s])

\* Where an instance owns the lock.  Admission is possible only while it
\* does; uncertain retirement keeps it; a released lease is gone.
LeaseInvOf(s) ==
    /\ guards[s] # {} => holder = s /\ phase[s] \in {"opening", "open"}
    /\ stray[s] => holder = s /\ unhealthy[s]
    /\ unhealthy[s] => closing[s]
    /\ phase[s] = "absent" => holder # s /\ ~closing[s]
    /\ phase[s] = "opening" => holder = s /\ lease[s] /\ admitted[s] = 1
    /\ phase[s] = "opening" /\ closing[s] => unhealthy[s]
    /\ phase[s] = "open" => lease[s] \/ (holder # s /\ closing[s])
    /\ phase[s] = "open" /\ ~closing[s] => holder = s
    /\ phase[s] = "open" /\ closing[s] /\ guards[s] = {} /\ ~unhealthy[s] => holder # s
    /\ phase[s] = "gone" /\ ~unhealthy[s] => holder # s

LeaseInv == \A s \in Stores : LeaseInvOf(s)

\* What a close() that returned Ok has seen stays so.
WaiterInv ==
    \A s \in Stores, w \in Waiters :
        /\ waiter[s][w] = "closed" => ~lease[s] /\ holder # s /\ closing[s]
        /\ waiter[s][w] # "idle" => phase[s] \in {"open", "gone"}

IInv == TypeOK /\ CountInv /\ LeaseInv /\ WaiterInv

\* Adding a guard adds one to the number of guards.
LEMMA AddGuard ==
    ASSUME NEW S, S \in SUBSET Guards, NEW g \in Guards, g \notin S
    PROVE  Cardinality(S \cup {g}) = Cardinality(S) + 1
BY LifecycleAssumption, FS_Subset, FS_AddElement

\* Removing one takes one away, and leaves none exactly when it was the only one.
LEMMA RemoveGuard ==
    ASSUME NEW S, S \in SUBSET Guards, NEW g \in Guards, g \in S
    PROVE  /\ Cardinality(S \ {g}) = Cardinality(S) - 1
           /\ Cardinality(S) \in Nat \ {0}
           /\ Cardinality(S) = 1 <=> S \ {g} = {}
<1>1. IsFiniteSet(S) /\ Cardinality(S) \in Nat
  BY LifecycleAssumption, FS_Subset, FS_CardinalityType
<1>2. IsFiniteSet(S \ {g}) /\ Cardinality(S \ {g}) = Cardinality(S) - 1
  BY <1>1, FS_RemoveElement
<1>3. Cardinality(S \ {g}) \in Nat /\ (Cardinality(S \ {g}) = 0 <=> S \ {g} = {})
  BY <1>2, FS_EmptySet, FS_CardinalityType, ZenonT(60)
<1>4. QED
  BY <1>1, <1>2, <1>3

\* No guard at all is counted as zero, and only that is.
LEMMA NoGuard ==
    ASSUME NEW S, S \in SUBSET Guards
    PROVE  Cardinality(S) = 0 <=> S = {}
BY LifecycleAssumption, FS_Subset, FS_EmptySet

\* A notification leaves the flags of the waiters Boolean.
LEMMA NotifyType ==
    ASSUME TypeOK, NEW s \in Stores, NotifyWaiters(s)
    PROVE  woken' \in [Stores -> [Waiters -> BOOLEAN]]
<1> DEFINE f == [w \in Waiters |->
                    woken[s][w] \/ waiter[s][w] \in {"enabled", "awaiting"}]
<1>1. f \in [Waiters -> BOOLEAN]
  OBVIOUS
<1>2. woken' = [woken EXCEPT ![s] = f]
  BY DEF NotifyWaiters
<1> HIDE DEF f
<1>3. QED
  BY <1>1, <1>2 DEF TypeOK

LEMMA InitIInv == Init => IInv
BY FS_EmptySet, LifecycleAssumption
   DEF Init, IInv, TypeOK, CountInv, LeaseInv, LeaseInvOf, WaiterInv, Phases, WaiterStates

LEMMA OpenStep ==
    ASSUME IInv, NEW s \in Stores, NEW g \in Guards, Open(s, g)
    PROVE  IInv'
<1>1. TypeOK'
  BY LifecycleAssumption DEF IInv, TypeOK, Open, Acquirable, Phases
<1>2. CountInv'
  BY FS_Singleton, ZenonT(60) DEF IInv, TypeOK, CountInv, Open, Acquirable
<1>3. LeaseInv'
  BY LifecycleAssumption DEF IInv, TypeOK, LeaseInv, LeaseInvOf, Open, Acquirable
<1>4. WaiterInv'
  BY DEF IInv, TypeOK, WaiterInv, Open, Acquirable
<1>5. QED
  BY <1>1, <1>2, <1>3, <1>4 DEF IInv

LEMMA OpenOkStep ==
    ASSUME IInv, NEW s \in Stores, OpenOk(s)
    PROVE  IInv'
<1>1. TypeOK'
  BY FS_EmptySet, LifecycleAssumption DEF IInv, TypeOK, CountInv, OpenOk, Phases, WaiterStates
<1>2. CountInv'
  BY FS_EmptySet DEF IInv, TypeOK, CountInv, OpenOk
<1>3. LeaseInv'
  BY FS_EmptySet, LifecycleAssumption DEF IInv, TypeOK, CountInv, LeaseInv, LeaseInvOf, OpenOk, Phases
<1>4. WaiterInv'
  BY FS_EmptySet, LifecycleAssumption DEF IInv, TypeOK, CountInv, LeaseInv, LeaseInvOf, WaiterInv, OpenOk, WaiterStates
<1>5. QED
  BY <1>1, <1>2, <1>3, <1>4 DEF IInv

LEMMA OpenErrStep ==
    ASSUME IInv, NEW s \in Stores, OpenErr(s)
    PROVE  IInv'
<1>1. TypeOK'
  BY FS_EmptySet, LifecycleAssumption DEF IInv, TypeOK, CountInv, OpenErr, DropLifecycle, Phases, WaiterStates
<1>2. CountInv'
  BY FS_EmptySet DEF IInv, TypeOK, CountInv, OpenErr, DropLifecycle
<1>3. LeaseInv'
  BY FS_EmptySet, LifecycleAssumption DEF IInv, TypeOK, CountInv, LeaseInv, LeaseInvOf, OpenErr, DropLifecycle, Phases
<1>4. WaiterInv'
  BY FS_EmptySet, LifecycleAssumption DEF IInv, TypeOK, CountInv, LeaseInv, LeaseInvOf, WaiterInv, OpenErr, DropLifecycle, WaiterStates
<1>5. QED
  BY <1>1, <1>2, <1>3, <1>4 DEF IInv

LEMMA AdmitStep ==
    ASSUME IInv, NEW s \in Stores, NEW g \in Guards, Admit(s, g)
    PROVE  IInv'
<1>0. /\ guards[s] \in SUBSET Guards
      /\ admitted[s] = Cardinality(guards[s])
      /\ admitted[s] \in 0..UsizeMax
  BY DEF IInv, TypeOK, CountInv
<1>a. g \notin guards[s]
  BY DEF Admit
<1>c. Cardinality(guards[s] \cup {g}) = admitted[s] + 1
  BY <1>0, <1>a, AddGuard
<1>1. TypeOK'
  BY <1>0, <1>c, LifecycleAssumption DEF IInv, TypeOK, CountInv, Admit, Admissible, Phases, WaiterStates
<1>2. CountInv'
  BY <1>0, <1>c DEF IInv, TypeOK, CountInv, Admit, Admissible
<1>3. LeaseInv'
  BY <1>0, <1>c, LifecycleAssumption DEF IInv, TypeOK, CountInv, LeaseInv, LeaseInvOf, Admit, Admissible, Phases
<1>4. WaiterInv'
  BY <1>0, <1>c, LifecycleAssumption DEF IInv, TypeOK, CountInv, LeaseInv, LeaseInvOf, WaiterInv, Admit, Admissible, WaiterStates
<1>5. QED
  BY <1>1, <1>2, <1>3, <1>4 DEF IInv

LEMMA FinishStep ==
    ASSUME IInv, NEW s \in Stores, NEW g \in Guards, Finish(s, g)
    PROVE  IInv'
<1>0. /\ guards[s] \in SUBSET Guards
      /\ admitted[s] = Cardinality(guards[s])
      /\ admitted[s] \in 0..UsizeMax
  BY DEF IInv, TypeOK, CountInv
<1>a. g \in guards[s]
  BY DEF Finish
<1>b. guards[s] \in SUBSET Guards
  BY <1>0
<1>c. /\ Cardinality(guards[s] \ {g}) = admitted[s] - 1
      /\ admitted[s] \in Nat \ {0}
      /\ admitted[s] = 1 <=> guards[s] \ {g} = {}
  <2>1. Cardinality(guards[s] \ {g}) = Cardinality(guards[s]) - 1
    BY <1>a, <1>b, RemoveGuard, Zenon
  <2>2. Cardinality(guards[s]) \in Nat \ {0}
    BY <1>a, <1>b, RemoveGuard, Zenon
  <2>3. Cardinality(guards[s]) = 1 <=> guards[s] \ {g} = {}
    BY <1>a, <1>b, RemoveGuard, ZenonT(60)
  <2>4. QED
    BY <1>0, <2>1, <2>2, <2>3
<1>1. TypeOK'
  <2>1. admitted[s] - 1 \in 0..UsizeMax
    BY <1>0, <1>c, LifecycleAssumption
  <2>2. admitted' = [admitted EXCEPT ![s] = admitted[s] - 1] /\ UNCHANGED waiter
    BY DEF Finish
  <2>3. admitted' \in [Stores -> 0..UsizeMax]
    BY <2>1, <2>2 DEF IInv, TypeOK
  <2>4. woken' \in [Stores -> [Waiters -> BOOLEAN]]
    BY NotifyType DEF IInv, TypeOK, Finish
  <2>5. /\ holder' \in Stores \cup {NoStore}
        /\ phase' \in [Stores -> Phases]
        /\ lease' \in [Stores -> BOOLEAN]
        /\ closing' \in [Stores -> BOOLEAN]
        /\ unhealthy' \in [Stores -> BOOLEAN]
        /\ guards' \in [Stores -> SUBSET Guards]
        /\ stray' \in [Stores -> BOOLEAN]
    BY ZenonT(60) DEF IInv, TypeOK, Finish, Retirable, ReleaseLeaseOk, ReleaseLeaseErr, Unlock, UnlockFails, Phases
  <2>6. QED
    BY <2>2, <2>3, <2>4, <2>5 DEF IInv, TypeOK
<1>2. CountInv'
  BY <1>0, <1>c DEF IInv, TypeOK, CountInv, Finish, Retirable, NotifyWaiters, ReleaseLeaseOk, ReleaseLeaseErr, Unlock, UnlockFails
<1>3. LeaseInv'
  BY <1>0, <1>c, LifecycleAssumption DEF IInv, TypeOK, CountInv, LeaseInv, LeaseInvOf, Finish, Retirable, NotifyWaiters, ReleaseLeaseOk, ReleaseLeaseErr, Unlock, UnlockFails, Phases
<1>4. WaiterInv'
  BY <1>0, <1>c, LifecycleAssumption DEF IInv, TypeOK, CountInv, LeaseInv, LeaseInvOf, WaiterInv, Finish, Retirable, NotifyWaiters, ReleaseLeaseOk, ReleaseLeaseErr, Unlock, UnlockFails, WaiterStates
<1>5. QED
  BY <1>1, <1>2, <1>3, <1>4 DEF IInv

LEMMA LoseStep ==
    ASSUME IInv, NEW s \in Stores, NEW g \in Guards, Lose(s, g)
    PROVE  IInv'
<1>0. /\ guards[s] \in SUBSET Guards
      /\ admitted[s] = Cardinality(guards[s])
      /\ admitted[s] \in 0..UsizeMax
  BY DEF IInv, TypeOK, CountInv
<1>a. g \in guards[s]
  BY DEF Lose
<1>b. guards[s] \in SUBSET Guards
  BY <1>0
<1>c. /\ Cardinality(guards[s] \ {g}) = admitted[s] - 1
      /\ admitted[s] \in Nat \ {0}
      /\ admitted[s] = 1 <=> guards[s] \ {g} = {}
  <2>1. Cardinality(guards[s] \ {g}) = Cardinality(guards[s]) - 1
    BY <1>a, <1>b, RemoveGuard, Zenon
  <2>2. Cardinality(guards[s]) \in Nat \ {0}
    BY <1>a, <1>b, RemoveGuard, Zenon
  <2>3. Cardinality(guards[s]) = 1 <=> guards[s] \ {g} = {}
    BY <1>a, <1>b, RemoveGuard, Zenon
  <2>4. QED
    BY <1>0, <2>1, <2>2, <2>3
<1>1. TypeOK'
  <2>1. admitted[s] - 1 \in 0..UsizeMax
    BY <1>0, <1>c, LifecycleAssumption
  <2>2. admitted' = [admitted EXCEPT ![s] = admitted[s] - 1] /\ UNCHANGED waiter
    BY DEF Lose
  <2>3. admitted' \in [Stores -> 0..UsizeMax]
    BY <2>1, <2>2 DEF IInv, TypeOK
  <2>4. woken' \in [Stores -> [Waiters -> BOOLEAN]]
    BY NotifyType DEF IInv, TypeOK, Lose
  <2>5. /\ holder' \in Stores \cup {NoStore}
        /\ phase' \in [Stores -> Phases]
        /\ lease' \in [Stores -> BOOLEAN]
        /\ closing' \in [Stores -> BOOLEAN]
        /\ unhealthy' \in [Stores -> BOOLEAN]
        /\ guards' \in [Stores -> SUBSET Guards]
        /\ stray' \in [Stores -> BOOLEAN]
    BY ZenonT(60) DEF IInv, TypeOK, Lose, MarkUncertain, Phases
  <2>6. QED
    BY <2>2, <2>3, <2>4, <2>5 DEF IInv, TypeOK
<1>2. CountInv'
  BY <1>0, <1>c DEF IInv, TypeOK, CountInv, Lose, MarkUncertain, NotifyWaiters
<1>3. LeaseInv'
  <2>1. holder = s /\ holder' = holder
    BY <1>a DEF IInv, LeaseInv, LeaseInvOf, Lose
  <2>2. ASSUME NEW r \in Stores, r # s
        PROVE  LeaseInvOf(r)'
    <3>1. LeaseInvOf(r)
      BY DEF IInv, LeaseInv
    <3>2. QED
      BY <2>1, <2>2, <3>1 DEF IInv, TypeOK, LeaseInvOf, Lose, MarkUncertain
  <2>3. LeaseInvOf(s)'
    <3>1. closing'[s] /\ unhealthy'[s]
      BY DEF IInv, TypeOK, Lose, MarkUncertain
    <3>2. CASE phase[s] = "open"
      BY <1>c, <2>1, <3>1, <3>2 DEF IInv, TypeOK, LeaseInv, LeaseInvOf, Lose
    <3>3. CASE phase[s] = "opening"
      <4>1. phase'[s] = "gone"
        BY <3>3 DEF IInv, TypeOK, Lose
      <4>2. guards[s] \ {g} = {}
        BY <1>0, <1>a, <1>c, <3>3 DEF IInv, LeaseInv, LeaseInvOf, Lose
      <4>3. QED
        BY <2>1, <3>1, <4>1, <4>2 DEF IInv, TypeOK, LeaseInvOf, Lose
    <3>4. QED
      BY <3>2, <3>3 DEF Lose
  <2>4. QED
    BY <2>2, <2>3 DEF LeaseInv
<1>4. WaiterInv'
  BY <1>0, <1>c, LifecycleAssumption DEF IInv, TypeOK, CountInv, LeaseInv, LeaseInvOf, WaiterInv, Lose, MarkUncertain, NotifyWaiters, WaiterStates
<1>5. QED
  BY <1>1, <1>2, <1>3, <1>4 DEF IInv

LEMMA QuarantineStep ==
    ASSUME IInv, NEW s \in Stores, Quarantine(s)
    PROVE  IInv'
<1>1. TypeOK'
  BY LifecycleAssumption, ZenonT(60) DEF IInv, TypeOK, CountInv, Quarantine, MarkUncertain, Phases, WaiterStates
<1>2. CountInv'
  BY DEF IInv, TypeOK, CountInv, Quarantine, MarkUncertain
<1>3. LeaseInv'
  BY LifecycleAssumption DEF IInv, TypeOK, CountInv, LeaseInv, LeaseInvOf, Quarantine, MarkUncertain, Phases
<1>4. WaiterInv'
  BY LifecycleAssumption DEF IInv, TypeOK, CountInv, LeaseInv, LeaseInvOf, WaiterInv, Quarantine, MarkUncertain, WaiterStates
<1>5. QED
  BY <1>1, <1>2, <1>3, <1>4 DEF IInv

LEMMA StrayStopsStep ==
    ASSUME IInv, NEW s \in Stores, StrayStops(s)
    PROVE  IInv'
<1>1. TypeOK'
  BY LifecycleAssumption DEF IInv, TypeOK, CountInv, StrayStops, Phases, WaiterStates
<1>2. CountInv'
  BY DEF IInv, TypeOK, CountInv, StrayStops
<1>3. LeaseInv'
  BY LifecycleAssumption DEF IInv, TypeOK, CountInv, LeaseInv, LeaseInvOf, StrayStops, Phases
<1>4. WaiterInv'
  BY LifecycleAssumption DEF IInv, TypeOK, CountInv, LeaseInv, LeaseInvOf, WaiterInv, StrayStops, WaiterStates
<1>5. QED
  BY <1>1, <1>2, <1>3, <1>4 DEF IInv

LEMMA CloseEnableStep ==
    ASSUME IInv, NEW s \in Stores, NEW w \in Waiters, CloseEnable(s, w)
    PROVE  IInv'
<1>1. TypeOK'
  BY LifecycleAssumption DEF IInv, TypeOK, CountInv, CloseEnable, Phases, WaiterStates
<1>2. CountInv'
  BY DEF IInv, TypeOK, CountInv, CloseEnable
<1>3. LeaseInv'
  BY LifecycleAssumption DEF IInv, TypeOK, CountInv, LeaseInv, LeaseInvOf, CloseEnable, Phases
<1>4. WaiterInv'
  BY LifecycleAssumption DEF IInv, TypeOK, CountInv, LeaseInv, LeaseInvOf, WaiterInv, CloseEnable, WaiterStates
<1>5. QED
  BY <1>1, <1>2, <1>3, <1>4 DEF IInv

LEMMA CloseCheckStep ==
    ASSUME IInv, NEW s \in Stores, NEW w \in Waiters, CloseCheck(s, w)
    PROVE  IInv'
<1>0. /\ guards[s] \in SUBSET Guards
      /\ admitted[s] = Cardinality(guards[s])
  BY DEF IInv, TypeOK, CountInv
<1>c. admitted[s] = 0 <=> guards[s] = {}
  BY <1>0, NoGuard
<1>1. TypeOK'
  <2>1. \E x \in WaiterStates : waiter' = [waiter EXCEPT ![s][w] = x]
    BY DEF CloseCheck, WaiterStates
  <2>2. waiter' \in [Stores -> [Waiters -> WaiterStates]]
    BY <2>1 DEF IInv, TypeOK
  <2>3. /\ holder' \in Stores \cup {NoStore}
        /\ phase' \in [Stores -> Phases]
        /\ lease' \in [Stores -> BOOLEAN]
        /\ closing' \in [Stores -> BOOLEAN]
        /\ unhealthy' \in [Stores -> BOOLEAN]
        /\ guards' \in [Stores -> SUBSET Guards]
        /\ stray' \in [Stores -> BOOLEAN]
    BY ZenonT(60) DEF IInv, TypeOK, CloseCheck, ReleaseLeaseOk, ReleaseLeaseErr, Unlock, UnlockFails, Phases
  <2>4. QED
    BY <2>2, <2>3 DEF IInv, TypeOK, CloseCheck
<1>2. CountInv'
  BY <1>c DEF IInv, TypeOK, CountInv, CloseCheck, ReleaseLeaseOk, ReleaseLeaseErr, Unlock, UnlockFails
<1>d. phase[s] \in {"open", "gone"} /\ LeaseInvOf(s)
  BY DEF IInv, LeaseInv, WaiterInv, CloseCheck
<1>3. LeaseInv'
  <2>1. ASSUME NEW r \in Stores, r # s
        PROVE  LeaseInvOf(r)'
    <3>1. LeaseInvOf(r)
      BY DEF IInv, LeaseInv
    <3>2. holder' = holder \/ (holder = s /\ holder' = NoStore)
      BY DEF CloseCheck, ReleaseLeaseOk, ReleaseLeaseErr, Unlock, UnlockFails
    <3>3. QED
      BY <2>1, <3>1, <3>2, LifecycleAssumption
      DEF IInv, TypeOK, LeaseInvOf, CloseCheck, ReleaseLeaseOk, ReleaseLeaseErr, Unlock, UnlockFails
  <2>2. LeaseInvOf(s)'
    <3>1. closing'[s]
      BY DEF IInv, TypeOK, CloseCheck
    <3>2. CASE UNCHANGED <<holder, lease, unhealthy>>
      BY <1>c, <1>d, <3>1, <3>2
      DEF IInv, TypeOK, LeaseInvOf, CloseCheck, ReleaseLeaseOk, ReleaseLeaseErr, Unlock, UnlockFails
    <3>3. CASE admitted[s] = 0 /\ ~unhealthy[s] /\ lease[s] /\ Unlock(s)
      BY <1>c, <1>d, <3>1, <3>3, LifecycleAssumption DEF IInv, TypeOK, LeaseInvOf, CloseCheck, Unlock
    <3>4. CASE admitted[s] = 0 /\ ~unhealthy[s] /\ lease[s] /\ UnlockFails(s)
      BY <1>c, <1>d, <3>1, <3>4, LifecycleAssumption DEF IInv, TypeOK, LeaseInvOf, CloseCheck, UnlockFails
    <3>5. QED
      BY <3>2, <3>3, <3>4 DEF CloseCheck, ReleaseLeaseOk, ReleaseLeaseErr
  <2>3. QED
    BY <2>1, <2>2 DEF LeaseInv
<1>4. WaiterInv'
  BY <1>c, LifecycleAssumption DEF IInv, TypeOK, CountInv, LeaseInv, LeaseInvOf, WaiterInv, CloseCheck, ReleaseLeaseOk, ReleaseLeaseErr, Unlock, UnlockFails, WaiterStates
<1>5. QED
  BY <1>1, <1>2, <1>3, <1>4 DEF IInv

LEMMA CloseLeaveStep ==
    ASSUME IInv, NEW s \in Stores, NEW w \in Waiters, CloseLeave(s, w)
    PROVE  IInv'
<1>1. TypeOK'
  BY LifecycleAssumption DEF IInv, TypeOK, CountInv, CloseLeave, Phases, WaiterStates
<1>2. CountInv'
  BY DEF IInv, TypeOK, CountInv, CloseLeave
<1>3. LeaseInv'
  BY LifecycleAssumption DEF IInv, TypeOK, CountInv, LeaseInv, LeaseInvOf, CloseLeave, Phases
<1>4. WaiterInv'
  BY LifecycleAssumption DEF IInv, TypeOK, CountInv, LeaseInv, LeaseInvOf, WaiterInv, CloseLeave, WaiterStates
<1>5. QED
  BY <1>1, <1>2, <1>3, <1>4 DEF IInv

LEMMA StoreDropStep ==
    ASSUME IInv, NEW s \in Stores, StoreDrop(s)
    PROVE  IInv'
<1>1. TypeOK'
  BY LifecycleAssumption DEF IInv, TypeOK, CountInv, StoreDrop, DropLifecycle, Phases, WaiterStates
<1>2. CountInv'
  BY DEF IInv, TypeOK, CountInv, StoreDrop, DropLifecycle
<1>3. LeaseInv'
  BY LifecycleAssumption DEF IInv, TypeOK, CountInv, LeaseInv, LeaseInvOf, StoreDrop, DropLifecycle, Phases
<1>4. WaiterInv'
  BY LifecycleAssumption DEF IInv, TypeOK, CountInv, LeaseInv, LeaseInvOf, WaiterInv, StoreDrop, DropLifecycle, WaiterStates
<1>5. QED
  BY <1>1, <1>2, <1>3, <1>4 DEF IInv

LEMMA ProcessExitStep ==
    ASSUME IInv, NEW s \in Stores, ProcessExit(s)
    PROVE  IInv'
<1>1. TypeOK'
  BY FS_EmptySet, LifecycleAssumption DEF IInv, TypeOK, CountInv, ProcessExit, Phases, WaiterStates
<1>2. CountInv'
  BY FS_EmptySet DEF IInv, TypeOK, CountInv, ProcessExit
<1>3. LeaseInv'
  BY FS_EmptySet, LifecycleAssumption DEF IInv, TypeOK, CountInv, LeaseInv, LeaseInvOf, ProcessExit, Phases
<1>4. WaiterInv'
  BY FS_EmptySet, LifecycleAssumption DEF IInv, TypeOK, CountInv, LeaseInv, LeaseInvOf, WaiterInv, ProcessExit, WaiterStates
<1>5. QED
  BY <1>1, <1>2, <1>3, <1>4 DEF IInv

LEMMA NextStep == IInv /\ [Next]_vars => IInv'
<1> SUFFICES ASSUME IInv, [Next]_vars PROVE IInv'
  OBVIOUS
<1>1. CASE UNCHANGED vars
  BY <1>1 DEF IInv, TypeOK, CountInv, LeaseInv, LeaseInvOf, WaiterInv, vars
<1>2. CASE Next
  BY <1>2, OpenStep, OpenOkStep, OpenErrStep, AdmitStep, FinishStep, LoseStep,
     QuarantineStep, StrayStopsStep, CloseEnableStep, CloseCheckStep,
     CloseLeaveStep, StoreDropStep, ProcessExitStep
     DEF Next
<1>3. QED
  BY <1>1, <1>2

\* The inductive invariant holds in every state of the lifecycle.
THEOREM Invariant == Spec => []IInv
BY InitIInv, NextStep, PTL DEF Spec

\* Every state of the lifecycle is well typed; in particular the counter
\* never underflows in OperationGuard::drop and never passes usize::MAX.
THEOREM TypeCorrect == Spec => []TypeOK
BY Invariant, PTL DEF IInv

\* Only the owner of the root has outstanding or stray work.
THEOREM ExclusiveWork == Spec => []WorkOnlyUnderLease
<1>1. IInv => WorkOnlyUnderLease
  BY DEF IInv, LeaseInv, LeaseInvOf, WorkOnlyUnderLease, Working
<1>2. QED
  BY <1>1, Invariant, PTL

\* A close() that returned Ok left nothing running and the lock free, and a
\* healthy instance leaves no lock behind (close, OperationGuard::drop).
THEOREM EndFrees == Spec => []EndedMeansFree
<1>1. ASSUME IInv, NEW s \in Stores, NEW w \in Waiters, waiter[s][w] = "closed"
      PROVE  ~Working(s) /\ holder # s /\ closing[s]
  BY <1>1 DEF IInv, LeaseInv, LeaseInvOf, WaiterInv, Working
<1>2. ASSUME IInv, NEW s \in Stores
      PROVE  /\ phase[s] = "gone" /\ ~unhealthy[s] => holder # s
             /\ closing[s] /\ guards[s] = {} /\ phase[s] = "open" /\ ~unhealthy[s] => holder # s
  BY <1>2 DEF IInv, LeaseInv, LeaseInvOf
<1>3. IInv => EndedMeansFree
  BY <1>1, <1>2 DEF EndedMeansFree
<1>4. QED
  BY <1>3, Invariant, PTL

\* An instance whose retirement is uncertain stays so, and keeps the lock.
LEMMA UncertainStays ==
    ASSUME IInv, [Next]_vars, NEW s \in Stores, unhealthy[s], phase'[s] # "absent"
    PROVE  unhealthy'[s] /\ (holder = s => holder' = s)
<1> SUFFICES ASSUME Next PROVE unhealthy'[s] /\ (holder = s => holder' = s)
  BY DEF vars
<1>1. PICK r \in Stores :
        \/ \E g \in Guards : Open(r, g) \/ Admit(r, g) \/ Finish(r, g) \/ Lose(r, g)
        \/ OpenOk(r) \/ OpenErr(r) \/ Quarantine(r) \/ StrayStops(r)
        \/ \E w \in Waiters : CloseEnable(r, w) \/ CloseCheck(r, w) \/ CloseLeave(r, w)
        \/ StoreDrop(r) \/ ProcessExit(r)
  BY DEF Next
<1>2. CASE \E g \in Guards : Open(r, g) \/ Admit(r, g) \/ Finish(r, g) \/ Lose(r, g)
  BY <1>2, LifecycleAssumption, ZenonT(60) DEF Open, Acquirable, Admit, Finish, Lose, MarkUncertain, Retirable,
     ReleaseLeaseOk, ReleaseLeaseErr, Unlock, UnlockFails, IInv, TypeOK
<1>3. CASE \E w \in Waiters : CloseEnable(r, w) \/ CloseCheck(r, w) \/ CloseLeave(r, w)
  BY <1>3, LifecycleAssumption DEF CloseEnable, CloseCheck, CloseLeave,
     ReleaseLeaseOk, ReleaseLeaseErr, Unlock, UnlockFails, IInv, TypeOK
<1>4. CASE ProcessExit(r)
  BY <1>4 DEF ProcessExit, IInv, TypeOK
<1>5. CASE OpenOk(r) \/ OpenErr(r) \/ Quarantine(r) \/ StrayStops(r) \/ StoreDrop(r)
  BY <1>5, ZenonT(60) DEF OpenOk, OpenErr, Quarantine, MarkUncertain, StrayStops, StoreDrop, DropLifecycle, IInv, TypeOK
<1>6. QED
  BY <1>1, <1>2, <1>3, <1>4, <1>5

\* Only the end of the process takes the lock from a quarantined instance.
THEOREM QuarantineHolds == Spec => QuarantineKeepsLease
<1> DEFINE Keeps == \A s \in Stores :
        unhealthy[s] /\ holder = s /\ holder' # s => phase'[s] = "absent"
<1>1. ASSUME IInv, [Next]_vars
      PROVE  [Keeps]_vars
  <2> SUFFICES ASSUME NEW s \in Stores, unhealthy[s], holder = s, holder' # s
               PROVE  phase'[s] = "absent"
    OBVIOUS
  <2>1. QED
    BY <1>1, UncertainStays
<1>2. QED
  BY <1>1, Invariant, PTL DEF Spec, QuarantineKeepsLease

\* The lifecycle implements exclusive ownership of the root.
THEOREM ImplementsOwnership == Spec => OwnershipSpec
<1>1. Init => Ownership!Init
  BY DEF Init, Ownership!Init, Working
<1>2. ASSUME IInv, IInv', [Next]_vars
      PROVE  [Ownership!Next]_(Ownership!vars)
  <2> DEFINE W == {s \in Stores : Working(s)}
  <2>1. W \subseteq {holder} /\ W' \subseteq {holder'}
    BY <1>2, SMTT(60) DEF IInv, LeaseInv, LeaseInvOf, Working
  <2>2. \/ holder' = holder
        \/ holder = NoStore /\ holder' \in Stores
        \/ holder \in Stores /\ holder' = NoStore
    BY <1>2, LifecycleAssumption, SMTT(60)
       DEF IInv, TypeOK, vars, Next, Open, Acquirable, OpenOk, OpenErr, Admit, Finish, Lose, Quarantine,
           StrayStops, CloseEnable, CloseCheck, CloseLeave, StoreDrop, ProcessExit,
           DropLifecycle, ReleaseLeaseOk, ReleaseLeaseErr, Unlock, UnlockFails
  <2>3. CASE holder' = holder
    <3>1. CASE holder \in Stores
      BY <2>1, <2>3, <3>1 DEF Ownership!Next, Ownership!Work
    <3>2. CASE holder = NoStore
      BY <2>1, <2>3, <3>2, LifecycleAssumption DEF Ownership!vars
    <3>3. QED
      BY <3>1, <3>2, <1>2 DEF IInv, TypeOK
  <2>4. CASE holder = NoStore /\ holder' \in Stores
    BY <2>1, <2>4 DEF Ownership!Next, Ownership!Acquire
  <2>5. CASE holder \in Stores /\ holder' = NoStore
    BY <2>1, <2>5, LifecycleAssumption DEF Ownership!Next, Ownership!Release
  <2>6. QED
    BY <2>2, <2>3, <2>4, <2>5
<1>3. QED
  BY <1>1, <1>2, Invariant, PTL DEF Spec, OwnershipSpec, Ownership!Spec
=============================================================================
